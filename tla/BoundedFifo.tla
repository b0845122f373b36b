---------------------------- MODULE BoundedFifo ----------------------------
(***************************************************************************)
(* What the dispatch queue promises: a FIFO of at most Capacity packets on *)
(* which each call takes effect at one instant between its call and its    *)
(* return.  A put that does not fit and a get that finds nothing wait; the *)
(* try variants may give up instead, but only when the fifo is full (or    *)
(* empty) once the other calls in progress are counted.                    *)
(***************************************************************************)
EXTENDS Integers, FiniteSets, Sequences

CONSTANTS Threads, Producers, Consumers, Message, Capacity, Nothing

VARIABLES
  fifo,  \* the packets, oldest first
  op,    \* the call each thread is in
  item   \* the packet of that call

fvars == <<fifo, op, item>>

Ops == {"none", "put", "tryPut", "get", "tryGet", "done"}

Init ==
  /\ fifo = <<>>
  /\ op = [t \in Threads |-> "none"]
  /\ item = [t \in Threads |-> Nothing]

Set(t, o, m) ==
  /\ op' = [op EXCEPT ![t] = o]
  /\ item' = [item EXCEPT ![t] = m]

Begin(t) ==
  /\ op[t] = "none"
  /\ \/ t \in Producers /\ \E m \in Message, o \in {"put", "tryPut"} : Set(t, o, m)
     \/ t \in Consumers /\ \E o \in {"get", "tryGet"} : Set(t, o, Nothing)
  /\ UNCHANGED fifo

(* A try call that found room no longer differs from a waiting one.        *)
Commit(t) ==
  /\ \/ op[t] = "tryPut" /\ Len(fifo) < Capacity /\ Set(t, "put", item[t])
     \/ op[t] = "tryGet" /\ fifo # <<>> /\ Set(t, "get", item[t])
  /\ UNCHANGED fifo

Put(t) ==
  /\ op[t] = "put"
  /\ Len(fifo) < Capacity
  /\ fifo' = Append(fifo, item[t])
  /\ Set(t, "done", Nothing)

Get(t) ==
  /\ op[t] = "get"
  /\ fifo # <<>>
  /\ fifo' = Tail(fifo)
  /\ Set(t, "done", Head(fifo))

Others(t, ops) == {u \in Threads \ {t} : op[u] \in ops}

(* Calls of the other threads that may hold one of the missing slots       *)
(* (packets) are puts (gets) before, or any call just after, their effect. *)
GiveUp(t) ==
  /\ \/ op[t] = "tryPut" /\ Len(fifo) + Cardinality(Others(t, {"put", "done"})) >= Capacity
     \/ op[t] = "tryGet" /\ Len(fifo) <= Cardinality(Others(t, {"get", "done"}))
  /\ Set(t, "none", Nothing)
  /\ UNCHANGED fifo

Return(t) ==
  /\ op[t] = "done"
  /\ Set(t, "none", Nothing)
  /\ UNCHANGED fifo

Next == \E t \in Threads :
          Begin(t) \/ Commit(t) \/ Put(t) \/ Get(t) \/ GiveUp(t) \/ Return(t)

Spec == Init /\ [][Next]_fvars
=============================================================================
