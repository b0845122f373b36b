-------------------------- MODULE RouterThreadsProof --------------------------
(***************************************************************************)
(* Proofs about RouterThreads, for queues of any capacity, any number of   *)
(* goodbyes and any timers: the SPI thread never sleeps on a reason to run,*)
(* and none of the four jams ever ends.                                    *)
(***************************************************************************)
EXTENDS RouterThreads, TLAPS

Calls == {"enqueue", "send", "post"}

(* Every packet for the radio is followed by the post for it.              *)
Paired(calls) ==
  \A k \in 1 .. Len(calls) :
    calls[k] = "send" => k + 1 \in 1 .. Len(calls) /\ calls[k + 1] = "post"

(* A packet that the SPI thread has not been told of.                      *)
Unposted == \E t \in Callers : At(t, "post")

(* The pin was high when the SPI thread looked at it, and the queue empty; *)
(* what came since has posted, or is about to.                             *)
AwakeInv ==
  /\ \A t \in Callers : Paired(todo[t])
  /\ spi \in {"size", "wait"} /\ wait_on_slave = 0 => ~ slave_ready
  /\ spi = "wait" /\ wait_on_slave = 0 /\ tx_buffer > 0 => Unposted

IInv == TypeOK /\ AwakeInv

-----------------------------------------------------------------------------
(* The calls a thread may have ahead.                                      *)

(* What is left after a call is still in pairs.                            *)
LEMMA TailPaired ==
  ASSUME NEW calls \in Seq(Calls), calls # <<>>, Paired(calls)
  PROVE  Tail(calls) \in Seq(Calls) /\ Paired(Tail(calls))
<1>1. /\ Tail(calls) \in Seq(Calls)
      /\ Len(Tail(calls)) = Len(calls) - 1 /\ Len(calls) \in Nat
      /\ \A k \in 1 .. Len(Tail(calls)) : Tail(calls)[k] = calls[k + 1]
  OBVIOUS
<1>2. SUFFICES ASSUME NEW k \in 1 .. Len(Tail(calls)), Tail(calls)[k] = "send"
               PROVE  k + 1 \in 1 .. Len(Tail(calls)) /\ Tail(calls)[k + 1] = "post"
  BY <1>1 DEF Paired
<1>3. k + 1 \in 1 .. Len(calls) /\ calls[k + 1] = "send"
  BY <1>1, <1>2
<1>4. (k + 1) + 1 \in 1 .. Len(calls) /\ calls[(k + 1) + 1] = "post"
  BY <1>3 DEF Paired
<1> QED
  BY <1>1, <1>4

(* After a packet for the radio, the post is next.                         *)
LEMMA PostIsNext ==
  ASSUME NEW calls \in Seq(Calls), calls # <<>>, Head(calls) = "send", Paired(calls)
  PROVE  Tail(calls) # <<>> /\ Head(Tail(calls)) = "post"
<1>1. 1 \in 1 .. Len(calls) /\ calls[1] = "send"
  OBVIOUS
<1>2. 1 + 1 \in 1 .. Len(calls) /\ calls[1 + 1] = "post"
  BY <1>1 DEF Paired
<1>3. /\ Tail(calls) \in Seq(Calls) /\ Len(Tail(calls)) = Len(calls) - 1
      /\ \A k \in 1 .. Len(Tail(calls)) : Tail(calls)[k] = calls[k + 1]
  OBVIOUS
<1>4. 1 \in 1 .. Len(Tail(calls)) /\ Tail(calls)[1] = "post"
  BY <1>2, <1>3
<1> QED
  BY <1>3, <1>4

(* Goodbyes are pairs.                                                     *)
LEMMA GoodbyesPaired ==
  ASSUME NEW n \in Nat
  PROVE  Goodbyes(n) \in Seq(Calls) /\ Paired(Goodbyes(n))
<1>1. /\ Goodbyes(n) \in Seq(Calls) /\ Len(Goodbyes(n)) = 2 * n
      /\ \A k \in 1 .. 2 * n : Goodbyes(n)[k] = IF k % 2 = 1 THEN "send" ELSE "post"
  BY DEF Goodbyes, Calls
<1>2. SUFFICES ASSUME NEW k \in 1 .. 2 * n, Goodbyes(n)[k] = "send"
               PROVE  k + 1 \in 1 .. 2 * n /\ Goodbyes(n)[k + 1] = "post"
  BY <1>1 DEF Paired
<1>3. k % 2 = 1
  BY <1>1, <1>2
<1>4. k + 1 \in 1 .. 2 * n /\ (k + 1) % 2 # 1
  BY <1>3
<1> QED
  BY <1>1, <1>4

(* All that threads begin are calls in pairs.                              *)
LEMMA BegunPaired ==
  ASSUME NEW calls,
         calls \in HandlerCalls \/ \E t \in Timers : calls \in TimerCalls(t)
  PROVE  calls \in Seq(Calls) /\ Paired(calls)
<1>1. /\ <<>> \in Seq(Calls) /\ Paired(<<>>)
      /\ queueEnqueue \in Seq(Calls) /\ Paired(queueEnqueue)
  BY DEF Paired, queueEnqueue, Calls
<1>2. /\ queueEnqueue \o queueEnqueue \in Seq(Calls)
      /\ Paired(queueEnqueue \o queueEnqueue)
  BY DEF Paired, queueEnqueue, Calls
<1>3. /\ queueEnqueue \o sgSerialSend \in Seq(Calls)
      /\ Paired(queueEnqueue \o sgSerialSend)
  BY DEF Paired, queueEnqueue, sgSerialSend, Calls
<1>4. /\ queueEnqueue \o queueEnqueue \o sgSerialSend \in Seq(Calls)
      /\ Paired(queueEnqueue \o queueEnqueue \o sgSerialSend)
  BY DEF Paired, queueEnqueue, sgSerialSend, Calls
<1> QED
  BY <1>1, <1>2, <1>3, <1>4, GoodbyesPaired DEF HandlerCalls, TimerCalls

-----------------------------------------------------------------------------
(* A thread that begins or goes on changes nothing but its own calls.      *)

(* A thread's new calls are in pairs, and the other threads keep theirs.   *)
LEMMA DoesPaired ==
  ASSUME IInv, NEW t \in Callers, NEW calls \in Seq(Calls), Paired(calls), Does(t, calls)
  PROVE  /\ todo' \in [Callers -> Seq(Calls)]
         /\ \A u \in Callers : Paired(todo'[u])
         /\ todo'[t] = calls
         /\ \A u \in Callers : u # t => todo'[u] = todo[u]
BY DEF IInv, TypeOK, AwakeInv, Does, Calls

(* One that begins has no post ahead, so whoever has one keeps it.         *)
LEMMA IdleKeepsPosts ==
  ASSUME IInv, NEW t \in Callers, Idle(t), NEW calls \in Seq(Calls), Paired(calls),
         Does(t, calls), Unposted
  PROVE  Unposted'
<1>1. PICK u \in Callers : At(u, "post")
  BY DEF Unposted
<1>2. u # t
  BY <1>1 DEF Idle, At
<1>3. todo'[u] = todo[u]
  BY <1>2, DoesPaired
<1> QED
  BY <1>1, <1>3 DEF Unposted, At

(* What a thread begins keeps the invariant, if nothing but the flags, the *)
(* place of the dispatch thread and the packets in dispatch change.        *)
LEMMA StartsKeep ==
  ASSUME IInv, NEW t \in Callers, Idle(t), NEW calls \in Seq(Calls), Paired(calls),
         Does(t, calls), UNCHANGED <<tx_buffer, lineVars, spiVars>>
  PROVE  AwakeInv' /\ todo' \in [Callers -> Seq(Calls)]
BY DoesPaired, IdleKeepsPosts DEF IInv, AwakeInv, lineVars, spiVars

-----------------------------------------------------------------------------
(* The actions, by who takes them.                                         *)

(* The calls of a thread but the SPI thread.                               *)
LEMMA CallKeeps ==
  ASSUME IInv, NEW t \in Callers, Call(t)
  PROVE  IInv'
<1> USE CapacityAssumption
<1>1. todo[t] \in Seq(Calls) /\ todo[t] # <<>> /\ Paired(todo[t])
  BY DEF IInv, TypeOK, AwakeInv, Calls, Call, Enqueue, Send, Post, At
<1>2. Tail(todo[t]) \in Seq(Calls) /\ Paired(Tail(todo[t]))
  BY <1>1, TailPaired
<1>3. Does(t, Tail(todo[t]))
  BY DEF Call, Enqueue, Send, Post
<1>4. /\ todo' \in [Callers -> Seq(Calls)]
      /\ \A u \in Callers : Paired(todo'[u])
      /\ todo'[t] = Tail(todo[t])
      /\ \A u \in Callers : u # t => todo'[u] = todo[u]
  BY <1>2, <1>3, DoesPaired
<1>5. CASE Enqueue(t)
  <2>1. Unposted => Unposted'
    BY <1>4, <1>5 DEF Unposted, At, Enqueue
  <2> QED
    BY <1>4, <1>5, <2>1 DEF IInv, TypeOK, AwakeInv, Enqueue, Calls, lineVars, spiVars, optVars
<1>6. CASE Send(t)
  <2>1. todo'[t] # <<>> /\ Head(todo'[t]) = "post"
    BY <1>1, <1>4, <1>6, PostIsNext DEF Send, At
  <2>2. Unposted'
    BY <2>1 DEF Unposted, At
  <2> QED
    BY <1>4, <1>6, <2>2 DEF IInv, TypeOK, AwakeInv, Send, Calls, lineVars, spiVars, optVars
<1>7. CASE Post(t)
  <2>1. wait_on_slave' \in Nat \ {0}
    BY <1>7 DEF IInv, TypeOK, Post
  <2> QED
    BY <1>4, <1>7, <2>1 DEF IInv, TypeOK, AwakeInv, Post, Calls, spiVars, optVars
<1> QED
  BY <1>5, <1>6, <1>7 DEF Call

(* The SPI thread, and the pin.                                            *)
LEMMA SerialKeeps ==
  ASSUME IInv, Serial \/ sgSerialSlaveSending
  PROVE  IInv'
<1> USE CapacityAssumption DEF IInv, TypeOK, AwakeInv
<1>1. todo' = todo /\ (Unposted => Unposted')
  BY DEF Unposted, At, Serial, SpiReadPin, SpiReadSize, SpiWait, SpiTake, SpiTransfer,
         SpiDeliver, SpiSettle, SpiAt, sgSerialSlaveSending
<1>2. CASE SpiReadPin
  BY <1>1, <1>2 DEF SpiReadPin, SpiAt, SpiTo, lineVars, optVars
<1>3. CASE SpiReadSize
  BY <1>1, <1>3 DEF SpiReadSize, SpiAt, SpiTo, lineVars, optVars
<1>4. CASE SpiWait
  BY <1>1, <1>4 DEF SpiWait, SpiAt, SpiTo, optVars
<1>5. CASE SpiTake
  BY <1>1, <1>5 DEF SpiTake, SpiTransfers, SpiStart, SpiAt, SpiTo, optVars
<1>6. CASE SpiTransfer
  BY <1>1, <1>6 DEF SpiTransfer, SpiAt, SpiTo, optVars
<1>7. CASE SpiDeliver
  BY <1>1, <1>7 DEF SpiDeliver, SpiAt, SpiTo, lineVars, optVars
<1>8. CASE SpiSettle
  BY <1>1, <1>8 DEF SpiSettle, SpiStart, SpiAt, SpiTo, optVars
<1>9. CASE sgSerialSlaveSending
  BY <1>1, <1>9 DEF sgSerialSlaveSending, spiVars, optVars
<1> QED
  BY <1>2, <1>3, <1>4, <1>5, <1>6, <1>7, <1>8, <1>9 DEF Serial

(* The dispatch thread.                                                    *)
LEMMA DispatcherKeeps ==
  ASSUME IInv, Dispatcher
  PROVE  IInv'
<1> USE CapacityAssumption
<1>1. CASE UNCHANGED todo
  <2>1. Unposted => Unposted'
    BY <1>1 DEF Unposted, At
  <2>2. /\ UNCHANGED <<tx_buffer, lineVars, spiVars>>
        /\ queued' \in 0 .. DispatchCapacity
        /\ dispatching' \in {"dequeue", "check", "dump"}
        /\ dispatch_pause' \in BOOLEAN /\ dumping_dispatch' \in BOOLEAN
    <3>1. CASE DispatchDequeue
      BY <3>1 DEF IInv, TypeOK, DispatchDequeue, DispatchAt, optVars
    <3>2. CASE DispatchCheck
      BY <3>2 DEF IInv, TypeOK, DispatchCheck, DispatchAt, optVars
    <3>3. CASE DispatchDump
      <4>1. queued \in 1 .. DispatchCapacity /\ queued' = queued - 1
        BY <3>3 DEF IInv, TypeOK, DispatchDump
      <4>2. /\ dispatching' \in {dispatching, "dequeue"}
            /\ dumping_dispatch' \in {dumping_dispatch, FALSE}
            /\ dispatch_pause' = dispatch_pause
            /\ UNCHANGED <<tx_buffer, lineVars, spiVars>>
        BY <3>3, Zenon DEF DispatchDump, DispatchAt
      <4>3. queued' \in 0 .. DispatchCapacity
        BY <4>1
      <4>4. dispatch_pause' \in BOOLEAN /\ dumping_dispatch' \in BOOLEAN
        BY <4>2, Zenon DEF IInv, TypeOK
      <4>5. dispatching' \in {"dequeue", "check", "dump"}
        BY <4>2 DEF IInv, TypeOK
      <4> QED
        BY <4>2, <4>3, <4>4, <4>5, Zenon
    <3> QED
      BY <3>1, <3>2, <3>3 DEF Dispatcher
  <2> QED
    BY <1>1, <2>1, <2>2 DEF IInv, TypeOK, AwakeInv, lineVars, spiVars
<1>2. CASE ~ UNCHANGED todo
  <2>1. /\ DispatchAt("check") /\ dispatching' = "dequeue" /\ UNCHANGED <<queued, optVars>>
        /\ \E calls \in HandlerCalls : Does("dispatch", calls)
    BY <1>2 DEF Dispatcher, DispatchDequeue, DispatchCheck, DispatchDump
  <2>2. PICK calls \in HandlerCalls : Does("dispatch", calls)
    BY <2>1
  <2>3. calls \in Seq(Calls) /\ Paired(calls)
    BY BegunPaired
  <2>4. Idle("dispatch") /\ UNCHANGED <<tx_buffer, lineVars, spiVars>> /\ "dispatch" \in Callers
    BY <2>1 DEF DispatchAt, Callers
  <2>5. AwakeInv' /\ todo' \in [Callers -> Seq(Calls)]
    BY <2>2, <2>3, <2>4, StartsKeep
  <2> QED
    BY <2>1, <2>4, <2>5 DEF IInv, TypeOK, Calls, lineVars, spiVars, optVars
<1> QED
  BY <1>1, <1>2

(* The timers and the commands.                                            *)
LEMMA StarterKeeps ==
  ASSUME IInv,
         \/ \E t \in Timers : TimerTurn(t)
         \/ InsertPacket \/ DropDevice \/ DropQueue \/ PauseDispatch \/ ResumeDispatch
  PROVE  IInv'
<1>1. PICK t \in Callers, calls \in Seq(Calls) : Paired(calls) /\ Starts(t, calls)
  <2>1. CASE \E t \in Timers : TimerTurn(t)
    <3>1. PICK t \in Timers : TimerTurn(t)
      BY <2>1
    <3>2. PICK calls \in TimerCalls(t) : Starts(t, calls)
      BY <3>1 DEF TimerTurn
    <3> QED
      BY <3>2, BegunPaired DEF Callers
  <2>2. CASE InsertPacket
    BY <2>2, BegunPaired DEF InsertPacket, HandlerCalls, Callers
  <2>3. CASE DropDevice
    BY <2>3, GoodbyesPaired, CapacityAssumption DEF DropDevice, Callers
  <2>4. CASE DropQueue \/ PauseDispatch \/ ResumeDispatch
    BY <2>4, BegunPaired DEF DropQueue, PauseDispatch, ResumeDispatch, HandlerCalls, Callers
  <2> QED
    BY <2>1, <2>2, <2>3, <2>4
<1>2. AwakeInv' /\ todo' \in [Callers -> Seq(Calls)]
  BY <1>1, StartsKeep DEF Starts
<1>3. /\ UNCHANGED <<queued, tx_buffer, lineVars, spiVars, dispatching>>
      /\ dispatch_pause' \in BOOLEAN /\ dumping_dispatch' \in BOOLEAN
  BY <1>1 DEF Starts, IInv, TypeOK, TimerTurn, InsertPacket, DropDevice, DropQueue,
              PauseDispatch, ResumeDispatch, optVars
<1> QED
  BY <1>2, <1>3 DEF IInv, TypeOK, Calls, lineVars, spiVars

-----------------------------------------------------------------------------
(* The invariant holds in every reachable state.                           *)
THEOREM Invariance == Spec => []IInv
<1>1. Init => IInv
  <2> SUFFICES ASSUME Init PROVE IInv
    OBVIOUS
  <2>1. todo \in [Callers -> Seq(Calls)] /\ \A t \in Callers : todo[t] = <<>>
    BY DEF Init
  <2>2. TypeOK
    <3>1. queued \in 0 .. DispatchCapacity /\ tx_buffer \in 0 .. TxCapacity
      BY CapacityAssumption DEF Init
    <3> QED
      BY <2>1, <3>1 DEF Init, TypeOK, Calls
  <2>3. AwakeInv
    BY <2>1 DEF Init, AwakeInv, Paired
  <2> QED
    BY <2>2, <2>3 DEF IInv
<1>2. IInv /\ [Next]_vars => IInv'
  <2> SUFFICES ASSUME IInv, [Next]_vars PROVE IInv'
    OBVIOUS
  <2>1. CASE \E t \in Callers : Call(t)
    BY <2>1, CallKeeps
  <2>2. CASE Serial \/ sgSerialSlaveSending
    BY <2>2, SerialKeeps
  <2>3. CASE Dispatcher
    BY <2>3, DispatcherKeeps
  <2>4. CASE \/ \E t \in Timers : TimerTurn(t)
            \/ InsertPacket \/ DropDevice \/ DropQueue \/ PauseDispatch \/ ResumeDispatch
    BY <2>4, StarterKeeps
  <2>5. CASE UNCHANGED vars
    BY <2>5 DEF IInv, TypeOK, AwakeInv, Unposted, At, vars, lineVars, spiVars, optVars
  <2> QED
    BY <2>1, <2>2, <2>3, <2>4, <2>5 DEF Next
<1> QED
  BY <1>1, <1>2, PTL DEF Spec

(* Type correctness, for every capacity.                                   *)
THEOREM TypeCorrect == Spec => []TypeOK
<1>1. IInv => TypeOK
  BY DEF IInv
<1> QED
  BY <1>1, Invariance, PTL

(* The SPI thread never sleeps on a reason to run (sg_serial_rpi.c:297),   *)
(* for queues of any capacity.                                             *)
THEOREM WakeupSafety == Spec => []NoLostWakeup
<1>1. IInv => NoLostWakeup
  BY CapacityAssumption DEF IInv, AwakeInv, Unposted, NoLostWakeup
<1> QED
  BY <1>1, Invariance, PTL

-----------------------------------------------------------------------------
(* The jams.                                                               *)

(* A step as far as waiting goes: a call goes on, the SPI thread or the    *)
(* dispatch thread makes a step, or a thread without calls begins some, of *)
(* which only the main thread touches the flags.                           *)
LEMMA Steps ==
  ASSUME Next
  PROVE  \/ \E t \in Callers : Call(t)
         \/ Serial \/ sgSerialSlaveSending
         \/ Dispatcher
         \/ \E t \in Callers : \E calls : Starts(t, calls) /\ (t # "main" => UNCHANGED optVars)
<1>1. CASE \E t \in Timers : TimerTurn(t)
  BY <1>1 DEF TimerTurn, Callers
<1>2. CASE DropDevice
  BY <1>2 DEF DropDevice, Callers
<1>3. CASE InsertPacket \/ DropQueue \/ PauseDispatch \/ ResumeDispatch
  BY <1>3 DEF InsertPacket, DropQueue, PauseDispatch, ResumeDispatch, Callers
<1> QED
  BY <1>1, <1>2, <1>3 DEF Next

(* A thread that waits for room goes on waiting while there is none.       *)
LEMMA WaiterWaits ==
  ASSUME IInv, Next, NEW t \in Callers,
         NEW call, At(t, call),
         \/ call = "enqueue" /\ queued = DispatchCapacity
         \/ call = "send" /\ tx_buffer = TxCapacity
  PROVE  At(t, call)'
<1> USE CapacityAssumption
<1>0. t \in DOMAIN todo
  BY DEF IInv, TypeOK
<1>1. SUFFICES todo'[t] = todo[t]
  BY DEF At
<1>2. CASE \E u \in Callers : Call(u)
  <2>1. PICK u \in Callers : Call(u)
    BY <1>2
  <2>2. u # t
    BY <2>1 DEF Call, Enqueue, Send, Post, At
  <2> QED
    BY <1>0, <2>1, <2>2 DEF Call, Enqueue, Send, Post, Does
<1>3. CASE Serial \/ sgSerialSlaveSending
  BY <1>3 DEF Serial, SpiReadPin, SpiReadSize, SpiWait, SpiTake, SpiTransfer, SpiDeliver,
              SpiSettle, SpiAt, sgSerialSlaveSending
<1>4. CASE Dispatcher
  <2>1. t # "dispatch"
    BY <1>4 DEF Dispatcher, DispatchDequeue, DispatchCheck, DispatchDump, DispatchAt, Idle, At
  <2> QED
    BY <1>0, <1>4, <2>1 DEF Dispatcher, DispatchDequeue, DispatchCheck, DispatchDump, Does
<1>5. CASE \E u \in Callers : \E calls : Starts(u, calls)
  BY <1>0, <1>5 DEF Starts, Idle, At, Does
<1> QED
  BY <1>2, <1>3, <1>4, <1>5, Steps

(* A full queue that the dispatch thread does not look at stays full.      *)
LEMMA QueueStaysFull ==
  ASSUME Next, queued = DispatchCapacity, ~ Dispatcher
  PROVE  queued' = queued
<1> USE CapacityAssumption
<1>1. CASE \E t \in Callers : Call(t)
  BY <1>1 DEF Call, Enqueue, Send, Post
<1>2. CASE Serial \/ sgSerialSlaveSending
  BY <1>2 DEF Serial, SpiReadPin, SpiReadSize, SpiWait, SpiTake, SpiTransfer, SpiDeliver,
              SpiSettle, SpiAt, sgSerialSlaveSending
<1>3. CASE \E t \in Callers : \E calls : Starts(t, calls)
  BY <1>3 DEF Starts
<1> QED
  BY <1>1, <1>2, <1>3, Steps

(* A full tx_buffer stays full while the SPI thread waits to deliver.      *)
LEMMA BufferStaysFull ==
  ASSUME Next, tx_buffer = TxCapacity, spi = "deliver", queued = DispatchCapacity
  PROVE  tx_buffer' = tx_buffer /\ spi' = spi
<1> USE CapacityAssumption
<1>1. CASE \E t \in Callers : Call(t)
  BY <1>1 DEF Call, Enqueue, Send, Post, spiVars
<1>2. CASE Serial \/ sgSerialSlaveSending
  BY <1>2 DEF Serial, SpiReadPin, SpiReadSize, SpiWait, SpiTake, SpiTransfer, SpiDeliver,
              SpiSettle, SpiAt, sgSerialSlaveSending, spiVars
<1>3. CASE Dispatcher
  BY <1>3 DEF Dispatcher, DispatchDequeue, DispatchCheck, DispatchDump, DispatchAt, spiVars
<1>4. CASE \E t \in Callers : \E calls : Starts(t, calls)
  BY <1>4 DEF Starts, spiVars
<1> QED
  BY <1>1, <1>2, <1>3, <1>4, Steps

(* No step of anybody ends a jam.                                          *)
LEMMA JamsKeep ==
  ASSUME IInv, Next
  PROVE  /\ SelfJam => SelfJam'
         /\ CycleJam => CycleJam'
         /\ LockJam => LockJam'
         /\ PauseJam => PauseJam'
<1> USE CapacityAssumption
<1>1. ASSUME NEW call, At("dispatch", call)
      PROVE  ~ Dispatcher
  BY <1>1 DEF Dispatcher, DispatchDequeue, DispatchCheck, DispatchDump, DispatchAt, Idle, At
<1>2. "dispatch" \in Callers /\ "main" \in Callers
  BY DEF Callers
<1>3. SelfJam => SelfJam'
  BY <1>1, <1>2, WaiterWaits, QueueStaysFull DEF SelfJam
<1>4. CycleJam => CycleJam'
  BY <1>1, <1>2, WaiterWaits, QueueStaysFull, BufferStaysFull DEF CycleJam
<1>5. LockJam => LockJam'
  <2> SUFFICES ASSUME LockJam PROVE LockJam'
    OBVIOUS
  <2>1. CASE Serial
    BY <2>1 DEF Serial, SpiReadPin, SpiReadSize, SpiWait, SpiTake, SpiTransfer, SpiDeliver,
                SpiSettle, SpiAt, SpiTo, LockJam
  <2>2. CASE ~ Serial
    <3>1. UNCHANGED spiVars
      <4>1. CASE \E t \in Callers : Call(t)
        BY <4>1 DEF Call, Enqueue, Send, Post
      <4>2. CASE sgSerialSlaveSending
        BY <4>2 DEF sgSerialSlaveSending
      <4>3. CASE Dispatcher
        BY <4>3 DEF Dispatcher, DispatchDequeue, DispatchCheck, DispatchDump, DispatchAt
      <4>4. CASE \E t \in Callers : \E calls : Starts(t, calls)
        BY <4>4 DEF Starts
      <4> QED
        BY <2>2, <4>1, <4>2, <4>3, <4>4, Steps
    <3> QED
      BY <3>1 DEF LockJam, spiVars
  <2> QED
    BY <2>1, <2>2
<1>6. PauseJam => PauseJam'
  <2> SUFFICES ASSUME PauseJam PROVE PauseJam'
    OBVIOUS
  <2>1. todo["main"] # <<>>
    BY DEF PauseJam, At
  <2>2. ~ Dispatcher
    BY DEF PauseJam, Dispatcher, DispatchDequeue, DispatchCheck, DispatchDump, DispatchAt
  <2>3. UNCHANGED <<dispatch_pause, dispatching>>
    <3>1. CASE \E t \in Callers : Call(t)
      BY <3>1 DEF Call, Enqueue, Send, Post, optVars
    <3>2. CASE Serial \/ sgSerialSlaveSending
      BY <3>2 DEF Serial, SpiReadPin, SpiReadSize, SpiWait, SpiTake, SpiTransfer, SpiDeliver,
                  SpiSettle, SpiAt, sgSerialSlaveSending, optVars
    <3>3. CASE \E t \in Callers : \E calls : Starts(t, calls) /\ (t # "main" => UNCHANGED optVars)
      BY <2>1, <3>3 DEF Starts, Idle, optVars
    <3> QED
      BY <2>2, <3>1, <3>2, <3>3, Steps
  <2>4. queued' = DispatchCapacity
    BY <2>2, QueueStaysFull DEF PauseJam
  <2>5. CASE At("main", "enqueue")
    BY <1>2, <2>3, <2>4, <2>5, WaiterWaits DEF PauseJam
  <2>6. CASE At("main", "send") /\ tx_buffer = TxCapacity /\ spi = "deliver"
    BY <1>2, <2>3, <2>4, <2>6, WaiterWaits, BufferStaysFull DEF PauseJam
  <2> QED
    BY <2>5, <2>6 DEF PauseJam
<1> QED
  BY <1>3, <1>4, <1>5, <1>6

(* The jams last (payload_handlers.c:129, sg_serial_rpi.c:325 and :342,    *)
(* sansgrid_daemon.c:160), for queues of any capacity.                     *)
THEOREM JamsAreForEver == Spec => JamsLast
<1>1. IInv /\ [Next]_vars => [/\ SelfJam => SelfJam'
                              /\ CycleJam => CycleJam'
                              /\ LockJam => LockJam'
                              /\ PauseJam => PauseJam']_vars
  BY JamsKeep
<1> QED
  BY <1>1, Invariance, PTL DEF Spec, JamsLast
=============================================================================
