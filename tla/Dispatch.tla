------------------------------ MODULE Dispatch ------------------------------
(***************************************************************************)
(* The queue of dispatch.c that carries every packet between the threads   *)
(* of the Sansgrid Router: a ring buffer of Size slots guarded by one      *)
(* mutex (queue_lock) and two counting semaphores, queue_full_lock (slots  *)
(* still free) and queue_empty_lock (elements ready).                      *)
(*                                                                         *)
(* Each C statement that touches shared memory is one action, because      *)
(* queueSize reads the two indices without the mutex and can therefore see *)
(* the state between any two of them.  pc[t] is where thread t is in a     *)
(* call, data[t] is its serial_data argument (or out parameter).           *)
(***************************************************************************)
EXTENDS Integers, FiniteSets, Sequences

CONSTANTS
  Threads,    \* every thread that holds a pointer to the queue
  Producers,  \* the threads that call queueEnqueue or queueTryEnqueue
  Consumers,  \* the threads that call queueDequeue or queueTryDequeue
  Observers,  \* the threads that call queueSize
  Message,    \* the packets (void * in the code)
  Size,       \* the size argument of queueInit
  Nothing,    \* contents of a slot that malloc returned and nobody wrote
  Nobody      \* the owner of a free mutex

(* queueInit refuses a size below 2 and returns NULL (dispatch.c:161).     *)
ASSUME SizeAssumption == Size \in Nat /\ Size >= 2

ASSUME ThreadAssumption ==
  /\ Producers \subseteq Threads
  /\ Consumers \subseteq Threads
  /\ Observers \subseteq Threads
  /\ IsFiniteSet(Threads)
  /\ Nobody \notin Threads
  /\ Nothing \notin Message

VARIABLES
  list,               \* the slots
  queue_index_start,  \* the next slot to dequeue
  queue_index_end,    \* the next slot to enqueue into
  queue_lock,         \* owner of the mutex
  queue_full_lock,    \* semaphore: slots that may still be claimed
  queue_empty_lock,   \* semaphore: elements that may still be claimed
  pc,
  data,
  lower_bound         \* the local of queueSize

semaphores == <<queue_full_lock, queue_empty_lock>>
indices    == <<queue_index_start, queue_index_end>>
vars       == <<list, indices, queue_lock, semaphores, pc, data, lower_bound>>

Slots    == 0 .. Size - 1
Capacity == Size - 1

EnqueueSteps == {"enqWait", "enqTry", "enqLock", "enqWrite", "enqInc",
                 "enqPost", "enqUnlock"}
DequeueSteps == {"deqWait", "deqTry", "deqLock", "deqRead", "deqInc",
                 "deqPost", "deqUnlock"}
Steps        == EnqueueSteps \cup DequeueSteps \cup {"idle", "sizeEnd"}

modInc(a, m) == (a + 1) % m

(* Elements between two indices of the ring, as queueSize computes it.     *)
Between(lower, upper) ==
  IF upper < lower THEN upper + Size - lower ELSE upper - lower

Used == Between(queue_index_start, queue_index_end)

At(t, step)   == pc[t] = step
GoTo(t, step) == pc' = [pc EXCEPT ![t] = step]

(* Mutant of Init: one free slot too many, as if no slot were kept unused. *)
InitAllSlotsFree ==
  /\ list = [s \in Slots |-> Nothing]
  /\ queue_index_start = 0
  /\ queue_index_end = 0
  /\ queue_lock = Nobody
  /\ queue_full_lock = Size
  /\ queue_empty_lock = 0
  /\ pc = [t \in Threads |-> "idle"]
  /\ data = [t \in Threads |-> Nothing]
  /\ lower_bound = [t \in Threads |-> 0]

Init ==
  /\ list = [s \in Slots |-> Nothing]
  /\ queue_index_start = 0
  /\ queue_index_end = 0
  /\ queue_lock = Nobody
  /\ queue_full_lock = Size - 1
  /\ queue_empty_lock = 0
  /\ pc = [t \in Threads |-> "idle"]
  /\ data = [t \in Threads |-> Nothing]
  /\ lower_bound = [t \in Threads |-> 0]

-----------------------------------------------------------------------------
(* Calls.  A Try variant passes sem_trywait to enqueue/dequeue, the other  *)
(* sem_wait.                                                               *)

queueEnqueue(t, m) ==
  /\ At(t, "idle") /\ GoTo(t, "enqWait")
  /\ data' = [data EXCEPT ![t] = m]
  /\ UNCHANGED <<list, indices, queue_lock, semaphores, lower_bound>>

queueTryEnqueue(t, m) ==
  /\ At(t, "idle") /\ GoTo(t, "enqTry")
  /\ data' = [data EXCEPT ![t] = m]
  /\ UNCHANGED <<list, indices, queue_lock, semaphores, lower_bound>>

queueDequeue(t) ==
  /\ At(t, "idle") /\ GoTo(t, "deqWait")
  /\ UNCHANGED <<list, indices, queue_lock, semaphores, data, lower_bound>>

queueTryDequeue(t) ==
  /\ At(t, "idle") /\ GoTo(t, "deqTry")
  /\ UNCHANGED <<list, indices, queue_lock, semaphores, data, lower_bound>>

(* Mutant of SizeRead: reads the end index first and again at the return.  *)
SizeReadEndTwice(t) ==
  /\ At(t, "idle") /\ GoTo(t, "sizeEnd")
  /\ lower_bound' = [lower_bound EXCEPT ![t] = queue_index_end]
  /\ UNCHANGED <<list, indices, queue_lock, semaphores, data>>

(* queueSize reads start, then end, with no lock (SizeRead, SizeReturn).   *)
SizeRead(t) ==
  /\ At(t, "idle") /\ GoTo(t, "sizeEnd")
  /\ lower_bound' = [lower_bound EXCEPT ![t] = queue_index_start]
  /\ UNCHANGED <<list, indices, queue_lock, semaphores, data>>

(* What queueSize returns if it reads the end index now.                   *)
queueSize(t) == Between(lower_bound[t], queue_index_end)

queueMaxSize == Size

SizeReturn(t) ==
  /\ At(t, "sizeEnd") /\ GoTo(t, "idle")
  /\ lower_bound' = [lower_bound EXCEPT ![t] = 0]
  /\ UNCHANGED <<list, indices, queue_lock, semaphores, data>>

-----------------------------------------------------------------------------
(* enqueue(queue, serial_data, sem_fn)                                     *)

EnqClaim(t) ==
  /\ pc[t] \in {"enqWait", "enqTry"}
  /\ queue_full_lock > 0
  /\ queue_full_lock' = queue_full_lock - 1
  /\ GoTo(t, "enqLock")
  /\ UNCHANGED <<list, indices, queue_lock, queue_empty_lock, data, lower_bound>>

EnqFail(t) ==
  /\ At(t, "enqTry")
  /\ queue_full_lock = 0
  /\ GoTo(t, "idle")
  /\ data' = [data EXCEPT ![t] = Nothing]
  /\ UNCHANGED <<list, indices, queue_lock, semaphores, lower_bound>>

(* Mutant of EnqWrite: stores at the wrong end of the ring.                *)
EnqWriteAtStart(t) ==
  /\ At(t, "enqWrite") /\ GoTo(t, "enqInc")
  /\ list' = [list EXCEPT ![queue_index_start] = data[t]]
  /\ UNCHANGED <<indices, queue_lock, semaphores, data, lower_bound>>

EnqWrite(t) ==
  /\ At(t, "enqWrite") /\ GoTo(t, "enqInc")
  /\ list' = [list EXCEPT ![queue_index_end] = data[t]]
  /\ UNCHANGED <<indices, queue_lock, semaphores, data, lower_bound>>

EnqInc(t) ==
  /\ At(t, "enqInc") /\ GoTo(t, "enqPost")
  /\ queue_index_end' = modInc(queue_index_end, Size)
  /\ UNCHANGED <<list, queue_index_start, queue_lock, semaphores, data, lower_bound>>

(* Mutant of EnqPost: wakes a consumer only when the queue was empty.      *)
EnqPostWhenEmpty(t) ==
  /\ At(t, "enqPost") /\ GoTo(t, "enqUnlock")
  /\ queue_empty_lock' = IF Used = 1 THEN queue_empty_lock + 1 ELSE queue_empty_lock
  /\ UNCHANGED <<list, indices, queue_lock, queue_full_lock, data, lower_bound>>

EnqPost(t) ==
  /\ At(t, "enqPost") /\ GoTo(t, "enqUnlock")
  /\ queue_empty_lock' = queue_empty_lock + 1
  /\ UNCHANGED <<list, indices, queue_lock, queue_full_lock, data, lower_bound>>

(* dequeue(queue, serial_data, sem_fn)                                     *)

DeqClaim(t) ==
  /\ pc[t] \in {"deqWait", "deqTry"}
  /\ queue_empty_lock > 0
  /\ queue_empty_lock' = queue_empty_lock - 1
  /\ GoTo(t, "deqLock")
  /\ UNCHANGED <<list, indices, queue_lock, queue_full_lock, data, lower_bound>>

DeqFail(t) ==
  /\ At(t, "deqTry")
  /\ queue_empty_lock = 0
  /\ GoTo(t, "idle")
  /\ UNCHANGED <<list, indices, queue_lock, semaphores, data, lower_bound>>

(* Mutant of DeqRead: takes the newest packet instead of the oldest.       *)
DeqReadNewest(t) ==
  /\ At(t, "deqRead") /\ GoTo(t, "deqInc")
  /\ data' = [data EXCEPT ![t] = list[(queue_index_end + Size - 1) % Size]]
  /\ UNCHANGED <<list, indices, queue_lock, semaphores, lower_bound>>

DeqRead(t) ==
  /\ At(t, "deqRead") /\ GoTo(t, "deqInc")
  /\ data' = [data EXCEPT ![t] = list[queue_index_start]]
  /\ UNCHANGED <<list, indices, queue_lock, semaphores, lower_bound>>

DeqInc(t) ==
  /\ At(t, "deqInc") /\ GoTo(t, "deqPost")
  /\ queue_index_start' = modInc(queue_index_start, Size)
  /\ UNCHANGED <<list, queue_index_end, queue_lock, semaphores, data, lower_bound>>

(* Mutant of DeqPost: posts the semaphore it waited for, not the other.    *)
DeqPostEmpty(t) ==
  /\ At(t, "deqPost") /\ GoTo(t, "deqUnlock")
  /\ queue_empty_lock' = queue_empty_lock + 1
  /\ UNCHANGED <<list, indices, queue_lock, queue_full_lock, data, lower_bound>>

(* Mutant of DeqPost: wakes a producer only when the queue was full.       *)
DeqPostWhenFull(t) ==
  /\ At(t, "deqPost") /\ GoTo(t, "deqUnlock")
  /\ queue_full_lock' = IF Used = Capacity - 1 THEN queue_full_lock + 1 ELSE queue_full_lock
  /\ UNCHANGED <<list, indices, queue_lock, queue_empty_lock, data, lower_bound>>

DeqPost(t) ==
  /\ At(t, "deqPost") /\ GoTo(t, "deqUnlock")
  /\ queue_full_lock' = queue_full_lock + 1
  /\ UNCHANGED <<list, indices, queue_lock, queue_empty_lock, data, lower_bound>>

(* pthread_mutex_lock and pthread_mutex_unlock of either function.         *)
Lock(t) ==
  /\ \/ At(t, "enqLock") /\ GoTo(t, "enqWrite")
     \/ At(t, "deqLock") /\ GoTo(t, "deqRead")
  /\ queue_lock = Nobody
  /\ queue_lock' = t
  /\ UNCHANGED <<list, indices, semaphores, data, lower_bound>>

(* The call returns; the caller's copy of the packet is no longer tracked. *)
Unlock(t) ==
  /\ pc[t] \in {"enqUnlock", "deqUnlock"}
  /\ GoTo(t, "idle")
  /\ queue_lock' = Nobody
  /\ data' = [data EXCEPT ![t] = Nothing]
  /\ UNCHANGED <<list, indices, semaphores, lower_bound>>

-----------------------------------------------------------------------------
Call(t) ==
  \/ t \in Producers /\ \E m \in Message : queueEnqueue(t, m) \/ queueTryEnqueue(t, m)
  \/ t \in Consumers /\ (queueDequeue(t) \/ queueTryDequeue(t))
  \/ t \in Observers /\ SizeRead(t)

Advance(t) ==
  \/ EnqClaim(t) \/ EnqFail(t) \/ EnqWrite(t) \/ EnqInc(t) \/ EnqPost(t)
  \/ DeqClaim(t) \/ DeqFail(t) \/ DeqRead(t) \/ DeqInc(t) \/ DeqPost(t)
  \/ Lock(t) \/ Unlock(t) \/ SizeReturn(t)

Next == \E t \in Threads : Call(t) \/ Advance(t)

Spec == Init /\ [][Next]_vars

(* A thread that is not blocked keeps running, and a consumer between two  *)
(* calls comes back to queueDequeue, whatever else it calls in between, as *)
(* the loop of dispatchRuntime does (main.c:78-149).  Nothing makes a      *)
(* producer call.                                                          *)
Fairness ==
  /\ \A t \in Threads : WF_vars(Advance(t))
  /\ \A t \in Consumers : SF_vars(queueDequeue(t))

FairSpec == Spec /\ Fairness

-----------------------------------------------------------------------------
(* Type correctness of the queue and of the threads in it.                 *)
TypeOK ==
  /\ list \in [Slots -> Message \cup {Nothing}]
  /\ queue_index_start \in Slots
  /\ queue_index_end \in Slots
  /\ queue_lock \in Threads \cup {Nobody}
  /\ queue_full_lock \in 0 .. Capacity
  /\ queue_empty_lock \in 0 .. Capacity
  /\ pc \in [Threads -> Steps]
  /\ data \in [Threads -> Message \cup {Nothing}]
  /\ lower_bound \in [Threads -> Slots]

ThreadsAt(steps) == {t \in Threads : pc[t] \in steps}

Critical == {"enqWrite", "enqInc", "enqPost", "enqUnlock",
             "deqRead", "deqInc", "deqPost", "deqUnlock"}

(* The mutex is owned by exactly the thread inside the critical section    *)
(* of enqueue or dequeue (dispatch.c:101-108 and 133-140).                 *)
MutualExclusion ==
  \A t \in Threads : pc[t] \in Critical <=> queue_lock = t

(* Slots claimed through queue_full_lock but not yet counted by the end    *)
(* index, and slots already given up by the start index but not yet        *)
(* posted.                                                                 *)
SlotClaims == ThreadsAt({"enqLock", "enqWrite", "enqInc", "deqPost"})

(* Elements claimed through queue_empty_lock but not yet passed by the     *)
(* start index, and elements already counted by the end index but not yet  *)
(* posted.                                                                 *)
ItemClaims == ThreadsAt({"deqLock", "deqRead", "deqInc", "enqPost"})

(* No token of either semaphore is ever lost or minted: free slots, claims *)
(* in flight and elements always add up to the capacity, and tokens of     *)
(* queue_empty_lock plus claims to the number of elements.                 *)
TokensConserved ==
  /\ queue_full_lock + Cardinality(SlotClaims) + Used = Capacity
  /\ queue_empty_lock + Cardinality(ItemClaims) = Used

(* The slot enqueue is about to write holds no undelivered packet, and the *)
(* slot dequeue is about to read holds one: the ring never wraps onto      *)
(* itself (dispatch.c:103 and 135), whatever the number of threads.        *)
NoOverwrite ==
  \A t \in Threads :
    /\ pc[t] \in {"enqWrite", "enqInc"} => Used < Capacity
    /\ pc[t] \in {"deqRead", "deqInc"} => Used > 0

(* No call ever hands out a slot nobody wrote.                             *)
NoGarbage ==
  \A t \in Threads : pc[t] \in {"deqInc", "deqPost", "deqUnlock"} => data[t] \in Message

(* The only consumer of a queue may trust queueSize although it takes no   *)
(* lock: what it returns is exactly what is there, which is what the       *)
(* "dumping" loop (main.c:96) and the slave wait (sg_serial_rpi.c:299)     *)
(* rely on.                                                                *)
SoleConsumerSizeExact ==
  \A t \in Consumers \cap Observers :
    Consumers = {t} /\ At(t, "sizeEnd") => queueSize(t) = Used

(* A slot that holds the oldest packet is consumed as long as the consumer *)
(* keeps calling: no wakeup is lost between sem_post and sem_wait.         *)
OldestIsConsumed ==
  \A s \in Slots : (queue_index_start = s /\ Used > 0) ~> (queue_index_start # s)

(* Blocked producers do not all stay blocked: whenever some thread waits   *)
(* in queueEnqueue, some enqueue gets a slot later on.                     *)
SomeEnqueueProceeds ==
  (\E t \in Threads : At(t, "enqWait")) ~> (\E t \in Threads : At(t, "enqLock"))

(* A packet in the queue stays where enqueue put it: no step of any thread *)
(* writes a slot between the two indices (dispatch.c:103).                 *)
StoredPacketsStay ==
  [][\A s \in Slots :
       Between(queue_index_start, s) < Used => list'[s] = list[s]]_vars

-----------------------------------------------------------------------------
(* The queue is a linearizable bounded FIFO: an enqueue takes effect when  *)
(* the end index moves, a dequeue when the start index moves.              *)

(* The slot k places after the start index.                                *)
Place(k) ==
  IF queue_index_start + k < Size THEN queue_index_start + k
                                  ELSE queue_index_start + k - Size

Contents == [i \in 1 .. Used |-> list[Place(i - 1)]]

Pending(step) ==
  CASE step \in {"enqWait", "enqLock", "enqWrite", "enqInc"}           -> "put"
    [] step = "enqTry"                                                 -> "tryPut"
    [] step \in {"deqWait", "deqLock", "deqRead", "deqInc"}            -> "get"
    [] step = "deqTry"                                                 -> "tryGet"
    [] step \in {"enqPost", "enqUnlock", "deqPost", "deqUnlock"}       -> "done"
    [] step \in {"idle", "sizeEnd"}                                    -> "none"

(* The packet of a call: the argument of a put, the result of a done get.  *)
Carried(step, packet) ==
  IF step \in {"enqWait", "enqTry", "enqLock", "enqWrite", "enqInc",
               "deqPost", "deqUnlock"}
  THEN packet
  ELSE Nothing

PendingOps     == [t \in Threads |-> Pending(pc[t])]
CarriedPackets == [t \in Threads |-> Carried(pc[t], data[t])]

Fifo == INSTANCE BoundedFifo
          WITH fifo <- Contents, op <- PendingOps, item <- CarriedPackets

(* Seen through this mapping every step is a step of the fifo: no packet   *)
(* is lost, duplicated or reordered between producers and consumers, and a *)
(* try call refuses only when it has to.                                   *)
ImplementsFifo == Fifo!Spec
=============================================================================
