--------------------------- MODULE DispatchProof ---------------------------
(***************************************************************************)
(* Proofs about the dispatch queue, for every number of threads, every set *)
(* of packets and every size.                                              *)
(***************************************************************************)
EXTENDS Dispatch, FiniteSetTheorems, SequenceTheorems, TLAPS

(* One step of an index around the ring, without the modulus.              *)
LEMMA ModIncValue ==
  ASSUME NEW a \in Slots
  PROVE  modInc(a, Size) = IF a = Size - 1 THEN 0 ELSE a + 1
<1>1. Size \in Nat /\ Size >= 2 /\ a \in 0 .. Size - 1
  BY SizeAssumption DEF Slots
<1>2. CASE a = Size - 1
  BY <1>1, <1>2, Size % Size = 0 DEF modInc
<1>3. CASE a # Size - 1
  BY <1>1, <1>3, (a + 1) % Size = a + 1 DEF modInc
<1>4. QED BY <1>2, <1>3

LEMMA BetweenType ==
  ASSUME NEW x \in Slots, NEW y \in Slots
  PROVE  Between(x, y) \in Slots /\ Between(x, x) = 0
BY SizeAssumption DEF Slots, Between

(* Moving the end index of a ring that is not full adds one element.       *)
LEMMA MoveEnd ==
  ASSUME NEW x \in Slots, NEW y \in Slots, Between(x, y) < Capacity
  PROVE  /\ modInc(y, Size) \in Slots
         /\ Between(x, modInc(y, Size)) = Between(x, y) + 1
BY SizeAssumption, ModIncValue DEF Slots, Between, Capacity

(* Moving the start index of a ring that is not empty removes one.         *)
LEMMA MoveStart ==
  ASSUME NEW x \in Slots, NEW y \in Slots, Between(x, y) > 0
  PROVE  /\ modInc(x, Size) \in Slots
         /\ Between(modInc(x, Size), y) = Between(x, y) - 1
BY SizeAssumption, ModIncValue DEF Slots, Between, Capacity

-----------------------------------------------------------------------------
(* Threads come and go in a set of steps one at a time.                    *)
LEMMA ClaimCount ==
  ASSUME TypeOK, NEW t \in Threads, NEW CONSTANT S, NEW CONSTANT step,
         GoTo(t, step)
  PROVE  /\ Cardinality(ThreadsAt(S)) \in Nat
         /\ Cardinality(ThreadsAt(S))' \in Nat
         /\ pc[t] \in S => Cardinality(ThreadsAt(S)) > 0
         /\ Cardinality(ThreadsAt(S))' =
              Cardinality(ThreadsAt(S)) + (IF step \in S THEN 1 ELSE 0)
                                        - (IF pc[t] \in S THEN 1 ELSE 0)
<1> DEFINE A == ThreadsAt(S)
<1>1. IsFiniteSet(A) /\ Cardinality(A) \in Nat
  BY ThreadAssumption, FS_Subset, FS_CardinalityType DEF ThreadsAt
<1>2. pc[t] \in S <=> t \in A
  BY DEF ThreadsAt
<1>3. t \in A => Cardinality(A) > 0
  BY <1>1, FS_EmptySet
<1>4. ThreadsAt(S)' = IF step \in S THEN A \cup {t} ELSE A \ {t}
  BY DEF ThreadsAt, GoTo, TypeOK
<1>5. /\ Cardinality(A \cup {t}) = IF t \in A THEN Cardinality(A) ELSE Cardinality(A) + 1
      /\ Cardinality(A \ {t}) = IF t \in A THEN Cardinality(A) - 1 ELSE Cardinality(A)
  BY <1>1, FS_AddElement, FS_RemoveElement
<1>6. Cardinality(ThreadsAt(S))' =
        IF step \in S THEN Cardinality(A \cup {t}) ELSE Cardinality(A \ {t})
  BY <1>4
<1>7. QED BY <1>1, <1>2, <1>3, <1>5, <1>6

LEMMA ClaimsMove ==
  ASSUME TypeOK, NEW t \in Threads, NEW CONSTANT step, GoTo(t, step)
  PROVE  LET slot == {"enqLock", "enqWrite", "enqInc", "deqPost"}
             packet == {"deqLock", "deqRead", "deqInc", "enqPost"}
         IN  /\ Cardinality(SlotClaims) \in Nat /\ Cardinality(SlotClaims)' \in Nat
             /\ Cardinality(ItemClaims) \in Nat /\ Cardinality(ItemClaims)' \in Nat
             /\ Cardinality(SlotClaims)' =
                  Cardinality(SlotClaims) + (IF step \in slot THEN 1 ELSE 0)
                                          - (IF pc[t] \in slot THEN 1 ELSE 0)
             /\ Cardinality(ItemClaims)' =
                  Cardinality(ItemClaims) + (IF step \in packet THEN 1 ELSE 0)
                                          - (IF pc[t] \in packet THEN 1 ELSE 0)
BY ClaimCount, Zenon DEF SlotClaims, ItemClaims

(* The invariant that is inductive: the tokens of the two semaphores and   *)
(* the claims in flight account for every slot of the ring.                *)
QueueInv == TypeOK /\ MutualExclusion /\ TokensConserved

LEMMA QueueInvInit == Init => QueueInv
<1> SUFFICES ASSUME Init PROVE QueueInv
  OBVIOUS
<1>1. Used = 0
  BY SizeAssumption DEF Init, Used, Between
<1>2. SlotClaims = {} /\ ItemClaims = {}
  BY DEF Init, SlotClaims, ItemClaims, ThreadsAt
<1>3. TypeOK
  BY SizeAssumption DEF Init, TypeOK, Slots, Capacity, Steps
<1>4. MutualExclusion
  BY ThreadAssumption DEF Init, MutualExclusion, Critical
<1>5. TokensConserved
  BY <1>1, <1>2, SizeAssumption, FS_EmptySet DEF Init, TokensConserved, Capacity
<1>6. QED BY <1>3, <1>4, <1>5 DEF QueueInv

(* Room for the thread that is about to write, a packet for the one that   *)
(* is about to read.                                                       *)
LEMMA ClaimsMakeRoom ==
  ASSUME QueueInv, NEW t \in Threads
  PROVE  /\ Used \in 0 .. Capacity
         /\ queue_full_lock \in Nat /\ queue_empty_lock \in Nat
         /\ pc[t] \in {"enqLock", "enqWrite", "enqInc", "deqPost"} => Used < Capacity
         /\ pc[t] \in {"deqLock", "deqRead", "deqInc", "enqPost"} => Used > 0
<1>1. Used \in 0 .. Capacity
  BY BetweenType DEF QueueInv, TypeOK, Used, Slots, Capacity
<1>2. /\ IsFiniteSet(SlotClaims) /\ Cardinality(SlotClaims) \in Nat
      /\ IsFiniteSet(ItemClaims) /\ Cardinality(ItemClaims) \in Nat
  BY ThreadAssumption, FS_Subset, FS_CardinalityType
     DEF SlotClaims, ItemClaims, ThreadsAt
<1>3. /\ t \in SlotClaims => Cardinality(SlotClaims) > 0
      /\ t \in ItemClaims => Cardinality(ItemClaims) > 0
  BY <1>2, FS_EmptySet
<1>4. QED
  BY <1>1, <1>2, <1>3, SizeAssumption
     DEF QueueInv, TypeOK, TokensConserved, Capacity, SlotClaims, ItemClaims, ThreadsAt

-----------------------------------------------------------------------------
(* Every step of every thread preserves the invariant.                     *)
LEMMA QueueInvNext == QueueInv /\ [Next]_vars => QueueInv'
<1> SUFFICES ASSUME QueueInv, [Next]_vars PROVE QueueInv'
  OBVIOUS
<1> USE DEF QueueInv
<1>0. ASSUME UNCHANGED <<pc, queue_lock, indices, semaphores>>
      PROVE  MutualExclusion' /\ TokensConserved'
  BY <1>0 DEF MutualExclusion, TokensConserved, SlotClaims, ItemClaims, ThreadsAt,
              Used, Between, indices, semaphores
<1>1. ASSUME NEW t \in Threads, Call(t) PROVE QueueInv'
  <2>1. PICK step \in {"enqWait", "enqTry", "deqWait", "deqTry", "sizeEnd"} : GoTo(t, step)
    BY <1>1 DEF Call, queueEnqueue, queueTryEnqueue, queueDequeue, queueTryDequeue, SizeRead
  <2>2. /\ pc[t] = "idle"
        /\ UNCHANGED <<list, indices, queue_lock, semaphores>>
        /\ data' \in [Threads -> Message \cup {Nothing}]
        /\ lower_bound' \in [Threads -> Slots]
    BY <1>1 DEF Call, queueEnqueue, queueTryEnqueue, queueDequeue, queueTryDequeue,
                SizeRead, At, TypeOK
  <2>3. TypeOK'
    BY <2>1, <2>2 DEF TypeOK, GoTo, indices, semaphores, Steps, EnqueueSteps, DequeueSteps
  <2>4. MutualExclusion'
    BY <2>1, <2>2 DEF MutualExclusion, GoTo, Critical, TypeOK
  <2>5. /\ Cardinality(SlotClaims)' = Cardinality(SlotClaims)
        /\ Cardinality(ItemClaims)' = Cardinality(ItemClaims)
    BY <2>1, <2>2, ClaimsMove
  <2>6. TokensConserved'
    BY <2>2, <2>5 DEF TokensConserved, Used, Between, indices, semaphores
  <2>7. QED BY <2>3, <2>4, <2>6
<1>2. ASSUME NEW t \in Threads, Advance(t) PROVE QueueInv'
  <2>1. CASE EnqClaim(t)
    <3>1. /\ Cardinality(SlotClaims)' = Cardinality(SlotClaims) + 1
          /\ Cardinality(ItemClaims)' = Cardinality(ItemClaims)
      BY <2>1, ClaimsMove DEF EnqClaim, At
    <3>2. TypeOK'
      BY <2>1, SizeAssumption
         DEF EnqClaim, At, GoTo, TypeOK, TokensConserved, Steps, EnqueueSteps,
             DequeueSteps, indices, semaphores, Used, Capacity, Slots
    <3>3. MutualExclusion'
      BY <2>1, ThreadAssumption DEF EnqClaim, At, GoTo, TypeOK, MutualExclusion, Critical
    <3>4. TokensConserved'
      BY <2>1, <3>1, ClaimsMove, ClaimsMakeRoom
         DEF EnqClaim, At, TypeOK, TokensConserved, indices, semaphores, Used, Between,
             Capacity
    <3>5. QED BY <3>2, <3>3, <3>4
  <2>2. CASE EnqFail(t)
    <3>1. /\ Cardinality(SlotClaims)' = Cardinality(SlotClaims)
          /\ Cardinality(ItemClaims)' = Cardinality(ItemClaims)
      BY <2>2, ClaimsMove DEF EnqFail, At
    <3>2. TypeOK'
      BY <2>2
         DEF EnqFail, At, GoTo, TypeOK, TokensConserved, Steps, EnqueueSteps,
             DequeueSteps, indices, semaphores, Used, Capacity, Slots
    <3>3. MutualExclusion'
      BY <2>2, ThreadAssumption DEF EnqFail, At, GoTo, TypeOK, MutualExclusion, Critical
    <3>4. TokensConserved'
      BY <2>2, <3>1, ClaimsMove
         DEF EnqFail, At, TypeOK, TokensConserved, indices, semaphores, Used, Between,
             Capacity
    <3>5. QED BY <3>2, <3>3, <3>4
  <2>3. CASE EnqWrite(t)
    <3>1. /\ Cardinality(SlotClaims)' = Cardinality(SlotClaims)
          /\ Cardinality(ItemClaims)' = Cardinality(ItemClaims)
      BY <2>3, ClaimsMove DEF EnqWrite, At
    <3>2. TypeOK'
      BY <2>3
         DEF EnqWrite, At, GoTo, TypeOK, TokensConserved, Steps, EnqueueSteps,
             DequeueSteps, indices, semaphores, Used, Capacity, Slots
    <3>3. MutualExclusion'
      BY <2>3, ThreadAssumption DEF EnqWrite, At, GoTo, TypeOK, MutualExclusion, Critical
    <3>4. TokensConserved'
      BY <2>3, <3>1, ClaimsMove
         DEF EnqWrite, At, TypeOK, TokensConserved, indices, semaphores, Used, Between,
             Capacity
    <3>5. QED BY <3>2, <3>3, <3>4
  <2>4. CASE EnqInc(t)
    <3>1. /\ Cardinality(SlotClaims)' = Cardinality(SlotClaims) - 1
          /\ Cardinality(ItemClaims)' = Cardinality(ItemClaims) + 1
      BY <2>4, ClaimsMove DEF EnqInc, At
    <3>2. TypeOK'
      BY <2>4, ClaimsMakeRoom, MoveEnd
         DEF EnqInc, At, GoTo, TypeOK, TokensConserved, Steps, EnqueueSteps,
             DequeueSteps, indices, semaphores, Used, Capacity, Slots
    <3>3. MutualExclusion'
      BY <2>4, ThreadAssumption DEF EnqInc, At, GoTo, TypeOK, MutualExclusion, Critical
    <3>4. TokensConserved'
      BY <2>4, <3>1, ClaimsMove, ClaimsMakeRoom, MoveEnd
         DEF EnqInc, At, TypeOK, TokensConserved, indices, semaphores, Used, Between,
             Capacity
    <3>5. QED BY <3>2, <3>3, <3>4
  <2>5. CASE EnqPost(t)
    <3>1. /\ Cardinality(SlotClaims)' = Cardinality(SlotClaims)
          /\ Cardinality(ItemClaims)' = Cardinality(ItemClaims) - 1
      BY <2>5, ClaimsMove DEF EnqPost, At
    <3>2. queue_empty_lock + 1 \in 0 .. Capacity
      <4>1. Cardinality(ItemClaims)' \in Nat /\ Cardinality(ItemClaims) \in Nat
        BY <2>5, ClaimsMove DEF EnqPost
      <4>2. /\ Used \in 0 .. Capacity /\ queue_empty_lock \in Nat
            /\ queue_empty_lock <= Capacity - Cardinality(ItemClaims)
        BY <4>1, ClaimsMakeRoom, ClaimsMove, SizeAssumption
           DEF TokensConserved, Capacity
      <4>3. QED BY <3>1, <4>1, <4>2, SizeAssumption DEF Capacity
    <3>3. TypeOK'
      BY <2>5, <3>2
         DEF EnqPost, At, GoTo, TypeOK, TokensConserved, Steps, EnqueueSteps,
             DequeueSteps, indices, semaphores, Used, Capacity, Slots
    <3>4. MutualExclusion'
      BY <2>5, ThreadAssumption DEF EnqPost, At, GoTo, TypeOK, MutualExclusion, Critical
    <3>5. TokensConserved'
      BY <2>5, <3>1, ClaimsMove, ClaimsMakeRoom
         DEF EnqPost, At, TypeOK, TokensConserved, indices, semaphores, Used, Between,
             Capacity
    <3>6. QED BY <3>3, <3>4, <3>5
  <2>6. CASE DeqClaim(t)
    <3>1. /\ Cardinality(SlotClaims)' = Cardinality(SlotClaims)
          /\ Cardinality(ItemClaims)' = Cardinality(ItemClaims) + 1
      BY <2>6, ClaimsMove DEF DeqClaim, At
    <3>2. TypeOK'
      BY <2>6, SizeAssumption
         DEF DeqClaim, At, GoTo, TypeOK, TokensConserved, Steps, EnqueueSteps,
             DequeueSteps, indices, semaphores, Used, Capacity, Slots
    <3>3. MutualExclusion'
      BY <2>6, ThreadAssumption DEF DeqClaim, At, GoTo, TypeOK, MutualExclusion, Critical
    <3>4. TokensConserved'
      BY <2>6, <3>1, ClaimsMove, ClaimsMakeRoom
         DEF DeqClaim, At, TypeOK, TokensConserved, indices, semaphores, Used, Between,
             Capacity
    <3>5. QED BY <3>2, <3>3, <3>4
  <2>7. CASE DeqFail(t)
    <3>1. /\ Cardinality(SlotClaims)' = Cardinality(SlotClaims)
          /\ Cardinality(ItemClaims)' = Cardinality(ItemClaims)
      BY <2>7, ClaimsMove DEF DeqFail, At
    <3>2. TypeOK'
      BY <2>7
         DEF DeqFail, At, GoTo, TypeOK, TokensConserved, Steps, EnqueueSteps,
             DequeueSteps, indices, semaphores, Used, Capacity, Slots
    <3>3. MutualExclusion'
      BY <2>7, ThreadAssumption DEF DeqFail, At, GoTo, TypeOK, MutualExclusion, Critical
    <3>4. TokensConserved'
      BY <2>7, <3>1, ClaimsMove
         DEF DeqFail, At, TypeOK, TokensConserved, indices, semaphores, Used, Between,
             Capacity
    <3>5. QED BY <3>2, <3>3, <3>4
  <2>8. CASE DeqRead(t)
    <3>1. /\ Cardinality(SlotClaims)' = Cardinality(SlotClaims)
          /\ Cardinality(ItemClaims)' = Cardinality(ItemClaims)
      BY <2>8, ClaimsMove DEF DeqRead, At
    <3>2. TypeOK'
      BY <2>8
         DEF DeqRead, At, GoTo, TypeOK, TokensConserved, Steps, EnqueueSteps,
             DequeueSteps, indices, semaphores, Used, Capacity, Slots
    <3>3. MutualExclusion'
      BY <2>8, ThreadAssumption DEF DeqRead, At, GoTo, TypeOK, MutualExclusion, Critical
    <3>4. TokensConserved'
      BY <2>8, <3>1, ClaimsMove
         DEF DeqRead, At, TypeOK, TokensConserved, indices, semaphores, Used, Between,
             Capacity
    <3>5. QED BY <3>2, <3>3, <3>4
  <2>9. CASE DeqInc(t)
    <3>1. /\ Cardinality(SlotClaims)' = Cardinality(SlotClaims) + 1
          /\ Cardinality(ItemClaims)' = Cardinality(ItemClaims) - 1
      BY <2>9, ClaimsMove DEF DeqInc, At
    <3>2. TypeOK'
      BY <2>9, ClaimsMakeRoom, MoveStart
         DEF DeqInc, At, GoTo, TypeOK, TokensConserved, Steps, EnqueueSteps,
             DequeueSteps, indices, semaphores, Used, Capacity, Slots
    <3>3. MutualExclusion'
      BY <2>9, ThreadAssumption DEF DeqInc, At, GoTo, TypeOK, MutualExclusion, Critical
    <3>4. TokensConserved'
      BY <2>9, <3>1, ClaimsMove, ClaimsMakeRoom, MoveStart
         DEF DeqInc, At, TypeOK, TokensConserved, indices, semaphores, Used, Between,
             Capacity
    <3>5. QED BY <3>2, <3>3, <3>4
  <2>10. CASE DeqPost(t)
    <3>1. /\ Cardinality(SlotClaims)' = Cardinality(SlotClaims) - 1
          /\ Cardinality(ItemClaims)' = Cardinality(ItemClaims)
      BY <2>10, ClaimsMove DEF DeqPost, At
    <3>2. queue_full_lock + 1 \in 0 .. Capacity
      <4>1. Cardinality(SlotClaims)' \in Nat /\ Cardinality(SlotClaims) \in Nat
        BY <2>10, ClaimsMove DEF DeqPost
      <4>2. /\ Used \in 0 .. Capacity /\ queue_full_lock \in Nat
            /\ queue_full_lock <= Capacity - Cardinality(SlotClaims)
        BY <4>1, ClaimsMakeRoom, ClaimsMove, SizeAssumption
           DEF TokensConserved, Capacity
      <4>3. QED BY <3>1, <4>1, <4>2, SizeAssumption DEF Capacity
    <3>3. TypeOK'
      BY <2>10, <3>2
         DEF DeqPost, At, GoTo, TypeOK, TokensConserved, Steps, EnqueueSteps,
             DequeueSteps, indices, semaphores, Used, Capacity, Slots
    <3>4. MutualExclusion'
      BY <2>10, ThreadAssumption DEF DeqPost, At, GoTo, TypeOK, MutualExclusion, Critical
    <3>5. TokensConserved'
      BY <2>10, <3>1, ClaimsMove, ClaimsMakeRoom
         DEF DeqPost, At, TypeOK, TokensConserved, indices, semaphores, Used, Between,
             Capacity
    <3>6. QED BY <3>3, <3>4, <3>5
  <2>11. CASE Lock(t)
    <3>1. /\ Cardinality(SlotClaims)' = Cardinality(SlotClaims)
          /\ Cardinality(ItemClaims)' = Cardinality(ItemClaims)
      BY <2>11, ClaimsMove DEF Lock, At
    <3>2. TypeOK'
      BY <2>11
         DEF Lock, At, GoTo, TypeOK, TokensConserved, Steps, EnqueueSteps,
             DequeueSteps, indices, semaphores, Used, Capacity, Slots
    <3>3. MutualExclusion'
      BY <2>11, ThreadAssumption DEF Lock, At, GoTo, TypeOK, MutualExclusion, Critical
    <3>4. TokensConserved'
      BY <2>11, <3>1, ClaimsMove
         DEF Lock, At, TypeOK, TokensConserved, indices, semaphores, Used, Between,
             Capacity
    <3>5. QED BY <3>2, <3>3, <3>4
  <2>12. CASE Unlock(t)
    <3>1. /\ Cardinality(SlotClaims)' = Cardinality(SlotClaims)
          /\ Cardinality(ItemClaims)' = Cardinality(ItemClaims)
      BY <2>12, ClaimsMove DEF Unlock, At
    <3>2. TypeOK'
      BY <2>12
         DEF Unlock, At, GoTo, TypeOK, TokensConserved, Steps, EnqueueSteps,
             DequeueSteps, indices, semaphores, Used, Capacity, Slots
    <3>3. MutualExclusion'
      BY <2>12, ThreadAssumption DEF Unlock, At, GoTo, TypeOK, MutualExclusion, Critical
    <3>4. TokensConserved'
      BY <2>12, <3>1, ClaimsMove
         DEF Unlock, At, TypeOK, TokensConserved, indices, semaphores, Used, Between,
             Capacity
    <3>5. QED BY <3>2, <3>3, <3>4
  <2>13. CASE SizeReturn(t)
    <3>1. /\ Cardinality(SlotClaims)' = Cardinality(SlotClaims)
          /\ Cardinality(ItemClaims)' = Cardinality(ItemClaims)
      BY <2>13, ClaimsMove DEF SizeReturn, At
    <3>2. TypeOK'
      BY <2>13, SizeAssumption
         DEF SizeReturn, At, GoTo, TypeOK, TokensConserved, Steps, EnqueueSteps,
             DequeueSteps, indices, semaphores, Used, Capacity, Slots
    <3>3. MutualExclusion'
      BY <2>13, ThreadAssumption DEF SizeReturn, At, GoTo, TypeOK, MutualExclusion, Critical
    <3>4. TokensConserved'
      BY <2>13, <3>1, ClaimsMove
         DEF SizeReturn, At, TypeOK, TokensConserved, indices, semaphores, Used, Between,
             Capacity
    <3>5. QED BY <3>2, <3>3, <3>4
  <2>14. QED
    BY <1>2, <2>1, <2>2, <2>3, <2>4, <2>5, <2>6, <2>7, <2>8, <2>9, <2>10, <2>11, <2>12, <2>13 DEF Advance
<1>3. CASE UNCHANGED vars
  BY <1>0, <1>3 DEF vars, TypeOK, indices, semaphores
<1>4. QED BY <1>1, <1>2, <1>3 DEF Next

-----------------------------------------------------------------------------
THEOREM QueueInvariant == Spec => []QueueInv
BY QueueInvInit, QueueInvNext, PTL DEF Spec

(* Type correctness of the queue.                                          *)
THEOREM TypeCorrect == Spec => []TypeOK
<1>1. QueueInv => TypeOK
  BY DEF QueueInv
<1>2. QED BY <1>1, QueueInvariant, PTL

(* enqueue and dequeue exclude each other (dispatch.c:101, 133).           *)
THEOREM MutexSafety == Spec => []MutualExclusion
<1>1. QueueInv => MutualExclusion
  BY DEF QueueInv
<1>2. QED BY <1>1, QueueInvariant, PTL

(* No semaphore token is lost or minted, for any number of threads.        *)
THEOREM TokenSafety == Spec => []TokensConserved
<1>1. QueueInv => TokensConserved
  BY DEF QueueInv
<1>2. QED BY <1>1, QueueInvariant, PTL

(* The ring never wraps onto itself (dispatch.c:103, 135).                 *)
THEOREM NoOverwriteSafety == Spec => []NoOverwrite
<1>1. QueueInv => NoOverwrite
  BY ClaimsMakeRoom DEF NoOverwrite
<1>2. QED BY <1>1, QueueInvariant, PTL

-----------------------------------------------------------------------------
(* What is in the slots and in the hands of the threads.                   *)
Stored(s) == Between(queue_index_start, s) < Used

PacketInv ==
  /\ \A t \in Threads :
       /\ pc[t] \in {"enqWait", "enqTry", "enqLock", "enqWrite", "enqInc"} =>
            data[t] \in Message
       /\ pc[t] = "enqInc" => list[queue_index_end] = data[t]
       /\ pc[t] = "deqInc" => data[t] = list[queue_index_start]
  /\ \A s \in Slots : Stored(s) => list[s] \in Message
  /\ NoGarbage

(* The slot at the end index is outside the ring until it is counted, the  *)
(* slot at the start index inside as long as anything is.                  *)
LEMMA RingEnds ==
  ASSUME NEW x \in Slots, NEW y \in Slots
  PROVE  /\ ~(Between(x, y) < Between(x, y))
         /\ Between(x, y) > 0 => Between(x, x) < Between(x, y)
         /\ Between(x, y) < Capacity =>
              \A s \in Slots : Between(x, s) < Between(x, modInc(y, Size))
                             => s = y \/ Between(x, s) < Between(x, y)
         /\ Between(x, y) > 0 =>
              \A s \in Slots : Between(modInc(x, Size), s) < Between(modInc(x, Size), y)
                             => Between(x, s) < Between(x, y)
<1>1. x \in 0 .. Size - 1 /\ y \in 0 .. Size - 1 /\ Size \in Nat /\ Size >= 2
  BY SizeAssumption DEF Slots
<1>2. \A s \in Slots : s \in 0 .. Size - 1
  BY DEF Slots
<1>3. QED BY <1>1, <1>2, ModIncValue DEF Between, Capacity

LEMMA PacketInvInit == Init => PacketInv
<1> SUFFICES ASSUME Init PROVE PacketInv
  OBVIOUS
<1>1. \A s \in Slots : ~Stored(s)
  BY BetweenType, SizeAssumption DEF Init, Stored, Used, Slots
<1>2. QED BY <1>1 DEF Init, PacketInv, NoGarbage

LEMMA PacketInvNext == QueueInv /\ PacketInv /\ [Next]_vars => PacketInv'
<1> SUFFICES ASSUME QueueInv, PacketInv, [Next]_vars PROVE PacketInv'
  OBVIOUS
<1>1. ASSUME NEW t \in Threads, Call(t) PROVE PacketInv'
  BY <1>1 DEF Call, queueEnqueue, queueTryEnqueue, queueDequeue, queueTryDequeue,
              SizeRead, At, GoTo, QueueInv, TypeOK, PacketInv, NoGarbage, Stored,
              Used, Between, indices, semaphores
<1>2. ASSUME NEW t \in Threads, Advance(t) PROVE PacketInv'
  <2> USE DEF At, GoTo, QueueInv, TypeOK, PacketInv, NoGarbage
  <2>1. CASE EnqClaim(t)
    BY <2>1 DEF EnqClaim, Stored, Used, Between, indices, semaphores
  <2>2. CASE EnqFail(t)
    BY <2>2 DEF EnqFail, Stored, Used, Between, indices, semaphores
  <2>3. CASE EnqWrite(t)
    <3>1. \A u \in Threads : u # t => pc[u] \notin Critical
      BY <2>3 DEF EnqWrite, MutualExclusion, Critical
    <3>2. \A s \in Slots : Stored(s)' => list'[s] \in Message
      BY <2>3, RingEnds DEF EnqWrite, Stored, Used, Between, indices
    <3>3. QED BY <2>3, <3>1, <3>2 DEF EnqWrite, Critical, indices
  <2>4. CASE EnqInc(t)
    <3>1. \A u \in Threads : u # t => pc[u] \notin Critical
      BY <2>4 DEF EnqInc, MutualExclusion, Critical
    <3>2. \A s \in Slots : Stored(s)' => s = queue_index_end \/ Stored(s)
      BY <2>4, RingEnds, ClaimsMakeRoom DEF EnqInc, Stored, Used, Between
    <3>3. QED BY <2>4, <3>1, <3>2 DEF EnqInc, Critical
  <2>5. CASE EnqPost(t)
    BY <2>5 DEF EnqPost, Stored, Used, Between, indices, semaphores
  <2>6. CASE DeqClaim(t)
    BY <2>6 DEF DeqClaim, Stored, Used, Between, indices, semaphores
  <2>7. CASE DeqFail(t)
    BY <2>7 DEF DeqFail, Stored, Used, Between, indices, semaphores
  <2>8. CASE DeqRead(t)
    <3>1. Stored(queue_index_start)
      BY <2>8, RingEnds, ClaimsMakeRoom DEF DeqRead, Stored, Used
    <3>2. QED BY <2>8, <3>1 DEF DeqRead, Stored, Used, Between, indices
  <2>9. CASE DeqInc(t)
    <3>1. \A u \in Threads : u # t => pc[u] \notin Critical
      BY <2>9 DEF DeqInc, MutualExclusion, Critical
    <3>2. \A s \in Slots : Stored(s)' => Stored(s)
      BY <2>9, RingEnds, ClaimsMakeRoom DEF DeqInc, Stored, Used, Between
    <3>3. QED BY <2>9, <3>1, <3>2 DEF DeqInc, Critical
  <2>10. CASE DeqPost(t)
    BY <2>10 DEF DeqPost, Stored, Used, Between, indices, semaphores
  <2>11. CASE Lock(t)
    BY <2>11 DEF Lock, Stored, Used, Between, indices, semaphores
  <2>12. CASE Unlock(t)
    BY <2>12 DEF Unlock, Stored, Used, Between, indices, semaphores
  <2>13. CASE SizeReturn(t)
    BY <2>13 DEF SizeReturn, Stored, Used, Between, indices, semaphores
  <2>14. QED
    BY <1>2, <2>1, <2>2, <2>3, <2>4, <2>5, <2>6, <2>7, <2>8, <2>9, <2>10, <2>11, <2>12, <2>13 DEF Advance
<1>3. CASE UNCHANGED vars
  BY <1>3 DEF vars, PacketInv, NoGarbage, Stored, Used, Between, indices
<1>4. QED BY <1>1, <1>2, <1>3 DEF Next

(* No call hands out a slot nobody wrote.                                  *)
THEOREM NoGarbageSafety == Spec => []NoGarbage
<1>1. PacketInv => NoGarbage
  BY DEF PacketInv
<1>2. QED
  BY <1>1, QueueInvariant, PacketInvInit, PacketInvNext, PTL DEF Spec

(* The only consumer sees the start index it has read: nobody else moves   *)
(* that index, and the consumer itself is not in dequeue while it is in    *)
(* queueSize.                                                              *)
ConsumerInv ==
  \A t \in Threads :
    /\ pc[t] \in DequeueSteps => t \in Consumers
    /\ Consumers = {t} /\ At(t, "sizeEnd") => lower_bound[t] = queue_index_start

LEMMA ConsumerInvNext == TypeOK /\ ConsumerInv /\ [Next]_vars => ConsumerInv'
<1> SUFFICES ASSUME TypeOK, ConsumerInv, [Next]_vars
             PROVE  ConsumerInv'
  OBVIOUS
<1> USE DEF At, GoTo
<1>1. ASSUME NEW t \in Threads, Call(t) PROVE ConsumerInv'
  BY <1>1 DEF Call, queueEnqueue, queueTryEnqueue, queueDequeue, queueTryDequeue,
     SizeRead, ConsumerInv, DequeueSteps, TypeOK, indices
<1>2. ASSUME NEW t \in Threads, Advance(t) PROVE ConsumerInv'
  <2>1. CASE DeqInc(t)
    <3>1. t \in Consumers /\ \A u \in Threads : u # t => pc'[u] = pc[u]
      BY <2>1 DEF DeqInc, ConsumerInv, DequeueSteps, TypeOK
    <3>2. pc'[t] = "deqPost" /\ lower_bound' = lower_bound
      BY <2>1 DEF DeqInc, TypeOK
    <3>3. QED BY <3>1, <3>2 DEF ConsumerInv, DequeueSteps
  <2>2. CASE ~ DeqInc(t)
    BY <1>2, <2>2 DEF Advance, EnqClaim, EnqFail, EnqWrite, EnqInc, EnqPost, DeqClaim,
       DeqFail, DeqRead, DeqPost, Lock, Unlock, SizeReturn, ConsumerInv, DequeueSteps,
       TypeOK, indices
  <2>3. QED BY <2>1, <2>2
<1>3. CASE UNCHANGED vars
  BY <1>3 DEF vars, ConsumerInv, indices
<1>4. QED BY <1>1, <1>2, <1>3 DEF Next

(* What queueSize returns to the only consumer is exactly what is there    *)
(* (main.c:96, sg_serial_rpi.c:299), however many threads enqueue.         *)
THEOREM SoleConsumerSafety == Spec => []SoleConsumerSizeExact
<1>1. Init => ConsumerInv
  BY DEF Init, ConsumerInv, DequeueSteps, At
<1>2. ConsumerInv => SoleConsumerSizeExact
  BY ThreadAssumption DEF ConsumerInv, SoleConsumerSizeExact, queueSize, Used
<1>3. QED BY <1>1, <1>2, ConsumerInvNext, TypeCorrect, PTL DEF Spec

(* No step of any thread writes a slot that holds a packet.                *)
THEOREM StoredPacketsSafety == Spec => StoredPacketsStay
<1> DEFINE Stay == \A s \in Slots : Between(queue_index_start, s) < Used => list'[s] = list[s]
<1>1. QueueInv /\ [Next]_vars => [Stay]_vars
  <2> SUFFICES ASSUME QueueInv, Next PROVE Stay
    OBVIOUS
  <2>1. PICK t \in Threads : Call(t) \/ Advance(t)
    BY DEF Next
  <2>2. CASE EnqWrite(t)
    BY <2>2, RingEnds DEF EnqWrite, QueueInv, TypeOK, Used
  <2>3. CASE ~EnqWrite(t)
    <3>1. list' = list
      BY <2>1, <2>3 DEF Call, queueEnqueue, queueTryEnqueue, queueDequeue,
         queueTryDequeue, SizeRead, Advance, EnqClaim, EnqFail, EnqInc, EnqPost,
         DeqClaim, DeqFail, DeqRead, DeqInc, DeqPost, Lock, Unlock, SizeReturn
    <3>2. QED BY <3>1
  <2>4. QED BY <2>2, <2>3
<1>2. QED
  BY <1>1, QueueInvariant, PTL DEF Spec, StoredPacketsStay

-----------------------------------------------------------------------------
(* The queue implements the bounded fifo.                                  *)

(* Only the operation and the packet of the moving thread change.          *)
LEMMA MapStep ==
  ASSUME TypeOK, TypeOK', NEW t \in Threads, NEW CONSTANT step, GoTo(t, step),
         \A u \in Threads : u # t => data'[u] = data[u]
  PROVE  /\ PendingOps' = [PendingOps EXCEPT ![t] = Pending(step)]
         /\ CarriedPackets' = [CarriedPackets EXCEPT ![t] = Carried(step, data'[t])]
         /\ PendingOps[t] = Pending(pc[t])
         /\ CarriedPackets[t] = Carried(pc[t], data[t])
BY Zenon DEF PendingOps, CarriedPackets, GoTo, TypeOK

LEMMA PendingValues ==
  /\ \A s \in {"enqWait", "enqLock", "enqWrite", "enqInc"} : Pending(s) = "put"
  /\ Pending("enqTry") = "tryPut"
  /\ \A s \in {"deqWait", "deqLock", "deqRead", "deqInc"} : Pending(s) = "get"
  /\ Pending("deqTry") = "tryGet"
  /\ \A s \in {"enqPost", "enqUnlock", "deqPost", "deqUnlock"} : Pending(s) = "done"
  /\ \A s \in {"idle", "sizeEnd"} : Pending(s) = "none"
BY DEF Pending

(* The contents are a sequence of Used packets, each in a slot of the ring.*)
LEMMA ContentsPlaces ==
  ASSUME QueueInv
  PROVE  \A i \in 1 .. Used : Place(i - 1) \in Slots /\ Stored(Place(i - 1))
<1>1. Used \in 0 .. Capacity
  BY BetweenType DEF QueueInv, TypeOK, Used, Slots, Capacity
<1>2. QED
  BY <1>1, SizeAssumption DEF QueueInv, TypeOK, Place, Slots, Capacity, Stored, Used, Between

LEMMA ContentsType ==
  ASSUME QueueInv, PacketInv
  PROVE  /\ Contents \in Seq(Message)
         /\ Len(Contents) = Used
         /\ \A k \in 0 .. Capacity : Place(k) \in Slots
<1>1. Used \in 0 .. Capacity
  BY BetweenType DEF QueueInv, TypeOK, Used, Slots, Capacity
<1>2. \A k \in 0 .. Capacity : Place(k) \in Slots
  BY SizeAssumption DEF QueueInv, TypeOK, Place, Slots, Capacity
<1>3. \A i \in 1 .. Used : list[Place(i - 1)] \in Message
  BY ContentsPlaces DEF PacketInv
<1>4. Contents \in [1 .. Used -> Message]
  BY <1>3 DEF Contents
<1>5. QED BY <1>1, <1>2, <1>4

LEMMA ContentsSame ==
  ASSUME QueueInv, PacketInv, UNCHANGED <<list, indices>>
  PROVE  Contents' = Contents
BY DEF Contents, Place, Used, Between, indices

LEMMA FifoInit == Init => Fifo!Init
<1> SUFFICES ASSUME Init PROVE Fifo!Init
  OBVIOUS
<1>1. Contents = <<>>
  <2>1. Used = 0
    BY SizeAssumption DEF Init, Used, Between
  <2>2. QED BY <2>1 DEF Contents
<1>2. PendingOps = [t \in Threads |-> "none"]
  BY PendingValues DEF Init, PendingOps
<1>3. CarriedPackets = [t \in Threads |-> Nothing]
  BY DEF Init, Carried, CarriedPackets
<1>4. QED BY <1>1, <1>2, <1>3 DEF Fifo!Init

LEMMA AppendDef ==
  ASSUME NEW S, NEW q \in Seq(S), NEW e \in S
  PROVE  Append(q, e) = [i \in 1 .. Len(q) + 1 |-> IF i = Len(q) + 1 THEN e ELSE q[i]]
<1> DEFINE r == [i \in 1 .. Len(q) + 1 |-> IF i = Len(q) + 1 THEN e ELSE q[i]]
<1>1. Len(q) \in Nat
  OBVIOUS
<1>2. r \in [1 .. Len(q) + 1 -> S]
  BY <1>1
<1>3. r \in Seq(S) /\ Len(r) = Len(q) + 1
  BY <1>1, <1>2, SeqDef, LenProperties
<1>4. /\ Append(q, e) \in Seq(S)
      /\ Len(Append(q, e)) = Len(q) + 1
      /\ \A i \in 1 .. Len(q) + 1 : Append(q, e)[i] = IF i = Len(q) + 1 THEN e ELSE q[i]
  OBVIOUS
<1>5. \A i \in 1 .. Len(q) + 1 : Append(q, e)[i] = r[i]
  BY <1>4
<1>6. QED BY <1>3, <1>4, <1>5, SeqEqual

LEMMA TailDef ==
  ASSUME NEW S, NEW q \in Seq(S), q # <<>>
  PROVE  Tail(q) = [i \in 1 .. Len(q) - 1 |-> q[i + 1]]
<1> DEFINE r == [i \in 1 .. Len(q) - 1 |-> q[i + 1]]
<1>1. Len(q) \in Nat /\ Len(q) > 0
  OBVIOUS
<1>2. r \in [1 .. Len(q) - 1 -> S]
  BY <1>1
<1>3. r \in Seq(S) /\ Len(r) = Len(q) - 1
  BY <1>1, <1>2, SeqDef, LenProperties
<1>4. /\ Tail(q) \in Seq(S)
      /\ Len(Tail(q)) = Len(q) - 1
      /\ \A i \in 1 .. Len(q) - 1 : Tail(q)[i] = r[i]
  BY <1>1, HeadTailProperties
<1>5. QED BY <1>3, <1>4, SeqEqual

(* Counting an element appends it, passing an element drops the head.      *)
LEMMA ContentsAppend ==
  ASSUME QueueInv, PacketInv, NEW t \in Threads, EnqInc(t)
  PROVE  Contents' = Append(Contents, data[t]) /\ Used < Capacity
<1>1. Used < Capacity /\ Used \in Nat /\ Used' = Used + 1
  BY ClaimsMakeRoom, MoveEnd DEF EnqInc, At, QueueInv, TypeOK, Used, Capacity
<1>2. Place(Used) = queue_index_end
  BY <1>1, SizeAssumption DEF QueueInv, TypeOK, Place, Slots, Used, Between
<1>3. Contents' = [i \in 1 .. Used + 1 |-> list[Place(i - 1)]]
  BY <1>1 DEF Contents, Place, EnqInc
<1>4. list[Place((Used + 1) - 1)] = data[t]
  BY <1>1, <1>2 DEF PacketInv, EnqInc, At
<1>5. data[t] \in Message /\ Contents \in Seq(Message) /\ Len(Contents) = Used
  BY ContentsType DEF PacketInv, EnqInc, At
<1>6. \A i \in 1 .. Used + 1 :
        list[Place(i - 1)] = IF i = Used + 1 THEN data[t] ELSE Contents[i]
  BY <1>1, <1>4 DEF Contents
<1>7. Contents' = Append(Contents, data[t])
  BY <1>1, <1>3, <1>5, <1>6, AppendDef
<1>8. QED BY <1>1, <1>7

LEMMA ContentsTail ==
  ASSUME QueueInv, PacketInv, NEW t \in Threads, DeqInc(t)
  PROVE  Contents' = Tail(Contents) /\ Head(Contents) = data[t] /\ Contents # <<>>
<1>1. Used > 0 /\ Used \in 0 .. Capacity /\ Used' = Used - 1
  BY ClaimsMakeRoom, MoveStart DEF DeqInc, At, QueueInv, TypeOK, Used, Capacity
<1>2. Place(0) = queue_index_start
  BY SizeAssumption DEF QueueInv, TypeOK, Place, Slots
<1>3. \A k \in 0 .. Used - 2 : Place(k)' = Place(k + 1)
  BY <1>1, ModIncValue, SizeAssumption
     DEF QueueInv, TypeOK, Place, Slots, DeqInc, Capacity
<1>4. Contents' = [i \in 1 .. Used - 1 |-> list[Place(i)]]
  BY <1>1, <1>3 DEF Contents, DeqInc
<1>5. Contents \in Seq(Message) /\ Len(Contents) = Used /\ Contents # <<>>
  BY <1>1, ContentsType
<1>6. \A i \in 1 .. Used - 1 : Contents[i + 1] = list[Place(i)]
  BY <1>1 DEF Contents
<1>7. Contents' = Tail(Contents)
  BY <1>1, <1>4, <1>5, <1>6, TailDef
<1>8. Head(Contents) = data[t]
  <2>1. Contents[1] = data[t]
    BY <1>1, <1>2 DEF Contents, PacketInv, DeqInc, At
  <2>2. QED BY <1>5, <2>1
<1>9. QED BY <1>5, <1>7, <1>8

(* A step that moves a thread without effect on the fifo.                  *)
LEMMA FifoStutter ==
  ASSUME QueueInv, QueueInv', PacketInv, NEW t \in Threads, NEW CONSTANT step, GoTo(t, step),
         data' = data, UNCHANGED <<list, indices>>,
         Pending(step) = Pending(pc[t]),
         Carried(step, data[t]) = Carried(pc[t], data[t])
  PROVE  UNCHANGED Fifo!fvars
<1>1. TypeOK /\ TypeOK'
  BY DEF QueueInv
<1>2. PendingOps' = [PendingOps EXCEPT ![t] = PendingOps[t]]
  BY <1>1, MapStep
<1>3. CarriedPackets' = [CarriedPackets EXCEPT ![t] = CarriedPackets[t]]
  BY <1>1, MapStep
<1>4. Contents' = Contents
  BY ContentsSame
<1>5. PendingOps' = PendingOps /\ CarriedPackets' = CarriedPackets
  BY <1>2, <1>3 DEF PendingOps, CarriedPackets
<1>6. QED BY <1>4, <1>5 DEF Fifo!fvars

LEMMA FifoCall ==
  ASSUME QueueInv, QueueInv', PacketInv, NEW t \in Threads, Call(t)
  PROVE  [Fifo!Next]_(Fifo!fvars)
<1>1. TypeOK /\ TypeOK'
  BY DEF QueueInv
<1>2. ASSUME t \in Producers, NEW m \in Message, queueEnqueue(t, m) \/ queueTryEnqueue(t, m)
      PROVE  Fifo!Begin(t)
  <2>1. PICK step \in {"enqWait", "enqTry"} :
          /\ pc[t] = "idle" /\ GoTo(t, step) /\ data'[t] = m
          /\ \A u \in Threads : u # t => data'[u] = data[u]
    BY <1>1, <1>2 DEF queueEnqueue, queueTryEnqueue, At, TypeOK
  <2>2. Contents' = Contents
    BY <1>2, ContentsSame DEF queueEnqueue, queueTryEnqueue
  <2>3. /\ PendingOps' = [PendingOps EXCEPT ![t] = Pending(step)]
        /\ CarriedPackets' = [CarriedPackets EXCEPT ![t] = Carried(step, data'[t])]
        /\ PendingOps[t] = Pending(pc[t])
    BY <1>1, <2>1, MapStep
  <2>4. Carried(step, data'[t]) = m /\ Pending(step) \in {"put", "tryPut"} /\ Pending(pc[t]) = "none"
    BY <2>1, PendingValues DEF Carried
  <2>5. QED BY <1>2, <2>2, <2>3, <2>4 DEF Fifo!Begin, Fifo!Set
<1>3. ASSUME t \in Consumers, queueDequeue(t) \/ queueTryDequeue(t)
      PROVE  Fifo!Begin(t)
  <2>1. PICK step \in {"deqWait", "deqTry"} :
          pc[t] = "idle" /\ GoTo(t, step) /\ data' = data
    BY <1>3 DEF queueDequeue, queueTryDequeue, At
  <2>2. Contents' = Contents
    BY <1>3, ContentsSame DEF queueDequeue, queueTryDequeue
  <2>3. /\ PendingOps' = [PendingOps EXCEPT ![t] = Pending(step)]
        /\ CarriedPackets' = [CarriedPackets EXCEPT ![t] = Carried(step, data[t])]
        /\ PendingOps[t] = Pending(pc[t])
    BY <1>1, <2>1, MapStep
  <2>4. Carried(step, data[t]) = Nothing /\ Pending(step) \in {"get", "tryGet"}
        /\ Pending(pc[t]) = "none"
    BY <2>1, PendingValues DEF Carried
  <2>5. QED BY <1>3, <2>2, <2>3, <2>4 DEF Fifo!Begin, Fifo!Set
<1>4. ASSUME SizeRead(t) PROVE UNCHANGED Fifo!fvars
  BY <1>4, FifoStutter, PendingValues DEF SizeRead, At, Carried
<1>5. QED BY <1>2, <1>3, <1>4 DEF Call, Fifo!Next

(* The refusals: whoever holds the missing slots (packets) is in a call.   *)
LEMMA RefusedPut ==
  ASSUME QueueInv, NEW t \in Threads, EnqFail(t)
  PROVE  Used + Cardinality(Fifo!Others(t, {"put", "done"})) >= Capacity
<1>1. SlotClaims \subseteq Fifo!Others(t, {"put", "done"})
  BY PendingValues DEF SlotClaims, ThreadsAt, Fifo!Others, PendingOps, EnqFail, At
<1>2. IsFiniteSet(Fifo!Others(t, {"put", "done"})) /\ IsFiniteSet(SlotClaims)
  BY ThreadAssumption, FS_Subset DEF Fifo!Others, SlotClaims, ThreadsAt
<1>3. /\ Cardinality(SlotClaims) <= Cardinality(Fifo!Others(t, {"put", "done"}))
      /\ Cardinality(SlotClaims) \in Nat
      /\ Cardinality(Fifo!Others(t, {"put", "done"})) \in Nat
  BY <1>1, <1>2, FS_Subset, FS_CardinalityType
<1>4. QED
  BY <1>3, ClaimsMakeRoom, SizeAssumption DEF QueueInv, TokensConserved, EnqFail, Capacity

LEMMA RefusedGet ==
  ASSUME QueueInv, NEW t \in Threads, DeqFail(t)
  PROVE  Used <= Cardinality(Fifo!Others(t, {"get", "done"}))
<1>1. ItemClaims \subseteq Fifo!Others(t, {"get", "done"})
  BY PendingValues DEF ItemClaims, ThreadsAt, Fifo!Others, PendingOps, DeqFail, At
<1>2. IsFiniteSet(Fifo!Others(t, {"get", "done"})) /\ IsFiniteSet(ItemClaims)
  BY ThreadAssumption, FS_Subset DEF Fifo!Others, ItemClaims, ThreadsAt
<1>3. /\ Cardinality(ItemClaims) <= Cardinality(Fifo!Others(t, {"get", "done"}))
      /\ Cardinality(ItemClaims) \in Nat
      /\ Cardinality(Fifo!Others(t, {"get", "done"})) \in Nat
  BY <1>1, <1>2, FS_Subset, FS_CardinalityType
<1>4. QED
  BY <1>3, ClaimsMakeRoom DEF QueueInv, TokensConserved, DeqFail

(* A semaphore that is not zero leaves room for (has a packet for) the     *)
(* thread that decrements it.                                              *)
LEMMA RoomForClaim ==
  ASSUME QueueInv
  PROVE  /\ queue_full_lock > 0 => Used < Capacity
         /\ queue_empty_lock > 0 => Used > 0
<1>1. Cardinality(SlotClaims) \in Nat /\ Cardinality(ItemClaims) \in Nat
  BY ThreadAssumption, FS_Subset, FS_CardinalityType DEF SlotClaims, ItemClaims, ThreadsAt
<1>2. Used \in 0 .. Capacity
  BY BetweenType DEF QueueInv, TypeOK, Used, Slots, Capacity
<1>3. QED
  BY <1>1, <1>2, SizeAssumption DEF QueueInv, TypeOK, TokensConserved, Capacity

LEMMA FifoAdvance ==
  ASSUME QueueInv, QueueInv', PacketInv, NEW t \in Threads, Advance(t)
  PROVE  [Fifo!Next]_(Fifo!fvars)
<1>1. TypeOK /\ TypeOK'
  BY DEF QueueInv
<1>2. Contents \in Seq(Message) /\ Len(Contents) = Used /\ Used \in 0 .. Capacity
  BY ContentsType, ClaimsMakeRoom
<1>3. CASE EnqClaim(t)
  <2>1. CASE pc[t] = "enqWait"
    BY <1>3, <2>1, FifoStutter, PendingValues DEF EnqClaim, Carried
  <2>2. CASE pc[t] = "enqTry"
    <3>1. /\ PendingOps' = [PendingOps EXCEPT ![t] = "put"]
          /\ CarriedPackets' = [CarriedPackets EXCEPT ![t] = data[t]]
          /\ PendingOps[t] = "tryPut" /\ CarriedPackets[t] = data[t]
      BY <1>1, <1>3, <2>2, MapStep, PendingValues DEF EnqClaim, Carried
    <3>2. Len(Contents) < Capacity /\ Contents' = Contents
      BY <1>2, <1>3, ContentsSame, RoomForClaim DEF EnqClaim
    <3>3. Fifo!Commit(t)
      BY <3>1, <3>2 DEF Fifo!Commit, Fifo!Set
    <3>4. QED BY <3>3 DEF Fifo!Next
  <2>3. QED BY <1>3, <2>1, <2>2 DEF EnqClaim
<1>4. CASE DeqClaim(t)
  <2>1. CASE pc[t] = "deqWait"
    BY <1>4, <2>1, FifoStutter, PendingValues DEF DeqClaim, Carried
  <2>2. CASE pc[t] = "deqTry"
    <3>1. /\ PendingOps' = [PendingOps EXCEPT ![t] = "get"]
          /\ CarriedPackets' = [CarriedPackets EXCEPT ![t] = Nothing]
          /\ PendingOps[t] = "tryGet" /\ CarriedPackets[t] = Nothing
      BY <1>1, <1>4, <2>2, MapStep, PendingValues DEF DeqClaim, Carried
    <3>2. Contents # <<>> /\ Contents' = Contents
      BY <1>2, <1>4, ContentsSame, RoomForClaim DEF DeqClaim
    <3>3. Fifo!Commit(t)
      BY <3>1, <3>2 DEF Fifo!Commit, Fifo!Set
    <3>4. QED BY <3>3 DEF Fifo!Next
  <2>3. QED BY <1>4, <2>1, <2>2 DEF DeqClaim
<1>5. CASE EnqFail(t)
  <2>1. /\ PendingOps' = [PendingOps EXCEPT ![t] = "none"]
        /\ CarriedPackets' = [CarriedPackets EXCEPT ![t] = Nothing]
        /\ PendingOps[t] = "tryPut"
    <3>1. \A u \in Threads : u # t => data'[u] = data[u]
      BY <1>1, <1>5 DEF EnqFail, TypeOK
    <3>2. QED
      BY <1>1, <1>5, <3>1, MapStep, PendingValues DEF EnqFail, At, Carried
  <2>2. Contents' = Contents
    BY <1>5, ContentsSame DEF EnqFail
  <2>3. Len(Contents) + Cardinality(Fifo!Others(t, {"put", "done"})) >= Capacity
    BY <1>2, <1>5, RefusedPut
  <2>4. Fifo!GiveUp(t)
    BY <2>1, <2>2, <2>3 DEF Fifo!GiveUp, Fifo!Set, Fifo!Cardinality, Cardinality
  <2>5. QED BY <2>4 DEF Fifo!Next
<1>6. CASE DeqFail(t)
  <2>1. /\ PendingOps' = [PendingOps EXCEPT ![t] = "none"]
        /\ CarriedPackets' = [CarriedPackets EXCEPT ![t] = Nothing]
        /\ PendingOps[t] = "tryGet"
    BY <1>1, <1>6, MapStep, PendingValues DEF DeqFail, At, Carried
  <2>2. Contents' = Contents
    BY <1>6, ContentsSame DEF DeqFail
  <2>3. Len(Contents) <= Cardinality(Fifo!Others(t, {"get", "done"}))
    BY <1>2, <1>6, RefusedGet
  <2>4. Fifo!GiveUp(t)
    BY <2>1, <2>2, <2>3 DEF Fifo!GiveUp, Fifo!Set, Fifo!Cardinality, Cardinality
  <2>5. QED BY <2>4 DEF Fifo!Next
<1>7. CASE EnqInc(t)
  <2>1. /\ PendingOps' = [PendingOps EXCEPT ![t] = "done"]
        /\ CarriedPackets' = [CarriedPackets EXCEPT ![t] = Nothing]
        /\ PendingOps[t] = "put" /\ CarriedPackets[t] = data[t]
    BY <1>1, <1>7, MapStep, PendingValues DEF EnqInc, At, Carried
  <2>2. Fifo!Put(t)
    BY <1>2, <1>7, <2>1, ContentsAppend DEF Fifo!Put, Fifo!Set
  <2>3. QED BY <2>2 DEF Fifo!Next
<1>8. CASE DeqInc(t)
  <2>1. /\ PendingOps' = [PendingOps EXCEPT ![t] = "done"]
        /\ CarriedPackets' = [CarriedPackets EXCEPT ![t] = data[t]]
        /\ PendingOps[t] = "get"
    BY <1>1, <1>8, MapStep, PendingValues DEF DeqInc, At, Carried
  <2>2. Fifo!Get(t)
    BY <1>8, <2>1, ContentsTail DEF Fifo!Get, Fifo!Set
  <2>3. QED BY <2>2 DEF Fifo!Next
<1>9. CASE Unlock(t)
  <2>1. /\ PendingOps' = [PendingOps EXCEPT ![t] = "none"]
        /\ CarriedPackets' = [CarriedPackets EXCEPT ![t] = Nothing]
        /\ PendingOps[t] = "done"
    <3>1. \A u \in Threads : u # t => data'[u] = data[u]
      BY <1>1, <1>9 DEF Unlock, TypeOK
    <3>2. QED
      BY <1>1, <1>9, <3>1, MapStep, PendingValues DEF Unlock, Carried
  <2>2. Contents' = Contents
    BY <1>9, ContentsSame DEF Unlock
  <2>3. Fifo!Return(t)
    BY <2>1, <2>2 DEF Fifo!Return, Fifo!Set
  <2>4. QED BY <2>3 DEF Fifo!Next
<1>10. CASE EnqPost(t) \/ DeqPost(t) \/ Lock(t) \/ SizeReturn(t)
  BY <1>10, FifoStutter, PendingValues DEF EnqPost, DeqPost, Lock, SizeReturn, At, Carried
<1>11. CASE EnqWrite(t)
  <2>1. Contents' = Contents
    <3>1. \A i \in 1 .. Used : Place(i - 1) # queue_index_end /\ Place(i - 1) \in Slots
      BY ContentsPlaces, RingEnds, <1>1 DEF Stored, Used, TypeOK
    <3>2. \A i \in 1 .. Used : list'[Place(i - 1)] = list[Place(i - 1)]
      BY <1>1, <1>11, <3>1 DEF EnqWrite, TypeOK
    <3>3. Used' = Used /\ \A i \in 1 .. Used : Place(i - 1)' = Place(i - 1)
      BY <1>11 DEF EnqWrite, Used, Place, Between, indices
    <3>4. QED BY <3>2, <3>3 DEF Contents
  <2>2. /\ PendingOps' = [PendingOps EXCEPT ![t] = PendingOps[t]]
        /\ CarriedPackets' = [CarriedPackets EXCEPT ![t] = CarriedPackets[t]]
    BY <1>1, <1>11, MapStep, PendingValues DEF EnqWrite, At, Carried
  <2>3. PendingOps' = PendingOps /\ CarriedPackets' = CarriedPackets
    BY <2>2 DEF PendingOps, CarriedPackets
  <2>4. QED BY <2>1, <2>3 DEF Fifo!fvars
<1>12. CASE DeqRead(t)
  <2>1. Contents' = Contents
    BY <1>12, ContentsSame DEF DeqRead
  <2>2. /\ PendingOps' = [PendingOps EXCEPT ![t] = PendingOps[t]]
        /\ CarriedPackets' = [CarriedPackets EXCEPT ![t] = CarriedPackets[t]]
    <3>1. \A u \in Threads : u # t => data'[u] = data[u]
      BY <1>1, <1>12 DEF DeqRead, TypeOK
    <3>2. QED
      BY <1>1, <1>12, <3>1, MapStep, PendingValues DEF DeqRead, At, Carried
  <2>3. PendingOps' = PendingOps /\ CarriedPackets' = CarriedPackets
    BY <2>2 DEF PendingOps, CarriedPackets
  <2>4. QED BY <2>1, <2>3 DEF Fifo!fvars
<1>13. QED
  BY <1>3, <1>4, <1>5, <1>6, <1>7, <1>8, <1>9, <1>10, <1>11, <1>12 DEF Advance

LEMMA FifoStep == QueueInv /\ QueueInv' /\ PacketInv /\ [Next]_vars => [Fifo!Next]_(Fifo!fvars)
<1> SUFFICES ASSUME QueueInv, QueueInv', PacketInv, [Next]_vars
             PROVE  [Fifo!Next]_(Fifo!fvars)
  OBVIOUS
<1>1. CASE Next
  BY <1>1, FifoCall, FifoAdvance DEF Next
<1>2. CASE UNCHANGED vars
  <2>1. PendingOps' = PendingOps /\ CarriedPackets' = CarriedPackets
    BY <1>2 DEF vars, PendingOps, CarriedPackets
  <2>2. Contents' = Contents
    BY <1>2, ContentsSame DEF vars
  <2>3. QED BY <2>1, <2>2 DEF Fifo!fvars
<1>3. QED BY <1>1, <1>2

(* The queue of dispatch.c is a linearizable bounded FIFO: no packet is    *)
(* lost, duplicated or reordered, for any number of producers, consumers   *)
(* and slots.                                                              *)
THEOREM FifoRefinement == Spec => ImplementsFifo
<1>1. QueueInv /\ [Next]_vars => QueueInv'
  BY QueueInvNext
<1>2. QED
  BY <1>1, QueueInvariant, PacketInvInit, PacketInvNext, FifoInit, FifoStep, PTL
     DEF Spec, ImplementsFifo, Fifo!Spec
=============================================================================
