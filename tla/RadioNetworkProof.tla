------------------------- MODULE RadioNetworkProof --------------------------
(***************************************************************************)
(* Proofs about the radios of a network, of any size, with any number of   *)
(* frames missed.  A half that waits in a slot has its other half still to *)
(* come, or the radio has missed that; and the second frame that a board   *)
(* is about to write meets its own first half, or the radio has missed     *)
(* this one.  For the addresses, the table of the router's radio never has *)
(* one under a serial number that the router has not given it to.          *)
(***************************************************************************)
EXTENDS RadioNetwork, FiniteSetTheorems, WellFoundedInduction, TLAPS

USE RadioAssumption

-----------------------------------------------------------------------------
(* Looking for the first one.                                              *)

LEMMA FirstOf ==
  ASSUME NEW S \in SUBSET Nat, S # {}
  PROVE  LET first == CHOOSE i \in S : \A j \in S : i <= j
         IN  first \in S /\ \A j \in S : first <= j
<1> DEFINE Below == {0 .. k : k \in S}
<1>1. Below \subseteq FiniteSubsetsOf(Nat)
  <2> SUFFICES ASSUME NEW k \in S PROVE 0 .. k \in FiniteSubsetsOf(Nat)
    OBVIOUS
  <2>1. IsFiniteSet(0 .. k)
    BY FS_Interval
  <2> QED
    BY <2>1 DEF FiniteSubsetsOf
<1>2. Below # {}
  OBVIOUS
<1> HIDE DEF Below
<1>3. PICK X \in Below : \A Y \in Below : <<Y, X>> \notin StrictSubsetOrdering(Nat)
  BY <1>1, <1>2, FS_StrictSubsetOrderingWellFounded, WFMin
<1>4. PICK k \in S : X = 0 .. k
  BY DEF Below
<1>5. ASSUME NEW j \in S PROVE k <= j
  <2> SUFFICES ASSUME j < k PROVE FALSE
    OBVIOUS
  <2>1. 0 .. j \in Below
    BY DEF Below
  <2>2. <<0 .. j, X>> \in StrictSubsetOrdering(Nat)
    BY <1>4 DEF StrictSubsetOrdering
  <2> QED
    BY <1>3, <2>1, <2>2
<1>6. \E i \in S : \A j \in S : i <= j
  BY <1>5
<1> QED
  BY <1>6

-----------------------------------------------------------------------------
(* The slots for halves.  Each holds one, under its number, and no two     *)
(* hold halves under the same number.                                      *)

Positions == 1 .. FRAG_BUF_SZ

Holds(b, i) == b.slots[i].pending

BufferOK(b) ==
  /\ b = [slots |-> b.slots, next |-> b.next]
  /\ b.next \in Positions
  /\ b.slots = [i \in Positions |-> b.slots[i]]
  /\ \A i \in Positions : Holds(b, i) =>
       b.slots[i].f0 = <<b.slots[i].f0[1]>> /\ b.slots[i].f0[1].sn = b.slots[i].sn
  /\ \A i, j \in Positions :
       Holds(b, i) /\ Holds(b, j) /\ b.slots[i].sn = b.slots[j].sn => i = j

Held(b) == {b.slots[i].f0[1] : i \in {j \in Positions : Holds(b, j)}}

LEMMA Empty == BufferOK(FragBuffer) /\ Held(FragBuffer) = {}
<1>1. /\ FragBuffer.slots = [i \in Positions |-> FragSlot] /\ FragBuffer.next = 1
      /\ FragBuffer = [slots |-> FragBuffer.slots, next |-> FragBuffer.next]
  BY DEF FragBuffer, Positions
<1>2. \A i \in Positions : ~ Holds(FragBuffer, i)
  BY <1>1 DEF Holds, FragSlot
<1>3. 1 \in Positions
  BY DEF Positions
<1> HIDE DEF FragBuffer, Positions
<1>4. FragBuffer.slots = [i \in Positions |-> FragBuffer.slots[i]]
  BY <1>1
<1> QED
  BY <1>1, <1>2, <1>3, <1>4 DEF BufferOK, Held

LEMMA PendingFacts ==
  ASSUME NEW b, NEW sn
  PROVE  LET i == PendingSlot(b, sn)
         IN  \/ i = 0 /\ \A j \in Positions : Holds(b, j) => b.slots[j].sn # sn
             \/ i # 0 /\ i \in Positions /\ Holds(b, i) /\ b.slots[i].sn = sn
<1> DEFINE found == {i \in 1 .. FRAG_BUF_SZ : b.slots[i].pending /\ b.slots[i].sn = sn}
<1>1. CASE found = {}
  BY <1>1 DEF PendingSlot, Holds, Positions
<1>2. CASE found # {}
  <2>1. PendingSlot(b, sn) = CHOOSE i \in found : \A j \in found : i <= j
    BY <1>2 DEF PendingSlot
  <2>2. found \in SUBSET Nat
    OBVIOUS
  <2> HIDE DEF found
  <2>3. PendingSlot(b, sn) \in found
    BY <1>2, <2>1, <2>2, FirstOf
  <2> QED
    BY <2>3 DEF found, Holds, Positions
<1> QED
  BY <1>1, <1>2

LEMMA FirstIsHeld ==
  ASSUME NEW b, BufferOK(b), NEW sn, PendingSlot(b, sn) # 0
  PROVE  LET f == b.slots[PendingSlot(b, sn)].f0[1]
         IN  f \in Held(b) /\ f.sn = sn
BY PendingFacts DEF Held, BufferOK

LEMMA FirstHalfKept ==
  ASSUME NEW b, BufferOK(b), NEW sn, NEW f, f.sn = sn
  PROVE  /\ BufferOK(defragF0(b, sn, f))
         /\ \A g \in Held(defragF0(b, sn, f)) : g = f \/ (g \in Held(b) /\ g.sn # sn)
<1> DEFINE same == PendingSlot(b, sn)
           pos  == IF same = 0 THEN b.next ELSE same
           slot == [pending |-> TRUE, sn |-> sn, f0 |-> <<f>>]
           c    == defragF0(b, sn, f)
           next == IF pos = b.next THEN 1 + (b.next % FRAG_BUF_SZ) ELSE b.next
<1>1. c = [slots |-> [b.slots EXCEPT ![pos] = slot], next |-> next]
  BY DEF defragF0
<1>2. pos \in Positions /\ next \in Positions
  BY PendingFacts DEF BufferOK, Positions
<1>3. \A i \in Positions : i # pos /\ Holds(b, i) => b.slots[i].sn # sn
  BY PendingFacts DEF BufferOK
<1>4. slot.pending /\ slot.sn = sn /\ slot.f0 = <<f>> /\ slot.f0[1] = f
  OBVIOUS
<1> HIDE DEF pos, next, slot, c
<1>5. c.slots = [b.slots EXCEPT ![pos] = slot] /\ c.next = next
  BY <1>1
<1>6. /\ c.slots = [i \in Positions |-> IF i = pos THEN slot ELSE b.slots[i]]
  BY <1>5 DEF BufferOK
<1>7. /\ c.slots[pos] = slot
      /\ \A i \in Positions \ {pos} : c.slots[i] = b.slots[i]
  BY <1>2, <1>6
<1>8. BufferOK(c)
  <2>1. c.slots = [i \in Positions |-> c.slots[i]]
    BY <1>6
  <2>2. c = [slots |-> c.slots, next |-> c.next]
    BY <1>1
  <2> QED
    BY <1>2, <1>3, <1>4, <1>5, <1>7, <2>1, <2>2 DEF BufferOK, Holds
<1>9. \A g \in Held(c) : g = f \/ (g \in Held(b) /\ g.sn # sn)
  BY <1>3, <1>4, <1>7 DEF Held, Holds, BufferOK
<1> QED
  BY <1>8, <1>9 DEF c

LEMMA SecondHalfEnds ==
  ASSUME NEW b, BufferOK(b), NEW sn
  PROVE  /\ BufferOK(defragF1(b, sn))
         /\ \A g \in Held(defragF1(b, sn)) : g \in Held(b) /\ g.sn # sn
<1> DEFINE pos == PendingSlot(b, sn)
           c   == defragF1(b, sn)
<1>1. c = [b EXCEPT !.slots = [i \in DOMAIN @ |-> IF i = pos THEN FragSlot ELSE @[i]]]
  BY DEF defragF1
<1>2. \A i \in Positions : i # pos /\ Holds(b, i) => b.slots[i].sn # sn
  BY PendingFacts DEF BufferOK
<1>3. ~ FragSlot.pending
  BY DEF FragSlot
<1> HIDE DEF pos, c
<1>4. DOMAIN b.slots = Positions
  BY DEF BufferOK
<1>5. c = [slots |-> [i \in Positions |-> IF i = pos THEN FragSlot ELSE b.slots[i]],
           next |-> b.next]
  BY <1>1, <1>4 DEF BufferOK
<1>6. /\ c.slots = [i \in Positions |-> IF i = pos THEN FragSlot ELSE b.slots[i]]
      /\ c.next = b.next
  BY <1>5
<1>7. \A i \in Positions : c.slots[i] = IF i = pos THEN FragSlot ELSE b.slots[i]
  BY <1>6
<1>8. BufferOK(c)
  <2>1. c.slots = [i \in Positions |-> c.slots[i]]
    BY <1>6
  <2>2. c = [slots |-> c.slots, next |-> c.next]
    BY <1>5
  <2> QED
    BY <1>2, <1>3, <1>6, <1>7, <2>1, <2>2 DEF BufferOK, Holds
<1>9. \A g \in Held(c) : g \in Held(b) /\ g.sn # sn
  BY <1>2, <1>3, <1>7 DEF Held, Holds, BufferOK
<1> QED
  BY <1>8, <1>9 DEF c

-----------------------------------------------------------------------------
(* The invariant.                                                          *)

Entries == 1 .. DEFAULTSNIPSIZE

(* A device has one entry at most, and sits behind the XBee of its own     *)
(* serial number; its address is one that the router has given to it.      *)
TableOK(T, L) ==
  /\ T = [i \in Entries |-> T[i]]
  /\ \A i \in Entries :
       /\ T[i] = [sn |-> T[i].sn, ip |-> T[i].ip, dev_sn |-> T[i].sn]
       /\ T[i].sn \in Sensors \cup {Zero}
       /\ T[i].sn = Zero => T[i].ip = Zero
       /\ T[i].ip # Zero => T[i].ip \in Addresses /\ L[T[i].ip] = T[i].sn
  /\ \A i, j \in Entries : T[i].sn = T[j].sn /\ T[i].sn # Zero => i = j

(* Only the router's radio is in router mode.                              *)
RadioOK(r, R) ==
  R = [router_mode |-> IF r = Router THEN "ROUTER" ELSE "SENSOR", on_network |-> R.on_network,
       timeout_counter |-> R.timeout_counter, table |-> R.table]

(* What read lets pass: Zero is for all, the router's radio takes any.     *)
Hears(q, f) == q # f.from /\ (q # Router => f.sn \in {q, Zero})

(* The shape of the state.                                                 *)
Line ==
  /\ world \in Worlds
  /\ radio = [r \in Radios |-> radio[r]]
  /\ \A r \in Radios : RadioOK(r, radio[r])
  /\ buffer = [r \in Radios |-> buffer[r]]
  /\ \A r \in Radios : BufferOK(buffer[r])
  /\ second = [r \in Radios |-> second[r]]
  /\ \A r \in Radios : second[r] = <<>> \/ second[r] = <<second[r][1]>>
  /\ leases = [a \in Addresses |-> leases[a]]

(* A sensor's frame bears its own number.  One of the router's bears that  *)
(* of the device it is for, or is for all, or for nobody.                  *)
Addressed(f) ==
  /\ f = [half |-> f.half, n |-> f.n, from |-> f.from, sn |-> f.sn, packet |-> f.packet]
  /\ f.from \in Radios
  /\ f.from # Router => f.sn = f.from /\ f.packet.dev_sn = f.from
  /\ f.from = Router => \/ f.packet.type \in {"FLY", "PECK"}
                        \/ f.sn = Invalid
                        \/ f.sn = f.packet.to /\ f.sn # Zero

(* The table of the router's radio agrees with the leases of the router.   *)
Lookup == eyeballed \subseteq Sensors /\ TableOK(radio[Router].table, leases)

FirstOfs == \A q \in Radios : \A g \in Held(buffer[q]) : Addressed(g) /\ Hears(q, g)

Seconds == \A r \in Radios : second[r] # <<>> => Addressed(second[r][1]) /\ second[r][1].from = r

(* The other half of a frame.                                              *)
SecondOf(g) == [g EXCEPT !.half = 1]
FirstFrame(h) == [h EXCEPT !.half = 0]

(* What waits for its second half: it is still to come or was missed.      *)
SecondComes == \A q \in Radios : \A g \in Held(buffer[q]) :
  second[g.from] = <<SecondOf(g)>> \/ <<q, SecondOf(g)>> \in missed

(* What waits where a second half will be heard: its own, or the first     *)
(* half of that one's packet was missed.                                   *)
FirstCame == \A q, r \in Radios : second[r] # <<>> /\ Hears(q, second[r][1]) =>
  \A g \in Held(buffer[q]) : g.sn = second[r][1].sn =>
    SecondOf(g) = second[r][1] \/ <<q, FirstFrame(second[r][1])>> \in missed

IInv == Line /\ Lookup /\ FirstOfs /\ Seconds /\ SecondComes /\ FirstCame

-----------------------------------------------------------------------------
(* The table.                                                              *)

LEMMA NoneIsZero == 0 \notin Entries
BY DEF Entries

LEMMA FindFacts ==
  ASSUME NEW T, T = [i \in Entries |-> T[i]], NEW field, NEW key,
         NEW k, k = snipFind(T, field, key)
  PROVE  \/ k = 0 /\ \A j \in Entries : T[j][field] # key
         \/ k # 0 /\ k \in Entries /\ T[k][field] = key
<1> DEFINE found == {i \in DOMAIN T : T[i][field] = key}
<1>0. DOMAIN T = Entries
  OBVIOUS
<1>1. CASE found = {}
  BY <1>0, <1>1 DEF snipFind
<1>2. CASE found # {}
  <2>1. k = CHOOSE i \in found : \A j \in found : i <= j
    BY <1>2 DEF snipFind
  <2>2. found \in SUBSET Nat
    BY <1>0 DEF Entries
  <2> HIDE DEF found
  <2>3. k \in found
    BY <1>2, <2>1, <2>2, FirstOf
  <2> QED
    BY <1>0, <2>3 DEF found, Entries
<1> QED
  BY <1>1, <1>2

LEMMA Fields ==
  ASSUME NEW e PROVE e.sn = e["sn"] /\ e.ip = e["ip"] /\ e.dev_sn = e["dev_sn"]
OBVIOUS

LEMMA EmptyTable == ASSUME NEW L PROVE TableOK(SnIpTable, L)
<1>1. \A i \in Entries : SnIpTable[i] = Entry
  BY DEF SnIpTable, Entries
<1>2. SnIpTable = [i \in Entries |-> SnIpTable[i]]
  BY DEF SnIpTable, Entries
<1>3. Entry.sn = Zero /\ Entry.ip = Zero /\ Entry = [sn |-> Entry.sn, ip |-> Entry.ip, dev_sn |-> Entry.sn]
  BY DEF Entry
<1> QED
  BY <1>1, <1>2, <1>3 DEF TableOK

LEMMA OneOwner ==
  ASSUME NEW T, NEW L, TableOK(T, L), NEW a \in Addresses
  PROVE  \A i \in Entries : T[i].ip = a => T[i].sn = L[a] /\ T[i].sn \in Sensors
BY NetworkAssumption DEF TableOK

LEMMA LookedUp ==
  ASSUME NEW T, NEW L, TableOK(T, L), NEW a \in Addresses,
         NEW sn, sn = snipSnFromIp(T, a)
  PROVE  /\ \A i \in Entries : T[i].ip = a => T[i].sn = sn
         /\ sn = Invalid \/ (sn = L[a] /\ sn \in Sensors)
<1>1. PICK k : k = snipFind(T, "ip", a)
  OBVIOUS
<1>2. \/ k = 0 /\ \A j \in Entries : T[j].ip # a
      \/ k # 0 /\ k \in Entries /\ T[k].ip = a
  BY <1>1, FindFacts, Fields DEF TableOK
<1>3. sn = IF k = 0 THEN Invalid ELSE T[k].sn
  BY <1>1 DEF snipSnFromIp
<1> QED
  BY <1>2, <1>3, OneOwner

LEMMA Removed ==
  ASSUME NEW T, NEW L, TableOK(T, L), NEW sn, sn # Zero, NEW M, NEW R, R = snipRemove(T, sn),
         \A i \in Entries : T[i].sn # sn /\ T[i].ip \in Addresses => M[T[i].ip] = L[T[i].ip]
  PROVE  TableOK(R, M)
<1>1. PICK k : k = snipFind(T, "sn", sn)
  OBVIOUS
<1>2. \/ k = 0 /\ \A j \in Entries : T[j].sn # sn
      \/ k # 0 /\ k \in Entries /\ T[k].sn = sn
  BY <1>1, FindFacts, Fields DEF TableOK
<1>3. \A i \in Entries : T[i].sn = sn => i = k
  BY <1>2 DEF TableOK
<1>4. /\ R = [i \in Entries |-> IF i = k THEN Entry ELSE T[i]]
  <2>1. DOMAIN T = Entries
    BY DEF TableOK
  <2> QED
    BY <1>1, <2>1 DEF snipRemove
<1>5. \A i \in Entries : R[i] = IF i = k THEN Entry ELSE T[i]
  BY <1>4
<1>6. R = [i \in Entries |-> R[i]]
  BY <1>4
<1>7. Entry.sn = Zero /\ Entry.ip = Zero /\ Entry = [sn |-> Entry.sn, ip |-> Entry.ip, dev_sn |-> Entry.sn]
  BY DEF Entry
<1> QED
  BY <1>3, <1>5, <1>6, <1>7 DEF TableOK

LEMMA Pecked ==
  ASSUME NEW T, NEW L, TableOK(T, L), L = [b \in Addresses |-> L[b]],
         NEW a \in Addresses, L[a] = None, NEW d \in Sensors,
         NEW R, R = snipInsertIp(T, a, d)
  PROVE  TableOK(R, [L EXCEPT ![a] = d])
<1>1. PICK k : k = snipFind(T, "dev_sn", d)
  OBVIOUS
<1>2. \/ k = 0
      \/ k # 0 /\ k \in Entries /\ T[k].dev_sn = d
  BY <1>1, FindFacts, Fields DEF TableOK
<1>3. R = [i \in Entries |-> IF i = k THEN [T[i] EXCEPT !.ip = a] ELSE T[i]]
  <2>1. DOMAIN T = Entries
    BY DEF TableOK
  <2> QED
    BY <1>1, <2>1 DEF snipInsertIp
<1>4. \A i \in Entries : R[i] = IF i = k THEN [T[i] EXCEPT !.ip = a] ELSE T[i]
  BY <1>3
<1>5. R = [i \in Entries |-> R[i]]
  BY <1>3
<1>6. k \in Entries => R[k] = [sn |-> d, ip |-> a, dev_sn |-> d]
  <2> SUFFICES ASSUME k \in Entries PROVE R[k] = [sn |-> d, ip |-> a, dev_sn |-> d]
    OBVIOUS
  <2>1. T[k] = [sn |-> T[k].sn, ip |-> T[k].ip, dev_sn |-> T[k].sn]
    BY DEF TableOK
  <2>2. T[k].sn = d
    BY <1>2, <2>1, NoneIsZero
  <2>3. R[k] = [T[k] EXCEPT !.ip = a]
    BY <1>4
  <2> QED
    BY <2>1, <2>2, <2>3
<1>7. \A i \in Entries : T[i].ip # a
  BY OneOwner, NetworkAssumption
<1>8. PICK M : M = [L EXCEPT ![a] = d]
  OBVIOUS
<1>9. M[a] = d /\ \A b \in Addresses : b # a => M[b] = L[b]
  BY <1>8
<1>10. TableOK(R, M)
  <2>1. \A i \in Entries : i # k => R[i] = T[i]
    BY <1>4
  <2>2. k \in Entries => T[k].sn = d
    BY <1>2, NoneIsZero DEF TableOK
  <2>3. d # Zero /\ a # Zero
    BY NetworkAssumption
  <2>4. \A i \in Entries : R[i].sn = T[i].sn
    BY <1>6, <2>1, <2>2
  <2>5. ASSUME NEW i \in Entries
        PROVE  /\ R[i] = [sn |-> R[i].sn, ip |-> R[i].ip, dev_sn |-> R[i].sn]
               /\ R[i].sn = Zero => R[i].ip = Zero
               /\ R[i].ip # Zero => R[i].ip \in Addresses /\ M[R[i].ip] = R[i].sn
    <3>1. CASE i = k
      BY <1>6, <1>9, <2>3, <3>1
    <3>2. CASE i # k
      BY <1>7, <1>9, <2>1, <3>2 DEF TableOK
    <3> QED
      BY <3>1, <3>2
  <2> QED
    BY <1>5, <2>4, <2>5 DEF TableOK
<1> QED
  BY <1>8, <1>10

LEMMA TwoFields ==
  ASSUME NEW z, NEW s, NEW e, e = [sn |-> z, ip |-> z, dev_sn |-> z]
  PROVE  [e EXCEPT !.sn = s, !.dev_sn = s] = [sn |-> s, ip |-> z, dev_sn |-> s]
<1>1. PICK c : c = [e EXCEPT !.sn = s]
  OBVIOUS
<1>2. c = [sn |-> s, ip |-> z, dev_sn |-> z]
  BY <1>1
<1>3. [c EXCEPT !.dev_sn = s] = [sn |-> s, ip |-> z, dev_sn |-> s]
  BY <1>2
<1>4. [e EXCEPT !.sn = s, !.dev_sn = s] = [c EXCEPT !.dev_sn = s]
  BY <1>1
<1> QED
  BY <1>3, <1>4

LEMMA Inserted ==
  ASSUME NEW T, NEW L, TableOK(T, L), NEW s \in Sensors,
         NEW R, R = snipInsertSn(T, s, s)
  PROVE  TableOK(R, L)
<1>1. PICK k : k = snipFind(T, "dev_sn", s)
  OBVIOUS
<1>2. PICK f : f = snipFind(T, "sn", Zero)
  OBVIOUS
<1>3. \/ k = 0 /\ \A j \in Entries : T[j].dev_sn # s
      \/ k # 0 /\ k \in Entries /\ T[k].dev_sn = s
  BY <1>1, FindFacts, Fields DEF TableOK
<1>4. f = 0 \/ (f \in Entries /\ T[f].sn = Zero)
  BY <1>2, FindFacts, Fields DEF TableOK
<1>5. R = [i \in Entries |->
         IF i = k THEN [sn |-> s, ip |-> Zero, dev_sn |-> s]
         ELSE IF k = 0 /\ i = f THEN [T[i] EXCEPT !.sn = s, !.dev_sn = s]
         ELSE T[i]]
  <2>1. DOMAIN T = Entries
    BY DEF TableOK
  <2> QED
    BY <1>1, <1>2, <2>1 DEF snipInsertSn
<1>6. R = [i \in Entries |-> R[i]]
  BY <1>5
<1>7. CASE k = 0
  <2>1. \A i \in Entries : T[i].sn # s
    BY <1>3, <1>7 DEF TableOK, Entries
  <2>2. \A i \in Entries : i # f => R[i] = T[i]
    BY <1>5, <1>7, NoneIsZero
  <2>3. f \in Entries => R[f] = [sn |-> s, ip |-> Zero, dev_sn |-> s]
    <3> SUFFICES ASSUME f \in Entries PROVE R[f] = [sn |-> s, ip |-> Zero, dev_sn |-> s]
      OBVIOUS
    <3>1. f # 0 /\ T[f] = [sn |-> Zero, ip |-> Zero, dev_sn |-> Zero]
      BY <1>4, NoneIsZero DEF TableOK
    <3>2. R[f] = [T[f] EXCEPT !.sn = s, !.dev_sn = s]
      BY <1>5, <1>7, <3>1
    <3>3. PICK e : e = T[f]
      OBVIOUS
    <3>4. R[f] = [e EXCEPT !.sn = s, !.dev_sn = s]
      BY <3>2, <3>3, Zenon
    <3>5. [e EXCEPT !.sn = s, !.dev_sn = s] = [sn |-> s, ip |-> Zero, dev_sn |-> s]
      BY <3>1, <3>3, TwoFields, Zenon
    <3> QED
      BY <3>4, <3>5, Zenon
  <2> QED
    BY <1>6, <2>1, <2>2, <2>3, NetworkAssumption DEF TableOK
<1>8. CASE k # 0
  <2>1. k \in Entries /\ T[k].sn = s
    BY <1>3, <1>8 DEF TableOK
  <2>2. R[k] = [sn |-> s, ip |-> Zero, dev_sn |-> s] /\ \A i \in Entries : i # k => R[i] = T[i]
    BY <1>5, <1>8, <2>1
  <2> QED
    BY <1>6, <2>1, <2>2, NetworkAssumption DEF TableOK
<1> QED
  BY <1>7, <1>8

-----------------------------------------------------------------------------
(* A packet from the host, as the network has them.                        *)

Mode(r) == IF r = Router THEN "ROUTER" ELSE "SENSOR"

LEMMA ModeIs ==
  ASSUME NEW r, NEW R, RadioOK(r, R)
  PROVE  R.router_mode = Mode(r) /\ (ROUTER(R) <=> r = Router) /\ (SENSOR(R) <=> r # Router)
<1>1. R.router_mode = Mode(r)
  BY DEF RadioOK, Mode
<1> QED
  BY <1>1 DEF Mode, ROUTER, SENSOR

LEMMA ReadersHear ==
  ASSUME NEW f, \A r \in Radios : RadioOK(r, radio[r])
  PROVE  Readers(f) = {q \in Radios : Hears(q, f)}
<1>1. \A q \in Radios : read(radio[q], q, f.sn) <=> (q # Router => f.sn \in {q, Zero})
  BY ModeIs DEF read
<1> QED
  BY <1>1 DEF Readers, Hears

LEMMA NewTable ==
  ASSUME NEW r, NEW R, RadioOK(r, R), NEW T
  PROVE  LET S == [R EXCEPT !.table = T] IN RadioOK(r, S) /\ S.table = T
BY DEF RadioOK

LEMMA OffOrOn ==
  ASSUME NEW r, NEW R, RadioOK(r, R), NEW on
  PROVE  LET S == [R EXCEPT !.on_network = on] IN RadioOK(r, S) /\ S.table = R.table
BY DEF RadioOK

LEMMA TimerRestarts ==
  ASSUME NEW r, NEW R, RadioOK(r, R)
  PROVE  LET S == [R EXCEPT !.timeout_counter = 1] IN RadioOK(r, S) /\ S.table = R.table
BY DEF RadioOK

(* Whatever a radio puts together, it stays what it is; only the router's  *)
(* changes its table, for an Eyeball or a disconnection.                   *)
LEMMA Processed ==
  ASSUME NEW r, NEW R, RadioOK(r, R), NEW sn, NEW p,
         NEW result, result = processPacket(R, sn, p)
  PROVE  /\ RadioOK(r, result.radio)
         /\ r = Router =>
              /\ p.type = "EYEBALL" => result.radio.table = snipInsertSn(R.table, sn, p.dev_sn)
              /\ p.type = "SENSOR_DISCONNECT" => /\ result.radio.table = snipRemove(R.table, sn)
                                                 /\ result.ip = snipIpFromSn(R.table, sn)
              /\ p.type \notin {"EYEBALL", "SENSOR_DISCONNECT"} => result.radio.table = R.table
<1> DEFINE Is(S, ip) == \E q, send : result = Result(S, q, ip, send)
<1>1. (ROUTER(R) <=> r = Router) /\ (SENSOR(R) <=> r # Router)
  BY ModeIs
<1>2. ASSUME NEW S, NEW ip, Is(S, ip), RadioOK(r, S)
      PROVE  RadioOK(r, result.radio) /\ result.radio.table = S.table /\ result.ip = ip
  <2>1. PICK q, send : result = Result(S, q, ip, send)
    BY <1>2
  <2>2. result.radio = [S EXCEPT !.timeout_counter = 1] /\ result.ip = ip
    BY <2>1 DEF Result
  <2> QED
    BY <1>2, <2>2, TimerRestarts
<1>3. CASE p.type \in {"EYEBALL", "SENSOR_DISCONNECT"} /\ r = Router
  <2> DEFINE T == IF p.type = "EYEBALL" THEN snipInsertSn(R.table, sn, p.dev_sn)
                  ELSE snipRemove(R.table, sn)
             S == [R EXCEPT !.table = T]
             ip == IF p.type = "EYEBALL" THEN AllOnes ELSE snipIpFromSn(R.table, sn)
  <2>1. Is(S, ip)
    <3>1. CASE p.type = "EYEBALL"
      BY <1>1, <1>3, <3>1 DEF processPacket
    <3>2. CASE p.type = "SENSOR_DISCONNECT"
      BY <1>1, <1>3, <3>2 DEF processPacket
    <3> QED
      BY <1>3, <3>1, <3>2
  <2>2. RadioOK(r, S) /\ S.table = T
    BY NewTable
  <2> HIDE DEF S
  <2>3. RadioOK(r, result.radio) /\ result.radio.table = T /\ result.ip = ip
    BY <1>2, <2>1, <2>2
  <2> QED
    BY <1>3, <2>3
<1>4. CASE ~ (p.type \in {"EYEBALL", "SENSOR_DISCONNECT"} /\ r = Router)
  <2>1. \E S, ip : Is(S, ip) /\ RadioOK(r, S) /\ S.table = R.table
    <3> DEFINE Turned(on) == [R EXCEPT !.on_network = on]
    <3>1. \A on : RadioOK(r, Turned(on)) /\ Turned(on).table = R.table
      BY OffOrOn
    <3>2. CASE p.type = "NEST"
      <4>1. (\E ip : Is(R, ip)) \/ \E on, ip : Is(Turned(on), ip)
        BY <3>2 DEF processPacket
      <4> HIDE DEF Is, Turned
      <4> QED
        BY <3>1, <4>1
    <3>3. CASE p.type = "NETWORK_DISCONNECTS_SENSOR"
      <4>1. (\E ip : Is(R, ip)) \/ \E on, ip : Is(Turned(on), ip)
        BY <3>3 DEF processPacket
      <4> HIDE DEF Is, Turned
      <4> QED
        BY <3>1, <4>1
    <3>4. CASE p.type \notin {"NEST", "NETWORK_DISCONNECTS_SENSOR"}
      <4>1. \E ip : Is(R, ip)
        BY <1>1, <1>4, <3>4 DEF processPacket
      <4> QED
        BY <4>1
    <3> QED
      BY <3>2, <3>3, <3>4
  <2>2. PICK S, ip : Is(S, ip) /\ RadioOK(r, S) /\ S.table = R.table
    BY <2>1
  <2> QED
    BY <1>2, <1>4, <2>2
<1> QED
  BY <1>3, <1>4

LEMMA SensorTakes ==
  ASSUME NEW r, r # Router, NEW R, RadioOK(r, R), NEW p,
         p.type \in {"EYEBALL", "SENSOR_DISCONNECT"},
         NEW result, result = processSpi(R, r, p, p.ip)
  PROVE  RadioOK(r, result.radio) /\ result.sn = r
<1>1. ~ ROUTER(R) /\ SENSOR(R)
  BY ModeIs
<1>2. CASE p.type = "EYEBALL"
  BY <1>1, <1>2 DEF processSpi
<1>3. CASE p.type = "SENSOR_DISCONNECT"
  <2> DEFINE Turned(on) == [R EXCEPT !.on_network = on]
  <2>1. \A on : RadioOK(r, Turned(on))
    BY OffOrOn
  <2>2. (\E on : result.radio = Turned(on)) /\ result.sn = r
    BY <1>1, <1>3 DEF processSpi
  <2> HIDE DEF Turned
  <2> QED
    BY <2>1, <2>2
<1> QED
  BY <1>2, <1>3

LEMMA RouterTakes ==
  ASSUME NEW R, RadioOK(Router, R), NEW p,
         NEW result, result = processSpi(R, Router, p, p.ip)
  PROVE  /\ p.type = "FLY" => RadioOK(Router, result.radio) /\ result.radio.table = R.table
         /\ p.type = "PECK" =>
              /\ RadioOK(Router, result.radio)
              /\ result.radio.table = snipInsertIp(R.table, p.ip, p.dev_sn)
         /\ p.type = "DATA" =>
              /\ RadioOK(Router, result.radio) /\ result.radio.table = R.table
              /\ result.sn = snipSnFromIp(R.table, p.ip)
         /\ p.type = "NETWORK_DISCONNECTS_SENSOR" =>
              /\ RadioOK(Router, result.radio)
              /\ result.sn = snipSnFromIp(R.table, p.ip)
              /\ result.radio.table = snipRemove(R.table, result.sn)
<1>1. ROUTER(R) /\ ~ SENSOR(R)
  BY ModeIs
<1>2. CASE p.type = "PECK"
  <2>1. PICK T : T = snipInsertIp(R.table, p.ip, p.dev_sn)
    OBVIOUS
  <2>2. result.radio = [R EXCEPT !.table = T]
    BY <1>1, <1>2, <2>1 DEF processSpi
  <2> QED
    BY <1>2, <2>1, <2>2, NewTable
<1>3. CASE p.type = "NETWORK_DISCONNECTS_SENSOR"
  <2>1. PICK sn, T : sn = snipSnFromIp(R.table, p.ip) /\ T = snipRemove(R.table, sn)
    OBVIOUS
  <2>2. result.radio = [R EXCEPT !.table = T] /\ result.sn = sn
    BY <1>1, <1>3, <2>1 DEF processSpi
  <2> QED
    BY <1>3, <2>1, <2>2, NewTable
<1>4. CASE p.type \in {"FLY", "DATA"}
  BY <1>1, <1>4 DEF processSpi
<1> QED
  BY <1>2, <1>3, <1>4

-----------------------------------------------------------------------------
(* What is missed is remembered while anything of its packet is there.     *)

LEMMA HeldIsInUse ==
  ASSUME Line, NEW q \in Radios, NEW g \in Held(buffer[q]) PROVE g.n \in InUse
<1>1. PICK i \in Positions : Holds(buffer[q], i) /\ g = buffer[q].slots[i].f0[1]
  BY DEF Held
<1>2. /\ buffer[q].slots[i].f0 = <<g>>
      /\ buffer[q].slots = [j \in Positions |-> buffer[q].slots[j]]
  BY <1>1 DEF Line, BufferOK
<1>3. buffer[q].slots[i] \in Range(buffer[q].slots)
  BY <1>2 DEF Range
<1>4. g \in Range(buffer[q].slots[i].f0)
  BY <1>2 DEF Range
<1> QED
  BY <1>3, <1>4 DEF InUse

LEMMA SecondIsInUse ==
  ASSUME Line, NEW r \in Radios, second[r] # <<>> PROVE second[r][1].n \in InUse
<1>1. second[r] = <<second[r][1]>>
  BY DEF Line
<1>2. second[r][1] \in Range(second[r])
  BY <1>1 DEF Range
<1> QED
  BY <1>2 DEF InUse

LEMMA Remembered ==
  ASSUME NEW f, NEW qs, Misses(f, qs)
  PROVE  /\ \A q \in qs : <<q, f>> \in missed'
         /\ \A q, g : <<q, g>> \in missed /\ g.n \in InUse => <<q, g>> \in missed'
BY DEF Misses

(* Two frames that one radio hears under one number come from one board.   *)
LEMMA OneSender ==
  ASSUME Line, NEW f, NEW g, NEW q \in Radios, Addressed(f), Addressed(g),
         Hears(q, f), Hears(q, g), f.sn = g.sn
  PROVE  f.from = g.from
<1>1. Radios \ {Router} \subseteq Sensors
  BY NetworkAssumption DEF Line, Radios
<1>2. Zero \notin Sensors
  BY NetworkAssumption
<1>3. CASE q = Router
  BY <1>3 DEF Hears, Addressed
<1>4. CASE q # Router
  <2>1. \A h \in {f, g} : h.from = Router
    BY <1>1, <1>2, <1>4 DEF Hears, Addressed
  <2> QED
    BY <2>1
<1> QED
  BY <1>3, <1>4

LEMMA Halves ==
  ASSUME NEW f, Addressed(f)
  PROVE  /\ SecondOf(f).n = f.n /\ FirstFrame(f).n = f.n
         /\ SecondOf(f).from = f.from /\ SecondOf(f).sn = f.sn /\ SecondOf(f).packet = f.packet
         /\ Addressed(SecondOf(f))
         /\ f.half = 0 => FirstFrame(SecondOf(f)) = f
<1>1. PICK g : g = [half |-> 1, n |-> f.n, from |-> f.from, sn |-> f.sn, packet |-> f.packet]
  OBVIOUS
<1>2. SecondOf(f) = g
  BY <1>1 DEF SecondOf, Addressed
<1>3. Addressed(g)
  BY <1>1 DEF Addressed
<1>4. FirstFrame(g) = [half |-> 0, n |-> f.n, from |-> f.from, sn |-> f.sn, packet |-> f.packet]
  BY <1>1 DEF FirstFrame
<1>5. FirstFrame(f).n = f.n
  BY DEF FirstFrame, Addressed
<1>6. f.half = 0 => FirstFrame(g) = f
  BY <1>4 DEF Addressed
<1> QED
  BY <1>1, <1>2, <1>3, <1>5, <1>6

-----------------------------------------------------------------------------
(* The first frame.                                                        *)

LEMMA WritesHolds ==
  ASSUME IInv, NEW r \in Radios, NEW packet, Writes(r, packet),
         NEW result, result = processSpi(radio[r], r, packet, packet.ip),
         RadioOK(r, result.radio),
         \A n : Addressed(Frame(0, n, r, result.sn, packet)),
         leases' = [a \in Addresses |-> leases'[a]], eyeballed' \subseteq Sensors,
         TableOK(IF r = Router THEN result.radio.table ELSE radio[Router].table, leases')
  PROVE  IInv'
<1> DEFINE n == Min((0 .. Cardinality(InUse)) \ InUse)
<1>1. PICK f : f = Frame(0, n, r, result.sn, packet)
  OBVIOUS
<1>2. PICK hear \in SUBSET Readers(f) :
        /\ UNCHANGED world
        /\ second[r] = <<>>
        /\ second' = [second EXCEPT ![r] = <<SecondOf(f)>>]
        /\ radio' = [radio EXCEPT ![r] = result.radio]
        /\ Misses(f, Readers(f) \ hear)
        /\ buffer' = [q \in Radios |-> IF q \in hear
             THEN defragF0(buffer[q], f.sn, f) ELSE buffer[q]]
  BY <1>1 DEF Writes, SecondOf
<1> HIDE DEF n
<1>3. f.from = r /\ f.half = 0 /\ Addressed(f)
  BY <1>1 DEF Frame
<1>4. /\ SecondOf(f).from = r /\ SecondOf(f).sn = f.sn
      /\ Addressed(SecondOf(f)) /\ FirstFrame(SecondOf(f)) = f
  BY <1>3, Halves
<1>5. Radios' = Radios /\ Router \in Radios
  BY <1>2 DEF Radios
<1>6. /\ \A p \in Radios : second'[p] = IF p = r THEN <<SecondOf(f)>> ELSE second[p]
      /\ second' = [p \in Radios |-> second'[p]]
  BY <1>2 DEF IInv, Line
<1>7. /\ \A p \in Radios : radio'[p] = IF p = r THEN result.radio ELSE radio[p]
      /\ radio' = [p \in Radios |-> radio'[p]]
  BY <1>2 DEF IInv, Line
<1>8. /\ \A q \in Radios : buffer'[q] = IF q \in hear THEN defragF0(buffer[q], f.sn, f) ELSE buffer[q]
      /\ buffer' = [q \in Radios |-> buffer'[q]]
  BY <1>2
<1>9. \A q \in Radios :
        /\ BufferOK(buffer'[q])
        /\ \A g \in Held(buffer'[q]) :
             (q \in hear /\ g = f) \/ (g \in Held(buffer[q]) /\ (q \in hear => g.sn # f.sn))
  BY <1>8, FirstHalfKept DEF IInv, Line
<1>10. Readers(f) = {q \in Radios : Hears(q, f)}
  BY ReadersHear DEF IInv, Line
<1>11. Line'
  <2>1. \A p \in Radios : RadioOK(p, radio'[p])
    BY <1>7 DEF IInv, Line
  <2>2. \A p \in Radios : second'[p] = <<>> \/ second'[p] = <<second'[p][1]>>
    BY <1>6 DEF IInv, Line
  <2> QED
    BY <1>2, <1>5, <1>6, <1>7, <1>8, <1>9, <2>1, <2>2 DEF IInv, Line
<1>12. Lookup'
  BY <1>5, <1>7 DEF Lookup
<1>13. \A g : Addressed(g) => Addressed(g)'
  BY <1>5 DEF Addressed
<1>14. FirstOfs'
  BY <1>3, <1>5, <1>9, <1>10, <1>13 DEF IInv, FirstOfs, Hears
<1>15. Seconds'
  BY <1>4, <1>5, <1>6, <1>13 DEF IInv, Seconds
<1>16. /\ \A q \in Readers(f) \ hear : <<q, f>> \in missed'
       /\ \A q, g : <<q, g>> \in missed /\ g.n \in InUse => <<q, g>> \in missed'
  BY <1>2, Remembered
<1>17. SecondComes'
  <2> SUFFICES ASSUME NEW q \in Radios, NEW g \in Held(buffer'[q])
               PROVE  second'[g.from] = <<SecondOf(g)>> \/ <<q, SecondOf(g)>> \in missed'
    BY <1>5 DEF SecondComes, SecondOf
  <2>1. CASE g = f
    BY <1>3, <1>6, <2>1
  <2>2. CASE g # f
    <3>1. g \in Held(buffer[q]) /\ Addressed(g)
      BY <1>9, <2>2 DEF IInv, FirstOfs
    <3>2. second[g.from] = <<SecondOf(g)>> \/ <<q, SecondOf(g)>> \in missed
      BY <3>1 DEF IInv, SecondComes
    <3>3. SecondOf(g).n \in InUse
      BY <3>1, HeldIsInUse, Halves DEF IInv
    <3>4. <<q, SecondOf(g)>> \in missed => <<q, SecondOf(g)>> \in missed'
      BY <1>16, <3>3
    <3>5. g.from \in Radios
      BY <3>1 DEF Addressed
    <3>6. second[g.from] = <<SecondOf(g)>> => second'[g.from] = <<SecondOf(g)>>
      BY <1>2, <1>6, <3>5
    <3> QED
      BY <3>2, <3>4, <3>6
  <2> QED
    BY <2>1, <2>2
<1>18. FirstCame'
  <2> SUFFICES ASSUME NEW q \in Radios, NEW p \in Radios, second'[p] # <<>>,
                      Hears(q, second'[p][1]), NEW g \in Held(buffer'[q]),
                      g.sn = second'[p][1].sn
               PROVE  \/ SecondOf(g) = second'[p][1]
                      \/ <<q, FirstFrame(second'[p][1])>> \in missed'
    BY <1>5 DEF FirstCame, SecondOf, FirstFrame, Hears
  <2>1. CASE p = r
    <3>1. second'[p][1] = SecondOf(f)
      BY <1>6, <2>1
    <3>2. q \in Readers(f)
      BY <1>3, <1>4, <1>10, <3>1 DEF Hears
    <3>3. CASE q \in hear
      BY <1>4, <1>9, <3>1, <3>3
    <3>4. CASE q \notin hear
      BY <1>4, <1>16, <3>1, <3>2, <3>4
    <3> QED
      BY <3>3, <3>4
  <2>2. CASE p # r
    <3>1. PICK h : h = second[p][1] /\ second'[p][1] = h /\ second[p] # <<>>
      BY <1>6, <2>2
    <3>2. Addressed(h) /\ h.from = p
      BY <3>1 DEF IInv, Seconds
    <3>3. g # f
      <4> SUFFICES ASSUME g = f PROVE FALSE
        OBVIOUS
      <4>1. Hears(q, f)
        BY <1>5, <1>9, <1>10, <1>14 DEF FirstOfs, Hears
      <4>2. f.from = p
        BY <1>3, <3>1, <3>2, <4>1, OneSender DEF IInv
      <4> QED
        BY <1>3, <2>2, <4>2
    <3>4. g \in Held(buffer[q])
      BY <1>9, <3>3
    <3>5. SecondOf(g) = h \/ <<q, FirstFrame(h)>> \in missed
      BY <3>1, <3>4 DEF IInv, FirstCame
    <3>6. FirstFrame(h).n \in InUse
      BY <3>1, <3>2, SecondIsInUse, Halves DEF IInv
    <3> QED
      BY <1>16, <3>1, <3>5, <3>6
  <2> QED
    BY <2>1, <2>2
<1> QED
  BY <1>11, <1>12, <1>14, <1>15, <1>17, <1>18 DEF IInv

-----------------------------------------------------------------------------
(* The second frame.                                                       *)

(* What the router puts together is its sensors' own.                      *)
LEMMA RouterGets ==
  ASSUME IInv, NEW h, Hears(Router, h), Slot(Router, h) # 0
  PROVE  /\ First(Router, h).packet.dev_sn = h.sn
         /\ h.sn \in Sensors
<1>1. Router \in Radios /\ Radios \ {Router} \subseteq Sensors
  BY NetworkAssumption DEF IInv, Line, Radios
<1>2. First(Router, h) \in Held(buffer[Router]) /\ First(Router, h).sn = h.sn
  BY <1>1, FirstIsHeld DEF IInv, Line, First, Slot
<1>3. Addressed(First(Router, h)) /\ First(Router, h).from # Router
  BY <1>1, <1>2 DEF IInv, FirstOfs, Hears
<1> QED
  BY <1>1, <1>2, <1>3 DEF Addressed

LEMMA SecondLookup ==
  ASSUME IInv, NEW h, Hears(Router, h), Slot(Router, h) # 0,
         NEW p, p = First(Router, h).packet,
         NEW result, result = processPacket(radio[Router], h.sn, p),
         NEW R, R = result.radio, NEW L,
         \A a \in Addresses : L[a] = IF p.type = "SENSOR_DISCONNECT" /\ a = result.ip
                                     THEN None ELSE leases[a]
  PROVE  TableOK(R.table, L)
<1> DEFINE T == radio[Router].table
<1>1. TableOK(T, leases) /\ RadioOK(Router, radio[Router])
  BY DEF IInv, Lookup, Line, Radios
<1>2. p.dev_sn = h.sn /\ h.sn \in Sensors /\ h.sn # Zero
  BY RouterGets, NetworkAssumption
<1> HIDE DEF T
<1>3. /\ p.type = "EYEBALL" => R.table = snipInsertSn(T, h.sn, h.sn)
      /\ p.type = "SENSOR_DISCONNECT" => R.table = snipRemove(T, h.sn) /\ result.ip = snipIpFromSn(T, h.sn)
      /\ p.type \notin {"EYEBALL", "SENSOR_DISCONNECT"} => R.table = T
  BY <1>1, <1>2, Processed DEF T
<1>4. ASSUME NEW S, TableOK(S, leases), p.type # "SENSOR_DISCONNECT"
      PROVE  TableOK(S, L)
  BY <1>4 DEF TableOK
<1>5. CASE p.type = "EYEBALL"
  BY <1>1, <1>2, <1>3, <1>4, <1>5, Inserted
<1>6. CASE p.type = "SENSOR_DISCONNECT"
  <2>1. PICK k : k = snipFind(T, "sn", h.sn)
    OBVIOUS
  <2>2. k # 0 => k \in Entries /\ T[k].sn = h.sn
    BY <1>1, <2>1, FindFacts, Fields DEF TableOK
  <2>3. result.ip = IF k = 0 THEN Invalid ELSE T[k].ip
    BY <1>3, <1>6, <2>1 DEF snipIpFromSn
  <2>4. \A i \in Entries : T[i].sn # h.sn /\ T[i].ip \in Addresses => T[i].ip # result.ip
    BY <1>1, <2>2, <2>3, OneOwner, NetworkAssumption
  <2>5. \A i \in Entries : T[i].sn # h.sn /\ T[i].ip \in Addresses => L[T[i].ip] = leases[T[i].ip]
    BY <2>4
  <2> QED
    BY <1>1, <1>2, <1>3, <1>6, <2>5, Removed
<1>7. CASE p.type \notin {"EYEBALL", "SENSOR_DISCONNECT"}
  BY <1>1, <1>3, <1>4, <1>7
<1> QED
  BY <1>5, <1>6, <1>7

LEMMA SecondHolds ==
  ASSUME IInv, NEW r \in Radios, WritesSecond(r)
  PROVE  IInv'
<1> DEFINE h == Head(second[r])
           result(q) == processPacket(radio[q], h.sn, First(q, h).packet)
<1>1. h = second[r][1] /\ second[r] = <<h>> /\ second[r] # <<>>
  BY DEF WritesSecond, IInv, Line
<1>2. Addressed(h) /\ h.from = r
  BY <1>1 DEF IInv, Seconds
<1>3. PICK hear \in SUBSET Readers(h) :
        LET whole == {q \in hear : Slot(q, h) # 0}
            up(type) == Router \in whole /\ First(Router, h).packet.type = type
        IN  /\ UNCHANGED world
            /\ second' = [second EXCEPT ![r] = <<>>]
            /\ Misses(h, Readers(h) \ hear)
            /\ buffer' = [q \in Radios |-> IF q \in hear THEN defragF1(buffer[q], h.sn) ELSE buffer[q]]
            /\ radio' = [q \in Radios |-> IF q \in whole THEN result(q).radio ELSE radio[q]]
            /\ eyeballed' = IF up("EYEBALL") THEN eyeballed \cup {First(Router, h).packet.dev_sn}
                            ELSE eyeballed
            /\ leases' = [a \in Addresses |->
                 IF up("SENSOR_DISCONNECT") /\ a = result(Router).ip THEN None ELSE leases[a]]
  BY DEF WritesSecond
<1> HIDE DEF h
<1> DEFINE whole == {q \in hear : Slot(q, h) # 0}
<1>4. Radios' = Radios /\ Router \in Radios
  BY <1>3 DEF Radios
<1>5. /\ \A p \in Radios : second'[p] = IF p = r THEN <<>> ELSE second[p]
      /\ second' = [p \in Radios |-> second'[p]]
  BY <1>3 DEF IInv, Line
<1>6. /\ \A q \in Radios : radio'[q] = IF q \in whole THEN result(q).radio ELSE radio[q]
      /\ radio' = [q \in Radios |-> radio'[q]]
  BY <1>3
<1>7. /\ \A q \in Radios : buffer'[q] = IF q \in hear THEN defragF1(buffer[q], h.sn) ELSE buffer[q]
      /\ buffer' = [q \in Radios |-> buffer'[q]]
  BY <1>3
<1>8. \A q \in Radios :
        /\ BufferOK(buffer'[q])
        /\ \A g \in Held(buffer'[q]) : g \in Held(buffer[q]) /\ (q \in hear => g.sn # h.sn)
  BY <1>7, SecondHalfEnds DEF IInv, Line
<1>9. Readers(h) = {q \in Radios : Hears(q, h)}
  BY ReadersHear DEF IInv, Line
<1>10. Line'
  <2>1. \A p \in Radios : RadioOK(p, radio'[p])
    <3> SUFFICES ASSUME NEW p \in Radios PROVE RadioOK(p, radio'[p])
      OBVIOUS
    <3>1. RadioOK(p, radio[p])
      BY DEF IInv, Line
    <3>2. RadioOK(p, result(p).radio)
      BY <3>1, Processed
    <3> QED
      BY <1>6, <3>1, <3>2
  <2>2. \A p \in Radios : second'[p] = <<>> \/ second'[p] = <<second'[p][1]>>
    BY <1>5 DEF IInv, Line
  <2>3. leases' = [a \in Addresses |-> leases'[a]]
    BY <1>3
  <2>4. world' \in Worlds
    BY <1>3 DEF IInv, Line
  <2> HIDE DEF result, whole
  <2> QED
    BY <1>4, <1>5, <1>6, <1>7, <1>8, <2>1, <2>2, <2>3, <2>4 DEF Line
<1>11. Lookup'
  <2>1. CASE Router \in whole
    <3>1. Hears(Router, h) /\ Slot(Router, h) # 0
      BY <1>9, <2>1
    <3>2. PICK p, res : p = First(Router, h).packet /\ res = processPacket(radio[Router], h.sn, p)
      OBVIOUS
    <3>3. radio'[Router] = res.radio
      BY <1>4, <1>6, <2>1, <3>2
    <3>4. \A a \in Addresses : leases'[a] = IF p.type = "SENSOR_DISCONNECT" /\ a = res.ip
                                            THEN None ELSE leases[a]
      BY <1>3, <2>1, <3>2
    <3>5. eyeballed' \subseteq eyeballed \cup {p.dev_sn}
      BY <1>3, <3>2
    <3>6. TableOK(res.radio.table, leases')
      BY <3>1, <3>2, <3>4, SecondLookup
    <3>7. p.dev_sn \in Sensors
      BY <3>1, <3>2, RouterGets
    <3> HIDE DEF whole
    <3> QED
      BY <3>3, <3>5, <3>6, <3>7 DEF IInv, Lookup
  <2>2. CASE Router \notin whole
    <3>1. radio'[Router] = radio[Router] /\ eyeballed' = eyeballed
      BY <1>3, <1>4, <1>6, <2>2
    <3>2. leases' = leases
      BY <1>3, <2>2 DEF IInv, Line
    <3> QED
      BY <3>1, <3>2 DEF IInv, Lookup
  <2> QED
    BY <2>1, <2>2
<1> HIDE DEF whole, result
<1>12. \A g : Addressed(g) => Addressed(g)'
  BY <1>4 DEF Addressed
<1>13. FirstOfs'
  BY <1>4, <1>8, <1>12 DEF IInv, FirstOfs, Hears
<1>14. Seconds'
  BY <1>4, <1>5, <1>12 DEF IInv, Seconds
<1>15. /\ \A q \in Readers(h) \ hear : <<q, h>> \in missed'
       /\ \A q, g : <<q, g>> \in missed /\ g.n \in InUse => <<q, g>> \in missed'
  BY <1>3, Remembered
<1>16. SecondComes'
  <2> SUFFICES ASSUME NEW q \in Radios, NEW g \in Held(buffer'[q])
               PROVE  second'[g.from] = <<SecondOf(g)>> \/ <<q, SecondOf(g)>> \in missed'
    BY <1>4 DEF SecondComes, SecondOf
  <2>1. g \in Held(buffer[q]) /\ Addressed(g) /\ Hears(q, g) /\ (q \in hear => g.sn # h.sn)
    BY <1>8 DEF IInv, FirstOfs
  <2>2. <<q, SecondOf(g)>> \in missed => <<q, SecondOf(g)>> \in missed'
    BY <1>15, <2>1, HeldIsInUse, Halves DEF IInv
  <2>3. second[g.from] = <<SecondOf(g)>> \/ <<q, SecondOf(g)>> \in missed
    BY <2>1 DEF IInv, SecondComes
  <2>4. CASE g.from # r
    BY <1>5, <2>1, <2>2, <2>3, <2>4 DEF Addressed
  <2>5. CASE g.from = r /\ second[g.from] = <<SecondOf(g)>>
    <3>1. h = SecondOf(g)
      BY <1>1, <2>5
    <3>2. h.from = g.from /\ h.sn = g.sn
      BY <2>1, <3>1, Halves
    <3>3. q \in Readers(h)
      BY <1>9, <2>1, <3>2 DEF Hears
    <3> QED
      BY <1>15, <2>1, <3>1, <3>2, <3>3
  <2> QED
    BY <2>2, <2>3, <2>4, <2>5
<1>17. FirstCame'
  <2> SUFFICES ASSUME NEW q \in Radios, NEW p \in Radios, second'[p] # <<>>,
                      Hears(q, second'[p][1]), NEW g \in Held(buffer'[q]),
                      g.sn = second'[p][1].sn
               PROVE  \/ SecondOf(g) = second'[p][1]
                      \/ <<q, FirstFrame(second'[p][1])>> \in missed'
    BY <1>4 DEF FirstCame, SecondOf, FirstFrame, Hears
  <2>1. PICK k : k = second[p][1] /\ second'[p][1] = k /\ second[p] # <<>>
    BY <1>5
  <2>2. Addressed(k)
    BY <2>1 DEF IInv, Seconds
  <2>3. SecondOf(g) = k \/ <<q, FirstFrame(k)>> \in missed
    BY <1>8, <2>1 DEF IInv, FirstCame
  <2>4. FirstFrame(k).n \in InUse
    BY <2>1, <2>2, SecondIsInUse, Halves DEF IInv
  <2> QED
    BY <1>15, <2>1, <2>3, <2>4
<1> QED
  BY <1>10, <1>11, <1>13, <1>14, <1>16, <1>17 DEF IInv

-----------------------------------------------------------------------------
(* The hosts.                                                              *)

LEMMA Framed ==
  ASSUME NEW n, NEW r \in Radios, NEW sn, NEW p,
         r # Router => sn = r /\ p.dev_sn = r,
         r = Router => p.type \in {"FLY", "PECK"} \/ sn = Invalid \/ (sn = p.to /\ sn # Zero)
  PROVE  Addressed(Frame(0, n, r, sn, p))
BY DEF Addressed, Frame

LEMMA Packets ==
  ASSUME NEW type, NEW ip, NEW to
  PROVE  LET p == Packet(type, ip, to)
         IN  p.type = type /\ p.ip = ip /\ p.dev_sn = to /\ p.to = to
BY DEF Packet

LEMMA FliesHolds ==
  ASSUME IInv, Flies PROVE IInv'
<1>1. PICK p : p = Packet("FLY", AllOnes, None)
  OBVIOUS
<1>2. PICK result : result = processSpi(radio[Router], Router, p, p.ip)
  OBVIOUS
<1>3. Writes(Router, p) /\ leases' = leases /\ eyeballed' = eyeballed
  BY <1>1 DEF Flies, hosts
<1>4. p.type = "FLY"
  BY <1>1, Packets
<1>5. Router \in Radios /\ RadioOK(Router, radio[Router])
  BY DEF IInv, Line, Radios
<1>6. RadioOK(Router, result.radio) /\ result.radio.table = radio[Router].table
  BY <1>2, <1>4, <1>5, RouterTakes
<1>7. \A n : Addressed(Frame(0, n, Router, result.sn, p))
  BY <1>4, <1>5, Framed
<1> QED
  BY <1>2, <1>3, <1>5, <1>6, <1>7, WritesHolds DEF IInv, Line, Lookup

LEMMA TalksToHolds ==
  ASSUME IInv, NEW a \in Addresses, TalksTo(a) PROVE IInv'
<1>1. PICK p : p = Packet("DATA", a, leases[a])
  OBVIOUS
<1>2. PICK result : result = processSpi(radio[Router], Router, p, p.ip)
  OBVIOUS
<1>3. Writes(Router, p) /\ leases' = leases /\ eyeballed' = eyeballed
  BY <1>1 DEF TalksTo, hosts
<1>4. p.type = "DATA" /\ p.ip = a /\ p.to = leases[a]
  BY <1>1, Packets
<1>5. Router \in Radios /\ RadioOK(Router, radio[Router]) /\ TableOK(radio[Router].table, leases)
  BY DEF IInv, Line, Radios, Lookup
<1>6. /\ RadioOK(Router, result.radio) /\ result.radio.table = radio[Router].table
      /\ result.sn = snipSnFromIp(radio[Router].table, a)
  BY <1>2, <1>4, <1>5, RouterTakes
<1>7. result.sn = Invalid \/ (result.sn = leases[a] /\ result.sn # Zero)
  BY <1>5, <1>6, LookedUp, NetworkAssumption
<1>8. \A n : Addressed(Frame(0, n, Router, result.sn, p))
  BY <1>4, <1>5, <1>7, Framed
<1> QED
  BY <1>2, <1>3, <1>5, <1>6, <1>8, WritesHolds DEF IInv, Line, Lookup

LEMMA DisconnectsHolds ==
  ASSUME IInv, NEW a \in Addresses, Disconnects(a) PROVE IInv'
<1>1. PICK p : p = Packet("NETWORK_DISCONNECTS_SENSOR", a, leases[a])
  OBVIOUS
<1>2. PICK result : result = processSpi(radio[Router], Router, p, p.ip)
  OBVIOUS
<1>3. Writes(Router, p) /\ leases' = [leases EXCEPT ![a] = None] /\ eyeballed' = eyeballed
  BY <1>1 DEF Disconnects
<1>4. p.type = "NETWORK_DISCONNECTS_SENSOR" /\ p.ip = a /\ p.to = leases[a]
  BY <1>1, Packets
<1>5. Router \in Radios /\ RadioOK(Router, radio[Router]) /\ TableOK(radio[Router].table, leases)
  BY DEF IInv, Line, Radios, Lookup
<1>6. /\ RadioOK(Router, result.radio)
      /\ result.sn = snipSnFromIp(radio[Router].table, a)
      /\ result.radio.table = snipRemove(radio[Router].table, result.sn)
  BY <1>2, <1>4, <1>5, RouterTakes
<1>7. /\ result.sn = Invalid \/ (result.sn = leases[a] /\ result.sn # Zero)
      /\ \A i \in Entries : radio[Router].table[i].ip = a => radio[Router].table[i].sn = result.sn
  BY <1>5, <1>6, LookedUp, NetworkAssumption
<1>8. \A n : Addressed(Frame(0, n, Router, result.sn, p))
  BY <1>4, <1>5, <1>7, Framed
<1>9. \A b \in Addresses \ {a} : leases'[b] = leases[b]
  BY <1>3 DEF IInv, Line
<1>10. result.sn # Zero
  BY <1>7 DEF Invalid, Zero
<1>11. TableOK(result.radio.table, leases')
  BY <1>5, <1>6, <1>7, <1>9, <1>10, Removed
<1>12. leases' = [b \in Addresses |-> leases'[b]]
  BY <1>3 DEF IInv, Line
<1> QED
  BY <1>2, <1>3, <1>5, <1>6, <1>8, <1>11, <1>12, WritesHolds DEF IInv, Lookup

LEMMA PecksHolds ==
  ASSUME IInv, NEW a \in Addresses, NEW d \in Sensors, Pecks(a, d) PROVE IInv'
<1>1. PICK p : p = Packet("PECK", a, d)
  OBVIOUS
<1>2. PICK result : result = processSpi(radio[Router], Router, p, p.ip)
  OBVIOUS
<1>3. /\ Writes(Router, p) /\ leases[a] = None /\ leases' = [leases EXCEPT ![a] = d]
      /\ eyeballed' \subseteq eyeballed
  BY <1>1 DEF Pecks
<1>4. p.type = "PECK" /\ p.ip = a /\ p.dev_sn = d
  BY <1>1, Packets
<1>5. Router \in Radios /\ RadioOK(Router, radio[Router]) /\ TableOK(radio[Router].table, leases)
  BY DEF IInv, Line, Radios, Lookup
<1>6. /\ RadioOK(Router, result.radio)
      /\ result.radio.table = snipInsertIp(radio[Router].table, a, d)
  BY <1>2, <1>4, <1>5, RouterTakes
<1>7. \A n : Addressed(Frame(0, n, Router, result.sn, p))
  BY <1>4, <1>5, Framed
<1>8. leases = [b \in Addresses |-> leases[b]]
  BY DEF IInv, Line
<1>9. TableOK(result.radio.table, leases')
  BY <1>3, <1>5, <1>6, <1>8, Pecked
<1>10. leases' = [b \in Addresses |-> leases'[b]]
  BY <1>3, <1>8
<1> QED
  BY <1>2, <1>3, <1>5, <1>6, <1>7, <1>9, <1>10, WritesHolds DEF IInv, Lookup

LEMMA SensorWritesHolds ==
  ASSUME IInv, NEW s \in world[1], SensorWrites(s) PROVE IInv'
<1>1. PICK type \in {"EYEBALL", "SENSOR_DISCONNECT"} : Writes(s, Packet(type, Zero, s))
  BY DEF SensorWrites
<1>2. PICK p : p = Packet(type, Zero, s)
  OBVIOUS
<1>3. PICK result : result = processSpi(radio[s], s, p, p.ip)
  OBVIOUS
<1>4. Writes(s, p) /\ leases' = leases /\ eyeballed' = eyeballed
  BY <1>1, <1>2 DEF SensorWrites, hosts
<1>5. p.type = type /\ p.dev_sn = s
  BY <1>2, Packets
<1>6. s \in Radios /\ s # Router
  BY NetworkAssumption DEF IInv, Line, Radios
<1>7. RadioOK(s, radio[s])
  BY <1>6 DEF IInv, Line
<1>8. RadioOK(s, result.radio) /\ result.sn = s
  BY <1>3, <1>5, <1>6, <1>7, SensorTakes
<1>9. \A n : Addressed(Frame(0, n, s, result.sn, p))
  BY <1>5, <1>6, <1>8, Framed
<1> QED
  BY <1>3, <1>4, <1>6, <1>8, <1>9, WritesHolds DEF IInv, Line, Lookup

LEMMA InitHolds == Init => IInv
<1> SUFFICES ASSUME Init PROVE IInv
  OBVIOUS
<1>1. Router \in Radios
  BY DEF Radios
<1>2. RadioOK("any", init) /\ init.table = SnIpTable
  BY DEF RadioOK, init, Router
<1>3. /\ radio = [r \in Radios |-> radio[r]]
      /\ radio[Router] = [init EXCEPT !.router_mode = "ROUTER"]
      /\ \A r \in Radios \ {Router} : radio[r] = init
  BY <1>1 DEF Init, processSpi
<1>4. RadioOK(Router, radio[Router]) /\ radio[Router].table = SnIpTable
  BY <1>3 DEF RadioOK, init
<1>5. \A r \in Radios : RadioOK(r, radio[r])
  BY <1>2, <1>3, <1>4 DEF RadioOK, Router
<1>6. \A q \in Radios : BufferOK(buffer[q]) /\ Held(buffer[q]) = {}
  BY Empty DEF Init
<1>7. Line
  BY <1>3, <1>5, <1>6 DEF Init, Line
<1>8. Lookup
  BY <1>4, EmptyTable DEF Init, Lookup
<1>9. \A r \in Radios : second[r] = <<>>
  BY DEF Init
<1> QED
  BY <1>6, <1>7, <1>8, <1>9 DEF IInv, FirstOfs, Seconds, SecondComes, FirstCame

LEMMA Stays ==
  ASSUME IInv, UNCHANGED vars PROVE IInv'
<1>1. UNCHANGED <<world, radio, buffer, second, leases, eyeballed, missed>>
  BY DEF vars, hosts
<1>2. Radios' = Radios
  BY <1>1 DEF Radios
<1>3. \A g : Addressed(g)' <=> Addressed(g)
  BY <1>2 DEF Addressed
<1> QED
  BY <1>1, <1>2, <1>3
  DEF IInv, Line, Lookup, FirstOfs, Seconds, SecondComes, FirstCame, SecondOf, FirstFrame, Hears

(* The invariant of the network holds in every reachable state.            *)
THEOREM Invariance == Spec => []IInv
<1>1. IInv /\ [Next]_vars => IInv'
  <2> SUFFICES ASSUME IInv, [Next]_vars PROVE IInv'
    OBVIOUS
  <2>1. CASE Flies
    BY <2>1, FliesHolds
  <2>2. CASE \E a \in Addresses : TalksTo(a) \/ Disconnects(a) \/ \E d \in Sensors : Pecks(a, d)
    BY <2>2, TalksToHolds, DisconnectsHolds, PecksHolds
  <2>3. CASE \E s \in world[1] : SensorWrites(s)
    BY <2>3, SensorWritesHolds
  <2>4. CASE \E r \in Radios : WritesSecond(r)
    BY <2>4, SecondHolds
  <2>5. CASE UNCHANGED vars
    BY <2>5, Stays
  <2> QED
    BY <2>1, <2>2, <2>3, <2>4, <2>5 DEF Next
<1> QED
  BY InitHolds, <1>1, PTL DEF Spec

-----------------------------------------------------------------------------
(* What is about to be put together.                                       *)

LEMMA Joined ==
  ASSUME IInv, NEW q \in Radios, NEW r \in Radios, Completes(q, r)
  PROVE  LET h == Head(second[r])
             g == First(q, h)
         IN  /\ h = second[r][1] /\ second[r] = <<h>> /\ second[r] # <<>>
             /\ Addressed(h) /\ Hears(q, h) /\ h.from = r
             /\ g \in Held(buffer[q]) /\ Addressed(g) /\ Hears(q, g) /\ g.sn = h.sn /\ g.from = r
<1> DEFINE h == Head(second[r])
           g == First(q, h)
<1>1. h = second[r][1] /\ second[r] = <<h>> /\ second[r] # <<>>
  BY DEF Completes, IInv, Line
<1>2. q \in Readers(h) /\ Slot(q, h) # 0
  BY DEF Completes
<1> HIDE DEF h
<1>3. Hears(q, h)
  BY <1>2, ReadersHear DEF IInv, Line
<1>4. Addressed(h) /\ h.from = r
  BY <1>1 DEF IInv, Seconds
<1>5. g \in Held(buffer[q]) /\ g.sn = h.sn
  BY <1>2, FirstIsHeld DEF IInv, Line, First, Slot
<1> HIDE DEF g
<1>6. Addressed(g) /\ Hears(q, g)
  BY <1>5 DEF IInv, FirstOfs
<1>7. g.from = h.from
  BY <1>3, <1>4, <1>5, <1>6, OneSender DEF IInv
<1> QED
  BY <1>1, <1>3, <1>4, <1>5, <1>6, <1>7 DEF g, h

(* Halves of two packets are put together only by a radio that has missed  *)
(* the end of the one and the start of the other, whatever is lost and     *)
(* however many boards there are (defrag, sgRadio.cpp:142-175).            *)
THEOREM HalvesMatch == Spec => []HalvesBelongTogether
<1>1. IInv => HalvesBelongTogether
  <2> SUFFICES ASSUME IInv, NEW q \in Radios, NEW r \in Radios, Completes(q, r)
               PROVE  LET f0 == First(q, Head(second[r]))
                          f1 == Head(second[r])
                      IN  \/ f0.n = f1.n
                          \/ {<<q, [f0 EXCEPT !.half = 1]>>, <<q, [f1 EXCEPT !.half = 0]>>} \subseteq missed
    BY DEF HalvesBelongTogether
  <2>1. PICK h, g : h = Head(second[r]) /\ g = First(q, h)
    OBVIOUS
  <2>2. /\ h = second[r][1] /\ second[r] # <<>> /\ Addressed(h) /\ Hears(q, h)
        /\ g \in Held(buffer[q]) /\ Addressed(g) /\ g.sn = h.sn /\ g.from = r
    BY <2>1, Joined
  <2>3. SecondOf(g) = h \/ <<q, FirstFrame(h)>> \in missed
    BY <2>2 DEF IInv, FirstCame
  <2>4. SecondOf(g) = h \/ <<q, SecondOf(g)>> \in missed
    BY <2>2 DEF IInv, SecondComes
  <2>5. SecondOf(g) = h => g.n = h.n
    BY <2>2, Halves
  <2>6. g.n = h.n \/ {<<q, SecondOf(g)>>, <<q, FirstFrame(h)>>} \subseteq missed
    BY <2>3, <2>4, <2>5
  <2> QED
    BY <2>1, <2>6 DEF SecondOf, FirstFrame
<1> QED
  BY Invariance, <1>1, PTL

(* A packet to an address is put together by the device that has it and by *)
(* no other: the router's radio sends it under the serial number that its  *)
(* table has for the address, or under none (sgSnIp.cpp:39-206).           *)
THEOREM AddressesHold == Spec => []ReachesItsDevice
<1>1. IInv => ReachesItsDevice
  <2> SUFFICES ASSUME IInv, NEW q \in world[1], Completes(q, Router)
               PROVE  LET packet == First(q, Head(second[Router])).packet
                      IN  packet.type \in {"FLY", "PECK"} \/ packet.to = q
    BY DEF ReachesItsDevice
  <2>1. PICK g : g = First(q, Head(second[Router]))
    OBVIOUS
  <2>2. q \in Radios /\ Router \in Radios /\ q \in Sensors
    BY NetworkAssumption DEF IInv, Line, Radios
  <2>3. Addressed(g) /\ Hears(q, g) /\ g.from = Router
    BY <2>1, <2>2, Joined
  <2>4. q \notin {Router, Invalid} /\ Invalid # Zero
    BY <2>2, NetworkAssumption DEF Invalid, Zero
  <2>5. g.packet.type \in {"FLY", "PECK"} \/ g.packet.to = q
    BY <2>3, <2>4 DEF Addressed, Hears
  <2> QED
    BY <2>1, <2>5
<1> QED
  BY Invariance, <1>1, PTL

=============================================================================
