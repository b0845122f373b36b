-------------------------- MODULE RoutingTableProof --------------------------
(***************************************************************************)
(* Proofs about the routing table, for every size of the table, every      *)
(* width of an rdid and whatever malloc leaves in a new node.              *)
(***************************************************************************)
EXTENDS RoutingTable, FiniteSetTheorems, WellFoundedInduction, TLAPS

USE TableAssumption

(* A table in a legal state: the properties of RoutingTable, of any table. *)
Counted(T)  == T.table_alloc = Cardinality(Occupied(T))
Unreserved(T) == Occupied(T) \subseteq {Router} \cup Sensors
Distinct(T) ==
  \A i, j \in Occupied(T) : T.routing_table[i].rdid = T.routing_table[j].rdid => i = j
Uniform(T)  ==
  \A i \in Occupied(T) : T.routing_table[i].auth.strictness = T.default_strictness
Legal(T)    == T \in Tables /\ Counted(T) /\ Unreserved(T) /\ Distinct(T) /\ Uniform(T)

-----------------------------------------------------------------------------
(* Minima and remainders.                                                  *)

LEMMA MinOfNaturals ==
  ASSUME NEW S \in SUBSET Nat, S # {}
  PROVE  Min(S) \in S /\ \A j \in S : Min(S) <= j
<1> DEFINE Below == {0 .. k : k \in S}
<1>1. Below \subseteq FiniteSubsetsOf(Nat)
  <2> SUFFICES ASSUME NEW k \in S PROVE 0 .. k \in FiniteSubsetsOf(Nat)
    OBVIOUS
  <2>1. IsFiniteSet(0 .. k)
    BY FS_Interval
  <2> QED
    BY <2>1 DEF FiniteSubsetsOf
<1>2. Below # {}
  OBVIOUS
<1> HIDE DEF Below
<1>3. PICK X \in Below : \A Y \in Below : <<Y, X>> \notin StrictSubsetOrdering(Nat)
  BY <1>1, <1>2, FS_StrictSubsetOrderingWellFounded, WFMin
<1>4. PICK k \in S : X = 0 .. k
  BY DEF Below
<1>5. ASSUME NEW j \in S PROVE k <= j
  <2> SUFFICES ASSUME j < k PROVE FALSE
    OBVIOUS
  <2>1. 0 .. j \in Below
    BY DEF Below
  <2>2. /\ 0 .. j \subseteq 0 .. k
        /\ k \in 0 .. k /\ k \notin 0 .. j
    OBVIOUS
  <2>3. <<0 .. j, 0 .. k>> \in StrictSubsetOrdering(Nat)
    BY <2>2 DEF StrictSubsetOrdering
  <2> QED
    BY <1>3, <1>4, <2>1, <2>3
<1> QED
  BY <1>5 DEF Min

(* Every r below n is reached from p in fewer than n steps modulo n.       *)
LEMMA ReachedModulo ==
  ASSUME NEW n \in Nat, NEW p \in 0 .. n - 1, NEW r \in 0 .. n - 1
  PROVE  \E k \in 0 .. n - 1 : (p + k) % n = r
<1>1. CASE r >= p
  <2>1. (p + (r - p)) % n = r
    BY <1>1
  <2>2. r - p \in 0 .. n - 1
    BY <1>1
  <2> QED
    BY <2>1, <2>2, Zenon
<1>2. CASE r < p
  <2>1. r + n = p + (r - p + n)
    OBVIOUS
  <2>2. (r + n) % n = r
    OBVIOUS
  <2>3. r - p + n \in 0 .. n - 1
    BY <1>2
  <2> QED
    BY <2>1, <2>2, <2>3, Zenon
<1> QED
  BY <1>1, <1>2

LEMMA ModType ==
  ASSUME NEW n \in Nat, n > 0, NEW a \in Nat
  PROVE  a % n \in 0 .. n - 1
OBVIOUS

-----------------------------------------------------------------------------
(* Nodes and slots.                                                        *)

LEMMA OccupiedFinite ==
  ASSUME NEW T
  PROVE  IsFiniteSet(Occupied(T)) /\ Cardinality(Occupied(T)) \in Nat
<1>1. IsFiniteSet(Indices)
  BY FS_Interval DEF Indices
<1> QED
  BY <1>1, FS_Subset, FS_CardinalityType DEF Occupied

LEMMA PutFacts ==
  ASSUME NEW T \in Tables, NEW i \in Indices, NEW node \in Nodes \cup {NoNode}
  PROVE  /\ Put(T, i, node) \in Tables
         /\ Put(T, i, node) = [T EXCEPT !.routing_table = Put(T, i, node).routing_table]
         /\ Put(T, i, node).routing_table = [T.routing_table EXCEPT ![i] = node]
         /\ Put(T, i, node).table_alloc = T.table_alloc
         /\ Put(T, i, node).rdid_pool = T.rdid_pool
         /\ Put(T, i, node).default_strictness = T.default_strictness
         /\ Occupied(Put(T, i, node)) =
              IF node = NoNode THEN Occupied(T) \ {i} ELSE Occupied(T) \cup {i}
BY DEF Put, Tables, Occupied

LEMMA NewNodeFacts ==
  ASSUME NEW T \in Tables, NEW rdid \in Rdids
  PROVE  /\ NewNode(T, rdid) \in Nodes
         /\ NewNode(T, rdid) # NoNode
         /\ NewNode(T, rdid).rdid = rdid
         /\ NewNode(T, rdid).auth.strictness = T.default_strictness
<1>1. hbInit(PingThreshold, StaleThreshold) \in Healths
  BY DEF hbInit, Healths
<1>2. T.default_strictness \in Strictnesses
  BY DEF Tables
<1>3. deviceAuthInit(T.default_strictness) \in Auths
  BY <1>2 DEF deviceAuthInit, Auths
<1>4. deviceAuthInit(T.default_strictness).strictness = T.default_strictness
  BY DEF deviceAuthInit
<1>5. NewNode(T, rdid) \in Nodes
  BY <1>1, <1>3 DEF NewNode, Nodes
<1> QED
  BY <1>4, <1>5, NullAssumption DEF NewNode

LEMMA LocationType ==
  ASSUME NEW ip \in Addresses
  PROVE  locationToTablePtr(ip) \in Indices
BY DEF Addresses, locationToTablePtr, Indices

(* What the code finds of an occupied slot.                                *)
LEMMA OccupiedTracked ==
  ASSUME NEW T, Legal(T), NEW ip \in Indices
  PROVE  /\ Tracked(T, ip) <=> ip \in Occupied(T)
         /\ routingTableLookup(T, ip) <=> ip \in Occupied(T)
         /\ Node(T, ip) = T.routing_table[ip]
         /\ locationToTablePtr(ip) = ip
         /\ ip \in Addresses
<1>1. locationToTablePtr(ip) = ip /\ ip \in Addresses
  BY DEF locationToTablePtr, Indices, Addresses
<1>2. ASSUME ip \in Occupied(T) PROVE T.table_alloc # 0
  <2>1. T.table_alloc = Cardinality(Occupied(T))
    BY DEF Legal, Counted
  <2>2. IsFiniteSet(Occupied(T))
    BY OccupiedFinite DEF Legal
  <2> QED
    BY <1>2, <2>1, <2>2, FS_EmptySet
<1> QED
  BY <1>1, <1>2 DEF Tracked, routingTableLookup, Node, Occupied

(* No other slot has its rdid, so the rdid leads back to it.               *)
LEMMA LeasedAddress ==
  ASSUME NEW T, Legal(T), NEW i \in Occupied(T)
  PROVE  /\ routingTableIPToRDID(T, i) = T.routing_table[i].rdid
         /\ routingTableRDIDToIP(T, routingTableIPToRDID(T, i)) = i
<1> DEFINE rdid  == T.routing_table[i].rdid
           found == {j \in Occupied(T) : T.routing_table[j].rdid = rdid}
<1>1. i \in Indices
  BY DEF Occupied
<1>2. routingTableIPToRDID(T, i) = rdid
  BY <1>1, OccupiedTracked DEF routingTableIPToRDID
<1>3. found = {i}
  BY DEF Legal, Distinct
<1>4. Min({i}) = i
  <2>1. {i} \in SUBSET Nat
    BY <1>1 DEF Indices
  <2>2. Min({i}) \in {i}
    BY <2>1, MinOfNaturals
  <2> QED
    BY <2>2
<1>5. routingTableRDIDToIP(T, rdid) = IF found # {} THEN Min(found) ELSE rdid % N
  BY DEF routingTableRDIDToIP
<1> HIDE DEF rdid, found
<1> QED
  BY <1>2, <1>3, <1>4, <1>5 DEF rdid

-----------------------------------------------------------------------------
(* Joining.                                                                *)

(* Some rdid is not used by a table, so the pool search ends, and it ends  *)
(* on an rdid no node has: there are more rdids than slots.                *)
LEMMA PoolSearch ==
  ASSUME NEW T \in Tables
  PROVE  /\ (T.rdid_pool + PoolSteps(T)) % Word \in Rdids
         /\ ~ routingTableLookupRDID(T, (T.rdid_pool + PoolSteps(T)) % Word)
<1> DEFINE used == {T.routing_table[i].rdid : i \in Occupied(T)}
           free == {k \in 0 .. Word - 1 :
                      ~ routingTableLookupRDID(T, (T.rdid_pool + k) % Word)}
<1>1. IsFiniteSet(used) /\ Cardinality(used) <= Cardinality(Occupied(T))
  <2> DEFINE rdidOf == [i \in Occupied(T) |-> T.routing_table[i].rdid]
  <2>1. rdidOf \in Surjection(Occupied(T), used)
    BY DEF Surjection
  <2> QED
    BY <2>1, OccupiedFinite, FS_Surjection
<1>2. Cardinality(Occupied(T)) <= N
  <2>1. IsFiniteSet(Indices) /\ Cardinality(Indices) = N
    BY FS_Interval DEF Indices
  <2> QED
    BY <2>1, FS_Subset DEF Occupied
<1>3. IsFiniteSet(Rdids) /\ Cardinality(Rdids) = Word
  BY FS_Interval DEF Rdids
<1>4. \E r \in Rdids : r \notin used
  <2> SUFFICES ASSUME Rdids \subseteq used PROVE FALSE
    OBVIOUS
  <2>1. Cardinality(Rdids) <= Cardinality(used)
    BY <1>1, FS_Subset
  <2>2. Cardinality(used) \in Nat /\ Cardinality(Occupied(T)) \in Nat
    BY <1>1, OccupiedFinite, FS_CardinalityType
  <2> QED
    BY <1>1, <1>2, <1>3, <2>1, <2>2
<1>5. PICK r \in Rdids : r \notin used
  BY <1>4
<1>6. T.rdid_pool \in 0 .. Word - 1
  BY DEF Tables, Rdids
<1>7. PICK k \in 0 .. Word - 1 : (T.rdid_pool + k) % Word = r
  BY <1>5, <1>6, ReachedModulo DEF Rdids
<1>8. ~ routingTableLookupRDID(T, r)
  BY <1>5 DEF routingTableLookupRDID
<1>9. k \in free
  BY <1>7, <1>8
<1>10. free \in SUBSET Nat
  OBVIOUS
<1> HIDE DEF free
<1>11. Min(free) \in free
  BY <1>9, <1>10, MinOfNaturals
<1>12. PoolSteps(T) = Min(free)
  BY DEF PoolSteps, free
<1>13. PoolSteps(T) \in free
  BY <1>11, <1>12
<1>14. /\ PoolSteps(T) \in Nat
       /\ ~ routingTableLookupRDID(T, (T.rdid_pool + PoolSteps(T)) % Word)
  BY <1>13 DEF free
<1> QED
  BY <1>6, <1>14, ModType DEF Rdids

(* A node with an rdid nobody has keeps a table legal.                     *)
LEMMA AddNode ==
  ASSUME NEW T, Legal(T), NEW i \in {Router} \cup Sensors,
         T.routing_table[i] = NoNode, T.table_alloc < N - 3,
         NEW rdid \in Rdids, NEW pool \in Rdids,
         \A j \in Occupied(T) : T.routing_table[j].rdid # rdid,
         NEW U, U = [Put(T, i, NewNode(T, rdid)) EXCEPT !.rdid_pool = pool,
                                                        !.table_alloc = @ + 1]
  PROVE  Legal(U) /\ Occupied(U) = Occupied(T) \cup {i}
<1> DEFINE P == Put(T, i, NewNode(T, rdid))
<1>1. T \in Tables /\ i \in Indices
  BY DEF Legal, Sensors, Router, Indices
<1>2. /\ NewNode(T, rdid) \in Nodes /\ NewNode(T, rdid) # NoNode
      /\ NewNode(T, rdid).rdid = rdid
      /\ NewNode(T, rdid).auth.strictness = T.default_strictness
  BY <1>1, NewNodeFacts
<1>3. /\ P \in Tables
      /\ P.routing_table = [T.routing_table EXCEPT ![i] = NewNode(T, rdid)]
      /\ P.table_alloc = T.table_alloc
      /\ P.default_strictness = T.default_strictness
      /\ Occupied(P) = Occupied(T) \cup {i}
  BY <1>1, <1>2, PutFacts
<1> HIDE DEF P
<1>4. /\ U.routing_table = P.routing_table
      /\ U.table_alloc = T.table_alloc + 1
      /\ U.default_strictness = T.default_strictness
      /\ U \in Tables
  <2>1. T.table_alloc + 1 \in 0 .. N - 3
    BY <1>1 DEF Tables
  <2>2. U = [P EXCEPT !.rdid_pool = pool, !.table_alloc = P.table_alloc + 1]
    BY DEF P
  <2>3. U = [tableptr |-> P.tableptr, rdid_pool |-> pool,
             table_alloc |-> T.table_alloc + 1, routing_table |-> P.routing_table,
             default_strictness |-> P.default_strictness]
    BY <1>3, <2>2 DEF Tables
  <2>4. /\ U.routing_table = P.routing_table
        /\ U.default_strictness = P.default_strictness
        /\ U.table_alloc = T.table_alloc + 1
    BY ONLY <2>3
  <2>5. U \in Tables
    BY <1>3, <2>1, <2>3 DEF Tables
  <2> QED
    BY <1>3, <2>4, <2>5
<1>5. Occupied(U) = Occupied(T) \cup {i}
  BY <1>3, <1>4 DEF Occupied
<1>6. i \notin Occupied(T)
  BY DEF Occupied
<1>7. Counted(U)
  BY <1>4, <1>5, <1>6, OccupiedFinite, FS_AddElement DEF Legal, Counted
<1>8. Unreserved(U)
  BY <1>5 DEF Legal, Unreserved
<1>9. /\ U.routing_table[i] = NewNode(T, rdid)
      /\ \A j \in Occupied(T) : U.routing_table[j] = T.routing_table[j]
  BY <1>1, <1>3, <1>4, <1>6 DEF Tables, Occupied
<1>10. Distinct(U)
  BY <1>2, <1>5, <1>9 DEF Legal, Distinct
<1>11. Uniform(U)
  BY <1>2, <1>4, <1>5, <1>9 DEF Legal, Uniform
<1> QED
  BY <1>4, <1>5, <1>7, <1>8, <1>10, <1>11 DEF Legal

(* What the code does to find that rdid, garbage and all.                  *)
LEMMA InstallLegal ==
  ASSUME NEW T, Legal(T), NEW i \in {Router} \cup Sensors,
         T.routing_table[i] = NoNode, T.table_alloc < N - 3, NEW garbage \in Rdids
  PROVE  /\ Legal(Install(T, i, garbage))
         /\ Occupied(Install(T, i, garbage)) = Occupied(T) \cup {i}
         /\ \A j \in Occupied(T) : Install(T, i, garbage).routing_table[j] = T.routing_table[j]
<1> DEFINE M    == Malloced(T, i, garbage)
           pool == (T.rdid_pool + PoolSteps(M)) % Word
<1>1. T \in Tables /\ i \in Indices /\ i \in Rdids
  BY DEF Legal, Sensors, Router, Indices, Rdids
<1>2. NewNode(T, garbage) \in Nodes /\ NewNode(T, garbage) # NoNode
  BY <1>1, NewNodeFacts
<1>3. /\ M \in Tables
      /\ M.routing_table = [T.routing_table EXCEPT ![i] = NewNode(T, garbage)]
      /\ M.rdid_pool = T.rdid_pool
      /\ M.table_alloc = T.table_alloc
      /\ Occupied(M) = Occupied(T) \cup {i}
  BY <1>1, <1>2, PutFacts DEF Malloced
<1>4. i \notin Occupied(T)
  BY DEF Occupied
<1>5. \A j \in Occupied(T) : M.routing_table[j] = T.routing_table[j]
  BY <1>1, <1>3, <1>4 DEF Tables, Occupied
<1>6. T.table_alloc = 0 => Occupied(T) = {}
  BY OccupiedFinite, FS_EmptySet DEF Legal, Counted
<1>7. ASSUME NEW r, ~ routingTableLookupRDID(M, r)
      PROVE  \A j \in Occupied(T) : T.routing_table[j].rdid # r
  BY <1>3, <1>5, <1>6, <1>7 DEF routingTableLookupRDID
<1>8. ASSUME NEW j \in Occupied(T), NEW rdid \in Rdids
      PROVE  Put(T, i, NewNode(T, rdid)).routing_table[j] = T.routing_table[j]
  <2>1. NewNode(T, rdid) \in Nodes
    BY <1>1, NewNodeFacts
  <2>2. Put(T, i, NewNode(T, rdid)).routing_table
          = [T.routing_table EXCEPT ![i] = NewNode(T, rdid)]
    BY <1>1, <2>1, PutFacts
  <2> QED
    BY <2>2, <1>1, <1>4 DEF Tables, Occupied
<1> HIDE DEF M
<1>9. CASE routingTableLookupRDID(M, i)
  <2>1. pool \in Rdids /\ ~ routingTableLookupRDID(M, pool)
    BY <1>3, PoolSearch
  <2> HIDE DEF pool
  <2>2. pool + 1 \in Nat /\ (pool + 1) % Word \in Rdids
    BY <2>1, ModType DEF Rdids
  <2> DEFINE U == [Put(T, i, NewNode(T, pool)) EXCEPT !.rdid_pool   = (pool + 1) % Word,
                                                      !.table_alloc = @ + 1]
  <2>3. Install(T, i, garbage) = U
    BY <1>9 DEF Install, M, pool
  <2>4. U.routing_table = Put(T, i, NewNode(T, pool)).routing_table
    BY DEF Put
  <2>5. \A j \in Occupied(T) : T.routing_table[j].rdid # pool
    BY <1>7, <2>1
  <2>6. \E next \in Rdids : next = (pool + 1) % Word
    BY <2>2
  <2>7. PICK next \in Rdids :
          U = [Put(T, i, NewNode(T, pool)) EXCEPT !.rdid_pool = next, !.table_alloc = @ + 1]
    BY <2>6
  <2> HIDE DEF U
  <2>8. Legal(U) /\ Occupied(U) = Occupied(T) \cup {i}
    BY <2>1, <2>5, <2>7, AddNode
  <2> QED
    BY <1>8, <2>1, <2>3, <2>4, <2>8
<1>10. CASE ~ routingTableLookupRDID(M, i)
  <2> DEFINE U == [Put(T, i, NewNode(T, i)) EXCEPT !.table_alloc = @ + 1]
  <2>1. Install(T, i, garbage) = U
    BY <1>10 DEF Install, M
  <2>2. T.rdid_pool \in Rdids
    BY <1>1 DEF Tables
  <2>3. U = [Put(T, i, NewNode(T, i)) EXCEPT !.rdid_pool = T.rdid_pool, !.table_alloc = @ + 1]
    BY <1>1 DEF Put, Tables
  <2>4. U.routing_table = Put(T, i, NewNode(T, i)).routing_table
    BY DEF Put
  <2>5. \A j \in Occupied(T) : T.routing_table[j].rdid # i
    BY <1>7, <1>10
  <2> HIDE DEF U
  <2>6. Legal(U) /\ Occupied(U) = Occupied(T) \cup {i}
    BY <1>1, <2>2, <2>3, <2>5, AddNode
  <2> QED
    BY <1>1, <1>8, <2>1, <2>4, <2>6
<1> QED
  BY <1>9, <1>10

(* Table U after a call on T: legal, leases kept, the router still there.  *)
Kept(T, U) ==
  /\ \A i \in Occupied(T) \cap Occupied(U) :
       U.routing_table[i].rdid = T.routing_table[i].rdid
  /\ Router \in Occupied(T) => Router \in Occupied(U)

(* A table that is not full has a free sensor slot: it counts its nodes,   *)
(* and there are N - 3 sensor slots.                                       *)
LEMMA FreeSensor ==
  ASSUME NEW T, Legal(T), ~ tableChkFull(T)
  PROVE  \E i \in Sensors : ~ Skipped(T, i)
<1>1. IsFiniteSet(Sensors) /\ Cardinality(Sensors) = N - 3
  BY FS_Interval DEF Sensors
<1>2. Cardinality(Occupied(T)) < N - 3 /\ Cardinality(Occupied(T)) \in Nat
  BY OccupiedFinite DEF Legal, Counted, Tables, tableChkFull
<1>3. ~ (Sensors \subseteq Occupied(T))
  BY <1>1, <1>2, OccupiedFinite, FS_Subset
<1> QED
  BY <1>3 DEF Occupied, Skipped, Sensors, Indices

(* So the search of routingTableAssignIP ends, on a free sensor slot.      *)
LEMMA SearchFinds ==
  ASSUME NEW T, Legal(T), ~ tableChkFull(T)
  PROVE  NextSlot(T) \in Sensors /\ T.routing_table[NextSlot(T)] = NoNode
<1> DEFINE ends == {k \in Indices : ~ Skipped(T, (T.tableptr + k) % N)}
<1>1. T.tableptr \in 0 .. N - 1
  BY DEF Legal, Tables, Indices
<1>2. PICK i \in Sensors : ~ Skipped(T, i)
  BY FreeSensor
<1>3. i \in 0 .. N - 1
  BY DEF Sensors
<1>4. PICK k \in 0 .. N - 1 : (T.tableptr + k) % N = i
  BY <1>1, <1>3, ReachedModulo
<1>5. k \in ends /\ ends \in SUBSET Nat
  BY <1>2, <1>4 DEF Indices
<1> HIDE DEF ends
<1>6. Min(ends) \in ends
  BY <1>5, MinOfNaturals
<1>7. NextSlot(T) = (T.tableptr + Min(ends)) % N
  BY DEF NextSlot, ends
<1>8. Min(ends) \in Indices /\ ~ Skipped(T, (T.tableptr + Min(ends)) % N)
  BY <1>6 DEF ends
<1>9. (T.tableptr + Min(ends)) % N \in 0 .. N - 1
  BY <1>1, <1>8, ModType DEF Indices
<1> QED
  BY <1>7, <1>8, <1>9 DEF Skipped, Sensors

LEMMA AssignStaticLegal ==
  ASSUME NEW T, Legal(T), NEW ip \in Addresses, NEW garbage \in Garbage
  PROVE  LET U == routingTableAssignIPStatic(T, ip, garbage)
         IN  Legal(U) /\ Kept(T, U)
<1> DEFINE i == locationToTablePtr(ip)
           U == routingTableAssignIPStatic(T, ip, garbage)
<1>1. CASE CanAssign(T, ip)
  <2>1. i \in Indices
    BY LocationType
  <2>2. i \in {Router} \cup Sensors
    BY <1>1, <2>1 DEF CanAssign, Router, Sensors, Indices
  <2>3. T.table_alloc < N - 3
    BY <1>1 DEF CanAssign, tableChkFull, Legal, Tables
  <2>4. T.routing_table[i] = NoNode
    <3>1. CASE T.table_alloc = 0
      <4>1. Occupied(T) = {}
        BY <3>1, OccupiedFinite, FS_EmptySet DEF Legal, Counted
      <4> QED
        BY <2>1, <4>1 DEF Occupied
    <3> QED
      BY <1>1, <3>1 DEF CanAssign, routingTableLookup, Node
  <2>5. U = Install(T, i, garbage)
    BY <1>1 DEF routingTableAssignIPStatic
  <2>6. garbage \in Rdids
    BY DEF Rdids
  <2> HIDE DEF i, U
  <2> QED
    BY <2>2, <2>3, <2>4, <2>5, <2>6, InstallLegal DEF Kept, U
<1>2. CASE ~ CanAssign(T, ip)
  BY <1>2 DEF routingTableAssignIPStatic, Kept
<1> QED
  BY <1>1, <1>2

(* routingTableAssignIP puts the new node where the search ended.          *)
LEMMA AssignInstalls ==
  ASSUME NEW T, Legal(T), ~ tableChkFull(T)
  PROVE  LET i == NextSlot(T)
             V == [T EXCEPT !.tableptr = NextSlot(T)]
         IN  /\ i \in Sensors /\ T.routing_table[i] = NoNode
             /\ Legal(V) /\ Occupied(V) = Occupied(T)
             /\ V.routing_table = T.routing_table /\ V.table_alloc < N - 3
             /\ \A garbage : routingTableAssignIP(T, garbage) = Install(V, i, garbage)
<1> DEFINE i == NextSlot(T)
           V == [T EXCEPT !.tableptr = NextSlot(T)]
<1>1. i \in Sensors /\ T.routing_table[i] = NoNode
  BY SearchFinds
<1>2. i \in Indices /\ i # N - 1 /\ i >= 1
  BY <1>1 DEF Sensors, Indices
<1>3. T \in Tables
  BY DEF Legal
<1>4. /\ V \in Tables
      /\ V.routing_table = T.routing_table /\ V.table_alloc = T.table_alloc
      /\ V.default_strictness = T.default_strictness
  BY <1>2, <1>3 DEF Tables
<1>5. \A garbage : routingTableAssignIP(T, garbage) = routingTableAssignIPStatic(V, i, garbage)
  BY DEF routingTableAssignIP
<1> HIDE DEF V, i
<1>6. Occupied(V) = Occupied(T)
  BY <1>4 DEF Occupied
<1>7. Legal(V)
  BY <1>4, <1>6 DEF Legal, Counted, Unreserved, Distinct, Uniform
<1>8. V.table_alloc < N - 3
  BY <1>3, <1>4 DEF tableChkFull, Tables
<1>9. locationToTablePtr(i) = i /\ ~ routingTableLookup(V, i)
  BY <1>1, <1>2, <1>4, <1>7, OccupiedTracked DEF Occupied
<1>10. CanAssign(V, i)
  BY <1>2, <1>4, <1>9 DEF CanAssign, tableChkFull
<1>11. \A garbage : routingTableAssignIPStatic(V, i, garbage) = Install(V, i, garbage)
  BY <1>9, <1>10 DEF routingTableAssignIPStatic
<1> QED
  BY <1>1, <1>4, <1>5, <1>6, <1>7, <1>8, <1>11 DEF V, i

LEMMA AssignLegal ==
  ASSUME NEW T, Legal(T), NEW garbage \in Garbage
  PROVE  LET U == routingTableAssignIP(T, garbage)
         IN  Legal(U) /\ Kept(T, U)
<1>1. CASE tableChkFull(T)
  BY <1>1 DEF routingTableAssignIP, Kept
<1>2. CASE ~ tableChkFull(T)
  <2> DEFINE i == NextSlot(T)
             V == [T EXCEPT !.tableptr = NextSlot(T)]
             U == routingTableAssignIP(T, garbage)
  <2>1. /\ i \in Sensors /\ V.routing_table[i] = NoNode
        /\ Legal(V) /\ Occupied(V) = Occupied(T)
        /\ V.routing_table = T.routing_table /\ V.table_alloc < N - 3
        /\ U = Install(V, i, garbage)
    BY <1>2, AssignInstalls
  <2>2. garbage \in Rdids
    BY DEF Rdids
  <2> HIDE DEF i, V, U
  <2>3. Legal(U) /\ Kept(T, U)
    BY <2>1, <2>2, InstallLegal DEF Kept
  <2> QED
    BY <2>3 DEF U
<1> QED
  BY <1>1, <1>2

-----------------------------------------------------------------------------
(* Leaving.                                                                *)

(* Taking sensors out, and counting them, keeps a table legal.             *)
LEMMA RemoveNodes ==
  ASSUME NEW T, Legal(T), NEW F \in SUBSET (Occupied(T) \ {Router}),
         NEW U, U = [T EXCEPT !.routing_table =
                                [i \in Indices |-> IF i \in F THEN NoNode
                                                   ELSE T.routing_table[i]],
                              !.table_alloc = T.table_alloc - Cardinality(F)]
  PROVE  Legal(U) /\ Kept(T, U)
<1>1. T \in Tables /\ T.table_alloc = Cardinality(Occupied(T))
  BY DEF Legal, Counted
<1>2. /\ IsFiniteSet(F) /\ Cardinality(F) \in Nat
      /\ Cardinality(F) <= Cardinality(Occupied(T))
  BY OccupiedFinite, FS_Subset, FS_CardinalityType
<1>3. Cardinality(Occupied(T) \ F) = Cardinality(Occupied(T)) - Cardinality(F)
  <2>1. Occupied(T) \cap F = F
    OBVIOUS
  <2> QED
    BY <2>1, OccupiedFinite, FS_Difference
<1>4. U = [tableptr |-> T.tableptr, rdid_pool |-> T.rdid_pool,
           table_alloc |-> T.table_alloc - Cardinality(F),
           routing_table |-> [i \in Indices |-> IF i \in F THEN NoNode
                                                ELSE T.routing_table[i]],
           default_strictness |-> T.default_strictness]
  BY <1>1 DEF Tables
<1>5. /\ U.table_alloc = T.table_alloc - Cardinality(F)
      /\ U.routing_table = [i \in Indices |-> IF i \in F THEN NoNode
                                              ELSE T.routing_table[i]]
      /\ U.default_strictness = T.default_strictness
  BY ONLY <1>4
<1>6. T.table_alloc - Cardinality(F) \in 0 .. N - 3
  BY <1>1, <1>2, OccupiedFinite DEF Tables
<1>7. U \in Tables
  <2>1. U.routing_table \in [Indices -> Nodes \cup {NoNode}]
    BY <1>1, <1>5 DEF Tables
  <2> QED
    BY <1>1, <1>4, <1>5, <1>6, <2>1 DEF Tables
<1>8. Occupied(U) = Occupied(T) \ F
  BY <1>5 DEF Occupied
<1>9. \A j \in Occupied(U) : U.routing_table[j] = T.routing_table[j]
  BY <1>5, <1>8 DEF Occupied
<1>10. Counted(U)
  BY <1>1, <1>3, <1>5, <1>8 DEF Counted
<1>11. Unreserved(U) /\ Distinct(U) /\ Uniform(U)
  BY <1>5, <1>8, <1>9 DEF Legal, Unreserved, Distinct, Uniform
<1> QED
  BY <1>7, <1>8, <1>9, <1>10, <1>11 DEF Legal, Kept

LEMMA FreeLegal ==
  ASSUME NEW T, Legal(T), NEW ip \in Addresses
  PROVE  Legal(routingTableFreeIP(T, ip)) /\ Kept(T, routingTableFreeIP(T, ip))
<1> DEFINE i == locationToTablePtr(ip)
           U == routingTableFreeIP(T, ip)
<1>1. CASE tableChkEmpty(T) \/ i < 2 \/ Node(T, ip) = NoNode
  BY <1>1 DEF routingTableFreeIP, Kept
<1>2. CASE ~ (tableChkEmpty(T) \/ i < 2 \/ Node(T, ip) = NoNode)
  <2>1. i \in Indices /\ T \in Tables
    BY LocationType DEF Legal
  <2>2. {i} \in SUBSET (Occupied(T) \ {Router})
    BY <1>2, <2>1 DEF Occupied, Router, Node
  <2>3. Cardinality({i}) = 1
    BY FS_Singleton
  <2>4. U = [Put(T, i, NoNode) EXCEPT !.table_alloc = @ - 1]
    BY <1>2 DEF routingTableFreeIP
  <2>5. [T.routing_table EXCEPT ![i] = NoNode]
          = [k \in Indices |-> IF k \in {i} THEN NoNode ELSE T.routing_table[k]]
    BY <2>1 DEF Tables
  <2>6. U = [T EXCEPT !.routing_table = [T.routing_table EXCEPT ![i] = NoNode],
                      !.table_alloc = T.table_alloc - 1]
    BY <2>1, <2>4 DEF Put, Tables
  <2> HIDE DEF i, U
  <2>7. U = [T EXCEPT !.routing_table =
                        [k \in Indices |-> IF k \in {i} THEN NoNode
                                           ELSE T.routing_table[k]],
                      !.table_alloc = T.table_alloc - Cardinality({i})]
    BY <2>3, <2>5, <2>6
  <2>8. Legal(U) /\ Kept(T, U)
    BY <2>2, <2>7, RemoveNodes
  <2> QED
    BY <2>8 DEF U
<1> QED
  BY <1>1, <1>2

LEMMA FreeAllLegal ==
  ASSUME NEW T, Legal(T)
  PROVE  Legal(routingTableFreeAllIPs(T)) /\ Kept(T, routingTableFreeAllIPs(T))
<1> DEFINE sensors == {i \in Occupied(T) : i >= 2}
           freed   == {i \in sensors :
                         T.table_alloc - Cardinality({j \in sensors : j < i}) >= 2}
<1>1. freed \in SUBSET (Occupied(T) \ {Router})
  BY DEF Router
<1>2. T \in Tables
  BY DEF Legal
<1>3. routingTableFreeAllIPs(T)
        = [T EXCEPT !.routing_table = [i \in Indices |-> IF i \in freed THEN NoNode
                                                         ELSE T.routing_table[i]],
                    !.table_alloc = T.table_alloc - Cardinality(freed)]
  BY <1>2 DEF routingTableFreeAllIPs, Tables
<1> HIDE DEF freed
<1> QED
  BY <1>1, <1>3, RemoveNodes

-----------------------------------------------------------------------------
(* Changing nodes in place.                                                *)

(* Nodes may change their health and place in the sequence, and all of     *)
(* them their strictness, as long as each keeps its rdid.                  *)
LEMMA UpdateNodes ==
  ASSUME NEW T, Legal(T), NEW R \in [Indices -> Nodes \cup {NoNode}],
         NEW level \in Strictnesses,
         \A i \in Indices \ Occupied(T) : R[i] = NoNode,
         \A i \in Occupied(T) : /\ R[i] # NoNode
                                /\ R[i].rdid = T.routing_table[i].rdid
                                /\ R[i].auth.strictness = level,
         NEW U, U = [T EXCEPT !.default_strictness = level, !.routing_table = R]
  PROVE  Legal(U) /\ Kept(T, U)
<1>1. T \in Tables
  BY DEF Legal
<1>2. U = [tableptr |-> T.tableptr, rdid_pool |-> T.rdid_pool,
           table_alloc |-> T.table_alloc, routing_table |-> R,
           default_strictness |-> level]
  BY <1>1 DEF Tables
<1>3. /\ U.table_alloc = T.table_alloc /\ U.routing_table = R
      /\ U.default_strictness = level
  BY ONLY <1>2
<1>4. U \in Tables
  BY <1>1, <1>2 DEF Tables
<1>5. Occupied(U) = Occupied(T)
  BY <1>3 DEF Occupied
<1>6. Counted(U) /\ Unreserved(U) /\ Distinct(U) /\ Uniform(U)
  BY <1>3, <1>5 DEF Legal, Counted, Unreserved, Distinct, Uniform
<1> QED
  BY <1>3, <1>4, <1>5, <1>6 DEF Legal, Kept

(* One node changes.                                                       *)
LEMMA UpdateNode ==
  ASSUME NEW T, Legal(T), NEW ip \in Addresses, Tracked(T, ip),
         NEW node \in Nodes, node.rdid = Node(T, ip).rdid,
         node.auth.strictness = Node(T, ip).auth.strictness
  PROVE  LET U == Put(T, locationToTablePtr(ip), node)
         IN  Legal(U) /\ Kept(T, U)
<1> DEFINE i == locationToTablePtr(ip)
           R == [T.routing_table EXCEPT ![i] = node]
           U == Put(T, i, node)
<1>1. i \in Indices /\ T \in Tables
  BY LocationType DEF Legal
<1>2. i \in Occupied(T) /\ Node(T, ip) = T.routing_table[i]
  BY <1>1 DEF Tracked, Occupied, Node
<1>3. R \in [Indices -> Nodes \cup {NoNode}]
  BY <1>1 DEF Tables
<1>4. \A j \in Indices : R[j] = IF j = i THEN node ELSE T.routing_table[j]
  BY <1>1 DEF Tables
<1>5. U = [T EXCEPT !.default_strictness = T.default_strictness, !.routing_table = R]
  BY <1>1 DEF Put, Tables
<1>6. T.default_strictness \in Strictnesses
  BY <1>1 DEF Tables
<1> HIDE DEF i, R, U
<1>7. \A j \in Indices \ Occupied(T) : R[j] = NoNode
  BY <1>2, <1>4 DEF Occupied
<1>8. \A j \in Occupied(T) : /\ R[j] # NoNode
                             /\ R[j].rdid = T.routing_table[j].rdid
                             /\ R[j].auth.strictness = T.default_strictness
  BY <1>2, <1>4, NullAssumption DEF Occupied, Legal, Uniform
<1>9. Legal(U) /\ Kept(T, U)
  BY <1>3, <1>5, <1>6, <1>7, <1>8, UpdateNodes
<1> QED
  BY <1>9 DEF U, i

LEMMA NodeType ==
  ASSUME NEW T, Legal(T), NEW ip \in Addresses, Tracked(T, ip)
  PROVE  Node(T, ip) \in Nodes
BY LocationType DEF Legal, Tables, Tracked, Node

LEMMA AuthUpdateLegal ==
  ASSUME NEW T, Legal(T), NEW ip \in Addresses, Tracked(T, ip),
         NEW auth \in Auths, auth.strictness = Node(T, ip).auth.strictness
  PROVE  Legal(SetAuth(T, ip, auth)) /\ Kept(T, SetAuth(T, ip, auth))
<1> DEFINE node == [Node(T, ip) EXCEPT !.auth = auth]
<1>1. Node(T, ip) \in Nodes
  BY NodeType
<1>2. node \in Nodes /\ node.rdid = Node(T, ip).rdid /\ node.auth = auth
  BY <1>1 DEF Nodes
<1> HIDE DEF node
<1>3. SetAuth(T, ip, auth) = Put(T, locationToTablePtr(ip), node)
  BY DEF SetAuth, node
<1> QED
  BY <1>2, <1>3, UpdateNode

LEMMA HealthUpdateLegal ==
  ASSUME NEW T, Legal(T), NEW ip \in Addresses, Tracked(T, ip), NEW hb \in Healths
  PROVE  Legal(SetHealth(T, ip, hb)) /\ Kept(T, SetHealth(T, ip, hb))
<1> DEFINE node == [Node(T, ip) EXCEPT !.hb = hb]
<1>1. Node(T, ip) \in Nodes
  BY NodeType
<1>2. node \in Nodes /\ node.rdid = Node(T, ip).rdid /\ node.auth = Node(T, ip).auth
  BY <1>1 DEF Nodes
<1> HIDE DEF node
<1>3. SetHealth(T, ip, hb) = Put(T, locationToTablePtr(ip), node)
  BY DEF SetHealth, node
<1> QED
  BY <1>2, <1>3, UpdateNode

LEMMA SequenceLegal ==
  ASSUME NEW T, Legal(T), NEW ip \in Addresses, NEW gdt \in SUBSET Statuses
  PROVE  /\ Legal(routingTableSetNextExpectedPacket(T, ip, gdt))
         /\ Kept(T, routingTableSetNextExpectedPacket(T, ip, gdt))
         /\ Legal(routingTableSetCurrentPacket(T, ip, gdt))
         /\ Kept(T, routingTableSetCurrentPacket(T, ip, gdt))
<1>1. CASE Tracked(T, ip)
  <2> DEFINE next    == deviceAuthSetNextGeneralPayload(Node(T, ip).auth, gdt)
             current == deviceAuthSetCurrentGeneralPayload(Node(T, ip).auth, gdt)
  <2>1. Node(T, ip).auth \in Auths
    BY <1>1, NodeType DEF Nodes
  <2>2. next \in Auths /\ next.strictness = Node(T, ip).auth.strictness
    BY <2>1 DEF deviceAuthSetNextGeneralPayload, Auths
  <2>3. current \in Auths /\ current.strictness = Node(T, ip).auth.strictness
    BY <2>1 DEF deviceAuthSetCurrentGeneralPayload, Auths
  <2>4. /\ routingTableSetNextExpectedPacket(T, ip, gdt) = SetAuth(T, ip, next)
        /\ routingTableSetCurrentPacket(T, ip, gdt) = SetAuth(T, ip, current)
    BY <1>1 DEF routingTableSetNextExpectedPacket, routingTableSetCurrentPacket
  <2> HIDE DEF next, current
  <2> QED
    BY <1>1, <2>2, <2>3, <2>4, AuthUpdateLegal
<1>2. CASE ~ Tracked(T, ip)
  BY <1>2 DEF routingTableSetNextExpectedPacket, routingTableSetCurrentPacket, Kept
<1> QED
  BY <1>1, <1>2

LEMMA HeartbeatLegal ==
  ASSUME NEW T, Legal(T), NEW ip \in Addresses
  PROVE  /\ Legal(routingTableHeartbeatDevice(T, ip))
         /\ Kept(T, routingTableHeartbeatDevice(T, ip))
         /\ Legal(routingTableHeardDevice(T, ip))
         /\ Kept(T, routingTableHeardDevice(T, ip))
<1>1. CASE Tracked(T, ip)
  <2>1. Node(T, ip).hb \in Healths
    BY <1>1, NodeType DEF Nodes
  <2>2. Pinged(Node(T, ip).hb) \in Healths /\ Heard(Node(T, ip).hb) \in Healths
    BY <2>1 DEF Pinged, Heard, Healths
  <2>3. /\ routingTableHeartbeatDevice(T, ip) = SetHealth(T, ip, Pinged(Node(T, ip).hb))
        /\ routingTableHeardDevice(T, ip) = SetHealth(T, ip, Heard(Node(T, ip).hb))
    BY <1>1 DEF routingTableHeartbeatDevice, routingTableHeardDevice
  <2> QED
    BY <1>1, <2>2, <2>3, HealthUpdateLegal
<1>2. CASE ~ Tracked(T, ip)
  BY <1>2 DEF routingTableHeartbeatDevice, routingTableHeardDevice, Kept
<1> QED
  BY <1>1, <1>2

LEMMA StrictnessLegal ==
  ASSUME NEW T, Legal(T), NEW level \in Strictnesses
  PROVE  Legal(SetStrictness(T, level)) /\ Kept(T, SetStrictness(T, level))
<1> DEFINE R == [i \in Indices |->
                   IF T.routing_table[i] = NoNode THEN NoNode
                   ELSE [T.routing_table[i] EXCEPT !.auth = deviceAuthEnable(@, level)]]
<1>1. T \in Tables
  BY DEF Legal
<1>2. ASSUME NEW i \in Occupied(T)
      PROVE  /\ R[i] \in Nodes
             /\ R[i].rdid = T.routing_table[i].rdid
             /\ R[i].auth.strictness = level
  <2> DEFINE node == T.routing_table[i]
  <2>1. i \in Indices /\ node \in Nodes /\ node # NoNode
    BY <1>1 DEF Occupied, Tables
  <2>2. /\ deviceAuthEnable(node.auth, level) \in Auths
        /\ deviceAuthEnable(node.auth, level).strictness = level
    BY <2>1 DEF Nodes, Auths, deviceAuthEnable
  <2>3. R[i] = [node EXCEPT !.auth = deviceAuthEnable(node.auth, level)]
    BY <2>1
  <2> HIDE DEF node, R
  <2> QED
    BY <2>1, <2>2, <2>3 DEF Nodes, node
<1>3. \A i \in Indices \ Occupied(T) : R[i] = NoNode
  BY DEF Occupied
<1>4. SetStrictness(T, level)
        = [T EXCEPT !.default_strictness = level, !.routing_table = R]
  BY DEF SetStrictness
<1>5. \A i \in Occupied(T) : R[i] # NoNode
  BY <1>2, NullAssumption
<1>6. R \in [Indices -> Nodes \cup {NoNode}]
  <2>1. \A i \in Indices : R[i] \in Nodes \cup {NoNode}
    BY <1>2, <1>3
  <2> QED
    BY <2>1
<1> HIDE DEF R
<1> QED
  BY <1>2, <1>3, <1>4, <1>5, <1>6, UpdateNodes

-----------------------------------------------------------------------------
(* The table under any sequence of calls.                                  *)

LEMMA EmptyLegal == Legal(routingTableInit) /\ Occupied(routingTableInit) = {}
<1> DEFINE T == routingTableInit
<1>1. /\ T.table_alloc = 0
      /\ T.routing_table = [i \in Indices |-> NoNode]
      /\ T \in Tables
  BY DEF routingTableInit, Tables, Indices, Rdids, Strictnesses
<1>2. Occupied(T) = {}
  BY <1>1 DEF Occupied
<1>3. Counted(T)
  BY <1>1, <1>2, FS_EmptySet DEF Counted
<1> QED
  BY <1>1, <1>2, <1>3 DEF Legal, Unreserved, Distinct, Uniform

LEMMA InitLegal == TableInit => Legal(table)
BY EmptyLegal DEF TableInit

LEMMA StepLegal ==
  ASSUME Legal(table), TableNext
  PROVE  Legal(table') /\ Kept(table, table')
<1>1. CASE AssignIPStatic
  BY <1>1, AssignStaticLegal DEF AssignIPStatic
<1>2. CASE AssignIP
  BY <1>2, AssignLegal DEF AssignIP
<1>3. CASE FreeIP
  BY <1>3, FreeLegal DEF FreeIP
<1>4. CASE FreeAllIPs
  BY <1>4, FreeAllLegal DEF FreeAllIPs
<1>5. CASE ChangeAuth
  BY <1>5, StrictnessLegal DEF ChangeAuth
<1>6. CASE SetNextExpectedPacket
  BY <1>6, SequenceLegal DEF SetNextExpectedPacket
<1>7. CASE SetCurrentPacket
  BY <1>7, SequenceLegal DEF SetCurrentPacket
<1>8. CASE HeartbeatDevice
  BY <1>8, HeartbeatLegal DEF HeartbeatDevice
<1>9. CASE HeardDevice
  BY <1>9, HeartbeatLegal DEF HeardDevice
<1> QED
  BY <1>1, <1>2, <1>3, <1>4, <1>5, <1>6, <1>7, <1>8, <1>9 DEF TableNext

(* The inductive invariant: whatever is called, in whatever order, the     *)
(* table stays legal.                                                      *)
THEOREM TableInvariant == TableSpec => []Legal(table)
<1>1. Legal(table) /\ [TableNext]_table => Legal(table)'
  <2> SUFFICES ASSUME Legal(table), [TableNext]_table PROVE Legal(table)'
    OBVIOUS
  <2>1. CASE TableNext
    <3>1. Legal(table')
      BY <2>1, StepLegal
    <3> QED
      BY <3>1 DEF Legal, Counted, Unreserved, Distinct, Uniform, Occupied
  <2>2. CASE UNCHANGED table
    BY <2>2 DEF Legal, Counted, Unreserved, Distinct, Uniform, Occupied
  <2> QED
    BY <2>1, <2>2
<1> QED
  BY <1>1, InitLegal, PTL DEF TableSpec

(* Type correctness, whatever malloc left in the nodes.                    *)
THEOREM TableTypes == TableSpec => []TableTypeOK
<1>1. Legal(table) => TableTypeOK
  BY DEF Legal, TableTypeOK
<1> QED
  BY <1>1, TableInvariant, PTL

(* table_alloc is the number of nodes, the reserved slots stay empty.      *)
THEOREM CountingSafety == TableSpec => []AllocCountsNodes
<1>1. Legal(table) => AllocCountsNodes
  BY DEF Legal, Counted, Unreserved, AllocCountsNodes
<1> QED
  BY <1>1, TableInvariant, PTL

(* No two devices of a router share an rdid.                               *)
THEOREM RdidSafety == TableSpec => []RdidUnique
<1>1. Legal(table) => RdidUnique
  BY DEF Legal, Distinct, RdidUnique
<1> QED
  BY <1>1, TableInvariant, PTL

(* The rdid the server holds leads back to the device it was made for.     *)
THEOREM RdidLookupSafety == TableSpec => []RdidFindsDevice
<1>1. Legal(table) => RdidFindsDevice
  BY LeasedAddress DEF RdidFindsDevice
<1> QED
  BY <1>1, TableInvariant, PTL

(* The search for a free slot always ends.                                 *)
THEOREM SearchTerminates == TableSpec => []SearchEnds
<1>1. Legal(table) => SearchEnds
  <2> SUFFICES ASSUME Legal(table), ~ tableChkFull(table)
               PROVE  \E i \in Indices : ~ Skipped(table, i)
    BY DEF SearchEnds
  <2> QED
    BY FreeSensor DEF Sensors, Indices
<1> QED
  BY <1>1, TableInvariant, PTL

(* A sensor beside the router can always be freed.                         *)
THEOREM FreeingSafety == TableSpec => []SensorsCanBeFreed
<1>1. Legal(table) => SensorsCanBeFreed
  <2> SUFFICES ASSUME Legal(table), Router \in Occupied(table),
                      Occupied(table) # {Router}
               PROVE  ~ tableChkEmpty(table)
    BY DEF SensorsCanBeFreed
  <2>1. PICK i \in Occupied(table) : i # Router
    OBVIOUS
  <2>2. Cardinality({Router, i}) = 2
    <3>1. IsFiniteSet({Router}) /\ Cardinality({Router}) = 1
      BY FS_Singleton
    <3>2. {Router, i} = {Router} \cup {i}
      OBVIOUS
    <3> QED
      BY <2>1, <3>1, <3>2, FS_AddElement
  <2>3. 2 <= Cardinality(Occupied(table))
    BY <2>1, <2>2, OccupiedFinite, FS_Subset
  <2> QED
    BY <2>3, OccupiedFinite DEF Legal, Counted, tableChkEmpty
<1> QED
  BY <1>1, TableInvariant, PTL

(* Every device is checked at the level of the network.                    *)
THEOREM StrictnessSafety == TableSpec => []UniformStrictness
<1>1. Legal(table) => UniformStrictness
  BY DEF Legal, Uniform, UniformStrictness
<1> QED
  BY <1>1, TableInvariant, PTL

(* A call never changes the rdid of a device nor drops the router.         *)
THEOREM LeaseSafety == TableSpec => LeasesAreStable
<1> DEFINE Stable ==
      /\ \A i \in Occupied(table) \cap Occupied(table)' :
           table'.routing_table[i].rdid = table.routing_table[i].rdid
      /\ Router \in Occupied(table) => Router \in Occupied(table)'
<1>1. Legal(table) /\ [TableNext]_table => [Stable]_table
  <2> SUFFICES ASSUME Legal(table), TableNext PROVE Stable
    OBVIOUS
  <2>1. Kept(table, table')
    BY StepLegal
  <2>2. Occupied(table)' = Occupied(table')
    BY DEF Occupied
  <2> QED
    BY <2>1, <2>2 DEF Kept
<1> QED
  BY <1>1, TableInvariant, PTL DEF TableSpec, LeasesAreStable
=============================================================================
