----------------------------- MODULE RouterProof -----------------------------
(***************************************************************************)
(* Theorems about the router, for every size of the table, every set of    *)
(* packets and every order of them.  The invariant relates two things: the *)
(* packet the table expects next from a device and the steps the device    *)
(* has been taken through.  What is expected is what has been earned.      *)
(* Two action properties follow outcomes through the handlers: what they   *)
(* put back into the queue is true, and whoever they free is announced.    *)
(* The last section is about the heartbeat counter the table keeps of each *)
(* device, on its own.                                                     *)
(***************************************************************************)
EXTENDS Router, HeartbeatWatch, RoutingTableProof, SequenceTheorems

USE TableAssumption

NextOf(T, i)  == T.routing_table[i].auth.next_expected_packet
PlaceOf(T, i) == T.routing_table[i].auth.auth_place

-----------------------------------------------------------------------------
(* What the operations of the table do to the sequence of a device.        *)

(* U has the devices of T; only ip may have another place or another next  *)
(* packet.                                                                 *)
Moved(T, U, ip, place, next) ==
  /\ Legal(U)
  /\ Occupied(U) = Occupied(T)
  /\ U.default_strictness = T.default_strictness
  /\ \A i \in Occupied(T) :
       /\ PlaceOf(U, i) = IF i = ip THEN place ELSE PlaceOf(T, i)
       /\ NextOf(U, i)  = IF i = ip THEN next ELSE NextOf(T, i)

(* U has no device that T has not, and all sensors as they were in T.      *)
Unmoved(T, U) ==
  /\ Legal(U)
  /\ Occupied(U) \subseteq Occupied(T)
  /\ Router \in Occupied(T) => Router \in Occupied(U)
  /\ \A i \in Occupied(U) : /\ NextOf(U, i) = NextOf(T, i)
                            /\ i # Router => PlaceOf(U, i) = PlaceOf(T, i)

(* Replacing the node of one device.                                       *)
LEMMA ReplaceNode ==
  ASSUME NEW T, Legal(T), NEW ip \in Occupied(T), NEW node \in Nodes,
         NEW U, U = Put(T, ip, node)
  PROVE  /\ Occupied(U) = Occupied(T)
         /\ U.default_strictness = T.default_strictness
         /\ U.routing_table[ip] = node
         /\ \A i \in Indices \ {ip} : U.routing_table[i] = T.routing_table[i]
<1>1. T \in Tables /\ ip \in Indices
  BY DEF Legal, Occupied
<1>2. U.routing_table = [T.routing_table EXCEPT ![ip] = node]
  BY <1>1 DEF Put, Tables
<1>3. T.routing_table \in [Indices -> Nodes \cup {NoNode}]
  BY <1>1 DEF Tables
<1>4. /\ U.routing_table[ip] = node
      /\ \A i \in Indices \ {ip} : U.routing_table[i] = T.routing_table[i]
  BY <1>1, <1>2, <1>3
<1>5. U.default_strictness = T.default_strictness
  BY <1>1 DEF Put, Tables
<1>6. node # NoNode
  BY NullAssumption
<1> QED
  BY <1>1, <1>4, <1>5, <1>6 DEF Occupied

LEMMA ReplaceAuth ==
  ASSUME NEW T, Legal(T), NEW ip \in Occupied(T), NEW auth \in Auths,
         auth.strictness = T.routing_table[ip].auth.strictness
  PROVE  Moved(T, SetAuth(T, ip, auth), ip, auth.auth_place, auth.next_expected_packet)
<1> DEFINE node == [T.routing_table[ip] EXCEPT !.auth = auth]
           U    == SetAuth(T, ip, auth)
<1>1. ip \in Indices /\ T.routing_table[ip] \in Nodes
  BY DEF Legal, Tables, Occupied
<1>2. node \in Nodes /\ node.auth = auth
  BY <1>1 DEF Nodes
<1>3. U = Put(T, ip, node) /\ Legal(U)
  BY <1>1, OccupiedTracked, AuthUpdateLegal DEF SetAuth
<1> HIDE DEF node, U
<1>4. /\ Occupied(U) = Occupied(T)
      /\ U.default_strictness = T.default_strictness
      /\ U.routing_table[ip] = node
      /\ \A i \in Indices \ {ip} : U.routing_table[i] = T.routing_table[i]
  BY <1>2, <1>3, ReplaceNode
<1>5. Moved(T, U, ip, auth.auth_place, auth.next_expected_packet)
  BY <1>2, <1>3, <1>4 DEF Moved, PlaceOf, NextOf, Occupied
<1> QED
  BY <1>5 DEF U

LEMMA SetCurrentMoves ==
  ASSUME NEW T, Legal(T), NEW ip \in Indices, NEW gdt \in SUBSET Statuses
  PROVE  Moved(T, routingTableSetCurrentPacket(T, ip, gdt), ip, gdt, NextOf(T, ip))
<1>1. CASE ip \in Occupied(T)
  <2> DEFINE old == T.routing_table[ip].auth
             new == deviceAuthSetCurrentGeneralPayload(old, gdt)
  <2>1. old \in Auths
    BY <1>1 DEF Legal, Tables, Occupied, Nodes
  <2>2. /\ new \in Auths /\ new.strictness = old.strictness
        /\ new.auth_place = gdt /\ new.next_expected_packet = old.next_expected_packet
    BY <2>1 DEF deviceAuthSetCurrentGeneralPayload, Auths
  <2>3. routingTableSetCurrentPacket(T, ip, gdt) = SetAuth(T, ip, new)
    BY <1>1, OccupiedTracked DEF routingTableSetCurrentPacket
  <2> HIDE DEF new
  <2> QED
    BY <1>1, <2>2, <2>3, ReplaceAuth DEF NextOf
<1>2. CASE ip \notin Occupied(T)
  <2>1. routingTableSetCurrentPacket(T, ip, gdt) = T
    BY <1>2, OccupiedTracked DEF routingTableSetCurrentPacket
  <2> QED
    BY <1>2, <2>1 DEF Moved
<1> QED
  BY <1>1, <1>2

LEMMA SetNextMoves ==
  ASSUME NEW T, Legal(T), NEW ip \in Indices, NEW gdt \in SUBSET Statuses
  PROVE  Moved(T, routingTableSetNextExpectedPacket(T, ip, gdt), ip, PlaceOf(T, ip), gdt)
<1>1. CASE ip \in Occupied(T)
  <2> DEFINE old == T.routing_table[ip].auth
             new == deviceAuthSetNextGeneralPayload(old, gdt)
  <2>1. old \in Auths
    BY <1>1 DEF Legal, Tables, Occupied, Nodes
  <2>2. /\ new \in Auths /\ new.strictness = old.strictness
        /\ new.auth_place = old.auth_place /\ new.next_expected_packet = gdt
    BY <2>1 DEF deviceAuthSetNextGeneralPayload, Auths
  <2>3. routingTableSetNextExpectedPacket(T, ip, gdt) = SetAuth(T, ip, new)
    BY <1>1, OccupiedTracked DEF routingTableSetNextExpectedPacket
  <2> HIDE DEF new
  <2> QED
    BY <1>1, <2>2, <2>3, ReplaceAuth DEF PlaceOf
<1>2. CASE ip \notin Occupied(T)
  <2>1. routingTableSetNextExpectedPacket(T, ip, gdt) = T
    BY <1>2, OccupiedTracked DEF routingTableSetNextExpectedPacket
  <2> QED
    BY <1>2, <2>1 DEF Moved
<1> QED
  BY <1>1, <1>2

(* Health is not part of the sequence.                                     *)
LEMMA ReplaceHealth ==
  ASSUME NEW T, Legal(T), NEW ip \in Occupied(T), NEW hb \in Healths
  PROVE  Moved(T, SetHealth(T, ip, hb), ip, PlaceOf(T, ip), NextOf(T, ip))
<1> DEFINE node == [T.routing_table[ip] EXCEPT !.hb = hb]
           U    == SetHealth(T, ip, hb)
<1>1. ip \in Indices /\ T.routing_table[ip] \in Nodes
  BY DEF Legal, Tables, Occupied
<1>2. node \in Nodes /\ node.auth = T.routing_table[ip].auth
  BY <1>1 DEF Nodes
<1>3. U = Put(T, ip, node) /\ Legal(U)
  BY <1>1, OccupiedTracked, HealthUpdateLegal DEF SetHealth
<1> HIDE DEF node, U
<1>4. /\ Occupied(U) = Occupied(T)
      /\ U.default_strictness = T.default_strictness
      /\ U.routing_table[ip] = node
      /\ \A i \in Indices \ {ip} : U.routing_table[i] = T.routing_table[i]
  BY <1>2, <1>3, ReplaceNode
<1>5. Moved(T, U, ip, PlaceOf(T, ip), NextOf(T, ip))
  BY <1>2, <1>3, <1>4 DEF Moved, PlaceOf, NextOf, Occupied
<1> QED
  BY <1>5 DEF U

LEMMA HealthMoves ==
  ASSUME NEW T, Legal(T), NEW ip \in Indices
  PROVE  /\ Moved(T, routingTableHeardDevice(T, ip), ip, PlaceOf(T, ip), NextOf(T, ip))
         /\ Moved(T, routingTableHeartbeatDevice(T, ip), ip, PlaceOf(T, ip), NextOf(T, ip))
<1>1. CASE ip \in Occupied(T)
  <2>1. T.routing_table[ip].hb \in Healths
    BY <1>1 DEF Legal, Tables, Occupied, Nodes
  <2>2. /\ Pinged(T.routing_table[ip].hb) \in Healths
        /\ Heard(T.routing_table[ip].hb) \in Healths
    BY <2>1 DEF Pinged, Heard, Healths
  <2>3. /\ routingTableHeardDevice(T, ip) = SetHealth(T, ip, Heard(T.routing_table[ip].hb))
        /\ routingTableHeartbeatDevice(T, ip)
           = SetHealth(T, ip, Pinged(T.routing_table[ip].hb))
    BY <1>1, OccupiedTracked DEF routingTableHeardDevice, routingTableHeartbeatDevice
  <2> QED
    BY <1>1, <2>2, <2>3, ReplaceHealth
<1>2. CASE ip \notin Occupied(T)
  <2>1. routingTableHeardDevice(T, ip) = T /\ routingTableHeartbeatDevice(T, ip) = T
    BY <1>2, OccupiedTracked DEF routingTableHeardDevice, routingTableHeartbeatDevice
  <2> QED
    BY <2>1 DEF Moved
<1> QED
  BY <1>1, <1>2

LEMMA MovedTwice ==
  ASSUME NEW T, NEW U, NEW V, NEW ip, NEW place, NEW next, NEW place2, NEW next2,
         Moved(T, U, ip, place, next), Moved(U, V, ip, place2, next2)
  PROVE  Moved(T, V, ip, place2, next2)
BY DEF Moved

(* A device that is freed takes only itself out of the table, and with the *)
(* router in the table a sensor really leaves.                             *)
LEMMA FreeUnmoved ==
  ASSUME NEW T, Legal(T), NEW ip \in Addresses
  PROVE  LET U == routingTableFreeIP(T, ip)
         IN  /\ Unmoved(T, U)
             /\ Occupied(T) \ {ip} \subseteq Occupied(U)
             /\ \A i \in Occupied(U) : U.routing_table[i] = T.routing_table[i]
             /\ Router \in Occupied(T) /\ ip \in Sensors => ip \notin Occupied(U)
<1> DEFINE i == locationToTablePtr(ip)
           U == routingTableFreeIP(T, ip)
<1>1. Legal(U) /\ Kept(T, U) /\ i \in Indices /\ T \in Tables
  BY FreeLegal, LocationType DEF Legal
<1>2. i >= 2 => i = ip
  BY DEF locationToTablePtr
<1>3. CASE tableChkEmpty(T) \/ i < 2 \/ Node(T, ip) = NoNode
  <2>1. U = T
    BY <1>3 DEF routingTableFreeIP
  <2>2. ASSUME Router \in Occupied(T), ip \in Sensors, ip \in Occupied(T) PROVE FALSE
    <3>1. i = ip /\ ip # Router /\ ip \in Nat /\ ip >= 2
      BY <2>2 DEF locationToTablePtr, Sensors, Router
    <3>2. tableChkEmpty(T)
      <4>1. Node(T, ip) # NoNode /\ ~ (i < 2)
        BY <2>2, <3>1 DEF Occupied, Node
      <4> QED
        BY <1>3, <4>1
    <3> DEFINE one == {Router}
               two == one \cup {ip}
    <3>3. IsFiniteSet(one) /\ Cardinality(one) = 1
      BY FS_Singleton
    <3>4. ip \notin one /\ two \subseteq Occupied(T)
      BY <2>2, <3>1
    <3> HIDE DEF one
    <3>5. Cardinality(two) = 2
      <4>1. Cardinality(two) = IF ip \in one THEN Cardinality(one) ELSE Cardinality(one) + 1
        BY <3>3, FS_AddElement
      <4> QED
        BY <3>3, <3>4, <4>1
    <3> HIDE DEF two
    <3>6. Cardinality(two) <= Cardinality(Occupied(T))
      BY <3>4, FS_Subset, OccupiedFinite
    <3> QED
      BY <3>2, <3>5, <3>6 DEF Legal, Counted, tableChkEmpty, Tables
  <2> QED
    BY <1>1, <2>1, <2>2 DEF Unmoved
<1>4. CASE ~ (tableChkEmpty(T) \/ i < 2 \/ Node(T, ip) = NoNode)
  <2>1. i = ip
    BY <1>1, <1>2, <1>4 DEF Indices
  <2>2. U = [Put(T, i, NoNode) EXCEPT !.table_alloc = @ - 1]
    BY <1>4 DEF routingTableFreeIP
  <2>3. U.routing_table = [T.routing_table EXCEPT ![ip] = NoNode]
    BY <1>1, <2>1, <2>2 DEF Put, Tables
  <2>4. U.routing_table = [j \in Indices |-> IF j = ip THEN NoNode ELSE T.routing_table[j]]
    BY <1>1, <2>3 DEF Tables
  <2>5. Occupied(U) = Occupied(T) \ {ip}
    BY <2>4 DEF Occupied
  <2>6. \A j \in Occupied(U) : U.routing_table[j] = T.routing_table[j]
    BY <2>4, <2>5 DEF Occupied
  <2> QED
    BY <1>1, <2>5, <2>6 DEF Unmoved, Kept, PlaceOf, NextOf
<1> QED
  BY <1>3, <1>4

LEMMA FreeAllUnmoved ==
  ASSUME NEW T, Legal(T)
  PROVE  Unmoved(T, routingTableFreeAllIPs(T))
<1> DEFINE U == routingTableFreeAllIPs(T)
<1>1. Legal(U) /\ Kept(T, U) /\ T \in Tables
  BY FreeAllLegal DEF Legal
<1>2. \A i \in Indices : U.routing_table[i] \in {NoNode, T.routing_table[i]}
  BY <1>1 DEF routingTableFreeAllIPs, Tables
<1>3. Occupied(U) \subseteq Occupied(T)
  BY <1>2 DEF Occupied
<1>4. \A i \in Occupied(U) : U.routing_table[i] = T.routing_table[i]
  BY <1>2 DEF Occupied
<1> QED
  BY <1>1, <1>3, <1>4 DEF Unmoved, Kept, PlaceOf, NextOf

LEMMA StrictnessUnmoved ==
  ASSUME NEW T, Legal(T), NEW level \in Strictnesses
  PROVE  Unmoved(T, SetStrictness(T, level))
<1> DEFINE U == SetStrictness(T, level)
<1>1. Legal(U) /\ Kept(T, U) /\ T \in Tables
  BY StrictnessLegal DEF Legal
<1>2. U.routing_table =
        [i \in Indices |->
           IF T.routing_table[i] = NoNode THEN NoNode
           ELSE [T.routing_table[i] EXCEPT !.auth = deviceAuthEnable(@, level)]]
  BY <1>1 DEF SetStrictness, Tables
<1>3. Occupied(U) \subseteq Occupied(T)
  BY <1>2 DEF Occupied
<1>4. ASSUME NEW i \in Occupied(U)
      PROVE  PlaceOf(U, i) = PlaceOf(T, i) /\ NextOf(U, i) = NextOf(T, i)
  <2>1. i \in Indices /\ i \in Occupied(T) /\ T.routing_table[i] # NoNode
    BY <1>3, <1>4 DEF Occupied
  <2>2. T.routing_table[i] \in Nodes
    BY <1>1, <2>1 DEF Tables
  <2>3. U.routing_table[i]
        = [T.routing_table[i] EXCEPT !.auth = deviceAuthEnable(@, level)]
    BY <1>2, <2>1
  <2>4. U.routing_table[i].auth = deviceAuthEnable(T.routing_table[i].auth, level)
    BY <2>2, <2>3 DEF Nodes
  <2> QED
    BY <2>2, <2>4 DEF PlaceOf, NextOf, deviceAuthEnable, Nodes, Auths
<1> QED
  BY <1>1, <1>3, <1>4 DEF Unmoved, Kept

(* A change of level frees nobody.                                         *)
LEMMA StrictnessOccupied ==
  ASSUME NEW T, Legal(T), NEW level \in Strictnesses
  PROVE  Occupied(T) \subseteq Occupied(SetStrictness(T, level))
<1> DEFINE U == SetStrictness(T, level)
<1>1. Legal(U) /\ T \in Tables
  BY StrictnessLegal DEF Legal
<1>2. U.routing_table =
        [i \in Indices |->
           IF T.routing_table[i] = NoNode THEN NoNode
           ELSE [T.routing_table[i] EXCEPT !.auth = deviceAuthEnable(@, level)]]
  BY <1>1 DEF SetStrictness, Tables
<1>3. ASSUME NEW i \in Occupied(T) PROVE i \in Occupied(U)
  <2>1. i \in Indices /\ T.routing_table[i] # NoNode
    BY DEF Occupied
  <2>2. T.routing_table[i] \in Nodes
    BY <1>1, <2>1 DEF Tables
  <2> DEFINE node == [T.routing_table[i] EXCEPT !.auth = deviceAuthEnable(@, level)]
  <2>3. deviceAuthEnable(T.routing_table[i].auth, level) \in Auths
    BY <2>2 DEF Nodes, deviceAuthEnable, Auths
  <2>4. node \in Nodes
    BY <2>2, <2>3 DEF Nodes
  <2>5. node # NoNode
    BY <2>4, NullAssumption
  <2>6. U.routing_table[i] = node
    BY <1>2, <2>1
  <2> QED
    BY <2>1, <2>5, <2>6 DEF Occupied
<1> QED
  BY <1>3

(* A new device is the only one that changes; it expects nothing yet.      *)
LEMMA InstallBlank ==
  ASSUME NEW T, Legal(T), NEW i \in {Router} \cup Sensors,
         T.routing_table[i] = NoNode, T.table_alloc < N - 3, NEW garbage \in Garbage
  PROVE  LET U == Install(T, i, garbage)
         IN  /\ Legal(U)
             /\ Occupied(U) = Occupied(T) \cup {i}
             /\ PlaceOf(U, i) = {} /\ NextOf(U, i) = {}
             /\ \A j \in Occupied(T) : U.routing_table[j] = T.routing_table[j]
<1> DEFINE U == Install(T, i, garbage)
<1>1. T \in Tables /\ i \in Indices
  BY DEF Legal, Sensors, Router, Indices
<1>2. \E rdid : U.routing_table[i] = NewNode(T, rdid)
  <2> DEFINE M    == Malloced(T, i, garbage)
             pool == (T.rdid_pool + PoolSteps(M)) % Word
  <2>1. \A rdid : Put(T, i, NewNode(T, rdid)).routing_table[i] = NewNode(T, rdid)
    BY <1>1 DEF Put, Tables
  <2>2. \A rdid : Put(T, i, NewNode(T, rdid)) \in
                    [tableptr : Indices, rdid_pool : Rdids, table_alloc : 0 .. N - 3,
                     routing_table : {[T.routing_table EXCEPT ![i] = NewNode(T, rdid)]},
                     default_strictness : Strictnesses]
    BY <1>1 DEF Put, Tables
  <2>3. CASE routingTableLookupRDID(M, i)
    <3>1. U = [Put(T, i, NewNode(T, pool)) EXCEPT !.rdid_pool   = (pool + 1) % Word,
                                                  !.table_alloc = @ + 1]
      BY <2>3 DEF Install
    <3> HIDE DEF pool
    <3>2. U.routing_table = Put(T, i, NewNode(T, pool)).routing_table
      BY <2>2, <3>1
    <3> QED
      BY <2>1, <3>2
  <2>4. CASE ~ routingTableLookupRDID(M, i)
    <3>1. U = [Put(T, i, NewNode(T, i)) EXCEPT !.table_alloc = @ + 1]
      BY <2>4 DEF Install
    <3>2. U.routing_table = Put(T, i, NewNode(T, i)).routing_table
      BY <2>2, <3>1
    <3> QED
      BY <2>1, <3>2
  <2> QED
    BY <2>3, <2>4
<1>3. PlaceOf(U, i) = {} /\ NextOf(U, i) = {}
  BY <1>2 DEF PlaceOf, NextOf, NewNode, deviceAuthInit
<1>4. garbage \in Rdids
  BY DEF Rdids
<1> QED
  BY <1>3, <1>4, InstallLegal

(* routingTableAssignIP finds a free sensor slot, unless the table is full. *)
LEMMA AssignBlank ==
  ASSUME NEW T, Legal(T), NEW garbage \in Garbage, ~ tableChkFull(T)
  PROVE  LET U == routingTableAssignIP(T, garbage)
             i == NextSlot(T)
         IN  /\ Legal(U)
             /\ i \in Sensors \ Occupied(T)
             /\ Occupied(U) = Occupied(T) \cup {i}
             /\ PlaceOf(U, i) = {} /\ NextOf(U, i) = {}
             /\ \A j \in Occupied(T) : U.routing_table[j] = T.routing_table[j]
<1> DEFINE i == NextSlot(T)
           V == [T EXCEPT !.tableptr = NextSlot(T)]
           U == routingTableAssignIP(T, garbage)
<1>1. /\ i \in Sensors /\ T.routing_table[i] = NoNode
      /\ Legal(V) /\ Occupied(V) = Occupied(T)
      /\ V.routing_table = T.routing_table /\ V.table_alloc < N - 3
      /\ U = Install(V, i, garbage)
  BY AssignInstalls
<1> HIDE DEF i, V
<1>2. /\ Legal(Install(V, i, garbage))
      /\ Occupied(Install(V, i, garbage)) = Occupied(V) \cup {i}
      /\ PlaceOf(Install(V, i, garbage), i) = {} /\ NextOf(Install(V, i, garbage), i) = {}
      /\ \A j \in Occupied(V) : Install(V, i, garbage).routing_table[j] = V.routing_table[j]
  BY <1>1, InstallBlank
<1> QED
  BY <1>1, <1>2 DEF i, Occupied

(* The Hatch finds an empty table and puts the router into it.             *)
LEMMA HatchBlank ==
  ASSUME NEW T, Legal(T), Occupied(T) = {}, NEW garbage \in Garbage
  PROVE  LET U == routingTableAssignIPStatic(T, Router, garbage)
         IN  /\ Legal(U)
             /\ Occupied(U) = {Router}
             /\ NextOf(U, Router) = {}
<1>1. T.table_alloc = 0
  BY FS_EmptySet DEF Legal, Counted
<1>2. /\ Router \in Indices /\ Router \in {Router} \cup Sensors
      /\ T.routing_table[Router] = NoNode
  BY DEF Router, Indices, Occupied
<1>3. CanAssign(T, Router)
  BY <1>1, <1>2, OccupiedTracked DEF CanAssign, tableChkFull, Router
<1>4. routingTableAssignIPStatic(T, Router, garbage) = Install(T, Router, garbage)
  BY <1>2, <1>3, OccupiedTracked DEF routingTableAssignIPStatic
<1>5. T.table_alloc < N - 3
  BY <1>1
<1> QED
  BY <1>2, <1>4, <1>5, InstallBlank

-----------------------------------------------------------------------------
(* Outcomes.                                                               *)

(* An outcome with this table, these packets put back, this return value.  *)
Yields(O, T, enqueued, exit) ==
  \E tcp, serial : O = [table |-> T, tcp |-> tcp, serial |-> serial,
                        enqueued |-> enqueued, exit |-> exit]

LEMMA OutcomeFields ==
  ASSUME NEW O, NEW T, NEW enqueued, NEW exit, Yields(O, T, enqueued, exit)
  PROVE  O.table = T /\ O.enqueued = enqueued /\ O.exit = exit
BY DEF Yields

LEMMA BeginYields ==
  ASSUME NEW T
  PROVE  Yields(Begin(T), T, <<>>, 0)
BY DEF Yields, Begin

(* Sending changes neither the table nor what is returned.                 *)
LEMMA SendsYield ==
  ASSUME NEW O, NEW T, NEW enqueued, NEW exit, Yields(O, T, enqueued, exit), NEW p
  PROVE  /\ Yields(sgTCPSend(O, p), T, enqueued, exit)
         /\ Yields(sgSerialSend(O, p), T, enqueued, exit)
<1>1. PICK tcp, serial : O = [table |-> T, tcp |-> tcp, serial |-> serial,
                              enqueued |-> enqueued, exit |-> exit]
  BY DEF Yields
<1>2. Yields(sgSerialSend(O, p), T, enqueued, exit)
  <2>1. \A more : [O EXCEPT !.serial = more]
                  = [table |-> T, tcp |-> tcp, serial |-> more,
                     enqueued |-> enqueued, exit |-> exit]
    BY <1>1
  <2>2. \E more : sgSerialSend(O, p) = [O EXCEPT !.serial = more]
    BY DEF sgSerialSend
  <2> QED
    BY <2>1, <2>2 DEF Yields
<1>3. \A more : Yields([O EXCEPT !.tcp = more], T, enqueued, exit)
  <2> TAKE more
  <2>1. [O EXCEPT !.tcp = more] = [table |-> T, tcp |-> more, serial |-> serial,
                                   enqueued |-> enqueued, exit |-> exit]
    BY <1>1
  <2> QED
    BY <2>1 DEF Yields
<1>4. \/ sgTCPSend(O, p) = O
      \/ \E more : sgTCPSend(O, p) = [O EXCEPT !.tcp = more]
  BY DEF sgTCPSend
<1> QED
  BY <1>2, <1>3, <1>4

LEMMA SettersYield ==
  ASSUME NEW O, NEW T, NEW enqueued, NEW exit, Yields(O, T, enqueued, exit)
  PROVE  /\ \A U : Yields(SetTable(O, U), U, enqueued, exit)
         /\ \A code : Yields(Returns(O, code), T, enqueued, code)
         /\ \A p : Yields(queueEnqueue(O, p), T, Append(enqueued, p), exit)
<1>1. PICK tcp, serial : O = [table |-> T, tcp |-> tcp, serial |-> serial,
                              enqueued |-> enqueued, exit |-> exit]
  BY DEF Yields
<1>2. ASSUME NEW U PROVE Yields(SetTable(O, U), U, enqueued, exit)
  <2>1. SetTable(O, U) = [table |-> U, tcp |-> tcp, serial |-> serial,
                          enqueued |-> enqueued, exit |-> exit]
    BY <1>1 DEF SetTable
  <2> QED
    BY <2>1 DEF Yields
<1>3. ASSUME NEW code PROVE Yields(Returns(O, code), T, enqueued, code)
  <2>1. Returns(O, code) = [table |-> T, tcp |-> tcp, serial |-> serial,
                            enqueued |-> enqueued, exit |-> code]
    BY <1>1 DEF Returns
  <2> QED
    BY <2>1 DEF Yields
<1>4. ASSUME NEW p PROVE Yields(queueEnqueue(O, p), T, Append(enqueued, p), exit)
  <2>1. \A more : [O EXCEPT !.enqueued = more]
                  = [table |-> T, tcp |-> tcp, serial |-> serial,
                     enqueued |-> more, exit |-> exit]
    BY <1>1
  <2>2. O.enqueued = enqueued
    BY <1>1
  <2>3. queueEnqueue(O, p) = [O EXCEPT !.enqueued = Append(enqueued, p)]
    BY <2>2 DEF queueEnqueue
  <2> QED
    BY <2>1, <2>3 DEF Yields
<1> QED
  BY <1>2, <1>3, <1>4

(* routerFreeDevice is routingTableFreeIP with words of goodbye.           *)
LEMMA FreeDeviceYields ==
  ASSUME NEW O, NEW T, Legal(T), NEW enqueued, NEW exit, Yields(O, T, enqueued, exit),
         NEW ip \in Addresses
  PROVE  \E U : /\ Yields(routerFreeDevice(O, ip), U, enqueued, exit)
                /\ Unmoved(T, U)
                /\ Occupied(T) \ {ip} \subseteq Occupied(U)
                /\ \A i \in Occupied(U) : U.routing_table[i] = T.routing_table[i]
                /\ Router \in Occupied(T) /\ ip \in Sensors => ip \notin Occupied(U)
<1>1. CASE ip < 2 \/ ~ routingTableLookup(O.table, ip)
  <2>1. routerFreeDevice(O, ip) = O /\ O.table = T
    BY <1>1, OutcomeFields DEF routerFreeDevice
  <2>2. ip \in Sensors => ip \notin Occupied(T)
    <3>1. ip \in Sensors => ip \in Indices /\ ~ (ip < 2)
      BY DEF Sensors, Indices
    <3> QED
      BY <1>1, <2>1, <3>1, OccupiedTracked
  <2> QED
    BY <2>1, <2>2 DEF Unmoved
<1>2. CASE ~ (ip < 2 \/ ~ routingTableLookup(O.table, ip))
  <2> DEFINE told == sgSerialSend(sgTCPSend(O, Disconnect(ip)), Disconnect(ip))
             U    == routingTableFreeIP(T, ip)
  <2>1. Yields(told, T, enqueued, exit)
    BY SendsYield
  <2>2. routerFreeDevice(O, ip) = SetTable(told, routingTableFreeIP(told.table, ip))
    BY <1>2 DEF routerFreeDevice
  <2> HIDE DEF told
  <2>3. Yields(routerFreeDevice(O, ip), U, enqueued, exit)
    BY <2>1, <2>2, OutcomeFields, SettersYield
  <2> QED
    BY <2>3, FreeUnmoved
<1> QED
  BY <1>1, <1>2

LEMMA FreeAllDevicesYield ==
  ASSUME NEW T, Legal(T), NEW O, NEW enqueued, NEW exit, Yields(O, T, enqueued, exit)
  PROVE  \E U : /\ Yields(routerFreeAllDevices(O), U, enqueued, exit)
                /\ Unmoved(T, U)
<1> DEFINE U == routingTableFreeAllIPs(T)
<1>1. PICK tcp0, serial0 : O = [table |-> T, tcp |-> tcp0, serial |-> serial0,
                                enqueued |-> enqueued, exit |-> exit]
  BY DEF Yields
<1>2. Unmoved(T, U)
  BY FreeAllUnmoved
<1> HIDE DEF U
<1>3. ASSUME NEW tcp, NEW serial
      PROVE  [O EXCEPT !.table = U, !.tcp = tcp, !.serial = serial]
             = [table |-> U, tcp |-> tcp, serial |-> serial,
                enqueued |-> enqueued, exit |-> exit]
  <2>1. [O EXCEPT !.table = U, !.tcp = tcp, !.serial = serial]
        \in [table : {U}, tcp : {tcp}, serial : {serial},
             enqueued : {enqueued}, exit : {exit}]
    BY <1>1
  <2>2. \A V \in [table : {U}, tcp : {tcp}, serial : {serial},
                  enqueued : {enqueued}, exit : {exit}] :
          V = [table |-> U, tcp |-> tcp, serial |-> serial,
               enqueued |-> enqueued, exit |-> exit]
    OBVIOUS
  <2> QED
    BY <2>1, <2>2, Zenon
<1>4. O.table = T
  BY <1>1
<1>5. \E tcp, serial :
        routerFreeAllDevices(O) = [O EXCEPT !.table = U, !.tcp = tcp, !.serial = serial]
  BY <1>4, Zenon DEF routerFreeAllDevices, U
<1> QED
  BY <1>2, <1>3, <1>5 DEF Yields

-----------------------------------------------------------------------------
(* The handlers of the sequence.                                           *)

(* What a handler may put back into the queue: news that ip is back.       *)
Calm(enqueued) == enqueued = <<>> \/ \E ip : enqueued = <<Online(ip)>>

(* O has taken ip from where it was in T to this place and this next one.  *)
Arrives(T, O, ip, place, next, enqueued) ==
  /\ Yields(O, O.table, enqueued, 0)
  /\ Moved(T, O.table, ip, place, next)

LEMMA SetsOff ==
  ASSUME NEW T, Legal(T), NEW ip
  PROVE  Arrives(T, Begin(T), ip, PlaceOf(T, ip), NextOf(T, ip), <<>>)
<1>1. Yields(Begin(T), T, <<>>, 0)
  BY BeginYields
<1>2. Begin(T).table = T
  BY <1>1, OutcomeFields
<1>3. Moved(T, T, ip, PlaceOf(T, ip), NextOf(T, ip))
  BY DEF Moved
<1> QED
  BY <1>1, <1>2, <1>3 DEF Arrives

LEMMA MovesOn ==
  ASSUME NEW T, NEW O, NEW U, NEW ip, NEW place, NEW next, NEW place2, NEW next2,
         NEW enqueued, Arrives(T, O, ip, place, next, enqueued),
         Moved(O.table, U, ip, place2, next2)
  PROVE  Arrives(T, SetTable(O, U), ip, place2, next2, enqueued)
<1>1. Yields(SetTable(O, U), U, enqueued, 0)
  BY SettersYield DEF Arrives
<1>2. SetTable(O, U).table = U
  BY <1>1, OutcomeFields
<1> QED
  BY <1>1, <1>2, MovedTwice DEF Arrives

LEMMA SetCurrentArrives ==
  ASSUME NEW T, NEW O, NEW ip \in Indices, NEW place, NEW next, NEW enqueued,
         Arrives(T, O, ip, place, next, enqueued), NEW gdt \in Statuses
  PROVE  Arrives(T, SetCurrent(O, ip, gdt), ip, {gdt}, next, enqueued)
<1> DEFINE U == routingTableSetCurrentPacket(O.table, ip, {gdt})
<1>1. Legal(O.table)
  BY DEF Arrives, Moved
<1>2. Moved(O.table, U, ip, {gdt}, NextOf(O.table, ip))
  BY <1>1, SetCurrentMoves
<1>3. Moved(O.table, U, ip, {gdt}, next)
  BY <1>2 DEF Moved, Arrives
<1> QED
  BY <1>3, MovesOn DEF SetCurrent

LEMMA SetNextArrives ==
  ASSUME NEW T, NEW O, NEW ip \in Indices, NEW place, NEW next, NEW enqueued,
         Arrives(T, O, ip, place, next, enqueued), NEW gdts \in SUBSET Statuses
  PROVE  Arrives(T, SetNext(O, ip, gdts), ip, place, gdts, enqueued)
<1> DEFINE U == routingTableSetNextExpectedPacket(O.table, ip, gdts)
<1>1. Legal(O.table)
  BY DEF Arrives, Moved
<1>2. Moved(O.table, U, ip, PlaceOf(O.table, ip), gdts)
  BY <1>1, SetNextMoves
<1>3. Moved(O.table, U, ip, place, gdts)
  BY <1>2 DEF Moved, Arrives
<1> QED
  BY <1>3, MovesOn DEF SetNext

LEMMA SendsArrive ==
  ASSUME NEW T, NEW O, NEW ip, NEW place, NEW next, NEW enqueued,
         Arrives(T, O, ip, place, next, enqueued), NEW p
  PROVE  /\ Arrives(T, sgTCPSend(O, p), ip, place, next, enqueued)
         /\ Arrives(T, sgSerialSend(O, p), ip, place, next, enqueued)
<1>1. /\ Yields(sgTCPSend(O, p), O.table, enqueued, 0)
      /\ Yields(sgSerialSend(O, p), O.table, enqueued, 0)
  BY SendsYield DEF Arrives
<1>2. sgTCPSend(O, p).table = O.table /\ sgSerialSend(O, p).table = O.table
  BY <1>1, OutcomeFields
<1> QED
  BY <1>1, <1>2 DEF Arrives

LEMMA HearArrives ==
  ASSUME NEW T, NEW O, NEW ip \in Indices, NEW place, NEW next,
         Arrives(T, O, ip, place, next, <<>>)
  PROVE  \E enqueued : /\ Calm(enqueued)
                       /\ Arrives(T, Hear(O, ip), ip, place, next, enqueued)
<1> DEFINE U     == routingTableHeardDevice(O.table, ip)
           heard == SetTable(O, U)
<1>1. Legal(O.table)
  BY DEF Arrives, Moved
<1>2. Moved(O.table, U, ip, PlaceOf(O.table, ip), NextOf(O.table, ip))
  BY <1>1, HealthMoves
<1>3. Moved(O.table, U, ip, place, next)
  BY <1>2 DEF Moved, Arrives
<1>4. Arrives(T, heard, ip, place, next, <<>>)
  BY <1>3, MovesOn
<1>5. Hear(O, ip) \in {heard, queueEnqueue(heard, Online(ip))}
  BY DEF Hear
<1> HIDE DEF heard
<1>6. Yields(queueEnqueue(heard, Online(ip)), heard.table, Append(<<>>, Online(ip)), 0)
  BY <1>4, SettersYield DEF Arrives
<1>7. Append(<<>>, Online(ip)) = <<Online(ip)>>
  OBVIOUS
<1>8. queueEnqueue(heard, Online(ip)).table = heard.table
  BY <1>6, OutcomeFields
<1>9. Arrives(T, queueEnqueue(heard, Online(ip)), ip, place, next, <<Online(ip)>>)
  BY <1>4, <1>6, <1>7, <1>8 DEF Arrives
<1> QED
  BY <1>4, <1>5, <1>9, Zenon DEF Calm

(* The packets the sequence is made of, and what they make the table       *)
(* expect next.  An Eyeball is not checked, and a refusal ends it.         *)
Steers(p) ==
  \/ p.kind \in {"SINGING", "MOCKING", "PEACOCKING", "NESTING", "SQUAWKING"}
  \/ p.kind = "PECKING" /\ p.what \in {"RECOGNIZED", "MATE", "SERVER_WAIT"}

NextAfter(p) ==
  CASE p.kind = "PECKING" -> IF p.what = "RECOGNIZED" THEN {"SQUAWKING"} ELSE {"SINGING"}
    [] p.kind = "SINGING" -> {"MOCKING"}
    [] p.kind = "MOCKING" -> {"PEACOCKING"}
    [] p.kind = "PEACOCKING" -> IF p.what = "MORE" THEN {"PEACOCKING"} ELSE {"NESTING"}
    [] p.kind = "NESTING" -> {"LEASED"}
    [] p.kind = "SQUAWKING" -> AfterSquawk(p.what)

Admitted(T, p) == routingTableCheckValidPacket(T, About(p), {p.kind}) > 0

LEMMA CheckAdmits ==
  ASSUME NEW T, NEW p
  PROVE  chkValidCTRLPath(Begin(T), About(p), p.kind) <=> Admitted(T, p)
BY DEF chkValidCTRLPath, Admitted, Begin

LEMMA NextAfterStatuses ==
  ASSUME NEW p, Steers(p)
  PROVE  NextAfter(p) \in SUBSET Statuses /\ p.kind \in Statuses
BY DEF Steers, NextAfter, AfterSquawk, Statuses

(* The four orders in which handlers note the place, note the next packet  *)
(* and hear the device.                                                    *)
LEMMA HandlersArrive ==
  ASSUME NEW T, Legal(T), NEW ip \in Indices, NEW gdt \in Statuses,
         NEW gdts \in SUBSET Statuses, NEW p
  PROVE  LET B == Begin(T)
             C == SetCurrent(B, ip, gdt)
         IN  /\ Arrives(T, sgSerialSend(SetNext(C, ip, gdts), p), ip, {gdt}, gdts, <<>>)
             /\ \E enqueued :
                  /\ Calm(enqueued)
                  /\ Arrives(T, sgTCPSend(Hear(SetNext(C, ip, gdts), ip), p), ip,
                             {gdt}, gdts, enqueued)
             /\ \E enqueued :
                  /\ Calm(enqueued)
                  /\ Arrives(T, sgTCPSend(SetNext(Hear(C, ip), ip, gdts), p), ip,
                             {gdt}, gdts, enqueued)
                  /\ Arrives(T, sgSerialSend(SetNext(Hear(C, ip), ip, gdts), p), ip,
                             {gdt}, gdts, enqueued)
<1> DEFINE B == Begin(T)
           C == SetCurrent(B, ip, gdt)
           D == SetNext(C, ip, gdts)
           H == Hear(C, ip)
           E == SetNext(H, ip, gdts)
<1>1. Arrives(T, B, ip, PlaceOf(T, ip), NextOf(T, ip), <<>>)
  BY SetsOff
<1> HIDE DEF B
<1>2. Arrives(T, C, ip, {gdt}, NextOf(T, ip), <<>>)
  BY <1>1, SetCurrentArrives
<1> HIDE DEF C
<1>3. Arrives(T, D, ip, {gdt}, gdts, <<>>)
  BY <1>2, SetNextArrives
<1> HIDE DEF D
<1>4. Arrives(T, sgSerialSend(D, p), ip, {gdt}, gdts, <<>>)
  BY <1>3, SendsArrive
<1>5. PICK heard : Calm(heard) /\ Arrives(T, Hear(D, ip), ip, {gdt}, gdts, heard)
  BY <1>3, HearArrives
<1>6. Arrives(T, sgTCPSend(Hear(D, ip), p), ip, {gdt}, gdts, heard)
  BY <1>5, SendsArrive
<1>7. PICK early : Calm(early) /\ Arrives(T, H, ip, {gdt}, NextOf(T, ip), early)
  BY <1>2, HearArrives
<1> HIDE DEF H
<1>8. Arrives(T, E, ip, {gdt}, gdts, early)
  BY <1>7, SetNextArrives
<1> HIDE DEF E
<1>9. /\ Arrives(T, sgTCPSend(E, p), ip, {gdt}, gdts, early)
      /\ Arrives(T, sgSerialSend(E, p), ip, {gdt}, gdts, early)
  BY <1>8, SendsArrive
<1> QED
  BY <1>4, <1>5, <1>6, <1>7, <1>9, Zenon DEF B, C, D, H, E

(* A packet of the sequence is either admitted, and takes its device to    *)
(* its place and its next step, or changes nothing.                        *)
LEMMA StepTaken ==
  ASSUME NEW T, Legal(T), NEW p, Steers(p), About(p) \in Indices, NEW garbage
  PROVE  LET O == Handle(Begin(T), p, garbage)
         IN  /\ Admitted(T, p) =>
                  \E enqueued : /\ Calm(enqueued)
                                /\ Arrives(T, O, About(p), {p.kind}, NextAfter(p), enqueued)
             /\ ~ Admitted(T, p) => O = Returns(Begin(T), -1)
<1> DEFINE O     == Handle(Begin(T), p, garbage)
           ip    == About(p)
           next  == NextAfter(p)
           place == p.kind
           Taken == \E enqueued : /\ Calm(enqueued)
                                  /\ Arrives(T, O, ip, {place}, next, enqueued)
           C == SetCurrent(Begin(T), ip, place)
<1>1. next \in SUBSET Statuses /\ place \in Statuses
  BY NextAfterStatuses
<1>2. chkValidCTRLPath(Begin(T), ip, place) <=> Admitted(T, p)
  BY CheckAdmits
<1>3. ASSUME O \in {sgSerialSend(SetNext(C, ip, next), p),
                    sgTCPSend(Hear(SetNext(C, ip, next), ip), p),
                    sgTCPSend(SetNext(Hear(C, ip), ip, next), p),
                    sgSerialSend(SetNext(Hear(C, ip), ip, next), p)}
      PROVE  Taken
  <2> HIDE DEF O, ip, next, place
  <2>1. ip \in Indices
    BY DEF ip
  <2>2. /\ Arrives(T, sgSerialSend(SetNext(C, ip, next), p), ip, {place}, next, <<>>)
        /\ \E enqueued :
             /\ Calm(enqueued)
             /\ Arrives(T, sgTCPSend(Hear(SetNext(C, ip, next), ip), p), ip,
                        {place}, next, enqueued)
        /\ \E enqueued :
             /\ Calm(enqueued)
             /\ Arrives(T, sgTCPSend(SetNext(Hear(C, ip), ip, next), p), ip,
                        {place}, next, enqueued)
             /\ Arrives(T, sgSerialSend(SetNext(Hear(C, ip), ip, next), p), ip,
                        {place}, next, enqueued)
    BY <1>1, <2>1, HandlersArrive
  <2>3. Calm(<<>>)
    BY DEF Calm
  <2> HIDE DEF C
  <2> QED
    BY <1>3, <2>2, <2>3, Zenon
<1>4. CASE place = "SINGING"
  <2>1. O = routerHandleSing(Begin(T), p) /\ ip = p.ip /\ next = {"MOCKING"}
    BY <1>4 DEF Handle, About, NextAfter
  <2>2. O = IF Admitted(T, p) THEN sgSerialSend(SetNext(C, ip, next), p)
            ELSE Returns(Begin(T), -1)
    BY <1>2, <1>4, <2>1 DEF routerHandleSing
  <2> QED
    BY <1>3, <2>2
<1>5. CASE place = "MOCKING"
  <2>1. O = routerHandleMock(Begin(T), p) /\ ip = p.ip /\ next = {"PEACOCKING"}
    BY <1>5 DEF Handle, About, NextAfter
  <2>2. O = IF Admitted(T, p) THEN sgTCPSend(Hear(SetNext(C, ip, next), ip), p)
            ELSE Returns(Begin(T), -1)
    BY <1>2, <1>5, <2>1 DEF routerHandleMock
  <2> QED
    BY <1>3, <2>2
<1>6. CASE place = "PEACOCKING"
  <2>1. /\ O = routerHandlePeacock(Begin(T), p) /\ ip = p.ip
        /\ next = IF p.what = "MORE" THEN {"PEACOCKING"} ELSE {"NESTING"}
    BY <1>6 DEF Handle, About, NextAfter
  <2>2. O = IF Admitted(T, p) THEN sgTCPSend(SetNext(Hear(C, ip), ip, next), p)
            ELSE Returns(Begin(T), -1)
    BY <1>2, <1>6, <2>1 DEF routerHandlePeacock
  <2> QED
    BY <1>3, <2>2
<1>7. CASE place = "NESTING"
  <2>1. O = routerHandleNest(Begin(T), p) /\ ip = p.ip /\ next = {"LEASED"}
    BY <1>7 DEF Handle, About, NextAfter
  <2>2. O = IF Admitted(T, p) THEN sgSerialSend(SetNext(Hear(C, ip), ip, next), p)
            ELSE Returns(Begin(T), -1)
    BY <1>2, <1>7, <2>1 DEF routerHandleNest
  <2> QED
    BY <1>3, <2>2
<1>8. CASE place = "SQUAWKING"
  <2>1. O = routerHandleSquawk(Begin(T), p) /\ ip = p.ip /\ next = AfterSquawk(p.what)
    BY <1>8 DEF Handle, About, NextAfter
  <2>2. /\ Admitted(T, p) => O \in {sgTCPSend(SetNext(Hear(C, ip), ip, next), p),
                                    sgSerialSend(SetNext(Hear(C, ip), ip, next), p)}
        /\ ~ Admitted(T, p) => O = Returns(Begin(T), -1)
    BY <1>2, <1>8, <2>1 DEF routerHandleSquawk
  <2> QED
    BY <1>3, <2>2
<1>9. CASE place = "PECKING"
  <2>1. /\ O = routerHandlePeck(Begin(T), p) /\ ip = p.to
        /\ next = IF p.what = "RECOGNIZED" THEN {"SQUAWKING"} ELSE {"SINGING"}
    BY <1>9 DEF Handle, About, NextAfter
  <2>2. p.what \in {"RECOGNIZED", "MATE", "SERVER_WAIT"}
    BY <1>9 DEF Steers
  <2>3. /\ Admitted(T, p) => O = sgSerialSend(SetNext(C, ip, next), p)
        /\ ~ Admitted(T, p) => O = Returns(Begin(T), -1)
    BY <1>2, <1>9, <2>1, <2>2 DEF routerHandlePeck
  <2> QED
    BY <1>3, <2>3
<1> QED
  BY <1>4, <1>5, <1>6, <1>7, <1>8, <1>9 DEF Steers

-----------------------------------------------------------------------------
(* The other handlers.                                                     *)

LEMMA PacketFacts ==
  ASSUME NEW p \in Packets
  PROVE  /\ p.kind \in DOMAIN Whats \ {"HATCHING"}
         /\ p.what \in Whats[p.kind]
         /\ About(p) \in Indices
         /\ p.kind # "PECKING" => p.ip = About(p)
         /\ p.ip \in Addresses
<1>1. PICK kind \in Kinds : \E what \in Whats[kind], ip \in 0 .. N - 2 :
        p = Packet(kind, what, IF kind = "PECKING" THEN N ELSE ip, ip)
  BY DEF Packets
<1>2. PICK what \in Whats[kind], ip \in 0 .. N - 2 :
        p = Packet(kind, what, IF kind = "PECKING" THEN N ELSE ip, ip)
  BY <1>1
<1>3. kind \in DOMAIN Whats \ {"HATCHING"}
  BY KindsAssumption
<1>4. /\ p.kind = kind /\ p.what = what /\ p.to = ip
      /\ p.ip = IF kind = "PECKING" THEN N ELSE ip
  BY <1>2 DEF Packet
<1> QED
  BY <1>3, <1>4 DEF About, Indices, Addresses

(* A device is freed right after its place was noted.                      *)
LEMMA FreedAfter ==
  ASSUME NEW T, Legal(T), Router \in Occupied(T), NEW ip \in Indices, NEW place,
         NEW O, Arrives(T, O, ip, place, NextOf(T, ip), <<>>)
  PROVE  \E U : /\ Yields(routerFreeDevice(O, ip), U, <<>>, 0)
                /\ Unmoved(T, U)
                /\ ip \in Sensors => ip \notin Occupied(U)
<1>1. /\ Legal(O.table) /\ Occupied(O.table) = Occupied(T)
      /\ Yields(O, O.table, <<>>, 0)
  BY DEF Arrives, Moved
<1>2. ip \in Addresses
  BY DEF Indices, Addresses
<1>3. PICK U : /\ Yields(routerFreeDevice(O, ip), U, <<>>, 0)
               /\ Unmoved(O.table, U)
               /\ Router \in Occupied(O.table) /\ ip \in Sensors => ip \notin Occupied(U)
  BY <1>1, <1>2, FreeDeviceYields
<1>4. ip \in Sensors => ip \notin Occupied(U)
  BY <1>1, <1>3
<1>5. ip \in Occupied(T) => ip \in Sensors \/ ip = Router
  BY DEF Legal, Unreserved
<1>6. Unmoved(T, U)
  BY <1>1, <1>3, <1>4, <1>5 DEF Unmoved, Arrives, Moved
<1> QED
  BY <1>3, <1>4, <1>6

(* The table may have lost devices; if the packet was accepted it is no    *)
(* step of the sequence, or its device is gone.                            *)
Idle(T, O, p) ==
  /\ p.kind # "EYEBALLING"
  /\ \E U, enqueued, exit :
    /\ Yields(O, U, enqueued, exit)
    /\ Calm(enqueued)
    /\ exit \in {-1, 0, 1}
    /\ Unmoved(T, U)
    /\ exit = 0 /\ About(p) \in Occupied(U) => p.kind \notin Sequence

LEMMA AdmittedSensor ==
  ASSUME NEW T, Legal(T), NEW p, About(p) \in Indices, Admitted(T, p)
  PROVE  About(p) \in Occupied(T) \cap Sensors
<1> DEFINE ip == About(p)
<1>1. /\ Node(T, ip) = T.routing_table[ip] /\ locationToTablePtr(ip) = ip
  BY OccupiedTracked
<1>2. T.table_alloc # 0 /\ Node(T, ip) # NoNode /\ ~ (ip < 2)
  BY <1>1 DEF Admitted, routingTableCheckValidPacket
<1>3. ip \in Occupied(T)
  BY <1>1, <1>2 DEF Occupied
<1> QED
  BY <1>2, <1>3 DEF Legal, Unreserved, Router

LEMMA PeckRefused ==
  ASSUME NEW T, Legal(T), Router \in Occupied(T), NEW p \in Packets, p.kind = "PECKING",
         ~ Steers(p), NEW garbage, NEW O, O = Handle(Begin(T), p, garbage)
  PROVE  O = Returns(Begin(T), -1) \/ (Idle(T, O, p) /\ O.exit # -1)
<1> DEFINE ip     == p.to
           pecked == SetCurrent(Begin(T), ip, "PECKING")
           sent   == sgSerialSend(pecked, p)
<1>1. ip = About(p) /\ ip \in Indices
  BY PacketFacts DEF About
<1>2. O = routerHandlePeck(Begin(T), p)
  BY DEF Handle
<1>3. p.what \in {"SERVER_REFUSES", "SENSOR_REFUSES", "UNKNOWN"}
  BY PacketFacts DEF Steers, Whats
<1>4. chkValidCTRLPath(Begin(T), ip, "PECKING") <=> Admitted(T, p)
  BY <1>1, CheckAdmits
<1>5. CASE ~ Admitted(T, p)
  BY <1>2, <1>4, <1>5 DEF routerHandlePeck
<1>6. CASE Admitted(T, p)
  <2>1. Arrives(T, pecked, ip, {"PECKING"}, NextOf(T, ip), <<>>)
    <3>1. "PECKING" \in Statuses
      BY DEF Statuses
    <3> QED
      BY <1>1, <3>1, SetsOff, SetCurrentArrives
  <2>2. Arrives(T, sent, ip, {"PECKING"}, NextOf(T, ip), <<>>)
    BY <2>1, SendsArrive
  <2>3. ip \in Sensors
    BY <1>1, <1>6, AdmittedSensor
  <2>4. CASE p.what = "UNKNOWN"
    <3>1. O = Returns(routerFreeDevice(pecked, ip), 1)
      BY <1>2, <1>4, <1>6, <2>4 DEF routerHandlePeck
    <3> HIDE DEF pecked
    <3>2. PICK U : /\ Yields(routerFreeDevice(pecked, ip), U, <<>>, 0)
                   /\ Unmoved(T, U)
      BY <1>1, <2>1, FreedAfter
    <3>3. Yields(O, U, <<>>, 1)
      BY <3>1, <3>2, SettersYield
    <3>4. O.exit = 1
      BY <3>3, OutcomeFields
    <3> QED
      BY <3>2, <3>3, <3>4 DEF Idle, Calm
  <2>5. CASE p.what \in {"SERVER_REFUSES", "SENSOR_REFUSES"}
    <3>1. O = routerFreeDevice(sent, ip)
      BY <1>2, <1>4, <1>6, <2>5 DEF routerHandlePeck
    <3> HIDE DEF sent
    <3>2. PICK U : /\ Yields(routerFreeDevice(sent, ip), U, <<>>, 0)
                   /\ Unmoved(T, U)
                   /\ ip \notin Occupied(U)
      BY <1>1, <2>2, <2>3, FreedAfter
    <3>3. O.exit = 0
      BY <3>1, <3>2, OutcomeFields
    <3> QED
      BY <1>1, <3>1, <3>2, <3>3 DEF Idle, Calm
  <2> QED
    BY <1>3, <2>4, <2>5
<1> QED
  BY <1>5, <1>6

Chirped(T, O, p) ==
  /\ p.kind = "CHIRPING"
  /\ \E enqueued : /\ Calm(enqueued)
                   /\ Arrives(T, O, About(p), {"CHIRPING"}, {"LEASED"}, enqueued)

LEMMA ChirpHandled ==
  ASSUME NEW T, Legal(T), Router \in Occupied(T), NEW p \in Packets, p.kind = "CHIRPING",
         NEW garbage, NEW O, O = Handle(Begin(T), p, garbage)
  PROVE  \/ O = Returns(Begin(T), -1)
         \/ Chirped(T, O, p)
         \/ Idle(T, O, p) /\ O.exit # -1
<1> DEFINE ip      == p.ip
           chirped == SetCurrent(Begin(T), ip, "CHIRPING")
<1>1. ip = About(p) /\ ip \in Indices
  BY PacketFacts DEF About
<1>2. O = routerHandleChirp(Begin(T), p)
  BY DEF Handle
<1>3. p.what \in {"COMMAND", "DATA", "NETWORK_DISCONNECTS", "SENSOR_DISCONNECT"}
  BY PacketFacts DEF Whats
<1>4. "CHIRPING" \in Statuses /\ {"LEASED"} \in SUBSET Statuses
  BY DEF Statuses
<1>5. CASE p.what = "SENSOR_DISCONNECT" /\ ~ chkValidCTRLPath(Begin(T), ip, "CHIRPING")
  BY <1>2, <1>5 DEF routerHandleChirp
<1>6. CASE p.what = "COMMAND"
  <2>1. O = sgSerialSend(SetNext(chirped, ip, {"LEASED"}), p)
    BY <1>2, <1>6 DEF routerHandleChirp
  <2>2. Arrives(T, O, ip, {"CHIRPING"}, {"LEASED"}, <<>>)
    BY <1>1, <1>4, <2>1, HandlersArrive
  <2> QED
    BY <1>1, <2>2 DEF Chirped, Calm
<1>7. CASE p.what = "DATA"
  <2>1. O = sgTCPSend(Hear(SetNext(chirped, ip, {"LEASED"}), ip), p)
    BY <1>2, <1>7 DEF routerHandleChirp
  <2>2. \E enqueued :
          /\ Calm(enqueued)
          /\ Arrives(T, sgTCPSend(Hear(SetNext(chirped, ip, {"LEASED"}), ip), p), ip,
                     {"CHIRPING"}, {"LEASED"}, enqueued)
    BY <1>1, <1>4, HandlersArrive
  <2> QED
    BY <1>1, <2>1, <2>2, Zenon DEF Chirped
<1>8. CASE /\ p.what \in {"NETWORK_DISCONNECTS", "SENSOR_DISCONNECT"}
           /\ ~ (p.what = "SENSOR_DISCONNECT" /\ ~ chkValidCTRLPath(Begin(T), ip, "CHIRPING"))
  <2>1. O = routerFreeDevice(chirped, ip)
    BY <1>2, <1>8 DEF routerHandleChirp
  <2>2. Arrives(T, chirped, ip, {"CHIRPING"}, NextOf(T, ip), <<>>)
    BY <1>1, <1>4, SetsOff, SetCurrentArrives
  <2> HIDE DEF chirped
  <2>3. PICK U : /\ Yields(O, U, <<>>, 0)
                 /\ Unmoved(T, U)
    BY <1>1, <2>1, <2>2, FreedAfter
  <2>4. O.exit = 0
    BY <2>3, OutcomeFields
  <2>5. p.kind \notin Sequence
    BY DEF Sequence
  <2> QED
    BY <2>3, <2>4, <2>5 DEF Idle, Calm
<1> QED
  BY <1>3, <1>5, <1>6, <1>7, <1>8

(* A heartbeat is heard or passed on.                                      *)
LEMMA HeartbeatHandled ==
  ASSUME NEW T, Legal(T), NEW p \in Packets, p.kind = "HEARTBEAT",
         NEW garbage, NEW O, O = Handle(Begin(T), p, garbage)
  PROVE  Idle(T, O, p) /\ O.exit # -1
<1> DEFINE ip == p.ip
           B  == Begin(T)
<1>1. ip = About(p) /\ ip \in Indices
  BY PacketFacts DEF About
<1>2. O \in {Hear(B, ip), sgSerialSend(B, p), B}
  BY DEF Handle, routerHandleHeartbeat
<1>3. Arrives(T, B, ip, PlaceOf(T, ip), NextOf(T, ip), <<>>)
  BY SetsOff
<1> HIDE DEF B
<1>4. Arrives(T, sgSerialSend(B, p), ip, PlaceOf(T, ip), NextOf(T, ip), <<>>)
  BY <1>3, SendsArrive
<1>5. PICK heard : /\ Calm(heard)
                   /\ Arrives(T, Hear(B, ip), ip, PlaceOf(T, ip), NextOf(T, ip), heard)
  BY <1>1, <1>3, HearArrives
<1>6. Calm(<<>>)
  BY DEF Calm
<1>7. PICK enqueued : /\ Calm(enqueued)
                      /\ Arrives(T, O, ip, PlaceOf(T, ip), NextOf(T, ip), enqueued)
  BY <1>2, <1>3, <1>4, <1>5, <1>6
<1>8. Unmoved(T, O.table)
  BY <1>7 DEF Arrives, Moved, Unmoved
<1>9. Yields(O, O.table, enqueued, 0)
  BY <1>7 DEF Arrives
<1>10. O.exit = 0
  BY <1>9, OutcomeFields
<1>11. p.kind \notin Sequence
  BY DEF Sequence
<1> QED
  BY <1>7, <1>8, <1>9, <1>10, <1>11 DEF Idle

(* What is only passed on.                                                 *)
LEMMA Relayed ==
  ASSUME NEW T, Legal(T), NEW p, p.kind \in {"SERVSTATUS", "FLYING"},
         NEW garbage, NEW O, O = Handle(Begin(T), p, garbage)
  PROVE  Idle(T, O, p) /\ O.exit # -1
<1>1. O \in {sgTCPSend(Begin(T), p), sgSerialSend(Begin(T), p)}
  BY DEF Handle, routerHandleServerStatus, routerHandleFly
<1>2. Yields(O, T, <<>>, 0)
  BY <1>1, BeginYields, SendsYield
<1>3. O.exit = 0
  BY <1>2, OutcomeFields
<1>4. p.kind \notin Sequence
  BY DEF Sequence
<1> QED
  BY <1>2, <1>3, <1>4 DEF Idle, Calm, Unmoved

(* An Eyeball begins the sequence, for a new device if there is room, for  *)
(* the one at the address of the header otherwise.                         *)
Joined(T, O, p) ==
  LET ip == AssignedIP(T, p.ip)
  IN  /\ p.kind = "EYEBALLING"
      /\ ip \in Indices
      /\ Legal(O.table)
      /\ Yields(O, O.table, <<>>, 0)
      /\ Occupied(T) \subseteq Occupied(O.table)
      /\ Occupied(O.table) \subseteq Occupied(T) \cup {ip}
      /\ \A i \in Occupied(O.table) :
           /\ i = ip => PlaceOf(O.table, i) = {"EYEBALLING"} /\ NextOf(O.table, i) = {"PECKING"}
           /\ i # ip => /\ PlaceOf(O.table, i) = PlaceOf(T, i)
                        /\ NextOf(O.table, i) = NextOf(T, i)

LEMMA EyeballHandled ==
  ASSUME NEW T, Legal(T), NEW p \in Packets, p.kind = "EYEBALLING",
         NEW garbage \in Garbage, NEW O, O = Handle(Begin(T), p, garbage)
  PROVE  Joined(T, O, p)
<1> DEFINE ip == AssignedIP(T, p.ip)
           A  == routingTableAssignIP(T, garbage)
           J  == SetTable(Begin(T), A)
           C  == SetCurrent(J, ip, "EYEBALLING")
           D  == SetNext(C, ip, {"PECKING"})
<1>1. Begin(T).table = T
  BY DEF Begin
<1>2. \E q : O = sgTCPSend(D, q)
  BY <1>1, Zenon DEF Handle, routerHandleEyeball
<1>3. p.ip \in Indices
  BY PacketFacts
<1>4. /\ Legal(A) /\ ip \in Indices
      /\ Occupied(T) \subseteq Occupied(A) /\ Occupied(A) \subseteq Occupied(T) \cup {ip}
      /\ \A i \in Occupied(T) : A.routing_table[i] = T.routing_table[i]
  <2>1. CASE tableChkFull(T)
    BY <1>3, <2>1 DEF routingTableAssignIP, AssignedIP
  <2>2. CASE ~ tableChkFull(T)
    <3>1. ip = NextSlot(T)
      BY <2>2 DEF AssignedIP
    <3>2. Sensors \subseteq Indices
      BY DEF Sensors, Indices
    <3> QED
      BY <2>2, <3>1, <3>2, AssignBlank
  <2> QED
    BY <2>1, <2>2
<1>5. "EYEBALLING" \in Statuses /\ {"PECKING"} \in SUBSET Statuses
  BY DEF Statuses
<1>6. Yields(J, A, <<>>, 0)
  BY BeginYields, SettersYield
<1> HIDE DEF ip, A, J
<1>7. Arrives(A, J, ip, PlaceOf(A, ip), NextOf(A, ip), <<>>)
  <2>1. J.table = A
    BY <1>6, OutcomeFields
  <2>2. Moved(A, A, ip, PlaceOf(A, ip), NextOf(A, ip))
    BY <1>4 DEF Moved
  <2> QED
    BY <1>6, <2>1, <2>2 DEF Arrives
<1>8. Arrives(A, C, ip, {"EYEBALLING"}, NextOf(A, ip), <<>>)
  BY <1>4, <1>5, <1>7, SetCurrentArrives
<1> HIDE DEF C
<1>9. Arrives(A, D, ip, {"EYEBALLING"}, {"PECKING"}, <<>>)
  BY <1>4, <1>5, <1>8, SetNextArrives
<1> HIDE DEF D
<1>10. Arrives(A, O, ip, {"EYEBALLING"}, {"PECKING"}, <<>>)
  BY <1>2, <1>9, SendsArrive
<1>11. /\ Legal(O.table) /\ Occupied(O.table) = Occupied(A) /\ Yields(O, O.table, <<>>, 0)
       /\ \A i \in Occupied(A) :
            /\ PlaceOf(O.table, i) = IF i = ip THEN {"EYEBALLING"} ELSE PlaceOf(A, i)
            /\ NextOf(O.table, i)  = IF i = ip THEN {"PECKING"} ELSE NextOf(A, i)
  BY <1>10 DEF Arrives, Moved
<1>12. \A i \in Occupied(O.table) :
         i # ip => PlaceOf(A, i) = PlaceOf(T, i) /\ NextOf(A, i) = NextOf(T, i)
  BY <1>4, <1>11 DEF PlaceOf, NextOf
<1> QED
  BY <1>4, <1>11, <1>12 DEF Joined, ip

-----------------------------------------------------------------------------
(* The dispatch thread.                                                    *)

Steered(T, O, p) ==
  /\ Steers(p) /\ Admitted(T, p)
  /\ \E enqueued : /\ Calm(enqueued)
                   /\ Arrives(T, O, About(p), {p.kind}, NextAfter(p), enqueued)

(* A packet is rejected untouched, or has one of four kinds of outcome.    *)
LEMMA HandleOutcome ==
  ASSUME NEW T, Legal(T), Router \in Occupied(T), NEW p \in Packets,
         NEW garbage \in Garbage, NEW O, O = Handle(Begin(T), p, garbage)
  PROVE  \/ O = Returns(Begin(T), -1) /\ p.kind # "EYEBALLING"
         \/ /\ O.exit # -1
            /\ Steered(T, O, p) \/ Chirped(T, O, p) \/ Joined(T, O, p) \/ Idle(T, O, p)
<1>1. p.kind \in DOMAIN Whats \ {"HATCHING"} /\ About(p) \in Indices
  BY PacketFacts
<1>2. CASE Steers(p)
  <2>1. CASE Admitted(T, p)
    <3>1. Steered(T, O, p)
      BY <1>1, <1>2, <2>1, StepTaken DEF Steered
    <3>2. O.exit = 0
      BY <3>1, OutcomeFields DEF Steered, Arrives
    <3> QED
      BY <3>1, <3>2
  <2>2. CASE ~ Admitted(T, p)
    BY <1>1, <1>2, <2>2, StepTaken DEF Steers
  <2> QED
    BY <2>1, <2>2
<1>3. CASE p.kind = "PECKING" /\ ~ Steers(p)
  BY <1>3, PeckRefused
<1>4. CASE p.kind = "CHIRPING"
  <2>1. Chirped(T, O, p) => O.exit = 0
    BY OutcomeFields DEF Chirped, Arrives
  <2> QED
    BY <1>4, <2>1, ChirpHandled
<1>5. CASE p.kind = "HEARTBEAT"
  BY <1>5, HeartbeatHandled
<1>6. CASE p.kind \in {"SERVSTATUS", "FLYING"}
  BY <1>6, Relayed
<1>7. CASE p.kind = "EYEBALLING"
  <2>1. Joined(T, O, p)
    BY <1>7, EyeballHandled
  <2>2. O.exit = 0
    BY <2>1, OutcomeFields DEF Joined
  <2> QED
    BY <2>1, <2>2
<1> QED
  BY <1>1, <1>2, <1>3, <1>4, <1>5, <1>6, <1>7 DEF Whats, Steers

(* A rejected packet costs at most the device of its header its place.     *)
Rejected(T, O, p) ==
  LET gone == IF T.default_strictness = "STRICT" THEN {p.ip} \cap Sensors ELSE {}
  IN  /\ p.kind # "EYEBALLING"
      /\ \E U :
             /\ Yields(O, U, <<>>, -1)
             /\ Unmoved(T, U)
             /\ Occupied(U) = Occupied(T) \ gone
             /\ \A i \in Occupied(U) : U.routing_table[i] = T.routing_table[i]

LEMMA DispatchedOutcome ==
  ASSUME NEW T, Legal(T), Router \in Occupied(T), NEW p \in Packets,
         NEW garbage \in Garbage, NEW O, O = Dispatched(T, p, garbage)
  PROVE  \/ Rejected(T, O, p)
         \/ /\ O.exit # -1
            /\ Steered(T, O, p) \/ Chirped(T, O, p) \/ Joined(T, O, p) \/ Idle(T, O, p)
<1> DEFINE H  == Handle(Begin(T), p, garbage)
           ip == p.ip
<1>1. \/ H = Returns(Begin(T), -1) /\ p.kind # "EYEBALLING"
      \/ /\ H.exit # -1
         /\ Steered(T, H, p) \/ Chirped(T, H, p) \/ Joined(T, H, p) \/ Idle(T, H, p)
  BY HandleOutcome
<1>2. O = IF H.exit = -1 /\ H.table.default_strictness = "STRICT"
          THEN routerFreeDevice(H, ip) ELSE H
  BY DEF Dispatched
<1> HIDE DEF H
<1>3. CASE H = Returns(Begin(T), -1) /\ p.kind # "EYEBALLING"
  <2>1. Yields(H, T, <<>>, -1)
    BY <1>3, BeginYields, SettersYield
  <2>2. H.exit = -1 /\ H.table = T
    BY <2>1, OutcomeFields
  <2>3. CASE T.default_strictness = "STRICT"
    <3>1. O = routerFreeDevice(H, ip) /\ ip \in Addresses
      BY <1>2, <2>2, <2>3, PacketFacts
    <3> DEFINE F == routerFreeDevice(H, ip)
    <3>2. PICK U : /\ Yields(F, U, <<>>, -1)
                   /\ Unmoved(T, U)
                   /\ Occupied(T) \ {ip} \subseteq Occupied(U)
                   /\ \A i \in Occupied(U) : U.routing_table[i] = T.routing_table[i]
                   /\ Router \in Occupied(T) /\ ip \in Sensors => ip \notin Occupied(U)
      <4> HIDE DEF ip
      <4> QED
        BY <2>1, <3>1, FreeDeviceYields
    <3> HIDE DEF F
    <3>3. Occupied(U) = Occupied(T) \ ({ip} \cap Sensors)
      BY <3>2 DEF Unmoved, Legal, Unreserved
    <3> QED
      BY <1>3, <2>3, <3>1, <3>2, <3>3 DEF Rejected, F
  <2>4. CASE T.default_strictness # "STRICT"
    <3>1. O = H
      BY <1>2, <2>2, <2>4
    <3>2. Unmoved(T, T)
      BY DEF Unmoved
    <3> QED
      BY <1>3, <2>1, <2>4, <3>1, <3>2 DEF Rejected
  <2> QED
    BY <2>3, <2>4
<1>4. CASE /\ H.exit # -1
           /\ Steered(T, H, p) \/ Chirped(T, H, p) \/ Joined(T, H, p) \/ Idle(T, H, p)
  BY <1>2, <1>4
<1> QED
  BY <1>1, <1>3, <1>4

-----------------------------------------------------------------------------
(* The inductive invariant: what the table expects next of a device is     *)
(* what the steps the device was taken through entitle it to.              *)

EarnedAt(T, i, steps) ==
  "LOOSE" \notin steps =>
    /\ "SINGING"    \in NextOf(T, i) => "MATE" \in steps
    /\ "MOCKING"    \in NextOf(T, i) => "SINGING" \in steps
    /\ "PEACOCKING" \in NextOf(T, i) => "MOCKING" \in steps
    /\ "SQUAWKING"  \in NextOf(T, i) => "RECOGNIZED" \in steps
    /\ "NESTING"    \in NextOf(T, i) => "PEACOCKED" \in steps \/ "PROVED" \in steps

OrderAt(steps) ==
  "LOOSE" \notin steps =>
    \A step \in steps : \E before \in Requires(step) : before \subseteq steps

(* A sensor that was nested or has chirped is leased.                      *)
SettledAt(T, i) ==
  i # Router /\ PlaceOf(T, i) \in {{"NESTING"}, {"CHIRPING"}} => NextOf(T, i) = {"LEASED"}

GoodAt(T, i, steps) == EarnedAt(T, i, steps) /\ OrderAt(steps) /\ SettledAt(T, i)

Good(T, tr) ==
  /\ Legal(T)
  /\ \A i \in Indices : tr[i] # {} => i \in Occupied(T) \ {Router}
  /\ \A i \in Occupied(T) : GoodAt(T, i, tr[i])

IInv ==
  /\ Good(table, trail)
  /\ hatching \in BOOLEAN
  /\ hatching => Occupied(table) = {}
  /\ ~ hatching => Router \in Occupied(table)

(* Outside of loose mode only a packet that is expected is admitted.       *)
LEMMA AdmittedExpected ==
  ASSUME Legal(table), NEW p, About(p) \in Indices, Admitted(table, p), Steers(p),
         "LOOSE" \notin Steps(p)
  PROVE  p.kind \in NextOf(table, About(p))
<1> DEFINE i    == About(p)
           auth == table.routing_table[i].auth
<1>1. i \in Occupied(table) \cap Sensors
  BY AdmittedSensor
<1>2. Node(table, i) = table.routing_table[i]
  BY OccupiedTracked
<1>3. auth.strictness = table.default_strictness /\ auth.strictness \in Strictnesses
  BY <1>1 DEF Legal, Uniform, Tables
<1>4. table.default_strictness # "LOOSE"
  BY DEF Steps, Steers, Sequence
<1>5. deviceAuthIsGeneralPayloadTypeValid(auth, {p.kind}) > 0
  <2>1. ~ (0 > 0) /\ ~ (-1 > 0)
    OBVIOUS
  <2> QED
    BY <1>2, <2>1 DEF Admitted, routingTableCheckValidPacket
<1>6. Expected(auth, {p.kind})
  <2>1. ~ (0 > 0) /\ ~ (-1 > 0)
    OBVIOUS
  <2> QED
    BY <1>3, <1>4, <1>5, <2>1 DEF deviceAuthIsGeneralPayloadTypeValid, Strictnesses
<1>7. p.kind \notin {"CHIRPING", "HEARTBEAT"}
  BY DEF Steers
<1> QED
  BY <1>6, <1>7 DEF Expected, NextOf

LEMMA StepsFacts ==
  ASSUME NEW p
  PROVE  /\ p.kind \notin Sequence => Steps(p) = {}
         /\ "LOOSE" \notin Steps(p) => Steps(p) = StepOf(p)
BY DEF Steps, StepOf, Sequence

(* A step whose predecessors were taken may be added.                      *)
LEMMA OrderExtends ==
  ASSUME NEW steps, OrderAt(steps), NEW step, NEW before \in Requires(step),
         before \subseteq steps
  PROVE  OrderAt(steps \cup {step})
BY DEF OrderAt

(* A packet that was expected may be handled: its step is in order, and    *)
(* earns what is expected after it.                                        *)
LEMMA StepEarned ==
  ASSUME NEW T, NEW U, NEW p, Steers(p), p.what \in Whats[p.kind],
         NEW i, NEW steps, "LOOSE" \notin steps,
         EarnedAt(T, i, steps), OrderAt(steps),
         p.kind \in NextOf(T, i), NextOf(U, i) = NextAfter(p)
  PROVE  /\ EarnedAt(U, i, steps \cup StepOf(p))
         /\ OrderAt(steps \cup StepOf(p))
<1>1. steps \cup {} = steps
  OBVIOUS
<1>2. CASE p.kind = "PECKING" /\ p.what = "RECOGNIZED"
  <2>1. StepOf(p) = {"RECOGNIZED"} /\ NextOf(U, i) = {"SQUAWKING"}
    BY <1>2 DEF StepOf, NextAfter
  <2>2. {} \in Requires("RECOGNIZED")
    BY DEF Requires
  <2> QED
    BY <2>1, <2>2, OrderExtends DEF EarnedAt
<1>3. CASE p.kind = "PECKING" /\ p.what \in {"MATE", "SERVER_WAIT"}
  <2>1. StepOf(p) = {"MATE"} /\ NextOf(U, i) = {"SINGING"}
    BY <1>3 DEF StepOf, NextAfter
  <2>2. {} \in Requires("MATE")
    BY DEF Requires
  <2> QED
    BY <2>1, <2>2, OrderExtends DEF EarnedAt
<1>4. CASE p.kind = "SINGING"
  <2>1. StepOf(p) = {"SINGING"} /\ NextOf(U, i) = {"MOCKING"}
    BY <1>4 DEF StepOf, NextAfter
  <2>2. {"MATE"} \in Requires("SINGING") /\ {"MATE"} \subseteq steps
    BY <1>4 DEF Requires, EarnedAt
  <2> QED
    BY <2>1, <2>2, OrderExtends DEF EarnedAt
<1>5. CASE p.kind = "MOCKING"
  <2>1. StepOf(p) = {"MOCKING"} /\ NextOf(U, i) = {"PEACOCKING"}
    BY <1>5 DEF StepOf, NextAfter
  <2>2. {"SINGING"} \in Requires("MOCKING") /\ {"SINGING"} \subseteq steps
    BY <1>5 DEF Requires, EarnedAt
  <2> QED
    BY <2>1, <2>2, OrderExtends DEF EarnedAt
<1>6. CASE p.kind = "PEACOCKING"
  <2>1. p.what \in {"MORE", "DONE"}
    BY <1>6 DEF Whats
  <2>2. {"MOCKING"} \in Requires("PEACOCKED") /\ {"MOCKING"} \subseteq steps
    BY <1>6 DEF Requires, EarnedAt
  <2>3. CASE p.what = "MORE"
    <3>1. StepOf(p) = {} /\ NextOf(U, i) = {"PEACOCKING"}
      BY <1>6, <2>3 DEF StepOf, NextAfter
    <3> QED
      BY <1>1, <2>2, <3>1 DEF EarnedAt
  <2>4. CASE p.what = "DONE"
    <3>1. StepOf(p) = {"PEACOCKED"} /\ NextOf(U, i) = {"NESTING"}
      BY <1>6, <2>4 DEF StepOf, NextAfter
    <3> QED
      BY <2>2, <3>1, OrderExtends DEF EarnedAt
  <2> QED
    BY <2>1, <2>3, <2>4
<1>7. CASE p.kind = "NESTING"
  <2>1. StepOf(p) = {"NESTING"} /\ NextOf(U, i) = {"LEASED"}
    BY <1>7 DEF StepOf, NextAfter
  <2>2. PICK before \in Requires("NESTING") : before \subseteq steps
    BY <1>7 DEF Requires, EarnedAt
  <2> QED
    BY <2>1, <2>2, OrderExtends DEF EarnedAt
<1>8. CASE p.kind = "SQUAWKING"
  <2>1. {"RECOGNIZED"} \in Requires("PROVED") /\ {"RECOGNIZED"} \subseteq steps
    BY <1>8 DEF Requires, EarnedAt
  <2>2. CASE p.what \in {"ACCEPT", "RESPOND_NO_REQUIRE"}
    <3>1. StepOf(p) = {"PROVED"} /\ NextOf(U, i) \subseteq {"SQUAWKING", "NESTING"}
      BY <1>8, <2>2 DEF StepOf, NextAfter, AfterSquawk
    <3> QED
      BY <2>1, <3>1, OrderExtends DEF EarnedAt
  <2>3. CASE p.what \notin {"ACCEPT", "RESPOND_NO_REQUIRE"}
    <3>1. StepOf(p) = {} /\ NextOf(U, i) = {"SQUAWKING"}
      BY <1>8, <2>3 DEF StepOf, NextAfter, AfterSquawk
    <3> QED
      BY <1>1, <2>1, <3>1 DEF EarnedAt
  <2> QED
    BY <2>2, <2>3
<1> QED
  BY <1>2, <1>3, <1>4, <1>5, <1>6, <1>7, <1>8 DEF Steers

LEMMA TrailAt ==
  ASSUME NEW O, NEW p, NEW i \in Indices
  PROVE  /\ i \notin Occupied(O.table) => Trail(O, p)[i] = {}
         /\ i \in Occupied(O.table) /\ p.kind = "EYEBALLING" =>
              Trail(O, p)[i] = IF i = AssignedIP(table, p.ip) THEN {} ELSE trail[i]
         /\ i \in Occupied(O.table) /\ p.kind # "EYEBALLING" =>
              Trail(O, p)[i] = IF i = About(p) /\ O.exit = 0
                               THEN trail[i] \cup Steps(p) ELSE trail[i]
BY DEF Trail, Accepted

-----------------------------------------------------------------------------
(* Every step keeps the invariant.                                         *)

(* Devices that leave or stay as they are.                                 *)
LEMMA UnmovedGood ==
  ASSUME Good(table, trail), NEW O, NEW p, Unmoved(table, O.table),
         p.kind # "EYEBALLING",
         O.exit = 0 /\ About(p) \in Occupied(O.table) => Steps(p) = {}
  PROVE  Good(O.table, Trail(O, p))
<1>1. Legal(O.table)
  BY DEF Unmoved
<1>2. ASSUME NEW i \in Indices
      PROVE  Trail(O, p)[i] = IF i \in Occupied(O.table) THEN trail[i] ELSE {}
  <2>1. trail[i] \cup {} = trail[i]
    OBVIOUS
  <2>2. CASE i \in Occupied(O.table)
    <3>1. Trail(O, p)[i] = IF i = About(p) /\ O.exit = 0
                           THEN trail[i] \cup Steps(p) ELSE trail[i]
      BY <2>2, TrailAt
    <3> QED
      BY <2>1, <2>2, <3>1
  <2>3. CASE i \notin Occupied(O.table)
    BY <2>3, TrailAt
  <2> QED
    BY <2>2, <2>3
<1>3. ASSUME NEW i \in Indices, Trail(O, p)[i] # {}
      PROVE  i \in Occupied(O.table) \ {Router}
  BY <1>2, <1>3 DEF Good
<1>4. ASSUME NEW i \in Occupied(O.table)
      PROVE  GoodAt(O.table, i, Trail(O, p)[i])
  <2>1. i \in Occupied(table) /\ i \in Indices
    BY <1>4 DEF Unmoved, Occupied
  <2>2. Trail(O, p)[i] = trail[i]
    BY <1>2, <1>4, <2>1
  <2>3. GoodAt(table, i, trail[i])
    BY <2>1 DEF Good
  <2> QED
    BY <1>4, <2>2, <2>3 DEF GoodAt, EarnedAt, SettledAt, Unmoved
<1> QED
  BY <1>1, <1>3, <1>4 DEF Good

(* One device that is taken to another place.                              *)
LEMMA MovedGood ==
  ASSUME Good(table, trail), NEW O, NEW p, About(p) \in Indices, O.exit = 0,
         p.kind # "EYEBALLING", NEW place, NEW next,
         Moved(table, O.table, About(p), place, next),
         About(p) \in Occupied(table) =>
           GoodAt(O.table, About(p), trail[About(p)] \cup Steps(p)),
         Steps(p) # {} => About(p) \in Occupied(table) \ {Router}
  PROVE  Good(O.table, Trail(O, p))
<1> DEFINE ip == About(p)
<1>1. Legal(O.table) /\ Occupied(O.table) = Occupied(table)
  BY DEF Moved
<1>2. ASSUME NEW i \in Occupied(table)
      PROVE  Trail(O, p)[i] = IF i = ip THEN trail[i] \cup Steps(p) ELSE trail[i]
  BY <1>1, TrailAt DEF Occupied
<1>3. ASSUME NEW i \in Indices, Trail(O, p)[i] # {}
      PROVE  i \in Occupied(O.table) \ {Router}
  <2>1. i \in Occupied(table)
    BY <1>1, <1>3, TrailAt
  <2>2. trail[i] # {} \/ (i = ip /\ Steps(p) # {})
    BY <1>2, <1>3, <2>1
  <2> QED
    BY <1>1, <2>2 DEF Good
<1>4. ASSUME NEW i \in Occupied(table)
      PROVE  GoodAt(O.table, i, Trail(O, p)[i])
  <2>1. CASE i = ip
    BY <1>2, <2>1
  <2>2. CASE i # ip
    <3>1. Trail(O, p)[i] = trail[i] /\ GoodAt(table, i, trail[i])
      BY <1>2, <2>2 DEF Good
    <3> QED
      BY <2>2, <3>1 DEF GoodAt, EarnedAt, SettledAt, Moved
  <2> QED
    BY <2>1, <2>2
<1> QED
  BY <1>1, <1>3, <1>4 DEF Good

LEMMA SteeredGood ==
  ASSUME Good(table, trail), NEW p \in Packets, NEW O, Steered(table, O, p)
  PROVE  Good(O.table, Trail(O, p)) /\ Occupied(O.table) = Occupied(table)
<1> DEFINE i     == About(p)
           steps == trail[i]
<1>1. PICK enqueued : Arrives(table, O, i, {p.kind}, NextAfter(p), enqueued)
  BY DEF Steered
<1>2. Moved(table, O.table, i, {p.kind}, NextAfter(p)) /\ O.exit = 0
  BY <1>1, OutcomeFields DEF Arrives
<1>3. Legal(table) /\ i \in Indices /\ p.what \in Whats[p.kind]
  BY PacketFacts DEF Good
<1>4. Steers(p) /\ Admitted(table, p)
  BY DEF Steered
<1>5. i \in Occupied(table) /\ i \in Sensors /\ i # Router
  BY <1>3, <1>4, AdmittedSensor DEF Sensors, Router
<1>6. GoodAt(table, i, steps)
  BY <1>5 DEF Good
<1>7. PlaceOf(O.table, i) = {p.kind} /\ NextOf(O.table, i) = NextAfter(p)
  BY <1>2, <1>5 DEF Moved
<1>8. EarnedAt(O.table, i, steps \cup Steps(p)) /\ OrderAt(steps \cup Steps(p))
  <2>1. CASE "LOOSE" \in steps \cup Steps(p)
    BY <2>1 DEF EarnedAt, OrderAt
  <2>2. CASE "LOOSE" \notin steps \cup Steps(p)
    <3>1. Steps(p) = StepOf(p)
      BY <2>2, StepsFacts
    <3>2. p.kind \in NextOf(table, i)
      BY <1>3, <1>4, <2>2, AdmittedExpected
    <3> HIDE DEF i, steps
    <3> QED
      BY <1>3, <1>4, <1>6, <1>7, <2>2, <3>1, <3>2, StepEarned DEF GoodAt
  <2> QED
    BY <2>1, <2>2
<1>9. SettledAt(O.table, i)
  BY <1>4, <1>7 DEF SettledAt, NextAfter, Steers
<1>10. p.kind # "EYEBALLING"
  BY <1>4 DEF Steers
<1>11. Good(O.table, Trail(O, p))
  BY <1>2, <1>3, <1>5, <1>8, <1>9, <1>10, MovedGood DEF GoodAt
<1> QED
  BY <1>2, <1>11 DEF Moved

LEMMA ChirpedGood ==
  ASSUME Good(table, trail), NEW p \in Packets, NEW O, Chirped(table, O, p)
  PROVE  Good(O.table, Trail(O, p)) /\ Occupied(O.table) = Occupied(table)
<1> DEFINE i == About(p)
<1>1. PICK enqueued : Arrives(table, O, i, {"CHIRPING"}, {"LEASED"}, enqueued)
  BY DEF Chirped
<1>2. Moved(table, O.table, i, {"CHIRPING"}, {"LEASED"}) /\ O.exit = 0
  BY <1>1, OutcomeFields DEF Arrives
<1>3. i \in Indices
  BY PacketFacts
<1>4. Steps(p) = {} /\ p.kind # "EYEBALLING"
  BY StepsFacts DEF Chirped, Sequence
<1>5. ASSUME i \in Occupied(table) PROVE GoodAt(O.table, i, trail[i])
  <2>1. NextOf(O.table, i) = {"LEASED"}
    BY <1>2, <1>5 DEF Moved
  <2>2. OrderAt(trail[i])
    BY <1>5 DEF Good, GoodAt
  <2> QED
    BY <2>1, <2>2 DEF GoodAt, EarnedAt, SettledAt
<1>6. trail[i] \cup Steps(p) = trail[i]
  BY <1>4
<1>7. Good(O.table, Trail(O, p))
  BY <1>2, <1>3, <1>4, <1>5, <1>6, MovedGood
<1> QED
  BY <1>2, <1>7 DEF Moved

LEMMA JoinedGood ==
  ASSUME Good(table, trail), NEW p \in Packets, NEW O, Joined(table, O, p)
  PROVE  Good(O.table, Trail(O, p)) /\ Occupied(table) \subseteq Occupied(O.table)
<1> DEFINE ip == AssignedIP(table, p.ip)
<1>1. p.kind = "EYEBALLING" /\ Legal(O.table) /\ Occupied(table) \subseteq Occupied(O.table)
  BY DEF Joined
<1>2. ASSUME NEW i \in Occupied(O.table)
      PROVE  Trail(O, p)[i] = IF i = ip THEN {} ELSE trail[i]
  BY <1>1, TrailAt DEF Occupied
<1>3. ASSUME NEW i \in Indices, Trail(O, p)[i] # {}
      PROVE  i \in Occupied(O.table) \ {Router}
  <2>1. i \in Occupied(O.table)
    BY <1>3, TrailAt
  <2> QED
    BY <1>2, <1>3, <2>1 DEF Good
<1>4. ASSUME NEW i \in Occupied(O.table)
      PROVE  GoodAt(O.table, i, Trail(O, p)[i])
  <2>1. CASE i = ip
    <3>1. Trail(O, p)[i] = {}
      BY <1>2, <2>1
    <3>2. PlaceOf(O.table, i) = {"EYEBALLING"} /\ NextOf(O.table, i) = {"PECKING"}
      BY <2>1 DEF Joined
    <3> QED
      BY <3>1, <3>2 DEF GoodAt, EarnedAt, OrderAt, SettledAt
  <2>2. CASE i # ip
    <3>1. i \in Occupied(table) /\ Trail(O, p)[i] = trail[i]
      BY <1>2, <2>2 DEF Joined
    <3>2. GoodAt(table, i, trail[i])
      BY <3>1 DEF Good
    <3>3. PlaceOf(O.table, i) = PlaceOf(table, i) /\ NextOf(O.table, i) = NextOf(table, i)
      BY <2>2 DEF Joined
    <3> QED
      BY <3>1, <3>2, <3>3 DEF GoodAt, EarnedAt, SettledAt
  <2> QED
    BY <2>1, <2>2
<1> QED
  BY <1>1, <1>3, <1>4 DEF Good

LEMMA IdleGood ==
  ASSUME Good(table, trail), NEW p, NEW O, Idle(table, O, p)
  PROVE  Good(O.table, Trail(O, p)) /\ Unmoved(table, O.table)
<1>1. PICK U, enqueued, exit :
        /\ Yields(O, U, enqueued, exit)
        /\ Unmoved(table, U)
        /\ exit = 0 /\ About(p) \in Occupied(U) => p.kind \notin Sequence
  BY DEF Idle
<1>2. O.table = U /\ O.exit = exit
  BY <1>1, OutcomeFields
<1>3. O.exit = 0 /\ About(p) \in Occupied(O.table) => Steps(p) = {}
  BY <1>1, <1>2, StepsFacts
<1>4. Unmoved(table, O.table) /\ p.kind # "EYEBALLING"
  BY <1>1, <1>2 DEF Idle
<1> QED
  BY <1>3, <1>4, UnmovedGood

LEMMA RejectedGood ==
  ASSUME Good(table, trail), NEW p, NEW O, Rejected(table, O, p)
  PROVE  Good(O.table, Trail(O, p)) /\ Unmoved(table, O.table)
<1>1. PICK U : Yields(O, U, <<>>, -1) /\ Unmoved(table, U)
  BY DEF Rejected
<1>2. O.table = U /\ O.exit = -1
  BY <1>1, OutcomeFields
<1>3. -1 # 0
  OBVIOUS
<1>4. Unmoved(table, O.table) /\ p.kind # "EYEBALLING"
  BY <1>1, <1>2 DEF Rejected
<1> QED
  BY <1>2, <1>3, <1>4, UnmovedGood

(* The heartbeat thread may lose the device it pings, and tells of no      *)
(* other.                                                                  *)
LEMMA HeartbeatTurnYields ==
  ASSUME NEW T, Legal(T), NEW ip \in Indices
  PROVE  \E U, enqueued :
           /\ Yields(HeartbeatTurn(T, ip), U, enqueued, 0)
           /\ Unmoved(T, U)
           /\ \A k \in DOMAIN enqueued :
                /\ enqueued[k].what = "lost" => enqueued[k].ip = ip
                /\ enqueued[k].what # "online"
<1> DEFINE pinged  == routingTableHeartbeatDevice(T, ip)
           lost    == routingTableIsDeviceLost(pinged, ip) # 0
           ping    == Packet("HEARTBEAT", "TO_SENSOR", ip, 0)
           O       == IF routingTableIsDeviceLost(T, ip) = 0
                      THEN queueEnqueue(Begin(T), ping) ELSE Begin(T)
           notice  == Packet("SERVSTATUS", IF lost THEN "lost" ELSE "stale", ip, 0)
           told    == SetTable(O, pinged)
           noticed == queueEnqueue(told, notice)
           Tells(enqueued) ==
             \A k \in DOMAIN enqueued :
               /\ enqueued[k].what = "lost" => enqueued[k].ip = ip
               /\ enqueued[k].what # "online"
<1>1. Moved(T, pinged, ip, PlaceOf(T, ip), NextOf(T, ip))
  BY HealthMoves
<1>2. Unmoved(T, pinged) /\ Legal(pinged)
  BY <1>1 DEF Moved, Unmoved
<1>3. ping.what = "TO_SENSOR" /\ notice.ip = ip /\ notice.what \in {"lost", "stale"}
  BY DEF Packet
<1>4. HeartbeatTurn(T, ip) \in {told, noticed, routerFreeDevice(noticed, ip)}
  BY DEF HeartbeatTurn
<1> HIDE DEF pinged, ping, notice
<1>5. PICK sent \in {<<>>, <<ping>>} : Yields(O, T, sent, 0)
  <2>1. Yields(Begin(T), T, <<>>, 0)
    BY BeginYields
  <2>2. Yields(queueEnqueue(Begin(T), ping), T, Append(<<>>, ping), 0)
    BY <2>1, SettersYield
  <2>3. Append(<<>>, ping) = <<ping>>
    OBVIOUS
  <2>4. Yields(queueEnqueue(Begin(T), ping), T, <<ping>>, 0)
    BY <2>2, <2>3
  <2> QED
    BY <2>1, <2>4
<1>6. Yields(told, pinged, sent, 0)
  BY <1>5, SettersYield
<1> HIDE DEF told
<1>7. Yields(noticed, pinged, Append(sent, notice), 0)
  BY <1>6, SettersYield
<1> HIDE DEF noticed
<1>8. Tells(sent) /\ Tells(Append(sent, notice))
  <2>1. \A k \in DOMAIN sent : sent[k] = ping
    BY <1>5
  <2>2. \A k \in DOMAIN Append(sent, notice) : Append(sent, notice)[k] \in {ping, notice}
    <3>1. \A k \in DOMAIN Append(<<>>, notice) : Append(<<>>, notice)[k] \in {ping, notice}
      OBVIOUS
    <3>2. \A k \in DOMAIN Append(<<ping>>, notice) :
            Append(<<ping>>, notice)[k] \in {ping, notice}
      OBVIOUS
    <3> QED
      BY <1>5, <3>1, <3>2
  <2> QED
    BY <1>3, <2>1, <2>2
<1> HIDE DEF Tells
<1>9. CASE HeartbeatTurn(T, ip) = told
  BY <1>2, <1>6, <1>8, <1>9 DEF Tells
<1>10. CASE HeartbeatTurn(T, ip) = noticed
  BY <1>2, <1>7, <1>8, <1>10 DEF Tells
<1>11. CASE HeartbeatTurn(T, ip) = routerFreeDevice(noticed, ip)
  <2>1. ip \in Addresses
    BY DEF Indices, Addresses
  <2>2. PICK U : /\ Yields(routerFreeDevice(noticed, ip), U, Append(sent, notice), 0)
                 /\ Unmoved(pinged, U)
    BY <1>2, <1>7, <2>1, FreeDeviceYields
  <2>3. Unmoved(T, U)
    BY <1>2, <2>2 DEF Unmoved
  <2> QED
    BY <1>8, <1>11, <2>2, <2>3 DEF Tells
<1> QED
  BY <1>4, <1>9, <1>10, <1>11

(* The steps that are not the dispatch thread's carry no packet.           *)
LEMMA NoPacketGood ==
  ASSUME Good(table, trail), NEW O, Unmoved(table, O.table)
  PROVE  Good(O.table, Trail(O, NoPacket))
<1>1. NoPacket.kind = "HEARTBEAT"
  BY DEF NoPacket, Packet
<1>2. Steps(NoPacket) = {} /\ NoPacket.kind # "EYEBALLING"
  BY <1>1, StepsFacts DEF Sequence
<1> QED
  BY <1>2, UnmovedGood

LEMMA RdidAddress ==
  ASSUME NEW T, NEW rdid \in Rdids
  PROVE  routingTableRDIDToIP(T, rdid) \in Addresses
<1> DEFINE found == {i \in Occupied(T) : T.routing_table[i].rdid = rdid}
<1>1. found # {} => Min(found) \in found
  <2>1. found \in SUBSET Nat
    BY DEF Occupied, Indices
  <2> HIDE DEF found
  <2> QED
    BY <2>1, MinOfNaturals
<1>2. rdid % N \in Addresses
  BY DEF Rdids, Addresses
<1>3. Indices \subseteq Addresses
  BY DEF Indices, Addresses
<1> QED
  BY <1>1, <1>2, <1>3 DEF routingTableRDIDToIP, Occupied

(* What a step that is not the dispatch thread's may do.                   *)
LEMMA OtherThreads ==
  ASSUME Good(table, trail), Heartbeat \/ DropDevice \/ DropAll \/ SetAuthLevel
  PROVE  /\ Good(table', trail') /\ Unmoved(table, table')
         /\ outcome'.exit = 0
         /\ \A k \in DOMAIN outcome'.enqueued :
              /\ outcome'.enqueued[k].what = "lost" =>
                   Pings(table, outcome'.enqueued[k].ip)
              /\ outcome'.enqueued[k].what # "online"
<1> DEFINE Tells(enqueued) ==
             \A k \in DOMAIN enqueued :
               /\ enqueued[k].what = "lost" => Pings(table, enqueued[k].ip)
               /\ enqueued[k].what # "online"
<1>1. Legal(table)
  BY DEF Good
<1>2. Tells(<<>>)
  OBVIOUS
<1>3. ASSUME NEW O, NEW U, NEW enqueued, Yields(O, U, enqueued, 0), Unmoved(table, U),
             Tells(enqueued), Becomes(O, NoPacket)
      PROVE  /\ Good(table', trail') /\ Unmoved(table, table')
             /\ outcome'.exit = 0
             /\ Tells(outcome'.enqueued)
  <2> HIDE DEF Tells
  <2>1. O.table = U /\ O.enqueued = enqueued /\ O.exit = 0
    BY <1>3, OutcomeFields
  <2>2. Good(O.table, Trail(O, NoPacket))
    BY <1>3, <2>1, NoPacketGood
  <2> QED
    BY <1>3, <2>1, <2>2 DEF Becomes
<1>4. CASE Heartbeat
  <2>1. PICK ip \in {Router} \cup Sensors :
          Pings(table, ip) /\ Becomes(HeartbeatTurn(table, ip), NoPacket)
    BY <1>4 DEF Heartbeat
  <2>2. ip \in Indices
    BY DEF Router, Sensors, Indices
  <2>3. PICK U, enqueued :
          /\ Yields(HeartbeatTurn(table, ip), U, enqueued, 0)
          /\ Unmoved(table, U)
          /\ \A k \in DOMAIN enqueued :
               /\ enqueued[k].what = "lost" => enqueued[k].ip = ip
               /\ enqueued[k].what # "online"
    BY <1>1, <2>2, HeartbeatTurnYields
  <2>4. Tells(enqueued)
    BY <2>1, <2>3
  <2> QED
    BY <1>3, <2>1, <2>3, <2>4
<1>5. CASE DropDevice
  <2>1. PICK rdid \in Rdids \ {0} :
          Becomes(routerFreeDevice(Begin(table), routingTableRDIDToIP(table, rdid)), NoPacket)
    BY <1>5 DEF DropDevice
  <2> DEFINE ip == routingTableRDIDToIP(table, rdid)
  <2>2. ip \in Addresses
    BY RdidAddress
  <2>3. Yields(Begin(table), table, <<>>, 0)
    BY BeginYields
  <2> HIDE DEF ip
  <2>4. PICK U : Yields(routerFreeDevice(Begin(table), ip), U, <<>>, 0) /\ Unmoved(table, U)
    BY <1>1, <2>2, <2>3, FreeDeviceYields
  <2> QED
    BY <1>2, <1>3, <2>1, <2>4 DEF ip
<1>6. CASE DropAll
  <2>1. Becomes(routerFreeAllDevices(Begin(table)), NoPacket)
    BY <1>6 DEF DropAll
  <2>2. PICK U : /\ Yields(routerFreeAllDevices(Begin(table)), U, <<>>, 0)
                 /\ Unmoved(table, U)
    BY <1>1, BeginYields, FreeAllDevicesYield
  <2> QED
    BY <1>2, <1>3, <2>1, <2>2
<1>7. CASE SetAuthLevel
  <2>1. PICK level \in Strictnesses \ {"ERROR"} :
          Becomes(Begin(SetStrictness(table, level)), NoPacket)
    BY <1>7 DEF SetAuthLevel
  <2>2. /\ Yields(Begin(SetStrictness(table, level)), SetStrictness(table, level), <<>>, 0)
        /\ Unmoved(table, SetStrictness(table, level))
    BY <1>1, BeginYields, StrictnessUnmoved
  <2> QED
    BY <1>2, <1>3, <2>1, <2>2
<1> QED
  BY <1>4, <1>5, <1>6, <1>7

(* What the dispatch thread may do with a packet other than the Hatch.     *)
LEMMA DispatchSteps ==
  ASSUME IInv, Dispatch
  PROVE  /\ ~ hatching /\ hatching' = hatching
         /\ Good(table', trail')
         /\ Router \in Occupied(table')
         /\ Calm(outcome'.enqueued)
         /\ outcome'.exit = -1 => Rejected(table, outcome', handled')
         /\ table' = outcome'.table
<1>1. ~ hatching /\ hatching' = hatching /\ Good(table, trail) /\ Router \in Occupied(table)
  BY DEF IInv, Dispatch
<1>2. PICK p \in Packets, garbage \in Garbage : Becomes(Dispatched(table, p, garbage), p)
  BY DEF Dispatch
<1> DEFINE O == Dispatched(table, p, garbage)
<1>3. /\ table' = O.table /\ outcome' = O /\ handled' = p /\ trail' = Trail(O, p)
  BY <1>2 DEF Becomes
<1>4. Legal(table)
  BY <1>1 DEF Good
<1>5. \/ Rejected(table, O, p)
      \/ /\ O.exit # -1
         /\ Steered(table, O, p) \/ Chirped(table, O, p) \/ Joined(table, O, p)
            \/ Idle(table, O, p)
  BY <1>1, <1>4, DispatchedOutcome
<1> HIDE DEF O
<1>6. O.exit = -1 => Rejected(table, O, p)
  BY <1>5
<1>7. CASE Rejected(table, O, p)
  <2>1. Good(O.table, Trail(O, p)) /\ Unmoved(table, O.table)
    BY <1>1, <1>7, RejectedGood
  <2>2. O.enqueued = <<>>
    BY <1>7, OutcomeFields DEF Rejected
  <2> QED
    BY <1>1, <1>3, <1>6, <2>1, <2>2 DEF Calm, Unmoved
<1>8. CASE Steered(table, O, p)
  <2>1. Good(O.table, Trail(O, p)) /\ Occupied(O.table) = Occupied(table)
    BY <1>1, <1>8, SteeredGood
  <2>2. Calm(O.enqueued)
    BY <1>8, OutcomeFields DEF Steered, Arrives
  <2> QED
    BY <1>1, <1>3, <1>6, <2>1, <2>2
<1>9. CASE Chirped(table, O, p)
  <2>1. Good(O.table, Trail(O, p)) /\ Occupied(O.table) = Occupied(table)
    BY <1>1, <1>9, ChirpedGood
  <2>2. Calm(O.enqueued)
    BY <1>9, OutcomeFields DEF Chirped, Arrives
  <2> QED
    BY <1>1, <1>3, <1>6, <2>1, <2>2
<1>10. CASE Joined(table, O, p)
  <2>1. Good(O.table, Trail(O, p)) /\ Occupied(table) \subseteq Occupied(O.table)
    BY <1>1, <1>10, JoinedGood
  <2>2. O.enqueued = <<>>
    BY <1>10, OutcomeFields DEF Joined
  <2> QED
    BY <1>1, <1>3, <1>6, <2>1, <2>2 DEF Calm
<1>11. CASE Idle(table, O, p)
  <2>1. Good(O.table, Trail(O, p)) /\ Unmoved(table, O.table)
    BY <1>1, <1>11, IdleGood
  <2>2. Calm(O.enqueued)
    BY <1>11, OutcomeFields DEF Idle
  <2> QED
    BY <1>1, <1>3, <1>6, <2>1, <2>2 DEF Unmoved
<1> QED
  BY <1>5, <1>7, <1>8, <1>9, <1>10, <1>11

(* The Hatch puts the router into the empty table.                         *)
LEMMA HatchSteps ==
  ASSUME IInv, DispatchHatch
  PROVE  /\ hatching' = FALSE
         /\ Good(table', trail')
         /\ Router \in Occupied(table')
         /\ outcome'.enqueued = <<>> /\ outcome'.exit = 0
<1>1. Good(table, trail) /\ Occupied(table) = {} /\ hatching' = FALSE
  BY DEF IInv, DispatchHatch
<1>2. PICK garbage \in Garbage : Becomes(Dispatched(table, Hatch, garbage), Hatch)
  BY DEF DispatchHatch
<1> DEFINE O == Dispatched(table, Hatch, garbage)
           U == routingTableAssignIPStatic(table, Router, garbage)
<1>3. Hatch.kind = "HATCHING" /\ Hatch.to = Router
  BY DEF Hatch, Packet
<1>4. /\ Legal(U) /\ Occupied(U) = {Router} /\ NextOf(U, Router) = {}
  BY <1>1, HatchBlank DEF Good
<1>5. Handle(Begin(table), Hatch, garbage)
      = sgSerialSend(SetTable(Begin(table), U), Hatch)
  <2>1. Handle(Begin(table), Hatch, garbage)
        = routerHandleHatching(Begin(table), Hatch, garbage)
    BY <1>3 DEF Handle
  <2>2. Begin(table).table = table
    BY DEF Begin
  <2> QED
    BY <1>3, <2>1, <2>2 DEF routerHandleHatching
<1> HIDE DEF U
<1>6. Yields(Handle(Begin(table), Hatch, garbage), U, <<>>, 0)
  BY <1>5, BeginYields, SettersYield, SendsYield
<1>7. O = Handle(Begin(table), Hatch, garbage)
  <2>1. Handle(Begin(table), Hatch, garbage).exit = 0
    BY <1>6, OutcomeFields
  <2> QED
    BY <2>1 DEF Dispatched
<1>8. O.table = U /\ O.enqueued = <<>> /\ O.exit = 0
  BY <1>6, <1>7, OutcomeFields
<1> HIDE DEF O
<1>9. table' = U /\ outcome' = O /\ trail' = Trail(O, Hatch)
  BY <1>2, <1>8 DEF Becomes, O
<1>10. ASSUME NEW i \in Indices PROVE Trail(O, Hatch)[i] = {}
  <2>1. trail[i] = {}
    BY <1>1 DEF Good
  <2>2. Steps(Hatch) = {}
    BY <1>3, StepsFacts DEF Sequence
  <2>3. {} \cup {} = {}
    OBVIOUS
  <2>4. Trail(O, Hatch)[i] \in {{}, trail[i], trail[i] \cup Steps(Hatch)}
    BY <1>3, TrailAt
  <2> QED
    BY <2>1, <2>2, <2>3, <2>4
<1>11. Router \in Indices
  BY DEF Router, Indices
<1>12. GoodAt(U, Router, {})
  BY <1>4 DEF GoodAt, EarnedAt, OrderAt, SettledAt
<1>13. Good(U, trail')
  BY <1>4, <1>9, <1>10, <1>11, <1>12 DEF Good
<1> QED
  BY <1>1, <1>4, <1>8, <1>9, <1>13

LEMMA InitGood == Init => IInv
<1> SUFFICES ASSUME Init PROVE IInv
  OBVIOUS
<1>1. PICK level \in Strictnesses \ {"ERROR"} : table = SetStrictness(routingTableInit, level)
  BY DEF Init
<1>2. Legal(routingTableInit) /\ Occupied(routingTableInit) = {}
  <2> DEFINE T == routingTableInit
  <2>1. /\ T.table_alloc = 0
        /\ T.routing_table = [i \in Indices |-> NoNode]
        /\ T \in Tables
    BY DEF routingTableInit, Tables, Indices, Rdids, Strictnesses
  <2> HIDE DEF T
  <2>2. Occupied(T) = {}
    BY <2>1 DEF Occupied
  <2>3. Legal(T)
    BY <2>1, <2>2, FS_EmptySet DEF Legal, Counted, Unreserved, Distinct, Uniform
  <2> QED
    BY <2>2, <2>3 DEF T
<1>3. Unmoved(routingTableInit, table)
  BY <1>1, <1>2, StrictnessUnmoved
<1>4. Legal(table) /\ Occupied(table) = {}
  BY <1>2, <1>3 DEF Unmoved
<1>5. trail = [i \in Indices |-> {}] /\ hatching = TRUE
  BY DEF Init
<1> QED
  BY <1>4, <1>5 DEF IInv, Good

LEMMA NextGood == IInv /\ [Next]_routerVars => IInv'
<1> SUFFICES ASSUME IInv, [Next]_routerVars PROVE IInv'
  OBVIOUS
<1>1. CASE DispatchHatch
  BY <1>1, HatchSteps DEF IInv
<1>2. CASE Dispatch
  BY <1>2, DispatchSteps DEF IInv
<1>3. CASE Heartbeat \/ DropDevice \/ DropAll \/ SetAuthLevel
  <2>1. hatching' = hatching
    BY <1>3 DEF Heartbeat, DropDevice, DropAll, SetAuthLevel
  <2>2. Good(table', trail') /\ Unmoved(table, table')
    BY <1>3, OtherThreads DEF IInv
  <2> QED
    BY <2>1, <2>2 DEF IInv, Unmoved
<1>4. CASE UNCHANGED routerVars
  BY <1>4 DEF routerVars, IInv, Good, GoodAt, EarnedAt, SettledAt
<1> QED
  BY <1>1, <1>2, <1>3, <1>4 DEF Next

-----------------------------------------------------------------------------
(* The theorems.                                                           *)

(* What is expected of a device has been earned, in every reachable state. *)
THEOREM Invariance == Spec => []IInv
BY InitGood, NextGood, PTL DEF Spec

(* Type correctness of the router (Router!TypeOK): whatever packets come   *)
(* and whatever the other threads do, the table stays a table, and only    *)
(* sensors in it have a trail.                                             *)
THEOREM TypeCorrect == Spec => []TypeOK
<1>1. IInv => TypeOK
  BY DEF IInv, Good, Legal, TypeOK, TableTypeOK
<1> QED
  BY <1>1, Invariance, PTL

(* The handlers use the table as its functions are meant to be used: its   *)
(* count stays right, no two devices share an rdid, all have the level of  *)
(* the network (routing_table.c, called from payload_handlers.c).          *)
THEOREM TableKept == Spec => [](AllocCountsNodes /\ RdidUnique /\ UniformStrictness)
<1>1. IInv => AllocCountsNodes /\ RdidUnique /\ UniformStrictness
  BY DEF IInv, Good, Legal, Counted, Unreserved, Distinct, Uniform,
         AllocCountsNodes, RdidUnique, UniformStrictness
<1> QED
  BY <1>1, Invariance, PTL

(* Outside of loose mode no device is taken through a step of the sequence *)
(* before the ones it builds on (payload_handlers.c:391-716).              *)
THEOREM SequenceInOrder == Spec => []StepsInOrder
<1>1. IInv => StepsInOrder
  BY DEF IInv, Good, GoodAt, OrderAt, StepsInOrder
<1> QED
  BY <1>1, Invariance, PTL

LEMMA LostIsLeased ==
  ASSUME IInv, [Next]_routerVars, ~ UNCHANGED routerVars,
         NEW k \in DOMAIN outcome'.enqueued,
         outcome'.enqueued[k].what = "lost", outcome'.enqueued[k].ip \in Sensors
  PROVE  Node(table, outcome'.enqueued[k].ip).auth.next_expected_packet = {"LEASED"}
<1> DEFINE ip == outcome'.enqueued[k].ip
<1>1. ASSUME NEW i PROVE Online(i).what = "online"
  BY DEF Online, Packet
<1>2. ~ Calm(outcome'.enqueued)
  <2>1. ASSUME NEW i, outcome'.enqueued = <<Online(i)>> PROVE FALSE
    <3>1. outcome'.enqueued[k] = Online(i)
      BY <2>1
    <3> QED
      BY <1>1, <3>1
  <2>2. outcome'.enqueued # <<>>
    OBVIOUS
  <2> QED
    BY <2>1, <2>2 DEF Calm
<1>3. ~ DispatchHatch
  BY <1>2, HatchSteps DEF Calm
<1>4. ~ Dispatch
  BY <1>2, DispatchSteps
<1>5. Pings(table, ip)
  BY <1>3, <1>4, OtherThreads DEF Next, IInv
<1>6. ip \in Indices /\ ip # Router
  BY DEF Sensors, Indices, Router
<1>7. Legal(table)
  BY DEF IInv, Good
<1> HIDE DEF ip
<1>8. Node(table, ip) = table.routing_table[ip]
  BY <1>6, <1>7, OccupiedTracked
<1>9. ip \in Occupied(table) /\ PlaceOf(table, ip) \in {{"NESTING"}, {"CHIRPING"}}
  <2>1. {"ERROR"} \notin {{"NESTING"}, {"CHIRPING"}}
    OBVIOUS
  <2> QED
    BY <1>5, <1>6, <1>8, <2>1 DEF Pings, routingTableGetCurrentPacket, Occupied, PlaceOf
<1>10. SettledAt(table, ip)
  BY <1>9 DEF IInv, Good, GoodAt
<1> QED
  BY <1>6, <1>8, <1>9, <1>10 DEF SettledAt, NextOf, ip

(* Only a sensor that is past its authentication is given up for lost      *)
(* (main.c:242-253).                                                       *)
THEOREM LostAreLeased == Spec => OnlyLeasedAreLost
<1>1. IInv /\ [Next]_routerVars
      => [\A k \in DOMAIN outcome'.enqueued :
            LET notice == outcome'.enqueued[k]
            IN  notice.what = "lost" /\ notice.ip \in Sensors =>
                  Node(table, notice.ip).auth.next_expected_packet = {"LEASED"}]_routerVars
  BY LostIsLeased
<1> QED
  BY <1>1, Invariance, PTL DEF Spec, OnlyLeasedAreLost

LEMMA RejectionIsHandled ==
  ASSUME IInv, [Next]_routerVars, ~ UNCHANGED routerVars, outcome'.exit = -1
  PROVE  LET gone == IF table.default_strictness = "STRICT" THEN {handled'.ip} \cap Sensors ELSE {}
         IN  /\ Router \in Occupied(table) => Occupied(table') = Occupied(table) \ gone
             /\ \A i \in Occupied(table') :
                  table'.routing_table[i] = table.routing_table[i]
<1>1. -1 # 0
  OBVIOUS
<1>2. ~ DispatchHatch
  BY <1>1, HatchSteps
<1>3. ~ (Heartbeat \/ DropDevice \/ DropAll \/ SetAuthLevel)
  BY <1>1, OtherThreads DEF IInv
<1>4. Dispatch
  BY <1>2, <1>3 DEF Next
<1>5. Rejected(table, outcome', handled') /\ table' = outcome'.table
  BY <1>4, DispatchSteps
<1> DEFINE gone == IF table.default_strictness = "STRICT" THEN {handled'.ip} \cap Sensors ELSE {}
<1>6. PICK U : /\ Yields(outcome', U, <<>>, -1)
               /\ Occupied(U) = Occupied(table) \ gone
               /\ \A i \in Occupied(U) : U.routing_table[i] = table.routing_table[i]
  BY <1>5 DEF Rejected
<1>7. table' = U
  BY <1>5, <1>6, OutcomeFields
<1> QED
  BY <1>6, <1>7

(* A rejected packet leaves every device as it was, except that in strict  *)
(* mode the device of its header is gone (main.c:145-148).                 *)
THEOREM RejectionsHandled == Spec => RejectionHandled
<1>1. IInv /\ [Next]_routerVars
      => [outcome'.exit = -1 =>
            LET gone == IF table.default_strictness = "STRICT" THEN {handled'.ip} \cap Sensors ELSE {}
            IN  /\ Router \in Occupied(table) => Occupied(table') = Occupied(table) \ gone
                /\ \A i \in Occupied(table') :
                     table'.routing_table[i] = table.routing_table[i]]_routerVars
  BY RejectionIsHandled
<1> QED
  BY <1>1, Invariance, PTL DEF Spec, RejectionHandled

-----------------------------------------------------------------------------
(* Notices that a device is back.                                          *)

HealthOf(T, i) == T.routing_table[i].hb

SameHealth(T, U) ==
  /\ Legal(U)
  /\ Occupied(U) = Occupied(T)
  /\ \A i \in Occupied(T) : HealthOf(U, i) = HealthOf(T, i)

(* The device was stale in T and is not in U.                              *)
Back(T, U, ip) ==
  /\ ip \in Occupied(T) \cap Occupied(U)
  /\ hbIsDeviceStale(HealthOf(T, ip)) /\ ~ hbIsDeviceStale(HealthOf(U, ip))

(* O comes from T, and nobody was heard on the way.                        *)
Quiet(T, O) ==
  /\ SameHealth(T, O.table)
  /\ \E exit : Yields(O, O.table, <<>>, exit)

(* O comes from T, and what it puts back is true.                          *)
Truthful(T, O) ==
  /\ Legal(O.table)
  /\ \E exit, enqueued :
       /\ Yields(O, O.table, enqueued, exit)
       /\ enqueued = <<>> \/ \E ip : enqueued = <<Online(ip)>> /\ Back(T, O.table, ip)

LEMMA QuietIsTruthful ==
  ASSUME NEW T, NEW O, Quiet(T, O)
  PROVE  Truthful(T, O)
BY DEF Quiet, Truthful, SameHealth

LEMMA QuietBegins ==
  ASSUME NEW T, Legal(T)
  PROVE  Quiet(T, Begin(T))
<1>1. Yields(Begin(T), T, <<>>, 0)
  BY BeginYields
<1>2. Begin(T).table = T
  BY <1>1, OutcomeFields
<1> QED
  BY <1>1, <1>2 DEF Quiet, SameHealth

(* Notes about the sequence leave the health of all devices alone.         *)
LEMMA AuthKeepsHealth ==
  ASSUME NEW T, Legal(T), NEW ip \in Indices, NEW gdt \in SUBSET Statuses
  PROVE  /\ SameHealth(T, routingTableSetCurrentPacket(T, ip, gdt))
         /\ SameHealth(T, routingTableSetNextExpectedPacket(T, ip, gdt))
<1>1. ASSUME NEW auth \in Auths, ip \in Occupied(T),
             auth.strictness = T.routing_table[ip].auth.strictness
      PROVE  SameHealth(T, SetAuth(T, ip, auth))
  <2> DEFINE node == [T.routing_table[ip] EXCEPT !.auth = auth]
             U    == SetAuth(T, ip, auth)
  <2>1. T.routing_table[ip] \in Nodes
    BY <1>1 DEF Legal, Tables, Occupied
  <2>2. node \in Nodes /\ node.hb = T.routing_table[ip].hb
    BY <2>1 DEF Nodes
  <2>3. U = Put(T, ip, node) /\ Legal(U)
    BY <1>1, OccupiedTracked, AuthUpdateLegal DEF SetAuth
  <2> HIDE DEF node, U
  <2>4. /\ Occupied(U) = Occupied(T)
        /\ U.routing_table[ip] = node
        /\ \A i \in Indices \ {ip} : U.routing_table[i] = T.routing_table[i]
    BY <1>1, <2>2, <2>3, ReplaceNode
  <2>5. SameHealth(T, U)
    BY <2>2, <2>3, <2>4 DEF SameHealth, HealthOf, Occupied
  <2> QED
    BY <2>5 DEF U
<1>2. CASE ip \in Occupied(T)
  <2> DEFINE old == T.routing_table[ip].auth
             cur == deviceAuthSetCurrentGeneralPayload(old, gdt)
             nxt == deviceAuthSetNextGeneralPayload(old, gdt)
  <2>1. old \in Auths
    BY <1>2 DEF Legal, Tables, Occupied, Nodes
  <2>2. /\ cur \in Auths /\ cur.strictness = old.strictness
        /\ nxt \in Auths /\ nxt.strictness = old.strictness
    BY <2>1 DEF deviceAuthSetCurrentGeneralPayload, deviceAuthSetNextGeneralPayload, Auths
  <2>3. /\ routingTableSetCurrentPacket(T, ip, gdt) = SetAuth(T, ip, cur)
        /\ routingTableSetNextExpectedPacket(T, ip, gdt) = SetAuth(T, ip, nxt)
    BY <1>2, OccupiedTracked
       DEF routingTableSetCurrentPacket, routingTableSetNextExpectedPacket
  <2> HIDE DEF cur, nxt
  <2> QED
    BY <1>1, <1>2, <2>2, <2>3
<1>3. CASE ip \notin Occupied(T)
  BY <1>3, OccupiedTracked
     DEF routingTableSetCurrentPacket, routingTableSetNextExpectedPacket, SameHealth
<1> QED
  BY <1>2, <1>3

LEMMA NotesKeep ==
  ASSUME NEW T, NEW O, NEW U, SameHealth(O.table, U)
  PROVE  /\ Quiet(T, O) => Quiet(T, SetTable(O, U))
         /\ Truthful(T, O) => Truthful(T, SetTable(O, U))
<1>1. ASSUME NEW exit, NEW enqueued, Yields(O, O.table, enqueued, exit)
      PROVE  Yields(SetTable(O, U), SetTable(O, U).table, enqueued, exit)
             /\ SetTable(O, U).table = U
  <2>1. Yields(SetTable(O, U), U, enqueued, exit)
    BY <1>1, SettersYield
  <2> QED
    BY <2>1, OutcomeFields
<1>2. \A ip : Back(T, O.table, ip) => Back(T, U, ip)
  BY DEF Back, SameHealth
<1>3. Quiet(T, O) => Quiet(T, SetTable(O, U))
  BY <1>1 DEF Quiet, SameHealth
<1>4. ASSUME Truthful(T, O) PROVE Truthful(T, SetTable(O, U))
  <2>1. PICK exit, enqueued :
          /\ Yields(O, O.table, enqueued, exit)
          /\ enqueued = <<>> \/ \E ip : enqueued = <<Online(ip)>> /\ Back(T, O.table, ip)
    BY <1>4 DEF Truthful
  <2> QED
    BY <1>1, <1>2, <2>1 DEF Truthful, SameHealth
<1> QED
  BY <1>3, <1>4

LEMMA SetCurrentKeeps ==
  ASSUME NEW T, NEW O, NEW ip \in Indices, NEW gdt \in Statuses, Legal(O.table)
  PROVE  Quiet(T, O) => Quiet(T, SetCurrent(O, ip, gdt))
BY AuthKeepsHealth, NotesKeep DEF SetCurrent

LEMMA SetNextKeeps ==
  ASSUME NEW T, NEW O, NEW ip \in Indices, NEW gdts \in SUBSET Statuses, Legal(O.table)
  PROVE  /\ Quiet(T, O) => Quiet(T, SetNext(O, ip, gdts))
         /\ Truthful(T, O) => Truthful(T, SetNext(O, ip, gdts))
BY AuthKeepsHealth, NotesKeep DEF SetNext

LEMMA SendsKeep ==
  ASSUME NEW T, NEW O, NEW p
  PROVE  /\ Quiet(T, O) => Quiet(T, sgSerialSend(O, p)) /\ Quiet(T, sgTCPSend(O, p))
         /\ Truthful(T, O) => Truthful(T, sgSerialSend(O, p)) /\ Truthful(T, sgTCPSend(O, p))
<1>1. ASSUME NEW exit, NEW enqueued, Yields(O, O.table, enqueued, exit)
      PROVE  /\ Yields(sgSerialSend(O, p), O.table, enqueued, exit)
             /\ Yields(sgTCPSend(O, p), O.table, enqueued, exit)
             /\ sgSerialSend(O, p).table = O.table /\ sgTCPSend(O, p).table = O.table
  <2>1. /\ Yields(sgSerialSend(O, p), O.table, enqueued, exit)
        /\ Yields(sgTCPSend(O, p), O.table, enqueued, exit)
    BY <1>1, SendsYield
  <2> QED
    BY <2>1, OutcomeFields
<1>2. Quiet(T, O) => Quiet(T, sgSerialSend(O, p)) /\ Quiet(T, sgTCPSend(O, p))
  BY <1>1 DEF Quiet
<1>3. ASSUME Truthful(T, O)
      PROVE  Truthful(T, sgSerialSend(O, p)) /\ Truthful(T, sgTCPSend(O, p))
  <2>1. PICK exit, enqueued :
          /\ Yields(O, O.table, enqueued, exit)
          /\ enqueued = <<>> \/ \E ip : enqueued = <<Online(ip)>> /\ Back(T, O.table, ip)
    BY <1>3 DEF Truthful
  <2> QED
    BY <1>1, <1>3, <2>1 DEF Truthful
<1> QED
  BY <1>2, <1>3

(* A refresh that is no news leaves the queue alone; one that is news is   *)
(* of a stale device, since a lost one is stale, too.                      *)
LEMMA HeardIsTruthful ==
  ASSUME NEW T, NEW O, NEW ip \in Indices, Quiet(T, O)
  PROVE  Truthful(T, Hear(O, ip))
<1> DEFINE U     == routingTableHeardDevice(O.table, ip)
           heard == SetTable(O, U)
<1>1. PICK exit : Yields(O, O.table, <<>>, exit)
  BY DEF Quiet
<1>2. Legal(O.table) /\ Legal(U) /\ Occupied(U) = Occupied(O.table)
  BY HealthMoves DEF Quiet, SameHealth, Moved
<1>3. Yields(heard, U, <<>>, exit) /\ heard.table = U
  <2>1. Yields(heard, U, <<>>, exit)
    BY <1>1, SettersYield
  <2> QED
    BY <2>1, OutcomeFields
<1>4. CASE ~ (Tracked(O.table, ip) /\ hbRefresh(Node(O.table, ip).hb) # {})
  <2>1. Hear(O, ip) = heard
    BY <1>4 DEF Hear
  <2> HIDE DEF heard, U
  <2> QED
    BY <1>2, <1>3, <2>1 DEF Truthful
<1>5. CASE Tracked(O.table, ip) /\ hbRefresh(Node(O.table, ip).hb) # {}
  <2> DEFINE hb == O.table.routing_table[ip].hb
  <2>1. Hear(O, ip) = queueEnqueue(heard, Online(ip))
    BY <1>5 DEF Hear
  <2>2. ip \in Occupied(O.table) /\ Node(O.table, ip) = O.table.routing_table[ip]
    BY <1>2, <1>5, OccupiedTracked
  <2>3. O.table.routing_table[ip] \in Nodes /\ hb \in Healths
    BY <1>2, <2>2 DEF Legal, Tables, Occupied, Nodes
  <2>4. hbRefresh(hb) # {} /\ Heard(hb) \in Healths
    BY <1>5, <2>2, <2>3 DEF Heard, Healths
  <2>5. hbIsDeviceStale(hb) /\ ~ hbIsDeviceStale(Heard(hb))
    <3>1. /\ hb.stale_thres = StaleThreshold /\ hb.ping_thres = PingThreshold
          /\ hb.device_health \in 0 .. PingThreshold
          /\ Heard(hb).device_health = PingThreshold
          /\ Heard(hb).stale_thres = StaleThreshold /\ Heard(hb).ping_thres = PingThreshold
      BY <2>3 DEF Healths, Heard
    <3>2. ~ hbIsDeviceStale(Heard(hb)) /\ ~ hbIsDeviceLost(Heard(hb))
      BY <3>1, ThresholdAssumption DEF hbIsDeviceStale, hbIsDeviceLost
    <3>3. hbIsDeviceLost(hb) => hbIsDeviceStale(hb)
      BY <3>1, ThresholdAssumption DEF hbIsDeviceStale, hbIsDeviceLost
    <3> HIDE DEF hb
    <3>4. Status(Heard(hb)) = {}
      BY <3>2 DEF Status
    <3>5. Status(hb) # {}
      BY <2>4, <3>4 DEF hbRefresh, Xor
    <3> QED
      BY <3>2, <3>3, <3>5 DEF Status
  <2>6. U.routing_table[ip].hb = Heard(hb)
    <3> DEFINE node == [O.table.routing_table[ip] EXCEPT !.hb = Heard(hb)]
    <3>1. U = Put(O.table, ip, node)
      BY <1>2, <1>5, <2>2, OccupiedTracked DEF routingTableHeardDevice, SetHealth
    <3>2. node \in Nodes /\ node.hb = Heard(hb)
      BY <2>3, <2>4 DEF Nodes
    <3> HIDE DEF node, U
    <3> QED
      BY <1>2, <2>2, <3>1, <3>2, ReplaceNode
  <2> HIDE DEF U
  <2>7. Back(T, U, ip)
    BY <1>2, <2>2, <2>5, <2>6 DEF Back, Quiet, SameHealth, HealthOf
  <2>8. Yields(queueEnqueue(heard, Online(ip)), U, Append(<<>>, Online(ip)), exit)
    BY <1>3, SettersYield
  <2>9. Append(<<>>, Online(ip)) = <<Online(ip)>>
    OBVIOUS
  <2> HIDE DEF heard
  <2>10. Hear(O, ip).table = U
    BY <2>1, <2>8, OutcomeFields
  <2> QED
    BY <1>2, <2>1, <2>7, <2>8, <2>9, <2>10 DEF Truthful
<1> QED
  BY <1>4, <1>5
LEMMA HandlersAreTruthful ==
  ASSUME NEW T, Legal(T), NEW ip \in Indices, NEW gdt \in Statuses,
         NEW gdts \in SUBSET Statuses, NEW p
  PROVE  LET C == SetCurrent(Begin(T), ip, gdt)
         IN  /\ Quiet(T, C)
             /\ Quiet(T, sgSerialSend(SetNext(C, ip, gdts), p))
             /\ Truthful(T, sgTCPSend(Hear(SetNext(C, ip, gdts), ip), p))
             /\ Truthful(T, sgTCPSend(SetNext(Hear(C, ip), ip, gdts), p))
             /\ Truthful(T, sgSerialSend(SetNext(Hear(C, ip), ip, gdts), p))
<1> DEFINE B == Begin(T)
           C == SetCurrent(B, ip, gdt)
           D == SetNext(C, ip, gdts)
           H == Hear(C, ip)
           E == SetNext(H, ip, gdts)
<1>1. \A O : Quiet(T, O) => Legal(O.table)
  BY DEF Quiet, SameHealth
<1>2. \A O : Truthful(T, O) => Legal(O.table)
  BY DEF Truthful
<1>3. Quiet(T, B)
  BY QuietBegins
<1> HIDE DEF B
<1>4. Quiet(T, C)
  BY <1>1, <1>3, SetCurrentKeeps
<1> HIDE DEF C
<1>5. Quiet(T, D)
  BY <1>1, <1>4, SetNextKeeps
<1> HIDE DEF D
<1>6. Quiet(T, sgSerialSend(D, p))
  BY <1>5, SendsKeep
<1>7. Truthful(T, Hear(D, ip))
  BY <1>5, HeardIsTruthful
<1>8. Truthful(T, sgTCPSend(Hear(D, ip), p))
  BY <1>7, SendsKeep
<1>9. Truthful(T, H)
  BY <1>4, HeardIsTruthful
<1> HIDE DEF H
<1>10. Truthful(T, E)
  BY <1>2, <1>9, SetNextKeeps
<1> HIDE DEF E
<1>11. Truthful(T, sgTCPSend(E, p)) /\ Truthful(T, sgSerialSend(E, p))
  BY <1>10, SendsKeep
<1> QED
  BY <1>4, <1>6, <1>8, <1>11 DEF B, C, D, H, E

LEMMA FreedIsSilent ==
  ASSUME NEW T, NEW O, Quiet(T, O), NEW ip \in Addresses
  PROVE  \E exit, U : Yields(routerFreeDevice(O, ip), U, <<>>, exit)
<1>1. PICK exit : Yields(O, O.table, <<>>, exit)
  BY DEF Quiet
<1>2. Legal(O.table)
  BY DEF Quiet, SameHealth
<1> QED
  BY <1>1, <1>2, FreeDeviceYields

(* Says nothing, or the truth.                                             *)
LEMMA HandledTruthfully ==
  ASSUME NEW T, Legal(T), NEW p \in Packets, NEW garbage \in Garbage,
         NEW O, O = Handle(Begin(T), p, garbage)
  PROVE  Truthful(T, O) \/ O.enqueued = <<>>
<1> DEFINE B  == Begin(T)
           ip == About(p)
<1>1. /\ p.kind \in DOMAIN Whats \ {"HATCHING"} /\ p.what \in Whats[p.kind] /\ ip \in Indices
      /\ p.kind = "PECKING" => ip = p.to
      /\ p.kind # "PECKING" => ip = p.ip
  BY PacketFacts DEF About
<1>2. Quiet(T, B)
  BY QuietBegins
<1>3. /\ Statuses = {"HATCHING", "FLYING", "EYEBALLING", "PECKING", "SINGING", "MOCKING",
                     "PEACOCKING", "NESTING", "SQUAWKING", "HEARTBEAT", "CHIRPING", "LEASED"}
      /\ \A what : AfterSquawk(what) \in SUBSET Statuses
  BY DEF Statuses, AfterSquawk
<1>4. ASSUME NEW code PROVE Returns(B, code).enqueued = <<>>
  BY BeginYields, SettersYield, OutcomeFields
<1>5. \A Q : Quiet(T, Q) => Truthful(T, Q)
  BY QuietIsTruthful
<1> HIDE DEF B, ip
<1>6. CASE p.kind \in {"SERVSTATUS", "FLYING"}
  <2>1. O \in {sgTCPSend(B, p), sgSerialSend(B, p)}
    BY <1>6 DEF Handle, routerHandleServerStatus, routerHandleFly, B
  <2> QED
    BY <1>2, <1>5, <2>1, SendsKeep
<1>7. CASE p.kind = "EYEBALLING"
  <2>1. Joined(T, O, p)
    BY <1>7, EyeballHandled
  <2> QED
    BY <2>1, OutcomeFields DEF Joined
<1>8. CASE p.kind = "PECKING"
  <2> DEFINE pecked == SetCurrent(B, ip, "PECKING")
  <2>1. O = routerHandlePeck(B, p)
    BY <1>8 DEF Handle, B
  <2>2. /\ Quiet(T, pecked)
        /\ Quiet(T, sgSerialSend(SetNext(pecked, ip, {"SQUAWKING"}), p))
        /\ Quiet(T, sgSerialSend(SetNext(pecked, ip, {"SINGING"}), p))
    BY <1>1, <1>3, HandlersAreTruthful DEF B
  <2>3. Quiet(T, sgSerialSend(pecked, p))
    BY <2>2, SendsKeep
  <2>4. ip \in Addresses
    BY <1>1 DEF Indices, Addresses
  <2> HIDE DEF pecked
  <2>5. ASSUME NEW Q, Quiet(T, Q)
        PROVE  /\ routerFreeDevice(Q, ip).enqueued = <<>>
               /\ \A code : Returns(routerFreeDevice(Q, ip), code).enqueued = <<>>
    <3>1. PICK exit, U : Yields(routerFreeDevice(Q, ip), U, <<>>, exit)
      BY <2>4, <2>5, FreedIsSilent
    <3> DEFINE F == routerFreeDevice(Q, ip)
    <3> HIDE DEF F
    <3>2. \A code : Yields(Returns(F, code), U, <<>>, code)
      BY <3>1, SettersYield DEF F
    <3> QED
      BY <3>1, <3>2, OutcomeFields DEF F
  <2>6. \/ O = Returns(B, -1)
        \/ O = sgSerialSend(SetNext(pecked, ip, {"SQUAWKING"}), p)
        \/ O = sgSerialSend(SetNext(pecked, ip, {"SINGING"}), p)
        \/ O = routerFreeDevice(sgSerialSend(pecked, p), ip)
        \/ O = Returns(routerFreeDevice(pecked, ip), 1)
    BY <1>1, <1>8, <2>1 DEF routerHandlePeck, Whats, pecked
  <2> QED
    BY <1>4, <1>5, <2>2, <2>3, <2>5, <2>6
<1>9. CASE p.kind = "SINGING"
  <2>1. O \in {Returns(B, -1),
               sgSerialSend(SetNext(SetCurrent(B, ip, "SINGING"), ip, {"MOCKING"}), p)}
    BY <1>1, <1>9 DEF Handle, routerHandleSing, B
  <2>2. Quiet(T, sgSerialSend(SetNext(SetCurrent(B, ip, "SINGING"), ip, {"MOCKING"}), p))
    BY <1>1, <1>3, HandlersAreTruthful DEF B
  <2> QED
    BY <1>4, <1>5, <2>1, <2>2
<1>10. CASE p.kind = "MOCKING"
  <2> DEFINE mocked == sgTCPSend(Hear(SetNext(SetCurrent(B, ip, "MOCKING"), ip, {"PEACOCKING"}),
                                      ip), p)
  <2>1. O \in {Returns(B, -1), mocked}
    BY <1>1, <1>10 DEF Handle, routerHandleMock, B
  <2>2. Truthful(T, mocked)
    BY <1>1, <1>3, HandlersAreTruthful DEF B
  <2> QED
    BY <1>4, <2>1, <2>2
<1>11. CASE p.kind = "PEACOCKING"
  <2> DEFINE next == IF p.what = "MORE" THEN {"PEACOCKING"} ELSE {"NESTING"}
             done == sgTCPSend(SetNext(Hear(SetCurrent(B, ip, "PEACOCKING"), ip), ip, next), p)
  <2>1. O \in {Returns(B, -1), done}
    BY <1>1, <1>11 DEF Handle, routerHandlePeacock, B
  <2>2. next \in SUBSET Statuses
    BY <1>3
  <2> HIDE DEF next
  <2>3. Truthful(T, done)
    BY <1>1, <1>3, <2>2, HandlersAreTruthful DEF B
  <2> QED
    BY <1>4, <2>1, <2>3
<1>12. CASE p.kind = "NESTING"
  <2> DEFINE done == sgSerialSend(SetNext(Hear(SetCurrent(B, ip, "NESTING"), ip), ip,
                                          {"LEASED"}), p)
  <2>1. O \in {Returns(B, -1), done}
    BY <1>1, <1>12 DEF Handle, routerHandleNest, B
  <2>2. Truthful(T, done)
    BY <1>1, <1>3, HandlersAreTruthful DEF B
  <2> QED
    BY <1>4, <2>1, <2>2
<1>13. CASE p.kind = "SQUAWKING"
  <2> DEFINE next == AfterSquawk(p.what)
             squawked == SetNext(Hear(SetCurrent(B, ip, "SQUAWKING"), ip), ip, next)
  <2>1. O \in {Returns(B, -1), sgSerialSend(squawked, p), sgTCPSend(squawked, p)}
    BY <1>1, <1>13 DEF Handle, routerHandleSquawk, B
  <2>2. next \in SUBSET Statuses
    BY <1>3
  <2> HIDE DEF next
  <2>3. Truthful(T, sgSerialSend(squawked, p)) /\ Truthful(T, sgTCPSend(squawked, p))
    BY <1>1, <1>3, <2>2, HandlersAreTruthful DEF B
  <2> QED
    BY <1>4, <2>1, <2>3
<1>14. CASE p.kind = "HEARTBEAT"
  <2>1. O \in {Hear(B, ip), sgSerialSend(B, p), B}
    BY <1>1, <1>14 DEF Handle, routerHandleHeartbeat, B
  <2> QED
    BY <1>1, <1>2, <1>5, <2>1, SendsKeep, HeardIsTruthful
<1>15. CASE p.kind = "CHIRPING"
  <2> DEFINE chirped == SetCurrent(B, ip, "CHIRPING")
             data    == sgTCPSend(Hear(SetNext(chirped, ip, {"LEASED"}), ip), p)
             command == sgSerialSend(SetNext(chirped, ip, {"LEASED"}), p)
  <2>1. O \in {Returns(B, -1), command, data, routerFreeDevice(chirped, ip)}
    BY <1>1, <1>15 DEF Handle, routerHandleChirp, B, Whats
  <2>2. Quiet(T, chirped) /\ Quiet(T, command) /\ Truthful(T, data)
    BY <1>1, <1>3, HandlersAreTruthful DEF B
  <2>3. ip \in Addresses
    BY <1>1 DEF Indices, Addresses
  <2> HIDE DEF chirped, data, command
  <2>4. routerFreeDevice(chirped, ip).enqueued = <<>>
    BY <2>2, <2>3, FreedIsSilent, OutcomeFields
  <2> QED
    BY <1>4, <1>5, <2>1, <2>2, <2>4
<1> QED
  BY <1>1, <1>6, <1>7, <1>8, <1>9, <1>10, <1>11, <1>12, <1>13, <1>14, <1>15 DEF Whats

LEMMA OnlineIsBack ==
  ASSUME IInv, [Next]_routerVars, ~ UNCHANGED routerVars,
         NEW k \in DOMAIN outcome'.enqueued, outcome'.enqueued[k].what = "online"
  PROVE  /\ routingTableIsDeviceStale(table, outcome'.enqueued[k].ip) = 1
         /\ routingTableIsDeviceStale(table', outcome'.enqueued[k].ip) = 0
<1>1. Legal(table)
  BY DEF IInv, Good
<1>2. outcome'.enqueued # <<>>
  OBVIOUS
<1>3. ~ DispatchHatch
  BY <1>2, HatchSteps
<1>4. ~ (Heartbeat \/ DropDevice \/ DropAll \/ SetAuthLevel)
  BY OtherThreads DEF IInv
<1>5. Dispatch
  BY <1>3, <1>4 DEF Next
<1>6. PICK p \in Packets, garbage \in Garbage : Becomes(Dispatched(table, p, garbage), p)
  BY <1>5 DEF Dispatch
<1> DEFINE H == Handle(Begin(table), p, garbage)
           O == Dispatched(table, p, garbage)
<1>7. O = outcome' /\ table' = O.table
  BY <1>6 DEF Becomes
<1>8. Router \in Occupied(table)
  BY <1>5 DEF IInv, Dispatch
<1>9. Truthful(table, H) \/ H.enqueued = <<>>
  BY <1>1, HandledTruthfully
<1>10. H.exit # -1
  <2>1. SUFFICES ASSUME H.exit = -1 PROVE O.enqueued = <<>>
    BY <1>2, <1>7
  <2>2. H = Returns(Begin(table), -1)
    BY <1>1, <1>8, <2>1, HandleOutcome
  <2>3. Yields(H, table, <<>>, -1)
    BY <2>2, BeginYields, SettersYield
  <2> HIDE DEF H
  <2>4. p.ip \in Addresses
    BY PacketFacts
  <2>5. \E U : Yields(routerFreeDevice(H, p.ip), U, <<>>, -1)
    BY <1>1, <2>3, <2>4, FreeDeviceYields
  <2>6. O \in {H, routerFreeDevice(H, p.ip)}
    BY DEF Dispatched, H
  <2> QED
    BY <2>3, <2>5, <2>6, OutcomeFields
<1>11. O = H
  BY <1>10 DEF Dispatched
<1> HIDE DEF H, O
<1>12. Truthful(table, O)
  BY <1>2, <1>7, <1>9, <1>11
<1>13. PICK exit, enqueued :
         /\ Yields(O, O.table, enqueued, exit)
         /\ enqueued = <<>> \/ \E ip : enqueued = <<Online(ip)>> /\ Back(table, O.table, ip)
  BY <1>12 DEF Truthful
<1>14. O.enqueued = enqueued
  BY <1>13, OutcomeFields
<1>15. PICK ip : enqueued = <<Online(ip)>> /\ Back(table, O.table, ip)
  BY <1>2, <1>7, <1>13, <1>14
<1>16. outcome'.enqueued[k] = Online(ip)
  BY <1>7, <1>14, <1>15
<1>17. outcome'.enqueued[k].ip = ip
  BY <1>16 DEF Online, Packet
<1>18. ip \in Indices /\ Legal(O.table)
  BY <1>12, <1>15 DEF Back, Occupied, Truthful
<1>19. /\ Tracked(table, ip) /\ Node(table, ip) = table.routing_table[ip]
       /\ Tracked(O.table, ip) /\ Node(O.table, ip) = O.table.routing_table[ip]
  BY <1>1, <1>15, <1>18, OccupiedTracked DEF Back
<1> QED
  BY <1>7, <1>15, <1>17, <1>19 DEF routingTableIsDeviceStale, Back, HealthOf

(* "online" is said of a device that was stale and is not any more         *)
(* (payload_handlers.c:116-131 and its callers).                           *)
THEOREM OnlineIsTrue == Spec => OnlineIsNews
<1>1. IInv /\ [Next]_routerVars
      => [\A k \in DOMAIN outcome'.enqueued :
            LET notice == outcome'.enqueued[k]
            IN  notice.what = "online" =>
                  /\ routingTableIsDeviceStale(table, notice.ip) = 1
                  /\ routingTableIsDeviceStale(table', notice.ip) = 0]_routerVars
  BY OnlineIsBack
<1> QED
  BY <1>1, Invariance, PTL DEF Spec, OnlineIsNews

-----------------------------------------------------------------------------
(* Goodbyes.                                                               *)

RdidOf(T, i) == T.routing_table[i].rdid

SameLeases(T, U) ==
  /\ Legal(U)
  /\ Occupied(U) = Occupied(T)
  /\ \A i \in Occupied(T) : RdidOf(U, i) = RdidOf(T, i)

(* What the server is told of device i.                                    *)
Goodbye(rdid) == [kind |-> "CHIRPING", what |-> "NETWORK_DISCONNECTS", rdid |-> rdid]

Announced(T, O, i) ==
  /\ RdidOf(T, i) = 0 \/ \E k \in DOMAIN O.tcp : O.tcp[k] = Goodbye(RdidOf(T, i))
  /\ \E k \in DOMAIN O.serial : O.serial[k] = Disconnect(i)

(* Whoever is in T and not in the table of O was announced in O.           *)
Politely(T, O) == \A i \in Occupied(T) \ Occupied(O.table) : Announced(T, O, i)

(* O comes from T, nobody has left, and nothing was said to the server.    *)
Unsaid(T, O, serial) ==
  /\ SameLeases(T, O.table)
  /\ \E enqueued, exit : O = [table |-> O.table, tcp |-> <<>>, serial |-> serial,
                              enqueued |-> enqueued, exit |-> exit]

LEMMA UnsaidBegins ==
  ASSUME NEW T, Legal(T)
  PROVE  /\ Unsaid(T, Begin(T), <<>>)
         /\ \A code : Unsaid(T, Returns(Begin(T), code), <<>>)
<1>1. Begin(T) = [table |-> T, tcp |-> <<>>, serial |-> <<>>, enqueued |-> <<>>, exit |-> 0]
  BY DEF Begin
<1>2. ASSUME NEW code
      PROVE  Returns(Begin(T), code)
             = [table |-> T, tcp |-> <<>>, serial |-> <<>>, enqueued |-> <<>>, exit |-> code]
  BY DEF Begin, Returns
<1>3. Begin(T).table = T /\ \A code : Returns(Begin(T), code).table = T
  BY DEF Begin, Returns
<1>4. SameLeases(T, T)
  BY DEF SameLeases
<1>5. Unsaid(T, Begin(T), <<>>)
  BY <1>1, <1>3, <1>4 DEF Unsaid
<1>6. ASSUME NEW code PROVE Unsaid(T, Returns(Begin(T), code), <<>>)
  BY <1>2, <1>3, <1>4 DEF Unsaid
<1> QED
  BY <1>5, <1>6

LEMMA UnsaidMoves ==
  ASSUME NEW T, NEW O, NEW serial, Unsaid(T, O, serial), NEW U, SameLeases(O.table, U)
  PROVE  Unsaid(T, SetTable(O, U), serial)
<1>1. PICK enqueued, exit : O = [table |-> O.table, tcp |-> <<>>, serial |-> serial,
                                 enqueued |-> enqueued, exit |-> exit]
  BY DEF Unsaid
<1>2. SetTable(O, U) = [table |-> U, tcp |-> <<>>, serial |-> serial,
                        enqueued |-> enqueued, exit |-> exit]
  BY <1>1 DEF SetTable
<1>3. SetTable(O, U).table = U
  BY <1>2
<1>4. SameLeases(T, U)
  BY DEF Unsaid, SameLeases
<1> QED
  BY <1>2, <1>3, <1>4 DEF Unsaid

LEMMA UnsaidSends ==
  ASSUME NEW T, NEW O, Unsaid(T, O, <<>>), NEW p
  PROVE  /\ Unsaid(T, sgSerialSend(O, p), <<p>>)
         /\ Unsaid(T, queueEnqueue(O, p), <<>>)
<1>1. PICK enqueued, exit : O = [table |-> O.table, tcp |-> <<>>, serial |-> <<>>,
                                 enqueued |-> enqueued, exit |-> exit]
  BY DEF Unsaid
<1>2. Append(<<>>, p) = <<p>>
  OBVIOUS
<1>3. sgSerialSend(O, p) = [table |-> O.table, tcp |-> <<>>, serial |-> Append(<<>>, p),
                            enqueued |-> enqueued, exit |-> exit]
  BY <1>1 DEF sgSerialSend
<1>4. queueEnqueue(O, p) = [table |-> O.table, tcp |-> <<>>, serial |-> <<>>,
                            enqueued |-> Append(enqueued, p), exit |-> exit]
  <2>1. \A more : [O EXCEPT !.enqueued = more]
                  = [table |-> O.table, tcp |-> <<>>, serial |-> <<>>,
                     enqueued |-> more, exit |-> exit]
    BY <1>1
  <2>2. O.enqueued = enqueued
    BY <1>1
  <2>3. queueEnqueue(O, p) = [O EXCEPT !.enqueued = Append(enqueued, p)]
    BY <2>2 DEF queueEnqueue
  <2> QED
    BY <2>1, <2>3
<1>5. sgSerialSend(O, p).table = O.table /\ queueEnqueue(O, p).table = O.table
  BY <1>3, <1>4
<1> QED
  BY <1>2, <1>3, <1>4, <1>5 DEF Unsaid

LEMMA SetCurrentUnsaid ==
  ASSUME NEW T, NEW O, NEW serial, Unsaid(T, O, serial), NEW ip \in Indices,
         NEW gdt \in Statuses
  PROVE  Unsaid(T, SetCurrent(O, ip, gdt), serial)
<1> DEFINE U == routingTableSetCurrentPacket(O.table, ip, {gdt})
<1>1. Legal(O.table)
  BY DEF Unsaid, SameLeases
<1>2. ip \in Addresses
  BY DEF Indices, Addresses
<1>3. Kept(O.table, U) /\ Legal(U)
  BY <1>1, <1>2, SequenceLegal
<1>4. Occupied(U) = Occupied(O.table)
  BY <1>1, SetCurrentMoves DEF Moved
<1>5. SameLeases(O.table, U)
  BY <1>3, <1>4 DEF SameLeases, Kept, RdidOf
<1> QED
  BY <1>5, UnsaidMoves DEF SetCurrent

(* Whoever is freed is told, and the server under the right rdid.          *)
LEMMA FreedPolitely ==
  ASSUME NEW T, NEW O, NEW S, NEW serial \in Seq(S), Unsaid(T, O, serial),
         NEW ip \in Addresses
  PROVE  Politely(T, routerFreeDevice(O, ip))
<1> DEFINE F == routerFreeDevice(O, ip)
<1>1. Legal(O.table) /\ SameLeases(T, O.table)
  BY DEF Unsaid, SameLeases
<1>2. CASE ip < 2 \/ ~ routingTableLookup(O.table, ip)
  <2>1. F = O
    BY <1>2 DEF routerFreeDevice
  <2> QED
    BY <1>1, <2>1 DEF Politely, SameLeases
<1>3. CASE ~ (ip < 2 \/ ~ routingTableLookup(O.table, ip))
  <2>1. ip \in Indices /\ ip \in Occupied(O.table)
    <3>1. ip \in Indices
      <4>1. ASSUME ip = N PROVE FALSE
        <5>1. Node(O.table, ip) = O.table.routing_table[0] /\ Node(O.table, ip) # NoNode
          BY <1>3, <4>1 DEF Node, locationToTablePtr, routingTableLookup
        <5>2. 0 \in Occupied(O.table)
          BY <5>1 DEF Occupied, Indices
        <5> QED
          BY <1>1, <5>2 DEF Legal, Unreserved, Router, Sensors
      <4> QED
        BY <4>1 DEF Indices, Addresses
    <3> QED
      BY <1>1, <1>3, <3>1, OccupiedTracked
  <2> DEFINE rdid == RdidOf(T, ip)
             tcp  == IF rdid = 0 THEN <<>> ELSE <<Goodbye(rdid)>>
             sent == sgTCPSend(O, Disconnect(ip))
             told == sgSerialSend(sent, Disconnect(ip))
             U    == routingTableFreeIP(O.table, ip)
  <2>2. routingTableIPToRDID(O.table, ip) = rdid
    BY <1>1, <2>1, OccupiedTracked DEF routingTableIPToRDID, SameLeases, RdidOf
  <2>3. PICK enqueued, exit : O = [table |-> O.table, tcp |-> <<>>, serial |-> serial,
                                   enqueued |-> enqueued, exit |-> exit]
    BY DEF Unsaid
  <2>4. sent = [table |-> O.table, tcp |-> tcp, serial |-> serial,
                enqueued |-> enqueued, exit |-> exit]
    <3>1. /\ Disconnect(ip).ip = ip /\ Disconnect(ip).kind = "CHIRPING"
          /\ Disconnect(ip).what = "NETWORK_DISCONNECTS"
      BY DEF Disconnect, Packet
    <3>2. sent = IF rdid = 0 THEN O
                 ELSE [O EXCEPT !.tcp = Append(@, Goodbye(rdid))]
      BY <2>2, <3>1 DEF sgTCPSend, Goodbye
    <3> HIDE DEF rdid
    <3>3. Append(<<>>, Goodbye(rdid)) = <<Goodbye(rdid)>>
      OBVIOUS
    <3> HIDE DEF sent
    <3>4. CASE rdid = 0
      BY <2>3, <3>2, <3>4
    <3>5. CASE rdid # 0
      <4>1. sent = [O EXCEPT !.tcp = <<Goodbye(rdid)>>]
        BY <2>3, <3>2, <3>3, <3>5
      <4> QED
        BY <2>3, <3>5, <4>1
    <3> QED
      BY <3>4, <3>5
  <2> HIDE DEF sent
  <2>5. told = [table |-> O.table, tcp |-> tcp, serial |-> Append(serial, Disconnect(ip)),
                enqueued |-> enqueued, exit |-> exit]
    <3> HIDE DEF tcp
    <3>1. \A more : [sent EXCEPT !.serial = more]
                    = [table |-> O.table, tcp |-> tcp, serial |-> more,
                       enqueued |-> enqueued, exit |-> exit]
      BY <2>4
    <3>2. sent.serial = serial
      BY <2>4
    <3>3. told = [sent EXCEPT !.serial = Append(serial, Disconnect(ip))]
      BY <3>2 DEF sgSerialSend
    <3> QED
      BY <3>1, <3>3
  <2>6. F = SetTable(told, routingTableFreeIP(told.table, ip))
    BY <1>3 DEF routerFreeDevice, sent
  <2> HIDE DEF told, F
  <2>7. F = [table |-> U, tcp |-> tcp, serial |-> Append(serial, Disconnect(ip)),
             enqueued |-> enqueued, exit |-> exit]
    BY <2>5, <2>6 DEF SetTable
  <2> HIDE DEF U
  <2>8. F.table = U /\ F.tcp = tcp /\ F.serial = Append(serial, Disconnect(ip))
    BY <2>7
  <2>9. Occupied(T) \ {ip} \subseteq Occupied(U)
    BY <1>1, FreeUnmoved DEF SameLeases, U
  <2>10. \E k \in DOMAIN Append(serial, Disconnect(ip)) :
           Append(serial, Disconnect(ip))[k] = Disconnect(ip)
    <3> DEFINE longer == Append(serial, Disconnect(ip))
    <3>1. /\ Len(serial) + 1 \in DOMAIN longer
          /\ longer[Len(serial) + 1] = Disconnect(ip)
      OBVIOUS
    <3> QED
      BY <3>1
  <2> HIDE DEF rdid
  <2>11. rdid = 0 \/ \E k \in DOMAIN tcp : tcp[k] = Goodbye(rdid)
    <3>1. rdid # 0 => tcp = <<Goodbye(rdid)>>
      OBVIOUS
    <3> HIDE DEF tcp
    <3> QED
      BY <3>1
  <2>12. Announced(T, F, ip)
    BY <2>8, <2>10, <2>11 DEF Announced, rdid
  <2> QED
    BY <2>8, <2>9, <2>12 DEF Politely, F
<1> QED
  BY <1>2, <1>3

-----------------------------------------------------------------------------
(* All devices at once.                                                    *)

(* InOrder lists a set of addresses.                                       *)
LEMMA InOrderLength ==
  ASSUME NEW S
  PROVE  DOMAIN InOrder(S) = 1 .. Cardinality(S)
BY DEF InOrder

LEMMA InOrderLists ==
  ASSUME NEW S \in SUBSET Indices, NEW i \in S
  PROVE  \E k \in 1 .. Cardinality(S) : InOrder(S)[k] = i
<1> DEFINE below(j) == {m \in S : m < j}
           k == Cardinality(below(i)) + 1
<1>1. IsFiniteSet(S)
  <2>1. IsFiniteSet(Indices)
    BY FS_Interval DEF Indices
  <2> QED
    BY <2>1, FS_Subset
<1>2. \A j \in S : below(j) \subseteq S /\ j \notin below(j) /\ j \in Nat
  BY DEF Indices
<1>3. \A j \in S : IsFiniteSet(below(j)) /\ Cardinality(below(j)) \in Nat
  BY <1>1, <1>2, FS_Subset, FS_CardinalityType
<1>4. Cardinality(S) \in Nat
  BY <1>1, FS_CardinalityType
<1>5. Cardinality(below(i)) < Cardinality(S)
  <2>1. below(i) \subseteq S /\ below(i) # S
    BY <1>2
  <2> HIDE DEF below
  <2>2. Cardinality(below(i)) <= Cardinality(S) /\ Cardinality(below(i)) # Cardinality(S)
    BY <1>1, <2>1, FS_Subset
  <2> QED
    BY <1>3, <1>4, <2>2
<1>6. ASSUME NEW j \in S, Cardinality(below(j)) = Cardinality(below(i)) PROVE j = i
  <2>1. ASSUME NEW a \in S, NEW b \in S, a < b
        PROVE  Cardinality(below(a)) # Cardinality(below(b))
    <3>1. below(a) \subseteq below(b) /\ a \in below(b) /\ a \notin below(a)
      BY <1>2, <2>1
    <3>2. IsFiniteSet(below(b)) /\ below(a) # below(b)
      BY <1>3, <3>1
    <3> HIDE DEF below
    <3> QED
      BY <3>1, <3>2, FS_Subset
  <2>2. j \in Nat /\ i \in Nat
    BY <1>2
  <2>3. ~ (j < i) /\ ~ (i < j)
    <3> HIDE DEF below
    <3> QED
      BY <1>6, <2>1
  <2> QED
    BY <2>2, <2>3
<1>7. k \in 1 .. Cardinality(S) /\ k - 1 = Cardinality(below(i))
  <2>1. Cardinality(below(i)) \in Nat
    BY <1>3
  <2> HIDE DEF below
  <2> QED
    BY <1>4, <1>5, <2>1
<1>8. k \in 1 .. Cardinality(S)
  BY <1>7
<1>9. InOrder(S) = [n \in 1 .. Cardinality(S) |->
                      CHOOSE j \in S : Cardinality(below(j)) = n - 1]
  BY DEF InOrder
<1>10. InOrder(S)[k] = CHOOSE j \in S : Cardinality(below(j)) = k - 1
  BY <1>8, <1>9
<1>11. InOrder(S)[k] = i
  <2> HIDE DEF below, k
  <2> QED
    BY <1>6, <1>7, <1>10
<1> QED
  BY <1>8, <1>11

LEMMA FreedAllPolitely ==
  ASSUME NEW T, Legal(T)
  PROVE  Politely(T, routerFreeAllDevices(Begin(T)))
<1> DEFINE sensors   == {i \in Occupied(T) : i >= 2}
           before(i) == Cardinality({j \in sensors : j < i})
           leaving   == {i \in sensors : before(i) = 0 \/ T.table_alloc - before(i) >= 2}
           freed     == {i \in sensors :
                           T.table_alloc - Cardinality({j \in sensors : j < i}) >= 2}
           order     == InOrder(leaving)
           Told(i)   == [kind |-> "CHIRPING", what |-> "NETWORK_DISCONNECTS",
                         rdid |-> routingTableIPToRDID(T, i)]
           tcp       == [k \in DOMAIN order |-> Told(order[k])]
           serial    == [k \in DOMAIN order |-> Disconnect(order[k])]
           U         == routingTableFreeAllIPs(T)
           O         == routerFreeAllDevices(Begin(T))
<1>1. T \in Tables /\ Occupied(T) \subseteq Indices
  BY DEF Legal, Occupied
<1>2. leaving \in SUBSET Indices /\ freed \subseteq leaving
  BY <1>1
<1>3. \A i \in leaving : \E k \in DOMAIN order : order[k] = i
  <2> HIDE DEF leaving
  <2> QED
    BY <1>2, InOrderLists, InOrderLength
<1>4. \A i \in Occupied(T) \ Occupied(U) : i \in freed
  <2>1. U = [T EXCEPT !.routing_table = [i \in Indices |->
                          IF i \in freed THEN NoNode ELSE T.routing_table[i]],
                      !.table_alloc = @ - Cardinality(freed)]
    BY DEF routingTableFreeAllIPs
  <2> HIDE DEF U, freed
  <2>2. U.routing_table = [i \in Indices |-> IF i \in freed THEN NoNode
                                             ELSE T.routing_table[i]]
    BY <1>1, <2>1 DEF Tables
  <2> QED
    BY <2>2 DEF Occupied
<1>5. \E n \in Nat : DOMAIN order = 1 .. n
  <2>1. DOMAIN order = 1 .. Cardinality(leaving)
    <3> HIDE DEF leaving
    <3> QED
      BY InOrderLength
  <2>2. Cardinality(leaving) \in Nat
    <3> HIDE DEF leaving
    <3>1. IsFiniteSet(Indices)
      BY FS_Interval DEF Indices
    <3> QED
      BY <1>2, <3>1, FS_Subset, FS_CardinalityType
  <2> HIDE DEF leaving, order
  <2> QED
    BY <2>1, <2>2
<1>6. O = [table |-> U, tcp |-> <<>> \o tcp, serial |-> <<>> \o serial,
           enqueued |-> <<>>, exit |-> 0]
  <2>1. Begin(T) = [table |-> T, tcp |-> <<>>, serial |-> <<>>, enqueued |-> <<>>, exit |-> 0]
    BY DEF Begin
  <2>2. Begin(T).table = T
    BY DEF Begin
  <2>3. O = [Begin(T) EXCEPT !.table = U, !.tcp = @ \o tcp, !.serial = @ \o serial]
    BY <2>2, Zenon DEF routerFreeAllDevices
  <2>4. O = [Begin(T) EXCEPT !.table = U, !.tcp = <<>> \o tcp, !.serial = <<>> \o serial]
    <3> HIDE DEF U, tcp, serial
    <3> QED
      BY <2>1, <2>3
  <2> HIDE DEF O, U, tcp, serial
  <2>5. \A t, s : [Begin(T) EXCEPT !.table = U, !.tcp = t, !.serial = s]
                  = [table |-> U, tcp |-> t, serial |-> s, enqueued |-> <<>>, exit |-> 0]
    <3> TAKE t, s
    <3>1. PICK B : B = Begin(T)
      OBVIOUS
    <3>2. B = [table |-> T, tcp |-> <<>>, serial |-> <<>>, enqueued |-> <<>>, exit |-> 0]
      BY <2>1, <3>1
    <3>3. [B EXCEPT !.table = U, !.tcp = t, !.serial = s]
          = [table |-> U, tcp |-> t, serial |-> s, enqueued |-> <<>>, exit |-> 0]
      <4>1. [B EXCEPT !.table = U, !.tcp = t, !.serial = s]
            \in [table : {U}, tcp : {t}, serial : {s}, enqueued : {<<>>}, exit : {0}]
        BY <3>2
      <4>2. \A V \in [table : {U}, tcp : {t}, serial : {s}, enqueued : {<<>>}, exit : {0}] :
              V = [table |-> U, tcp |-> t, serial |-> s, enqueued |-> <<>>, exit |-> 0]
        OBVIOUS
      <4> QED
        BY <4>1, <4>2, Zenon
    <3> QED
      BY <3>1, <3>3
  <2> QED
    BY <2>4, <2>5
<1> HIDE DEF order, leaving, freed, U
<1>7. <<>> \o tcp = tcp /\ <<>> \o serial = serial
  <2>1. ASSUME NEW f, NEW n \in Nat, f = [k \in 1 .. n |-> f[k]] PROVE <<>> \o f = f
    <3>1. PICK S : f \in [1 .. n -> S]
      <4>1. f \in [1 .. n -> {f[k] : k \in 1 .. n}]
        BY <2>1
      <4> QED
        BY <4>1
    <3>2. f \in Seq(S)
      BY <3>1, SeqDef
    <3> QED
      BY <3>2, ConcatEmptySeq
  <2>2. PICK n \in Nat : DOMAIN order = 1 .. n
    BY <1>5
  <2>3. tcp = [k \in 1 .. n |-> tcp[k]] /\ serial = [k \in 1 .. n |-> serial[k]]
    BY <2>2
  <2> HIDE DEF tcp, serial
  <2> QED
    BY <2>1, <2>3
<1>8. O.table = U /\ O.tcp = tcp /\ O.serial = serial
  <2> HIDE DEF O, tcp, serial
  <2> QED
    BY <1>6, <1>7
<1> HIDE DEF O
<1>9. ASSUME NEW i \in Occupied(T) \ Occupied(O.table) PROVE Announced(T, O, i)
  <2>1. PICK k \in DOMAIN order : order[k] = i
    BY <1>2, <1>3, <1>4, <1>8
  <2>2. i \in Indices
    BY <1>1
  <2>3. routingTableIPToRDID(T, i) = RdidOf(T, i)
    BY <2>2, OccupiedTracked DEF routingTableIPToRDID, RdidOf
  <2>4. tcp[k] = Goodbye(RdidOf(T, i)) /\ serial[k] = Disconnect(i)
    BY <2>1, <2>3 DEF Goodbye
  <2>5. k \in DOMAIN tcp /\ k \in DOMAIN serial
    BY <2>1
  <2> HIDE DEF tcp, serial
  <2> QED
    BY <1>8, <2>4, <2>5 DEF Announced
<1> QED
  BY <1>9 DEF Politely, O

-----------------------------------------------------------------------------
(* Who leaves in a step.                                                   *)

LEMMA StayingIsPolite ==
  ASSUME NEW T, NEW O, Occupied(T) \subseteq Occupied(O.table)
  PROVE  Politely(T, O)
BY DEF Politely

LEMMA ArrivingIsPolite ==
  ASSUME NEW T, NEW O, NEW ip, NEW place, NEW next, NEW enqueued,
         Arrives(T, O, ip, place, next, enqueued)
  PROVE  Politely(T, O)
BY StayingIsPolite DEF Arrives, Moved

LEMMA PeckedPolitely ==
  ASSUME NEW T, Legal(T), NEW p \in Packets, p.kind = "PECKING", ~ Steers(p),
         NEW garbage
  PROVE  Politely(T, Handle(Begin(T), p, garbage))
<1> DEFINE ip     == p.to
           pecked == SetCurrent(Begin(T), ip, "PECKING")
           sent   == sgSerialSend(pecked, p)
           O      == Handle(Begin(T), p, garbage)
<1>1. ip \in Indices /\ ip \in Addresses
  BY PacketFacts DEF About, Indices, Addresses
<1>2. O = routerHandlePeck(Begin(T), p)
  BY DEF Handle
<1>3. p.what \in {"SERVER_REFUSES", "SENSOR_REFUSES", "UNKNOWN"}
  BY PacketFacts DEF Steers, Whats
<1>4. CASE ~ chkValidCTRLPath(Begin(T), ip, "PECKING")
  <2>1. O = Returns(Begin(T), -1)
    BY <1>2, <1>4 DEF routerHandlePeck
  <2>2. O.table = T
    BY <2>1 DEF Begin, Returns
  <2> QED
    BY <2>2, StayingIsPolite
<1>5. CASE chkValidCTRLPath(Begin(T), ip, "PECKING")
  <2>1. Unsaid(T, pecked, <<>>)
    <3>1. "PECKING" \in Statuses
      BY DEF Statuses
    <3> QED
      BY <1>1, <3>1, UnsaidBegins, SetCurrentUnsaid
  <2>2. CASE p.what = "UNKNOWN"
    <3> DEFINE F == routerFreeDevice(pecked, ip)
    <3>1. O = Returns(F, 1)
      BY <1>2, <1>5, <2>2 DEF routerHandlePeck
    <3> HIDE DEF pecked, O
    <3>2. <<>> \in Seq({})
      OBVIOUS
    <3>3. Politely(T, F)
      BY <1>1, <2>1, <3>2, FreedPolitely
    <3>4. \E U, enqueued, exit : Yields(F, U, enqueued, exit)
      <4>1. /\ Legal(pecked.table)
            /\ \E enqueued, exit : Yields(pecked, pecked.table, enqueued, exit)
        BY <2>1 DEF Unsaid, SameLeases, Yields
      <4> QED
        BY <1>1, <4>1, FreeDeviceYields
    <3> HIDE DEF F
    <3>5. PICK t, tcp, serial, enqueued, exit :
            F = [table |-> t, tcp |-> tcp, serial |-> serial,
                 enqueued |-> enqueued, exit |-> exit]
      BY <3>4 DEF Yields
    <3>6. O.table = F.table /\ O.tcp = F.tcp /\ O.serial = F.serial
      BY <3>1, <3>5 DEF Returns
    <3> QED
      BY <3>3, <3>6 DEF Politely, Announced, O
  <2>3. CASE p.what \in {"SERVER_REFUSES", "SENSOR_REFUSES"}
    <3>1. O = routerFreeDevice(sent, ip)
      BY <1>2, <1>5, <2>3 DEF routerHandlePeck
    <3> HIDE DEF pecked, O
    <3>2. Unsaid(T, sent, <<p>>)
      BY <2>1, UnsaidSends
    <3> HIDE DEF sent
    <3>3. <<p>> \in Seq({p})
      OBVIOUS
    <3>4. Politely(T, O)
      BY <1>1, <3>1, <3>2, <3>3, FreedPolitely
    <3> QED
      BY <3>4 DEF O
  <2> QED
    BY <1>3, <2>2, <2>3
<1> QED
  BY <1>4, <1>5

LEMMA ChirpedPolitely ==
  ASSUME NEW T, Legal(T), NEW p \in Packets, p.kind = "CHIRPING", NEW garbage
  PROVE  Politely(T, Handle(Begin(T), p, garbage))
<1> DEFINE ip      == p.ip
           chirped == SetCurrent(Begin(T), ip, "CHIRPING")
           O       == Handle(Begin(T), p, garbage)
<1>1. ip \in Indices /\ ip \in Addresses
  BY PacketFacts DEF About, Indices, Addresses
<1>2. O = routerHandleChirp(Begin(T), p)
  BY DEF Handle
<1>3. p.what \in {"COMMAND", "DATA", "NETWORK_DISCONNECTS", "SENSOR_DISCONNECT"}
  BY PacketFacts DEF Whats
<1>4. "CHIRPING" \in Statuses /\ {"LEASED"} \in SUBSET Statuses
  BY DEF Statuses
<1>5. CASE p.what = "SENSOR_DISCONNECT" /\ ~ chkValidCTRLPath(Begin(T), ip, "CHIRPING")
  <2>1. O = Returns(Begin(T), -1)
    BY <1>2, <1>5 DEF routerHandleChirp
  <2>2. O.table = T
    BY <2>1 DEF Begin, Returns
  <2> QED
    BY <2>2, StayingIsPolite
<1>6. CASE p.what = "COMMAND"
  <2>1. O = sgSerialSend(SetNext(chirped, ip, {"LEASED"}), p)
    BY <1>2, <1>6 DEF routerHandleChirp
  <2>2. Arrives(T, O, ip, {"CHIRPING"}, {"LEASED"}, <<>>)
    BY <1>1, <1>4, <2>1, HandlersArrive
  <2> QED
    BY <2>2, ArrivingIsPolite
<1>7. CASE p.what = "DATA"
  <2>1. O = sgTCPSend(Hear(SetNext(chirped, ip, {"LEASED"}), ip), p)
    BY <1>2, <1>7 DEF routerHandleChirp
  <2>2. \E enqueued :
          Arrives(T, sgTCPSend(Hear(SetNext(chirped, ip, {"LEASED"}), ip), p), ip,
                  {"CHIRPING"}, {"LEASED"}, enqueued)
    BY <1>1, <1>4, HandlersArrive
  <2> HIDE DEF O
  <2>3. \E enqueued : Arrives(T, O, ip, {"CHIRPING"}, {"LEASED"}, enqueued)
    BY <2>1, <2>2
  <2> QED
    BY <2>3, ArrivingIsPolite DEF O
<1>8. CASE /\ p.what \in {"NETWORK_DISCONNECTS", "SENSOR_DISCONNECT"}
           /\ ~ (p.what = "SENSOR_DISCONNECT" /\ ~ chkValidCTRLPath(Begin(T), ip, "CHIRPING"))
  <2>1. O = routerFreeDevice(chirped, ip)
    BY <1>2, <1>8 DEF routerHandleChirp
  <2>2. Unsaid(T, chirped, <<>>)
    BY <1>1, <1>4, UnsaidBegins, SetCurrentUnsaid
  <2>3. <<>> \in Seq({})
    OBVIOUS
  <2> HIDE DEF chirped, O
  <2>4. Politely(T, O)
    BY <1>1, <2>1, <2>2, <2>3, FreedPolitely
  <2> QED
    BY <2>4 DEF O
<1> QED
  BY <1>3, <1>5, <1>6, <1>7, <1>8

(* What the handlers free is announced.                                    *)
LEMMA HandledPolitely ==
  ASSUME NEW T, Legal(T), Router \in Occupied(T), NEW p \in Packets,
         NEW garbage \in Garbage
  PROVE  Politely(T, Handle(Begin(T), p, garbage))
<1> DEFINE O == Handle(Begin(T), p, garbage)
<1>1. \/ O = Returns(Begin(T), -1) /\ p.kind # "EYEBALLING"
      \/ Steered(T, O, p) \/ Chirped(T, O, p) \/ Joined(T, O, p) \/ Idle(T, O, p)
  BY HandleOutcome
<1>2. p.kind \in DOMAIN Whats \ {"HATCHING"} /\ p.ip \in Addresses /\ About(p) \in Indices
  BY PacketFacts
<1>3. CASE p.kind = "PECKING" /\ ~ Steers(p)
  BY <1>3, PeckedPolitely
<1>4. CASE p.kind = "CHIRPING"
  BY <1>4, ChirpedPolitely
<1>5. CASE p.kind = "HEARTBEAT"
  <2> DEFINE ip == p.ip
             B  == Begin(T)
  <2>1. ip \in Indices
    BY <1>5, PacketFacts
  <2>2. O \in {Hear(B, ip), sgSerialSend(B, p), B}
    BY <1>5 DEF Handle, routerHandleHeartbeat
  <2>3. Arrives(T, B, ip, PlaceOf(T, ip), NextOf(T, ip), <<>>)
    BY SetsOff
  <2> HIDE DEF B, O
  <2>4. Arrives(T, sgSerialSend(B, p), ip, PlaceOf(T, ip), NextOf(T, ip), <<>>)
    BY <2>3, SendsArrive
  <2>5. \E heard : Arrives(T, Hear(B, ip), ip, PlaceOf(T, ip), NextOf(T, ip), heard)
    BY <2>1, <2>3, HearArrives
  <2>6. \E enqueued : Arrives(T, O, ip, PlaceOf(T, ip), NextOf(T, ip), enqueued)
    BY <2>2, <2>3, <2>4, <2>5
  <2> QED
    BY <2>6, ArrivingIsPolite DEF O
<1>6. CASE p.kind \in {"SERVSTATUS", "FLYING"}
  <2>1. O \in {sgTCPSend(Begin(T), p), sgSerialSend(Begin(T), p)}
    BY <1>6 DEF Handle, routerHandleServerStatus, routerHandleFly
  <2> HIDE DEF O
  <2>2. Yields(O, T, <<>>, 0)
    BY <2>1, BeginYields, SendsYield
  <2>3. O.table = T
    BY <2>2, OutcomeFields
  <2> QED
    BY <2>3, StayingIsPolite DEF O
<1>7. CASE p.kind = "EYEBALLING"
  <2>1. Joined(T, O, p)
    BY <1>7, EyeballHandled
  <2> QED
    BY <2>1, StayingIsPolite DEF Joined
<1>8. CASE Steers(p)
  <2>1. CASE Admitted(T, p)
    <3>1. \E enqueued : Arrives(T, O, About(p), {p.kind}, NextAfter(p), enqueued)
      BY <1>2, <1>8, <2>1, StepTaken
    <3> QED
      BY <3>1, ArrivingIsPolite
  <2>2. CASE ~ Admitted(T, p)
    <3>1. O = Returns(Begin(T), -1)
      BY <1>2, <1>8, <2>2, StepTaken
    <3>2. O.table = T
      BY <3>1 DEF Begin, Returns
    <3> QED
      BY <3>2, StayingIsPolite
  <2> QED
    BY <2>1, <2>2
<1> QED
  BY <1>2, <1>3, <1>4, <1>5, <1>6, <1>7, <1>8 DEF Whats, Steers

LEMMA DispatchedPolitely ==
  ASSUME NEW T, Legal(T), Router \in Occupied(T), NEW p \in Packets,
         NEW garbage \in Garbage
  PROVE  Politely(T, Dispatched(T, p, garbage))
<1> DEFINE H == Handle(Begin(T), p, garbage)
           O == Dispatched(T, p, garbage)
<1>1. Politely(T, H)
  BY HandledPolitely
<1>2. O = IF H.exit = -1 /\ H.table.default_strictness = "STRICT"
          THEN routerFreeDevice(H, p.ip) ELSE H
  BY DEF Dispatched
<1>3. H.exit = -1 => H = Returns(Begin(T), -1)
  BY HandleOutcome
<1> HIDE DEF H, O
<1>4. ASSUME H.exit = -1 PROVE Politely(T, routerFreeDevice(H, p.ip))
  <2>1. Unsaid(T, H, <<>>)
    BY <1>3, <1>4, UnsaidBegins
  <2>2. <<>> \in Seq({}) /\ p.ip \in Addresses
    BY PacketFacts
  <2> QED
    BY <2>1, <2>2, FreedPolitely
<1>5. Politely(T, O)
  BY <1>1, <1>2, <1>4
<1> QED
  BY <1>5 DEF O

LEMMA LostPolitely ==
  ASSUME NEW T, Legal(T), NEW ip \in Indices
  PROVE  Politely(T, HeartbeatTurn(T, ip))
<1> DEFINE pinged  == routingTableHeartbeatDevice(T, ip)
           lost    == routingTableIsDeviceLost(pinged, ip) # 0
           ping    == Packet("HEARTBEAT", "TO_SENSOR", ip, 0)
           O       == IF routingTableIsDeviceLost(T, ip) = 0
                      THEN queueEnqueue(Begin(T), ping) ELSE Begin(T)
           notice  == Packet("SERVSTATUS", IF lost THEN "lost" ELSE "stale", ip, 0)
           told    == SetTable(O, pinged)
           noticed == queueEnqueue(told, notice)
<1>1. SameLeases(T, pinged)
  <2>1. Moved(T, pinged, ip, PlaceOf(T, ip), NextOf(T, ip))
    BY HealthMoves
  <2>2. \A i \in Occupied(T) : RdidOf(pinged, i) = RdidOf(T, i)
    <3>1. ip \in Addresses
      BY DEF Indices, Addresses
    <3> QED
      BY <2>1, <3>1, HeartbeatLegal DEF Moved, Kept, RdidOf
  <2> QED
    BY <2>1, <2>2 DEF Moved, SameLeases
<1>2. HeartbeatTurn(T, ip) \in {told, noticed, routerFreeDevice(noticed, ip)}
  BY DEF HeartbeatTurn
<1> HIDE DEF pinged, ping, notice
<1>3. Unsaid(T, O, <<>>)
  BY UnsaidBegins, UnsaidSends
<1>4. SameLeases(O.table, pinged)
  <2>1. O.table = T
    BY DEF Begin, queueEnqueue
  <2> QED
    BY <1>1, <2>1
<1> HIDE DEF O
<1>5. Unsaid(T, told, <<>>)
  BY <1>3, <1>4, UnsaidMoves
<1> HIDE DEF told
<1>6. Unsaid(T, noticed, <<>>)
  BY <1>5, UnsaidSends
<1> HIDE DEF noticed
<1>7. Politely(T, told) /\ Politely(T, noticed)
  BY <1>5, <1>6, StayingIsPolite DEF Unsaid, SameLeases
<1>8. Politely(T, routerFreeDevice(noticed, ip))
  <2>1. <<>> \in Seq({}) /\ ip \in Addresses
    BY DEF Indices, Addresses
  <2> QED
    BY <1>6, <2>1, FreedPolitely
<1> QED
  BY <1>2, <1>7, <1>8

LEMMA NextIsPolite ==
  ASSUME IInv, [Next]_routerVars, ~ UNCHANGED routerVars
  PROVE  table' = outcome'.table /\ Politely(table, outcome')
<1>1. Legal(table)
  BY DEF IInv, Good
<1>2. ASSUME NEW O, NEW p, Becomes(O, p), Politely(table, O)
      PROVE  table' = outcome'.table /\ Politely(table, outcome')
  BY <1>2 DEF Becomes
<1>3. CASE DispatchHatch
  <2>1. Occupied(table) = {}
    BY <1>3 DEF IInv, DispatchHatch
  <2>2. PICK O, p : Becomes(O, p)
    BY <1>3 DEF DispatchHatch
  <2> QED
    BY <1>2, <2>1, <2>2, StayingIsPolite
<1>4. CASE Dispatch
  BY <1>1, <1>2, <1>4, DispatchedPolitely DEF IInv, Dispatch
<1>5. CASE Heartbeat
  <2>1. PICK ip \in {Router} \cup Sensors : Becomes(HeartbeatTurn(table, ip), NoPacket)
    BY <1>5 DEF Heartbeat
  <2>2. ip \in Indices
    BY DEF Router, Sensors, Indices
  <2> QED
    BY <1>1, <1>2, <2>1, <2>2, LostPolitely
<1>6. CASE DropDevice
  <2>1. PICK rdid \in Rdids \ {0} :
          Becomes(routerFreeDevice(Begin(table), routingTableRDIDToIP(table, rdid)), NoPacket)
    BY <1>6 DEF DropDevice
  <2>2. routingTableRDIDToIP(table, rdid) \in Addresses
    BY RdidAddress
  <2>3. <<>> \in Seq({})
    OBVIOUS
  <2> QED
    BY <1>1, <1>2, <2>1, <2>2, <2>3, UnsaidBegins, FreedPolitely
<1>7. CASE DropAll
  BY <1>1, <1>2, <1>7, FreedAllPolitely DEF DropAll
<1>8. CASE SetAuthLevel
  <2>1. PICK level \in Strictnesses \ {"ERROR"} :
          Becomes(Begin(SetStrictness(table, level)), NoPacket)
    BY <1>8 DEF SetAuthLevel
  <2>2. Occupied(table) \subseteq Occupied(SetStrictness(table, level))
    BY <1>1, StrictnessOccupied
  <2>3. Begin(SetStrictness(table, level)).table = SetStrictness(table, level)
    BY DEF Begin
  <2> QED
    BY <1>2, <2>1, <2>2, <2>3, StayingIsPolite
<1> QED
  BY <1>3, <1>4, <1>5, <1>6, <1>7, <1>8 DEF Next

(* Nobody leaves in silence: the server hears of it under the rdid the     *)
(* device had, the sensor at its address, whoever frees it                 *)
(* (payload_handlers.c:69-78).                                             *)
THEOREM DeparturesAnnounced == Spec => DeparturesAreAnnounced
<1>1. ASSUME IInv, [Next]_routerVars, ~ UNCHANGED routerVars,
             NEW i \in Occupied(table) \ Occupied(table')
      PROVE  /\ table.routing_table[i].rdid = 0 \/ \E k \in DOMAIN outcome'.tcp :
                  outcome'.tcp[k] = [kind |-> "CHIRPING", what |-> "NETWORK_DISCONNECTS",
                                     rdid |-> table.routing_table[i].rdid]
             /\ \E k \in DOMAIN outcome'.serial : outcome'.serial[k] = Disconnect(i)
  <2>1. Announced(table, outcome', i)
    BY <1>1, NextIsPolite DEF Politely
  <2> QED
    BY <2>1 DEF Announced, Goodbye, RdidOf
<1>2. IInv /\ [Next]_routerVars
      => [\A i \in Occupied(table) \ Occupied(table') :
            /\ table.routing_table[i].rdid = 0 \/ \E k \in DOMAIN outcome'.tcp :
                 outcome'.tcp[k] = [kind |-> "CHIRPING", what |-> "NETWORK_DISCONNECTS",
                                    rdid |-> table.routing_table[i].rdid]
            /\ \E k \in DOMAIN outcome'.serial : outcome'.serial[k] = Disconnect(i)]_routerVars
  BY <1>1
<1> QED
  BY <1>2, Invariance, PTL DEF Spec, DeparturesAreAnnounced

-----------------------------------------------------------------------------
(* The counter under all this (HeartbeatWatch): for every pair of          *)
(* thresholds the values hbDecrement and hbRefresh return tell the status  *)
(* of the device, and a device goes stale and is lost exactly on time.     *)

(* The health is what the pings since the last answer left of ping_thres.  *)
HeartbeatInv ==
  /\ WatchTypeOK
  /\ watched.device_health = watched.ping_thres - silence
  /\ known = Status(watched)

(* Reading a change off before and after loses nothing.                    *)
LEMMA XorUndo ==
  ASSUME NEW before, NEW after
  PROVE  Xor(before, Xor(before, after)) = after
BY DEF Xor

(* The status of a device with sane thresholds, in terms of the pings.     *)
LEMMA StatusBits ==
  ASSUME NEW h \in [device_health : Int, stale_thres : Int, ping_thres : Int]
  PROVE  /\ Status(h) \in SUBSET {1, 2}
         /\ 1 \in Status(h) <=> h.device_health <= h.ping_thres - h.stale_thres
         /\ 2 \in Status(h) <=> h.device_health <= 0
BY DEF Status, hbIsDeviceStale, hbIsDeviceLost

(* The inductive invariant holds in every reachable state.                 *)
THEOREM HeartbeatInvariant == WatchSpec => []HeartbeatInv
<1>1. WatchInit => HeartbeatInv
  <2> SUFFICES ASSUME WatchInit PROVE HeartbeatInv
    OBVIOUS
  <2>1. PICK ping \in 1 .. MaxPing, stale \in 1 .. MaxPing :
          stale <= ping /\ watched = hbInit(ping, stale)
    BY DEF WatchInit
  <2>2. watched = [device_health |-> ping, stale_thres |-> stale, ping_thres |-> ping]
    BY <2>1 DEF hbInit
  <2>3. known = {} /\ silence = 0
    BY DEF WatchInit
  <2>4. WatchTypeOK /\ watched.device_health = watched.ping_thres - silence
    BY <2>1, <2>2, <2>3, MaxPingAssumption DEF WatchTypeOK
  <2>5. Status(watched) = {}
    BY <2>1, <2>2, MaxPingAssumption DEF Status, hbIsDeviceStale, hbIsDeviceLost
  <2> QED
    BY <2>3, <2>4, <2>5 DEF HeartbeatInv
<1>2. HeartbeatInv /\ [WatchNext]_watchVars => HeartbeatInv'
  <2> SUFFICES ASSUME HeartbeatInv, [WatchNext]_watchVars PROVE HeartbeatInv'
    OBVIOUS
  <2> USE MaxPingAssumption
  <2>1. watched \in [device_health : Int, stale_thres : Int, ping_thres : Int]
    BY DEF HeartbeatInv, WatchTypeOK
  <2>2. CASE Decrement
    <3>1. watched' = [watched EXCEPT !.device_health = IF @ > 0 THEN @ - 1 ELSE @]
      BY <2>2 DEF Decrement, Pinged
    <3>2. /\ watched' \in [device_health : 0 .. MaxPing, stale_thres : 1 .. MaxPing,
                           ping_thres : 1 .. MaxPing]
          /\ watched'.stale_thres = watched.stale_thres
          /\ watched'.ping_thres = watched.ping_thres
      BY <3>1, <2>1 DEF HeartbeatInv, WatchTypeOK
    <3>3. /\ silence' \in 0 .. watched.ping_thres
          /\ watched'.device_health = watched.ping_thres - silence'
      BY <3>1, <2>1, <2>2 DEF HeartbeatInv, WatchTypeOK, Decrement
    <3>4. known' = Status(watched')
      BY <2>2, XorUndo DEF HeartbeatInv, Decrement, hbDecrement
    <3>5. known' \in SUBSET {1, 2}
      BY <3>4 DEF Status
    <3> QED
      BY <3>2, <3>3, <3>4, <3>5 DEF HeartbeatInv, WatchTypeOK
  <2>3. CASE Refresh
    <3>1. watched' = [watched EXCEPT !.device_health = watched.ping_thres]
      BY <2>3 DEF Refresh, Heard
    <3>2. /\ watched' \in [device_health : 0 .. MaxPing, stale_thres : 1 .. MaxPing,
                           ping_thres : 1 .. MaxPing]
          /\ watched'.stale_thres = watched.stale_thres
          /\ watched'.ping_thres = watched.ping_thres
          /\ watched'.device_health = watched.ping_thres
      BY <3>1, <2>1 DEF HeartbeatInv, WatchTypeOK
    <3>3. silence' = 0
      BY <2>3 DEF Refresh
    <3>4. known' = Status(watched')
      BY <2>3, XorUndo DEF HeartbeatInv, Refresh, hbRefresh
    <3>5. known' \in SUBSET {1, 2}
      BY <3>4 DEF Status
    <3> QED
      BY <3>2, <3>3, <3>4, <3>5 DEF HeartbeatInv, WatchTypeOK
  <2>4. CASE UNCHANGED watchVars
    BY <2>4 DEF HeartbeatInv, WatchTypeOK, Status, hbIsDeviceStale, hbIsDeviceLost, watchVars
  <2> QED
    BY <2>2, <2>3, <2>4 DEF WatchNext
<1> QED
  BY <1>1, <1>2, PTL DEF WatchSpec

(* The values returned tell the status (heartbeat.c:170-217), for every    *)
(* pair of thresholds.                                                     *)
THEOREM ReturnsSuffice == WatchSpec => []ReturnsTellStatus
<1>1. HeartbeatInv => ReturnsTellStatus
  BY DEF HeartbeatInv, ReturnsTellStatus
<1> QED
  BY <1>1, HeartbeatInvariant, PTL

(* Stale and lost exactly on time, for every pair of thresholds.           *)
THEOREM OnTime == WatchSpec => []LostAndStaleOnTime
<1>1. HeartbeatInv => LostAndStaleOnTime
  <2> SUFFICES ASSUME HeartbeatInv PROVE LostAndStaleOnTime
    OBVIOUS
  <2>1. watched \in [device_health : Int, stale_thres : Int, ping_thres : Int]
    BY MaxPingAssumption DEF HeartbeatInv, WatchTypeOK
  <2>2. /\ 1 \in Status(watched)
             <=> watched.device_health <= watched.ping_thres - watched.stale_thres
        /\ 2 \in Status(watched) <=> watched.device_health <= 0
    BY <2>1, StatusBits
  <2> QED
    BY <2>1, <2>2, MaxPingAssumption DEF HeartbeatInv, WatchTypeOK, LostAndStaleOnTime
<1> QED
  BY <1>1, HeartbeatInvariant, PTL
=============================================================================
