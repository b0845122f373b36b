---------------------------- MODULE RoutingTable ----------------------------
(***************************************************************************)
(* routing_table.c: the devices of the network.  A device lives in slot i  *)
(* of an array of N pointers and its address is base|i.  Slot 0 and the    *)
(* last slot are never used, slot 1 is the router, the sensors live in     *)
(* between.  The server knows a device by its rdid.                        *)
(*                                                                         *)
(* Every function of the table is an operator on the table, so that the    *)
(* payload handlers can call several of them in one step; the second part  *)
(* of the module is the table under any sequence of calls.                 *)
(*                                                                         *)
(* An address is its distance from base: 0 .. N - 1 is inside the table,   *)
(* N stands for every address outside of it (the broadcast address too).   *)
(***************************************************************************)
EXTENDS Heartbeat, DeviceAuth, FiniteSets, FiniteSetsExt

CONSTANTS
  N,               \* ROUTING_ARRAYSIZE, 256 in the code
  Word,            \* number of values of a uint32_t
  NoNode,          \* the NULL pointer of an empty slot
  PingThreshold,   \* PING_THRESHOLD
  StaleThreshold,  \* STALE_THRESHOLD
  Garbage,         \* values malloc may leave in the rdid of a new node
  Gdts             \* bound: masks of general payload types set by callers

ASSUME TableAssumption ==
  /\ N \in Nat /\ N >= 4
  /\ Word \in Nat /\ Word > N
  /\ PingThreshold \in Nat /\ StaleThreshold \in Nat
  /\ Garbage \subseteq 0 .. Word - 1
  /\ Gdts \subseteq SUBSET Statuses

VARIABLE table

Indices == 0 .. N - 1
Sensors == 2 .. N - 2    \* the slots routingTableAssignIP hands out
Router  == 1
Rdids   == 0 .. Word - 1

Healths == [device_health : 0 .. PingThreshold, stale_thres : {StaleThreshold},
            ping_thres : {PingThreshold}]
Auths   == [auth_place : SUBSET Statuses, next_expected_packet : SUBSET Statuses,
            strictness : Strictnesses]
Nodes   == [rdid : Rdids, hb : Healths, auth : Auths]

(* A device is stale before it is lost (heartbeat.h:28-30).                *)
ASSUME ThresholdAssumption == StaleThreshold \in 1 .. PingThreshold

(* NULL is no node.                                                        *)
ASSUME NullAssumption == NoNode \notin Nodes

-----------------------------------------------------------------------------
(* Reading the table.                                                      *)

locationToTablePtr(ip) == IF ip >= N THEN 0 ELSE ip

Node(T, ip) == T.routing_table[locationToTablePtr(ip)]

Occupied(T) == {i \in Indices : T.routing_table[i] # NoNode}

(* Mutant of tableChkFull: every slot between the reserved ones is used.   *)
tableChkFullLate(T) == T.table_alloc >= N - 2

tableChkFull(T) == T.table_alloc >= N - 3

(* Mutant of tableChkEmpty: the router and one sensor count as empty.      *)
tableChkEmptyEarly(T) == T.table_alloc <= 2

tableChkEmpty(T) == T.table_alloc < 2

routingTableLookupRDID(T, rdid) ==
  T.table_alloc # 0 /\ \E i \in Occupied(T) : T.routing_table[i].rdid = rdid

routingTableLookup(T, ip) == T.table_alloc # 0 /\ Node(T, ip) # NoNode

routingTableIPToRDID(T, ip) ==
  IF routingTableLookup(T, ip) THEN Node(T, ip).rdid ELSE 0

(* Mutant of routingTableRDIDToIP: finds the slot the rdid was made from.   *)
routingTableRDIDToIPDirect(T, rdid) == rdid % N

(* The first slot with this rdid; a miss still yields an address.          *)
routingTableRDIDToIP(T, rdid) ==
  LET found == {i \in Occupied(T) : T.routing_table[i].rdid = rdid}
  IN  IF found # {} THEN Min(found) ELSE rdid % N

routingTableGetDeviceCount(T) == T.table_alloc

(* Returns the answer of deviceAuthIsSGPayloadTypeValid, -1 for an empty   *)
(* slot, 0 for a reserved one.                                             *)
routingTableCheckValidPacket(T, ip, gdt) ==
  CASE T.table_alloc = 0 -> 0
    [] T.table_alloc # 0 /\ Node(T, ip) = NoNode -> -1
    [] T.table_alloc # 0 /\ Node(T, ip) # NoNode ->
         IF locationToTablePtr(ip) < 2
         THEN 0
         ELSE deviceAuthIsGeneralPayloadTypeValid(Node(T, ip).auth, gdt)

(* Is there a node the setters and the heartbeat functions act on?         *)
Tracked(T, ip) == T.table_alloc # 0 /\ Node(T, ip) # NoNode

routingTableGetCurrentPacket(T, ip) ==
  IF Node(T, ip) # NoNode THEN Node(T, ip).auth.auth_place ELSE {"ERROR"}

routingTableIsDeviceLost(T, ip) ==
  IF Tracked(T, ip) THEN IF hbIsDeviceLost(Node(T, ip).hb) THEN 1 ELSE 0 ELSE -1

routingTableIsDeviceStale(T, ip) ==
  IF Tracked(T, ip) THEN IF hbIsDeviceStale(Node(T, ip).hb) THEN 1 ELSE 0 ELSE -1

(* The next sensor after ip, or ip itself if there is none.                *)
After(T, ip) == {i \in Occupied(T) : i > locationToTablePtr(ip) /\ i >= 2}

routingTableStepNextDevice(T, ip) ==
  IF After(T, ip) = {} THEN ip ELSE Min(After(T, ip))

routingTableForEachDevice(T) == routingTableStepNextDevice(T, Router)

-----------------------------------------------------------------------------
(* Changing the table.                                                     *)

routingTableInit ==
  [tableptr |-> 0, rdid_pool |-> 1, table_alloc |-> 0,
   routing_table |-> [i \in Indices |-> NoNode], default_strictness |-> "LOOSE"]

(* How far the loop "while LookupRDID(rdid_pool) rdid_pool++" gets.        *)
PoolSteps(T) ==
  Min({k \in 0 .. Word - 1 : ~ routingTableLookupRDID(T, (T.rdid_pool + k) % Word)})

Put(T, i, node) == [T EXCEPT !.routing_table[i] = node]

NewNode(T, rdid) ==
  [rdid |-> rdid, hb |-> hbInit(PingThreshold, StaleThreshold),
   auth |-> deviceAuthInit(T.default_strictness)]

(* The new node is in the table, its rdid still whatever malloc left       *)
(* there, when its rdid is chosen.                                         *)
Malloced(T, i, garbage) == Put(T, i, NewNode(T, garbage))

(* Mutant of Install: the pool is not searched, only its head is taken.    *)
InstallUnchecked(T, i, garbage) ==
  IF routingTableLookupRDID(Malloced(T, i, garbage), i)
  THEN [Put(T, i, NewNode(T, T.rdid_pool)) EXCEPT !.rdid_pool   = (@ + 1) % Word,
                                                  !.table_alloc = @ + 1]
  ELSE [Put(T, i, NewNode(T, i)) EXCEPT !.table_alloc = @ + 1]

(* The slot number becomes the rdid unless some node already has it;       *)
(* otherwise the pool is searched.                                         *)
Install(T, i, garbage) ==
  LET M    == Malloced(T, i, garbage)
      pool == (T.rdid_pool + PoolSteps(M)) % Word
  IN  IF routingTableLookupRDID(M, i)
      THEN [Put(T, i, NewNode(T, pool)) EXCEPT !.rdid_pool   = (pool + 1) % Word,
                                               !.table_alloc = @ + 1]
      ELSE [Put(T, i, NewNode(T, i)) EXCEPT !.table_alloc = @ + 1]

(* routingTableAssignIPStatic returns 0.                                   *)
CanAssign(T, ip) ==
  /\ ~ tableChkFull(T)
  /\ locationToTablePtr(ip) >= 1
  /\ locationToTablePtr(ip) # N - 1
  /\ ~ routingTableLookup(T, ip)

routingTableAssignIPStatic(T, ip, garbage) ==
  IF CanAssign(T, ip) THEN Install(T, locationToTablePtr(ip), garbage) ELSE T

Skipped(T, i) == T.routing_table[i] # NoNode \/ i < 2 \/ i = N - 1

(* Where the search that starts at tableptr and wraps around ends.         *)
NextSlot(T) ==
  (T.tableptr + Min({k \in Indices : ~ Skipped(T, (T.tableptr + k) % N)})) % N

(* routingTableAssignIP, and the address it stores in its argument.        *)
routingTableAssignIP(T, garbage) ==
  IF tableChkFull(T) THEN T
  ELSE routingTableAssignIPStatic([T EXCEPT !.tableptr = NextSlot(T)], NextSlot(T), garbage)

AssignedIP(T, ip) == IF tableChkFull(T) THEN ip ELSE NextSlot(T)

(* Mutant of routingTableFreeIP: the slot is emptied, the count stays.     *)
routingTableFreeIPUncounted(T, ip) ==
  IF tableChkEmpty(T) \/ locationToTablePtr(ip) < 2 \/ Node(T, ip) = NoNode
  THEN T
  ELSE Put(T, locationToTablePtr(ip), NoNode)

(* Mutant of routingTableFreeIP: the router may be freed like a sensor.    *)
routingTableFreeIPRouter(T, ip) ==
  IF tableChkEmpty(T) \/ Node(T, ip) = NoNode
  THEN T
  ELSE [Put(T, locationToTablePtr(ip), NoNode) EXCEPT !.table_alloc = @ - 1]

routingTableFreeIP(T, ip) ==
  IF tableChkEmpty(T) \/ locationToTablePtr(ip) < 2 \/ Node(T, ip) = NoNode
  THEN T
  ELSE [Put(T, locationToTablePtr(ip), NoNode) EXCEPT !.table_alloc = @ - 1]

(* The loop frees the slots in order until only one device is left.        *)
routingTableFreeAllIPs(T) ==
  LET sensors == {i \in Occupied(T) : i >= 2}
      freed   == {i \in sensors :
                    T.table_alloc - Cardinality({j \in sensors : j < i}) >= 2}
  IN  [T EXCEPT !.routing_table = [i \in Indices |->
                                    IF i \in freed THEN NoNode ELSE T.routing_table[i]],
                !.table_alloc = @ - Cardinality(freed)]

(* Mutant of SetStrictness: devices already in the table keep their level. *)
SetStrictnessDefault(T, level) == [T EXCEPT !.default_strictness = level]

(* routingTableRequireStrictAuth, routingTableSetAuthFiltered and          *)
(* routingTableAllowLooseAuth.                                             *)
SetStrictness(T, level) ==
  [T EXCEPT !.default_strictness = level,
            !.routing_table = [i \in Indices |->
               IF T.routing_table[i] = NoNode THEN NoNode
               ELSE [T.routing_table[i] EXCEPT !.auth = deviceAuthEnable(@, level)]]]

SetHealth(T, ip, hb)  == Put(T, locationToTablePtr(ip), [Node(T, ip) EXCEPT !.hb = hb])
SetAuth(T, ip, auth)  == Put(T, locationToTablePtr(ip), [Node(T, ip) EXCEPT !.auth = auth])

routingTableSetNextExpectedPacket(T, ip, gdt) ==
  IF Tracked(T, ip)
  THEN SetAuth(T, ip, deviceAuthSetNextGeneralPayload(Node(T, ip).auth, gdt))
  ELSE T

routingTableSetCurrentPacket(T, ip, gdt) ==
  IF Tracked(T, ip)
  THEN SetAuth(T, ip, deviceAuthSetCurrentGeneralPayload(Node(T, ip).auth, gdt))
  ELSE T

(* The table after the call; hbDecrement and hbRefresh say what it returns *)
(* for a tracked device, -1 is returned otherwise.                         *)
routingTableHeartbeatDevice(T, ip) ==
  IF Tracked(T, ip) THEN SetHealth(T, ip, Pinged(Node(T, ip).hb)) ELSE T

routingTableHeardDevice(T, ip) ==
  IF Tracked(T, ip) THEN SetHealth(T, ip, Heard(Node(T, ip).hb)) ELSE T

-----------------------------------------------------------------------------
(* The table under any sequence of calls.                                  *)

Addresses == 0 .. N

TableInit == table = routingTableInit

AssignIPStatic == \E ip \in Addresses, garbage \in Garbage :
                    table' = routingTableAssignIPStatic(table, ip, garbage)
AssignIP  == \E garbage \in Garbage : table' = routingTableAssignIP(table, garbage)
FreeIP    == \E ip \in Addresses : table' = routingTableFreeIP(table, ip)
FreeAllIPs == table' = routingTableFreeAllIPs(table)
ChangeAuth == \E level \in Strictnesses \ {"ERROR"} : table' = SetStrictness(table, level)
SetNextExpectedPacket == \E ip \in Addresses, gdt \in Gdts :
                           table' = routingTableSetNextExpectedPacket(table, ip, gdt)
SetCurrentPacket == \E ip \in Addresses, gdt \in Gdts :
                      table' = routingTableSetCurrentPacket(table, ip, gdt)
HeartbeatDevice == \E ip \in Addresses : table' = routingTableHeartbeatDevice(table, ip)
HeardDevice     == \E ip \in Addresses : table' = routingTableHeardDevice(table, ip)

TableNext ==
  \/ AssignIPStatic \/ AssignIP \/ FreeIP \/ FreeAllIPs \/ ChangeAuth
  \/ SetNextExpectedPacket \/ SetCurrentPacket \/ HeartbeatDevice \/ HeardDevice

TableSpec == TableInit /\ [][TableNext]_table

-----------------------------------------------------------------------------
Tables == [tableptr : Indices, rdid_pool : Rdids, table_alloc : 0 .. N - 3,
           routing_table : [Indices -> Nodes \cup {NoNode}],
           default_strictness : Strictnesses]

(* Type correctness of the table.                                          *)
TableTypeOK == table \in Tables

(* table_alloc counts the nodes: what tableChkFull, tableChkEmpty and the  *)
(* heartbeat interval rely on.  Slot 0 and the last slot stay empty        *)
(* (routing_table.c:377 and 428-430).                                      *)
AllocCountsNodes ==
  /\ table.table_alloc = Cardinality(Occupied(table))
  /\ Occupied(table) \subseteq {Router} \cup Sensors

(* The server addresses a device by rdid: no two nodes share one, though   *)
(* the lookup also reads the uninitialised rdid of the new node            *)
(* (routing_table.c:384-394).                                              *)
RdidUnique ==
  \A i, j \in Occupied(table) :
    table.routing_table[i].rdid = table.routing_table[j].rdid => i = j

(* So the rdid of a device leads back to its address                       *)
(* (routing_table.c:579-618).                                              *)
RdidFindsDevice ==
  \A i \in Occupied(table) :
    routingTableRDIDToIP(table, routingTableIPToRDID(table, i)) = i

(* The search loop of routingTableAssignIP ends: a table that is not full  *)
(* has a free sensor slot (routing_table.c:422-432).                       *)
SearchEnds ==
  ~ tableChkFull(table) => \E i \in Indices : ~ Skipped(table, i)

(* With the router in the table every sensor can be freed: the emptiness   *)
(* test of routingTableFreeIP never refuses one (routing_table.c:458).     *)
SensorsCanBeFreed ==
  Router \in Occupied(table) /\ Occupied(table) # {Router} => ~ tableChkEmpty(table)

(* The level a device is checked against is the level of the network,      *)
(* whatever the order of joining and of changing the level                 *)
(* (routing_table.c:398 and 690-752).                                      *)
UniformStrictness ==
  \A i \in Occupied(table) :
    table.routing_table[i].auth.strictness = table.default_strictness

(* A device keeps its rdid as long as it is in the table, and the router   *)
(* never leaves it (routing_table.c:463).                                  *)
LeasesAreStable ==
  [][/\ \A i \in Occupied(table) \cap Occupied(table)' :
          table'.routing_table[i].rdid = table.routing_table[i].rdid
     /\ Router \in Occupied(table) => Router \in Occupied(table)']_table
=============================================================================
