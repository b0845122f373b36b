------------------------------- MODULE Router -------------------------------
(***************************************************************************)
(* The router between its radio and its server, one step per packet.  The  *)
(* dispatch thread handles packets, the heartbeat thread pings devices,    *)
(* the thread of the command socket drops devices and changes the level    *)
(* of authentication.                                                      *)
(*                                                                         *)
(* Every producer of the dispatch queue is the environment here: a packet  *)
(* of any type may be next, about any address, since radio, server and     *)
(* operator send what they like and an address may have changed hands      *)
(* while its packet was queued.  Only the Hatch always comes first: it is  *)
(* enqueued before the threads start.                                      *)
(***************************************************************************)
EXTENDS PayloadHandlers

CONSTANT Kinds    \* bound: general types of the packets that arrive

ASSUME KindsAssumption == Kinds \subseteq DOMAIN Whats \ {"HATCHING"}

VARIABLES
  hatching,   \* is the Hatch still in the dispatch queue?
  outcome,    \* of the last step
  handled,    \* the packet of the last step
  trail       \* the steps each device took since its Eyeball (history)

routerVars == <<table, hatching, outcome, handled, trail>>

(* Sensors and server name an address of the table, a Peck is broadcast;   *)
(* the last address is never anybody's, as address 0.                      *)
Packets ==
  UNION {{Packet(kind, what, IF kind = "PECKING" THEN N ELSE ip, ip) :
            what \in Whats[kind], ip \in 0 .. N - 2} : kind \in Kinds}

Hatch == Packet("HATCHING", "HATCH", Router, Router)

NoPacket == Packet("HEARTBEAT", "none", 0, 0)

-----------------------------------------------------------------------------
(* The steps of the sequence a device has been taken through.              *)

StepOf(p) ==
  CASE p.kind = "PECKING" /\ p.what \in {"MATE", "SERVER_WAIT"} -> {"MATE"}
    [] p.kind = "PECKING" /\ p.what = "RECOGNIZED" -> {"RECOGNIZED"}
    [] p.kind \in {"SINGING", "MOCKING", "NESTING"} -> {p.kind}
    [] p.kind = "PEACOCKING" /\ p.what = "DONE" -> {"PEACOCKED"}
    [] p.kind = "SQUAWKING" /\ p.what \in {"ACCEPT", "RESPOND_NO_REQUIRE"} -> {"PROVED"}
    [] OTHER -> {}

(* The sets of steps one of which must have come before.                   *)
Requires(step) ==
  CASE step = "SINGING"   -> {{"MATE"}}
    [] step = "MOCKING"   -> {{"SINGING"}}
    [] step = "PEACOCKED" -> {{"MOCKING"}}
    [] step = "PROVED"    -> {{"RECOGNIZED"}}
    [] step = "NESTING"   -> {{"PEACOCKED"}, {"PROVED"}}
    [] OTHER -> {{}}

Accepted(O) == O.exit = 0

Sequence == {"PECKING", "SINGING", "MOCKING", "PEACOCKING", "NESTING", "SQUAWKING"}

(* A packet of the sequence that comes while anything passes is marked.    *)
Steps(p) ==
  StepOf(p) \cup
  (IF p.kind \in Sequence /\ table.default_strictness = "LOOSE" THEN {"LOOSE"} ELSE {})

(* An Eyeball starts the sequence anew, a device that leaves ends it.      *)
Trail(O, p) ==
  [i \in Indices |->
     CASE i \notin Occupied(O.table) -> {}
       [] i \in Occupied(O.table) /\ p.kind = "EYEBALLING" /\ i = AssignedIP(table, p.ip) -> {}
       [] i \in Occupied(O.table) /\ p.kind # "EYEBALLING" /\ i = About(p) /\ Accepted(O) ->
            trail[i] \cup Steps(p)
       [] OTHER -> trail[i]]

-----------------------------------------------------------------------------
(* The level of the configuration is set before the Hatch is queued.       *)
Init ==
  /\ \E level \in Strictnesses \ {"ERROR"} : table = SetStrictness(routingTableInit, level)
  /\ hatching = TRUE
  /\ outcome = Begin(table)
  /\ handled = NoPacket
  /\ trail = [i \in Indices |-> {}]

Becomes(O, p) ==
  /\ table' = O.table
  /\ outcome' = O
  /\ handled' = p
  /\ trail' = Trail(O, p)

(* The dispatch thread.                                                    *)
DispatchHatch ==
  /\ hatching
  /\ hatching' = FALSE
  /\ \E garbage \in Garbage : Becomes(Dispatched(table, Hatch, garbage), Hatch)

Dispatch ==
  /\ ~ hatching
  /\ UNCHANGED hatching
  /\ \E p \in Packets, garbage \in Garbage : Becomes(Dispatched(table, p, garbage), p)

(* Mutant of Pings: devices that are still authenticating are pinged too.  *)
PingsAll(T, ip) == ip >= 2 /\ Tracked(T, ip)

(* Does heartbeatRuntime ping the device it has come to?                   *)
Pings(T, ip) ==
  /\ routingTableGetDeviceCount(T) > 1
  /\ routingTableGetCurrentPacket(T, ip) \in {{"NESTING"}, {"CHIRPING"}}

(* One turn of heartbeatRuntime: a ping, if the device is not lost yet; a  *)
(* notice, if its status changed; and the end of a device just lost.       *)
HeartbeatTurn(T, ip) ==
  LET pinged  == routingTableHeartbeatDevice(T, ip)
      lost    == routingTableIsDeviceLost(pinged, ip) # 0
      O       == IF routingTableIsDeviceLost(T, ip) = 0
                 THEN queueEnqueue(Begin(T), Packet("HEARTBEAT", "TO_SENSOR", ip, 0))
                 ELSE Begin(T)
      notice  == Packet("SERVSTATUS", IF lost THEN "lost" ELSE "stale", ip, 0)
      noticed == queueEnqueue(SetTable(O, pinged), notice)
  IN  IF hbDecrement(Node(T, ip).hb) = {} THEN SetTable(O, pinged)
      ELSE IF lost THEN routerFreeDevice(noticed, ip) ELSE noticed

(* The turn of any address: the iteration starts at the router, whose own  *)
(* turn it is when the first sensor joins.                                 *)
Heartbeat ==
  /\ UNCHANGED hatching
  /\ \E ip \in {Router} \cup Sensors : /\ Pings(table, ip)
                                      /\ Becomes(HeartbeatTurn(table, ip), NoPacket)

(* The command socket: "drop <rdid>", "drop all" (and "kill"), "auth=".    *)
DropDevice ==
  /\ UNCHANGED hatching
  /\ \E rdid \in Rdids \ {0} :
       LET ip == routingTableRDIDToIP(table, rdid)
       IN  /\ routingTableLookup(table, ip)
           /\ Becomes(routerFreeDevice(Begin(table), ip), NoPacket)

DropAll ==
  /\ UNCHANGED hatching
  /\ Becomes(routerFreeAllDevices(Begin(table)), NoPacket)

SetAuthLevel ==
  /\ UNCHANGED hatching
  /\ \E level \in Strictnesses \ {"ERROR"} :
       Becomes(Begin(SetStrictness(table, level)), NoPacket)

Next ==
  \/ DispatchHatch \/ Dispatch \/ Heartbeat
  \/ DropDevice \/ DropAll \/ SetAuthLevel

Spec == Init /\ [][Next]_routerVars

(* The outcome and the packet of the last step decide nothing to come.     *)
View == <<table, hatching, trail>>

-----------------------------------------------------------------------------
(* The table is still a table, and only sensors in the table have a trail. *)
TypeOK ==
  /\ TableTypeOK
  /\ hatching \in BOOLEAN
  /\ \A i \in Indices : trail[i] # {} => i \in Occupied(table) \ {Router}

(* Outside of loose mode nobody is taken through a step of the sequence    *)
(* before the ones it builds on; so a device that was sent a Nest was      *)
(* mated step by step, or recognised and proved by a squawk.  Whatever     *)
(* packets arrive, chirps, pings, lost devices and changes of level        *)
(* included (payload_handlers.c:391-716).                                  *)
StepsInOrder ==
  \A i \in Occupied(table) :
    "LOOSE" \notin trail[i] =>
      \A step \in trail[i] : \E before \in Requires(step) : before \subseteq trail[i]

(* Nobody leaves in silence: the server hears of it under the rdid the     *)
(* device had, the sensor at its address, whoever frees it                 *)
(* (payload_handlers.c:69-78).  An rdid of 0, which a pool that wraps      *)
(* around may give, is nobody's to sgTCPSend.                              *)
DeparturesAreAnnounced ==
  [][\A i \in Occupied(table) \ Occupied(table') :
       /\ table.routing_table[i].rdid = 0 \/ \E k \in DOMAIN outcome'.tcp :
            outcome'.tcp[k] = [kind |-> "CHIRPING", what |-> "NETWORK_DISCONNECTS",
                               rdid |-> table.routing_table[i].rdid]
       /\ \E k \in DOMAIN outcome'.serial : outcome'.serial[k] = Disconnect(i)]_routerVars

(* "online" is said of a device that was stale and is not any more         *)
(* (payload_handlers.c:116-131 and its callers).                           *)
OnlineIsNews ==
  [][\A k \in DOMAIN outcome'.enqueued :
       LET notice == outcome'.enqueued[k]
       IN  notice.what = "online" =>
             /\ routingTableIsDeviceStale(table, notice.ip) = 1
             /\ routingTableIsDeviceStale(table', notice.ip) = 0]_routerVars

(* A rejected packet leaves every device as it was, except that in strict  *)
(* mode the device of its header is gone; without a router in the table    *)
(* the last device cannot be freed (main.c:145-148).                       *)
RejectionHandled ==
  [][outcome'.exit = -1 =>
       LET gone == IF table.default_strictness = "STRICT" THEN {handled'.ip} \cap Sensors ELSE {}
       IN  /\ Router \in Occupied(table) => Occupied(table') = Occupied(table) \ gone
           /\ \A i \in Occupied(table') :
                table'.routing_table[i] = table.routing_table[i]]_routerVars

(* Only a sensor that is past its authentication is given up for lost      *)
(* (main.c:242-253).                                                       *)
OnlyLeasedAreLost ==
  [][\A k \in DOMAIN outcome'.enqueued :
       LET notice == outcome'.enqueued[k]
       IN  notice.what = "lost" /\ notice.ip \in Sensors =>
             Node(table, notice.ip).auth.next_expected_packet = {"LEASED"}]_routerVars

-----------------------------------------------------------------------------
(* router/README:156: in filtered and in strict mode "Unexpected packets   *)
(* are dropped"; payload_handlers.c:793: "Make sure device is allowed to   *)
(* send this packet.  Make an exception if it's a disconnection request".  *)
UnexpectedAreDropped ==
  [][handled'.kind = "CHIRPING" /\ handled'.what \in {"COMMAND", "DATA"}
     /\ handled'.ip \in Occupied(table) \cap Sensors
     /\ table.default_strictness \in {"FILTERED", "STRICT"}
     /\ routingTableCheckValidPacket(table, handled'.ip, {"CHIRPING"}) <= 0
       => outcome'.tcp \o outcome'.serial = <<>>]_routerVars
=============================================================================
