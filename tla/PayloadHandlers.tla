--------------------------- MODULE PayloadHandlers ---------------------------
(***************************************************************************)
(* payload_handlers.c: what the router does with one packet.  A handler    *)
(* turns the table into a new one, sends messages to the server (TCP) and  *)
(* to the radio (serial), and may put packets back into the dispatch      *)
(* queue: an outcome gathers all of them, in order.                        *)
(*                                                                         *)
(* A packet has a general type (kind), what tells the packets of that type *)
(* apart (what), the address of its header (ip) and the address inside its *)
(* payload (to: the assigned address of a Peck, the subnet of a Hatch).    *)
(* Address N is the broadcast address; every other address outside of the  *)
(* table is treated by the code as base|0, which is address 0 here.        *)
(***************************************************************************)
EXTENDS RoutingTable, Sequences

SquawksToSensor == {"CHALLENGE", "NOCHALLENGE", "DENY", "RESPOND"}
SquawksToServer == {"RESPOND_NO_REQUIRE", "RESPOND_REQUIRE", "CHALLENGE_SERVER",
                    "ACCEPT", "FORGET"}

(* What the packets of a general type may be.                              *)
Whats == [HATCHING   |-> {"HATCH"},
          FLYING     |-> {"FLY"},
          EYEBALLING |-> {"EYEBALL"},
          PECKING    |-> {"RECOGNIZED", "MATE", "SERVER_WAIT", "SERVER_REFUSES",
                          "SENSOR_REFUSES", "UNKNOWN"},
          SINGING    |-> {"SING"},
          MOCKING    |-> {"MOCK"},
          PEACOCKING |-> {"MORE", "DONE"},
          NESTING    |-> {"NEST"},
          SQUAWKING  |-> SquawksToSensor \cup SquawksToServer,
          HEARTBEAT  |-> {"TO_SENSOR", "TO_ROUTER"},
          CHIRPING   |-> {"COMMAND", "DATA", "NETWORK_DISCONNECTS", "SENSOR_DISCONNECT"},
          SERVSTATUS |-> {"stale", "lost", "online"}]

Packet(kind, what, ip, to) == [kind |-> kind, what |-> what, ip |-> ip, to |-> to]

(* The address of the device a packet is about.                            *)
About(p) == IF p.kind = "PECKING" THEN p.to ELSE p.ip

-----------------------------------------------------------------------------
(* Outcomes.                                                               *)

Begin(T) == [table |-> T, tcp |-> <<>>, serial |-> <<>>, enqueued |-> <<>>, exit |-> 0]

SetTable(O, T) == [O EXCEPT !.table = T]

Returns(O, code) == [O EXCEPT !.exit = code]

(* sgTCPSend: the server is told the rdid the address has now; without one *)
(* the conversion fails and nothing is sent.                               *)
sgTCPSend(O, p) ==
  LET rdid == routingTableIPToRDID(O.table, p.ip)
  IN  IF rdid = 0 THEN O
      ELSE [O EXCEPT !.tcp = Append(@, [kind |-> p.kind, what |-> p.what, rdid |-> rdid])]

sgSerialSend(O, p) == [O EXCEPT !.serial = Append(@, p)]

Disconnect(ip) == Packet("CHIRPING", "NETWORK_DISCONNECTS", ip, 0)

(* Mutant of routerFreeDevice: the slot is freed before the goodbyes.      *)
routerFreeDeviceFirst(O, ip) ==
  IF ip < 2 \/ ~ routingTableLookup(O.table, ip) THEN O
  ELSE sgSerialSend(sgTCPSend(SetTable(O, routingTableFreeIP(O.table, ip)),
                              Disconnect(ip)), Disconnect(ip))

(* Both ends hear of the disconnection, then the slot is freed; whether    *)
(* routingTableFreeIP did free it is not looked at.                        *)
routerFreeDevice(O, ip) ==
  IF ip < 2 \/ ~ routingTableLookup(O.table, ip) THEN O
  ELSE LET told == sgSerialSend(sgTCPSend(O, Disconnect(ip)), Disconnect(ip))
       IN  SetTable(told, routingTableFreeIP(told.table, ip))

(* The members of a set of addresses, in order.                            *)
InOrder(S) ==
  [k \in 1 .. Cardinality(S) |-> CHOOSE i \in S : Cardinality({j \in S : j < i}) = k - 1]

(* The sensors are freed in order, until only one device is left; that one *)
(* is bid goodbye too if it is the first sensor.                           *)
routerFreeAllDevices(O) ==
  LET T       == O.table
      sensors == {i \in Occupied(T) : i >= 2}
      before(i) == Cardinality({j \in sensors : j < i})
      order   == InOrder({i \in sensors : before(i) = 0 \/ T.table_alloc - before(i) >= 2})
      Told(i) == [kind |-> "CHIRPING", what |-> "NETWORK_DISCONNECTS",
                  rdid |-> routingTableIPToRDID(T, i)]
  IN  [O EXCEPT !.table  = routingTableFreeAllIPs(T),
                !.tcp    = @ \o [k \in DOMAIN order |-> Told(order[k])],
                !.serial = @ \o [k \in DOMAIN order |-> Disconnect(order[k])]]

queueEnqueue(O, p) == [O EXCEPT !.enqueued = Append(@, p)]

(* What routerRefreshDevice enqueues.                                      *)
Online(ip) == Packet("SERVSTATUS", "online", ip, 0)

(* Mutant of Hear: every call is taken for a return of the device.         *)
HearAlways(O, ip) ==
  LET heard == SetTable(O, routingTableHeardDevice(O.table, ip))
  IN  IF Tracked(O.table, ip) THEN queueEnqueue(heard, Online(ip)) ELSE heard

(* if (routingTableHeardDevice(...) > 0) routerRefreshDevice(...)          *)
Hear(O, ip) ==
  LET heard == SetTable(O, routingTableHeardDevice(O.table, ip))
  IN  IF Tracked(O.table, ip) /\ hbRefresh(Node(O.table, ip).hb) # {}
      THEN queueEnqueue(heard, Online(ip))
      ELSE heard

SetCurrent(O, ip, gdt) == SetTable(O, routingTableSetCurrentPacket(O.table, ip, {gdt}))
SetNext(O, ip, gdts)   == SetTable(O, routingTableSetNextExpectedPacket(O.table, ip, gdts))

chkValidCTRLPath(O, ip, gdt) == routingTableCheckValidPacket(O.table, ip, {gdt}) > 0

-----------------------------------------------------------------------------
(* The handlers.                                                           *)

routerHandleHatching(O, p, garbage) ==
  sgSerialSend(SetTable(O, routingTableAssignIPStatic(O.table, p.to, garbage)), p)

routerHandleFly(O, p) == sgSerialSend(O, p)

(* The address of the header is compared with a copy of itself, so a new   *)
(* device always gets a dynamic address, and keeps the one of the header   *)
(* when the table is full.                                                 *)
routerHandleEyeball(O, p, garbage) ==
  LET ip       == AssignedIP(O.table, p.ip)
      assigned == SetTable(O, routingTableAssignIP(O.table, garbage))
  IN  sgTCPSend(SetNext(SetCurrent(assigned, ip, "EYEBALLING"), ip, {"PECKING"}),
                [p EXCEPT !.ip = ip])

routerHandlePeck(O, p) ==
  IF ~ chkValidCTRLPath(O, p.to, "PECKING") THEN Returns(O, -1)
  ELSE LET pecked == SetCurrent(O, p.to, "PECKING")
       IN  CASE p.what = "RECOGNIZED" ->
                  sgSerialSend(SetNext(pecked, p.to, {"SQUAWKING"}), p)
             [] p.what \in {"MATE", "SERVER_WAIT"} ->
                  sgSerialSend(SetNext(pecked, p.to, {"SINGING"}), p)
             [] p.what \in {"SERVER_REFUSES", "SENSOR_REFUSES"} ->
                  routerFreeDevice(sgSerialSend(pecked, p), p.to)
             [] p.what = "UNKNOWN" -> Returns(routerFreeDevice(pecked, p.to), 1)

routerHandleSing(O, p) ==
  IF ~ chkValidCTRLPath(O, p.ip, "SINGING") THEN Returns(O, -1)
  ELSE sgSerialSend(SetNext(SetCurrent(O, p.ip, "SINGING"), p.ip, {"MOCKING"}), p)

routerHandleMock(O, p) ==
  IF ~ chkValidCTRLPath(O, p.ip, "MOCKING") THEN Returns(O, -1)
  ELSE sgTCPSend(
         Hear(SetNext(SetCurrent(O, p.ip, "MOCKING"), p.ip, {"PEACOCKING"}), p.ip), p)

routerHandlePeacock(O, p) ==
  IF ~ chkValidCTRLPath(O, p.ip, "PEACOCKING") THEN Returns(O, -1)
  ELSE sgTCPSend(SetNext(Hear(SetCurrent(O, p.ip, "PEACOCKING"), p.ip), p.ip,
                         IF p.what = "MORE" THEN {"PEACOCKING"} ELSE {"NESTING"}), p)

routerHandleNest(O, p) ==
  IF ~ chkValidCTRLPath(O, p.ip, "NESTING") THEN Returns(O, -1)
  ELSE sgSerialSend(
         SetNext(Hear(SetCurrent(O, p.ip, "NESTING"), p.ip), p.ip, {"LEASED"}), p)

(* Mutant of AfterSquawk: the sensor may be nested once it has answered.   *)
AfterSquawkAnswer(what) ==
  CASE what = "ACCEPT" -> {"NESTING"}
    [] what \in {"RESPOND_NO_REQUIRE", "RESPOND_REQUIRE"} -> {"SQUAWKING", "NESTING"}
    [] OTHER -> {"SQUAWKING"}

AfterSquawk(what) ==
  CASE what = "ACCEPT" -> {"NESTING"}
    [] what = "RESPOND_NO_REQUIRE" -> {"SQUAWKING", "NESTING"}
    [] OTHER -> {"SQUAWKING"}

routerHandleSquawk(O, p) ==
  IF ~ chkValidCTRLPath(O, p.ip, "SQUAWKING") THEN Returns(O, -1)
  ELSE LET squawked == SetNext(Hear(SetCurrent(O, p.ip, "SQUAWKING"), p.ip), p.ip,
                               AfterSquawk(p.what))
       IN  IF p.what \in SquawksToSensor THEN sgSerialSend(squawked, p)
           ELSE sgTCPSend(squawked, p)

(* A device that is not in the table is "lost" with -1.                    *)
routerHandleHeartbeat(O, p) ==
  IF p.what = "TO_ROUTER" THEN Hear(O, p.ip)
  ELSE IF routingTableIsDeviceLost(O.table, p.ip) = 0 THEN sgSerialSend(O, p) ELSE O

(* Only the disconnection a sensor asks for is checked.                    *)
routerHandleChirp(O, p) ==
  IF p.what = "SENSOR_DISCONNECT" /\ ~ chkValidCTRLPath(O, p.ip, "CHIRPING")
  THEN Returns(O, -1)
  ELSE LET chirped == SetCurrent(O, p.ip, "CHIRPING")
       IN  CASE p.what = "COMMAND" -> sgSerialSend(SetNext(chirped, p.ip, {"LEASED"}), p)
             [] p.what = "DATA" ->
                  sgTCPSend(Hear(SetNext(chirped, p.ip, {"LEASED"}), p.ip), p)
             [] p.what \in {"NETWORK_DISCONNECTS", "SENSOR_DISCONNECT"} ->
                  routerFreeDevice(chirped, p.ip)

routerHandleServerStatus(O, p) == sgTCPSend(O, p)

-----------------------------------------------------------------------------
(* The body of dispatchRuntime (main.c) for one packet.                    *)

Handle(O, p, garbage) ==
  CASE p.kind = "SERVSTATUS" -> routerHandleServerStatus(O, p)
    [] p.kind = "HATCHING"   -> routerHandleHatching(O, p, garbage)
    [] p.kind = "FLYING"     -> routerHandleFly(O, p)
    [] p.kind = "EYEBALLING" -> routerHandleEyeball(O, p, garbage)
    [] p.kind = "PECKING"    -> routerHandlePeck(O, p)
    [] p.kind = "SINGING"    -> routerHandleSing(O, p)
    [] p.kind = "MOCKING"    -> routerHandleMock(O, p)
    [] p.kind = "PEACOCKING" -> routerHandlePeacock(O, p)
    [] p.kind = "NESTING"    -> routerHandleNest(O, p)
    [] p.kind = "SQUAWKING"  -> routerHandleSquawk(O, p)
    [] p.kind = "HEARTBEAT"  -> routerHandleHeartbeat(O, p)
    [] p.kind = "CHIRPING"   -> routerHandleChirp(O, p)

(* Mutant of Dispatched: a rejected packet costs the device its place in   *)
(* filtered mode too.                                                      *)
DispatchedFiltered(T, p, garbage) ==
  LET handled == Handle(Begin(T), p, garbage)
  IN  IF handled.exit = -1 /\ T.default_strictness # "LOOSE"
      THEN routerFreeDevice(handled, p.ip) ELSE handled

(* In strict mode the device in the header of a rejected packet is freed.  *)
Dispatched(T, p, garbage) ==
  LET handled == Handle(Begin(T), p, garbage)
  IN  IF handled.exit = -1 /\ handled.table.default_strictness = "STRICT"
      THEN routerFreeDevice(handled, p.ip)
      ELSE handled
=============================================================================
