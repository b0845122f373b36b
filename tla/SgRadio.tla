------------------------------ MODULE SgRadio -------------------------------
(***************************************************************************)
(* The class SansgridRadio and its SnIpTable, as operators on a radio.  A  *)
(* radio is the same board at the router and at a sensor; a HATCH turns it *)
(* into the router's.  A packet is a record with a type and, where a radio *)
(* looks at them, the assigned address (ip) and the device's serial number *)
(* (dev_sn).                                                               *)
(***************************************************************************)
EXTENDS Integers, Sequences

CONSTANTS
  DEFAULTSNIPSIZE,  \* entries of the table, 5 in the code
  FRAG_BUF_SZ,      \* slots for halves of packets, 6 in the code
  TimeoutRounds     \* values of timeout_counter, 2^32 in the code

ASSUME RadioAssumption ==
  {DEFAULTSNIPSIZE, FRAG_BUF_SZ, TimeoutRounds - 1} \subseteq Nat \ {0}

Zero    == "00"     \* all bytes zero: no serial number, and the broadcast one
Invalid == "FE"     \* what an unknown key gives
AllOnes == "FF"     \* the address of packets that have none yet

-----------------------------------------------------------------------------
(* SnIpTable: which XBee a device sits behind, and its address.            *)

Entry == [sn |-> Zero, ip |-> Zero, dev_sn |-> Zero]
SnIpTable == [i \in 1 .. DEFAULTSNIPSIZE |-> Entry]

(* The first entry with that key, 0 for none.  An entry that is partly     *)
(* filled matches the key of zeros.                                        *)
snipFind(table, field, key) ==
  LET found == {i \in DOMAIN table : table[i][field] = key}
  IN  IF found = {} THEN 0 ELSE CHOOSE i \in found : \A j \in found : i <= j

(* Mutant of snipRemove: the address stays.                                *)
snipRemoveSn(table, sn) ==
  [i \in DOMAIN table |->
     IF i = snipFind(table, "sn", sn) THEN [table[i] EXCEPT !.sn = Zero] ELSE table[i]]

snipRemove(table, sn) ==
  [i \in DOMAIN table |-> IF i = snipFind(table, "sn", sn) THEN Entry ELSE table[i]]

snipSnFromIp(table, ip) ==
  LET i == snipFind(table, "ip", ip) IN IF i = 0 THEN Invalid ELSE table[i].sn

snipIpFromSn(table, sn) ==
  LET i == snipFind(table, "sn", sn) IN IF i = 0 THEN Invalid ELSE table[i].ip

snipInsertIp(table, ip, dev_sn) ==
  [i \in DOMAIN table |->
     IF i = snipFind(table, "dev_sn", dev_sn) THEN [table[i] EXCEPT !.ip = ip] ELSE table[i]]

(* The entry of the device is taken again, cleared first, or else one      *)
(* without a radio; without one of these nothing is stored.                *)
snipInsertSn(table, sn, dev_sn) ==
  LET known == snipFind(table, "dev_sn", dev_sn)
      free  == snipFind(table, "sn", Zero)
  IN  [i \in DOMAIN table |->
         IF i = known THEN [sn |-> sn, ip |-> Zero, dev_sn |-> dev_sn]
         ELSE IF known = 0 /\ i = free THEN [table[i] EXCEPT !.sn = sn, !.dev_sn = dev_sn]
         ELSE table[i]]

-----------------------------------------------------------------------------
(* The radio.                                                              *)

init == [router_mode |-> "SENSOR", on_network |-> FALSE, timeout_counter |-> 1,
         table |-> SnIpTable]

ROUTER(radio) == radio.router_mode = "ROUTER"
SENSOR(radio) == radio.router_mode = "SENSOR"

(* A packet from the host: what becomes of the radio, and the serial       *)
(* number on the two frames.  0x25 comes from the router only, 0x26 from   *)
(* a sensor only: for the others the code leaves the number uninitialized. *)
processSpi(radio, xbsn, packet, ip) ==
  CASE packet.type = "FLY"  -> [radio |-> radio, sn |-> Zero]
    [] packet.type = "PECK" ->
         [radio |-> IF ROUTER(radio)
                    THEN [radio EXCEPT !.table = snipInsertIp(@, packet.ip, packet.dev_sn)]
                    ELSE radio,
          sn |-> Zero]
    [] packet.type = "HATCH" ->
         [radio |-> [radio EXCEPT !.router_mode = "ROUTER"], sn |-> Invalid]
    [] packet.type = "NETWORK_DISCONNECTS_SENSOR" /\ ROUTER(radio) ->
         LET sn == snipSnFromIp(radio.table, ip)
         IN  [radio |-> [radio EXCEPT !.table = snipRemove(@, sn)], sn |-> sn]
    [] packet.type = "SENSOR_DISCONNECT" /\ SENSOR(radio) ->
         [radio |-> [radio EXCEPT !.on_network = FALSE], sn |-> xbsn]
    [] OTHER ->
         [radio |-> radio,
          sn |-> IF ROUTER(radio) THEN snipSnFromIp(radio.table, ip) ELSE xbsn]

(* Does a frame get past read?                                             *)
read(radio, xbsn, sn) == SENSOR(radio) => sn \in {xbsn, Zero}

-----------------------------------------------------------------------------
(* Packets travel in two frames.  The first waits in a ring of slots until *)
(* the second, with the same serial number, completes it.                  *)

FragSlot == [pending |-> FALSE, sn |-> Zero, f0 |-> <<>>]
FragBuffer == [slots |-> [i \in 1 .. FRAG_BUF_SZ |-> FragSlot], next |-> 1]

PendingSlot(buffer, sn) ==
  LET found == {i \in 1 .. FRAG_BUF_SZ : buffer.slots[i].pending /\ buffer.slots[i].sn = sn}
  IN  IF found = {} THEN 0 ELSE CHOOSE i \in found : \A j \in found : i <= j

(* Mutant of defragF0: always a new slot.                                  *)
defragF0Next(buffer, sn, f0) ==
  [slots |-> [buffer.slots EXCEPT ![buffer.next] = [pending |-> TRUE, sn |-> sn, f0 |-> <<f0>>]],
   next  |-> 1 + (buffer.next % FRAG_BUF_SZ)]

(* Frame 0: a half that waits under the same number is overwritten, else   *)
(* the next slot of the ring, whoever's half waits there.                  *)
defragF0(buffer, sn, f0) ==
  LET same == PendingSlot(buffer, sn)
      pos  == IF same = 0 THEN buffer.next ELSE same
  IN  [slots |-> [buffer.slots EXCEPT ![pos] = [pending |-> TRUE, sn |-> sn, f0 |-> <<f0>>]],
       next  |-> IF pos = buffer.next THEN 1 + (buffer.next % FRAG_BUF_SZ) ELSE buffer.next]

(* Frame 1 gives back the slot it completes; what is in it is read no more.*)
defragF1(buffer, sn) ==
  [buffer EXCEPT !.slots = [i \in DOMAIN @ |->
     IF i = PendingSlot(buffer, sn) THEN FragSlot ELSE @[i]]]

-----------------------------------------------------------------------------
(* A complete packet from the air, under the serial number sn: what        *)
(* becomes of the radio, the packet, the address it is handed up with, and *)
(* is it handed up at all?                                                 *)

Result(radio, packet, ip, send) ==
  [radio |-> [radio EXCEPT !.timeout_counter = 1],
   packet |-> packet, ip |-> ip, send_packet |-> send]

processPacket(radio, sn, packet) ==
  LET up(r, ip) == Result(r, packet, ip, TRUE)
      dropped   == Result(radio, packet, AllOnes, FALSE)
      idle      == SENSOR(radio) /\ ~ radio.on_network
      ipFromSn  == snipIpFromSn(radio.table, sn)
  IN  CASE packet.type = "HEARTBEAT_ROUTER_TO_SENSOR" ->
             IF radio.on_network
             THEN Result(radio, [packet EXCEPT !.type = "HEARTBEAT_SENSOR_TO_ROUTER"], AllOnes, FALSE)
             ELSE dropped
        [] packet.type = "HATCH" -> dropped
        [] packet.type \in {"FLY", "PECK"} -> IF idle THEN up(radio, AllOnes) ELSE dropped
        [] packet.type = "NEST" ->
             IF idle THEN up([radio EXCEPT !.on_network = TRUE], Zero) ELSE dropped
        [] packet.type = "EYEBALL" ->
             up(IF ROUTER(radio)
                THEN [radio EXCEPT !.table = snipInsertSn(@, sn, packet.dev_sn)]
                ELSE radio, AllOnes)
        [] packet.type = "NETWORK_DISCONNECTS_SENSOR" ->
             IF SENSOR(radio) THEN up([radio EXCEPT !.on_network = FALSE], Zero) ELSE dropped
        [] packet.type = "SENSOR_DISCONNECT" ->
             IF ROUTER(radio) THEN up([radio EXCEPT !.table = snipRemove(@, sn)], ipFromSn)
             ELSE dropped
        [] OTHER -> up(radio, IF ROUTER(radio) THEN ipFromSn ELSE Zero)

(* One round of the timer, at a radio that is on a network: when the       *)
(* counter comes round to 0 the radio leaves it.                           *)
timeout(radio) ==
  IF ~ radio.on_network \/ ROUTER(radio) THEN radio
  ELSE LET counter == (radio.timeout_counter + 1) % TimeoutRounds
       IN  [radio EXCEPT !.timeout_counter = counter, !.on_network = counter # 0]
=============================================================================
