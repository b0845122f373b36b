------------------------------- MODULE Gateway -------------------------------
(***************************************************************************)
(* The conversion at work between the routing table and the server.  A     *)
(* device joins with an Eyeball and its slot gets an rdid                  *)
(* (payload_handlers.c, routerHandleEyeball); the server learns the text   *)
(* of its identity under that rdid.  Devices leave, the server answers at  *)
(* any time, late answers included (sansgrid_daemon.c, the command         *)
(* packet=), and sensors report (sg_tcp.c).                                *)
(*                                                                         *)
(* The server is external: what it prints in an answer is taken from       *)
(* zz_api_functions.php.  It keeps one conversation for an rdid, begun by  *)
(* the Eyeball, and may close it at any time; it echoes the texts of the   *)
(* identity as it got them, since cleanZeroes only strips leading zeros    *)
(* and addHexField printed none.                                           *)
(*                                                                         *)
(* A text is on its way between two calls only: the router waits for curl, *)
(* the server for the answer on the socket.  What curl sends may be lost   *)
(* (sg_tcp.c:65, it gives up after two seconds).                           *)
(***************************************************************************)
EXTENDS Conversion

CONSTANTS
  NoDevice,     \* nobody holds the slot
  MaxKnown      \* bound: conversations the server keeps

(* The sensors, by their serial numbers.                                   *)
Devices == [1 .. IdSize -> Byte] \ {Zeros(IdSize)}

ASSUME DeviceAssumption == NoDevice \notin Devices /\ MaxKnown \in Nat

VARIABLES
  owner,     \* history: who holds each slot
  known,     \* the server's conversations
  printed,   \* the text sgTCPSend just printed, or <<>>
  answer     \* the answer sgConfigInsertPacket just read, or <<>>

vars == <<table, owner, known, printed, answer>>

Init ==
  /\ table = routingTableAssignIPStatic(routingTableInit, Router, 0)
  /\ owner = [i \in Indices |-> NoDevice]
  /\ known = {}
  /\ printed = <<>> /\ answer = <<>>

Idle == printed = <<>> /\ answer = <<>>

(* The text has arrived.                                                   *)
Delivered == ~ Idle /\ printed' = <<>> /\ answer' = <<>> /\ UNCHANGED <<table, owner, known>>

(* What sgTCPSend hands to the server; nothing when the conversion fails.  *)
Prints(T, ip, p) ==
  LET text == sgRouterToServerConvert(T, ip, p)
  IN  IF text = <<>> THEN <<>> ELSE <<[ip |-> ip, packet |-> p, text |-> text]>>

Eyeball(d) ==
  [datatype |-> "EYEBALL", manid |-> d, modnum |-> d, serial_number |-> d,
   profile |-> <<0>>, mode |-> <<1>>]

(* A new conversation replaces the one under the same rdid.                *)
Learns(d, ip, text) ==
  LET rdid == Matched(text, "rdid")[1]
  IN  {k \in known : k.rdid # rdid}
      \cup {[rdid |-> rdid, manid |-> Matched(text, "manid")[1],
             modnum |-> Matched(text, "modnum")[1], sn |-> Matched(text, "sn")[1],
             device |-> d, ip |-> ip]}

Arrives ==
  \E d \in Devices, garbage \in Garbage :
    LET joined == routingTableAssignIP(table, garbage)
        ip     == AssignedIP(table, N)
    IN  /\ Idle
        /\ \A i \in Indices : owner[i] # d
        /\ ~ tableChkFull(table)
        /\ table' = joined
        /\ owner' = [owner EXCEPT ![ip] = d]
        /\ printed' = Prints(joined, ip, Eyeball(d))
        /\ \/ known' = known
           \/ printed' # <<>> /\ known' = Learns(d, ip, printed'[1].text)
        /\ Cardinality(known') <= MaxKnown
        /\ UNCHANGED answer

(* routerFreeDevice: the server hears of it before the slot is emptied.    *)
Leaves ==
  \E ip \in Sensors :
    /\ Idle /\ owner[ip] # NoDevice
    /\ printed' = Prints(table, ip, [datatype |-> "NETWORK_DISCONNECTS_SENSOR",
                                     sid |-> <<0>>, data |-> Zeros(ChirpSize)])
    /\ table' = routingTableFreeIP(table, ip)
    /\ owner' = [owner EXCEPT ![ip] = NoDevice]
    /\ UNCHANGED <<known, answer>>

Forgets ==
  \E k \in known :
    /\ Idle
    /\ known' = known \ {k}
    /\ UNCHANGED <<table, owner, printed, answer>>

-----------------------------------------------------------------------------
(* Reports of the sensors.                                                 *)

Bytes(size) == [1 .. size -> Byte]

Mocks == [datatype : {"MOCK_WITH_KEY"}, pubkey : Bytes(KeySize)]

Squawks == [datatype : {"SENSOR_CHALLENGE_SERVER"}, data : Bytes(KeySize)]

Peacocks ==
  [datatype : {"PEACOCK"}, IO_A_id : {<<0>>}, IO_A_class : {<<1>>}, IO_A_direc : Bytes(1),
   IO_A_label : Bytes(LabelSize), IO_A_units : Bytes(UnitsSize), IO_B_id : {<<1>>},
   IO_B_class : {<<0>>}, IO_B_direc : {<<0>>}, IO_B_label : Bytes(LabelSize),
   IO_B_units : {Zeros(UnitsSize)}, additional_IO_needed : Bytes(1)]

Chirps ==
  [datatype : {"DATA_SENSOR_TO_SERVER"}, sid : Bytes(1), data : Bytes(ChirpSize)]

StatusReports == [datatype : {"SERVSTATUS"}, status : {"stale", "online"}]

(* Bound: a report is tried while the server keeps no conversation, which  *)
(* printing does not look at.                                              *)
Reports ==
  \E ip \in Sensors, p \in Mocks \cup Squawks \cup Peacocks \cup Chirps \cup StatusReports :
    /\ Idle /\ known = {} /\ owner[ip] # NoDevice
    /\ printed' = Prints(table, ip, p)
    /\ UNCHANGED <<table, owner, known, answer>>

-----------------------------------------------------------------------------
(* Answers of the server.                                                  *)

Entry(key, value) == [key |-> key, value |-> value]

(* The text of an answer in conversation k.                                *)
Text(k, dt) ==
  <<Entry("rdid", k.rdid), Entry("dt", dt)>> \o
  CASE dt = "PECK" ->
         <<Entry("ip", <<>>), Entry("sid", <<1>>), Entry("recognition", <<1>>),
           Entry("manid", k.manid), Entry("modnum", k.modnum), Entry("sn", k.sn)>>
    [] dt = "SING_WITH_KEY" -> <<Entry("servpubkey", <<1>>)>>
    [] dt = "NEST" -> <<>>
    [] dt = "SERVER_CHALLENGE_SENSOR" -> <<Entry("data", <<1>>)>>
    [] dt = "NETWORK_DISCONNECTS_SENSOR" -> <<Entry("data", <<>>)>>
    [] dt = "SERVSTATUS" -> <<Entry("status", "ack")>>

AnswerTypes == {"PECK", "SING_WITH_KEY", "NEST", "SERVER_CHALLENGE_SENSOR",
                "NETWORK_DISCONNECTS_SENSOR", "SERVSTATUS"}

(* sgConfigInsertPacket: the packet is read when the text arrives; one     *)
(* that does not convert is not queued.                                    *)
Answers ==
  \E k \in known, dt \in AnswerTypes :
    LET read == sgServerToRouterConvert(table, Text(k, dt))
    IN  /\ Idle
        /\ answer' = <<[to |-> k, failed |-> read.failed, payload |-> read.payload,
                        ip_addr |-> read.ip_addr]>>
        /\ UNCHANGED <<table, owner, known, printed>>

Next == Delivered \/ Arrives \/ Leaves \/ Forgets \/ Reports \/ Answers

Spec == Init /\ [][Next]_vars

-----------------------------------------------------------------------------
(* Properties.                                                             *)

(* Bytes without a zero at their end, the only ones addHexField keeps in   *)
(* their place.                                                            *)
EndsInByte(v) == v[Len(v)] # 0

(* The device an answer is for is still there, under the same rdid.        *)
StillThere(k) ==
  owner[k.ip] = k.device /\ routingTableIPToRDID(table, k.ip) = k.rdid

(* Where the router will take an answer: the address in a Peck, or that of *)
(* the packet.                                                             *)
Destination(a) ==
  IF a.payload[1].datatype = "PECK" THEN a.payload[1].assigned_ip ELSE a.ip_addr

(* An answer for a device that is still there reaches it, whatever joined  *)
(* and left meanwhile and however its rdid was chosen: the packet carries  *)
(* its address, and it is queued unless the int8_t makes the rdid look     *)
(* like -1 (sg_tcp_handler.c:229-251 and 523-566).                         *)
AnswersFindTheirDevice ==
  answer # <<>> /\ StillThere(answer[1].to) =>
    /\ Destination(answer[1]) = answer[1].to.ip
    /\ answer[1].failed => answer[1].to.rdid % ByteValues = ByteValues - 1

(* The identity in a Peck, by which the radios and the sensor know it is   *)
(* for them, is the one of the Eyeball's sender, leading zeros included,   *)
(* unless it ends in a zero byte (sg_tcp_handler.c:93-111, 581-619).       *)
PeckNamesItsSensor ==
  answer # <<>> /\ answer[1].payload[1].datatype = "PECK"
    /\ EndsInByte(answer[1].to.device)
  => answer[1].payload[1].serial_number = answer[1].to.device

(* A string is printed up to its first NUL.                                *)
IsString(v) == \A i, j \in DOMAIN v : i < j /\ v[i] = 0 => v[j] = 0

(* The digit i places before the last one; where there is none, a zero.    *)
Digit(v, i) == IF i < Len(v) THEN v[Len(v) - i] ELSE 0

(* The printed bytes of a key and the key read from them spell one number: *)
(* their digits agree, counted from the end (not one array: the number     *)
(* moves to the end of the wider field).                                   *)
SameKey(key, read) ==
  key[PrintedKey] # 0 =>
    \A i \in 0 .. KeySize - 1 : Digit(read, i) = Digit(SubSeq(key, 1, PrintedKey), i)

(* What sgRouterToServerConvert prints, sgServerToRouterConvert reads:     *)
(* every field is found under its key and in its form and nothing moves    *)
(* from one field to another, as long as byte fields do not end in a zero  *)
(* byte and strings do in NULs (sg_tcp_handler.c:581-808 against 198-469). *)
ReadsBack ==
  printed # <<>> =>
    LET p    == printed[1].packet
        read == sgServerToRouterConvert(table, printed[1].text).payload[1]
        kind == sgPayloadGetType(p.datatype)
    IN  CASE kind = "MOCKING"   -> SameKey(p.pubkey, read.pubkey)
          [] kind = "SQUAWKING" -> SameKey(p.data, read.data)
          [] kind = "CHIRPING"  -> IsString(p.data) => read = p
          [] kind = "PEACOCKING" -> IsString(p.IO_A_label) /\ IsString(p.IO_A_units)
                                      /\ IsString(p.IO_B_label) => read = p
          [] kind = "EYEBALLING" -> EndsInByte(p.serial_number) => read = p
          [] OTHER -> read = p
=============================================================================
