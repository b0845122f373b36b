------------------------------ MODULE Conversion ------------------------------
(***************************************************************************)
(* sg_tcp_handler.c: a packet is printed as the key-value text the server  *)
(* reads, and the text the server sends is read as a packet.               *)
(*                                                                         *)
(* A text is the sequence of its entries [key, value]; the delimiters      *)
(* around them are left out.  A hexadecimal value is the sequence of the   *)
(* bytes its digits spell (the first byte may have one digit), a decimal   *)
(* one is the number, a string is the sequence of its characters.  Among   *)
(* the keys of one text none is a prefix of another, so that comparing     *)
(* prefixes, as match does, is comparing keys.                             *)
(*                                                                         *)
(* The widths are parameters: an id stands for the manufacturer, model and *)
(* serial numbers, a key for the 80 bytes of the keys and of the data of a *)
(* squawk, of which only the first PrintedKey (64) are printed.  Padding   *)
(* is left out.                                                            *)
(***************************************************************************)
EXTENDS RoutingTable, SequencesExt

CONSTANTS
  ByteValues,    \* number of values of an int8_t, 256
  IdSize,        \* bytes of an identity, 4 and 8
  ServerIdSize,  \* bytes of a server id, 16
  KeySize,       \* bytes of a key in a packet, 80
  PrintedKey,    \* bytes of a key that are printed, 64
  LabelSize,     \* characters of a label, 30
  UnitsSize,     \* characters of a unit, 6
  ChirpSize      \* characters of the data of a chirp, 79

ASSUME WidthAssumption ==
  /\ {ByteValues, IdSize, ServerIdSize, KeySize, PrintedKey, LabelSize,
      UnitsSize, ChirpSize} \subseteq Nat \ {0}
  /\ PrintedKey <= KeySize

Byte == {0, 1}     \* bytes and characters told apart: zero (NUL) or not

(* The general type of a packet, by its datatype.                          *)
sgPayloadGetType(dt) ==
  CASE dt = "HATCH"   -> "HATCHING"
    [] dt = "FLY"     -> "FLYING"
    [] dt = "EYEBALL" -> "EYEBALLING"
    [] dt = "PECK"    -> "PECKING"
    [] dt \in {"SING_WITH_KEY", "SING_WITHOUT_KEY"} -> "SINGING"
    [] dt \in {"MOCK_WITH_KEY", "MOCK_WITHOUT_KEY"} -> "MOCKING"
    [] dt = "PEACOCK" -> "PEACOCKING"
    [] dt = "NEST"    -> "NESTING"
    [] dt \in {"SERVER_CHALLENGE_SENSOR", "SERVER_NOCHALLENGE_SENSOR",
               "SENSOR_RESPOND_NO_REQUIRE_CHALLENGE",
               "SENSOR_RESPOND_REQUIRE_CHALLENGE", "SENSOR_CHALLENGE_SERVER",
               "SERVER_DENY_SENSOR", "SERVER_RESPOND", "SENSOR_ACCEPT_RESPONSE",
               "FORGET_ME"} -> "SQUAWKING"
    [] dt \in {"HEARTBEAT_ROUTER_TO_SENSOR", "HEARTBEAT_SENSOR_TO_ROUTER",
               "SERVSTATUS"} -> "HEARTBEAT"
    [] dt \in {"COMMAND_SERVER_TO_SENSOR", "DATA_SENSOR_TO_SERVER",
               "NETWORK_DISCONNECTS_SENSOR", "SENSOR_DISCONNECT"} -> "CHIRPING"
    [] OTHER -> "NULL"

-----------------------------------------------------------------------------
(* Reading.                                                                *)

Zeros(n) == [k \in 1 .. n |-> 0]

(* match: <<value>>, or <<>> when the key is missing.                      *)
Matched(text, key) ==
  LET found == {k \in DOMAIN text : text[k].key = key}
  IN  IF found = {} THEN <<>> ELSE <<text[Min(found)].value>>

(* Mutant of atox: a short text fills the array from its first byte.       *)
atoxRightPads(found, size) ==
  IF found = <<>> THEN Zeros(size)
  ELSE IF Len(found[1]) >= size THEN SubSeq(found[1], 1, size)
       ELSE found[1] \o Zeros(size - Len(found[1]))

(* A long text is cut after size bytes, a short one is padded on the left, *)
(* a missing one reads as zero.                                            *)
atox(found, size) ==
  IF found = <<>> THEN Zeros(size)
  ELSE IF Len(found[1]) >= size THEN SubSeq(found[1], 1, size)
       ELSE Zeros(size - Len(found[1])) \o found[1]

(* strncpy: the rest of the array is filled with NUL.                      *)
Copied(found, size) ==
  IF found = <<>> THEN Zeros(size)
  ELSE IF Len(found[1]) >= size THEN SubSeq(found[1], 1, size)
       ELSE found[1] \o Zeros(size - Len(found[1]))

(* The number under rdid, or missing.                                      *)
RdidOf(text, missing) ==
  IF Matched(text, "rdid") = <<>> THEN missing ELSE Matched(text, "rdid")[1]

(* A missing datatype reads as 0, which is no datatype.                    *)
Datatype(text) == IF Matched(text, "dt") = <<>> THEN "NONE" ELSE Matched(text, "dt")[1]

convertEyeball(text) ==
  [datatype      |-> Datatype(text),
   manid         |-> atox(Matched(text, "manid"), IdSize),
   modnum        |-> atox(Matched(text, "modnum"), IdSize),
   serial_number |-> atox(Matched(text, "sn"), IdSize),
   profile       |-> atox(Matched(text, "profile"), 1),
   mode          |-> atox(Matched(text, "mode"), 1)]

(* The address is the one the table has for the rdid, not the text's.      *)
convertPeck(T, text) ==
  [datatype      |-> Datatype(text),
   router_ip     |-> Router,
   assigned_ip   |-> routingTableRDIDToIP(T, RdidOf(text, 0)),
   server_id     |-> atox(Matched(text, "sid"), ServerIdSize),
   recognition   |-> atox(Matched(text, "recognition"), 1),
   manid         |-> atox(Matched(text, "manid"), IdSize),
   modnum        |-> atox(Matched(text, "modnum"), IdSize),
   serial_number |-> atox(Matched(text, "sn"), IdSize)]

convertSing(text) ==
  [datatype |-> Datatype(text), pubkey |-> atox(Matched(text, "servpubkey"), KeySize)]

(* Mutant of convertMock: reads the key a Sing prints.                     *)
convertMockServer(text) ==
  [datatype |-> Datatype(text), pubkey |-> atox(Matched(text, "servpubkey"), KeySize)]

convertMock(text) ==
  [datatype |-> Datatype(text), pubkey |-> atox(Matched(text, "senspubkey"), KeySize)]

convertPeacock(text) ==
  [datatype             |-> Datatype(text),
   IO_A_id              |-> atox(Matched(text, "sida"), 1),
   IO_A_class           |-> atox(Matched(text, "classa"), 1),
   IO_A_direc           |-> atox(Matched(text, "dira"), 1),
   IO_A_label           |-> Copied(Matched(text, "labela"), LabelSize),
   IO_A_units           |-> Copied(Matched(text, "unitsa"), UnitsSize),
   IO_B_id              |-> atox(Matched(text, "sidb"), 1),
   IO_B_class           |-> atox(Matched(text, "classb"), 1),
   IO_B_direc           |-> atox(Matched(text, "dirb"), 1),
   IO_B_label           |-> Copied(Matched(text, "labelb"), LabelSize),
   IO_B_units           |-> Copied(Matched(text, "unitsb"), UnitsSize),
   additional_IO_needed |-> atox(Matched(text, "additional"), 1)]

convertNest(text) == [datatype |-> Datatype(text)]

convertSquawk(text) ==
  [datatype |-> Datatype(text), data |-> atox(Matched(text, "data"), KeySize)]

convertChirp(text) ==
  [datatype |-> Datatype(text),
   sid      |-> atox(Matched(text, "sid"), 1),
   data     |-> Copied(Matched(text, "data"), ChirpSize)]

(* The rdid inside a status, the decimal text read as hexadecimal, is      *)
(* looked at by nobody and left out.                                       *)
convertIRStatus(text) ==
  [datatype |-> Datatype(text),
   status   |-> IF Matched(text, "status") = <<>> THEN "" ELSE Matched(text, "status")[1]]

(* The payload, by the general type; <<>> for a type that is not read.     *)
Payload(T, text) ==
  LET type == sgPayloadGetType(Datatype(text))
  IN  CASE type = "EYEBALLING" -> <<convertEyeball(text)>>
        [] type = "PECKING"    -> <<convertPeck(T, text)>>
        [] type = "SINGING"    -> <<convertSing(text)>>
        [] type = "MOCKING"    -> <<convertMock(text)>>
        [] type = "PEACOCKING" -> <<convertPeacock(text)>>
        [] type = "NESTING"    -> <<convertNest(text)>>
        [] type = "SQUAWKING"  -> <<convertSquawk(text)>>
        [] type = "CHIRPING"   -> <<convertChirp(text)>>
        [] type = "HEARTBEAT"  -> <<convertIRStatus(text)>>
        [] OTHER               -> <<>>

(* Does an int8_t that was given this number hold -1?                      *)
IsMinusOne(number) == number % ByteValues = ByteValues - 1

(* Every convert function returns the rdid, or -1 without one, through an  *)
(* int8_t; a type that is not read returns -1.  Without an rdid the        *)
(* address is all zero, which the table takes for base|0; a Peck goes to   *)
(* every radio.                                                            *)
sgServerToRouterConvert(T, text) ==
  LET rdid    == RdidOf(text, 0)
      payload == Payload(T, text)
  IN  [failed  |-> payload = <<>> \/ IsMinusOne(RdidOf(text, -1)),
       payload |-> payload,
       ip_addr |-> IF sgPayloadGetType(Datatype(text)) = "PECKING" THEN N
                   ELSE IF rdid = 0 THEN 0 ELSE routingTableRDIDToIP(T, rdid)]

-----------------------------------------------------------------------------
(* Printing.                                                               *)

NonZero(b) == b # 0

(* The bytes from the first to the last that is not zero: the loop that    *)
(* looks for cap drops the zeros behind it, the next one those before      *)
(* first_byte.                                                             *)
addHexField(key, value, size) ==
  LET v == SubSeq(value, 1, size)
  IN  <<[key |-> key, value |-> IF \E k \in DOMAIN v : v[k] # 0
                                THEN SubSeq(v, SelectInSeq(v, NonZero),
                                               SelectLastInSeq(v, NonZero))
                                ELSE <<0>>]>>

addIntField(key, number) == <<[key |-> key, value |-> number]>>

(* A value that is a name here: an address, a datatype, a status.          *)
addNameField(key, name) == <<[key |-> key, value |-> name]>>

(* The characters before the first NUL, at most size of them.              *)
addCharField(key, value, size) ==
  LET nul == {k \in 1 .. size : value[k] = 0}
  IN  <<[key |-> key, value |-> SubSeq(value, 1, IF nul = {} THEN size ELSE Min(nul) - 1)]>>

(* What follows rdid and dt, by the general type of the packet.            *)
Fields(p) ==
  LET type == sgPayloadGetType(p.datatype)
  IN  CASE type = "EYEBALLING" ->
             addHexField("manid", p.manid, IdSize) \o addHexField("modnum", p.modnum, IdSize)
             \o addHexField("sn", p.serial_number, IdSize)
             \o addHexField("profile", p.profile, 1) \o addHexField("mode", p.mode, 1)
        [] type = "PECKING" ->
             addNameField("ip", p.assigned_ip) \o addHexField("sid", p.server_id, ServerIdSize)
             \o addHexField("recognition", p.recognition, 1)
             \o addHexField("manid", p.manid, IdSize) \o addHexField("modnum", p.modnum, IdSize)
             \o addHexField("sn", p.serial_number, IdSize)
        [] type = "SINGING" -> addHexField("servpubkey", p.pubkey, PrintedKey)
        [] type = "MOCKING" -> addHexField("senspubkey", p.pubkey, PrintedKey)
        [] type = "PEACOCKING" ->
             addHexField("sida", p.IO_A_id, 1) \o addHexField("classa", p.IO_A_class, 1)
             \o addHexField("dira", p.IO_A_direc, 1)
             \o addCharField("labela", p.IO_A_label, LabelSize)
             \o addCharField("unitsa", p.IO_A_units, UnitsSize)
             \o addHexField("sidb", p.IO_B_id, 1) \o addHexField("classb", p.IO_B_class, 1)
             \o addHexField("dirb", p.IO_B_direc, 1)
             \o addCharField("labelb", p.IO_B_label, LabelSize)
             \o addCharField("unitsb", p.IO_B_units, UnitsSize)
             \o addHexField("additional", p.additional_IO_needed, 1)
        [] type = "NESTING"   -> <<>>
        [] type = "SQUAWKING" -> addHexField("data", p.data, PrintedKey)
        [] type = "HEARTBEAT" -> addNameField("status", p.status)
        [] type = "CHIRPING"  -> addHexField("sid", p.sid, 1)
                                 \o addCharField("data", p.data, ChirpSize)

(* The rdid of the device a packet is about: the device a Peck names, 0    *)
(* for a broadcast, else the sender.                                       *)
RdidToPrint(T, ip, p) ==
  IF sgPayloadGetType(p.datatype) = "PECKING" THEN routingTableIPToRDID(T, p.assigned_ip)
  ELSE IF ip = N THEN 0 ELSE routingTableIPToRDID(T, ip)

(* -1: the device is not in the table (only a broadcast may go without     *)
(* one), or the type is not printed.                                       *)
PrintFails(T, ip, p) ==
  LET type == sgPayloadGetType(p.datatype)
  IN  \/ RdidToPrint(T, ip, p) = 0 /\ ~ (ip = N /\ type # "PECKING")
      \/ type \in {"HATCHING", "FLYING", "NULL"}

(* The server knows one kind of heartbeat.                                 *)
PrintedType(dt) == IF dt = "HEARTBEAT_SENSOR_TO_ROUTER" THEN "SERVSTATUS" ELSE dt

sgRouterToServerConvert(T, ip, p) ==
  IF PrintFails(T, ip, p) THEN <<>>
  ELSE addIntField("rdid", RdidToPrint(T, ip, p))
       \o addNameField("dt", PrintedType(p.datatype)) \o Fields(p)
=============================================================================
