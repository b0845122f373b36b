---------------------------- MODULE RadioNetwork ----------------------------
(***************************************************************************)
(* The radios of a network: the router's, and one behind each sensor.  A   *)
(* packet goes over the air in two frames that the radios it is for hear   *)
(* or miss; what waits in a serial line while a radio writes is as good as *)
(* read.  Router and sensors are external: the router gives addresses to   *)
(* devices whose Eyeball it got, talks to them and disconnects them, and   *)
(* a disconnection of a sensor frees its address.                          *)
(***************************************************************************)
EXTENDS SgRadio, FiniteSetsExt, Functions

CONSTANTS
  Sensors,     \* the sensors: serial number of the device and of its radio
  Addresses,   \* what the router may assign
  Worlds       \* bound: <<the sensors that are switched on, how many frames may be
               \* missed of packets not done with>>

Router == "router"
None == "none"

(* No serial number, of a device or of an XBee, is one of the values that  *)
(* the code gives a meaning of its own (sgRadio.cpp:90, :107, sgSnIp.cpp:  *)
(* 106), and no address that the router assigns is.                        *)
ASSUME NetworkAssumption ==
  /\ {Router, None, Zero, Invalid} \cap Sensors = {}
  /\ {Zero, Invalid} \cap Addresses = {}
  /\ \A w \in Worlds : w[1] \subseteq Sensors

VARIABLES
  world,      \* one of Worlds, for ever
  radio,      \* the radio of each board
  buffer,     \* its halves of packets
  second,     \* the frame that it writes next, if any
  leases,     \* of the router: the device that has an address, or None
  eyeballed,  \* of the router: devices it has an Eyeball of
  missed      \* history: <<by, frame>>, a frame that was not heard

Radios == world[1] \cup {Router}

hosts == <<leases, eyeballed>>
vars == <<world, radio, buffer, second, hosts, missed>>

(* The router's radio has taken the Hatch.                                 *)
Init ==
  /\ world \in Worlds
  /\ radio = [r \in Radios |-> IF r = Router
       THEN processSpi(init, Zero, [type |-> "HATCH"], Zero).radio ELSE init]
  /\ buffer = [r \in Radios |-> FragBuffer]
  /\ second = [r \in Radios |-> <<>>]
  /\ leases = [a \in Addresses |-> None]
  /\ eyeballed = {}
  /\ missed = {}

-----------------------------------------------------------------------------
(* A packet carries the address it is for and, which nobody on the way can *)
(* see, the device it is for (to); a frame, a number to tell its packet    *)
(* from others.                                                            *)
Packet(type, ip, to) == [type |-> type, ip |-> ip, dev_sn |-> to, to |-> to]

Frame(half, n, from, sn, packet) ==
  [half |-> half, n |-> n, from |-> from, sn |-> sn, packet |-> packet]

(* Numbers of packets with a frame to come or a half in a slot.            *)
InUse == {frame.n : frame \in UNION {
  Range(second[r]) \cup UNION {Range(slot.f0) : slot \in Range(buffer[r].slots)} : r \in Radios}}

Readers(frame) == {q \in Radios \ {frame.from} : read(radio[q], q, frame.sn)}

Misses(frame, radios) ==
  LET still == {m \in missed : m[2].n \in InUse}
  IN  /\ Cardinality(still) + Cardinality(radios) <= world[2]
      /\ missed' = still \cup {<<q, frame>> : q \in radios}

(* A packet from its host: the first frame goes out.                       *)
Writes(r, packet) ==
  LET result == processSpi(radio[r], r, packet, packet.ip)
      n      == Min((0 .. Cardinality(InUse)) \ InUse)
      frame  == Frame(0, n, r, result.sn, packet)
  IN  /\ UNCHANGED world
      /\ second[r] = <<>>
      /\ second' = [second EXCEPT ![r] = <<[frame EXCEPT !.half = 1]>>]
      /\ radio' = [radio EXCEPT ![r] = result.radio]
      /\ \E hear \in SUBSET Readers(frame) :
           /\ Misses(frame, Readers(frame) \ hear)
           /\ buffer' = [q \in Radios |-> IF q \in hear
                THEN defragF0(buffer[q], frame.sn, frame) ELSE buffer[q]]

(* The half that a frame completes.                                        *)
Slot(q, frame)  == PendingSlot(buffer[q], frame.sn)
First(q, frame) == buffer[q].slots[Slot(q, frame)].f0[1]

(* The second frame.  The packet is what its first half says.              *)
WritesSecond(r) ==
  LET frame == Head(second[r])
      result(q) == processPacket(radio[q], frame.sn, First(q, frame).packet)
  IN  /\ UNCHANGED world
      /\ second[r] # <<>>
      /\ second' = [second EXCEPT ![r] = <<>>]
      /\ \E hear \in SUBSET Readers(frame) :
           LET whole == {q \in hear : Slot(q, frame) # 0}
               up(type) == Router \in whole /\ First(Router, frame).packet.type = type
           IN  /\ Misses(frame, Readers(frame) \ hear)
               /\ buffer' = [q \in Radios |-> IF q \in hear
                    THEN defragF1(buffer[q], frame.sn) ELSE buffer[q]]
               /\ radio' = [q \in Radios |-> IF q \in whole THEN result(q).radio ELSE radio[q]]
               /\ eyeballed' = IF up("EYEBALL") THEN eyeballed \cup {First(Router, frame).packet.dev_sn}
                               ELSE eyeballed
               /\ leases' = [a \in Addresses |->
                    IF up("SENSOR_DISCONNECT") /\ a = result(Router).ip THEN None ELSE leases[a]]

-----------------------------------------------------------------------------
(* The hosts.                                                              *)

Flies == Writes(Router, Packet("FLY", AllOnes, None)) /\ UNCHANGED hosts

Pecks(a, d) ==
  /\ leases[a] = None /\ d \in eyeballed
  /\ Writes(Router, Packet("PECK", a, d))
  /\ leases' = [leases EXCEPT ![a] = d]
  /\ eyeballed' = eyeballed \ {d}

TalksTo(a) ==
  /\ leases[a] # None
  /\ Writes(Router, Packet("DATA", a, leases[a]))
  /\ UNCHANGED hosts

Disconnects(a) ==
  /\ leases[a] # None
  /\ Writes(Router, Packet("NETWORK_DISCONNECTS_SENSOR", a, leases[a]))
  /\ leases' = [leases EXCEPT ![a] = None]
  /\ UNCHANGED eyeballed

SensorWrites(s) ==
  /\ \E type \in {"EYEBALL", "SENSOR_DISCONNECT"} : Writes(s, Packet(type, Zero, s))
  /\ UNCHANGED hosts

Next ==
  \/ Flies
  \/ \E a \in Addresses : TalksTo(a) \/ Disconnects(a) \/ \E d \in Sensors : Pecks(a, d)
  \/ \E s \in world[1] : SensorWrites(s)
  \/ \E r \in Radios : WritesSecond(r)

Spec == Init /\ [][Next]_vars

-----------------------------------------------------------------------------
(* What a radio is about to put together.                                  *)
Completes(q, r) ==
  /\ second[r] # <<>>
  /\ q \in Readers(Head(second[r])) /\ Slot(q, Head(second[r])) # 0

(* The halves of a packet belong together, unless the radio has missed the *)
(* end of the one and the start of the other (sgRadio.cpp:142-175).        *)
HalvesBelongTogether ==
  \A q \in Radios, r \in Radios : Completes(q, r) =>
    LET f0 == First(q, Head(second[r]))
        f1 == Head(second[r])
    IN  \/ f0.n = f1.n
        \/ {<<q, [f0 EXCEPT !.half = 1]>>, <<q, [f1 EXCEPT !.half = 0]>>} \subseteq missed

(* What the router sends to an address reaches no other device than the    *)
(* one that has it, although the radio has a table of its own, which the   *)
(* devices' packets change before the router sees them                     *)
(* (sgSnIp.cpp:39-206, sgRadio.cpp:73-140, :177-255).                      *)
ReachesItsDevice ==
  \A q \in world[1] : Completes(q, Router) =>
    LET packet == First(q, Head(second[Router])).packet
    IN  packet.type \in {"FLY", "PECK"} \/ packet.to = q
=============================================================================
