----------------------------- MODULE SensorNode -----------------------------
(***************************************************************************)
(* A sensor board, its radio, and the SPI line and the SLAVE_READY pin     *)
(* between them.  The board runs sensorConnect and, once nested, the loop  *)
(* of its sketch, with two interrupts: the pin falls, and the button.  The *)
(* radio runs the loop of sansgridRadio.ino, interrupted by the bytes of a *)
(* transfer.  What the network says is any packet at any time.             *)
(*                                                                         *)
(* The code relies on its delays.  Here: a radio between two rounds of its *)
(* loop takes up a finished transfer before the next one begins (the board *)
(* waits 1.2 ms for its first byte), and a board that waits a second       *)
(* before it sends finds the radio done with the packet before.            *)
(***************************************************************************)
EXTENDS SgRadio

CONSTANTS
  HeardTypes   \* bound: the packets the network may send

Nothing == "none"

VARIABLES
  (* the board: SensorConfig, and payload[0] of sg_serial                  *)
  fly, sing, mock, squawk, nest, connecting, forget, received,
  nokey,        \* constant of the sketch
  server_id,    \* is it the server's?
  payload,
  board,        \* where the board is
  (* the radio                                                             *)
  radio,
  cmd,          \* kind of the transfer that runs or was last: 0, 0xAD, 0xFD
  spi_rx, spi_tx, tx_done, \* tx_done: tx_pos > NUM_BYTES
  process_flag,
  spi_active,   \* and SLAVE_READY is low
  place,        \* where the radio is: "loop", "write", "reply"
  (* history                                                               *)
  asked,        \* the board has read a challenge and not answered it
  lost          \* the board has missed a packet, below

flags    == <<fly, sing, mock, squawk, nest, connecting, forget, server_id>>
boardVars == <<flags, received, nokey, payload, board, asked, lost>>
lineVars  == <<cmd, spi_rx, spi_tx, tx_done, process_flag, spi_active>>
radioVars == <<radio, place>>
vars == <<boardVars, lineVars, radioVars>>

Replies == {"NO_REQUIRE_CHALLENGE", "REQUIRE_CHALLENGE", "CHALLENGE_SERVER", "FORGET_ME"}

(* The answers to a challenge go to the server, the router sends none of   *)
(* them to a sensor (payload_handlers.c:649-706).                          *)
ASSUME HeardAssumption == HeardTypes \cap Replies = {}

Init ==
  /\ fly = FALSE /\ sing = FALSE /\ mock = FALSE /\ squawk = FALSE /\ nest = FALSE
  /\ connecting = FALSE /\ forget = FALSE /\ received = FALSE
  /\ nokey \in BOOLEAN
  /\ server_id = FALSE
  /\ payload = Nothing
  /\ board = "loop"
  /\ radio = init
  /\ cmd = Nothing /\ spi_rx = Nothing /\ spi_tx = Nothing /\ tx_done = FALSE
  /\ process_flag = FALSE /\ spi_active = FALSE
  /\ place = "loop"
  /\ asked = FALSE /\ lost = FALSE

-----------------------------------------------------------------------------
(* The interrupt routine of the radio, for a whole transfer.  A transfer   *)
(* is of the kind that its first byte says, unless the loop has not taken  *)
(* up the one before: then all its bytes count as data of that one, beyond *)
(* the end of the buffers.                                                 *)
ISR(kind) ==
  /\ cmd' = IF cmd = Nothing THEN kind ELSE cmd
  /\ tx_done' = (tx_done \/ cmd' = "FD")
  /\ process_flag' = TRUE
  /\ UNCHANGED <<spi_tx, spi_active>>

sgSerialSend(type) ==
  /\ ISR("AD")
  /\ spi_rx' = IF cmd = Nothing THEN type ELSE spi_rx

sgSerialReceive ==
  /\ ISR("FD")
  /\ UNCHANGED spi_rx

Arrived == IF cmd = Nothing THEN spi_tx ELSE "GARBAGE"

(* See above for the delays.                                               *)
LineIsFree == place = "loop" => ~ process_flag

-----------------------------------------------------------------------------
(* The board: payloadHandler and payloadHandlerB.  A packet that is        *)
(* answered at once changes the flags after the answer is out, any other   *)
(* changes them now.  The second byte of a type decides which handler sees *)
(* it: a nested board only calls payloadHandlerB.                          *)

ForHandlerB == {"SERVER_RESPOND", "COMMAND", "NETWORK_DISCONNECTS_SENSOR",
                "SENSOR_DISCONNECT", "FORGET_ME", "EYEBALL", "FLY", "DATA"}

Answered == {"SERVER_RESPOND", "NETWORK_DISCONNECTS_SENSOR", "SENSOR_DISCONNECT",
             "EYEBALL", "MOCK", "PEACOCK", "DATA"} \cup Replies

Ignored(type) == nest /\ type \notin ForHandlerB

peck ==
  /\ forget' = ~ server_id
  /\ server_id' = TRUE
  /\ UNCHANGED <<fly, sing, mock, squawk, nest, connecting>>

singing ==
  /\ sing' = TRUE
  /\ UNCHANGED <<fly, mock, squawk, nest, connecting, forget, server_id>>

nesting ==
  /\ nest' = TRUE /\ connecting' = FALSE
  /\ UNCHANGED <<fly, sing, mock, squawk, forget, server_id>>

squawking ==
  /\ squawk' = TRUE
  /\ UNCHANGED <<fly, sing, mock, nest, connecting, forget, server_id>>

(* Mutant of denied: the board leaves its loop, too.                       *)
deniedLeaves ==
  /\ fly' = FALSE /\ squawk' = FALSE /\ connecting' = FALSE /\ nest' = FALSE
  /\ UNCHANGED <<sing, mock, forget, server_id>>

denied ==
  /\ fly' = FALSE /\ squawk' = FALSE /\ connecting' = FALSE
  /\ UNCHANGED <<sing, mock, nest, forget, server_id>>

(* Mutant of flying: connecting is assigned.                               *)
flyingConnects ==
  LET taken == ~ connecting /\ ~ nest
  IN  /\ fly' = (fly \/ taken)
      /\ connecting' = (connecting \/ taken)
      /\ UNCHANGED <<sing, mock, squawk, nest, forget, server_id>>

(* "connecting == true;" compares: nothing is assigned.                    *)
flying ==
  /\ fly' = (fly \/ (~ connecting /\ ~ nest))
  /\ UNCHANGED <<sing, mock, squawk, nest, connecting, forget, server_id>>

(* SERVER_RESPOND when the response is not what the sensor expects.        *)
Noted(type) ==
  IF Ignored(type) THEN UNCHANGED flags
  ELSE CASE type = "PECK"   -> peck
         [] type = "SING"   -> singing
         [] type = "NEST"   -> nesting
         [] type = "SQUAWK" -> squawking
         [] type \in {"DENY_SENSOR", "SERVER_RESPOND"} -> denied
         [] type = "FLY"    -> flying
         [] OTHER -> UNCHANGED flags

Handles(type, answering, after) ==
  \/ ~ Ignored(type) /\ type \in Answered /\ board' = answering /\ UNCHANGED flags
  \/ type \notin Answered \ {"SERVER_RESPOND"} /\ board' = after /\ Noted(type)

Reply == IF forget THEN "FORGET_ME"
         ELSE IF nokey THEN "NO_REQUIRE_CHALLENGE" ELSE "REQUIRE_CHALLENGE"

(* A packet is read and handled; received stays set.                       *)
BoardReads ==
  /\ board = "loop" /\ received /\ LineIsFree
  /\ sgSerialReceive
  /\ IF nest THEN Handles(Arrived, "answer nested", "clear nested")
     ELSE Handles(Arrived, "answer", "clear")
  /\ LET challenge == Arrived = "SQUAWK" /\ ~ nest
     IN  /\ payload' = IF challenge THEN Reply ELSE Arrived
         /\ asked' = (asked \/ challenge)
         /\ lost' = (lost \/ Arrived = "GARBAGE")
  /\ UNCHANGED <<received, nokey, radioVars>>

(* received = false comes last: an edge since the packet was read is lost. *)
BoardClears ==
  /\ \/ board = "clear" /\ board' = "loop"
     \/ board = "clear nested" /\ board' = "chirp"
  /\ received' = FALSE
  /\ lost' = (lost \/ (spi_active /\ ~ tx_done))
  /\ UNCHANGED <<flags, nokey, payload, asked, lineVars, radioVars>>

(* The branches of sensorConnect that send.                                *)
BoardTurns ==
  /\ board = "loop" /\ ~ nest /\ ~ received
  /\ \/ mock /\ payload' = "PEACOCK"
     \/ ~ mock /\ sing /\ payload' = "MOCK"
     \/ ~ mock /\ ~ sing /\ fly /\ payload' = "EYEBALL"
  /\ board' = "send"
  /\ UNCHANGED <<flags, received, nokey, asked, lost, lineVars, radioVars>>

(* Its last branch: with squawk set, whatever payload holds is handled.    *)
BoardSquawks ==
  /\ board = "loop" /\ ~ nest /\ ~ received
  /\ squawk /\ ~ mock /\ ~ sing /\ ~ fly
  /\ Handles(payload, "send", "loop")
  /\ UNCHANGED <<received, nokey, payload, asked, lost, lineVars, radioVars>>

(* The type that goes out, and what payload[0] is afterwards.              *)
Sent == CASE payload = "NETWORK_DISCONNECTS_SENSOR" -> "SENSOR_DISCONNECT"
          [] payload = "SERVER_RESPOND" -> "ACCEPT_RESPONSE"
          [] OTHER -> payload

(* Mutant of AfterSend: the challenge stays open.                          *)
AfterSendSquawks ==
  /\ mock' = (payload = "MOCK" \/ (mock /\ payload # "PEACOCK"))
  /\ sing' = (sing /\ payload # "MOCK")
  /\ fly'  = (fly /\ Sent \notin {"EYEBALL", "SENSOR_DISCONNECT", "FORGET_ME"})
  /\ nest' = (nest /\ Sent # "SENSOR_DISCONNECT")
  /\ connecting' = (connecting /\ Sent \notin {"SENSOR_DISCONNECT", "FORGET_ME"})
  /\ UNCHANGED <<squawk, forget, server_id>>

AfterSend ==
  /\ mock' = (payload = "MOCK" \/ (mock /\ payload # "PEACOCK"))
  /\ sing' = (sing /\ payload # "MOCK")
  /\ fly'  = (fly /\ Sent \notin {"EYEBALL", "SENSOR_DISCONNECT", "FORGET_ME"})
  /\ squawk' = (squawk /\ Sent \notin {"NO_REQUIRE_CHALLENGE", "CHALLENGE_SERVER",
                                       "FORGET_ME", "ACCEPT_RESPONSE"})
  /\ nest' = (nest /\ Sent # "SENSOR_DISCONNECT")
  /\ connecting' = (connecting /\ Sent \notin {"SENSOR_DISCONNECT", "FORGET_ME"})
  /\ UNCHANGED <<forget, server_id>>

(* delay(1000), then sgSerialSend.                                         *)
BoardSends ==
  /\ board \in {"send", "answer", "answer nested"} /\ LineIsFree /\ place # "write"
  /\ sgSerialSend(Sent)
  /\ AfterSend
  /\ payload' = IF payload = "REQUIRE_CHALLENGE" THEN "CHALLENGE_SERVER" ELSE Sent
  /\ asked' = (asked /\ payload \notin Replies \ {"REQUIRE_CHALLENGE"})
  /\ board' = CASE board = "send" -> "loop" [] board = "answer" -> "clear"
                [] board = "answer nested" -> "clear nested"
  /\ UNCHANGED <<received, nokey, lost, radioVars>>

(* The sketch sends its data every ten seconds, without a delay: also      *)
(* right behind an answer, and to a network it has just left.              *)
BoardChirps ==
  /\ \/ board = "chirp" /\ (place = "write" => payload # "DATA")
     \/ board = "loop" /\ nest /\ ~ received /\ place # "write"
  /\ LineIsFree
  /\ sgSerialSend("DATA")
  /\ payload' = "DATA"
  /\ board' = "loop"
  /\ UNCHANGED <<flags, received, nokey, asked, lost, radioVars>>

BoardIsQuiet ==
  /\ board = "chirp"
  /\ board' = "loop"
  /\ UNCHANGED <<flags, received, nokey, payload, asked, lost, lineVars, radioVars>>

(* The interrupt of the button.                                            *)
buttonPress ==
  /\ fly' = FALSE /\ sing' = FALSE /\ mock' = FALSE /\ connecting' = FALSE /\ squawk' = FALSE
  /\ UNCHANGED <<nest, forget, server_id, received, nokey, payload, board, asked, lost,
                 lineVars, radioVars>>

Board == \/ BoardReads \/ BoardClears \/ BoardTurns \/ BoardSquawks
         \/ BoardSends \/ BoardChirps \/ BoardIsQuiet

-----------------------------------------------------------------------------
(* The radio.                                                              *)

(* Mutant of HandsUp: the level interrupts, not the edge.                  *)
EdgeAlways(type) ==
  /\ spi_tx' = type
  /\ spi_active' = TRUE
  /\ received' = TRUE
  /\ UNCHANGED <<flags, nokey, payload, board, asked, lost, cmd, spi_rx, tx_done, process_flag>>

(* Mutant of HandsUp: no interrupt.                                        *)
EdgeNever(type) ==
  /\ spi_tx' = type
  /\ spi_active' = TRUE
  /\ UNCHANGED <<boardVars, cmd, spi_rx, tx_done, process_flag>>

(* SLAVE_READY goes low with a packet for the board: the edge, if there is *)
(* one, interrupts the board.                                              *)
HandsUp(type) ==
  /\ spi_tx' = type
  /\ spi_active' = TRUE
  /\ received' = (received \/ ~ spi_active)
  /\ UNCHANGED <<flags, nokey, payload, board, asked, lost, cmd, spi_rx, tx_done, process_flag>>

RadioTimesOut ==
  /\ place = "loop" /\ radio.on_network
  /\ radio' = timeout(radio)
  /\ IF radio'.on_network THEN UNCHANGED <<boardVars, lineVars>>
     ELSE HandsUp("NETWORK_DISCONNECTS_SENSOR")
  /\ UNCHANGED place

(* A transfer has ended: the packet for the board is out,                  *)
RadioResolves ==
  /\ place = "loop" /\ process_flag
  /\ spi_active /\ tx_done
  /\ cmd' = Nothing /\ process_flag' = FALSE
  /\ spi_active' = FALSE /\ tx_done' = FALSE /\ spi_tx' = Nothing
  /\ UNCHANGED <<boardVars, spi_rx, radioVars>>

(* or else it brought a packet for the air.                                *)
RadioTakes ==
  /\ place = "loop" /\ process_flag
  /\ ~ (spi_active /\ tx_done)
  /\ cmd' = Nothing /\ spi_rx' = Nothing
  /\ radio' = processSpi(radio, "own", [type |-> spi_rx], Zero).radio
  /\ place' = "write"
  /\ UNCHANGED <<boardVars, spi_tx, tx_done, process_flag, spi_active>>

(* Both frames are out.  process_flag = false here forgets a transfer that *)
(* ended meanwhile; after the answer to a heartbeat it is left alone.      *)
RadioWrote ==
  /\ place \in {"write", "reply"}
  /\ place' = "loop"
  /\ process_flag' = (process_flag /\ place = "reply")
  /\ UNCHANGED <<boardVars, cmd, spi_rx, spi_tx, tx_done, spi_active, radio>>

RadioHears ==
  /\ place = "loop" /\ ~ spi_active
  /\ \E type \in HeardTypes :
       LET result == processPacket(radio, Zero, [type |-> type])
       IN  /\ radio' = result.radio
           /\ IF result.send_packet THEN HandsUp(type) ELSE UNCHANGED <<boardVars, lineVars>>
           /\ place' = IF result.packet.type # type THEN "reply" ELSE "loop"

Radio == RadioTimesOut \/ RadioResolves \/ RadioTakes \/ RadioWrote

Next == Board \/ buttonPress \/ Radio \/ RadioHears

(* Both run their loops for ever.  The radio looks at process_flag in      *)
(* every round, and a packet takes longer than a round of the board, so    *)
(* each comes round to the rest of its loop: strong fairness.  The network *)
(* and the button owe nothing.                                             *)
Spec == /\ Init /\ [][Next]_vars
        /\ WF_vars(Board) /\ SF_vars(BoardTurns)
        /\ SF_vars(RadioResolves \/ RadioTakes) /\ WF_vars(RadioWrote)

-----------------------------------------------------------------------------
(* A radio that is on a network, and so takes no Fly, Peck or Nest, has a  *)
(* board that knows it, unless the two are in the middle of something or   *)
(* SLAVE_READY is low (sgRadio.cpp:198-206, sensorPayloadHandler.cpp:133). *)
JoinedTogether ==
  /\ radio.on_network /\ board = "loop" /\ ~ received
  /\ place = "loop" /\ ~ process_flag /\ ~ spi_active
  => nest

(* Each challenge of the server is answered at most once, and nothing else *)
(* is (sensorPayloadHandler.cpp:138-246).                                  *)
AnswersWhatIsAsked == [][BoardSends /\ payload \in Replies => asked]_vars

(* Two ways not to hand over a packet: the board has missed its edge, for  *)
(* it cleared received later or read garbage instead; or the packet was    *)
(* read and the radio forgot that.                                         *)
LostEdge == lost /\ spi_active /\ ~ received /\ ~ tx_done
LostEnd  == spi_active /\ ~ received /\ tx_done /\ ~ process_flag

(* A packet for the board is handed over unless it gets lost in one of     *)
(* them (sensorPayloadHandler.cpp:417, sansgridRadio.ino:215).             *)
HandedOver == spi_active ~> (~ spi_active \/ LostEdge \/ LostEnd)

(* A lost edge is never made good: board and radio are deaf to each other  *)
(* until the power is cut.                                                 *)
LostEdgeLasts == [][LostEdge => LostEdge']_vars

(* A board that is not nested and reads one Fly after the other answers    *)
(* again and again, so a lost Peck is made good.  The button, a denial and *)
(* a disconnection take back the answer, and one Sing after the other puts *)
(* it off for ever (sensorPayloadHandler.cpp:346, :418-455).               *)
ReadsFly   == BoardReads /\ Arrived = "FLY" /\ ~ nest
Eyeballs   == BoardSends /\ payload = "EYEBALL"
IsSungTo   == BoardReads /\ Arrived = "SING"
TakesBack  == fly /\ ~ fly' /\ ~ Eyeballs
KeepsAnswering ==
  []<><<ReadsFly>>_vars => []<><<Eyeballs \/ buttonPress \/ TakesBack \/ IsSungTo>>_vars
=============================================================================
