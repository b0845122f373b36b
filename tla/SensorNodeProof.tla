--------------------------- MODULE SensorNodeProof ---------------------------
(***************************************************************************)
(* Theorems about a board and its radio, whatever the network says.  The   *)
(* invariant says what is missing when a radio is on a network and its     *)
(* board is not nested, or is about to leave: the Nest is still out, and   *)
(* the board has not read it.                                              *)
(***************************************************************************)
EXTENDS SensorNode, TLAPS

Goodbyes == {"NETWORK_DISCONNECTS_SENSOR", "SENSOR_DISCONNECT"}
Sending  == {"send", "answer", "answer nested"}

SensorRadio(on_network, counter) ==
  [router_mode |-> "SENSOR", on_network |-> on_network, timeout_counter |-> counter,
   table |-> SnIpTable]

IsSensors(r) == \E on_network \in BOOLEAN : \E counter : r = SensorRadio(on_network, counter)

(* A transfer that brings the board a packet is under way exactly while    *)
(* the packet is out and the radio has not seen it; and a board that is    *)
(* about to read finds the packet there.                                   *)
Line ==
  /\ cmd \in {Nothing, "AD", "FD"}
  /\ tx_done <=> cmd = "FD"
  /\ tx_done => spi_active
  /\ received /\ board \in {"loop", "send", "chirp"} => spi_active /\ ~ tx_done
  /\ spi_tx \notin Replies \cup {"SENSOR_DISCONNECT"}
  /\ spi_rx # "HATCH"

NestWaits == spi_active /\ ~ tx_done /\ spi_tx = "NEST"

Leaving == board = "answer nested" /\ payload \in Goodbyes

Network ==
  /\ IsSensors(radio)
  /\ spi_tx = "NETWORK_DISCONNECTS_SENSOR" => ~ radio.on_network
  /\ board \in {"send", "answer"} => ~ nest
  /\ board \in Sending => payload \in Answered
  /\ radio.on_network /\ (~ nest \/ Leaving) => NestWaits

Challenge == payload \in Replies /\ (squawk \/ board \in Sending) => asked

IInv == Line /\ Network /\ Challenge

-----------------------------------------------------------------------------
(* The radio of a sensor, one packet at a time.                            *)

LEMMA SensorRadioFields ==
  ASSUME NEW on_network, NEW counter, NEW r, r = SensorRadio(on_network, counter)
  PROVE  /\ r.on_network = on_network /\ r.timeout_counter = counter
         /\ SENSOR(r) /\ ~ ROUTER(r)
         /\ \A c : [r EXCEPT !.timeout_counter = c] = SensorRadio(on_network, c)
         /\ \A on : [r EXCEPT !.on_network = on] = SensorRadio(on, counter)
BY DEF SensorRadio, SENSOR, ROUTER

LEMMA TakesFromBoard ==
  ASSUME NEW r, IsSensors(r), NEW type, NEW after,
         after = processSpi(r, "own", [type |-> type], Zero).radio, type # "HATCH"
  PROVE  /\ IsSensors(after)
         /\ after.on_network => r.on_network
         /\ type = "SENSOR_DISCONNECT" => ~ after.on_network
<1>0. PICK on_network \in BOOLEAN : \E counter : r = SensorRadio(on_network, counter)
  BY DEF IsSensors
<1>1. PICK counter : r = SensorRadio(on_network, counter)
  BY <1>0
<1>2. SENSOR(r) /\ ~ ROUTER(r)
  BY <1>1, SensorRadioFields
<1>3. CASE type = "SENSOR_DISCONNECT"
  <2>1. after = [r EXCEPT !.on_network = FALSE]
    BY <1>2, <1>3 DEF processSpi
  <2>2. after = SensorRadio(FALSE, counter)
    <3>1. \A on : [r EXCEPT !.on_network = on] = SensorRadio(on, counter)
      BY <1>1, SensorRadioFields
    <3> QED
      BY <2>1, <3>1
  <2>3. ~ after.on_network
    BY <2>2, SensorRadioFields
  <2> QED
    BY <2>2, <2>3 DEF IsSensors
<1>4. CASE type # "SENSOR_DISCONNECT"
  <2>1. after = r
    BY <1>2, <1>4 DEF processSpi
  <2> QED
    BY <1>4, <2>1
<1> QED
  BY <1>3, <1>4

LEMMA Hears ==
  ASSUME NEW r, IsSensors(r), NEW type, NEW result,
         result = processPacket(r, Zero, [type |-> type])
  PROVE  /\ IsSensors(result.radio)
         /\ result.radio.on_network => r.on_network \/ (type = "NEST" /\ result.send_packet)
         /\ type = "NETWORK_DISCONNECTS_SENSOR" => ~ result.radio.on_network
         /\ result.send_packet => type # "SENSOR_DISCONNECT"
<1>0. PICK on_network \in BOOLEAN : \E counter : r = SensorRadio(on_network, counter)
  BY DEF IsSensors
<1>1. PICK counter : r = SensorRadio(on_network, counter)
  BY <1>0
<1>2. SENSOR(r) /\ ~ ROUTER(r) /\ r.on_network = on_network
  BY <1>1, SensorRadioFields
<1>3. ASSUME NEW on \in BOOLEAN, NEW packet, NEW ip, NEW send
      PROVE  LET res == Result(SensorRadio(on, counter), packet, ip, send)
             IN  IsSensors(res.radio) /\ res.radio.on_network = on /\ res.send_packet = send
  <2> DEFINE res == Result(SensorRadio(on, counter), packet, ip, send)
  <2>1. res.radio = [SensorRadio(on, counter) EXCEPT !.timeout_counter = 1]
        /\ res.send_packet = send
    BY DEF Result
  <2>2. res.radio = SensorRadio(on, 1)
    BY <2>1, SensorRadioFields
  <2>3. res.radio.on_network = on
    BY <2>2, SensorRadioFields
  <2> QED
    BY <2>1, <2>2, <2>3 DEF IsSensors
<1>4. /\ [r EXCEPT !.on_network = TRUE] = SensorRadio(TRUE, counter)
      /\ [r EXCEPT !.on_network = FALSE] = SensorRadio(FALSE, counter)
  <2>1. \A on : [r EXCEPT !.on_network = on] = SensorRadio(on, counter)
    BY <1>1, SensorRadioFields
  <2> QED
    BY <2>1
<1> DEFINE plain == [type |-> type]
           echo  == [plain EXCEPT !.type = "HEARTBEAT_SENSOR_TO_ROUTER"]
           Is(on, packet, ip, send) == result = Result(SensorRadio(on, counter), packet, ip, send)
<1>5. \/ type = "NEST" /\ \E ip : Is(TRUE, plain, ip, TRUE)
      \/ type = "NETWORK_DISCONNECTS_SENSOR" /\ \E ip : Is(FALSE, plain, ip, TRUE)
      \/ /\ type # "NETWORK_DISCONNECTS_SENSOR"
         /\ \E packet, ip, send : /\ Is(on_network, packet, ip, send)
                                  /\ send => type # "SENSOR_DISCONNECT"
  <2>1. CASE type = "HEARTBEAT_ROUTER_TO_SENSOR"
    BY <1>1, <1>2, <2>1 DEF processPacket
  <2>2. CASE type = "HATCH"
    BY <1>1, <1>2, <2>2 DEF processPacket
  <2>3. CASE type \in {"FLY", "PECK"}
    BY <1>1, <1>2, <2>3 DEF processPacket
  <2>4. CASE type = "NEST"
    BY <1>1, <1>2, <1>4, <2>4 DEF processPacket
  <2>5. CASE type = "EYEBALL"
    BY <1>1, <1>2, <2>5 DEF processPacket
  <2>6. CASE type = "NETWORK_DISCONNECTS_SENSOR"
    BY <1>1, <1>2, <1>4, <2>6 DEF processPacket
  <2>7. CASE type = "SENSOR_DISCONNECT"
    BY <1>1, <1>2, <2>7 DEF processPacket
  <2>8. CASE type \notin {"HEARTBEAT_ROUTER_TO_SENSOR", "HATCH", "FLY", "PECK", "NEST", "EYEBALL",
                         "NETWORK_DISCONNECTS_SENSOR", "SENSOR_DISCONNECT"}
    BY <1>1, <1>2, <2>8 DEF processPacket
  <2> QED
    BY <2>1, <2>2, <2>3, <2>4, <2>5, <2>6, <2>7, <2>8
<1>6. CASE type = "NEST" /\ \E ip : Is(TRUE, plain, ip, TRUE)
  <2>1. PICK ip : Is(TRUE, plain, ip, TRUE)
    BY <1>6
  <2>2. PICK on \in BOOLEAN : on = TRUE
    BY Zenon
  <2>3. PICK send : send = TRUE
    OBVIOUS
  <2>4. Is(on, plain, ip, send)
    BY <2>1, <2>2, <2>3
  <2> HIDE DEF plain
  <2>5. IsSensors(result.radio) /\ result.send_packet = send
    BY <1>3, <2>4
  <2> QED
    BY <1>6, <2>2, <2>3, <2>5
<1>7. CASE type = "NETWORK_DISCONNECTS_SENSOR" /\ \E ip : Is(FALSE, plain, ip, TRUE)
  <2>1. PICK ip : Is(FALSE, plain, ip, TRUE)
    BY <1>7
  <2>2. PICK on \in BOOLEAN : on = FALSE
    BY Zenon
  <2>3. PICK send : send = TRUE
    OBVIOUS
  <2>4. Is(on, plain, ip, send)
    BY <2>1, <2>2, <2>3
  <2> HIDE DEF plain
  <2>5. IsSensors(result.radio) /\ result.radio.on_network = on
    BY <1>3, <2>4
  <2> QED
    BY <1>7, <2>2, <2>3, <2>5
<1>8. CASE /\ type # "NETWORK_DISCONNECTS_SENSOR"
           /\ \E packet, ip, send : /\ Is(on_network, packet, ip, send)
                                    /\ send => type # "SENSOR_DISCONNECT"
  BY <1>2, <1>3, <1>8
<1> QED
  BY <1>5, <1>6, <1>7, <1>8

LEMMA TimesOut ==
  ASSUME NEW r, IsSensors(r), NEW after, after = timeout(r)
  PROVE  IsSensors(after) /\ (after.on_network => r.on_network)
<1>0. PICK on_network \in BOOLEAN : \E counter : r = SensorRadio(on_network, counter)
  BY DEF IsSensors
<1>1. PICK counter : r = SensorRadio(on_network, counter)
  BY <1>0
<1>2. ~ ROUTER(r) /\ r.on_network = on_network
  BY <1>1, SensorRadioFields
<1>3. CASE ~ on_network
  BY <1>2, <1>3 DEF timeout
<1>4. CASE on_network
  <2> DEFINE c  == (r.timeout_counter + 1) % TimeoutRounds
             on == c # 0
  <2>1. after = [r EXCEPT !.timeout_counter = c, !.on_network = on]
    BY <1>2, <1>4, Zenon DEF timeout
  <2>2. on \in BOOLEAN
    BY Zenon
  <2> HIDE DEF c, on
  <2>3. after = SensorRadio(on, c)
    BY <1>1, <2>1 DEF SensorRadio
  <2>4. IsSensors(after)
    BY <2>2, <2>3 DEF IsSensors
  <2> QED
    BY <1>2, <1>4, <2>4
<1> QED
  BY <1>3, <1>4

-----------------------------------------------------------------------------
(* The invariant.                                                          *)

LEMMA InitHolds == Init => IInv
<1>1. init = SensorRadio(FALSE, 1)
  BY DEF init, SensorRadio
<1>2. IsSensors(init) /\ ~ init.on_network
  <2>1. \E on \in BOOLEAN : on = FALSE /\ init = SensorRadio(on, 1)
    BY <1>1, Zenon
  <2> QED
    BY <2>1, SensorRadioFields DEF IsSensors
<1> QED
  BY <1>2 DEF Init, IInv, Line, Network, Challenge, Nothing, Replies, Sending, Leaving

(* What a board does with a packet it has read, or is left with.           *)
LEMMA HandlesFacts ==
  ASSUME NEW type, NEW answering, NEW after, Handles(type, answering, after)
  PROVE  /\ nest => nest'
         /\ nest' => nest \/ type = "NEST"
         /\ type = "NEST" => nest'
         /\ \/ board' = answering /\ type \in Answered /\ nest' = nest /\ squawk' = squawk
            \/ board' = after /\ type \notin Answered \ {"SERVER_RESPOND"}
         /\ squawk' => squawk \/ (type = "SQUAWK" /\ ~ nest)
<1>1. CASE ~ Ignored(type) /\ type \in Answered /\ board' = answering /\ UNCHANGED flags
  BY <1>1 DEF flags, Answered, Replies
<1>2. CASE type \notin Answered \ {"SERVER_RESPOND"} /\ board' = after /\ Noted(type)
  <2>1. CASE Ignored(type)
    BY <1>2, <2>1 DEF Noted, flags, Ignored
  <2>2. CASE ~ Ignored(type)
    <3>1. CASE type = "PECK"
      BY <1>2, <2>2, <3>1 DEF Noted, peck
    <3>2. CASE type = "SING"
      BY <1>2, <2>2, <3>2 DEF Noted, singing
    <3>3. CASE type = "NEST"
      BY <1>2, <2>2, <3>3 DEF Noted, nesting
    <3>4. CASE type = "SQUAWK"
      BY <1>2, <2>2, <3>4 DEF Noted, squawking, Ignored, ForHandlerB
    <3>5. CASE type \in {"DENY_SENSOR", "SERVER_RESPOND"}
      BY <1>2, <2>2, <3>5 DEF Noted, denied
    <3>6. CASE type = "FLY"
      BY <1>2, <2>2, <3>6 DEF Noted, flying
    <3>7. CASE type \notin {"PECK", "SING", "NEST", "SQUAWK", "DENY_SENSOR", "SERVER_RESPOND", "FLY"}
      BY <1>2, <2>2, <3>7 DEF Noted, flags
    <3> QED
      BY <3>1, <3>2, <3>3, <3>4, <3>5, <3>6, <3>7
  <2> QED
    BY <2>1, <2>2
<1> QED
  BY <1>1, <1>2 DEF Handles

LEMMA BoardReadsHolds ==
  ASSUME IInv, BoardReads
  PROVE  IInv'
<1> DEFINE answering == IF nest THEN "answer nested" ELSE "answer"
           after     == IF nest THEN "clear nested" ELSE "clear"
           type      == Arrived
<1>1. board = "loop" /\ received /\ Handles(type, answering, after)
  BY DEF BoardReads
<1>2. /\ board' \in {answering, after} /\ UNCHANGED <<received, radio, place, spi_tx, spi_active>>
      /\ cmd' = IF cmd = Nothing THEN "FD" ELSE cmd
      /\ tx_done' = (tx_done \/ cmd' = "FD") /\ process_flag' = TRUE /\ spi_rx' = spi_rx
  BY <1>1, HandlesFacts DEF BoardReads, sgSerialReceive, ISR, radioVars
<1>3. spi_active /\ ~ tx_done /\ cmd \in {Nothing, "AD"}
  BY <1>1 DEF IInv, Line
<1>4. type \notin Replies \cup {"SENSOR_DISCONNECT"}
  BY DEF IInv, Line, Arrived, Replies
<1>5. Line'
  BY <1>2, <1>3 DEF IInv, Line, Nothing
<1>6. Challenge'
  <2>1. type = "SQUAWK" /\ ~ nest => asked'
    BY DEF BoardReads
  <2>2. ~ (type = "SQUAWK" /\ ~ nest) => payload' = type
    BY DEF BoardReads
  <2> QED
    BY <1>4, <2>1, <2>2 DEF Challenge
<1>7. Network'
  <2>1. board' \in Sending => board' = answering /\ type \in Answered /\ nest' = nest
    <3>1. after \notin Sending
      BY DEF Sending
    <3> HIDE DEF answering, after, type
    <3> QED
      BY <1>1, <3>1, HandlesFacts
  <2>2. board' \in Sending => payload' = type
    <3>1. type \in Answered => type # "SQUAWK"
      BY DEF Answered, Replies
    <3> QED
      BY <2>1, <3>1 DEF BoardReads
  <2>3. board' \in {"send", "answer"} => ~ nest'
    BY <2>1 DEF Sending
  <2>4. ASSUME radio'.on_network, ~ nest' \/ Leaving'
        PROVE  NestWaits'
    <3>1. type # "NETWORK_DISCONNECTS_SENSOR"
      BY <1>2, <2>4 DEF IInv, Network, Arrived
    <3>2. ~ Leaving'
      BY <1>4, <2>2, <3>1 DEF Leaving, Goodbyes, Sending
    <3>3. ~ nest' /\ ~ nest /\ type # "NEST"
      BY <1>1, <2>4, <3>2, HandlesFacts
    <3>4. NestWaits
      BY <1>2, <2>4, <3>3 DEF IInv, Network
    <3>5. cmd # Nothing
      BY <3>3, <3>4 DEF NestWaits, Arrived, Nothing
    <3> QED
      BY <1>2, <1>3, <3>4, <3>5 DEF NestWaits
  <2> QED
    BY <1>2, <2>1, <2>2, <2>3, <2>4 DEF IInv, Network
<1> QED
  BY <1>5, <1>6, <1>7 DEF IInv

LEMMA BoardClearsHolds ==
  ASSUME IInv, BoardClears
  PROVE  IInv'
<1>1. /\ board' \in {"loop", "chirp"} /\ ~ received'
      /\ UNCHANGED <<squawk, nest, payload, asked, cmd, spi_rx, spi_tx, tx_done, spi_active, radio>>
  BY DEF BoardClears, flags, lineVars, radioVars
<1>2. Line' /\ Challenge'
  BY <1>1 DEF IInv, Line, Challenge, Sending
<1>3. Network'
  BY <1>1 DEF IInv, Network, Sending, Leaving, NestWaits
<1> QED
  BY <1>2, <1>3 DEF IInv

LEMMA BoardTurnsHolds ==
  ASSUME IInv, BoardTurns
  PROVE  IInv'
<1>1. /\ board' = "send" /\ ~ nest /\ ~ received /\ payload' \in {"PEACOCK", "MOCK", "EYEBALL"}
      /\ UNCHANGED <<squawk, nest, received, asked, cmd, spi_rx, spi_tx, tx_done, spi_active, radio>>
  BY DEF BoardTurns, flags, lineVars, radioVars
<1>2. Line' /\ Challenge'
  BY <1>1 DEF IInv, Line, Challenge, Replies
<1>3. Network'
  BY <1>1 DEF IInv, Network, Leaving, NestWaits, Answered
<1> QED
  BY <1>2, <1>3 DEF IInv

LEMMA BoardSquawksHolds ==
  ASSUME IInv, BoardSquawks
  PROVE  IInv'
<1>1. /\ ~ nest /\ ~ received /\ squawk /\ Handles(payload, "send", "loop")
      /\ UNCHANGED <<received, payload, asked, cmd, spi_rx, spi_tx, tx_done, spi_active, radio>>
  BY DEF BoardSquawks, lineVars, radioVars
<1>2. \/ board' = "send" /\ payload \in Answered /\ nest' = nest
      \/ board' = "loop"
  BY <1>1, HandlesFacts
<1>3. Line' /\ Challenge'
  BY <1>1, <1>2 DEF IInv, Line, Challenge
<1>4. /\ board' \in {"send", "answer"} => ~ nest'
      /\ board' \in Sending => payload' \in Answered
  <2>1. board' = "loop" => board' \notin Sending \cup {"send", "answer"}
    BY DEF Sending
  <2>2. board' # "loop" => payload' \in Answered /\ ~ nest'
    BY <1>1, <1>2
  <2> QED
    BY <2>1, <2>2
<1>5. Network'
  BY <1>1, <1>4 DEF IInv, Network, NestWaits
<1> QED
  BY <1>3, <1>5 DEF IInv

LEMMA SentFacts ==
  ASSUME payload \in Answered
  PROVE  /\ Sent # "HATCH"
         /\ Sent = "SENSOR_DISCONNECT" => payload \in Goodbyes
         /\ Sent \in Replies => Sent = payload
         /\ Sent # "SQUAWK"
BY DEF Sent, Answered, Replies, Goodbyes

LEMMA BoardSendsHolds ==
  ASSUME IInv, BoardSends
  PROVE  IInv'
<1>1. /\ board \in Sending /\ payload \in Answered
      /\ board = "send" => board' = "loop"
      /\ board # "send" => board' \in {"clear", "clear nested"}
      /\ UNCHANGED <<received, spi_tx, spi_active, radio>>
      /\ cmd' = IF cmd = Nothing THEN "AD" ELSE cmd
      /\ tx_done' = (tx_done \/ cmd' = "FD")
      /\ spi_rx' \in {spi_rx, Sent}
  BY DEF IInv, Network, BoardSends, Sending, sgSerialSend, ISR, radioVars
<1>2. Line'
  BY <1>1, SentFacts DEF IInv, Line, Nothing, Sending
<1>3. Challenge'
  <2>1. SUFFICES ASSUME payload' \in Replies, squawk' PROVE asked'
    BY <1>1 DEF Challenge, Sending
  <2>2. CASE payload = "REQUIRE_CHALLENGE"
    BY <1>1, <2>2 DEF IInv, Challenge, BoardSends, Replies
  <2>3. CASE payload # "REQUIRE_CHALLENGE"
    <3>1. Sent \in Replies /\ Sent # "REQUIRE_CHALLENGE"
      BY <1>1, <2>1, <2>3, SentFacts DEF BoardSends
    <3> QED
      BY <2>1, <3>1 DEF BoardSends, AfterSend, Replies
  <2> QED
    BY <2>2, <2>3
<1>4. Network'
  <2>1. board' \notin Sending
    BY <1>1 DEF Sending
  <2>2. ASSUME radio'.on_network, ~ nest' PROVE NestWaits'
    <3>1. ~ nest \/ Sent = "SENSOR_DISCONNECT"
      BY <2>2 DEF BoardSends, AfterSend
    <3>2. ~ nest \/ Leaving
      BY <1>1, <3>1, SentFacts DEF IInv, Network, Leaving, Sending
    <3> QED
      BY <1>1, <2>2, <3>2 DEF IInv, Network, NestWaits, Line, Nothing
  <2> QED
    BY <1>1, <2>1, <2>2 DEF IInv, Network, Leaving, Sending
<1> QED
  BY <1>2, <1>3, <1>4 DEF IInv

LEMMA BoardChirpsHolds ==
  ASSUME IInv, BoardChirps
  PROVE  IInv'
<1>1. /\ board \in {"chirp", "loop"} /\ board' = "loop" /\ payload' = "DATA"
      /\ UNCHANGED <<squawk, nest, received, asked, spi_tx, spi_active, radio>>
      /\ cmd' = IF cmd = Nothing THEN "AD" ELSE cmd
      /\ tx_done' = (tx_done \/ cmd' = "FD")
      /\ spi_rx' \in {spi_rx, "DATA"}
  BY DEF BoardChirps, sgSerialSend, ISR, radioVars, flags
<1>2. Line' /\ Challenge'
  BY <1>1 DEF IInv, Line, Challenge, Nothing, Replies
<1>3. Network'
  BY <1>1 DEF IInv, Network, NestWaits, Line, Nothing, Leaving, Sending
<1> QED
  BY <1>2, <1>3 DEF IInv

LEMMA BoardIdlesHolds ==
  ASSUME IInv, BoardIsQuiet \/ buttonPress
  PROVE  IInv'
<1>1. /\ board' = board \/ (board = "chirp" /\ board' = "loop")
      /\ squawk' => squawk
      /\ UNCHANGED <<nest, received, payload, asked, cmd, spi_rx, spi_tx, tx_done, spi_active, radio>>
  BY DEF BoardIsQuiet, buttonPress, flags, lineVars, radioVars
<1>2. Line' /\ Challenge'
  BY <1>1 DEF IInv, Line, Challenge, Sending
<1>3. Network'
  BY <1>1 DEF IInv, Network, NestWaits, Leaving, Sending
<1> QED
  BY <1>2, <1>3 DEF IInv

-----------------------------------------------------------------------------
(* A packet for the board: the edge finds the line idle.                   *)
LEMMA HandsUpFacts ==
  ASSUME IInv, NEW type, HandsUp(type), type \notin Replies \cup {"SENSOR_DISCONNECT"}
  PROVE  /\ UNCHANGED <<squawk, nest, payload, board, asked, cmd, spi_rx, tx_done>>
         /\ spi_tx' = type /\ spi_active'
         /\ Line' /\ Challenge'
<1>1. /\ UNCHANGED <<squawk, nest, payload, board, asked, cmd, spi_rx, tx_done>>
      /\ spi_tx' = type /\ spi_active' = TRUE
      /\ received' => received \/ ~ spi_active
  BY DEF HandsUp, flags
<1> QED
  BY <1>1 DEF IInv, Line, Challenge

LEMMA RadioTimesOutHolds ==
  ASSUME IInv, RadioTimesOut
  PROVE  IInv'
<1>1. IsSensors(radio') /\ (radio'.on_network => radio.on_network)
  BY TimesOut DEF IInv, Network, RadioTimesOut
<1>2. CASE radio'.on_network
  <2>1. UNCHANGED <<squawk, nest, received, payload, board, asked, cmd, spi_rx, spi_tx, tx_done, spi_active>>
    BY <1>2 DEF RadioTimesOut, boardVars, flags, lineVars
  <2>2. Line' /\ Challenge'
    BY <2>1 DEF IInv, Line, Challenge
  <2>3. Network'
    BY <1>1, <1>2, <2>1 DEF IInv, Network, NestWaits, Leaving
  <2> QED
    BY <2>2, <2>3 DEF IInv
<1>3. CASE ~ radio'.on_network
  <2>1. HandsUp("NETWORK_DISCONNECTS_SENSOR")
    BY <1>3 DEF RadioTimesOut
  <2>2. /\ UNCHANGED <<nest, payload, board>>
        /\ Line' /\ Challenge'
    BY <2>1, HandsUpFacts DEF Replies
  <2>3. Network'
    BY <1>1, <1>3, <2>2 DEF IInv, Network
  <2> QED
    BY <2>2, <2>3 DEF IInv
<1> QED
  BY <1>2, <1>3

LEMMA RadioHearsHolds ==
  ASSUME IInv, RadioHears
  PROVE  IInv'
<1>1. PICK type \in HeardTypes :
        LET result == processPacket(radio, Zero, [type |-> type])
        IN  /\ radio' = result.radio
            /\ IF result.send_packet THEN HandsUp(type) ELSE UNCHANGED <<boardVars, lineVars>>
  BY DEF RadioHears
<1> DEFINE result == processPacket(radio, Zero, [type |-> type])
<1>2. /\ IsSensors(radio')
      /\ radio'.on_network => radio.on_network \/ (type = "NEST" /\ result.send_packet)
      /\ type = "NETWORK_DISCONNECTS_SENSOR" => ~ radio'.on_network
      /\ result.send_packet => type # "SENSOR_DISCONNECT"
  BY <1>1, Hears DEF IInv, Network
<1> HIDE DEF result
<1>3. CASE result.send_packet
  <2>1. HandsUp(type)
    BY <1>1, <1>3 DEF result
  <2>2. type \notin Replies \cup {"SENSOR_DISCONNECT"}
    BY <1>2, <1>3, HeardAssumption
  <2>3. /\ UNCHANGED <<squawk, nest, payload, board, asked, cmd, spi_rx, tx_done>>
        /\ spi_tx' = type /\ spi_active'
        /\ Line' /\ Challenge'
    BY <2>1, <2>2, HandsUpFacts
  <2>4. ~ tx_done /\ ~ spi_active
    BY DEF IInv, Line, RadioHears
  <2>5. ASSUME radio'.on_network, ~ nest' \/ Leaving' PROVE NestWaits'
    <3>1. ~ radio.on_network
      BY <2>3, <2>4, <2>5 DEF IInv, Network, NestWaits, Leaving
    <3> QED
      BY <1>2, <2>3, <2>4, <2>5, <3>1 DEF NestWaits
  <2>6. Network'
    BY <1>2, <2>3, <2>5 DEF IInv, Network
  <2> QED
    BY <2>3, <2>6 DEF IInv
<1>4. CASE ~ result.send_packet
  <2>1. UNCHANGED <<squawk, nest, received, payload, board, asked, cmd, spi_rx, spi_tx, tx_done, spi_active>>
    BY <1>1, <1>4 DEF boardVars, flags, lineVars, result
  <2>2. Line' /\ Challenge'
    BY <2>1 DEF IInv, Line, Challenge
  <2>3. Network'
    BY <1>2, <1>4, <2>1 DEF IInv, Network, NestWaits, Leaving
  <2> QED
    BY <2>2, <2>3 DEF IInv
<1> QED
  BY <1>3, <1>4

LEMMA RadioResolvesHolds ==
  ASSUME IInv, RadioResolves
  PROVE  IInv'
<1>1. /\ cmd' = Nothing /\ ~ spi_active' /\ ~ tx_done' /\ spi_tx' = Nothing /\ tx_done
      /\ UNCHANGED <<squawk, nest, received, payload, board, asked, spi_rx, radio>>
  BY DEF RadioResolves, boardVars, flags, radioVars
<1>2. Line' /\ Challenge'
  BY <1>1 DEF IInv, Line, Challenge, Nothing, Replies
<1>3. Network'
  BY <1>1 DEF IInv, Network, NestWaits, Leaving, Nothing
<1> QED
  BY <1>2, <1>3 DEF IInv

LEMMA RadioTakesHolds ==
  ASSUME IInv, RadioTakes
  PROVE  IInv'
<1>1. /\ cmd' = Nothing /\ spi_rx' = Nothing /\ ~ (spi_active /\ tx_done)
      /\ radio' = processSpi(radio, "own", [type |-> spi_rx], Zero).radio
      /\ UNCHANGED <<squawk, nest, received, payload, board, asked, spi_tx, tx_done, spi_active>>
  BY DEF RadioTakes, boardVars, flags
<1>2. IsSensors(radio') /\ (radio'.on_network => radio.on_network)
  BY <1>1, TakesFromBoard DEF IInv, Network, Line
<1>3. Line' /\ Challenge'
  BY <1>1 DEF IInv, Line, Challenge, Nothing
<1>4. Network'
  BY <1>1, <1>2 DEF IInv, Network, NestWaits, Leaving
<1> QED
  BY <1>3, <1>4 DEF IInv

LEMMA Stays ==
  ASSUME IInv, RadioWrote \/ UNCHANGED vars
  PROVE  IInv'
<1>1. UNCHANGED <<squawk, nest, received, payload, board, asked, cmd, spi_rx, spi_tx, tx_done, spi_active,
                  radio>>
  BY DEF RadioWrote, vars, boardVars, flags, lineVars, radioVars
<1> QED
  BY <1>1 DEF IInv, Line, Challenge, Network, NestWaits, Leaving

LEMMA NextHolds == IInv /\ [Next]_vars => IInv'
<1> SUFFICES ASSUME IInv, [Next]_vars PROVE IInv'
  OBVIOUS
<1>1. CASE Board
  BY <1>1, BoardReadsHolds, BoardClearsHolds, BoardTurnsHolds, BoardSquawksHolds, BoardSendsHolds,
     BoardChirpsHolds, BoardIdlesHolds DEF Board
<1>2. CASE buttonPress
  BY <1>2, BoardIdlesHolds
<1>3. CASE Radio
  BY <1>3, RadioTimesOutHolds, RadioResolvesHolds, RadioTakesHolds, Stays DEF Radio
<1>4. CASE RadioHears
  BY <1>4, RadioHearsHolds
<1>5. CASE UNCHANGED vars
  BY <1>5, Stays
<1> QED
  BY <1>1, <1>2, <1>3, <1>4, <1>5 DEF Next

(* The inductive invariant: whatever the network says and whenever the     *)
(* button is pressed.                                                      *)
THEOREM Invariance == Spec => []IInv
  BY InitHolds, NextHolds, PTL DEF Spec

(* A radio that is on a network, and so takes no Fly, Peck or Nest, has a  *)
(* board that knows it, unless the two are in the middle of something or   *)
(* SLAVE_READY is low (sgRadio.cpp:198-206, sensorPayloadHandler.cpp:133). *)
THEOREM BothKnow == Spec => []JoinedTogether
<1>1. IInv => JoinedTogether
  BY DEF IInv, Network, NestWaits, JoinedTogether
<1> QED
  BY <1>1, Invariance, PTL

(* Each challenge of the server is answered at most once, and nothing else *)
(* is (sensorPayloadHandler.cpp:138-246).                                  *)
THEOREM AnswersAreAsked == Spec => AnswersWhatIsAsked
<1>1. IInv /\ [Next]_vars => [BoardSends /\ payload \in Replies => asked]_vars
  BY DEF IInv, Challenge, BoardSends, Sending
<1> QED
  BY <1>1, Invariance, PTL DEF Spec, AnswersWhatIsAsked

LEMMA LostEdgeStays ==
  ASSUME IInv, [Next]_vars, LostEdge
  PROVE  LostEdge'
<1>1. lost /\ spi_active /\ ~ received /\ ~ tx_done /\ cmd # "FD"
  BY DEF IInv, Line, LostEdge
<1>2. CASE BoardReads
  BY <1>1, <1>2 DEF BoardReads
<1>3. CASE BoardClears
  BY <1>1, <1>3 DEF BoardClears, lineVars, LostEdge
<1>4. CASE BoardTurns \/ BoardSquawks \/ BoardIsQuiet \/ buttonPress
  <2>1. UNCHANGED <<lost, received, spi_active, tx_done>>
    BY <1>4 DEF BoardTurns, BoardSquawks, BoardIsQuiet, buttonPress, lineVars
  <2> QED
    BY <1>1, <2>1 DEF LostEdge
<1>5. CASE BoardSends
  BY <1>1, <1>5 DEF BoardSends, sgSerialSend, ISR, Nothing, LostEdge
<1>6. CASE BoardChirps
  BY <1>1, <1>6 DEF BoardChirps, sgSerialSend, ISR, Nothing, LostEdge
<1>7. CASE RadioTimesOut
  BY <1>1, <1>7 DEF RadioTimesOut, HandsUp, boardVars, lineVars, LostEdge
<1>8. CASE RadioResolves \/ RadioHears
  BY <1>1, <1>8 DEF RadioResolves, RadioHears
<1>9. CASE RadioTakes \/ RadioWrote \/ UNCHANGED vars
  <2>1. UNCHANGED <<lost, received, spi_active, tx_done>>
    BY <1>9 DEF RadioTakes, RadioWrote, vars, boardVars, lineVars
  <2> QED
    BY <1>1, <2>1 DEF LostEdge
<1> QED
  BY <1>2, <1>3, <1>4, <1>5, <1>6, <1>7, <1>8, <1>9 DEF Next, Board, Radio

(* A lost edge is never made good: board and radio are deaf to each other  *)
(* until the power is cut.                                                 *)
THEOREM DeafForEver == Spec => LostEdgeLasts
<1>1. IInv /\ [Next]_vars => [LostEdge => LostEdge']_vars
  BY LostEdgeStays
<1> QED
  BY <1>1, Invariance, PTL DEF Spec, LostEdgeLasts
=============================================================================
