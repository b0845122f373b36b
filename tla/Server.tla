------------------------------- MODULE Server -------------------------------
(***************************************************************************)
(* The server: what the calls of its API and the page mate.php do to the   *)
(* tables sensor and pipeline, and what they send back.  A call is split   *)
(* where it sends something: the web server runs the calls side by side,   *)
(* and the router goes on after two seconds whether its call has ended or  *)
(* not (sg_tcp.c, curl -m 2).                                              *)
(*                                                                         *)
(* The calls come from the router and the sensors behind it: every Eyeball *)
(* gets a new rdid (RoutingTable), the packets of the sequence pass in     *)
(* order (Router, StepsInOrder), the server is told when a lease ends      *)
(* (DeparturesAreAnnounced), and a device answers under the newest of its  *)
(* rdids only (SgRadio, snipInsertSn).  It may start over at any time.     *)
(***************************************************************************)
EXTENDS Integers, Sequences, FiniteSets

CONSTANTS
  Devices,
  MaxRdids,   \* bound: leases that are given
  MaxRunning  \* bound: calls that run at a time

ASSUME ServerAssumption == MaxRdids \in Nat /\ MaxRunning \in Nat

VARIABLES
  sensor,        \* the rows of the table
  created,       \* the id_sensor given last
  pipeline,      \* the rows of the table
  running,       \* the calls that have something left to do
  disconnecting, \* the rdids a 0x25 is sent to
  who,           \* of the router: the device that an rdid was leased to
  step,          \* what the device of an rdid does or waits for next
  departing,     \* the rdids of ended leases, on their way to the server
  chirp,         \* the chirp just processed: rdid, and id_sensor or 0
  unheard,       \* history: rdids whose end the server did not take in
  orphaned       \* history: rdids whose pipeline row went with another's

tables == <<sensor, created, pipeline>>
leases == <<who, step>>
vars == <<tables, running, disconnecting, leases, departing, chirp, unheard, orphaned>>

Rdids == DOMAIN who

NoChirp == [rdid |-> 0, id |-> 0]

(* The server may know a device from before.  INSTALL.php forgets the      *)
(* column rdid of the table sensor, which the queries use: it is there.    *)
Init ==
  /\ \/ sensor = {} /\ created = 0
     \/ /\ created = 1
        /\ \E d \in Devices :
             sensor = {[id |-> 1, dev |-> d, status |-> "offline", mated |-> TRUE, rdid |-> 0]}
  /\ pipeline = {}
  /\ running = {} /\ disconnecting = {}
  /\ who = <<>> /\ step = <<>> /\ departing = {}
  /\ chirp = NoChirp /\ unheard = {} /\ orphaned = {}

-----------------------------------------------------------------------------
(* Queries.  An id or an rdid that is not found is 0, as MySQL stores the  *)
(* empty string in an INT.                                                 *)

TheId(rows) == IF rows = {} THEN 0 ELSE (CHOOSE row \in rows : TRUE).id

Staged(r) == {row \in pipeline : row.rdid = r}

StagedAs(r, tx) == \E row \in Staged(r) : row.tx = tx

HasRdid(r) == {row \in sensor : row.rdid = r}

(* Mutant of Mated: a sensor that seems to be there is not one to come.    *)
MatedOffline(d) == {row \in sensor : row.dev = d /\ row.mated /\ row.status = "offline"}

Mated(d) == {row \in sensor : row.dev = d /\ row.mated}

(* UPDATE sensor SET ... of some rows.                                     *)
Updated(rows, new(_)) == (sensor \ rows) \cup {new(row) : row \in rows}

updatePipeline(r, id, tx) ==
  pipeline' = (pipeline \ Staged(r)) \cup {[rdid |-> r, id |-> id, tx |-> tx]}

deleteFromPipelineByRdid(r) == pipeline' = pipeline \ Staged(r)

(* Mutant of takeSensorOffline: a stale sensor is left as it is.           *)
takeSensorOfflineOnline(r) ==
  sensor' = Updated({row \in HasRdid(r) : row.status = "online"},
                    LAMBDA row : [row EXCEPT !.status = "offline", !.rdid = 0])

takeSensorOffline(r) ==
  sensor' = Updated(HasRdid(r), LAMBDA row : [row EXCEPT !.status = "offline", !.rdid = 0])

deleteSensorByID(id) == sensor' = {row \in sensor : row.id # id}

(* The call goes on: what it still sends, then one more change.            *)
Runs(r, sends, op, id) ==
  /\ Cardinality(running) < MaxRunning
  /\ running' = running \cup {[rdid |-> r, sends |-> sends, op |-> op, id |-> id]}

-----------------------------------------------------------------------------
(* The calls.                                                              *)

(* A device takes a second before it answers (sensorParse.cpp,             *)
(* delay(1000)) or starts over: the call before has ended by then, unless  *)
(* it waits for Squawk2.                                                   *)
Settled(d) == \A call \in running : who[call.rdid] = d => call.op = "Await"

Newest(r) == \A q \in Rdids : q > r => who[q] # who[r]

At(r, here) == Newest(r) /\ step[r] = here

Goes(r, next) == step' = [step EXCEPT ![r] = next] /\ UNCHANGED who

(* A call other than processChirpData and those that make history.         *)
Plainly == chirp' = NoChirp /\ UNCHANGED <<departing, unheard, orphaned>>

processEyeball(d) ==
  LET r     == Len(who) + 1
      known == Mated(d)
  IN  /\ r <= MaxRdids /\ Settled(d)
      /\ who' = Append(who, d) /\ step' = Append(step, "peck")
      /\ deleteFromPipelineByRdid(r)
      /\ IF Cardinality(known) = 1
         THEN /\ sensor' = Updated(known, LAMBDA row : [row EXCEPT !.status = "offline"])
              /\ Runs(r, <<"PECK_RECOGNIZED", "CHALLENGE">>, "Squawk1", TheId(known))
              /\ UNCHANGED created
         ELSE \/ /\ Runs(r, <<"PECK_REFUSED">>, "end", 0)
                 /\ UNCHANGED <<sensor, created>>
              \/ /\ created' = created + 1
                 /\ sensor' = sensor \cup {[id |-> created', dev |-> d, status |-> "offline",
                                            mated |-> FALSE, rdid |-> 0]}
                 /\ \/ Runs(r, <<"PECK_MATE", "SING">>, "Sing", created')
                    \/ Runs(r, <<"PECK_MATE">>, "Peck", created')
      /\ Plainly /\ UNCHANGED disconnecting

(* mate.php                                                                *)
Mate(p) ==
  /\ p.tx = "Peck"
  /\ Runs(p.rdid, <<"SING">>, "Sing", p.id)
  /\ Plainly /\ UNCHANGED <<tables, disconnecting, leases>>

(* A Mock that is not expected changes nothing, nor does an empty key.     *)
processMock(r) ==
  /\ Settled(who[r]) /\ At(r, "mock") /\ Goes(r, "peacock")
  /\ \/ StagedAs(r, "Sing") /\ updatePipeline(r, TheId(Staged(r)), "Mock")
     \/ UNCHANGED pipeline
  /\ Plainly /\ UNCHANGED <<sensor, created, running, disconnecting>>

generateNest(r) ==
  /\ Runs(r, <<"NEST">>, "Nest", TheId(Staged(r)))
  /\ UNCHANGED tables

(* The last of a device's Peacocks.                                        *)
processPeacock(r) ==
  /\ Settled(who[r]) /\ At(r, "peacock") /\ Goes(r, "nest")
  /\ IF StagedAs(r, "Mock") THEN generateNest(r) ELSE UNCHANGED <<tables, running>>
  /\ Plainly /\ UNCHANGED disconnecting

(* 0x15 nests, 0x16 announces a challenge; a wrong response is denied.     *)
processSquawkSensorReply(r) ==
  /\ Settled(who[r]) /\ At(r, "reply")
  /\ \/ Goes(r, "nest") /\ generateNest(r)
     \/ /\ Goes(r, "own")
        /\ Runs(r, <<>>, "Squawk2", TheId(Staged(r))) /\ UNCHANGED tables
     \/ /\ \E next \in {"nest", "own"} : Goes(r, next)
        /\ Runs(r, <<"DENY">>, "Denied", 0) /\ UNCHANGED tables
  /\ Plainly /\ UNCHANGED disconnecting

processSquawkSensorChallenge(r) ==
  /\ At(r, "own") /\ Goes(r, "respond")
  /\ Runs(r, <<>>, "Await", 0)
  /\ Plainly /\ UNCHANGED <<tables, disconnecting>>

processSquawkAcceptsChallenge(r) ==
  /\ Settled(who[r]) /\ At(r, "accept") /\ Goes(r, "nest")
  /\ generateNest(r)
  /\ Plainly /\ UNCHANGED disconnecting

(* A sensor that does not know the server.                                 *)
dropAndForgetSensor(r) ==
  /\ Settled(who[r]) /\ At(r, "reply") /\ Goes(r, "quiet")
  /\ LET id == IF HasRdid(r) # {} THEN TheId(HasRdid(r)) ELSE TheId(Staged(r))
     IN  IF id = 0 THEN UNCHANGED <<sensor, disconnecting>>
         ELSE deleteSensorByID(id) /\ disconnecting' = disconnecting \cup {r}
  /\ Plainly /\ UNCHANGED <<created, pipeline, running>>

(* "WHERE rdid='$rdid' AND status='online' OR status='stale'": the AND     *)
(* comes first.                                                            *)
Listened(r) ==
  {row \in sensor : (row.rdid = r /\ row.status = "online") \/ row.status = "stale"}

(* Mutant of processChirpData: the row that was counted is the sender's.   *)
processChirpDataCounted(r) ==
  /\ At(r, "nested")
  /\ chirp' = [rdid |-> r,
               id   |-> IF Cardinality(Listened(r)) = 1 THEN TheId(Listened(r)) ELSE 0]
  /\ UNCHANGED <<tables, running, disconnecting, leases, departing, unheard, orphaned>>

processChirpData(r) ==
  /\ At(r, "nested")
  /\ chirp' = [rdid |-> r,
               id   |-> IF Cardinality(Listened(r)) = 1 THEN TheId(HasRdid(r)) ELSE 0]
  /\ UNCHANGED <<tables, running, disconnecting, leases, departing, unheard, orphaned>>

updateSensorStatus(r, status) ==
  /\ step[r] = "nested"
  /\ sensor' = Updated({row \in HasRdid(r) : row.status \in {"online", "stale"}},
                       LAMBDA row : [row EXCEPT !.status = status])
  /\ Plainly /\ UNCHANGED <<created, pipeline, running, disconnecting, leases>>

(* The 0x25 it sends back finds no device any more.                        *)
dropSensorFromNetwork(r) ==
  /\ departing' = departing \ {r}
  /\ takeSensorOffline(r)
  /\ unheard' = IF \E call \in running : call.rdid = r /\ call.op = "Nest"
                THEN unheard \cup {r} ELSE unheard
  /\ chirp' = NoChirp
  /\ UNCHANGED <<created, pipeline, running, disconnecting, leases, orphaned>>

(* Mutant of maxtime: the first Squawk is the sensor's to answer.          *)
maxtimeSquawk == {"Peck", "Sing", "Mock", "Peacock1", "Squawk2", "Squawk3"}

(* config.php: the rows that expire.                                       *)
maxtime == {"Peck", "Sing", "Mock", "Peacock1", "Squawk1", "Squawk2", "Squawk3"}

(* Mutant of cleanPipeline: the sensor is deleted, mated or not.           *)
cleanPipelineMated(p) ==
  LET gone == {row \in pipeline : row.id = p.id}
  IN  /\ p.tx \in maxtime
      /\ sensor' = {row \in sensor : row.id # p.id}
      /\ pipeline' = pipeline \ gone
      /\ disconnecting' = disconnecting \cup {p.rdid}
      /\ orphaned' = orphaned \cup {row.rdid : row \in gone \ {p}}
      /\ chirp' = NoChirp
      /\ UNCHANGED <<created, running, leases, departing, unheard>>

(* Run by every page and call, for a row that has expired: all rows of its *)
(* sensor go, but only its own rdid is disconnected.                       *)
cleanPipeline(p) ==
  LET gone == {row \in pipeline : row.id = p.id}
  IN  /\ p.tx \in maxtime
      /\ sensor' = {row \in sensor : row.id # p.id \/ row.mated}
      /\ pipeline' = pipeline \ gone
      /\ disconnecting' = disconnecting \cup {p.rdid}
      /\ orphaned' = orphaned \cup {row.rdid : row \in gone \ {p}}
      /\ chirp' = NoChirp
      /\ UNCHANGED <<created, running, leases, departing, unheard>>

-----------------------------------------------------------------------------
(* The rest of a call.                                                     *)

(* Where an answer finds the device, and where it takes it.                *)
Moves == [PECK_RECOGNIZED |-> <<"peck", "challenge">>, PECK_MATE |-> <<"peck", "sing">>,
          PECK_REFUSED |-> <<"peck", "gone">>, SING |-> <<"sing", "mock">>,
          CHALLENGE |-> <<"challenge", "reply">>, RESPOND |-> <<"respond", "accept">>,
          NEST |-> <<"nest", "nested">>, DENY |-> <<"nest", "quiet">>]

(* xmitToRouter: the router passes it on if it comes in order; the device  *)
(* takes it if it is still there under this rdid.                          *)
xmitToRouter(call) ==
  LET move == Moves[Head(call.sends)]
      ends == move[2] = "gone" /\ step[call.rdid] = move[1]
      left == [call EXCEPT !.sends = Tail(@)]
  IN  /\ call.sends # <<>>
      /\ running' = (running \ {call}) \cup
           (IF left.sends = <<>> /\ left.op = "end" THEN {} ELSE {left})
      /\ IF At(call.rdid, move[1]) \/ ends THEN Goes(call.rdid, move[2]) ELSE UNCHANGED leases
      /\ departing' = IF ends THEN departing \cup {call.rdid} ELSE departing
      /\ chirp' = NoChirp
      /\ UNCHANGED <<tables, disconnecting, unheard, orphaned>>

(* The last change of a call.                                              *)
Ends(call) ==
  /\ call.sends = <<>> /\ call.op # "Await"
  /\ running' = running \ {call}
  /\ CASE call.op = "Nest" ->
            /\ deleteFromPipelineByRdid(call.rdid)
            /\ sensor' = Updated({row \in sensor : row.id = call.id},
                                 LAMBDA row : [row EXCEPT !.status = "online", !.mated = TRUE,
                                                          !.rdid = call.rdid])
       [] call.op = "Denied" -> deleteFromPipelineByRdid(call.rdid) /\ UNCHANGED sensor
       [] OTHER -> updatePipeline(call.rdid, call.id, call.op) /\ UNCHANGED sensor
  /\ Plainly /\ UNCHANGED <<created, disconnecting, leases>>

(* The loop of processSquawkSensorChallenge sees that the row is gone, or  *)
(* Squawk2: then it responds, if it has the sensor's key.                  *)
Awaits(call) ==
  /\ call.op = "Await"
  /\ \/ /\ Staged(call.rdid) = {} \/ StagedAs(call.rdid, "Squawk2")
        /\ running' = running \ {call}
        /\ UNCHANGED pipeline
     \/ /\ StagedAs(call.rdid, "Squawk2")
        /\ updatePipeline(call.rdid, TheId(Staged(call.rdid)), "Squawk3")
        /\ running' = (running \ {call}) \cup
             {[call EXCEPT !.sends = <<"RESPOND">>, !.op = "end"]}
  /\ Plainly /\ UNCHANGED <<sensor, created, disconnecting, leases>>

-----------------------------------------------------------------------------
(* The router.                                                             *)

(* routerFreeDevice                                                        *)
Frees(r) ==
  /\ Goes(r, "gone")
  /\ departing' = departing \cup {r}
  /\ chirp' = NoChirp

(* 0x25 arrives; the router knows no device of an ended lease.             *)
Disconnects(r) ==
  /\ disconnecting' = disconnecting \ {r}
  /\ IF step[r] = "gone" THEN Plainly /\ UNCHANGED leases
     ELSE Frees(r) /\ UNCHANGED <<unheard, orphaned>>
  /\ UNCHANGED <<tables, running>>

(* A nested device falls silent, or a device leaves.                       *)
Leaves(r) ==
  /\ step[r] = "nested" \/ (Newest(r) /\ step[r] # "gone")
  /\ Frees(r)
  /\ UNCHANGED <<tables, running, disconnecting, unheard, orphaned>>

(* A call is lost: the router does not repeat it (sg_tcp.c:65).            *)
EyeballLost(d) ==
  /\ Len(who) < MaxRdids /\ Settled(d)
  /\ who' = Append(who, d) /\ step' = Append(step, "peck")
  /\ Plainly /\ UNCHANGED <<tables, running, disconnecting>>

PacketLost(r) ==
  /\ \/ At(r, "mock") /\ Goes(r, "peacock")
     \/ At(r, "peacock") /\ Goes(r, "nest")
     \/ At(r, "reply") /\ \E next \in {"nest", "own", "quiet"} : Goes(r, next)
     \/ At(r, "own") /\ Goes(r, "respond")
     \/ At(r, "accept") /\ Goes(r, "nest")
  /\ Settled(who[r])
  /\ Plainly /\ UNCHANGED <<tables, running, disconnecting>>

DepartureLost(r) ==
  /\ departing' = departing \ {r}
  /\ unheard' = unheard \cup {r}
  /\ chirp' = NoChirp
  /\ UNCHANGED <<tables, running, disconnecting, leases, orphaned>>

-----------------------------------------------------------------------------
Call(r) ==
  \/ processMock(r) \/ processPeacock(r)
  \/ processSquawkSensorReply(r) \/ processSquawkSensorChallenge(r)
  \/ processSquawkAcceptsChallenge(r) \/ dropAndForgetSensor(r)
  \/ processChirpData(r)
  \/ \E status \in {"online", "stale"} : updateSensorStatus(r, status)

Proceeds(r) ==
  \E call \in running :
    call.rdid = r /\ (xmitToRouter(call) \/ Ends(call) \/ Awaits(call))

Expires(r) == \E p \in Staged(r) : cleanPipeline(p)

Next ==
  \/ \E d \in Devices : processEyeball(d) \/ EyeballLost(d)
  \/ \E r \in Rdids : Call(r) \/ PacketLost(r) \/ Proceeds(r) \/ Expires(r) \/ Leaves(r)
  \/ \E p \in pipeline : Mate(p)
  \/ \E r \in departing : dropSensorFromNetwork(r) \/ DepartureLost(r)
  \/ \E r \in disconnecting : Disconnects(r)

(* The calls run; cleanPipeline is part of every one of them, and of every *)
(* page, so that a row that has expired is removed.                        *)
Fairness == \A r \in 1 .. MaxRdids : WF_vars(Proceeds(r)) /\ WF_vars(Expires(r))

Spec == Init /\ [][Next]_vars /\ Fairness

-----------------------------------------------------------------------------
(* Properties.                                                             *)

(* What a chirp says is stored with the device that sent it, whoever else  *)
(* joins, leaves, falls silent or starts over: the rdid the router gave    *)
(* the device leads to its row and no other (zz_api_functions.php:766-788).*)
StoredForSender ==
  chirp.id # 0 => \E row \in sensor : row.id = chirp.id /\ row.dev = who[chirp.rdid]

(* What the server shows as online or stale is a device that has mated and *)
(* whose lease lasts, or whose end the server cannot know: the call is on  *)
(* its way or lost, or came before the Nest call set the row that it was   *)
(* to take offline (zz_api_functions.php:730-745 against 805-812).         *)
OnlineIsLeased ==
  \A row \in sensor : row.status \in {"online", "stale"} =>
    /\ row.mated /\ row.rdid \in Rdids /\ who[row.rdid] = row.dev
    /\ step[row.rdid] = "gone" => row.rdid \in departing \cup unheard

(* The server is not done with an rdid.                                    *)
Pending(r) ==
  \/ r \in disconnecting \/ Staged(r) # {}
  \/ \E call \in running : call.rdid = r

(* A device that was let in is online or stale in the table, and so may    *)
(* chirp, once the server is done with it; not so if cleanPipeline removed *)
(* its row with that of an earlier attempt (zz_pipeline.php:70, by         *)
(* id_sensor): then it is nested for nobody.                               *)
NestedIsOnline ==
  \A r \in Rdids : At(r, "nested") /\ ~ Pending(r) /\ r \notin orphaned =>
    \E row \in HasRdid(r) : row.dev = who[r] /\ row.status \in {"online", "stale"}

(* A device that has mated is known as one sensor, however often it        *)
(* started over: with two rows it would never be recognized again          *)
(* (zz_api_functions.php:40).                                              *)
MatedOnce ==
  \A row1, row2 \in sensor :
    row1.mated /\ row2.mated /\ row1.dev = row2.dev => row1 = row2

(* Every call ends: the one that waits for Squawk2 sees it come or the row *)
(* go (zz_api_functions.php:572-608).                                      *)
CallsEnd ==
  \A r \in 1 .. MaxRdids :
    (\E call \in running : call.rdid = r) ~> (\A call \in running : call.rdid # r)

(* zz_api_functions.php:766 asks whether there is an online sensor with    *)
(* this rdid and only gives up on the chirp if there is none.              *)
OnlineIsHeard ==
  chirp.rdid # 0 =>
    \A row \in HasRdid(chirp.rdid) : row.status = "online" => chirp.id = row.id
=============================================================================
