---------------------------- MODULE ServerProof ----------------------------
(***************************************************************************)
(* Theorems about the tables of the server, for any devices and any number *)
(* of leases and of calls at a time.  Two relations carry them: the ids an *)
(* rdid claims, by its row of pipeline and its calls, belong to rows of    *)
(* the device that has the rdid; and a device that is let in was led there *)
(* by calls whose row is still in the table.                               *)
(***************************************************************************)
EXTENDS Server, FiniteSetTheorems, SequenceTheorems, TLAPS

USE ServerAssumption

Statuses == {"offline", "online", "stale"}

Rows == [id : Nat \ {0}, dev : Devices, status : Statuses, mated : BOOLEAN, rdid : Nat]

Entries == [rdid : Nat, id : Nat,
            tx : {"Peck", "Sing", "Mock", "Squawk1", "Squawk2", "Squawk3"}]

Places == {"peck", "sing", "challenge", "mock", "peacock", "reply", "own", "respond",
           "accept", "nest", "nested", "quiet", "gone"}

(* What a call may still have to send, by what it does last.               *)
Unsent == [Peck    |-> {<<"PECK_MATE">>, <<>>},
           Sing    |-> {<<"PECK_MATE", "SING">>, <<"SING">>, <<>>},
           Squawk1 |-> {<<"PECK_RECOGNIZED", "CHALLENGE">>, <<"CHALLENGE">>, <<>>},
           Squawk2 |-> {<<>>},
           Nest    |-> {<<"NEST">>, <<>>},
           Denied  |-> {<<"DENY">>, <<>>},
           Await   |-> {<<>>},
           end     |-> {<<"PECK_REFUSED">>, <<"RESPOND">>}]

Calls == [rdid : Nat, sends : UNION {Unsent[op] : op \in DOMAIN Unsent},
          op : DOMAIN Unsent, id : Nat]

TypeOK ==
  /\ sensor \subseteq Rows /\ created \in Nat
  /\ pipeline \subseteq Entries
  /\ running \subseteq Calls
  /\ who \in Seq(Devices) /\ step \in Seq(Places) /\ Len(step) = Len(who)
  /\ departing \subseteq Rdids /\ disconnecting \subseteq Rdids
  /\ \A p \in pipeline : p.rdid \in Rdids
  /\ \A call \in running : call.rdid \in Rdids /\ call.sends \in Unsent[call.op]

-----------------------------------------------------------------------------
(* The steps, with their parameters in reach.                              *)

LEMMA Steps ==
  ASSUME Next
  PROVE  \/ \E d \in Devices : processEyeball(d) \/ EyeballLost(d)
         \/ \E r \in Rdids :
              \/ processMock(r) \/ processPeacock(r) \/ processSquawkSensorReply(r)
              \/ processSquawkSensorChallenge(r) \/ processSquawkAcceptsChallenge(r)
              \/ dropAndForgetSensor(r) \/ processChirpData(r)
              \/ updateSensorStatus(r, "online") \/ updateSensorStatus(r, "stale")
              \/ PacketLost(r) \/ Leaves(r)
         \/ \E call \in running : xmitToRouter(call) \/ Ends(call) \/ Awaits(call)
         \/ \E p \in pipeline : cleanPipeline(p) \/ Mate(p)
         \/ \E r \in departing : dropSensorFromNetwork(r) \/ DepartureLost(r)
         \/ \E r \in disconnecting : Disconnects(r)
BY DEF Next, Call, Proceeds, Expires, Staged

LEMMA LeaseTypes ==
  ASSUME TypeOK
  PROVE  /\ Rdids = 1 .. Len(who) /\ Len(who) \in Nat
         /\ \A r \in Rdids : who[r] \in Devices /\ step[r] \in Places
BY DEF TypeOK, Rdids

LEMMA MoveOn ==
  ASSUME TypeOK, NEW r \in Rdids, NEW next \in Places, Goes(r, next)
  PROVE  /\ who' = who /\ Rdids' = Rdids
         /\ step' \in Seq(Places) /\ Len(step') = Len(who')
         /\ \A q \in Rdids : step'[q] = IF q = r THEN next ELSE step[q]
BY LeaseTypes, ExceptSeq DEF TypeOK, Goes, Rdids

LEMMA NewLease ==
  ASSUME TypeOK, NEW d \in Devices,
         who' = Append(who, d), step' = Append(step, "peck")
  PROVE  /\ who' \in Seq(Devices) /\ step' \in Seq(Places) /\ Len(step') = Len(who')
         /\ Rdids' = Rdids \cup {Len(who) + 1}
         /\ Len(who) + 1 \in Nat \ {0} /\ Len(who) + 1 \notin Rdids
         /\ who'[Len(who) + 1] = d /\ step'[Len(who) + 1] = "peck"
         /\ \A r \in Rdids : who'[r] = who[r] /\ step'[r] = step[r]
<1>1. "peck" \in Places
  BY DEF Places
<1> QED
  BY <1>1, LeaseTypes DEF TypeOK, Rdids

(* A query gives the id of one of the rows, or 0 if there are none.        *)
LEMMA TheIdIs ==
  ASSUME NEW rows
  PROVE  /\ rows = {} => TheId(rows) = 0
         /\ rows # {} => \E row \in rows : TheId(rows) = row.id
BY DEF TheId

LEMMA StagedTypes ==
  ASSUME TypeOK, NEW r
  PROVE  /\ TheId(Staged(r)) \in Nat
         /\ Staged(r) # {} => \E p \in Staged(r) : TheId(Staged(r)) = p.id
         /\ Staged(r) = {} => TheId(Staged(r)) = 0
<1>1. \A p \in Staged(r) : p.id \in Nat
  BY DEF TypeOK, Staged, Entries
<1> QED
  BY <1>1, TheIdIs

(* Sending takes the first packet of a call off.                           *)
LEMMA OneLess ==
  ASSUME NEW call \in Calls, call.sends \in Unsent[call.op], call.sends # <<>>
  PROVE  /\ Head(call.sends) \in DOMAIN Moves
         /\ Moves[Head(call.sends)] \in Places \X Places
         /\ LET left == [call EXCEPT !.sends = Tail(@)]
            IN  /\ left.rdid = call.rdid /\ left.op = call.op /\ left.id = call.id
                /\ \/ left.sends = <<>> /\ left.op = "end"
                   \/ left \in Calls /\ left.sends \in Unsent[left.op]
         /\ Head(call.sends) = "NEST" => call.op = "Nest"
         /\ Head(call.sends) = "RESPOND" => call.op = "end" /\ call.sends = <<"RESPOND">>
         /\ Head(call.sends) = "PECK_MATE" => call.op \in {"Peck", "Sing"}
         /\ Head(call.sends) = "PECK_RECOGNIZED" => call.op = "Squawk1"
<1>1. /\ call.op \in DOMAIN Unsent /\ call.rdid \in Nat /\ call.id \in Nat
      /\ call = [rdid |-> call.rdid, sends |-> call.sends, op |-> call.op, id |-> call.id]
  BY DEF Calls
<1>2. call.sends \in {<<"PECK_MATE">>, <<"PECK_MATE", "SING">>, <<"SING">>,
                      <<"PECK_RECOGNIZED", "CHALLENGE">>, <<"CHALLENGE">>, <<"NEST">>,
                      <<"DENY">>, <<"PECK_REFUSED">>, <<"RESPOND">>}
  BY <1>1 DEF Unsent
<1>3. Head(call.sends) \in DOMAIN Moves
  BY <1>2 DEF Moves
<1>4. Moves[Head(call.sends)] \in Places \X Places
  BY <1>2 DEF Moves, Places
<1>5. ASSUME Tail(call.sends) \in Unsent[call.op]
      PROVE  [call EXCEPT !.sends = Tail(@)] \in Calls
  BY <1>1, <1>5 DEF Calls
<1>6. \/ call.op = "end" /\ Tail(call.sends) = <<>>
      \/ Tail(call.sends) \in Unsent[call.op]
  <2>1. CASE call.op = "Peck"
    <3>1. Unsent["Peck"] = {<<"PECK_MATE">>, <<>>}
      BY DEF Unsent
    <3>2. Tail(<<"PECK_MATE">>) = <<>>
      OBVIOUS
    <3>3. call.sends = <<"PECK_MATE">>
      BY <2>1, <3>1
    <3> QED
      BY <2>1, <3>1, <3>2, <3>3
  <2>2. CASE call.op = "Sing"
    <3>1. Unsent["Sing"] = {<<"PECK_MATE", "SING">>, <<"SING">>, <<>>}
      BY DEF Unsent
    <3>2. Tail(<<"PECK_MATE", "SING">>) = <<"SING">> /\ Tail(<<"SING">>) = <<>>
      OBVIOUS
    <3> QED
      BY <2>2, <3>1, <3>2
  <2>3. CASE call.op = "Squawk1"
    <3>1. Unsent["Squawk1"] = {<<"PECK_RECOGNIZED", "CHALLENGE">>, <<"CHALLENGE">>, <<>>}
      BY DEF Unsent
    <3>2. Tail(<<"PECK_RECOGNIZED", "CHALLENGE">>) = <<"CHALLENGE">> /\ Tail(<<"CHALLENGE">>) = <<>>
      OBVIOUS
    <3> QED
      BY <2>3, <3>1, <3>2
  <2>4. CASE call.op \in {"Nest", "Denied", "end"}
    <3>1. /\ Unsent["Nest"] = {<<"NEST">>, <<>>} /\ Unsent["Denied"] = {<<"DENY">>, <<>>}
          /\ Unsent["end"] = {<<"PECK_REFUSED">>, <<"RESPOND">>}
      BY DEF Unsent
    <3>2. /\ Tail(<<"NEST">>) = <<>> /\ Tail(<<"DENY">>) = <<>>
          /\ Tail(<<"PECK_REFUSED">>) = <<>> /\ Tail(<<"RESPOND">>) = <<>>
      OBVIOUS
    <3> QED
      BY <2>4, <3>1, <3>2
  <2>5. CASE call.op \in {"Squawk2", "Await"}
    <3>1. Unsent["Squawk2"] = {<<>>} /\ Unsent["Await"] = {<<>>}
      BY DEF Unsent
    <3> QED
      BY <2>5, <3>1
  <2> QED
    BY <1>1, <2>1, <2>2, <2>3, <2>4, <2>5 DEF Unsent
<1>7. LET left == [call EXCEPT !.sends = Tail(@)]
      IN  left.rdid = call.rdid /\ left.op = call.op /\ left.id = call.id
          /\ left.sends = Tail(call.sends)
  BY DEF Calls
<1>8. /\ Head(call.sends) = "NEST" => call.op = "Nest"
      /\ Head(call.sends) = "RESPOND" => call.op = "end" /\ call.sends = <<"RESPOND">>
      /\ Head(call.sends) = "PECK_MATE" => call.op \in {"Peck", "Sing"}
      /\ Head(call.sends) = "PECK_RECOGNIZED" => call.op = "Squawk1"
  BY <1>1, <1>2 DEF Unsent
<1> QED
  BY <1>3, <1>4, <1>5, <1>6, <1>7, <1>8

-----------------------------------------------------------------------------
(* What a step may do to the rows of sensor: a row stays what it was, but  *)
(* for its status; or a device joins; or a Nest call lets one in.          *)

Shown(row) == row.status \in {"online", "stale"}

Follows(new, row) ==
  /\ new.id = row.id /\ new.dev = row.dev /\ new.mated = row.mated
  /\ new.rdid = row.rdid \/ new.rdid = 0
  /\ Shown(new) => Shown(row) /\ new.rdid = row.rdid

Stays == created' = created /\ \A new \in sensor' : \E row \in sensor : Follows(new, row)

Joining(d) ==
  [id |-> created + 1, dev |-> d, status |-> "offline", mated |-> FALSE, rdid |-> 0]

Joins(d) ==
  /\ Cardinality(Mated(d)) # 1
  /\ created' = created + 1
  /\ sensor' = sensor \cup {Joining(d)}

Nests(call) ==
  /\ created' = created
  /\ \A new \in sensor' : \E row \in sensor :
       /\ new.id = row.id /\ new.dev = row.dev
       /\ IF row.id = call.id THEN new.mated /\ new.status = "online" /\ new.rdid = call.rdid
          ELSE new = row

EndsNest(call) == call.op = "Nest" /\ call \in running /\ Ends(call)

LEMMA SameFollows == \A row \in sensor : Follows(row, row)
BY DEF Follows

(* The rows that the UPDATEs of the code leave behind.                     *)
LEMMA OfflineRow ==
  ASSUME NEW row \in Rows,
         NEW new \in {[row EXCEPT !.status = "offline"],
                      [row EXCEPT !.status = "offline", !.rdid = 0]}
  PROVE  new \in Rows /\ Follows(new, row) /\ ~ Shown(new)
<1>1. CASE new = [row EXCEPT !.status = "offline"]
  BY <1>1 DEF Rows, Statuses, Follows, Shown
<1>2. CASE new = [row EXCEPT !.status = "offline", !.rdid = 0]
  BY <1>2 DEF Rows, Statuses, Follows, Shown
<1> QED
  BY <1>1, <1>2

LEMMA ShownRow ==
  ASSUME NEW row \in Rows, Shown(row), NEW status \in {"online", "stale"},
         NEW new, new = [row EXCEPT !.status = status]
  PROVE  new \in Rows /\ Follows(new, row) /\ Shown(new)
BY DEF Rows, Statuses, Follows, Shown

LEMMA SensorSteps ==
  ASSUME TypeOK, Next
  PROVE  /\ sensor' \subseteq Rows /\ created' \in Nat
         /\ \/ Stays
            \/ \E d \in Devices : processEyeball(d) /\ Joins(d)
            \/ \E call \in running : EndsNest(call) /\ Nests(call)
<1> USE SameFollows
<1>1. CASE \E d \in Devices : processEyeball(d)
  <2> PICK d \in Devices : processEyeball(d)
    BY <1>1
  <2>1. CASE Cardinality(Mated(d)) = 1
    <3>0. \A new \in sensor' : \E row \in sensor :
             new \in {row, [row EXCEPT !.status = "offline"]}
      BY <2>1 DEF processEyeball, Updated, Mated
    <3>1. ASSUME NEW new \in sensor'
          PROVE  new \in Rows /\ \E row \in sensor : Follows(new, row)
      <4>1. PICK row \in sensor : new \in {row, [row EXCEPT !.status = "offline"]}
        BY <3>0
      <4> QED
        BY <4>1, OfflineRow DEF TypeOK
    <3> QED
      BY <2>1, <3>1 DEF processEyeball, TypeOK, Stays
  <2>2. CASE Cardinality(Mated(d)) # 1 /\ UNCHANGED <<sensor, created>>
    BY <2>2 DEF TypeOK, Stays
  <2>3. CASE Joins(d)
    <3>1. Joining(d) \in Rows /\ created + 1 \in Nat
      BY DEF Joining, Rows, Statuses, TypeOK
    <3> QED
      BY <2>3, <3>1 DEF Joins, TypeOK
  <2> QED
    BY <2>1, <2>2, <2>3 DEF processEyeball, Joins, Joining
<1>2. CASE UNCHANGED <<sensor, created>>
  BY <1>2 DEF TypeOK, Stays
<1>3. CASE \E r \in Rdids : dropAndForgetSensor(r)
  BY <1>3 DEF dropAndForgetSensor, deleteSensorByID, TypeOK, Stays
<1>4. CASE \E r \in Rdids : \E status \in {"online", "stale"} : updateSensorStatus(r, status)
  BY <1>4 DEF updateSensorStatus, Updated, HasRdid, TypeOK, Rows, Statuses, Stays, Follows, Shown
<1>5. CASE \E r \in departing : dropSensorFromNetwork(r)
  <2>1. \A new \in sensor' : \E row \in sensor :
           new \in {row, [row EXCEPT !.status = "offline", !.rdid = 0]}
    BY <1>5 DEF dropSensorFromNetwork, takeSensorOffline, Updated, HasRdid
  <2>2. ASSUME NEW new \in sensor'
        PROVE  new \in Rows /\ \E row \in sensor : Follows(new, row)
    <3>1. PICK row \in sensor : new \in {row, [row EXCEPT !.status = "offline", !.rdid = 0]}
      BY <2>1
    <3> QED
      BY <3>1, OfflineRow DEF TypeOK
  <2> QED
    BY <1>5, <2>2 DEF dropSensorFromNetwork, TypeOK, Stays
<1>6. CASE \E p \in pipeline : cleanPipeline(p)
  BY <1>6 DEF cleanPipeline, TypeOK, Stays
<1>7. CASE \E call \in running : Ends(call)
  <2> PICK call \in running : Ends(call)
    BY <1>7
  <2>1. CASE call.op = "Nest"
    <3>1. call.rdid \in Nat
      BY DEF TypeOK, Calls
    <3>2. \A new \in sensor' : \E row \in sensor :
             IF row.id = call.id
             THEN new = [row EXCEPT !.status = "online", !.mated = TRUE, !.rdid = call.rdid]
             ELSE new = row
      <4>1. sensor' = Updated({row \in sensor : row.id = call.id},
                              LAMBDA row : [row EXCEPT !.status = "online", !.mated = TRUE,
                                                       !.rdid = call.rdid])
        BY <2>1 DEF Ends
      <4> QED
        BY <4>1 DEF Updated
    <3>3. created' = created
      BY <2>1 DEF Ends
    <3>4. ASSUME NEW new \in sensor'
          PROVE  /\ new \in Rows
                 /\ \E row \in sensor :
                      /\ new.id = row.id /\ new.dev = row.dev
                      /\ IF row.id = call.id
                         THEN new.mated /\ new.status = "online" /\ new.rdid = call.rdid
                         ELSE new = row
      <4>1. PICK row \in sensor :
              IF row.id = call.id
              THEN new = [row EXCEPT !.status = "online", !.mated = TRUE, !.rdid = call.rdid]
              ELSE new = row
        BY <3>2
      <4>2. CASE row.id = call.id
        <5>1. new = [row EXCEPT !.status = "online", !.mated = TRUE, !.rdid = call.rdid]
          BY <4>1, <4>2
        <5>2. row \in Rows
          BY DEF TypeOK
        <5>3. /\ new \in Rows /\ new.id = row.id /\ new.dev = row.dev
              /\ new.mated /\ new.status = "online" /\ new.rdid = call.rdid
          BY <3>1, <5>1, <5>2 DEF Rows, Statuses
        <5> QED
          BY <4>2, <5>3
      <4>3. CASE row.id # call.id
        BY <4>1, <4>3 DEF TypeOK
      <4> QED
        BY <4>2, <4>3
    <3>5. Nests(call)
      BY <3>3, <3>4 DEF Nests
    <3> QED
      BY <2>1, <3>3, <3>4, <3>5 DEF EndsNest, TypeOK
  <2>2. CASE call.op # "Nest"
    BY <1>2, <2>2 DEF Ends
  <2> QED
    BY <2>1, <2>2
<1>8. CASE \/ \E d \in Devices : EyeballLost(d)
           \/ \E r \in Rdids :
                \/ processMock(r) \/ processPeacock(r) \/ processSquawkSensorReply(r)
                \/ processSquawkSensorChallenge(r) \/ processSquawkAcceptsChallenge(r)
                \/ processChirpData(r) \/ PacketLost(r) \/ Leaves(r)
           \/ \E call \in running : xmitToRouter(call) \/ Awaits(call)
           \/ \E p \in pipeline : Mate(p)
           \/ \E r \in departing : DepartureLost(r)
           \/ \E r \in disconnecting : Disconnects(r)
  BY <1>2, <1>8 DEF EyeballLost, processMock, processPeacock, processSquawkSensorReply,
       processSquawkSensorChallenge, processSquawkAcceptsChallenge, processChirpData, PacketLost,
       Leaves, xmitToRouter, Awaits, Mate, DepartureLost, Disconnects, generateNest, tables
<1> QED
  BY <1>1, <1>3, <1>4, <1>5, <1>6, <1>7, <1>8, Steps

-----------------------------------------------------------------------------
(* What a step may do to the rows of pipeline and to the calls: the ids    *)
(* they carry for an rdid are handed on, and only an Eyeball brings one.   *)

Ids(r) ==
  {p.id : p \in Staged(r)} \cup {call.id : call \in {c \in running : c.rdid = r}}

(* What a call or a row of a given rdid is, if it was not there before.    *)
Carries(new) == new.rdid \in Rdids /\ new.id \in Ids(new.rdid) \cup {0}

Taken(p) == p \in Entries /\ Carries(p)

LEMMA IdsAre ==
  ASSUME NEW r, NEW id
  PROVE  id \in Ids(r) <=> \/ \E p \in pipeline : p.rdid = r /\ p.id = id
                          \/ \E call \in running : call.rdid = r /\ call.id = id
BY DEF Ids, Staged

LEMMA StagedId ==
  ASSUME TypeOK, NEW r
  PROVE  TheId(Staged(r)) \in Nat /\ TheId(Staged(r)) \in Ids(r) \cup {0}
BY StagedTypes DEF Ids

LEMMA Replaced ==
  ASSUME NEW r, NEW id, NEW tx, updatePipeline(r, id, tx), NEW p \in pipeline'
  PROVE  \/ p = [rdid |-> r, id |-> id, tx |-> tx]
         \/ p \in pipeline /\ p.rdid # r
BY DEF updatePipeline, Staged

LEMMA PipelineSteps ==
  ASSUME TypeOK, Next
  PROVE  \A p \in pipeline' : p \in pipeline \/ Taken(p)
<1>1. CASE pipeline' \subseteq pipeline
  BY <1>1
<1>2. ASSUME NEW r \in Rdids, NEW id \in Nat, id \in Ids(r) \cup {0},
             NEW tx \in {"Peck", "Sing", "Mock", "Squawk1", "Squawk2", "Squawk3"},
             updatePipeline(r, id, tx)
      PROVE  \A p \in pipeline' : p \in pipeline \/ Taken(p)
  <2>1. r \in Nat
    BY LeaseTypes
  <2>2. [rdid |-> r, id |-> id, tx |-> tx] \in Entries
    BY <2>1 DEF Entries
  <2> QED
    BY <1>2, <2>2, Replaced DEF Carries, Taken
<1>3. CASE \E r \in Rdids : processMock(r)
  <2> PICK r \in Rdids : processMock(r)
    BY <1>3
  <2> QED
    BY <1>1, <1>2, StagedId DEF processMock
<1>4. CASE \E call \in running : Ends(call)
  <2> PICK call \in running : Ends(call)
    BY <1>4
  <2>1. call.rdid \in Rdids /\ call.id \in Nat /\ call.id \in Ids(call.rdid)
    BY DEF TypeOK, Calls, Ids
  <2>0. call.op \in DOMAIN Unsent /\ call.sends \in Unsent[call.op]
    BY DEF TypeOK, Calls
  <2>2. CASE call.op \in {"Nest", "Denied"}
    BY <1>1, <2>2 DEF Ends, deleteFromPipelineByRdid
  <2>3. CASE call.op \in {"Peck", "Sing", "Squawk1", "Squawk2"}
    <3>1. updatePipeline(call.rdid, call.id, call.op)
      BY <2>3 DEF Ends
    <3> QED
      BY <1>2, <2>1, <2>3, <3>1
  <2>4. call.op \notin {"Await", "end"}
    <3>1. Unsent["end"] = {<<"PECK_REFUSED">>, <<"RESPOND">>}
      BY DEF Unsent
    <3>2. call.op # "Await" /\ call.sends = <<>>
      BY DEF Ends
    <3>3. <<>> # <<"PECK_REFUSED">> /\ <<>> # <<"RESPOND">>
      OBVIOUS
    <3>4. call.op # "end"
      BY <2>0, <3>1, <3>2, <3>3
    <3> QED
      BY <3>2, <3>4
  <2> QED
    BY <2>0, <2>2, <2>3, <2>4 DEF Unsent
<1>5. CASE \E call \in running : Awaits(call)
  <2> PICK call \in running : Awaits(call)
    BY <1>5
  <2>1. call.rdid \in Rdids
    BY DEF TypeOK
  <2> QED
    BY <1>1, <1>2, <2>1, StagedId DEF Awaits
<1>6. CASE \/ \E d \in Devices : processEyeball(d) \/ EyeballLost(d)
           \/ \E r \in Rdids :
                \/ processPeacock(r) \/ processSquawkSensorReply(r)
                \/ processSquawkSensorChallenge(r) \/ processSquawkAcceptsChallenge(r)
                \/ dropAndForgetSensor(r) \/ processChirpData(r)
                \/ updateSensorStatus(r, "online") \/ updateSensorStatus(r, "stale")
                \/ PacketLost(r) \/ Leaves(r)
           \/ \E call \in running : xmitToRouter(call)
           \/ \E p \in pipeline : cleanPipeline(p) \/ Mate(p)
           \/ \E r \in departing : dropSensorFromNetwork(r) \/ DepartureLost(r)
           \/ \E r \in disconnecting : Disconnects(r)
  BY <1>1, <1>6 DEF processEyeball, deleteFromPipelineByRdid, EyeballLost, processPeacock,
       processSquawkSensorReply, generateNest, processSquawkSensorChallenge,
       processSquawkAcceptsChallenge, dropAndForgetSensor, processChirpData, updateSensorStatus,
       PacketLost, Leaves, xmitToRouter, cleanPipeline, Mate, dropSensorFromNetwork,
       DepartureLost, Disconnects, tables
<1> QED
  BY <1>3, <1>4, <1>5, <1>6, Steps

(* A call that goes on sending is the same call.                           *)
GoesOn(new, call) ==
  new.rdid = call.rdid /\ new.op = call.op /\ new.id = call.id

Begins(new, d) ==
  /\ new.rdid = Len(who) + 1
  /\ \/ /\ new.op = "Squawk1" /\ Cardinality(Mated(d)) = 1 /\ new.id = TheId(Mated(d))
     \/ /\ new.op = "end" /\ new.sends = <<"PECK_REFUSED">> /\ new.id = 0
        /\ UNCHANGED <<sensor, created>>
     \/ /\ new.op \in {"Peck", "Sing"} /\ Joins(d) /\ new.id = created'

LEMMA RunningSteps ==
  ASSUME TypeOK, Next
  PROVE  \A new \in running' :
           \/ new \in running
           \/ /\ new \in Calls /\ new.sends \in Unsent[new.op]
              /\ \/ \E call \in running : GoesOn(new, call)
                 \/ Carries(new)
                 \/ \E d \in Devices : processEyeball(d) /\ Begins(new, d)
<1> DEFINE Right(new) ==
      \/ new \in running
      \/ /\ new \in Calls /\ new.sends \in Unsent[new.op]
         /\ \/ \E call \in running : GoesOn(new, call)
            \/ Carries(new)
            \/ \E d \in Devices : processEyeball(d) /\ Begins(new, d)
<1>1. CASE running' \subseteq running
  BY <1>1
<1>2. \A r \in Nat : \A id \in Nat :
        /\ [rdid |-> r, sends |-> <<"PECK_RECOGNIZED", "CHALLENGE">>, op |-> "Squawk1", id |-> id] \in Calls
        /\ [rdid |-> r, sends |-> <<"PECK_REFUSED">>, op |-> "end", id |-> id] \in Calls
        /\ [rdid |-> r, sends |-> <<"RESPOND">>, op |-> "end", id |-> id] \in Calls
        /\ [rdid |-> r, sends |-> <<"PECK_MATE", "SING">>, op |-> "Sing", id |-> id] \in Calls
        /\ [rdid |-> r, sends |-> <<"SING">>, op |-> "Sing", id |-> id] \in Calls
        /\ [rdid |-> r, sends |-> <<"PECK_MATE">>, op |-> "Peck", id |-> id] \in Calls
        /\ [rdid |-> r, sends |-> <<"NEST">>, op |-> "Nest", id |-> id] \in Calls
        /\ [rdid |-> r, sends |-> <<"DENY">>, op |-> "Denied", id |-> id] \in Calls
        /\ [rdid |-> r, sends |-> <<>>, op |-> "Squawk2", id |-> id] \in Calls
        /\ [rdid |-> r, sends |-> <<>>, op |-> "Await", id |-> id] \in Calls
  BY DEF Calls, Unsent
<1>3. ASSUME NEW r \in Rdids, NEW sends, NEW op, NEW id \in Nat, id \in Ids(r) \cup {0},
             [rdid |-> r, sends |-> sends, op |-> op, id |-> id] \in Calls,
             sends \in Unsent[op], NEW new,
             new = [rdid |-> r, sends |-> sends, op |-> op, id |-> id]
      PROVE  Right(new)
  BY <1>3 DEF Carries
<1>4. \A r \in Rdids : r \in Nat
  BY LeaseTypes
<1>5. /\ <<>> \in Unsent["Squawk2"] /\ <<>> \in Unsent["Await"] /\ <<"NEST">> \in Unsent["Nest"]
      /\ <<"DENY">> \in Unsent["Denied"] /\ <<"SING">> \in Unsent["Sing"]
      /\ <<"PECK_MATE", "SING">> \in Unsent["Sing"] /\ <<"PECK_MATE">> \in Unsent["Peck"]
      /\ <<"PECK_REFUSED">> \in Unsent["end"] /\ <<"RESPOND">> \in Unsent["end"]
      /\ <<"PECK_RECOGNIZED", "CHALLENGE">> \in Unsent["Squawk1"]
  BY DEF Unsent
<1>6. ASSUME NEW r \in Rdids, generateNest(r)
      PROVE  \A new \in running' : Right(new)
  BY <1>2, <1>3, <1>4, <1>5, <1>6, StagedId DEF generateNest, Runs
<1>7. ASSUME NEW new \in running', NEW r \in Rdids,
             processPeacock(r) \/ processSquawkAcceptsChallenge(r)
      PROVE  Right(new)
  BY <1>6, <1>7 DEF processPeacock, processSquawkAcceptsChallenge
<1>8. ASSUME NEW new \in running', NEW r \in Rdids, processSquawkSensorReply(r)
      PROVE  Right(new)
  <2>1. CASE generateNest(r)
    BY <1>6, <2>1
  <2>2. CASE Runs(r, <<>>, "Squawk2", TheId(Staged(r)))
    BY <2>2, <1>2, <1>3, <1>4, <1>5, StagedId DEF Runs
  <2>3. CASE Runs(r, <<"DENY">>, "Denied", 0)
    BY <2>3, <1>2, <1>3, <1>4, <1>5 DEF Runs
  <2> QED
    BY <1>8, <2>1, <2>2, <2>3 DEF processSquawkSensorReply
<1>9. ASSUME NEW new \in running', NEW r \in Rdids, processSquawkSensorChallenge(r)
      PROVE  Right(new)
  BY <1>9, <1>2, <1>3, <1>4, <1>5 DEF processSquawkSensorChallenge, Runs
<1>10. ASSUME NEW new \in running', NEW p \in pipeline, Mate(p)
       PROVE  Right(new)
  <2>1. p.rdid \in Rdids /\ p.id \in Nat /\ p.id \in Ids(p.rdid)
    BY DEF TypeOK, Entries, Ids, Staged
  <2> QED
    BY <1>10, <2>1, <1>2, <1>3, <1>4, <1>5 DEF Mate, Runs
<1>11. ASSUME NEW new \in running', NEW d \in Devices, processEyeball(d)
       PROVE  Right(new)
  <2> DEFINE r == Len(who) + 1
  <2>1. r \in Nat /\ created + 1 \in Nat /\ created \in Nat
    BY LeaseTypes DEF TypeOK
  <2>2. TheId(Mated(d)) \in Nat
    <3>1. \A row \in Mated(d) : row.id \in Nat
      BY DEF Mated, TypeOK, Rows
    <3> QED
      BY <3>1, TheIdIs
  <2>3. CASE Cardinality(Mated(d)) = 1
    <3>1. \/ new \in running
          \/ new = [rdid |-> r, sends |-> <<"PECK_RECOGNIZED", "CHALLENGE">>,
                    op |-> "Squawk1", id |-> TheId(Mated(d))]
      BY <1>11, <2>3 DEF processEyeball, Runs
    <3>2. ASSUME new \notin running
          PROVE  new \in Calls /\ new.sends \in Unsent[new.op] /\ Begins(new, d)
      <4>1. new \in Calls
        BY <1>2, <2>1, <2>2, <3>1, <3>2
      <4>2. new.sends \in Unsent[new.op]
        BY <1>5, <3>1, <3>2
      <4>3. Begins(new, d)
        BY <2>3, <3>1, <3>2 DEF Begins
      <4> QED
        BY <4>1, <4>2, <4>3
    <3> QED
      BY <1>11, <3>2
  <2>4. CASE Runs(r, <<"PECK_REFUSED">>, "end", 0) /\ UNCHANGED <<sensor, created>>
    <3>1. \/ new \in running
          \/ new = [rdid |-> r, sends |-> <<"PECK_REFUSED">>, op |-> "end", id |-> 0]
      BY <2>4 DEF Runs
    <3>2. ASSUME new \notin running
          PROVE  new \in Calls /\ new.sends \in Unsent[new.op] /\ Begins(new, d)
      <4>1. new \in Calls
        BY <1>2, <2>1, <3>1, <3>2
      <4>2. new.sends \in Unsent[new.op]
        BY <1>5, <3>1, <3>2
      <4>3. Begins(new, d)
        BY <2>4, <3>1, <3>2 DEF Begins
      <4> QED
        BY <4>1, <4>2, <4>3
    <3> QED
      BY <1>11, <3>2
  <2>5. CASE /\ Joins(d)
             /\ \/ Runs(r, <<"PECK_MATE", "SING">>, "Sing", created')
                \/ Runs(r, <<"PECK_MATE">>, "Peck", created')
    <3>1. created' \in Nat
      BY <2>1, <2>5 DEF Joins
    <3>2. \/ new \in running
          \/ new = [rdid |-> r, sends |-> <<"PECK_MATE", "SING">>, op |-> "Sing", id |-> created']
          \/ new = [rdid |-> r, sends |-> <<"PECK_MATE">>, op |-> "Peck", id |-> created']
      BY <2>5 DEF Runs
    <3>3. ASSUME new \notin running
          PROVE  new \in Calls /\ new.sends \in Unsent[new.op] /\ Begins(new, d)
      <4>1. new \in Calls
        BY <1>2, <2>1, <3>1, <3>2, <3>3
      <4>2. new.sends \in Unsent[new.op]
        BY <1>5, <3>2, <3>3
      <4>3. Begins(new, d)
        BY <2>5, <3>2, <3>3 DEF Begins
      <4> QED
        BY <4>1, <4>2, <4>3
    <3> QED
      BY <1>11, <3>3
  <2> QED
    BY <1>11, <2>3, <2>4, <2>5 DEF processEyeball, Joins, Joining
<1>12. ASSUME NEW new \in running', NEW call \in running, xmitToRouter(call)
       PROVE  Right(new)
  <2> DEFINE left == [call EXCEPT !.sends = Tail(@)]
  <2>1. call \in Calls /\ call.sends \in Unsent[call.op] /\ call.sends # <<>>
    BY <1>12 DEF TypeOK, xmitToRouter
  <2>2. \/ new \in running
        \/ new = left /\ ~ (left.sends = <<>> /\ left.op = "end")
    BY <1>12 DEF xmitToRouter
  <2> QED
    BY <2>1, <2>2, OneLess DEF GoesOn
<1>13. ASSUME NEW new \in running', NEW call \in running, Awaits(call)
       PROVE  Right(new)
  <2>1. call \in Calls /\ call.sends \in Unsent[call.op] /\ call.rdid \in Rdids
    BY DEF TypeOK
  <2>2. \/ new \in running
        \/ new = [call EXCEPT !.sends = <<"RESPOND">>, !.op = "end"]
    BY <1>13 DEF Awaits
  <2>3. CASE new = [call EXCEPT !.sends = <<"RESPOND">>, !.op = "end"]
    <3>1. /\ call.rdid \in Nat /\ call.id \in Nat /\ call.id \in Ids(call.rdid)
          /\ new = [rdid |-> call.rdid, sends |-> <<"RESPOND">>, op |-> "end", id |-> call.id]
      BY <2>1, <2>3 DEF Calls, Ids
    <3> QED
      BY <1>2, <1>3, <1>5, <2>1, <3>1
  <2> QED
    BY <2>2, <2>3
<1>14. CASE \/ \E d \in Devices : EyeballLost(d)
            \/ \E r \in Rdids :
                 \/ processMock(r) \/ dropAndForgetSensor(r) \/ processChirpData(r)
                 \/ updateSensorStatus(r, "online") \/ updateSensorStatus(r, "stale")
                 \/ PacketLost(r) \/ Leaves(r)
            \/ \E call \in running : Ends(call)
            \/ \E p \in pipeline : cleanPipeline(p)
            \/ \E r \in departing : dropSensorFromNetwork(r) \/ DepartureLost(r)
            \/ \E r \in disconnecting : Disconnects(r)
  BY <1>1, <1>14 DEF EyeballLost, processMock, dropAndForgetSensor, processChirpData,
       updateSensorStatus, PacketLost, Leaves, Ends, cleanPipeline, dropSensorFromNetwork,
       DepartureLost, Disconnects
<1>15. \A new \in running' : Right(new)
  BY <1>7, <1>8, <1>9, <1>10, <1>11, <1>12, <1>13, <1>14, Steps
<1> QED
  BY <1>15

-----------------------------------------------------------------------------
(* What a step may do to the leases: a device goes on, or it starts over.  *)

StartsOver(d) ==
  /\ processEyeball(d) \/ EyeballLost(d)
  /\ Settled(d)
  /\ Rdids' = Rdids \cup {Len(who) + 1}
  /\ who'[Len(who) + 1] = d /\ step'[Len(who) + 1] = "peck"
  /\ \A r \in Rdids : who'[r] = who[r] /\ step'[r] = step[r]

LEMMA LeaseSteps ==
  ASSUME TypeOK, Next
  PROVE  /\ who' \in Seq(Devices) /\ step' \in Seq(Places) /\ Len(step') = Len(who')
         /\ \/ who' = who /\ Rdids' = Rdids
            \/ \E d \in Devices : StartsOver(d)
<1> DEFINE Right == who' = who /\ step' \in Seq(Places) /\ Len(step') = Len(who)
<1>1. CASE \E d \in Devices : processEyeball(d) \/ EyeballLost(d)
  <2> PICK d \in Devices : processEyeball(d) \/ EyeballLost(d)
    BY <1>1
  <2>1. Settled(d) /\ who' = Append(who, d) /\ step' = Append(step, "peck")
    BY DEF processEyeball, EyeballLost
  <2> QED
    BY <2>1, NewLease DEF StartsOver
<1>2. CASE UNCHANGED leases
  BY <1>2 DEF leases, TypeOK, Rdids
<1>3. \A next \in {"sing", "challenge", "mock", "peacock", "reply", "own", "respond",
                   "accept", "nest", "nested", "quiet", "gone"} : next \in Places
  BY DEF Places
<1>4. CASE \E r \in Rdids : \E next \in Places : Goes(r, next)
  <2> PICK r \in Rdids : \E next \in Places : Goes(r, next)
    BY <1>4
  <2> PICK next \in Places : Goes(r, next)
    OBVIOUS
  <2>1. who' = who /\ Rdids' = Rdids /\ step' \in Seq(Places) /\ Len(step') = Len(who')
    BY MoveOn
  <2> QED
    BY <2>1 DEF TypeOK
<1>5. CASE \E r \in Rdids :
             \/ processMock(r) \/ processPeacock(r) \/ processSquawkSensorReply(r)
             \/ processSquawkSensorChallenge(r) \/ processSquawkAcceptsChallenge(r)
             \/ dropAndForgetSensor(r) \/ PacketLost(r) \/ Leaves(r)
  <2> PICK r \in Rdids :
             \/ processMock(r) \/ processPeacock(r) \/ processSquawkSensorReply(r)
             \/ processSquawkSensorChallenge(r) \/ processSquawkAcceptsChallenge(r)
             \/ dropAndForgetSensor(r) \/ PacketLost(r) \/ Leaves(r)
    BY <1>5
  <2>1. \E next \in {"sing", "challenge", "mock", "peacock", "reply", "own", "respond",
                     "accept", "nest", "nested", "quiet", "gone"} : Goes(r, next)
    BY DEF processMock, processPeacock, processSquawkSensorReply, processSquawkSensorChallenge,
       processSquawkAcceptsChallenge, dropAndForgetSensor, PacketLost, Leaves, Frees
  <2> QED
    BY <1>3, <1>4, <2>1
<1>6. CASE \E call \in running : xmitToRouter(call)
  <2> PICK call \in running : xmitToRouter(call)
    BY <1>6
  <2>1. call \in Calls /\ call.sends \in Unsent[call.op] /\ call.rdid \in Rdids
    BY DEF TypeOK
  <2>2. Moves[Head(call.sends)] \in Places \X Places
    BY <2>1, OneLess DEF xmitToRouter
  <2>3. Goes(call.rdid, Moves[Head(call.sends)][2]) \/ UNCHANGED leases
    BY DEF xmitToRouter
  <2> QED
    BY <1>2, <1>4, <2>1, <2>2, <2>3
<1>7. CASE \E r \in disconnecting : Disconnects(r)
  <2> PICK r \in disconnecting : Disconnects(r)
    BY <1>7
  <2>1. r \in Rdids
    BY DEF TypeOK
  <2>2. Goes(r, "gone") \/ UNCHANGED leases
    BY DEF Disconnects, Frees
  <2> QED
    BY <1>2, <1>3, <1>4, <2>1, <2>2
<1>8. CASE \/ \E r \in Rdids : \/ processChirpData(r)
                               \/ updateSensorStatus(r, "online") \/ updateSensorStatus(r, "stale")
           \/ \E call \in running : Ends(call) \/ Awaits(call)
           \/ \E p \in pipeline : cleanPipeline(p) \/ Mate(p)
           \/ \E r \in departing : dropSensorFromNetwork(r) \/ DepartureLost(r)
  BY <1>2, <1>8 DEF processChirpData, updateSensorStatus, Ends, Awaits, cleanPipeline, Mate,
       dropSensorFromNetwork, DepartureLost
<1> QED
  BY <1>1, <1>5, <1>6, <1>7, <1>8, Steps

(* A lease that ends is announced, unless the call is lost; what has been  *)
(* announced stays so until the server has taken the device offline.       *)
Announced(r) == r \in departing \cup unheard

TakesIn(r) ==
  /\ r \in departing /\ dropSensorFromNetwork(r)
  /\ \A call \in running : call.rdid = r => call.op # "Nest"
  /\ \A row \in sensor' : row.rdid # r

LEMMA EndsAreAnnounced ==
  ASSUME TypeOK, Next, NEW r \in Rdids
  PROVE  /\ departing' \subseteq Rdids
         /\ step'[r] = "gone" => step[r] = "gone" \/ Announced(r)'
         /\ Announced(r) => Announced(r)' \/ TakesIn(r)
<1> USE DEF Announced
<1>0. \A q \in Rdids : q # 0
  BY LeaseTypes
<1>1. CASE UNCHANGED <<departing, unheard>> /\ (step'[r] = "gone" => step[r] = "gone")
  BY <1>1 DEF TypeOK
<1>2. CASE \E q \in Rdids : Frees(q) /\ unheard' = unheard
  <2> PICK q \in Rdids : Frees(q) /\ unheard' = unheard
    BY <1>2
  <2>1. \A p \in Rdids : step'[p] = IF p = q THEN "gone" ELSE step[p]
    BY MoveOn DEF Frees, Places
  <2> QED
    BY <2>1 DEF Frees, TypeOK
<1>3. CASE \E d \in Devices : processEyeball(d) \/ EyeballLost(d)
  BY <1>1, <1>3, NewLease DEF processEyeball, EyeballLost, Plainly
<1>4. ASSUME NEW q \in Rdids,
             NEW next \in Places \ {"gone"}, Goes(q, next)
      PROVE  step'[r] = "gone" => step[r] = "gone"
  BY <1>4, MoveOn
<1>5. CASE \E q \in Rdids :
             \/ processMock(q) \/ processPeacock(q) \/ processSquawkSensorReply(q)
             \/ processSquawkSensorChallenge(q) \/ processSquawkAcceptsChallenge(q)
             \/ dropAndForgetSensor(q) \/ PacketLost(q)
  <2> PICK q \in Rdids :
             \/ processMock(q) \/ processPeacock(q) \/ processSquawkSensorReply(q)
             \/ processSquawkSensorChallenge(q) \/ processSquawkAcceptsChallenge(q)
             \/ dropAndForgetSensor(q) \/ PacketLost(q)
    BY <1>5
  <2>1. \E next \in {"peacock", "nest", "own", "respond", "quiet"} : Goes(q, next)
    BY DEF processMock, processPeacock, processSquawkSensorReply, processSquawkSensorChallenge,
       processSquawkAcceptsChallenge, dropAndForgetSensor, PacketLost
  <2>2. {"peacock", "nest", "own", "respond", "quiet"} \subseteq Places \ {"gone"}
    BY DEF Places
  <2>3. UNCHANGED <<departing, unheard>>
    BY DEF processMock, processPeacock, processSquawkSensorReply, processSquawkSensorChallenge,
       processSquawkAcceptsChallenge, dropAndForgetSensor, PacketLost, Plainly
  <2> QED
    BY <1>1, <1>4, <2>1, <2>2, <2>3
<1>6. CASE \E call \in running : xmitToRouter(call)
  <2> PICK call \in running : xmitToRouter(call)
    BY <1>6
  <2> DEFINE move == Moves[Head(call.sends)]
  <2>1. call \in Calls /\ call.sends \in Unsent[call.op] /\ call.rdid \in Rdids
    BY DEF TypeOK
  <2>2. move \in Places \X Places
    BY <2>1, OneLess DEF xmitToRouter
  <2>3. CASE move[2] = "gone" /\ step[call.rdid] = move[1]
    <3>1. Goes(call.rdid, "gone") /\ departing' = departing \cup {call.rdid} /\ unheard' = unheard
      BY <2>3 DEF xmitToRouter
    <3>2. \A p \in Rdids : step'[p] = IF p = call.rdid THEN "gone" ELSE step[p]
      BY <2>1, <3>1, MoveOn DEF Places
    <3> QED
      BY <2>1, <3>1, <3>2 DEF TypeOK
  <2>4. CASE ~ (move[2] = "gone" /\ step[call.rdid] = move[1])
    <3>1. departing' = departing /\ unheard' = unheard
      BY <2>4 DEF xmitToRouter
    <3>2. UNCHANGED leases \/ (move[2] # "gone" /\ Goes(call.rdid, move[2]))
      BY <2>4 DEF xmitToRouter, At
    <3> QED
      BY <1>1, <1>4, <2>1, <2>2, <3>1, <3>2 DEF leases
  <2> QED
    BY <2>3, <2>4
<1>7. CASE \E q \in disconnecting : Disconnects(q)
  <2> PICK q \in disconnecting : Disconnects(q)
    BY <1>7
  <2>1. q \in Rdids
    BY DEF TypeOK
  <2> QED
    BY <1>1, <1>2, <2>1 DEF Disconnects, Plainly, leases
<1>8. CASE \E q \in Rdids : Leaves(q)
  BY <1>2, <1>8 DEF Leaves
<1>9. CASE \E q \in departing : dropSensorFromNetwork(q)
  <2> PICK q \in departing : dropSensorFromNetwork(q)
    BY <1>9
  <2>1. departing' = departing \ {q} /\ UNCHANGED leases
    BY DEF dropSensorFromNetwork
  <2>2. \A row \in sensor' : row.rdid # q
    <3>1. q # 0
      BY <1>0 DEF TypeOK
    <3>2. \A new \in sensor' :
             \/ new \in sensor /\ new.rdid # q
             \/ \E row \in sensor : new = [row EXCEPT !.status = "offline", !.rdid = 0]
      BY DEF dropSensorFromNetwork, takeSensorOffline, Updated, HasRdid
    <3>3. \A row \in sensor : [row EXCEPT !.status = "offline", !.rdid = 0].rdid = 0
      BY DEF TypeOK, Rows
    <3> QED
      BY <3>1, <3>2, <3>3
  <2>3. unheard \subseteq unheard'
        /\ ((\E call \in running : call.rdid = q /\ call.op = "Nest") => q \in unheard')
    BY DEF dropSensorFromNetwork
  <2> QED
    BY <2>1, <2>2, <2>3 DEF TakesIn, TypeOK, leases
<1>10. CASE \E q \in departing : DepartureLost(q)
  BY <1>10 DEF DepartureLost, leases, TypeOK
<1>11. CASE \/ \E q \in Rdids : \/ processChirpData(q)
                                \/ updateSensorStatus(q, "online") \/ updateSensorStatus(q, "stale")
            \/ \E call \in running : Ends(call) \/ Awaits(call)
            \/ \E p \in pipeline : cleanPipeline(p) \/ Mate(p)
  BY <1>1, <1>11 DEF processChirpData, updateSensorStatus, Ends, Awaits, cleanPipeline, Mate,
       leases, Plainly
<1> QED
  BY <1>3, <1>5, <1>6, <1>7, <1>8, <1>9, <1>10, <1>11, Steps

-----------------------------------------------------------------------------
(* The invariants.                                                         *)

IdsUnique ==
  /\ \A row \in sensor : row.id <= created
  /\ \A row1, row2 \in sensor : row1.id = row2.id => row1 = row2

(* All that is under way for an rdid is about one sensor.                  *)
ClaimsAgree ==
  \A r \in Rdids : \A id1, id2 \in Ids(r) :
    id1 <= created /\ (id1 = 0 \/ id2 = 0 \/ id1 = id2)

(* It is a sensor of the device that the rdid was leased to; one that is   *)
(* only to come is nobody else's, and then the device has no other.        *)
OwnRows ==
  \A r \in Rdids : \A row \in sensor : row.id \in Ids(r) =>
    /\ row.dev = who[r]
    /\ ~ row.mated => /\ \A q \in Rdids : row.id \in Ids(q) => q = r
                      /\ Newest(r) => Mated(who[r]) = {}

(* Nobody starts over while he is let in.                                  *)
NestIsNewest ==
  \A call \in running : call.op = "Nest" =>
    /\ Newest(call.rdid)
    /\ step[call.rdid] = "gone" => call.rdid \in departing \cup unheard

RowRdids ==
  \A row \in sensor : row.rdid # 0 => row.rdid \in Rdids /\ who[row.rdid] = row.dev

Claims ==
  /\ TypeOK
  /\ IdsUnique /\ ClaimsAgree /\ OwnRows /\ NestIsNewest /\ RowRdids
  /\ OnlineIsLeased /\ MatedOnce /\ StoredForSender

HasCall(r, ops) == \E call \in running : call.rdid = r /\ call.op \in ops

(* What has an id, and what has none.                                      *)
IdsGiven ==
  /\ \A call \in running :
       /\ call.op \in {"Peck", "Sing", "Squawk1"} => call.id # 0
       /\ call.op \in {"Denied", "Await", "end"} => call.id = 0
  /\ \A p \in pipeline :
       /\ p.tx \in {"Peck", "Sing", "Squawk1", "Mock"} => p.id # 0
       /\ \A q \in pipeline : p.rdid = q.rdid => p = q

(* The call that waits for Squawk2, or is to respond.                      *)
Answers(call) == call.op = "Await" \/ call.sends = <<"RESPOND">>

OneAnswer ==
  \A call1, call2 \in running :
    Answers(call1) /\ Answers(call2) /\ call1.rdid = call2.rdid => call1 = call2

(* Where a device may be while a call of its rdid runs.                    *)
CallPlaces ==
  /\ \A call \in running :
       /\ call.op = "Nest" => step[call.rdid] \in {"nest", "nested", "quiet", "gone"}
       /\ call.op = "Denied" =>
            step[call.rdid] \in {"nest", "own", "respond", "nested", "quiet", "gone"}
       /\ Answers(call) => step[call.rdid] \in {"respond", "gone"}
  /\ \A r \in departing : step[r] = "gone"

(* Before it has been accepted, or once it has been denied, there is no    *)
(* word of its own challenge.                                              *)
Unproven(r) ==
  \/ step[r] \in {"peck", "sing", "challenge", "mock", "peacock", "reply"}
  \/ HasCall(r, {"Denied"})

OwnIsLater ==
  \A r \in Rdids : Unproven(r) =>
    /\ \A call \in running : call.rdid = r => call.op # "Squawk2" /\ call.sends # <<"RESPOND">>
    /\ \A p \in Staged(r) : p.tx \notin {"Squawk2", "Squawk3"}

UnderWay == IdsGiven /\ OneAnswer /\ CallPlaces /\ OwnIsLater

Excused(r) == r \in disconnecting \cup orphaned \/ step[r] = "gone"

Live(id) == \E row \in sensor : row.id = id

(* A device that gets on has a row, and keeps it until it is let in.       *)
Rowed(r) == \A id \in Ids(r) : id # 0 => Live(id)

Named(r) ==
  step[r] \in {"sing", "challenge", "mock", "peacock", "reply", "accept"} =>
    \E id \in Ids(r) : id # 0

WithIds(r) ==
  /\ \A call \in running : call.rdid = r =>
       /\ call.sends = <<"RESPOND">> => \E p \in Staged(r) : p.id # 0
       /\ call.op \in {"Nest", "Squawk2"} => call.id # 0
  /\ \A p \in Staged(r) : p.tx \in {"Squawk2", "Squawk3"} => p.id # 0

LetIn(r) ==
  step[r] = "nested" =>
    \/ \E row \in HasRdid(r) : row.dev = who[r] /\ Shown(row)
    \/ HasCall(r, {"Nest"})

Expected(r) == Newest(r) /\ ~ Excused(r)

OnTheWay == \A r \in Rdids : Expected(r) => Rowed(r) /\ Named(r) /\ WithIds(r) /\ LetIn(r)

-----------------------------------------------------------------------------
(* Types.                                                                  *)

LEMMA Grows ==
  ASSUME TypeOK, Next
  PROVE  Rdids \subseteq Rdids' /\ \A r \in Rdids : who'[r] = who[r]
BY LeaseSteps DEF StartsOver

LEMMA DisconnectingSteps ==
  ASSUME TypeOK, Next
  PROVE  disconnecting' \subseteq Rdids
<1>1. CASE UNCHANGED disconnecting
  BY <1>1 DEF TypeOK
<1>2. CASE \E r \in Rdids : disconnecting' = disconnecting \cup {r}
  BY <1>2 DEF TypeOK
<1>3. CASE \E p \in pipeline : cleanPipeline(p)
  BY <1>2, <1>3 DEF cleanPipeline, TypeOK
<1>4. CASE \E r \in Rdids : dropAndForgetSensor(r)
  BY <1>1, <1>2, <1>4 DEF dropAndForgetSensor
<1>5. CASE \E r \in disconnecting : Disconnects(r)
  BY <1>5 DEF Disconnects, TypeOK
<1>6. CASE \/ \E d \in Devices : processEyeball(d) \/ EyeballLost(d)
           \/ \E r \in Rdids :
                \/ processMock(r) \/ processPeacock(r) \/ processSquawkSensorReply(r)
                \/ processSquawkSensorChallenge(r) \/ processSquawkAcceptsChallenge(r)
                \/ processChirpData(r)
                \/ updateSensorStatus(r, "online") \/ updateSensorStatus(r, "stale")
                \/ PacketLost(r) \/ Leaves(r)
           \/ \E call \in running : xmitToRouter(call) \/ Ends(call) \/ Awaits(call)
           \/ \E p \in pipeline : Mate(p)
           \/ \E r \in departing : dropSensorFromNetwork(r) \/ DepartureLost(r)
  BY <1>1, <1>6 DEF processEyeball, EyeballLost, processMock, processPeacock,
       processSquawkSensorReply, processSquawkSensorChallenge, processSquawkAcceptsChallenge,
       processChirpData, updateSensorStatus, PacketLost, Leaves, xmitToRouter, Ends, Awaits,
       Mate, dropSensorFromNetwork, DepartureLost
<1> QED
  BY <1>3, <1>4, <1>5, <1>6, Steps

LEMMA TypesStay ==
  ASSUME TypeOK, Next
  PROVE  TypeOK'
<1>1. sensor' \subseteq Rows /\ created' \in Nat
  BY SensorSteps
<1>2. Rdids \subseteq Rdids'
  BY Grows
<1>3. \A p \in pipeline' : p \in Entries /\ p.rdid \in Rdids'
  BY <1>2, PipelineSteps DEF TypeOK, Taken, Carries
<1>4. ASSUME NEW new \in running'
      PROVE  new \in Calls /\ new.rdid \in Rdids' /\ new.sends \in Unsent[new.op]
  <2>1. CASE new \in running
    BY <1>2, <2>1 DEF TypeOK
  <2>2. CASE \E call \in running : GoesOn(new, call)
    BY <1>2, <2>2, RunningSteps DEF TypeOK, GoesOn
  <2>3. CASE Carries(new)
    BY <1>2, <2>1, <2>3, RunningSteps DEF Carries
  <2>4. CASE \E d \in Devices : processEyeball(d) /\ Begins(new, d)
    <3>1. new.rdid = Len(who) + 1
      BY <2>4 DEF Begins
    <3>2. who' # who
      <4>1. PICK d \in Devices : processEyeball(d)
        BY <2>4
      <4>2. who' = Append(who, d) /\ step' = Append(step, "peck")
        BY <4>1 DEF processEyeball
      <4>3. Rdids' = Rdids \cup {Len(who) + 1} /\ Len(who) + 1 \notin Rdids
        BY <4>2, NewLease
      <4> QED
        BY <4>3 DEF Rdids
    <3>3. Len(who) + 1 \in Rdids'
      BY <3>2, LeaseSteps DEF StartsOver
    <3> QED
      BY <2>1, <3>1, <3>3, RunningSteps
  <2> QED
    BY <2>1, <2>2, <2>3, <2>4, RunningSteps
<1>5. departing' \subseteq Rdids'
  <2>1. CASE Rdids = {}
    <3>1. departing = {}
      BY <2>1 DEF TypeOK
    <3> QED
      BY <2>1, <3>1, Steps DEF TypeOK, processEyeball, EyeballLost, Plainly
  <2>2. CASE Rdids # {}
    BY <1>2, <2>2, EndsAreAnnounced
  <2> QED
    BY <2>1, <2>2
<1>6. disconnecting' \subseteq Rdids'
  BY <1>2, DisconnectingSteps
<1>7. who' \in Seq(Devices) /\ step' \in Seq(Places) /\ Len(step') = Len(who')
  BY LeaseSteps
<1> QED
  BY <1>1, <1>3, <1>4, <1>5, <1>6, <1>7 DEF TypeOK

LEMMA InitTypes == Init => TypeOK
<1> SUFFICES ASSUME Init
             PROVE  TypeOK
  OBVIOUS
<1>1. sensor \subseteq Rows /\ created \in Nat
  <2>1. CASE sensor = {} /\ created = 0
    BY <2>1
  <2>2. CASE /\ created = 1
             /\ \E d \in Devices :
                  sensor = {[id |-> 1, dev |-> d, status |-> "offline", mated |-> TRUE, rdid |-> 0]}
    <3>1. \A d \in Devices :
            [id |-> 1, dev |-> d, status |-> "offline", mated |-> TRUE, rdid |-> 0] \in Rows
      BY DEF Rows, Statuses
    <3> QED
      BY <2>2, <3>1
  <2> QED
    BY <2>1, <2>2 DEF Init
<1> QED
  BY <1>1 DEF Init, TypeOK, Rdids

-----------------------------------------------------------------------------
(* The ids.                                                                *)

(* Rows that are changed keep their ids, and so stay apart.                *)
LEMMA IdsStayUnique ==
  ASSUME TypeOK, IdsUnique, Next
  PROVE  IdsUnique'
<1> DEFINE Unique == \A row1, row2 \in sensor' : row1.id = row2.id => row1 = row2
<1>0. created \in Nat /\ \A row \in sensor : row.id \in Nat
  BY DEF TypeOK, Rows
<1>1. \A row \in sensor' : row.id <= created'
  <2>1. CASE Stays
    BY <2>1 DEF Stays, Follows, IdsUnique
  <2>2. CASE \E d \in Devices : Joins(d)
    BY <1>0, <2>2 DEF Joins, Joining, IdsUnique
  <2>3. CASE \E call \in running : Nests(call)
    BY <2>3 DEF Nests, IdsUnique
  <2> QED
    BY <2>1, <2>2, <2>3, SensorSteps
<1>2. CASE sensor' \subseteq sensor
  BY <1>1, <1>2 DEF IdsUnique
<1>3. CASE \E d \in Devices : Joins(d)
  <2> PICK d \in Devices : sensor' = sensor \cup {Joining(d)}
    BY <1>3 DEF Joins
  <2>1. Joining(d).id = created + 1
    BY DEF Joining
  <2>2. \A row \in sensor : row.id < created + 1
    BY <1>0 DEF IdsUnique
  <2>3. Unique
    BY <1>0, <2>1, <2>2 DEF IdsUnique
  <2> QED
    BY <1>1, <2>3 DEF IdsUnique
<1>4. ASSUME NEW rows \in SUBSET sensor,
             \/ sensor' = Updated(rows, LAMBDA row : [row EXCEPT !.status = "offline"])
             \/ sensor' = Updated(rows, LAMBDA row : [row EXCEPT !.status = "online"])
             \/ sensor' = Updated(rows, LAMBDA row : [row EXCEPT !.status = "stale"])
             \/ sensor' = Updated(rows, LAMBDA row : [row EXCEPT !.status = "offline", !.rdid = 0])
      PROVE  Unique
  <2>0. \A row \in sensor :
          /\ [row EXCEPT !.status = "offline"].id = row.id
          /\ [row EXCEPT !.status = "online"].id = row.id
          /\ [row EXCEPT !.status = "stale"].id = row.id
          /\ [row EXCEPT !.status = "offline", !.rdid = 0].id = row.id
    BY DEF TypeOK, Rows
  <2>1. CASE sensor' = Updated(rows, LAMBDA row : [row EXCEPT !.status = "offline"])
    <3> DEFINE now == [row \in rows |-> [row EXCEPT !.status = "offline"]]
    <3>1. \A row \in rows : now[row].id = row.id
      BY <2>0
    <3>2. \A new \in sensor' : new \in sensor \ rows \/ \E row \in rows : new = now[row]
      BY <2>1 DEF Updated
    <3> HIDE DEF now
    <3> QED
      BY <3>1, <3>2 DEF IdsUnique
  <2>2. CASE sensor' = Updated(rows, LAMBDA row : [row EXCEPT !.status = "online"])
    <3> DEFINE now == [row \in rows |-> [row EXCEPT !.status = "online"]]
    <3>1. \A row \in rows : now[row].id = row.id
      BY <2>0
    <3>2. \A new \in sensor' : new \in sensor \ rows \/ \E row \in rows : new = now[row]
      BY <2>2 DEF Updated
    <3> HIDE DEF now
    <3> QED
      BY <3>1, <3>2 DEF IdsUnique
  <2>3. CASE sensor' = Updated(rows, LAMBDA row : [row EXCEPT !.status = "stale"])
    <3> DEFINE now == [row \in rows |-> [row EXCEPT !.status = "stale"]]
    <3>1. \A row \in rows : now[row].id = row.id
      BY <2>0
    <3>2. \A new \in sensor' : new \in sensor \ rows \/ \E row \in rows : new = now[row]
      BY <2>3 DEF Updated
    <3> HIDE DEF now
    <3> QED
      BY <3>1, <3>2 DEF IdsUnique
  <2>4. CASE sensor' = Updated(rows, LAMBDA row : [row EXCEPT !.status = "offline", !.rdid = 0])
    <3> DEFINE now == [row \in rows |-> [row EXCEPT !.status = "offline", !.rdid = 0]]
    <3>1. \A row \in rows : now[row].id = row.id
      BY <2>0
    <3>2. \A new \in sensor' : new \in sensor \ rows \/ \E row \in rows : new = now[row]
      BY <2>4 DEF Updated
    <3> HIDE DEF now
    <3> QED
      BY <3>1, <3>2 DEF IdsUnique
  <2> QED
    BY <1>4, <2>1, <2>2, <2>3, <2>4
<1>5. CASE \E d \in Devices : processEyeball(d)
  <2> PICK d \in Devices : processEyeball(d)
    BY <1>5
  <2>1. CASE Cardinality(Mated(d)) = 1
    <3>1. sensor' = Updated(Mated(d), LAMBDA row : [row EXCEPT !.status = "offline"])
      BY <2>1 DEF processEyeball
    <3>2. Mated(d) \in SUBSET sensor
      BY DEF Mated
    <3>3. Unique
      BY <1>4, <3>1, <3>2
    <3> QED
      BY <1>1, <3>3 DEF IdsUnique
  <2>2. CASE Cardinality(Mated(d)) # 1
    BY <1>1, <1>2, <1>3, <2>2 DEF processEyeball, Joins, Joining, IdsUnique
  <2> QED
    BY <2>1, <2>2
<1>6. CASE \E r \in Rdids : updateSensorStatus(r, "online") \/ updateSensorStatus(r, "stale")
  <2> PICK r \in Rdids : updateSensorStatus(r, "online") \/ updateSensorStatus(r, "stale")
    BY <1>6
  <2> DEFINE rows == {row \in HasRdid(r) : row.status \in {"online", "stale"}}
  <2>1. rows \in SUBSET sensor
    BY DEF HasRdid
  <2>2. \/ sensor' = Updated(rows, LAMBDA row : [row EXCEPT !.status = "online"])
        \/ sensor' = Updated(rows, LAMBDA row : [row EXCEPT !.status = "stale"])
    BY DEF updateSensorStatus
  <2> QED
    BY <1>1, <1>4, <2>1, <2>2 DEF IdsUnique
<1>7. CASE \E r \in departing : dropSensorFromNetwork(r)
  BY <1>1, <1>4, <1>7 DEF dropSensorFromNetwork, takeSensorOffline, HasRdid, IdsUnique
<1>8. CASE \E call \in running : Ends(call)
  <2> PICK call \in running : Ends(call)
    BY <1>8
  <2>1. CASE call.op = "Nest"
    <3> DEFINE rows == {row \in sensor : row.id = call.id}
    <3>1. sensor' = Updated(rows, LAMBDA row : [row EXCEPT !.status = "online", !.mated = TRUE,
                                                           !.rdid = call.rdid])
      BY <2>1 DEF Ends
    <3> DEFINE now == [row \in rows |-> [row EXCEPT !.status = "online", !.mated = TRUE,
                                                   !.rdid = call.rdid]]
    <3>2. \A row \in rows : now[row].id = row.id
      BY DEF TypeOK, Rows
    <3>3. \A new \in sensor' : new \in sensor \ rows \/ \E row \in rows : new = now[row]
      BY <3>1 DEF Updated
    <3> HIDE DEF now
    <3>4. Unique
      BY <3>2, <3>3 DEF IdsUnique
    <3> QED
      BY <1>1, <3>4 DEF IdsUnique
  <2>2. CASE call.op # "Nest"
    <3>1. sensor' = sensor
      BY <2>2 DEF Ends
    <3> QED
      BY <1>1, <1>2, <3>1 DEF IdsUnique
  <2> QED
    BY <2>1, <2>2
<1>9. CASE \/ \E r \in Rdids : dropAndForgetSensor(r)
           \/ \E p \in pipeline : cleanPipeline(p)
  BY <1>1, <1>2, <1>9 DEF dropAndForgetSensor, deleteSensorByID, cleanPipeline, IdsUnique
<1>10. CASE \/ \E d \in Devices : EyeballLost(d)
            \/ \E r \in Rdids :
                 \/ processMock(r) \/ processPeacock(r) \/ processSquawkSensorReply(r)
                 \/ processSquawkSensorChallenge(r) \/ processSquawkAcceptsChallenge(r)
                 \/ processChirpData(r) \/ PacketLost(r) \/ Leaves(r)
            \/ \E call \in running : xmitToRouter(call) \/ Awaits(call)
            \/ \E p \in pipeline : Mate(p)
            \/ \E r \in departing : DepartureLost(r)
            \/ \E r \in disconnecting : Disconnects(r)
  <2>1. sensor' = sensor
    BY <1>10 DEF EyeballLost, processMock, processPeacock, processSquawkSensorReply,
         processSquawkSensorChallenge, processSquawkAcceptsChallenge, processChirpData, PacketLost,
         Leaves, xmitToRouter, Awaits, Mate, DepartureLost, Disconnects, generateNest, tables
  <2> QED
    BY <1>1, <1>2, <2>1 DEF IdsUnique
<1> QED
  BY <1>5, <1>6, <1>7, <1>8, <1>9, <1>10, Steps

(* An rdid's ids are those it had, or 0; that of a new lease is the id of  *)
(* the sensor the device is known as, or of the one that joins with it.    *)
LEMMA IdsSteps ==
  ASSUME TypeOK, Next
  PROVE  /\ \A r \in Rdids : Ids(r)' \subseteq Ids(r) \cup {0}
         /\ \A r \in Rdids' \ Rdids : \A id \in Ids(r)' :
              \E d \in Devices :
                /\ processEyeball(d) /\ who'[r] = d
                /\ \/ Cardinality(Mated(d)) = 1 /\ id = TheId(Mated(d))
                   \/ id = 0
                   \/ Joins(d) /\ id = created'
<1>1. ASSUME NEW r \in Rdids', NEW id \in Ids(r)'
      PROVE  \/ \E p \in pipeline' : p.rdid = r /\ p.id = id
             \/ \E call \in running' : call.rdid = r /\ call.id = id
  BY <1>1 DEF Ids, Staged
<1>2. \A q \in Rdids' \ Rdids :
        /\ \A p \in pipeline : p.rdid # q
        /\ \A call \in running : call.rdid # q
  BY DEF TypeOK
<1>3. Len(who) + 1 \notin Rdids
  BY LeaseTypes
<1>4. Rdids \subseteq Rdids'
  BY Grows
<1>5. ASSUME NEW r \in Rdids, NEW id \in Ids(r)'
      PROVE  id \in Ids(r) \cup {0}
  <2>1. CASE \E p \in pipeline' : p.rdid = r /\ p.id = id
    BY <2>1, PipelineSteps, IdsAre DEF Taken, Carries
  <2>2. CASE \E call \in running' : call.rdid = r /\ call.id = id
    <3> PICK new \in running' : new.rdid = r /\ new.id = id
      BY <2>2
    <3>1. \/ new \in running \/ (\E call \in running : GoesOn(new, call)) \/ Carries(new)
      BY <1>3, RunningSteps DEF Begins
    <3> QED
      BY <3>1, IdsAre DEF GoesOn, Carries
  <2> QED
    BY <1>1, <1>4, <2>1, <2>2
<1>6. ASSUME NEW r \in Rdids' \ Rdids, NEW id \in Ids(r)'
      PROVE  \E d \in Devices :
               /\ processEyeball(d) /\ who'[r] = d
               /\ \/ Cardinality(Mated(d)) = 1 /\ id = TheId(Mated(d))
                  \/ id = 0
                  \/ Joins(d) /\ id = created'
  <2>1. ~ \E p \in pipeline' : p.rdid = r
    BY <1>2, PipelineSteps DEF Taken, Carries
  <2>2. PICK new \in running' : new.rdid = r /\ new.id = id
    BY <1>1, <2>1
  <2>3. PICK d \in Devices : processEyeball(d) /\ Begins(new, d)
    BY <1>2, <2>2, RunningSteps DEF GoesOn, Carries
  <2>4. who'[Len(who) + 1] = d
    BY <2>3, NewLease DEF processEyeball
  <2> QED
    BY <2>2, <2>3, <2>4 DEF Begins
<1> QED
  BY <1>5, <1>6

LEMMA NestBegins ==
  ASSUME TypeOK, Next, NEW new \in running', new.op = "Nest"
  PROVE  \/ \E call \in running : GoesOn(new, call)
         \/ /\ who' = who /\ Newest(new.rdid) /\ step'[new.rdid] = "nest"
            /\ new.sends = <<"NEST">> /\ new.id = TheId(Staged(new.rdid))
<1>1. CASE running' \subseteq running
  BY <1>1 DEF GoesOn
<1>2. ASSUME NEW r \in Rdids, Newest(r), Goes(r, "nest"), generateNest(r), new \notin running
      PROVE  /\ who' = who /\ Newest(new.rdid) /\ step'[new.rdid] = "nest"
             /\ new.sends = <<"NEST">> /\ new.id = TheId(Staged(new.rdid))
  <2>1. who' = who /\ step'[r] = "nest"
    BY <1>2, MoveOn DEF Places
  <2>2. new = [rdid |-> r, sends |-> <<"NEST">>, op |-> "Nest", id |-> TheId(Staged(r))]
    BY <1>2 DEF generateNest, Runs
  <2> QED
    BY <1>2, <2>1, <2>2
<1>3. CASE \E r \in Rdids : processPeacock(r) \/ processSquawkAcceptsChallenge(r)
  BY <1>1, <1>2, <1>3 DEF processPeacock, processSquawkAcceptsChallenge, At, GoesOn
<1>4. CASE \E r \in Rdids : processSquawkSensorReply(r)
  BY <1>1, <1>2, <1>4 DEF processSquawkSensorReply, At, GoesOn, Runs
<1>5. CASE \/ \E d \in Devices : processEyeball(d)
           \/ \E r \in Rdids : processSquawkSensorChallenge(r)
           \/ \E p \in pipeline : Mate(p)
  <2>1. ASSUME NEW r, NEW sends, NEW id,
               \E op \in {"Squawk1", "end", "Sing", "Peck", "Await"} : Runs(r, sends, op, id)
        PROVE  new \in running
    BY <2>1 DEF Runs
  <2> QED
    BY <1>5, <2>1 DEF processEyeball, processSquawkSensorChallenge, Mate, GoesOn
<1>6. CASE \E call \in running : xmitToRouter(call)
  <2> PICK call \in running : xmitToRouter(call)
    BY <1>6
  <2>1. new \in running \/ new = [call EXCEPT !.sends = Tail(@)]
    BY DEF xmitToRouter
  <2>2. GoesOn([call EXCEPT !.sends = Tail(@)], call)
    BY DEF TypeOK, Calls, GoesOn
  <2> QED
    BY <2>1, <2>2 DEF GoesOn
<1>7. CASE \E call \in running : Awaits(call)
  <2> PICK call \in running : Awaits(call)
    BY <1>7
  <2>1. new \in running \/ new = [call EXCEPT !.sends = <<"RESPOND">>, !.op = "end"]
    BY DEF Awaits
  <2>2. [call EXCEPT !.sends = <<"RESPOND">>, !.op = "end"].op = "end"
    BY DEF TypeOK, Calls
  <2> QED
    BY <2>1, <2>2 DEF GoesOn
<1>8. CASE \/ \E d \in Devices : EyeballLost(d)
           \/ \E r \in Rdids :
                \/ processMock(r) \/ dropAndForgetSensor(r) \/ processChirpData(r)
                \/ updateSensorStatus(r, "online") \/ updateSensorStatus(r, "stale")
                \/ PacketLost(r) \/ Leaves(r)
           \/ \E call \in running : Ends(call)
           \/ \E p \in pipeline : cleanPipeline(p)
           \/ \E r \in departing : dropSensorFromNetwork(r) \/ DepartureLost(r)
           \/ \E r \in disconnecting : Disconnects(r)
  BY <1>1, <1>8 DEF EyeballLost, processMock, dropAndForgetSensor, processChirpData,
       updateSensorStatus, PacketLost, Leaves, Ends, cleanPipeline, dropSensorFromNetwork,
       DepartureLost, Disconnects
<1> QED
  BY <1>3, <1>4, <1>5, <1>6, <1>7, <1>8, Steps

-----------------------------------------------------------------------------
(* Each of the claims is kept.                                             *)

(* A row is what another was, with the same id and device, or has joined.  *)
LEMMA RowsWere ==
  ASSUME TypeOK, Next, NEW new \in sensor'
  PROVE  \/ \E row \in sensor : new.id = row.id /\ new.dev = row.dev /\ (row.mated => new.mated)
         \/ \E d \in Devices : Joins(d) /\ new = Joining(d)
BY SensorSteps, SameFollows DEF Stays, Follows, Nests, Joins

LEMMA MatedId ==
  ASSUME TypeOK, NEW d, Cardinality(Mated(d)) = 1
  PROVE  \E row \in sensor : row.mated /\ row.dev = d /\ row.id = TheId(Mated(d))
<1>1. Mated(d) # {}
  BY FS_EmptySet
<1> QED
  BY <1>1, TheIdIs DEF Mated

LEMMA IdsBound ==
  ASSUME TypeOK, IdsUnique, ClaimsAgree, Next, NEW r \in Rdids', NEW id \in Ids(r)'
  PROVE  id <= created'
<1>1. created \in Nat /\ created <= created'
  BY SensorSteps DEF TypeOK, Stays, Joins, Nests
<1>2. CASE r \in Rdids
  <2>1. id \in Ids(r) \/ id = 0
    BY <1>2, IdsSteps
  <2>2. id <= created
    BY <1>1, <1>2, <2>1 DEF ClaimsAgree
  <2>3. id \in Nat
    <3>1. \A i \in Ids(r) : i \in Nat
      BY DEF Ids, Staged, TypeOK, Entries, Calls
    <3> QED
      BY <2>1, <3>1
  <2>4. created' \in Nat
    BY SensorSteps
  <2> QED
    BY <1>1, <2>2, <2>3, <2>4
<1>3. CASE r \notin Rdids
  <2>1. PICK d \in Devices : \/ Cardinality(Mated(d)) = 1 /\ id = TheId(Mated(d))
                             \/ id = 0
                             \/ Joins(d) /\ id = created'
    BY <1>3, IdsSteps
  <2>2. CASE Cardinality(Mated(d)) = 1 /\ id = TheId(Mated(d))
    <3>1. PICK row \in sensor : row.id = id
      BY <2>2, MatedId
    <3>2. row.id <= created /\ row.id \in Nat
      BY DEF IdsUnique, TypeOK, Rows
    <3>3. created' \in Nat
      BY SensorSteps
    <3> QED
      BY <1>1, <3>1, <3>2, <3>3
  <2> QED
    BY <1>1, <2>1, <2>2, SensorSteps
<1> QED
  BY <1>2, <1>3

LEMMA ClaimsStayAgreed ==
  ASSUME TypeOK, IdsUnique, ClaimsAgree, Next
  PROVE  ClaimsAgree'
<1> SUFFICES ASSUME NEW r \in Rdids', NEW id1 \in Ids(r)', NEW id2 \in Ids(r)'
             PROVE  id1 = 0 \/ id2 = 0 \/ id1 = id2
  BY IdsBound DEF ClaimsAgree
<1>1. CASE r \in Rdids
  BY <1>1, IdsSteps DEF ClaimsAgree
<1>2. CASE r \notin Rdids
  <2>1. PICK d \in Devices : /\ who'[r] = d
                             /\ \/ Cardinality(Mated(d)) = 1 /\ id1 = TheId(Mated(d))
                                \/ id1 = 0
                                \/ Joins(d) /\ id1 = created'
    BY <1>2, IdsSteps
  <2>2. PICK e \in Devices : /\ who'[r] = e
                             /\ \/ Cardinality(Mated(e)) = 1 /\ id2 = TheId(Mated(e))
                                \/ id2 = 0
                                \/ Joins(e) /\ id2 = created'
    BY <1>2, IdsSteps
  <2> QED
    BY <2>1, <2>2 DEF Joins
<1> QED
  BY <1>1, <1>2

(* A lease that is the newest of its device was so before.                 *)
LEMMA WasNewest ==
  ASSUME TypeOK, Next, NEW r \in Rdids, Newest(r)'
  PROVE  Newest(r)
BY Grows DEF Newest

LEMMA StaysNewest ==
  ASSUME TypeOK, Next, NEW r \in Rdids, Newest(r), ~ Newest(r)'
  PROVE  \E d \in Devices : who[r] = d /\ StartsOver(d)
BY LeaseSteps DEF Newest, StartsOver

LEMMA SameNewest ==
  ASSUME TypeOK, NEW r \in Rdids, NEW q \in Rdids, Newest(r), Newest(q), who[r] = who[q]
  PROVE  r = q
BY LeaseTypes DEF Newest

(* A device has mated with the step, or had before.                        *)
LEMMA MatedSteps ==
  ASSUME TypeOK, Next, NEW new \in sensor', new.mated
  PROVE  \E row \in sensor :
           /\ new.id = row.id /\ new.dev = row.dev
           /\ \/ row.mated
              \/ \E call \in running : EndsNest(call) /\ Nests(call) /\ row.id = call.id
<1>1. CASE Stays
  BY <1>1 DEF Stays, Follows
<1>2. CASE \E d \in Devices : Joins(d)
  BY <1>2 DEF Joins, Joining
<1>3. CASE \E call \in running : EndsNest(call) /\ Nests(call)
  BY <1>3 DEF Nests
<1> QED
  BY <1>1, <1>2, <1>3, SensorSteps

(* The sensor a Nest call lets in is the only one of its device.           *)
LEMMA NestsTheOnly ==
  ASSUME TypeOK, IdsUnique, ClaimsAgree, OwnRows, NestIsNewest, MatedOnce,
         NEW call \in running, call.op = "Nest",
         NEW row \in sensor, row.id = call.id,
         NEW other \in sensor, other.mated, other.dev = row.dev
  PROVE  other = row
<1>1. call.rdid \in Rdids /\ row.id \in Ids(call.rdid) /\ Newest(call.rdid)
  BY DEF TypeOK, Ids, NestIsNewest
<1>2. CASE row.mated
  BY <1>2 DEF MatedOnce
<1>3. CASE ~ row.mated
  BY <1>1, <1>3 DEF OwnRows, Mated
<1> QED
  BY <1>2, <1>3

LEMMA MatedStaysOnce ==
  ASSUME TypeOK, IdsUnique, ClaimsAgree, OwnRows, NestIsNewest, MatedOnce, Next
  PROVE  MatedOnce'
<1> SUFFICES ASSUME NEW new1 \in sensor', NEW new2 \in sensor',
                    new1.mated, new2.mated, new1.dev = new2.dev
             PROVE  new1 = new2
  BY DEF MatedOnce
<1>1. PICK row1 \in sensor :
        /\ new1.id = row1.id /\ new1.dev = row1.dev
        /\ \/ row1.mated
           \/ \E call \in running : EndsNest(call) /\ Nests(call) /\ row1.id = call.id
  BY MatedSteps
<1>2. PICK row2 \in sensor :
        /\ new2.id = row2.id /\ new2.dev = row2.dev
        /\ \/ row2.mated
           \/ \E call \in running : EndsNest(call) /\ Nests(call) /\ row2.id = call.id
  BY MatedSteps
<1>3. row1 = row2
  <2>1. CASE row1.mated /\ row2.mated
    BY <1>1, <1>2, <2>1 DEF MatedOnce
  <2>2. CASE row1.mated /\ ~ row2.mated
    BY <1>1, <1>2, <2>2, NestsTheOnly DEF EndsNest
  <2>3. CASE ~ row1.mated /\ row2.mated
    BY <1>1, <1>2, <2>3, NestsTheOnly DEF EndsNest
  <2>4. CASE ~ row1.mated /\ ~ row2.mated
    <3>1. PICK call1 \in running : EndsNest(call1) /\ Nests(call1) /\ row1.id = call1.id
      BY <1>1, <2>4
    <3>2. PICK call2 \in running : EndsNest(call2) /\ Nests(call2) /\ row2.id = call2.id
      BY <1>2, <2>4
    <3>3. call1 = call2
      <4>1. running' = running \ {call1} /\ running' = running \ {call2}
        BY <3>1, <3>2 DEF EndsNest, Ends
      <4> QED
        BY <4>1
    <3> QED
      BY <3>1, <3>2, <3>3 DEF IdsUnique
  <2> QED
    BY <2>1, <2>2, <2>3, <2>4
<1>4. IdsUnique'
  BY IdsStayUnique
<1> QED
  BY <1>1, <1>2, <1>3, <1>4 DEF IdsUnique

LEMMA OwnRowsStay ==
  ASSUME TypeOK, IdsUnique, ClaimsAgree, OwnRows, NestIsNewest, MatedOnce, Next
  PROVE  OwnRows'
<1> SUFFICES ASSUME NEW r \in Rdids', NEW new \in sensor', new.id \in Ids(r)'
             PROVE  /\ new.dev = who'[r]
                    /\ ~ new.mated => /\ \A q \in Rdids' : new.id \in Ids(q)' => q = r
                                      /\ Newest(r)' => Mated(who[r])' = {}
  BY DEF OwnRows
<1>0. /\ Rdids \subseteq Rdids' /\ \A q \in Rdids : who'[q] = who[q]
      /\ created \in Nat /\ \A row \in sensor : row.id \in Nat \ {0} /\ row.id <= created
  BY Grows DEF TypeOK, Rows, IdsUnique
<1>1. CASE \E d \in Devices : Joins(d) /\ new = Joining(d)
  <2> PICK d \in Devices : Joins(d) /\ new = Joining(d)
    BY <1>1
  <2>1. new.id = created + 1 /\ new.dev = d /\ ~ new.mated
    BY DEF Joining
  <2>2. \A q \in Rdids : new.id \notin Ids(q)'
    BY <1>0, <2>1, IdsSteps DEF ClaimsAgree
  <2>3. r \in Rdids' \ Rdids
    BY <2>2
  <2>4. PICK e \in Devices : /\ processEyeball(e) /\ who'[r] = e
                             /\ \/ Cardinality(Mated(e)) = 1 /\ new.id = TheId(Mated(e))
                                \/ new.id = 0
                                \/ Joins(e) /\ new.id = created'
    BY <2>3, IdsSteps
  <2>5. Joins(e)
    BY <1>0, <2>1, <2>4, MatedId
  <2>6. e = d
    <3>1. Joining(e) \in sensor' /\ Joining(e).dev = e /\ Joining(e).id = created + 1
      BY <2>5 DEF Joins, Joining
    <3>2. IdsUnique'
      BY IdsStayUnique
    <3> QED
      BY <2>1, <3>1, <3>2 DEF IdsUnique
  <2>7. \A q \in Rdids' : new.id \in Ids(q)' => q = r
    BY <2>2, <2>3, LeaseSteps DEF StartsOver
  <2>8. Mated(e) = {}
    <3>1. ASSUME Mated(e) # {}
          PROVE  FALSE
      <4>1. PICK row \in Mated(e) : TRUE
        BY <3>1
      <4>2. Mated(e) = {row}
        BY <4>1 DEF Mated, MatedOnce
      <4> QED
        BY <2>5, <4>2, FS_Singleton DEF Joins
    <3> QED
      BY <3>1
  <2>9. Mated(who[r])' = {}
    BY <2>4, <2>5, <2>8 DEF Mated, Joins, Joining
  <2> QED
    BY <2>1, <2>4, <2>6, <2>7, <2>9
<1>2. ASSUME NEW row \in sensor, new.id = row.id, new.dev = row.dev, row.mated => new.mated
      PROVE  /\ new.dev = who'[r]
             /\ ~ new.mated => /\ \A q \in Rdids' : new.id \in Ids(q)' => q = r
                               /\ Newest(r)' => Mated(who[r])' = {}
  <2>1. ASSUME NEW q \in Rdids' \ Rdids, new.id \in Ids(q)'
        PROVE  row.mated /\ row.dev = who'[q]
    <3>1. PICK d \in Devices : /\ who'[q] = d
                               /\ \/ Cardinality(Mated(d)) = 1 /\ new.id = TheId(Mated(d))
                                  \/ new.id = 0
                                  \/ Joins(d) /\ new.id = created'
      BY <2>1, IdsSteps
    <3>2. Cardinality(Mated(d)) = 1 /\ new.id = TheId(Mated(d))
      BY <1>0, <1>2, <3>1 DEF Joins
    <3>3. PICK mate \in sensor : mate.mated /\ mate.dev = d /\ mate.id = TheId(Mated(d))
      BY <3>2, MatedId
    <3>4. mate = row
      BY <1>2, <3>2, <3>3 DEF IdsUnique
    <3> QED
      BY <3>1, <3>3, <3>4
  <2>2. ASSUME NEW q \in Rdids, new.id \in Ids(q)'
        PROVE  row.id \in Ids(q)
    BY <1>0, <1>2, <2>2, IdsSteps
  <2>3. new.dev = who'[r]
    BY <1>0, <1>2, <2>1, <2>2 DEF OwnRows
  <2>4. ASSUME ~ new.mated, NEW q \in Rdids', new.id \in Ids(q)'
        PROVE  q = r
    BY <1>2, <2>1, <2>2, <2>4 DEF OwnRows
  <2>5. ASSUME ~ new.mated, Newest(r)', NEW other \in sensor', other.mated, other.dev = who'[r]
        PROVE  FALSE
    <3>1. r \in Rdids /\ row.id \in Ids(r) /\ ~ row.mated
      BY <1>2, <2>1, <2>2, <2>5
    <3>2. Mated(who[r]) = {} /\ Newest(r)
      BY <2>5, <3>1, WasNewest DEF OwnRows
    <3>3. PICK row2 \in sensor :
            /\ other.id = row2.id /\ other.dev = row2.dev
            /\ \/ row2.mated
               \/ \E call \in running : EndsNest(call) /\ Nests(call) /\ row2.id = call.id
      BY <2>5, MatedSteps
    <3>4. PICK call \in running : EndsNest(call) /\ Nests(call) /\ row2.id = call.id
      BY <1>0, <2>5, <3>1, <3>2, <3>3 DEF Mated
    <3>5. call.rdid \in Rdids /\ call.id \in Ids(call.rdid) /\ Newest(call.rdid)
      BY <3>4 DEF EndsNest, TypeOK, Ids, NestIsNewest
    <3>6. call.rdid = r
      <4>1. row2.dev = who[call.rdid]
        BY <3>4, <3>5 DEF OwnRows
      <4>2. row2.dev = who[r]
        BY <1>0, <2>5, <3>1, <3>3
      <4> QED
        BY <3>1, <3>2, <3>5, <4>1, <4>2, SameNewest
    <3>7. row.id = call.id
      BY <1>0, <3>1, <3>3, <3>4, <3>5, <3>6 DEF ClaimsAgree
    <3>8. row2 = row
      BY <3>3, <3>4, <3>7 DEF IdsUnique
    <3>9. new = other
      BY <1>2, <3>3, <3>8, IdsStayUnique DEF IdsUnique
    <3> QED
      BY <2>5, <3>9
  <2> QED
    BY <2>3, <2>4, <2>5 DEF Mated
<1> QED
  BY <1>1, <1>2, RowsWere

LEMMA NestStaysNewest ==
  ASSUME TypeOK, NestIsNewest, Next
  PROVE  NestIsNewest'
<1> SUFFICES ASSUME NEW new \in running', new.op = "Nest"
             PROVE  /\ Newest(new.rdid)'
                    /\ step'[new.rdid] = "gone" => Announced(new.rdid)'
  BY DEF NestIsNewest, Announced
<1>1. CASE \E call \in running : GoesOn(new, call)
  <2> PICK call \in running : GoesOn(new, call)
    BY <1>1
  <2>1. call.op = "Nest" /\ call.rdid = new.rdid /\ new.rdid \in Rdids
    BY DEF GoesOn, TypeOK
  <2>2. Newest(new.rdid) /\ (step[new.rdid] = "gone" => Announced(new.rdid))
    BY <2>1 DEF NestIsNewest, Announced
  <2>3. ~ \E d \in Devices : who[new.rdid] = d /\ StartsOver(d)
    BY <2>1 DEF StartsOver, Settled
  <2>4. Newest(new.rdid)'
    BY <2>1, <2>2, <2>3, StaysNewest
  <2>5. ~ TakesIn(new.rdid)
    BY <2>1 DEF TakesIn
  <2>6. step'[new.rdid] = "gone" => Announced(new.rdid)'
    BY <2>1, <2>2, <2>5, EndsAreAnnounced
  <2> QED
    BY <2>4, <2>6
<1>2. CASE who' = who /\ Newest(new.rdid) /\ step'[new.rdid] = "nest"
  BY <1>2 DEF Newest, Rdids
<1> QED
  BY <1>1, <1>2, NestBegins

LEMMA RowRdidsStay ==
  ASSUME TypeOK, OwnRows, RowRdids, Next
  PROVE  RowRdids'
<1> SUFFICES ASSUME NEW new \in sensor', new.rdid # 0
             PROVE  new.rdid \in Rdids /\ who[new.rdid] = new.dev
  BY Grows DEF RowRdids
<1>1. CASE Stays
  BY <1>1 DEF Stays, Follows, RowRdids
<1>2. CASE \E d \in Devices : Joins(d)
  BY <1>2 DEF Joins, Joining, RowRdids
<1>3. CASE \E call \in running : Nests(call)
  <2> PICK call \in running : Nests(call)
    BY <1>3
  <2>1. call.rdid \in Rdids /\ call.id \in Ids(call.rdid)
    BY DEF TypeOK, Ids
  <2> QED
    BY <2>1 DEF Nests, OwnRows, RowRdids
<1> QED
  BY <1>1, <1>2, <1>3, SensorSteps

LEMMA ShownStayLeased ==
  ASSUME TypeOK, OwnRows, NestIsNewest, OnlineIsLeased, Next
  PROVE  OnlineIsLeased'
<1> SUFFICES ASSUME NEW new \in sensor', Shown(new)
             PROVE  /\ new.mated /\ new.rdid \in Rdids /\ who[new.rdid] = new.dev
                    /\ step'[new.rdid] = "gone" => Announced(new.rdid)'
  BY Grows DEF OnlineIsLeased, Shown, Announced
<1>1. ASSUME NEW row \in sensor, Follows(new, row)
      PROVE  /\ new.mated /\ new.rdid \in Rdids /\ who[new.rdid] = new.dev
             /\ step'[new.rdid] = "gone" => Announced(new.rdid)'
  <2>1. Shown(row) /\ new.rdid = row.rdid /\ new.mated = row.mated /\ new.dev = row.dev
    BY <1>1 DEF Follows
  <2>2. /\ row.mated /\ row.rdid \in Rdids /\ who[row.rdid] = row.dev
        /\ step[row.rdid] = "gone" => Announced(row.rdid)
    BY <2>1 DEF OnlineIsLeased, Shown, Announced
  <2>3. ~ TakesIn(new.rdid)
    BY DEF TakesIn
  <2> QED
    BY <2>1, <2>2, <2>3, EndsAreAnnounced
<1>2. CASE Stays
  BY <1>1, <1>2 DEF Stays
<1>3. CASE \E d \in Devices : Joins(d)
  <2> PICK d \in Devices : Joins(d)
    BY <1>3
  <2>1. new \in sensor
    BY DEF Joins, Joining, Shown
  <2> QED
    BY <1>1, <2>1, SameFollows
<1>4. CASE \E call \in running : EndsNest(call) /\ Nests(call)
  <2> PICK call \in running : EndsNest(call) /\ Nests(call)
    BY <1>4
  <2> PICK row \in sensor :
             /\ new.id = row.id /\ new.dev = row.dev
             /\ IF row.id = call.id
                THEN new.mated /\ new.status = "online" /\ new.rdid = call.rdid
                ELSE new = row
    BY DEF Nests
  <2>1. CASE row.id = call.id
    <3>1. call.rdid \in Rdids /\ call.id \in Ids(call.rdid)
      BY DEF TypeOK, Ids
    <3>2. new.mated /\ new.rdid = call.rdid /\ who[call.rdid] = new.dev
      BY <2>1, <3>1 DEF OwnRows
    <3>3. UNCHANGED <<leases, departing, unheard>>
      BY DEF EndsNest, Ends, Plainly
    <3>4. step'[call.rdid] = "gone" => Announced(call.rdid)'
      BY <3>3 DEF NestIsNewest, EndsNest, Announced, leases
    <3> QED
      BY <3>1, <3>2, <3>4
  <2>2. CASE row.id # call.id
    <3>1. new = row
      BY <2>2
    <3> QED
      BY <1>1, <3>1, SameFollows
  <2> QED
    BY <2>1, <2>2
<1> QED
  BY <1>2, <1>3, <1>4, SensorSteps

LEMMA ChirpSteps ==
  ASSUME TypeOK, RowRdids, Next
  PROVE  StoredForSender'
<1>1. CASE \E r \in Rdids : processChirpData(r)
  <2> PICK r \in Rdids : processChirpData(r)
    BY <1>1
  <2>1. /\ chirp'.rdid = r /\ chirp'.id \in {0, TheId(HasRdid(r))}
        /\ sensor' = sensor /\ who' = who /\ r # 0
    BY LeaseTypes DEF processChirpData, tables, leases
  <2>2. HasRdid(r) # {} => \E row \in HasRdid(r) : TheId(HasRdid(r)) = row.id
    BY TheIdIs
  <2>3. HasRdid(r) = {} => TheId(HasRdid(r)) = 0
    BY TheIdIs
  <2>4. \A row \in HasRdid(r) : row \in sensor /\ row.dev = who[r]
    BY <2>1 DEF HasRdid, RowRdids
  <2> QED
    BY <2>1, <2>2, <2>3, <2>4 DEF StoredForSender
<1>2. CASE chirp' = NoChirp
  BY <1>2 DEF NoChirp, StoredForSender
<1>3. CASE \/ \E d \in Devices : processEyeball(d) \/ EyeballLost(d)
           \/ \E r \in Rdids :
                \/ processMock(r) \/ processPeacock(r) \/ processSquawkSensorReply(r)
                \/ processSquawkSensorChallenge(r) \/ processSquawkAcceptsChallenge(r)
                \/ dropAndForgetSensor(r)
                \/ updateSensorStatus(r, "online") \/ updateSensorStatus(r, "stale")
                \/ PacketLost(r) \/ Leaves(r)
           \/ \E call \in running : xmitToRouter(call) \/ Ends(call) \/ Awaits(call)
           \/ \E p \in pipeline : cleanPipeline(p) \/ Mate(p)
           \/ \E r \in departing : dropSensorFromNetwork(r) \/ DepartureLost(r)
           \/ \E r \in disconnecting : Disconnects(r)
  BY <1>2, <1>3 DEF processEyeball, EyeballLost, processMock, processPeacock,
       processSquawkSensorReply, processSquawkSensorChallenge, processSquawkAcceptsChallenge,
       dropAndForgetSensor, updateSensorStatus, PacketLost, Leaves, xmitToRouter, Ends, Awaits,
       cleanPipeline, Mate, dropSensorFromNetwork, DepartureLost, Disconnects, Plainly, Frees
<1> QED
  BY <1>1, <1>3, Steps

LEMMA InitClaims == Init => Claims
<1> SUFFICES ASSUME Init
             PROVE  Claims
  OBVIOUS
<1>1. TypeOK
  BY InitTypes
<1>2. \/ sensor = {} /\ created = 0
      \/ \E row : row.id = 1 /\ row.rdid = 0 /\ ~ Shown(row) /\ sensor = {row} /\ created = 1
  BY DEF Init, Shown
<1>3. IdsUnique /\ RowRdids /\ OnlineIsLeased /\ MatedOnce
  BY <1>2 DEF IdsUnique, RowRdids, OnlineIsLeased, MatedOnce, Shown
<1>4. Rdids = {} /\ running = {} /\ chirp = NoChirp
  BY DEF Init, Rdids
<1>5. ClaimsAgree /\ OwnRows /\ NestIsNewest /\ StoredForSender
  BY <1>4 DEF ClaimsAgree, OwnRows, NestIsNewest, StoredForSender, NoChirp
<1> QED
  BY <1>1, <1>3, <1>5 DEF Claims

LEMMA ClaimsStay ==
  ASSUME Claims, [Next]_vars
  PROVE  Claims'
<1>1. CASE Next
  <2>1. TypeOK'
    BY <1>1, TypesStay DEF Claims
  <2>2. IdsUnique' /\ ClaimsAgree' /\ OwnRows'
    BY <1>1, IdsStayUnique, ClaimsStayAgreed, OwnRowsStay DEF Claims
  <2>3. NestIsNewest' /\ RowRdids' /\ OnlineIsLeased'
    BY <1>1, NestStaysNewest, RowRdidsStay, ShownStayLeased DEF Claims
  <2>4. MatedOnce' /\ StoredForSender'
    BY <1>1, MatedStaysOnce, ChirpSteps DEF Claims
  <2> QED
    BY <2>1, <2>2, <2>3, <2>4 DEF Claims
<1>2. CASE UNCHANGED vars
  BY <1>2 DEF vars, tables, leases, Claims, TypeOK, Rdids, IdsUnique, ClaimsAgree, OwnRows,
       NestIsNewest, RowRdids, OnlineIsLeased, MatedOnce, StoredForSender, Ids, Staged, Newest,
       Mated
<1> QED
  BY <1>1, <1>2

-----------------------------------------------------------------------------
(* Where calls and rows of pipeline come from and where they go.           *)

LEMMA AnswersAre ==
  ASSUME NEW call, call.op \in DOMAIN Unsent, call.sends \in Unsent[call.op], Answers(call)
  PROVE  call.op = "Await" \/ (call.op = "end" /\ call.sends = <<"RESPOND">>)
<1>1. ASSUME call.sends = <<"RESPOND">>
      PROVE  call.op = "end"
  <2>1. \A op \in DOMAIN Unsent : <<"RESPOND">> \in Unsent[op] => op = "end"
    BY DEF Unsent
  <2> QED
    BY <1>1, <2>1
<1> QED
  BY <1>1 DEF Answers

Sends(new, call) ==
  call \in running /\ xmitToRouter(call) /\ GoesOn(new, call) /\ ~ Answers(new)

Begun(new) ==
  \/ /\ new.op = "Nest" /\ new.id = TheId(Staged(new.rdid))
     /\ \/ processPeacock(new.rdid) /\ StagedAs(new.rdid, "Mock")
        \/ processSquawkSensorReply(new.rdid)
        \/ processSquawkAcceptsChallenge(new.rdid)
     /\ Goes(new.rdid, "nest")
  \/ /\ new.op = "Squawk2" /\ new.id = TheId(Staged(new.rdid))
     /\ processSquawkSensorReply(new.rdid) /\ Goes(new.rdid, "own")
     /\ running' = running \cup {new}
  \/ /\ new.op = "Denied" /\ new.id = 0
     /\ processSquawkSensorReply(new.rdid)
     /\ Goes(new.rdid, "nest") \/ Goes(new.rdid, "own")
  \/ /\ new.op = "Await" /\ new.id = 0 /\ new.sends = <<>>
     /\ processSquawkSensorChallenge(new.rdid)
  \/ /\ new.op = "Sing"
     /\ \E p \in Staged(new.rdid) : Mate(p) /\ p.tx = "Peck" /\ new.id = p.id
  \/ /\ new.op = "end" /\ new.sends = <<"RESPOND">>
     /\ \E call \in running :
          /\ call.op = "Await" /\ Awaits(call) /\ running' = (running \ {call}) \cup {new}
          /\ call.rdid = new.rdid /\ call.id = new.id
          /\ StagedAs(new.rdid, "Squawk2")
          /\ updatePipeline(new.rdid, TheId(Staged(new.rdid)), "Squawk3")

LEMMA CallSteps ==
  ASSUME TypeOK, Next, NEW new \in running'
  PROVE  \/ new \in running
         \/ \E call \in running : Sends(new, call)
         \/ \E d \in Devices : processEyeball(d) /\ Begins(new, d)
         \/ new.rdid \in Rdids /\ Begun(new)
<1> SUFFICES ASSUME new \notin running
             PROVE  \/ \E call \in running : Sends(new, call)
                    \/ \E d \in Devices : processEyeball(d) /\ Begins(new, d)
                    \/ new.rdid \in Rdids /\ Begun(new)
  OBVIOUS
<1>1. CASE running' \subseteq running
  BY <1>1
<1>2. CASE \E d \in Devices : processEyeball(d)
  <2>1. CASE \E call \in running : GoesOn(new, call)
    <3>1. new.rdid \in Rdids
      BY <2>1 DEF GoesOn, TypeOK
    <3>2. new.rdid = Len(who) + 1
      BY <1>2 DEF processEyeball, Runs
    <3> QED
      BY <3>1, <3>2, LeaseTypes
  <2>2. CASE Carries(new)
    <3>1. new.rdid = Len(who) + 1
      BY <1>2 DEF processEyeball, Runs
    <3> QED
      BY <2>2, <3>1, LeaseTypes DEF Carries
  <2> QED
    BY <2>1, <2>2, RunningSteps
<1>3. CASE \E r \in Rdids : processPeacock(r) \/ processSquawkAcceptsChallenge(r)
  <2> PICK r \in Rdids : processPeacock(r) \/ processSquawkAcceptsChallenge(r)
    BY <1>3
  <2>1. Goes(r, "nest") /\ generateNest(r) /\ (processPeacock(r) => StagedAs(r, "Mock"))
    BY <1>1 DEF processPeacock, processSquawkAcceptsChallenge
  <2>2. new = [rdid |-> r, sends |-> <<"NEST">>, op |-> "Nest", id |-> TheId(Staged(r))]
    BY <2>1 DEF generateNest, Runs
  <2> QED
    BY <2>1, <2>2 DEF Begun
<1>4. CASE \E r \in Rdids : processSquawkSensorReply(r)
  <2> PICK r \in Rdids : processSquawkSensorReply(r)
    BY <1>4
  <2>1. CASE Goes(r, "nest") /\ generateNest(r)
    <3>1. new = [rdid |-> r, sends |-> <<"NEST">>, op |-> "Nest", id |-> TheId(Staged(r))]
      BY <2>1 DEF generateNest, Runs
    <3> QED
      BY <2>1, <3>1 DEF Begun
  <2>2. CASE Goes(r, "own") /\ Runs(r, <<>>, "Squawk2", TheId(Staged(r)))
    <3>1. /\ new = [rdid |-> r, sends |-> <<>>, op |-> "Squawk2", id |-> TheId(Staged(r))]
          /\ running' = running \cup {new}
      BY <2>2 DEF Runs
    <3> QED
      BY <2>2, <3>1 DEF Begun
  <2>3. CASE (\E next \in {"nest", "own"} : Goes(r, next)) /\ Runs(r, <<"DENY">>, "Denied", 0)
    <3>1. new = [rdid |-> r, sends |-> <<"DENY">>, op |-> "Denied", id |-> 0]
      BY <2>3 DEF Runs
    <3> QED
      BY <2>3, <3>1 DEF Begun
  <2> QED
    BY <2>1, <2>2, <2>3 DEF processSquawkSensorReply
<1>5. CASE \E r \in Rdids : processSquawkSensorChallenge(r)
  <2> PICK r \in Rdids : processSquawkSensorChallenge(r)
    BY <1>5
  <2>1. new = [rdid |-> r, sends |-> <<>>, op |-> "Await", id |-> 0]
    BY DEF processSquawkSensorChallenge, Runs
  <2> QED
    BY <2>1 DEF Begun
<1>6. CASE \E p \in pipeline : Mate(p)
  <2> PICK p \in pipeline : Mate(p)
    BY <1>6
  <2>1. new = [rdid |-> p.rdid, sends |-> <<"SING">>, op |-> "Sing", id |-> p.id] /\ p.tx = "Peck"
    BY DEF Mate, Runs
  <2>2. p.rdid \in Rdids
    BY DEF TypeOK
  <2> QED
    BY <2>1, <2>2 DEF Begun, Staged
<1>7. CASE \E call \in running : xmitToRouter(call)
  <2> PICK call \in running : xmitToRouter(call)
    BY <1>7
  <2> DEFINE left == [call EXCEPT !.sends = Tail(@)]
  <2>1. call \in Calls /\ call.sends \in Unsent[call.op] /\ call.sends # <<>>
    BY DEF TypeOK, xmitToRouter
  <2>2. new = left /\ ~ (left.sends = <<>> /\ left.op = "end")
    BY DEF xmitToRouter
  <2>3. /\ new.rdid = call.rdid /\ new.op = call.op /\ new.id = call.id
        /\ new \in Calls /\ new.sends \in Unsent[new.op]
    BY <2>1, <2>2, OneLess
  <2>4. new.op # "end"
    <3>1. ASSUME new.op = "end"
          PROVE  FALSE
      <4>1. Unsent["end"] = {<<"PECK_REFUSED">>, <<"RESPOND">>}
        BY DEF Unsent
      <4>2. Tail(<<"PECK_REFUSED">>) = <<>> /\ Tail(<<"RESPOND">>) = <<>>
        OBVIOUS
      <4>3. new.sends = Tail(call.sends)
        BY <2>1, <2>2 DEF Calls
      <4> QED
        BY <2>1, <2>2, <2>3, <3>1, <4>1, <4>2, <4>3
    <3> QED
      BY <3>1
  <2>5. new.op # "Await"
    <3>1. Unsent["Await"] = {<<>>}
      BY DEF Unsent
    <3> QED
      BY <2>1, <2>3, <3>1
  <2>6. new.op \in DOMAIN Unsent
    BY <2>3 DEF Calls
  <2>7. ~ Answers(new)
    BY <2>3, <2>4, <2>5, <2>6, AnswersAre
  <2> QED
    BY <2>3, <2>7 DEF Sends, GoesOn
<1>8. CASE \E call \in running : Awaits(call)
  <2> PICK call \in running : Awaits(call)
    BY <1>8
  <2>1. new = [call EXCEPT !.sends = <<"RESPOND">>, !.op = "end"] /\ call.op = "Await"
    BY DEF Awaits
  <2>2. /\ new.op = "end" /\ new.sends = <<"RESPOND">>
        /\ new.rdid = call.rdid /\ new.id = call.id
    BY <2>1 DEF TypeOK, Calls
  <2>3. /\ StagedAs(call.rdid, "Squawk2") /\ running' = (running \ {call}) \cup {new}
        /\ updatePipeline(call.rdid, TheId(Staged(call.rdid)), "Squawk3")
    BY <2>1 DEF Awaits
  <2>4. call.rdid \in Rdids
    BY DEF TypeOK
  <2> QED
    BY <2>1, <2>2, <2>3, <2>4 DEF Begun
<1>9. CASE \/ \E d \in Devices : EyeballLost(d)
           \/ \E r \in Rdids :
                \/ processMock(r) \/ dropAndForgetSensor(r) \/ processChirpData(r)
                \/ updateSensorStatus(r, "online") \/ updateSensorStatus(r, "stale")
                \/ PacketLost(r) \/ Leaves(r)
           \/ \E call \in running : Ends(call)
           \/ \E p \in pipeline : cleanPipeline(p)
           \/ \E r \in departing : dropSensorFromNetwork(r) \/ DepartureLost(r)
           \/ \E r \in disconnecting : Disconnects(r)
  BY <1>1, <1>9 DEF EyeballLost, processMock, dropAndForgetSensor, processChirpData,
       updateSensorStatus, PacketLost, Leaves, Ends, cleanPipeline, dropSensorFromNetwork,
       DepartureLost, Disconnects
<1> QED
  BY <1>2, <1>3, <1>4, <1>5, <1>6, <1>7, <1>8, <1>9, Steps

(* A call that is gone has come to its end, or has only to respond.        *)
LEMMA CallLeaves ==
  ASSUME TypeOK, Next, NEW call \in running
  PROVE  \/ \E new \in running' : GoesOn(new, call)
         \/ Ends(call)
         \/ call.op = "Await" /\ Awaits(call)
         \/ call.op = "end" /\ xmitToRouter(call)
<1>0. GoesOn(call, call)
  BY DEF GoesOn
<1>1. CASE running \subseteq running'
  BY <1>0, <1>1
<1>2. CASE \E other \in running : xmitToRouter(other)
  <2> PICK other \in running : xmitToRouter(other)
    BY <1>2
  <2> DEFINE left == [other EXCEPT !.sends = Tail(@)]
  <2>1. other \in Calls /\ other.sends \in Unsent[other.op] /\ other.sends # <<>>
    BY DEF TypeOK, xmitToRouter
  <2>2. GoesOn(left, other)
    BY <2>1, OneLess DEF GoesOn
  <2>3. left \in running' \/ left.op = "end"
    BY DEF xmitToRouter
  <2>4. call = other \/ call \in running'
    BY DEF xmitToRouter
  <2> QED
    BY <1>0, <2>2, <2>3, <2>4 DEF GoesOn
<1>3. CASE \E other \in running : Ends(other) \/ Awaits(other)
  <2> PICK other \in running : Ends(other) \/ Awaits(other)
    BY <1>3
  <2>1. call = other \/ call \in running'
    BY DEF Ends, Awaits
  <2>2. Awaits(other) => other.op = "Await"
    BY DEF Awaits
  <2> QED
    BY <1>0, <2>1, <2>2
<1>4. CASE \/ \E d \in Devices : processEyeball(d) \/ EyeballLost(d)
           \/ \E r \in Rdids :
                \/ processMock(r) \/ processPeacock(r) \/ processSquawkSensorReply(r)
                \/ processSquawkSensorChallenge(r) \/ processSquawkAcceptsChallenge(r)
                \/ dropAndForgetSensor(r) \/ processChirpData(r)
                \/ updateSensorStatus(r, "online") \/ updateSensorStatus(r, "stale")
                \/ PacketLost(r) \/ Leaves(r)
           \/ \E p \in pipeline : cleanPipeline(p) \/ Mate(p)
           \/ \E r \in departing : dropSensorFromNetwork(r) \/ DepartureLost(r)
           \/ \E r \in disconnecting : Disconnects(r)
  BY <1>1, <1>4 DEF processEyeball, EyeballLost, processMock, processPeacock,
       processSquawkSensorReply, processSquawkSensorChallenge, processSquawkAcceptsChallenge,
       dropAndForgetSensor, processChirpData, updateSensorStatus, PacketLost, Leaves,
       cleanPipeline, Mate, dropSensorFromNetwork, DepartureLost, Disconnects, Runs, generateNest
<1> QED
  BY <1>2, <1>3, <1>4, Steps

(* A row of pipeline that is new.                                          *)
StagedNow(p) ==
  \/ /\ processMock(p.rdid) /\ StagedAs(p.rdid, "Sing")
     /\ p.tx = "Mock" /\ p.id = TheId(Staged(p.rdid))
  \/ \E call \in running :
       /\ Ends(call) /\ call.op \in {"Peck", "Sing", "Squawk1", "Squawk2"}
       /\ p.rdid = call.rdid /\ p.id = call.id /\ p.tx = call.op
  \/ /\ \E call \in running : call.rdid = p.rdid /\ call.op = "Await" /\ Awaits(call)
     /\ StagedAs(p.rdid, "Squawk2")
     /\ p.tx = "Squawk3" /\ p.id = TheId(Staged(p.rdid))

LEMMA StagedSteps ==
  ASSUME TypeOK, Next
  PROVE  \/ /\ pipeline' \subseteq pipeline
            /\ \A q \in pipeline \ pipeline' :
                 \/ \E call \in running :
                      Ends(call) /\ call.op \in {"Nest", "Denied"} /\ call.rdid = q.rdid
                 \/ \E p \in pipeline : cleanPipeline(p) /\ q.id = p.id
         \/ \E p : StagedNow(p) /\ pipeline' = (pipeline \ Staged(p.rdid)) \cup {p}
<1>1. CASE pipeline' = pipeline
  BY <1>1
<1>2. CASE \E d \in Devices : processEyeball(d)
  <2>1. Staged(Len(who) + 1) = {}
    BY LeaseTypes DEF Staged, TypeOK
  <2>2. pipeline' = pipeline
    BY <1>2, <2>1 DEF processEyeball, deleteFromPipelineByRdid
  <2> QED
    BY <1>1, <2>2
<1>3. CASE \E r \in Rdids : processMock(r)
  <2> PICK r \in Rdids : processMock(r)
    BY <1>3
  <2>1. CASE StagedAs(r, "Sing") /\ updatePipeline(r, TheId(Staged(r)), "Mock")
    <3> DEFINE p == [rdid |-> r, id |-> TheId(Staged(r)), tx |-> "Mock"]
    <3>1. StagedNow(p)
      BY <2>1 DEF StagedNow
    <3> QED
      BY <2>1, <3>1 DEF updatePipeline
  <2> QED
    BY <1>1, <2>1 DEF processMock
<1>4. CASE \E call \in running : Ends(call)
  <2> PICK call \in running : Ends(call)
    BY <1>4
  <2>1. CASE call.op \in {"Nest", "Denied"}
    BY <2>1 DEF Ends, deleteFromPipelineByRdid, Staged
  <2>2. CASE call.op \in {"Peck", "Sing", "Squawk1", "Squawk2"}
    <3> DEFINE p == [rdid |-> call.rdid, id |-> call.id, tx |-> call.op]
    <3>1. updatePipeline(call.rdid, call.id, call.op)
      BY <2>2 DEF Ends
    <3>2. StagedNow(p)
      BY <2>2 DEF StagedNow
    <3> QED
      BY <3>1, <3>2 DEF updatePipeline
  <2>3. call.op # "Await" /\ call.op # "end"
    <3>1. Unsent["end"] = {<<"PECK_REFUSED">>, <<"RESPOND">>}
      BY DEF Unsent
    <3>2. <<>> # <<"PECK_REFUSED">> /\ <<>> # <<"RESPOND">>
      OBVIOUS
    <3>3. call.sends = <<>> /\ call.op # "Await" /\ call.sends \in Unsent[call.op]
      BY DEF Ends, TypeOK
    <3> QED
      BY <3>1, <3>2, <3>3
  <2>4. call.op \in DOMAIN Unsent
    BY DEF TypeOK, Calls
  <2> QED
    BY <2>1, <2>2, <2>3, <2>4 DEF Unsent
<1>5. CASE \E call \in running : Awaits(call)
  <2> PICK call \in running : Awaits(call)
    BY <1>5
  <2>1. CASE /\ StagedAs(call.rdid, "Squawk2")
             /\ updatePipeline(call.rdid, TheId(Staged(call.rdid)), "Squawk3")
    <3> DEFINE p == [rdid |-> call.rdid, id |-> TheId(Staged(call.rdid)), tx |-> "Squawk3"]
    <3>1. call.op = "Await"
      BY DEF Awaits
    <3>2. StagedNow(p)
      BY <2>1, <3>1 DEF StagedNow
    <3> QED
      BY <2>1, <3>2 DEF updatePipeline
  <2> QED
    BY <1>1, <2>1 DEF Awaits
<1>6. CASE \E p \in pipeline : cleanPipeline(p)
  BY <1>6 DEF cleanPipeline
<1>7. CASE \/ \E d \in Devices : EyeballLost(d)
           \/ \E r \in Rdids :
                \/ processPeacock(r) \/ processSquawkSensorReply(r)
                \/ processSquawkSensorChallenge(r) \/ processSquawkAcceptsChallenge(r)
                \/ dropAndForgetSensor(r) \/ processChirpData(r)
                \/ updateSensorStatus(r, "online") \/ updateSensorStatus(r, "stale")
                \/ PacketLost(r) \/ Leaves(r)
           \/ \E call \in running : xmitToRouter(call)
           \/ \E p \in pipeline : Mate(p)
           \/ \E r \in departing : dropSensorFromNetwork(r) \/ DepartureLost(r)
           \/ \E r \in disconnecting : Disconnects(r)
  BY <1>1, <1>7 DEF EyeballLost, processPeacock, processSquawkSensorReply, generateNest,
       processSquawkSensorChallenge, processSquawkAcceptsChallenge, dropAndForgetSensor,
       processChirpData, updateSensorStatus, PacketLost, Leaves, xmitToRouter, Mate,
       dropSensorFromNetwork, DepartureLost, Disconnects, tables
<1> QED
  BY <1>2, <1>3, <1>4, <1>5, <1>6, <1>7, Steps

(* Where a device goes from where: by a packet of its own, lost or not, or *)
(* by one that the server sends.                                           *)
OwnMoves ==
  {<<"mock", "peacock">>, <<"peacock", "nest">>, <<"reply", "nest">>, <<"reply", "own">>,
   <<"reply", "quiet">>, <<"own", "respond">>, <<"accept", "nest">>}

LEMMA PlaceSteps ==
  ASSUME TypeOK, Next, NEW r \in Rdids, step'[r] # step[r]
  PROVE  \/ step'[r] = "gone"
         \/ <<step[r], step'[r]>> \in OwnMoves
         \/ \E call \in running : /\ xmitToRouter(call) /\ call.rdid = r
                                  /\ <<step[r], step'[r]>> = Moves[Head(call.sends)]
<1>1. CASE UNCHANGED leases
  BY <1>1 DEF leases
<1>2. ASSUME NEW q \in Rdids, NEW next \in Places, Goes(q, next)
      PROVE  q = r /\ step'[r] = next
  BY <1>2, MoveOn
<1>3. CASE \E d \in Devices : processEyeball(d) \/ EyeballLost(d)
  BY <1>3, NewLease DEF processEyeball, EyeballLost
<1>4. CASE \E q \in Rdids :
             \/ processMock(q) \/ processPeacock(q) \/ processSquawkSensorReply(q)
             \/ processSquawkSensorChallenge(q) \/ processSquawkAcceptsChallenge(q)
             \/ dropAndForgetSensor(q) \/ PacketLost(q)
  <2> PICK q \in Rdids :
             \/ processMock(q) \/ processPeacock(q) \/ processSquawkSensorReply(q)
             \/ processSquawkSensorChallenge(q) \/ processSquawkAcceptsChallenge(q)
             \/ dropAndForgetSensor(q) \/ PacketLost(q)
    BY <1>4
  <2>1. PICK next \in {"peacock", "nest", "own", "respond", "quiet"} :
          Goes(q, next) /\ <<step[q], next>> \in OwnMoves
    BY DEF processMock, processPeacock, processSquawkSensorReply, processSquawkSensorChallenge,
       processSquawkAcceptsChallenge, dropAndForgetSensor, PacketLost, At, OwnMoves
  <2>2. next \in Places
    BY DEF Places
  <2> QED
    BY <1>2, <2>1, <2>2
<1>5. CASE \E call \in running : xmitToRouter(call)
  <2> PICK call \in running : xmitToRouter(call)
    BY <1>5
  <2> DEFINE move == Moves[Head(call.sends)]
  <2>1. call \in Calls /\ call.sends \in Unsent[call.op] /\ call.rdid \in Rdids
    BY DEF TypeOK
  <2>2. move \in Places \X Places
    BY <2>1, OneLess DEF xmitToRouter
  <2>3. UNCHANGED leases \/ (step[call.rdid] = move[1] /\ Goes(call.rdid, move[2]))
    BY DEF xmitToRouter, At
  <2>4. CASE step[call.rdid] = move[1] /\ Goes(call.rdid, move[2])
    <3>1. call.rdid = r /\ step'[r] = move[2]
      BY <1>2, <2>1, <2>2, <2>4
    <3>2. move = <<move[1], move[2]>>
      BY <2>2
    <3> QED
      BY <2>4, <3>1, <3>2
  <2> QED
    BY <1>1, <2>3, <2>4
<1>6. CASE \/ \E q \in disconnecting : Disconnects(q)
           \/ \E q \in Rdids : Leaves(q)
  <2>1. UNCHANGED leases \/ \E q \in Rdids : Goes(q, "gone")
    BY <1>6 DEF Disconnects, Leaves, Frees, TypeOK
  <2> QED
    BY <1>1, <1>2, <2>1 DEF Places
<1>7. CASE \/ \E q \in Rdids : \/ processChirpData(q)
                               \/ updateSensorStatus(q, "online") \/ updateSensorStatus(q, "stale")
           \/ \E call \in running : Ends(call) \/ Awaits(call)
           \/ \E p \in pipeline : cleanPipeline(p) \/ Mate(p)
           \/ \E q \in departing : dropSensorFromNetwork(q) \/ DepartureLost(q)
  BY <1>1, <1>7 DEF processChirpData, updateSensorStatus, Ends, Awaits, cleanPipeline, Mate,
       dropSensorFromNetwork, DepartureLost
<1> QED
  BY <1>3, <1>4, <1>5, <1>6, <1>7, Steps

-----------------------------------------------------------------------------
(* What is under way where is kept so.                                     *)

LEMMA IdsStayGiven ==
  ASSUME TypeOK, IdsGiven, Next
  PROVE  IdsGiven'
<1>1. ASSUME NEW r, NEW p \in Staged(r)
      PROVE  TheId(Staged(r)) = p.id
  <2>1. PICK q \in Staged(r) : TheId(Staged(r)) = q.id
    BY <1>1, StagedTypes
  <2> QED
    BY <2>1 DEF IdsGiven, Staged
<1>2. ASSUME NEW new \in running'
      PROVE  /\ new.op \in {"Peck", "Sing", "Squawk1"} => new.id # 0
             /\ new.op \in {"Denied", "Await", "end"} => new.id = 0
  <2>1. CASE new \in running \/ \E call \in running : Sends(new, call)
    BY <2>1 DEF IdsGiven, Sends, GoesOn
  <2>2. CASE \E d \in Devices : processEyeball(d) /\ Begins(new, d)
    <3> PICK d \in Devices : Begins(new, d)
      BY <2>2
    <3>1. new.op = "Squawk1" => new.id # 0
      BY MatedId DEF Begins, TypeOK, Rows
    <3>2. new.op \in {"Peck", "Sing"} => new.id # 0
      BY DEF Begins, Joins, TypeOK
    <3> QED
      BY <3>1, <3>2 DEF Begins
  <2>3. CASE new.rdid \in Rdids /\ Begun(new)
    <3>1. new.op = "Sing" => new.id # 0
      BY <2>3 DEF Begun, IdsGiven, Staged
    <3>2. new.op = "end" => new.id = 0
      BY <2>3 DEF Begun, IdsGiven
    <3> QED
      BY <2>3, <3>1, <3>2 DEF Begun
  <2> QED
    BY <2>1, <2>2, <2>3, CallSteps
<1>3. ASSUME NEW p, StagedNow(p), p.tx \in {"Peck", "Sing", "Squawk1", "Mock"}
      PROVE  p.id # 0
  <2>1. CASE /\ StagedAs(p.rdid, "Sing") /\ p.id = TheId(Staged(p.rdid))
    BY <1>1, <2>1 DEF StagedAs, Staged, IdsGiven
  <2>2. CASE \E call \in running : call.op = p.tx /\ p.id = call.id /\ call.op # "Mock"
    BY <1>3, <2>2 DEF IdsGiven
  <2> QED
    BY <1>3, <2>1, <2>2 DEF StagedNow
<1>4. ASSUME NEW p \in pipeline'
      PROVE  /\ p.tx \in {"Peck", "Sing", "Squawk1", "Mock"} => p.id # 0
             /\ \A q \in pipeline' : p.rdid = q.rdid => p = q
  BY <1>3, StagedSteps DEF IdsGiven, Staged
<1> QED
  BY <1>2, <1>4 DEF IdsGiven

LEMMA AnswerStaysOne ==
  ASSUME TypeOK, IdsGiven, OneAnswer, CallPlaces, Next
  PROVE  OneAnswer'
<1>1. ASSUME NEW new \in running', Answers(new)
      PROVE  new \in running \/ (new.rdid \in Rdids /\ Begun(new) /\ new.op \in {"Await", "end"})
  <2>1. new.op \in DOMAIN Unsent /\ new.sends \in Unsent[new.op]
    BY TypesStay DEF TypeOK, Calls
  <2>2. new.op \in {"Await", "end"} /\ new.sends # <<"PECK_REFUSED">>
    <3>1. Unsent["Await"] = {<<>>}
      BY DEF Unsent
    <3>2. <<>> # <<"PECK_REFUSED">> /\ <<"RESPOND">> # <<"PECK_REFUSED">>
      OBVIOUS
    <3>3. new.op = "Await" \/ (new.op = "end" /\ new.sends = <<"RESPOND">>)
      BY <1>1, <2>1, AnswersAre
    <3> QED
      BY <2>1, <3>1, <3>2, <3>3
  <2>3. ~ \E d \in Devices : Begins(new, d)
    BY <2>2 DEF Begins
  <2> QED
    BY <1>1, <2>2, <2>3, CallSteps DEF Sends
<1>2. ASSUME NEW new1 \in running', NEW new2 \in running', Answers(new2), new1.rdid = new2.rdid,
             Begun(new1), new1.op = "end"
      PROVE  new1 = new2
  <2>1. PICK call \in running : /\ call.op = "Await" /\ call.rdid = new1.rdid
                                /\ running' = (running \ {call}) \cup {new1}
    BY <1>2 DEF Begun
  <2> QED
    BY <1>2, <2>1 DEF OneAnswer, Answers
<1>3. ASSUME NEW new \in running', Begun(new), new.op = "Await"
      PROVE  /\ \A call \in running : Answers(call) => call.rdid # new.rdid
             /\ new = [rdid |-> new.rdid, sends |-> <<>>, op |-> "Await", id |-> 0]
  <2>1. processSquawkSensorChallenge(new.rdid) /\ new.id = 0 /\ new.sends = <<>>
    BY <1>3 DEF Begun
  <2>2. step[new.rdid] = "own"
    BY <2>1 DEF processSquawkSensorChallenge, At
  <2>3. new \in Calls
    BY TypesStay DEF TypeOK
  <2> QED
    BY <1>3, <2>1, <2>2, <2>3 DEF CallPlaces, Calls
<1>4. ASSUME NEW new \in running', Begun(new), new.op = "end"
      PROVE  \E call \in running : Answers(call) /\ call.rdid = new.rdid
  BY <1>4 DEF Begun, Answers
<1>5. ASSUME NEW new1 \in running', NEW new2 \in running', Answers(new1), Answers(new2),
             new1.rdid = new2.rdid
      PROVE  new1 = new2
  <2>1. CASE new1 \in running /\ new2 \in running
    BY <1>5, <2>1 DEF OneAnswer
  <2>2. CASE Begun(new1) /\ new1.op = "end"
    BY <1>2, <1>5, <2>2
  <2>3. CASE Begun(new2) /\ new2.op = "end"
    BY <1>2, <1>5, <2>3
  <2>4. CASE Begun(new1) /\ new1.op = "Await"
    BY <1>1, <1>3, <1>4, <1>5, <2>4
  <2>5. CASE Begun(new2) /\ new2.op = "Await"
    BY <1>1, <1>3, <1>4, <1>5, <2>5
  <2> QED
    BY <1>1, <1>5, <2>1, <2>2, <2>3, <2>4, <2>5
<1> QED
  BY <1>5 DEF OneAnswer, Answers

(* Only a lease that has ended is announced.                               *)
LEMMA DepartingSteps ==
  ASSUME TypeOK, Next, NEW r \in departing'
  PROVE  r \in departing \/ step'[r] = "gone"
<1>1. CASE departing' \subseteq departing
  BY <1>1
<1>2. CASE \E q \in Rdids : Goes(q, "gone") /\ departing' = departing \cup {q}
  <2> PICK q \in Rdids : Goes(q, "gone") /\ departing' = departing \cup {q}
    BY <1>2
  <2>1. step'[q] = "gone"
    BY MoveOn DEF Places
  <2> QED
    BY <2>1
<1>3. CASE \E call \in running : xmitToRouter(call)
  <2> PICK call \in running : xmitToRouter(call)
    BY <1>3
  <2>1. call.rdid \in Rdids
    BY DEF TypeOK
  <2>2. \/ departing' = departing
        \/ Goes(call.rdid, "gone") /\ departing' = departing \cup {call.rdid}
    BY DEF xmitToRouter
  <2> QED
    BY <1>1, <1>2, <2>1, <2>2
<1>4. CASE \/ \E q \in disconnecting : Disconnects(q)
           \/ \E q \in Rdids : Leaves(q)
  BY <1>1, <1>2, <1>4 DEF Disconnects, Leaves, Frees, Plainly, TypeOK
<1>5. CASE \E q \in departing : dropSensorFromNetwork(q) \/ DepartureLost(q)
  BY <1>1, <1>5 DEF dropSensorFromNetwork, DepartureLost
<1>6. CASE \/ \E d \in Devices : processEyeball(d) \/ EyeballLost(d)
           \/ \E q \in Rdids :
                \/ processMock(q) \/ processPeacock(q) \/ processSquawkSensorReply(q)
                \/ processSquawkSensorChallenge(q) \/ processSquawkAcceptsChallenge(q)
                \/ dropAndForgetSensor(q) \/ processChirpData(q)
                \/ updateSensorStatus(q, "online") \/ updateSensorStatus(q, "stale")
                \/ PacketLost(q)
           \/ \E call \in running : Ends(call) \/ Awaits(call)
           \/ \E p \in pipeline : cleanPipeline(p) \/ Mate(p)
  BY <1>1, <1>6 DEF processEyeball, EyeballLost, processMock, processPeacock,
       processSquawkSensorReply, processSquawkSensorChallenge, processSquawkAcceptsChallenge,
       dropAndForgetSensor, processChirpData, updateSensorStatus, PacketLost, Ends, Awaits,
       cleanPipeline, Mate, Plainly
<1> QED
  BY <1>3, <1>4, <1>5, <1>6, Steps

LEMMA ServerMoves ==
  ASSUME TypeOK, NEW call \in running, call.sends # <<>>
  PROVE  \/ Moves[Head(call.sends)] \in
              {<<"peck", "challenge">>, <<"peck", "sing">>, <<"peck", "gone">>,
               <<"sing", "mock">>, <<"challenge", "reply">>, <<"nest", "nested">>,
               <<"nest", "quiet">>}
         \/ Moves[Head(call.sends)] = <<"respond", "accept">> /\ call.sends = <<"RESPOND">>
<1>1. call \in Calls /\ call.sends \in Unsent[call.op]
  BY DEF TypeOK
<1>2. /\ Head(call.sends) \in DOMAIN Moves
      /\ Head(call.sends) = "RESPOND" => call.sends = <<"RESPOND">>
  BY <1>1, OneLess
<1> QED
  BY <1>2 DEF Moves

LEMMA GoneStays ==
  ASSUME TypeOK, Next, NEW r \in Rdids, step[r] = "gone"
  PROVE  step'[r] = "gone"
BY ServerMoves, PlaceSteps DEF OwnMoves, xmitToRouter

LEMMA CallPlacesStay ==
  ASSUME TypeOK, OneAnswer, CallPlaces, OwnIsLater, Next
  PROVE  CallPlaces'
<1>2. ASSUME NEW call \in running
      PROVE  /\ call.op = "Nest" => step'[call.rdid] \in {"nest", "nested", "quiet", "gone"}
             /\ call.op = "Denied" =>
                  step'[call.rdid] \in {"nest", "own", "respond", "nested", "quiet", "gone"}
             /\ Answers(call) =>
                  \/ step'[call.rdid] \in {"respond", "gone"}
                  \/ xmitToRouter(call)
  <2> DEFINE r == call.rdid
  <2>1. /\ call.op = "Nest" => step[r] \in {"nest", "nested", "quiet", "gone"}
        /\ call.op = "Denied" => step[r] \in {"nest", "own", "respond", "nested", "quiet", "gone"}
        /\ Answers(call) => step[r] \in {"respond", "gone"}
        /\ r \in Rdids
    BY DEF CallPlaces, TypeOK
  <2>2. CASE step'[r] = step[r]
    BY <2>1, <2>2
  <2>3. CASE step'[r] = "gone"
    BY <2>3
  <2>4. CASE <<step[r], step'[r]>> \in OwnMoves
    BY <2>1, <2>4 DEF OwnMoves
  <2>5. ASSUME NEW other \in running, xmitToRouter(other), other.rdid = r,
               <<step[r], step'[r]>> = Moves[Head(other.sends)]
        PROVE  /\ call.op = "Nest" => step'[r] \in {"nest", "nested", "quiet", "gone"}
               /\ call.op = "Denied" =>
                    step'[r] \in {"nest", "own", "respond", "nested", "quiet", "gone"}
               /\ Answers(call) => step'[r] \in {"respond", "gone"} \/ xmitToRouter(call)
    <3>1. other.sends # <<>>
      BY <2>5 DEF xmitToRouter
    <3>2. CASE other.sends = <<"RESPOND">>
      <4>1. call.op # "Denied"
        BY <2>1, <2>5, <3>2 DEF OwnIsLater, Unproven, HasCall
      <4>2. Answers(call) => call = other
        BY <2>5, <3>2 DEF OneAnswer, Answers
      <4>3. Moves["RESPOND"] = <<"respond", "accept">>
        BY DEF Moves
      <4>4. step[r] = "respond"
        BY <2>5, <3>2, <4>3
      <4> QED
        BY <2>1, <2>5, <4>1, <4>2, <4>4
    <3>3. CASE other.sends # <<"RESPOND">>
      BY ServerMoves, <2>1, <2>5, <3>1, <3>3
    <3> QED
      BY <3>2, <3>3
  <2> QED
    BY <2>1, <2>2, <2>3, <2>4, <2>5, PlaceSteps
<1>3. ASSUME NEW call \in running, xmitToRouter(call), Answers(call)
      PROVE  call \notin running'
  <2>1. /\ call.op \in DOMAIN Unsent /\ call.sends \in Unsent[call.op] /\ call.sends # <<>>
        /\ call \in Calls
    BY <1>3 DEF TypeOK, Calls, xmitToRouter
  <2>2. Unsent["Await"] = {<<>>}
    BY DEF Unsent
  <2>3. call.op = "end" /\ call.sends = <<"RESPOND">>
    BY <1>3, <2>1, <2>2, AnswersAre
  <2>4. [call EXCEPT !.sends = Tail(@)].sends = <<>> /\ [call EXCEPT !.sends = Tail(@)].op = "end"
    BY <2>1, <2>3 DEF Calls
  <2> QED
    BY <1>3, <2>4 DEF xmitToRouter
<1>4. ASSUME NEW new \in running'
      PROVE  /\ new.op = "Nest" => step'[new.rdid] \in {"nest", "nested", "quiet", "gone"}
             /\ new.op = "Denied" =>
                  step'[new.rdid] \in {"nest", "own", "respond", "nested", "quiet", "gone"}
             /\ Answers(new) => step'[new.rdid] \in {"respond", "gone"}
  <2>0. new.op \in DOMAIN Unsent /\ new.sends \in Unsent[new.op]
    BY TypesStay DEF TypeOK, Calls
  <2>1. CASE new \in running
    BY <1>2, <1>3, <2>1
  <2>2. CASE \E call \in running : Sends(new, call)
    BY <1>2, <2>2 DEF Sends, GoesOn
  <2>3. CASE \E d \in Devices : processEyeball(d) /\ Begins(new, d)
    <3>1. new.op \notin {"Nest", "Denied", "Await"} /\ (new.op = "end" => new.sends = <<"PECK_REFUSED">>)
      BY <2>3 DEF Begins
    <3> QED
      BY <2>0, <3>1, AnswersAre
  <2>4. CASE new.rdid \in Rdids /\ Begun(new)
    <3> DEFINE r == new.rdid
    <3>1. new.op = "Nest" => step'[r] = "nest"
      BY <2>4, MoveOn DEF Begun, Places
    <3>2. new.op = "Denied" => step'[r] \in {"nest", "own"}
      BY <2>4, MoveOn DEF Begun, Places
    <3>3. new.op = "Await" => step'[r] = "respond"
      BY <2>4, MoveOn DEF Begun, Places, processSquawkSensorChallenge
    <3>4. new.op = "end" => step'[r] \in {"respond", "gone"}
      <4>1. ASSUME new.op = "end"
            PROVE  \E call \in running : call.op = "Await" /\ Awaits(call) /\ call.rdid = r
        BY <2>4, <4>1 DEF Begun
      <4> QED
        BY <4>1 DEF CallPlaces, Answers, Awaits, leases
    <3> QED
      BY <2>0, <3>1, <3>2, <3>3, <3>4, AnswersAre
  <2> QED
    BY <2>1, <2>2, <2>3, <2>4, CallSteps
<1>5. ASSUME NEW r \in departing'
      PROVE  step'[r] = "gone"
  BY GoneStays, DepartingSteps DEF CallPlaces, TypeOK
<1> QED
  BY <1>4, <1>5 DEF CallPlaces, Answers

LEMMA OwnStaysLater ==
  ASSUME TypeOK, OwnIsLater, Next
  PROVE  OwnIsLater'
<1>1. ASSUME NEW r \in Rdids, Unproven(r)'
      PROVE  Unproven(r)
  <2>1. CASE step'[r] = step[r] /\ step[r] \in {"peck", "sing", "challenge", "mock", "peacock", "reply"}
    BY <2>1 DEF Unproven
  <2>2. CASE /\ step'[r] # step[r]
             /\ step'[r] \in {"peck", "sing", "challenge", "mock", "peacock", "reply"}
    <3>1. \A call \in running : call.sends # <<>> => Head(call.sends) \in DOMAIN Moves
      BY OneLess DEF TypeOK
    <3> QED
      BY <2>2, <3>1, PlaceSteps DEF OwnMoves, Unproven, Moves, xmitToRouter
  <2>3. CASE HasCall(r, {"Denied"})'
    <3> PICK new \in running' : new.rdid = r /\ new.op = "Denied"
      BY <2>3 DEF HasCall
    <3>1. CASE new \in running \/ \E call \in running : Sends(new, call)
      BY <3>1 DEF Unproven, HasCall, Sends, GoesOn
    <3>2. CASE new.rdid \in Rdids /\ Begun(new)
      BY <3>2 DEF Begun, processSquawkSensorReply, At, Unproven
    <3> QED
      BY <3>1, <3>2, CallSteps DEF Begins
  <2> QED
    BY <1>1, <2>1, <2>2, <2>3 DEF Unproven
<1>2. ASSUME NEW r \in Rdids, Unproven(r)', NEW new \in running', new.rdid = r
      PROVE  new.op # "Squawk2" /\ new.sends # <<"RESPOND">>
  <2>1. \A call \in running : call.rdid = r => call.op # "Squawk2" /\ call.sends # <<"RESPOND">>
    BY <1>1, <1>2 DEF OwnIsLater
  <2>2. ~ StagedAs(r, "Squawk2")
    BY <1>1, <1>2 DEF OwnIsLater, StagedAs
  <2>3. CASE new \in running
    BY <1>2, <2>1, <2>3
  <2>4. CASE \E call \in running : Sends(new, call)
    BY <1>2, <2>1, <2>4 DEF Sends, GoesOn, Answers
  <2>5. CASE \E d \in Devices : processEyeball(d) /\ Begins(new, d)
    <3>1. new.rdid = Len(who) + 1
      BY <2>5 DEF Begins
    <3> QED
      BY <1>2, <3>1, LeaseTypes
  <2>6. CASE Begun(new)
    <3>0. new.op \in DOMAIN Unsent /\ new.sends \in Unsent[new.op]
      BY TypesStay DEF TypeOK, Calls
    <3>1. new.op # "end"
      BY <1>2, <2>2, <2>6 DEF Begun
    <3>2. new.sends # <<"RESPOND">>
      <4>1. Unsent["Await"] = {<<>>} /\ <<>> # <<"RESPOND">>
        BY DEF Unsent
      <4> QED
        BY <3>0, <3>1, <4>1, AnswersAre DEF Answers
    <3>3. ASSUME new.op = "Squawk2"
          PROVE  FALSE
      <4>1. Settled(who[r]) /\ Goes(r, "own") /\ running' = running \cup {new}
        BY <1>2, <2>6, <3>3 DEF Begun, processSquawkSensorReply
      <4>2. step'[r] = "own"
        BY <4>1, MoveOn DEF Places
      <4>3. ~ HasCall(r, {"Denied"})'
        BY <3>3, <4>1 DEF HasCall, Settled
      <4> QED
        BY <1>2, <4>2, <4>3 DEF Unproven
    <3> QED
      BY <3>2, <3>3
  <2> QED
    BY <2>3, <2>4, <2>5, <2>6, CallSteps
<1>3. ASSUME NEW r \in Rdids, Unproven(r)', NEW p \in pipeline', p.rdid = r
      PROVE  p.tx \notin {"Squawk2", "Squawk3"}
  <2>1. \A call \in running : call.rdid = r => call.op # "Squawk2"
    BY <1>1, <1>3 DEF OwnIsLater
  <2>2. \A q \in pipeline : q.rdid = r => q.tx \notin {"Squawk2", "Squawk3"}
    BY <1>1, <1>3 DEF OwnIsLater, Staged
  <2>3. CASE StagedNow(p)
    BY <1>3, <2>1, <2>2, <2>3 DEF StagedNow, StagedAs, Staged
  <2> QED
    BY <1>3, <2>2, <2>3, StagedSteps
<1>4. ASSUME NEW r \in Rdids' \ Rdids
      PROVE  /\ \A new \in running' : new.rdid = r => new.op # "Squawk2" /\ new.sends # <<"RESPOND">>
             /\ \A p \in pipeline' : p.rdid # r
  <2>1. \A p \in pipeline' : p.rdid # r
    BY <1>4, PipelineSteps DEF TypeOK, Taken, Carries
  <2>2. ASSUME NEW new \in running', new.rdid = r
        PROVE  new.op # "Squawk2" /\ new.sends # <<"RESPOND">>
    <3>1. \E d \in Devices : processEyeball(d) /\ Begins(new, d)
      BY <1>4, <2>2, CallSteps DEF TypeOK, Sends, GoesOn
    <3>2. new.op \in DOMAIN Unsent /\ new.sends \in Unsent[new.op]
      BY TypesStay DEF TypeOK, Calls
    <3> QED
      BY <3>1, <3>2, AnswersAre DEF Begins, Answers
  <2> QED
    BY <2>1, <2>2
<1> QED
  BY <1>2, <1>3, <1>4 DEF OwnIsLater, Staged

-----------------------------------------------------------------------------
(* The row of a device that gets on.                                       *)

LEMMA ExcusedStays ==
  ASSUME TypeOK, Next, NEW r \in Rdids, Excused(r)
  PROVE  Excused(r)'
<1>1. CASE step[r] = "gone"
  BY <1>1, GoneStays DEF Excused
<1>2. CASE disconnecting \subseteq disconnecting' /\ orphaned \subseteq orphaned'
  BY <1>1, <1>2 DEF Excused
<1>3. CASE \E q \in disconnecting : Disconnects(q)
  <2> PICK q \in disconnecting : Disconnects(q)
    BY <1>3
  <2>1. q \in Rdids
    BY DEF TypeOK
  <2>2. orphaned' = orphaned /\ disconnecting' = disconnecting \ {q}
    BY DEF Disconnects, Plainly
  <2>3. step'[q] = "gone"
    BY <2>1, MoveOn DEF Disconnects, Frees, Places, leases
  <2> QED
    BY <1>1, <2>2, <2>3 DEF Excused
<1>4. CASE \E p \in pipeline : cleanPipeline(p)
  BY <1>2, <1>4 DEF cleanPipeline
<1>5. CASE \E q \in Rdids : dropAndForgetSensor(q)
  BY <1>2, <1>5 DEF dropAndForgetSensor, Plainly
<1>6. CASE \/ \E d \in Devices : processEyeball(d) \/ EyeballLost(d)
           \/ \E q \in Rdids :
                \/ processMock(q) \/ processPeacock(q) \/ processSquawkSensorReply(q)
                \/ processSquawkSensorChallenge(q) \/ processSquawkAcceptsChallenge(q)
                \/ processChirpData(q)
                \/ updateSensorStatus(q, "online") \/ updateSensorStatus(q, "stale")
                \/ PacketLost(q) \/ Leaves(q)
           \/ \E call \in running : xmitToRouter(call) \/ Ends(call) \/ Awaits(call)
           \/ \E p \in pipeline : Mate(p)
           \/ \E q \in departing : dropSensorFromNetwork(q) \/ DepartureLost(q)
  BY <1>2, <1>6 DEF processEyeball, EyeballLost, processMock, processPeacock,
       processSquawkSensorReply, processSquawkSensorChallenge, processSquawkAcceptsChallenge,
       processChirpData, updateSensorStatus, PacketLost, Leaves, xmitToRouter, Ends, Awaits, Mate,
       dropSensorFromNetwork, DepartureLost, Plainly
<1> QED
  BY <1>3, <1>4, <1>5, <1>6, Steps

LEMMA WasExpected ==
  ASSUME TypeOK, Next, NEW r \in Rdids, Expected(r)'
  PROVE  Expected(r)
BY WasNewest, ExcusedStays DEF Expected

(* How a row goes on, and what it takes to remove it.                      *)
Forgets(q, id) ==
  /\ dropAndForgetSensor(q) /\ q \in disconnecting'
  /\ id = IF HasRdid(q) # {} THEN TheId(HasRdid(q)) ELSE TheId(Staged(q))

Remains(new, row) ==
  /\ new.id = row.id /\ new.dev = row.dev
  /\ Shown(row) =>
       \/ Shown(new) /\ new.rdid = row.rdid
       \/ processEyeball(row.dev)
       \/ row.rdid \in departing
       \/ \E call \in running : /\ EndsNest(call) /\ row.id = call.id
                                /\ Shown(new) /\ new.rdid = call.rdid

LEMMA RowStays ==
  ASSUME TypeOK, Next, NEW row \in sensor
  PROVE  \/ \E new \in sensor' : Remains(new, row)
         \/ \E q \in Rdids : Forgets(q, row.id)
         \/ \E p \in pipeline : cleanPipeline(p) /\ row.id = p.id /\ ~ row.mated
<1>0. Remains(row, row)
  BY DEF Remains
<1>1. CASE sensor \subseteq sensor'
  BY <1>0, <1>1
<1>2. CASE \E d \in Devices : processEyeball(d)
  <2> PICK d \in Devices : processEyeball(d)
    BY <1>2
  <2>1. CASE Cardinality(Mated(d)) = 1
    <3>1. sensor' = Updated(Mated(d), LAMBDA x : [x EXCEPT !.status = "offline"])
      BY <2>1 DEF processEyeball
    <3>2. row \in sensor' \/ (row \in Mated(d) /\ [row EXCEPT !.status = "offline"] \in sensor')
      BY <3>1 DEF Updated
    <3>3. [row EXCEPT !.status = "offline"].id = row.id /\ [row EXCEPT !.status = "offline"].dev = row.dev
      BY DEF TypeOK, Rows
    <3>4. row \in Mated(d) => processEyeball(row.dev)
      BY DEF Mated
    <3>5. row \in Mated(d) => Remains([row EXCEPT !.status = "offline"], row)
      BY <3>3, <3>4 DEF Remains
    <3> QED
      BY <1>0, <3>2, <3>5
  <2>2. CASE Cardinality(Mated(d)) # 1
    BY <1>1, <2>2 DEF processEyeball
  <2> QED
    BY <2>1, <2>2
<1>3. CASE \E r \in Rdids : \E status \in {"online", "stale"} : updateSensorStatus(r, status)
  <2> PICK r \in Rdids, status \in {"online", "stale"} : updateSensorStatus(r, status)
    BY <1>3
  <2>1. row \in sensor' \/ [row EXCEPT !.status = status] \in sensor'
    BY DEF updateSensorStatus, Updated
  <2>2. /\ [row EXCEPT !.status = status].id = row.id /\ [row EXCEPT !.status = status].dev = row.dev
        /\ [row EXCEPT !.status = status].rdid = row.rdid
        /\ [row EXCEPT !.status = status].status = status
    BY DEF TypeOK, Rows
  <2>3. Remains([row EXCEPT !.status = status], row)
    BY <2>2 DEF Remains, Shown
  <2> QED
    BY <1>0, <2>1, <2>3
<1>4. CASE \E r \in departing : dropSensorFromNetwork(r)
  <2> PICK r \in departing : dropSensorFromNetwork(r)
    BY <1>4
  <2> DEFINE new == [row EXCEPT !.status = "offline", !.rdid = 0]
  <2>1. row \in sensor' \/ (row.rdid = r /\ new \in sensor')
    BY DEF dropSensorFromNetwork, takeSensorOffline, Updated, HasRdid
  <2>2. new.id = row.id /\ new.dev = row.dev
    BY DEF TypeOK, Rows
  <2>3. row.rdid = r => Remains(new, row)
    BY <2>2 DEF Remains
  <2> QED
    BY <1>0, <2>1, <2>3
<1>5. CASE \E call \in running : Ends(call)
  <2> PICK call \in running : Ends(call)
    BY <1>5
  <2>1. CASE call.op = "Nest"
    <3> DEFINE new == [row EXCEPT !.status = "online", !.mated = TRUE, !.rdid = call.rdid]
    <3>1. sensor' = Updated({x \in sensor : x.id = call.id},
                            LAMBDA x : [x EXCEPT !.status = "online", !.mated = TRUE,
                                                 !.rdid = call.rdid])
      BY <2>1 DEF Ends
    <3>2. row \in sensor' \/ (row.id = call.id /\ new \in sensor')
      BY <3>1 DEF Updated
    <3>3. new.id = row.id /\ new.dev = row.dev /\ new.status = "online" /\ new.rdid = call.rdid
      BY DEF TypeOK, Rows
    <3>4. row.id = call.id => Remains(new, row)
      BY <2>1, <3>3 DEF Remains, EndsNest, Shown
    <3> QED
      BY <1>0, <3>2, <3>4
  <2>2. CASE call.op # "Nest"
    BY <1>1, <2>2 DEF Ends
  <2> QED
    BY <2>1, <2>2
<1>6. CASE \E r \in Rdids : dropAndForgetSensor(r)
  <2> PICK r \in Rdids : dropAndForgetSensor(r)
    BY <1>6
  <2> DEFINE id == IF HasRdid(r) # {} THEN TheId(HasRdid(r)) ELSE TheId(Staged(r))
  <2>1. sensor' = sensor \/ (deleteSensorByID(id) /\ r \in disconnecting')
    BY DEF dropAndForgetSensor
  <2>2. row \in sensor' \/ (row.id = id /\ r \in disconnecting')
    BY <2>1 DEF deleteSensorByID
  <2> QED
    BY <1>0, <2>2 DEF Forgets
<1>7. CASE \E p \in pipeline : cleanPipeline(p)
  BY <1>0, <1>7 DEF cleanPipeline
<1>8. CASE \/ \E d \in Devices : EyeballLost(d)
           \/ \E r \in Rdids :
                \/ processMock(r) \/ processPeacock(r) \/ processSquawkSensorReply(r)
                \/ processSquawkSensorChallenge(r) \/ processSquawkAcceptsChallenge(r)
                \/ processChirpData(r) \/ PacketLost(r) \/ Leaves(r)
           \/ \E call \in running : xmitToRouter(call) \/ Awaits(call)
           \/ \E p \in pipeline : Mate(p)
           \/ \E r \in departing : DepartureLost(r)
           \/ \E r \in disconnecting : Disconnects(r)
  BY <1>1, <1>8 DEF EyeballLost, processMock, processPeacock, processSquawkSensorReply,
       processSquawkSensorChallenge, processSquawkAcceptsChallenge, processChirpData, PacketLost,
       Leaves, xmitToRouter, Awaits, Mate, DepartureLost, Disconnects, generateNest, tables
<1> QED
  BY <1>2, <1>3, <1>4, <1>5, <1>6, <1>7, <1>8, Steps

(* A device that says it does not know the server takes no row of another. *)
LEMMA ForgetsItsOwn ==
  ASSUME Claims, Next, NEW q \in Rdids, NEW row \in sensor, Forgets(q, row.id)
  PROVE  Newest(q) /\ row.dev = who[q] /\ q \in disconnecting'
<1>1. Newest(q) /\ q \in disconnecting' /\ q # 0
  BY LeaseTypes DEF Forgets, dropAndForgetSensor, At, Claims
<1>2. CASE HasRdid(q) # {}
  <2>1. PICK other \in HasRdid(q) : row.id = other.id
    BY <1>2, TheIdIs DEF Forgets
  <2>2. other = row
    BY <2>1 DEF HasRdid, Claims, IdsUnique
  <2> QED
    BY <1>1, <2>2 DEF HasRdid, Claims, RowRdids
<1>3. CASE HasRdid(q) = {}
  <2>1. row.id = TheId(Staged(q)) /\ row.id # 0
    BY <1>3 DEF Forgets, Claims, TypeOK, Rows
  <2>2. row.id \in Ids(q)
    BY <2>1, StagedId DEF Claims
  <2> QED
    BY <1>1, <2>2 DEF Claims, OwnRows
<1> QED
  BY <1>2, <1>3

Relations == Claims /\ UnderWay /\ OnTheWay

(* cleanPipeline removes a row of pipeline or of a sensor that is to come  *)
(* with the device's own, or the device is disconnected or orphaned.       *)
LEMMA NotCleaned ==
  ASSUME Claims, NEW r \in Rdids, ~ Excused(r)', NEW p \in pipeline, cleanPipeline(p)
  PROVE  /\ p.rdid # r
         /\ \A q \in pipeline : q.rdid = r => q.id # p.id
<1>1. r \notin disconnecting' /\ r \notin orphaned'
  BY DEF Excused
<1> QED
  BY <1>1 DEF cleanPipeline

LEMMA RowedStays ==
  ASSUME Relations, Next, NEW r \in Rdids', Expected(r)'
  PROVE  Rowed(r)'
<1> SUFFICES ASSUME NEW id \in Ids(r)', id # 0
             PROVE  \E new \in sensor' : new.id = id
  BY DEF Rowed, Live
<1>0. Claims /\ TypeOK
  BY DEF Relations, Claims
<1>1. CASE r \in Rdids
  <2>1. id \in Ids(r) /\ Expected(r) /\ Newest(r) /\ r \notin disconnecting'
    BY <1>0, <1>1, IdsSteps, WasExpected DEF Expected, Excused
  <2>2. PICK row \in sensor : row.id = id
    BY <1>1, <2>1 DEF Relations, OnTheWay, Rowed, Live
  <2>3. row.dev = who[r]
    BY <1>0, <1>1, <2>1, <2>2 DEF Claims, OwnRows
  <2>4. ~ \E q \in Rdids : Forgets(q, row.id)
    BY <1>0, <1>1, <2>1, <2>3, ForgetsItsOwn, SameNewest
  <2>5. ASSUME NEW p \in pipeline, cleanPipeline(p), row.id = p.id, ~ row.mated
        PROVE  FALSE
    <3>1. p.rdid \in Rdids /\ row.id \in Ids(p.rdid)
      BY <1>0, <2>5 DEF TypeOK, Ids, Staged
    <3>2. p.rdid = r
      BY <1>0, <1>1, <2>1, <2>2, <2>5, <3>1 DEF Claims, OwnRows
    <3> QED
      BY <1>0, <1>1, <2>5, <3>2, NotCleaned DEF Expected
  <2> QED
    BY <1>0, <2>2, <2>4, <2>5, RowStays DEF Remains
<1>2. CASE r \notin Rdids
  <2>1. PICK d \in Devices : /\ processEyeball(d)
                             /\ \/ Cardinality(Mated(d)) = 1 /\ id = TheId(Mated(d))
                                \/ Joins(d) /\ id = created'
    BY <1>0, <1>2, IdsSteps
  <2>2. CASE Joins(d) /\ id = created'
    <3>1. Joining(d) \in sensor' /\ Joining(d).id = id
      BY <2>2 DEF Joins, Joining
    <3> QED
      BY <3>1
  <2>3. CASE Cardinality(Mated(d)) = 1 /\ id = TheId(Mated(d))
    <3>1. PICK row \in sensor : row.id = id
      BY <1>0, <2>3, MatedId
    <3>2. sensor' = Updated(Mated(d), LAMBDA x : [x EXCEPT !.status = "offline"])
      BY <2>1, <2>3 DEF processEyeball
    <3>3. row \in sensor' \/ [row EXCEPT !.status = "offline"] \in sensor'
      BY <3>2 DEF Updated
    <3>4. [row EXCEPT !.status = "offline"].id = row.id
      BY <1>0 DEF TypeOK, Rows
    <3> QED
      BY <3>1, <3>3, <3>4
  <2> QED
    BY <2>1, <2>2, <2>3
<1> QED
  BY <1>1, <1>2

(* A row that replaces the ones of an rdid has an id.                      *)
LEMMA StagedNowId ==
  ASSUME Relations, Next, NEW r \in Rdids, Expected(r), NEW p \in pipeline', StagedNow(p), p.rdid = r
  PROVE  p.id # 0
<1>0. TypeOK /\ IdsGiven /\ WithIds(r)
  BY DEF Relations, Claims, UnderWay, OnTheWay
<1>1. IdsGiven'
  BY <1>0, IdsStayGiven
<1>2. CASE p.tx \in {"Peck", "Sing", "Squawk1", "Mock"}
  BY <1>1, <1>2 DEF IdsGiven
<1>3. CASE p.tx = "Squawk2"
  BY <1>0, <1>3 DEF StagedNow, WithIds
<1>4. CASE p.tx = "Squawk3"
  <2>1. StagedAs(r, "Squawk2") /\ p.id = TheId(Staged(r))
    BY <1>4 DEF StagedNow
  <2>2. PICK q \in Staged(r) : q.tx = "Squawk2"
    BY <2>1 DEF StagedAs
  <2>3. PICK q2 \in Staged(r) : TheId(Staged(r)) = q2.id
    BY <1>0, <2>2, StagedTypes
  <2>4. q2 = q
    BY <1>0, <2>2, <2>3 DEF IdsGiven, Staged
  <2> QED
    BY <1>0, <2>1, <2>2, <2>3, <2>4 DEF WithIds
<1>5. p.tx \in {"Peck", "Sing", "Squawk1", "Mock", "Squawk2", "Squawk3"}
  BY <1>0, TypesStay DEF TypeOK, Entries
<1> QED
  BY <1>2, <1>3, <1>4, <1>5

LEMMA KeepsStaged ==
  ASSUME Relations, Next, NEW r \in Rdids, Expected(r)', NEW q \in Staged(r), q.id # 0,
         \A call \in running : Ends(call) /\ call.rdid = r => call.op \notin {"Nest", "Denied"}
  PROVE  \E p \in Staged(r)' : p.id # 0
<1>0. Claims /\ TypeOK /\ Expected(r) /\ ~ Excused(r)'
  BY WasExpected DEF Relations, Claims, Expected
<1>1. q \in pipeline /\ q.rdid = r
  BY DEF Staged
<1>2. CASE q \in pipeline'
  BY <1>1, <1>2 DEF Staged
<1>3. CASE q \notin pipeline'
  <2>1. ~ \E p \in pipeline : cleanPipeline(p) /\ q.id = p.id
    BY <1>0, <1>1, NotCleaned
  <2>2. PICK p : StagedNow(p) /\ pipeline' = (pipeline \ Staged(p.rdid)) \cup {p}
    BY <1>0, <1>1, <1>3, <2>1, StagedSteps
  <2>3. p.rdid = r /\ p \in pipeline'
    BY <1>1, <1>3, <2>2 DEF Staged
  <2>4. p.id # 0
    BY <1>0, <2>2, <2>3, StagedNowId
  <2> QED
    BY <2>3, <2>4 DEF Staged
<1> QED
  BY <1>2, <1>3

LEMMA KeepsId ==
  ASSUME Relations, Next, NEW r \in Rdids, Expected(r)', NEW id \in Ids(r), id # 0,
         \A call \in running : Ends(call) /\ call.rdid = r => call.op \notin {"Nest", "Denied"}
  PROVE  \E now \in Ids(r)' : now # 0
<1>0. TypeOK /\ IdsGiven
  BY DEF Relations, Claims, UnderWay
<1>1. CASE \E q \in Staged(r) : q.id = id
  <2>1. \E p \in Staged(r)' : p.id # 0
    BY <1>1, KeepsStaged
  <2> QED
    BY <2>1 DEF Ids
<1>2. CASE \E call \in running : call.rdid = r /\ call.id = id
  <2> PICK call \in running : call.rdid = r /\ call.id = id
    BY <1>2
  <2>1. call.op \notin {"Await", "end"}
    BY <1>0 DEF IdsGiven
  <2>2. CASE \E new \in running' : GoesOn(new, call)
    <3> PICK new \in running' : GoesOn(new, call)
      BY <2>2
    <3>1. new.id \in Ids(r)' /\ new.id # 0
      BY DEF GoesOn, Ids
    <3> QED
      BY <3>1
  <2>3. CASE Ends(call)
    <3>1. call.op \notin {"Nest", "Denied", "Await", "end"}
      BY <2>1, <2>3
    <3>2. updatePipeline(r, id, call.op)
      BY <2>3, <3>1 DEF Ends
    <3> DEFINE p == [rdid |-> r, id |-> id, tx |-> call.op]
    <3>3. p \in Staged(r)'
      BY <3>2 DEF updatePipeline, Staged
    <3>4. p.id \in Ids(r)' /\ p.id = id
      BY <3>3 DEF Ids
    <3> QED
      BY <3>4
  <2> QED
    BY <1>0, <2>1, <2>2, <2>3, CallLeaves
<1> QED
  BY <1>1, <1>2 DEF Ids

LEMMA NamedStays ==
  ASSUME Relations, Next, NEW r \in Rdids', Expected(r)'
  PROVE  Named(r)'
<1> DEFINE S == {"sing", "challenge", "mock", "peacock", "reply", "accept"}
<1> SUFFICES ASSUME step'[r] \in S
             PROVE  \E id \in Ids(r)' : id # 0
  BY DEF Named
<1>0. TypeOK /\ IdsGiven /\ CallPlaces
  BY DEF Relations, Claims, UnderWay
<1>1. r \in Rdids
  BY <1>0, LeaseSteps DEF StartsOver
<1>2. Expected(r) /\ Named(r) /\ WithIds(r)
  BY <1>0, <1>1, WasExpected DEF Relations, OnTheWay
<1>3. \E id \in Ids(r) : id # 0
  <2>1. CASE step[r] \in S
    BY <1>2, <2>1 DEF Named
  <2>2. CASE step[r] \notin S
    <3>1. ~ (<<step[r], step'[r]>> \in OwnMoves)
      BY <2>2 DEF OwnMoves
    <3>2. PICK call \in running : /\ xmitToRouter(call) /\ call.rdid = r
                                  /\ <<step[r], step'[r]>> = Moves[Head(call.sends)]
      BY <1>0, <1>1, <2>2, <3>1, PlaceSteps
    <3>3. /\ call \in Calls /\ call.sends \in Unsent[call.op] /\ call.sends # <<>>
          /\ call.id \in Ids(r)
      BY <1>0, <3>2 DEF TypeOK, xmitToRouter, Ids
    <3>4. Head(call.sends) \in {"PECK_MATE", "PECK_RECOGNIZED", "RESPOND"}
      <4>1. Head(call.sends) \in DOMAIN Moves
        BY <3>3, OneLess
      <4> QED
        BY <2>2, <3>2, <4>1 DEF Moves
    <3>5. CASE call.op \in {"Peck", "Sing", "Squawk1"}
      BY <1>0, <3>3, <3>5 DEF IdsGiven
    <3>6. CASE call.sends = <<"RESPOND">>
      <4>1. \E p \in Staged(r) : p.id # 0
        BY <1>2, <3>2, <3>6 DEF WithIds
      <4> QED
        BY <4>1 DEF Ids
    <3> QED
      BY <3>3, <3>4, <3>5, <3>6, OneLess
  <2> QED
    BY <2>1, <2>2
<1>4. ASSUME NEW call \in running, Ends(call), call.rdid = r
      PROVE  call.op \notin {"Nest", "Denied"}
  <2>1. step'[r] = step[r]
    BY <1>4 DEF Ends, leases
  <2> QED
    BY <1>0, <1>4, <2>1 DEF CallPlaces
<1> QED
  BY <1>1, <1>3, <1>4, KeepsId

LEMMA WithIdsStays ==
  ASSUME Relations, Next, NEW r \in Rdids', Expected(r)'
  PROVE  WithIds(r)'
<1>0. TypeOK /\ IdsGiven /\ CallPlaces /\ OwnIsLater /\ OneAnswer
  BY DEF Relations, Claims, UnderWay
<1>1. TypeOK' /\ IdsGiven' /\ CallPlaces' /\ OwnIsLater'
  BY <1>0, TypesStay, IdsStayGiven, CallPlacesStay, OwnStaysLater
<1>2. CASE r \notin Rdids
  <2>1. step'[r] = "peck"
    BY <1>0, <1>2, LeaseSteps DEF StartsOver
  <2>2. Unproven(r)'
    BY <2>1 DEF Unproven
  <2>3. /\ \A call \in running' : call.rdid = r => call.op # "Squawk2" /\ call.sends # <<"RESPOND">>
        /\ \A p \in Staged(r)' : p.tx \notin {"Squawk2", "Squawk3"}
    BY <1>1, <2>2 DEF OwnIsLater
  <2>4. \A call \in running' : call.rdid = r => call.op # "Nest"
    BY <1>1, <2>1 DEF CallPlaces
  <2> QED
    BY <2>3, <2>4 DEF WithIds
<1>3. CASE r \in Rdids
  <2>0. Expected(r) /\ Named(r) /\ WithIds(r) /\ step[r] # "gone"
    <3>1. step'[r] # "gone"
      BY DEF Expected, Excused
    <3> QED
      BY <1>0, <1>3, <3>1, WasExpected, GoneStays DEF Relations, OnTheWay
  <2>1. ASSUME NEW p \in Staged(r)', p.tx \in {"Squawk2", "Squawk3"}
        PROVE  p.id # 0
    <3>1. p \in pipeline' /\ p.rdid = r
      BY DEF Staged
    <3>2. p \in pipeline \/ StagedNow(p)
      BY <1>0, <3>1, StagedSteps
    <3>3. p \in pipeline => p \in Staged(r)
      BY <3>1 DEF Staged
    <3> QED
      BY <1>3, <2>0, <2>1, <3>1, <3>2, <3>3, StagedNowId DEF WithIds
  <2>2. ASSUME NEW new \in running', new.rdid = r, new.sends = <<"RESPOND">>
        PROVE  \E p \in Staged(r)' : p.id # 0
    <3>0. Answers(new) /\ new.op \in {"end", "Await"} /\ new.sends # <<"PECK_REFUSED">>
      <4>1. new.op \in DOMAIN Unsent /\ new.sends \in Unsent[new.op]
        BY <1>1 DEF TypeOK, Calls
      <4>2. Answers(new)
        BY <2>2 DEF Answers
      <4>3. <<"RESPOND">> # <<"PECK_REFUSED">>
        OBVIOUS
      <4> QED
        BY <2>2, <4>1, <4>2, <4>3, AnswersAre
    <3>1. CASE new \in running
      <4>1. PICK q \in Staged(r) : q.id # 0
        BY <2>0, <2>2, <3>1 DEF WithIds
      <4>2. ASSUME NEW call \in running, Ends(call), call.rdid = r
            PROVE  call.op \notin {"Nest", "Denied"}
        <5>1. step[r] = "respond"
          BY <2>0, <2>2, <3>0, <3>1, <1>0 DEF CallPlaces
        <5>2. call.op # "Denied"
          BY <1>0, <1>3, <2>2, <3>1, <4>2 DEF OwnIsLater, Unproven, HasCall
        <5> QED
          BY <1>0, <4>2, <5>1, <5>2 DEF CallPlaces
      <4> QED
        BY <1>3, <4>1, <4>2, KeepsStaged
    <3>2. CASE Begun(new) /\ new.op = "end"
      <4>1. updatePipeline(r, TheId(Staged(r)), "Squawk3")
        BY <2>2, <3>2 DEF Begun
      <4> DEFINE p == [rdid |-> r, id |-> TheId(Staged(r)), tx |-> "Squawk3"]
      <4>2. p \in Staged(r)'
        BY <4>1 DEF updatePipeline, Staged
      <4> QED
        BY <2>1, <4>2
    <3>3. CASE Begun(new) /\ new.op = "Await"
      <4>1. <<>> # <<"RESPOND">>
        OBVIOUS
      <4> QED
        BY <2>2, <3>3, <4>1 DEF Begun
    <3> QED
      BY <1>0, <3>0, <3>1, <3>2, <3>3, CallSteps DEF Sends, Begins
  <2>3. ASSUME NEW new \in running', new.rdid = r, new.op \in {"Nest", "Squawk2"}
        PROVE  new.id # 0
    <3>1. CASE new \in running \/ \E call \in running : Sends(new, call)
      BY <2>0, <2>3, <3>1 DEF WithIds, Sends, GoesOn
    <3>2. ASSUME NEW q \in Staged(r), q.id # 0
          PROVE  TheId(Staged(r)) # 0
      <4>1. PICK q2 \in Staged(r) : TheId(Staged(r)) = q2.id
        BY <1>0, <3>2, StagedTypes
      <4> QED
        BY <1>0, <3>2, <4>1 DEF IdsGiven, Staged
    <3>3. CASE Begun(new) /\ processPeacock(r) /\ StagedAs(r, "Mock")
      <4>1. PICK q \in Staged(r) : q.tx = "Mock"
        BY <3>3 DEF StagedAs
      <4>2. q.id # 0
        BY <1>0, <4>1 DEF IdsGiven, Staged
      <4> QED
        BY <2>3, <3>2, <3>3, <4>2 DEF Begun
    <3>4. CASE Begun(new) /\ (processSquawkSensorReply(r) \/ processSquawkAcceptsChallenge(r))
      <4>1. Settled(who[r]) /\ step[r] \in {"reply", "accept"}
        BY <3>4 DEF processSquawkSensorReply, processSquawkAcceptsChallenge, At
      <4>2. PICK id \in Ids(r) : id # 0
        BY <2>0, <4>1 DEF Named
      <4>3. \A call \in running : call.rdid = r => call.id = 0
        BY <1>0, <4>1 DEF Settled, IdsGiven
      <4>4. \E q \in Staged(r) : q.id # 0
        BY <4>2, <4>3 DEF Ids
      <4> QED
        BY <2>3, <3>2, <3>4, <4>4 DEF Begun
    <3>5. CASE new.rdid \in Rdids /\ Begun(new)
      BY <2>3, <3>3, <3>4, <3>5 DEF Begun
    <3> QED
      BY <1>0, <2>3, <3>1, <3>5, CallSteps DEF Begins
  <2> QED
    BY <2>1, <2>2, <2>3 DEF WithIds
<1> QED
  BY <1>2, <1>3

LEMMA LetInStays ==
  ASSUME Relations, Next, NEW r \in Rdids', Expected(r)'
  PROVE  LetIn(r)'
<1> SUFFICES ASSUME step'[r] = "nested"
             PROVE  \/ \E new \in sensor' : new.rdid = r /\ new.dev = who'[r] /\ Shown(new)
                    \/ \E new \in running' : new.rdid = r /\ new.op = "Nest"
  BY DEF LetIn, HasRdid, HasCall, Shown
<1>0. Claims /\ TypeOK /\ CallPlaces
  BY DEF Relations, Claims, UnderWay
<1>1. r \in Rdids
  BY <1>0, LeaseSteps DEF StartsOver
<1>2. /\ Expected(r) /\ Rowed(r) /\ WithIds(r) /\ LetIn(r)
      /\ Newest(r) /\ r \notin disconnecting' /\ who'[r] = who[r]
  BY <1>0, <1>1, WasExpected, Grows DEF Relations, OnTheWay, Expected, Excused
<1>3. ASSUME NEW call \in running, call.rdid = r, call.op = "Nest"
      PROVE  \/ \E new \in sensor' : new.rdid = r /\ new.dev = who'[r] /\ Shown(new)
             \/ \E new \in running' : new.rdid = r /\ new.op = "Nest"
  <2>1. CASE \E new \in running' : GoesOn(new, call)
    BY <1>3, <2>1 DEF GoesOn
  <2>2. CASE Ends(call)
    <3>1. call.id # 0 /\ call.id \in Ids(r)
      BY <1>2, <1>3 DEF WithIds, Ids
    <3>2. PICK row \in sensor : row.id = call.id
      BY <1>2, <3>1 DEF Rowed, Live
    <3>3. row.dev = who[r]
      BY <1>0, <1>1, <3>1, <3>2 DEF Claims, OwnRows
    <3> DEFINE new == [row EXCEPT !.status = "online", !.mated = TRUE, !.rdid = call.rdid]
    <3>4. sensor' = Updated({x \in sensor : x.id = call.id},
                            LAMBDA x : [x EXCEPT !.status = "online", !.mated = TRUE,
                                                 !.rdid = call.rdid])
      BY <1>3, <2>2 DEF Ends
    <3>5. new \in sensor'
      BY <3>2, <3>4 DEF Updated
    <3>6. new.rdid = r /\ new.dev = row.dev /\ new.status = "online"
      BY <1>0, <1>3 DEF TypeOK, Rows
    <3> QED
      BY <1>2, <3>3, <3>5, <3>6 DEF Shown
  <2> QED
    BY <1>0, <1>3, <2>1, <2>2, CallLeaves
<1>4. ASSUME NEW row \in sensor, row.rdid = r, row.dev = who[r], Shown(row)
      PROVE  \/ \E new \in sensor' : new.rdid = r /\ new.dev = who'[r] /\ Shown(new)
             \/ \E new \in running' : new.rdid = r /\ new.op = "Nest"
  <2>1. row.mated
    BY <1>0, <1>4 DEF Claims, OnlineIsLeased, Shown
  <2>2. ~ \E q \in Rdids : Forgets(q, row.id)
    BY <1>0, <1>1, <1>2, <1>4, ForgetsItsOwn, SameNewest
  <2>3. PICK new \in sensor' : Remains(new, row)
    BY <1>0, <2>1, <2>2, RowStays
  <2>4. ~ processEyeball(row.dev)
    <3>1. ASSUME processEyeball(who[r])
          PROVE  FALSE
      <4>1. who' = Append(who, who[r]) /\ step' = Append(step, "peck") /\ who[r] \in Devices
        BY <1>0, <1>1, <3>1, LeaseTypes DEF processEyeball
      <4>2. who'[Len(who) + 1] = who'[r] /\ Len(who) + 1 \in Rdids' /\ Len(who) + 1 > r
        BY <1>0, <1>1, <1>2, <4>1, NewLease, LeaseTypes
      <4> QED
        BY <4>2 DEF Expected, Newest
    <3> QED
      BY <1>4, <3>1
  <2>5. row.rdid \notin departing
    <3>1. step'[r] # "gone"
      OBVIOUS
    <3> QED
      BY <1>0, <1>1, <1>4, <3>1, GoneStays DEF CallPlaces
  <2>6. CASE Shown(new) /\ new.rdid = row.rdid
    BY <1>2, <1>4, <2>3, <2>6 DEF Remains
  <2>7. ASSUME NEW call \in running, EndsNest(call), row.id = call.id, Shown(new),
               new.rdid = call.rdid
        PROVE  new.rdid = r /\ new.dev = who'[r]
    <3>1. call.rdid \in Rdids /\ call.id \in Ids(call.rdid) /\ Newest(call.rdid)
      BY <1>0, <2>7 DEF TypeOK, Ids, EndsNest, Claims, NestIsNewest
    <3>2. row.dev = who[call.rdid]
      BY <1>0, <2>7, <3>1 DEF Claims, OwnRows
    <3>3. call.rdid = r
      BY <1>0, <1>1, <1>2, <1>4, <3>1, <3>2, SameNewest
    <3> QED
      BY <1>2, <1>4, <2>3, <2>7, <3>3 DEF Remains
  <2> QED
    BY <1>4, <2>3, <2>4, <2>5, <2>6, <2>7 DEF Remains
<1>5. CASE step[r] = "nested"
  BY <1>2, <1>3, <1>4, <1>5 DEF LetIn, HasRdid, HasCall
<1>6. CASE step[r] # "nested"
  <2>1. ~ (<<step[r], step'[r]>> \in OwnMoves)
    BY DEF OwnMoves
  <2>2. PICK call \in running : /\ xmitToRouter(call) /\ call.rdid = r
                                /\ <<step[r], step'[r]>> = Moves[Head(call.sends)]
    BY <1>0, <1>1, <1>6, <2>1, PlaceSteps
  <2>3. call \in Calls /\ call.sends \in Unsent[call.op] /\ call.sends # <<>>
    BY <1>0, <2>2 DEF TypeOK, xmitToRouter
  <2>4. Head(call.sends) \in DOMAIN Moves
    BY <2>3, OneLess
  <2>5. Head(call.sends) = "NEST"
    BY <2>2, <2>4 DEF Moves
  <2>6. call.op = "Nest"
    BY <2>3, <2>5, OneLess
  <2> QED
    BY <1>3, <2>2, <2>6
<1> QED
  BY <1>5, <1>6

LEMMA InitRelations == Init => Relations
<1> SUFFICES ASSUME Init
             PROVE  Relations
  OBVIOUS
<1>1. Claims
  BY InitClaims
<1>2. Rdids = {} /\ running = {} /\ pipeline = {} /\ departing = {}
  BY DEF Init, Rdids
<1> QED
  BY <1>1, <1>2 DEF Relations, UnderWay, IdsGiven, OneAnswer, CallPlaces, OwnIsLater, OnTheWay

LEMMA RelationsStay ==
  ASSUME Relations, [Next]_vars
  PROVE  Relations'
<1>1. CASE Next
  <2>1. Claims'
    BY ClaimsStay DEF Relations
  <2>2. UnderWay'
    BY <1>1, IdsStayGiven, AnswerStaysOne, CallPlacesStay, OwnStaysLater
       DEF Relations, Claims, UnderWay
  <2>3. OnTheWay'
    BY <1>1, RowedStays, NamedStays, WithIdsStays, LetInStays DEF OnTheWay
  <2> QED
    BY <2>1, <2>2, <2>3 DEF Relations
<1>2. CASE UNCHANGED vars
  <2>1. Claims'
    BY ClaimsStay DEF Relations
  <2>2. UnderWay'
    BY <1>2 DEF vars, tables, leases, Relations, UnderWay, IdsGiven, OneAnswer, CallPlaces,
         OwnIsLater, Unproven, HasCall, Answers, Staged, Rdids
  <2>3. OnTheWay'
    BY <1>2 DEF vars, tables, leases, Relations, OnTheWay, Rowed, Named, WithIds, LetIn, Expected,
         Newest, Excused, Live, Ids, Staged, HasRdid, HasCall, Shown, Rdids
  <2> QED
    BY <2>1, <2>2, <2>3 DEF Relations
<1> QED
  BY <1>1, <1>2

LEMMA AlwaysRelations == Spec => []Relations
BY InitRelations, RelationsStay, PTL DEF Spec

-----------------------------------------------------------------------------
(* The theorems.                                                           *)

(* The tables hold rows of their types, ids and rdids that were given, and *)
(* every call has still to send what its operation sends.                  *)
THEOREM TypeCorrect == Spec => []TypeOK
<1>1. Relations => TypeOK
  BY DEF Relations, Claims
<1> QED
  BY <1>1, AlwaysRelations, PTL

(* The ids under way for an rdid are of one sensor of the device the rdid  *)
(* was leased to, and a sensor that is to come is claimed by one rdid only *)
(* (the rows the calls leave in the table pipeline).                      *)
THEOREM ClaimsAreOwn == Spec => [](ClaimsAgree /\ OwnRows)
<1>1. Relations => ClaimsAgree /\ OwnRows
  BY DEF Relations, Claims
<1> QED
  BY <1>1, AlwaysRelations, PTL

(* A chirp is stored with the device that sent it.                         *)
THEOREM ChirpsAreStoredForSender == Spec => []StoredForSender
<1>1. Relations => StoredForSender
  BY DEF Relations, Claims
<1> QED
  BY <1>1, AlwaysRelations, PTL

(* What is shown as online or stale has mated, and its lease lasts or its  *)
(* end has not been taken in.                                              *)
THEOREM OnlineHasLease == Spec => []OnlineIsLeased
<1>1. Relations => OnlineIsLeased
  BY DEF Relations, Claims
<1> QED
  BY <1>1, AlwaysRelations, PTL

(* A device is mated as one sensor.                                        *)
THEOREM OneMatedRow == Spec => []MatedOnce
<1>1. Relations => MatedOnce
  BY DEF Relations, Claims
<1> QED
  BY <1>1, AlwaysRelations, PTL

(* A device that was let in is shown once the server is done with it.      *)
THEOREM NestedIsShown == Spec => []NestedIsOnline
<1>1. ASSUME Relations
      PROVE  NestedIsOnline
  <2> SUFFICES ASSUME NEW r \in Rdids, At(r, "nested"), ~ Pending(r), r \notin orphaned
               PROVE  \E row \in HasRdid(r) : row.dev = who[r] /\ Shown(row)
    BY DEF NestedIsOnline, Shown
  <2>1. Expected(r)
    BY DEF At, Pending, Expected, Excused
  <2>2. LetIn(r) /\ step[r] = "nested"
    BY <1>1, <2>1 DEF Relations, OnTheWay, At
  <2>3. ~ HasCall(r, {"Nest"})
    BY DEF Pending, HasCall
  <2> QED
    BY <2>2, <2>3 DEF LetIn
<1> QED
  BY <1>1, AlwaysRelations, PTL

=============================================================================
