--------------------------- MODULE HeartbeatWatch ---------------------------
(***************************************************************************)
(* A device under the heartbeat thread and the payload handlers, together  *)
(* with what somebody who only sees the values returned by hbDecrement and *)
(* hbRefresh knows about it: the server, which is told of every change.    *)
(***************************************************************************)
EXTENDS Heartbeat

CONSTANT MaxPing  \* bound on the threshold hbInit is called with

ASSUME MaxPingAssumption == MaxPing \in Nat \ {0}

VARIABLES
  watched,   \* the HeartbeatStatus of the device
  known,     \* the status that follows from the values returned so far
  silence    \* pings since the device was last heard

watchVars == <<watched, known, silence>>

(* The defaults are PING_THRESHOLD 8 and STALE_THRESHOLD 4.                *)
WatchInit ==
  \E ping \in 1 .. MaxPing, stale \in 1 .. MaxPing :
    /\ stale <= ping
    /\ watched = hbInit(ping, stale)
    /\ known = {}
    /\ silence = 0

Decrement ==
  /\ watched' = Pinged(watched)
  /\ known' = Xor(known, hbDecrement(watched))
  /\ silence' = IF silence < watched.ping_thres THEN silence + 1 ELSE silence

Refresh ==
  /\ watched' = Heard(watched)
  /\ known' = Xor(known, hbRefresh(watched))
  /\ silence' = 0

WatchNext == Decrement \/ Refresh

WatchSpec == WatchInit /\ [][WatchNext]_watchVars

-----------------------------------------------------------------------------
(* Types, and the thresholds WatchInit allows.                             *)
WatchTypeOK ==
  /\ watched \in [device_health : 0 .. MaxPing, stale_thres : 1 .. MaxPing,
                  ping_thres : 1 .. MaxPing]
  /\ watched.stale_thres <= watched.ping_thres
  /\ known \in SUBSET {1, 2}
  /\ silence \in 0 .. watched.ping_thres

(* Whoever follows the returned values knows the status of the device at   *)
(* all times: every change is returned by exactly one call, and a call     *)
(* that changes nothing returns nothing (heartbeat.c:170-217).             *)
ReturnsTellStatus == known = Status(watched)

(* A device is lost after exactly ping_thres pings without an answer, and  *)
(* stale after stale_thres of them, never earlier and never later          *)
(* (heartbeat.c:110-112, hbInit).                                          *)
LostAndStaleOnTime ==
  /\ 2 \in Status(watched) <=> silence = watched.ping_thres
  /\ 1 \in Status(watched) <=> silence >= watched.stale_thres
=============================================================================
