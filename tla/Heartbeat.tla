------------------------------ MODULE Heartbeat ------------------------------
(***************************************************************************)
(* heartbeat.c: the health of one device.  The health starts at            *)
(* ping_thres, drops by one for every ping, goes back up when the device   *)
(* is heard.  A status is the set of the bits the code computes: 1 for     *)
(* stale, 2 for lost; the value of a call is the exclusive or of the       *)
(* status before and after it.                                             *)
(***************************************************************************)
EXTENDS Integers

hbInit(ping, stale) ==
  [device_health |-> ping, stale_thres |-> stale, ping_thres |-> ping]

(* Mutant of hbIsDeviceStale: stale one ping too late.                     *)
hbIsDeviceStaleLate(hb) == hb.device_health < hb.ping_thres - hb.stale_thres

hbIsDeviceStale(hb) == hb.device_health <= hb.ping_thres - hb.stale_thres

hbIsDeviceLost(hb) == hb.device_health <= 0

Status(hb) ==
  {bit \in {1, 2} : IF bit = 1 THEN hbIsDeviceStale(hb) ELSE hbIsDeviceLost(hb)}

(* Mutant of Xor: only the bits that were set are reported.                *)
XorSetOnly(before, after) == after \ before

Xor(before, after) == (before \ after) \cup (after \ before)

(* Mutant of Pinged: the health is never stopped at zero.                  *)
PingedBelowZero(hb) == [hb EXCEPT !.device_health = @ - 1]

Pinged(hb) ==
  [hb EXCEPT !.device_health = IF @ > 0 THEN @ - 1 ELSE @]

Heard(hb) == [hb EXCEPT !.device_health = hb.ping_thres]

(* What hbDecrement and hbRefresh return.                                  *)
hbDecrement(hb) == Xor(Status(hb), Status(Pinged(hb)))
hbRefresh(hb)   == Xor(Status(hb), Status(Heard(hb)))
=============================================================================
