------------------------------ MODULE DeviceAuth ------------------------------
(***************************************************************************)
(* auth_status.c: where one device is in the authentication sequence, and  *)
(* which packets it may send next.  A general payload type is a bit in the *)
(* code and a string here; a mask of bits is a set of them, so that        *)
(* SG_DEVSTATUS_NULL is the empty set.                                     *)
(***************************************************************************)

EXTENDS Integers

Statuses == {"HATCHING", "FLYING", "EYEBALLING", "PECKING", "SINGING",
             "MOCKING", "PEACOCKING", "NESTING", "SQUAWKING", "HEARTBEAT",
             "CHIRPING", "LEASED"}

Strictnesses == {"ERROR", "LOOSE", "FILTERED", "STRICT"}

deviceAuthInit(strictness) ==
  [auth_place |-> {}, next_expected_packet |-> {}, strictness |-> strictness]

(* deviceAuthEnable, deviceAuthEnableFiltered and deviceAuthEnableLoosely  *)
(* differ in the level only.                                               *)
deviceAuthEnable(auth, level) == [auth EXCEPT !.strictness = level]

deviceAuthSetNextGeneralPayload(auth, gdt) ==
  [auth EXCEPT !.next_expected_packet = gdt]

deviceAuthSetCurrentGeneralPayload(auth, gdt) == [auth EXCEPT !.auth_place = gdt]

(* Is gdt what the sequence asks for?  A leased device may chirp and       *)
(* answer heartbeats.                                                      *)
Expected(auth, gdt) ==
  \/ /\ auth.next_expected_packet = {"LEASED"}
     /\ gdt \cap {"CHIRPING", "HEARTBEAT"} # {}
  \/ auth.next_expected_packet \cap gdt # {}

(* Returned: 1 valid, 0 not valid, -1 error.  In loose mode the test       *)
(* "auth_place & SG_DEVSTATUS_NULL" is a test with 0, so all is valid.     *)
deviceAuthIsGeneralPayloadTypeValid(auth, gdt) ==
  CASE auth.strictness = "ERROR" -> -1
    [] auth.strictness = "LOOSE" -> 1
    [] auth.strictness \in {"FILTERED", "STRICT"} ->
         IF Expected(auth, gdt) THEN 1 ELSE 0
=============================================================================
