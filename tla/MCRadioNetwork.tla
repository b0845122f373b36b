--------------------------- MODULE MCRadioNetwork ---------------------------
(* RadioNetwork for TLC: one sensor and a bad line, and two that the       *)
(* router must tell apart.  The sensors are model values, interchangeable. *)
EXTENDS RadioNetwork, TLC

MCWorlds == {<<{s}, 2>> : s \in Sensors} \cup {<<Sensors, 0>>}
SensorSymmetry == Permutations(Sensors)
=============================================================================
