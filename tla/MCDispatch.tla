----------------------------- MODULE MCDispatch -----------------------------
(* Dispatch for TLC: threads and packets are model values; the packets are *)
(* interchangeable, the threads are not (one both produces and consumes).  *)
EXTENDS Dispatch, TLC

PacketSymmetry == Permutations(Message)
=============================================================================
