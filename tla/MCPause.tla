------------------------------ MODULE MCPause ------------------------------
(* Two pauses that may be told apart by nothing but what they have read. *)
EXTENDS Pause, TLC

MCSymmetry == Permutations(Pausers)
=============================================================================
