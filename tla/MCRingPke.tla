----------------------------- MODULE MCRingPke -----------------------------
(***************************************************************************)
(* The three parameter sets.                                               *)
(***************************************************************************)
EXTENDS RingPke

MCParameterSets == {MLKEM512, MLKEM768, MLKEM1024}
=============================================================================
