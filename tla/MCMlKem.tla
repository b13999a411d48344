------------------------------ MODULE MCMlKem ------------------------------
(***************************************************************************)
(* MlKem for TLC: two key-generation seeds, two messages, one rejection    *)
(* seed.  Decrypting under another key yields m1, which is sometimes the   *)
(* encrypted message and sometimes not.  Nothing orders the seeds, so they *)
(* are interchangeable.                                                    *)
(***************************************************************************)
EXTENDS MlKem, TLC
CONSTANT m1
MCGarble(s, c) == m1
SeedSymmetry == Permutations(Seeds)
=============================================================================
