--------------------------- MODULE VectorBackends ---------------------------
(***************************************************************************)
(* The ring kernels of the two vector backends, side by side.              *)
(***************************************************************************)
EXTENDS Ntt

A == INSTANCE Avx2Ring
N == INSTANCE NeonRing
=============================================================================
