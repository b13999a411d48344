------------------------------ MODULE MCNttRun ------------------------------
(***************************************************************************)
(* Every monomial in the portable backend, alone and in dot products of    *)
(* one, two and four others.  The vector backends take one monomial of     *)
(* each vector of eight lanes, in every lane in turn, and the assembly     *)
(* four: what it computes is a matter of its terms, not of the values.     *)
(***************************************************************************)
EXTENDS NttAsmRun

EachVector == {8 * n + ((n + n \div 8) % 8) : n \in Vectors}

MCExponents == [generic |-> Index, avx2 |-> EachVector, neon |-> EachVector,
                neon_asm |-> {0, 77, 128, 255}]
MCProducts == {<<>>, <<0>>, <<1, 255>>, <<255, 128, 2, 2>>}
=============================================================================
