----------------------------- MODULE FieldSweep -----------------------------
(***************************************************************************)
(* Every i16 in turn, as the representative the field's operations get.    *)
(***************************************************************************)
EXTENDS ZetaTables

CONSTANTS
  Depths, \* the d of Compress_d and Decompress_d
  Highs   \* bit patterns of the upper halves of the sums that are reduced

ASSUME SweepAssumption == Depths \in SUBSET (1 .. 12) /\ Highs \in SUBSET UInt16

VARIABLE x

TypeOK == x \in Int16
Init == x = -32768
Next == x < 32767 /\ x' = x + 1
Spec == Init /\ [][Next]_x

-----------------------------------------------------------------------------
\* Barrett reduction is exact and centred for every i16, the most negative one
\* included, where the product with q wraps (src/src/algebraic/field.rs:136).
ReduceIsExact ==
  /\ Barrett(x) \in -1664 .. 1664
  /\ Congruent(Barrett(x), x)
  /\ Value(x) = x % Q

\* The reduction of hi * 2^16 + lo is the sum times R^-1 modulo q.
SumReduced(hi, lo) == Congruent(FromProductSum(hi, lo) * MONT_R, hi * MONT_R + lo)

\* The upper halves of sums of up to 12 q^2 in magnitude, and 1.2 q.
ProductHighs == -2030 .. 2029
EntryBound == -3994 .. 3994

\* A sum of raw products of up to 12 q^2 in magnitude, an upper half of -2030
\* to 2029, is reduced to sum * R^-1, R = 2^16, and stays within the 1.2 q that
\* the inverse transform and to_montgomery count on
\* (src/src/algebraic/field.rs:168-180).
SumsReduceExactly ==
  \A h \in Highs :
    Wrap16(h) \in ProductHighs =>
      /\ SumReduced(Wrap16(h), Low(x))
      /\ FromProductSum(Wrap16(h), Low(x)) \in EntryBound

\* A butterfly's product with any zeta of the table is exact and below q in
\* magnitude for every i16 (src/src/algebraic/field.rs:182-195).
ConstMulIsExact ==
  \A k \in DOMAIN ZETA_RAW :
    LET r == BarrettConstMul(x, ZETA_RAW[k])
    IN Congruent(r, x * ZETA_RAW[k]) /\ r \in -3328 .. 3328

\* new is exact for every u16, the 12-bit fields above q included
\* (src/src/algebraic/field.rs:60-72).
NewIsExact == New(x + 32768) = (x + 32768) % Q

\* Compress_d rounds to the nearest multiple, halves up, and Decompress_d is
\* off by half a step of d bits at most (FIPS 203 equations 4.7 and 4.8,
\* src/src/algebraic/field.rs:197-225).
CompressRounds ==
  \A d \in Depths :
    /\ Compress(x, d) = ((Value(x) * 2^(d + 1) + Q) \div (2 * Q)) % 2^d
    /\ LET off == Barrett(Decompress(Compress(x, d), d) - Value(x))
           most == (Q + 2^d) \div 2^(d + 1)
       IN off \in -most .. most
=============================================================================
