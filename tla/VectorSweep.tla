---------------------------- MODULE VectorSweep ----------------------------
(***************************************************************************)
(* The sweep of FieldSweep, with the lane kernels of both vector backends  *)
(* on each sixteen adjacent i16 of it.                                     *)
(***************************************************************************)
EXTENDS FieldSweep, VectorBackends

\* The factors whose Montgomery products are compared: the scale of the inverse
\* transform, and the extremes of a centred, a canonical and any i16.
ProductFactors == {1441, -1664, 3328, -32768}

Sixteen == [l \in 0 .. 15 |-> x + l]
Eight(part) == [l \in 0 .. 7 |-> x + 8 * part + l]

\* The lanes of the i32 sums of upper half hi.
WideSums(w, first, hi) == [l \in 0 .. w - 1 |-> hi * 65536 + Low(x + first + l)]

\* A lane is what the field's operation gives for the same coefficient.
ReduceAgrees ==
  LET avx2 == A!BarrettLanes(Sixteen)
      canonical == A!CanonicalLanes(Sixteen)
  IN /\ \A l \in 0 .. 15 : avx2[l] = Barrett(x + l) /\ canonical[l] = Value(x + l)
     /\ \A part \in 0 .. 1 :
          LET neon == N!BarrettLanes(Eight(part))
          IN \A l \in 0 .. 7 :
               /\ neon[l] = Barrett(x + 8 * part + l)
               /\ N!CanonicalLanes(Eight(part))[l] = Value(x + 8 * part + l)

ProductsAgree ==
  /\ \A b \in ProductFactors :
       LET avx2 == A!FqMul(Sixteen, A!Broadcast(Sixteen, b))
       IN /\ \A l \in 0 .. 15 : avx2[l] = Mul(x + l, b)
          /\ \A part \in 0 .. 1 :
               LET neon == N!FqMul(Eight(part), N!Broadcast(Eight(part), b))
               IN \A l \in 0 .. 7 : neon[l] = Mul(x + 8 * part + l, b)
  /\ \A h \in {h \in Highs : Wrap16(h) \in ProductHighs} :
       \A first \in {0, 8} :
         LET avx2 == A!MontgomeryReduceWide(WideSums(8, first, Wrap16(h)))
             neon == N!MontgomeryLanes(WideSums(8, first, Wrap16(h)))
         IN \A l \in 0 .. 7 :
              LET scalar == FromProductSum(Wrap16(h), Low(x + first + l))
              IN avx2[l] = scalar /\ neon[l] = scalar

CompressAgrees ==
  \A d \in Depths :
    LET avx2 == A!CompressLanes(Sixteen, d)
    IN /\ \A l \in 0 .. 15 : avx2[l] = Compress(x + l, d)
       /\ d \in N!MultiplierDepths =>
            \A part \in 0 .. 1 :
              LET neon == N!CompressLanes(Eight(part), d)
              IN \A l \in 0 .. 7 : neon[l] = Compress(x + 8 * part + l, d)

\* Sixteen values of d bits, from the low bits of the sweep.
DecompressAgrees ==
  \A d \in Depths :
    LET y == [l \in 0 .. 15 |-> (x + l) % 2^d]
        avx2 == A!DecompressLanes(y, d)
        low == N!DecompressLanes([l \in 0 .. 7 |-> y[l]], d)
        high == N!DecompressLanes([l \in 0 .. 7 |-> y[l + 8]], d)
    IN \A l \in 0 .. 15 :
         /\ avx2[l] = Decompress(y[l], d)
         /\ (IF l < 8 THEN low[l] ELSE high[l - 8]) = Decompress(y[l], d)

\* The vector kernels reduce, canonicalize, multiply, compress and decompress
\* every i16 exactly as the field's own operations do, though they divide by q
\* with other multipliers, in halves and in other widths
\* (src/src/algebraic/poly/arch/avx2.rs:47-355, neon.rs:54-418).
LanesAreTheField ==
  x % 16 = 0 => ReduceAgrees /\ ProductsAgree /\ CompressAgrees /\ DecompressAgrees
=============================================================================
