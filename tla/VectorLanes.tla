---------------------------- MODULE VectorLanes ----------------------------
(***************************************************************************)
(* Vectors of lanes, and the vector instructions that the ring kernels of  *)
(* src/src/algebraic/poly/arch/avx2.rs and neon.rs are built from.  A      *)
(* vector is a function of its lanes 0 .. w - 1, whose values are the      *)
(* signed integers of the lane's width.                                    *)
(***************************************************************************)
EXTENDS Ntt

\* The 256 positions as vectors of w lanes, and back.
Windows(c, w) == [n \in 0 .. 256 \div w - 1 |-> [l \in 0 .. w - 1 |-> c[w * n + l]]]
Flat(v, w) == [j \in Index |-> v[j \div w][j % w]]

\* The odd half's window beside the even half's n-th.
Beside(n, w) == n + HALF \div w

Broadcast(a, x) == [l \in DOMAIN a |-> x]

Plus(a, b) == [l \in DOMAIN a |-> Wrap16(a[l] + b[l])]
Minus(a, b) == [l \in DOMAIN a |-> Wrap16(a[l] - b[l])]
MulLow(a, b) == [l \in DOMAIN a |-> Wrap16(a[l] * b[l])]
MulHigh(a, b) == [l \in DOMAIN a |-> High(a[l] * b[l])]

\* The sign of a lane in all its bits, and the lanes of b that it keeps.
KeepNegative(a, b) == [l \in DOMAIN a |-> IF a[l] < 0 THEN b[l] ELSE 0]

-----------------------------------------------------------------------------
\* AVX2: 16 lanes of i16 or 8 of i32, in two halves of 128 bits.

\* mulhrs: the product's upper bits, rounded.
MulRounded(a, b) == [l \in DOMAIN a |-> Wrap16((a[l] * b[l] + 16384) \div 32768)]

\* unpacklo and unpackhi interleave the lower or upper lanes of each half.
UnpackFrom(a, b, first) ==
  [l \in 0 .. 15 |-> LET i == 8 * (l \div 8) + first + (l % 8) \div 2
                     IN IF l % 2 = 0 THEN a[i] ELSE b[i]]
UnpackLo(a, b) == UnpackFrom(a, b, 0)
UnpackHi(a, b) == UnpackFrom(a, b, 4)

\* permute2x128: a 128-bit half of a, then the same half of b.
JoinHalves(a, b, half) ==
  [l \in 0 .. 15 |-> IF l < 8 THEN a[8 * half + l] ELSE b[8 * half + l - 8]]

\* permute4x64 by 0xD8: the quarters in the order 0, 2, 1, 3.
MiddleSwapped(a) ==
  [l \in 0 .. 15 |-> a[CASE l \div 4 = 1 -> l + 4 [] l \div 4 = 2 -> l - 4 [] OTHER -> l]]

\* packs and packus: two vectors of i32 to one of i16, a half of a, then a
\* half of b, saturating.
PackInto(a, b, least, most) ==
  LET clamp(x) == IF x < least THEN least ELSE IF x > most THEN most ELSE x
  IN [l \in 0 .. 15 |-> LET i == 4 * (l \div 8) + (l % 4)
                        IN clamp(IF l % 8 < 4 THEN a[i] ELSE b[i])]
Packs(a, b) == PackInto(a, b, -32768, 32767)
Packus(a, b) == PackInto(a, b, 0, 65535)

\* extracti128, its eight lanes widened.
HalfOf(a, half) == [l \in 0 .. 7 |-> a[8 * half + l]]

-----------------------------------------------------------------------------
\* NEON: 8 lanes of i16 or 4 of i32.

\* vqrdmulhq_s16: as mulhrs, saturating where that wraps.
MulDoubled(a, b) ==
  [l \in DOMAIN a |-> IF a[l] = -32768 /\ b[l] = -32768 THEN 32767
                      ELSE (a[l] * b[l] + 16384) \div 32768]

\* vmlsq: what a product leaves of an accumulator.
MulSubtract(acc, a, b) == [l \in DOMAIN a |-> Wrap16(acc[l] - a[l] * b[l])]

\* The lower and upper lanes, widened, and vcombine.
LowLanes(a) == [l \in 0 .. 3 |-> a[l]]
HighLanes(a) == [l \in 0 .. 3 |-> a[l + 4]]
Combine(a, b) == [l \in 0 .. 7 |-> IF l < 4 THEN a[l] ELSE b[l - 4]]

\* vmovn: the lower 16 bits.
Narrow(a) == [l \in DOMAIN a |-> Wrap16(a[l])]
=============================================================================
