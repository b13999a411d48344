------------------------------ MODULE Avx2Ring ------------------------------
(***************************************************************************)
(* The ring kernels of src/src/algebraic/poly/arch/avx2.rs, sixteen        *)
(* coefficients at a time.                                                 *)
(***************************************************************************)
EXTENDS VectorLanes

\* fqmul
FqMul(a, b) ==
  LET m == MulLow(MulLow(a, b), Broadcast(a, QINV))
  IN Minus(MulHigh(a, b), MulHigh(m, Broadcast(a, Q)))

\* barrett_const_mul by the k-th zeta, broadcast.
ConstMul(a, k) ==
  LET t == MulRounded(a, Broadcast(a, BarrettMultiplier(ZETA_RAW[k])))
  IN Minus(MulLow(a, Broadcast(a, ZETA_RAW[k])), MulLow(t, Broadcast(a, Q)))

\* barrett_reduce
BarrettLanes(a) ==
  LET t == [l \in DOMAIN a |-> (MulHigh(a, Broadcast(a, BARRETT_V))[l] + 512) \div 1024]
  IN Minus(a, MulLow(t, Broadcast(a, Q)))

\* canonical_lanes
CanonicalLanes(a) ==
  LET r == BarrettLanes(a) IN Plus(r, KeepNegative(r, Broadcast(a, Q)))

\* butterfly: the sum and the difference.
Butterfly(a, b, k) == LET t == ConstMul(b, k) IN <<Plus(a, t), Minus(a, t)>>

-----------------------------------------------------------------------------
\* The shuffle of pack: even lanes before odd ones, in each 128-bit half.
EvensFirst(a) ==
  [l \in 0 .. 15 |-> LET i == l % 8
                     IN a[(l - i) + (IF i < 4 THEN 2 * i ELSE 2 * i - 7)]]

\* pack
VecPack(natural) ==
  LET v == Windows(natural, 16)
      d(n) == MiddleSwapped(EvensFirst(v[n]))
  IN Flat([n \in 0 .. 15 |-> JoinHalves(d(2 * (n % 8)), d(2 * (n % 8) + 1), n \div 8)], 16)

\* The interleaving of unpack and canonical: the n-th vector of the result,
\* made of even and odd vectors side by side.
Interleaved(even, odd, n) == JoinHalves(UnpackLo(even, odd), UnpackHi(even, odd), n % 2)

\* unpack
VecUnpack(halves) ==
  LET v == Windows(halves, 16)
  IN Flat([n \in 0 .. 15 |-> Interleaved(v[n \div 2], v[Beside(n \div 2, 16)], n)], 16)

\* canonical
VecCanonical(halves) ==
  LET v == Windows(halves, 16)
  IN Flat([n \in 0 .. 15 |->
            Interleaved(CanonicalLanes(v[n \div 2]), CanonicalLanes(v[Beside(n \div 2, 16)]), n)],
          16)

-----------------------------------------------------------------------------
\* ntt's first trip: the strides 128 and 64 of the vectors i, i + 4, i + 8, i + 12.
HeadRegisters(v, i) ==
  LET s == Butterfly(v[i], v[i + 8], 1)
      t == Butterfly(v[i + 4], v[i + 12], 1)
      low == Butterfly(s[1], t[1], 2)
      high == Butterfly(s[2], t[2], 3)
  IN <<low[1], low[2], high[1], high[2]>>

\* Its second: the strides 32 and 16 of one quarter's four vectors.
QuarterRegisters(v, q) ==
  LET s == Butterfly(v[4 * q], v[4 * q + 2], 4 + q)
      t == Butterfly(v[4 * q + 1], v[4 * q + 3], 4 + q)
      low == Butterfly(s[1], t[1], 8 + 2 * q)
      high == Butterfly(s[2], t[2], 9 + 2 * q)
  IN <<low[1], low[2], high[1], high[2]>>

HeadTrip(c) ==
  LET v == Windows(c, 16)
  IN Flat([n \in 0 .. 15 |-> HeadRegisters(v, n % 4)[n \div 4 + 1]], 16)
QuarterTrip(c) ==
  LET v == Windows(c, 16)
  IN Flat([n \in 0 .. 15 |-> QuarterRegisters(v, n \div 4)[(n % 4) + 1]], 16)

\* One layer of ntt_inverse's vector loop.
VecInverseLayer(c, len, k) ==
  LET v == Windows(c, 16)
      far == len \div 16
      sum(n) == Plus(v[n], v[n + far])
  IN Flat([n \in 0 .. 15 |->
            CASE IsLow(16 * n, len) /\ len = 16 -> BarrettLanes(sum(n))
              [] IsLow(16 * n, len) /\ len # 16 -> sum(n)
              [] OTHER -> ConstMul(Minus(v[n], v[n - far]), InverseZeta(k, Group(16 * n, len)))],
          16)

VecScaled(c) ==
  LET v == Windows(c, 16)
  IN Flat([n \in 0 .. 15 |-> FqMul(Broadcast(v[n], NTT_INVERSE_SCALE), v[n])], 16)

-----------------------------------------------------------------------------
\* multiply
VecMultiply(f, g) ==
  LET a == Windows(f, 16)
      b == Windows(g, 16)
      gamma(n) == [l \in 0 .. 15 |-> GAMMA_MONT[16 * n + l]]
      even(n) == Plus(FqMul(a[n], b[n]), FqMul(FqMul(a[n + 8], b[n + 8]), gamma(n)))
      odd(n) == Plus(FqMul(a[n], b[n + 8]), FqMul(a[n + 8], b[n]))
  IN Flat([n \in 0 .. 15 |-> IF n < 8 THEN even(n) ELSE odd(n - 8)], 16)

\* The i32 lanes of interleaved low and high halves of products.
AsInt32(a) == [l \in 0 .. 7 |-> a[2 * l + 1] * 65536 + Low(a[2 * l])]

\* Mutant: the lower lanes again.
WideningMulHiOfLo(a, b) == AsInt32(UnpackLo(MulLow(a, b), MulHigh(a, b)))
WideningMulLo(a, b) == AsInt32(UnpackLo(MulLow(a, b), MulHigh(a, b)))
WideningMulHi(a, b) == AsInt32(UnpackHi(MulLow(a, b), MulHigh(a, b)))

\* basemul_accumulate: the planes hold a block of sixteen sums as the lower
\* lanes of both 128-bit halves, then the upper ones.
VecAccumulate(acc, f, g, cache) ==
  LET a == Windows(f, 16)
      b == Windows(g, 16)
      m(n) == [l \in 0 .. 15 |-> cache[16 * n + l]]
      \* x * y + z * w, in the order of the planes.
      gain(x, y, z, w) ==
        [l \in 0 .. 15 |-> IF l < 8 THEN WideningMulLo(x, y)[l] + WideningMulLo(z, w)[l]
                           ELSE WideningMulHi(x, y)[l - 8] + WideningMulHi(z, w)[l - 8]]
      gains == [n \in 0 .. 15 |-> IF n < 8 THEN gain(a[n], b[n], a[n + 8], m(n))
                                  ELSE gain(a[n - 8], b[n], a[n], b[n - 8])]
  IN [j \in Index |-> acc[j] + Flat(gains, 16)[j]]

\* montgomery_reduce_wide
MontgomeryReduceWide(a) ==
  [l \in DOMAIN a |-> High(a[l] - Wrap16(Low(a[l]) * QINV) * Q)]

\* basemul_reduce
VecReduce(acc) ==
  LET v == Windows(acc, 8)
  IN Flat([n \in 0 .. 15 |->
            Packs(MontgomeryReduceWide(v[2 * n]), MontgomeryReduceWide(v[2 * n + 1]))], 16)

-----------------------------------------------------------------------------
\* divide_by_q: the even and the odd lanes, whose products need 64 bits, apart.
DivideByQ(a) ==
  LET even == [i \in 0 .. 3 |-> DivQ(a[2 * i])]
      odd == [i \in 0 .. 3 |-> DivQ(a[2 * i + 1])]
  IN [l \in 0 .. 7 |-> IF l % 2 = 0 THEN even[l \div 2] ELSE odd[l \div 2]]

\* pack_lanes
PackLanes(lo, hi) == MiddleSwapped(Packus(lo, hi))

\* compress, one vector.
CompressLanes(a, d) ==
  LET x == CanonicalLanes(a)
      divide(half) ==
        LET n == DivideByQ([l \in 0 .. 7 |-> HalfOf(x, half)[l] * 2^d + Q \div 2])
        IN [l \in 0 .. 7 |-> n[l] % 2^d]
  IN PackLanes(divide(0), divide(1))

\* decompress, one vector.
DecompressLanes(y, d) ==
  LET scale(half) == [l \in 0 .. 7 |-> (HalfOf(y, half)[l] * Q + 2^(d - 1)) \div 2^d]
  IN PackLanes(scale(0), scale(1))
=============================================================================
