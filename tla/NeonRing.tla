------------------------------ MODULE NeonRing ------------------------------
(***************************************************************************)
(* The ring kernels of src/src/algebraic/poly/arch/neon.rs, eight          *)
(* coefficients at a time.                                                 *)
(***************************************************************************)
EXTENDS VectorLanes

\* montgomery_reduce, of four i32 lanes.
MontgomeryLanes(a) ==
  [l \in DOMAIN a |-> Wrap16(High(a[l] - Wrap16(Narrow(a)[l] * QINV) * Q))]

\* fqmul: both halves' widened products.
FqMul(a, b) ==
  LET product(x, y) == [l \in 0 .. 3 |-> x[l] * y[l]]
  IN Combine(MontgomeryLanes(product(LowLanes(a), LowLanes(b))),
             MontgomeryLanes(product(HighLanes(a), HighLanes(b))))

\* barrett_const_mul by the k-th zeta, broadcast.
ConstMul(a, k) ==
  MulSubtract(MulLow(a, Broadcast(a, ZETA_RAW[k])),
              MulDoubled(a, Broadcast(a, BarrettMultiplier(ZETA_RAW[k]))), Broadcast(a, Q))

\* barrett_reduce, in i32 lanes.
BarrettLanes(a) ==
  LET reduced(x) == [l \in 0 .. 3 |-> x[l] - ((BARRETT_V * x[l] + 33554432) \div 67108864) * Q]
  IN Combine(Narrow(reduced(LowLanes(a))), Narrow(reduced(HighLanes(a))))

\* canonical_lanes
CanonicalLanes(a) ==
  LET r == BarrettLanes(a) IN Plus(r, KeepNegative(r, Broadcast(a, Q)))

\* butterfly: the sum and the difference.
Butterfly(a, b, k) == LET t == ConstMul(b, k) IN <<Plus(a, t), Minus(a, t)>>

-----------------------------------------------------------------------------
\* vld2q and vst2q: every other lane of two adjacent vectors, and back.
Alternate(a, b, odd) ==
  [l \in 0 .. 7 |-> IF l < 4 THEN a[2 * l + odd] ELSE b[2 * l + odd - 8]]
Interleaved(even, odd, half) ==
  [l \in 0 .. 7 |-> (IF l % 2 = 0 THEN even ELSE odd)[4 * half + l \div 2]]

\* pack
VecPack(natural) ==
  LET v == Windows(natural, 8)
  IN Flat([n \in 0 .. 31 |-> Alternate(v[2 * (n % 16)], v[2 * (n % 16) + 1], n \div 16)], 8)

\* unpack
VecUnpack(halves) ==
  LET v == Windows(halves, 8)
  IN Flat([n \in 0 .. 31 |-> Interleaved(v[n \div 2], v[Beside(n \div 2, 8)], n % 2)], 8)

\* canonical
VecCanonical(halves) ==
  LET v == Windows(halves, 8)
  IN Flat([n \in 0 .. 31 |->
            Interleaved(CanonicalLanes(v[n \div 2]), CanonicalLanes(v[Beside(n \div 2, 8)]),
                        n % 2)],
          8)

-----------------------------------------------------------------------------
\* ntt's first trip where the assembly is not used: the strides 128 and 64.
HeadRegisters(v, i) ==
  LET s == Butterfly(v[i], v[i + 16], 1)
      t == Butterfly(v[i + 8], v[i + 24], 1)
      low == Butterfly(s[1], t[1], 2)
      high == Butterfly(s[2], t[2], 3)
  IN <<low[1], low[2], high[1], high[2]>>

HeadTrip(c) ==
  LET v == Windows(c, 8)
  IN Flat([n \in 0 .. 31 |-> HeadRegisters(v, n % 8)[n \div 8 + 1]], 8)

\* One level of the second trip: the butterflies of the registers r that are
\* `apart', the first group of them with the z-th zeta.
Level(r, apart, z) ==
  [w \in 0 .. 7 |->
    LET low == w - (w % (2 * apart)) + (w % apart)
        pair == Butterfly(r[low], r[low + apart], z + w \div (2 * apart))
    IN IF w = low THEN pair[1] ELSE pair[2]]

\* The strides 32, 16 and 8 of a quarter's eight vectors.
QuarterRegisters(v, q) ==
  LET loaded == [w \in 0 .. 7 |-> v[8 * q + w]]
  IN Level(Level(Level(loaded, 4, 4 + q), 2, 8 + 2 * q), 1, 16 + 4 * q)

QuarterTrip(c) ==
  LET v == Windows(c, 8)
      quarters == [q \in 0 .. 3 |-> QuarterRegisters(v, q)]
  IN Flat([n \in 0 .. 31 |-> quarters[n \div 8][n % 8]], 8)

\* One layer of ntt_inverse's vector loop.
VecInverseLayer(c, len, k) ==
  LET v == Windows(c, 8)
      far == len \div 8
      sum(n) == Plus(v[n], v[n + far])
  IN Flat([n \in 0 .. 31 |->
            CASE IsLow(8 * n, len) /\ len = 16 -> BarrettLanes(sum(n))
              [] IsLow(8 * n, len) /\ len # 16 -> sum(n)
              [] OTHER -> ConstMul(Minus(v[n], v[n - far]), InverseZeta(k, Group(8 * n, len)))],
          8)

VecScaled(c) ==
  LET v == Windows(c, 8)
  IN Flat([n \in 0 .. 31 |-> FqMul(Broadcast(v[n], NTT_INVERSE_SCALE), v[n])], 8)

-----------------------------------------------------------------------------
\* multiply
VecMultiply(f, g) ==
  LET a == Windows(f, 8)
      b == Windows(g, 8)
      gamma(n) == [l \in 0 .. 7 |-> GAMMA_MONT[8 * n + l]]
      even(n) == Plus(FqMul(a[n], b[n]), FqMul(FqMul(a[n + 16], b[n + 16]), gamma(n)))
      odd(n) == Plus(FqMul(a[n], b[n + 16]), FqMul(a[n + 16], b[n]))
  IN Flat([n \in 0 .. 31 |-> IF n < 16 THEN even(n) ELSE odd(n - 16)], 8)

\* basemul_accumulate: vmlal of the lower and the upper lanes, each twice.
VecAccumulate(acc, f, g, cache) ==
  LET s == Windows(acc, 8)
      a == Windows(f, 8)
      b == Windows(g, 8)
      m(n) == [l \in 0 .. 7 |-> cache[8 * n + l]]
      mlal(sum, x, y) == [l \in 0 .. 3 |-> sum[l] + x[l] * y[l]]
      twice(sum, x, y, z, w) ==
        Combine(mlal(mlal(LowLanes(sum), LowLanes(x), LowLanes(y)), LowLanes(z), LowLanes(w)),
                mlal(mlal(HighLanes(sum), HighLanes(x), HighLanes(y)), HighLanes(z), HighLanes(w)))
  IN Flat([n \in 0 .. 31 |->
            IF n < 16 THEN twice(s[n], a[n], b[n], a[n + 16], m(n))
            ELSE twice(s[n], a[n - 16], b[n], a[n], b[n - 16])], 8)

\* basemul_reduce
VecReduce(acc) ==
  LET v == Windows(acc, 8)
  IN Flat([n \in 0 .. 31 |->
            Combine(MontgomeryLanes(LowLanes(v[n])), MontgomeryLanes(HighLanes(v[n])))], 8)

-----------------------------------------------------------------------------
\* 2^(31 + d) divided by q, in limbs of 16 + d and of 15 bits.
PowerByQ(d) ==
  LET h == 2^(16 + d) IN (h \div Q) * 32768 + ((h % Q) * 32768) \div Q

\* compress_multiplier: the ceiling, as 2^(31 + d) is no multiple of q.
CompressMultiplier(d) == PowerByQ(d) + 1

\* Mutant: vqdmulhq, which does not round.
MulDoubledWideFloor(a, b) ==
  [l \in DOMAIN a |-> (a[l] * High(b) + (a[l] * Low(b)) \div 65536) \div 32768]

\* vqrdmulhq_s32 of lanes below q, (2 a b + 2^31) >> 32, in limbs.
MulDoubledWide(a, b) ==
  [l \in DOMAIN a |-> (a[l] * High(b) + (a[l] * Low(b) + 1073741824) \div 65536) \div 32768]

\* The d that compress has a multiplier for; others take the portable kernel.
MultiplierDepths == {1, 4, 5, 10, 11}

\* compress of one vector.
CompressLanes(a, d) ==
  LET x == CanonicalLanes(a)
      scaled(half) ==
        [l \in 0 .. 3 |-> MulDoubledWide(half, CompressMultiplier(d))[l] % 2^d]
  IN Combine(Narrow(scaled(LowLanes(x))), Narrow(scaled(HighLanes(x))))

\* decompress of one vector.
DecompressLanes(y, d) ==
  LET scaled(half) == [l \in 0 .. 3 |-> (2^(d - 1) + half[l] * Q) \div 2^d]
  IN Combine(Narrow(scaled(LowLanes(y))), Narrow(scaled(HighLanes(y))))
=============================================================================
