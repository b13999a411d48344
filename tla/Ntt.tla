-------------------------------- MODULE Ntt --------------------------------
(***************************************************************************)
(* The transforms of src/src/algebraic/poly/arch/generic.rs, one layer of  *)
(* butterflies at a time, and the base multiplication between them.  An    *)
(* element is a function of its 256 positions.                             *)
(***************************************************************************)
EXTENDS ZetaTables

Index == 0 .. 255
HALF == 128
Half == 0 .. HALF - 1

NTT_SERIES == <<128, 64, 32, 16, 8, 4, 2>>

\* j is in the first half of its butterfly group of stride len.
IsLow(j, len) == j % (2 * len) < len
Group(j, len) == j \div (2 * len)

\* The product of a butterfly with the table's k-th zeta.
Twiddled(a, k) == BarrettConstMul(a, ZETA_RAW[k])

-----------------------------------------------------------------------------
\* ntt, one layer: its groups take the zetas from k upwards.
NttLayer(c, len, k) ==
  [j \in Index |->
    IF IsLow(j, len) THEN Add(c[j], Twiddled(c[j + len], k + Group(j, len)))
                     ELSE Sub(c[j - len], Twiddled(c[j], k + Group(j, len)))]

\* Mutant: the sums of the len 16 layer are left to grow.
InverseReducesOnce(len) == len = 2
\* The layers of ntt_inverse whose sums are reduced.
InverseReduces(len) == len = 2 \/ len = 16

\* Mutant: the count down starts one too low.
InverseZetaLate(k, g) == k - g - 1
\* The zeta of a group of ntt_inverse: they are taken from k downwards.
InverseZeta(k, g) == k - g

InverseLayer(c, len, k) ==
  [j \in Index |->
    IF IsLow(j, len)
      THEN LET sum == Add(c[j], c[j + len]) IN IF InverseReduces(len) THEN Barrett(sum) ELSE sum
      ELSE Twiddled(Sub(c[j], c[j - len]), InverseZeta(k, Group(j, len)))]

Groups(len) == HALF \div len

\* The final pass of ntt.
Reduced(c) == [j \in Index |-> Barrett(c[j])]

\* Mutant: 128^-1 * R, the scale of a transform whose products carry no R^-1.
NTT_INVERSE_SCALE_PLAIN == 512
NTT_INVERSE_SCALE == 1441

Scaled(c) == [j \in Index |-> Mul(c[j], NTT_INVERSE_SCALE)]

\* Natural order to evens then odds, and back.
Pack(c) == [j \in Index |-> IF j < HALF THEN c[2 * j] ELSE c[2 * (j - HALF) + 1]]
Unpack(h) == [j \in Index |-> h[(j % 2) * HALF + j \div 2]]

-----------------------------------------------------------------------------
\* The rest works on elements that are stored evens then odds.

\* multiply
Multiply(f, g) ==
  [j \in Index |->
    LET i == j % HALF
    IN IF j < HALF
         THEN Add(Mul(f[i], g[i]), Mul(Mul(f[HALF + i], g[HALF + i]), GAMMA_MONT[i]))
         ELSE Add(Mul(f[i], g[HALF + i]), Mul(f[HALF + i], g[i]))]

\* mul_cache
MulCache(g) == [i \in Half |-> Mul(g[HALF + i], GAMMA_MONT[i])]

\* basemul_accumulate, one component of a dot product.
Accumulate(acc, f, g, cache) ==
  [j \in Index |->
    LET i == j % HALF
    IN acc[j] + IF j < HALF THEN f[i] * g[i] + f[HALF + i] * cache[i]
                            ELSE f[i] * g[HALF + i] + f[HALF + i] * g[i]]

\* basemul_reduce
Reduce(acc) == [j \in Index |-> FromProductSum(High(acc[j]), Low(acc[j]))]

\* accumulated_dot of two sequences of elements.
AccumulatedDot(fs, gs) ==
  LET acc[n \in 0 .. Len(fs)] ==
        IF n = 0 THEN [j \in Index |-> 0]
        ELSE Accumulate(acc[n - 1], fs[n], gs[n], MulCache(gs[n]))
  IN Reduce(acc[Len(fs)])
=============================================================================
