------------------------------- MODULE NttRun -------------------------------
(***************************************************************************)
(* A monomial goes through ntt, a dot product with other monomials (or     *)
(* none), and ntt_inverse.  Both transforms are linear modulo q, so what   *)
(* holds of the 256 monomials holds of every polynomial.                   *)
(*                                                                         *)
(* The backend that the build selected does the work: "generic" layer by   *)
(* layer, "avx2" and "neon" in trips that hold vectors through several     *)
(* layers.  "neon_asm" is "neon" with the first trip in assembly, whose    *)
(* instructions NttAsmRun adds.                                            *)
(*                                                                         *)
(* `bound' is what any input may have reached at each position, by the     *)
(* magnitudes of the butterflies alone, and `peak' the largest sum or      *)
(* difference that was formed there.                                       *)
(***************************************************************************)
EXTENDS VectorBackends

Backends == {"generic", "avx2", "neon", "neon_asm"}

CONSTANTS
  Exponents,   \* the monomials that each backend transforms
  Coefficient, \* their coefficient, the largest that the callers pass
  Products     \* sequences of exponents of the monomials to multiply with

ASSUME RunAssumption ==
  /\ Exponents \in [Backends -> SUBSET Index]
  /\ Coefficient \in 1 .. Q - 1
  /\ \A p \in Products : p \in Seq(Index) /\ Len(p) <= 4

VARIABLES
  backend,
  exponent, \* of the monomial
  factors,  \* the exponents it was multiplied with
  coeffs,   \* the coefficients
  phase,    \* "ntt", "hat", "product", "inverse", "done"
  layer,    \* the number of layers that are split
  next,     \* the next zeta of the table
  bound, peak

vars == <<backend, exponent, factors, coeffs, phase, layer, next, bound, peak>>

\* The layers after which a backend's forward transform is scalar, and before
\* which its inverse is.
ScalarLayers == [generic |-> 0, avx2 |-> 4, neon |-> 5, neon_asm |-> 5]

-----------------------------------------------------------------------------
\* The magnitude of a butterfly's product, whatever the zeta.
Reach(b) == (Q * b + Q * 32768) \div 65536
Everywhere(b) == [j \in Index |-> b]
Larger(a, b) == [j \in Index |-> IF a[j] < b[j] THEN b[j] ELSE a[j]]

\* The partner of j in its butterfly.
Partner(j, len) == IF IsLow(j, len) THEN j + len ELSE j - len

NttBound(b, len) ==
  [j \in Index |-> IF IsLow(j, len) THEN b[j] + Reach(b[j + len]) ELSE b[j - len] + Reach(b[j])]

Sums(b, len) == [j \in Index |-> b[j] + b[Partner(j, len)]]

InverseBound(b, len) ==
  [j \in Index |-> CASE ~IsLow(j, len) -> Reach(Sums(b, len)[j])
                     [] IsLow(j, len) /\ InverseReduces(len) -> 1664
                     [] OTHER -> Sums(b, len)[j]]

Monomial(e, a) == [j \in Index |-> IF j = e THEN a ELSE 0]

Factors == UNION {{p[n] : n \in DOMAIN p} : p \in Products}

-----------------------------------------------------------------------------
\* Powers of the 256th root of unity 17.
Zeta[e \in 0 .. 255] ==
  IF e = 0 THEN 1
  ELSE LET half == Zeta[e \div 2] IN (half * half * (IF e % 2 = 0 THEN 1 ELSE 17)) % Q

\* 17^e
Power(e) == Zeta[e % 256]

\* After n layers, block b holds residues modulo X^(256 / 2^n) - 17^Root[n][b].
Root[n \in 0 .. 7] ==
  [b \in 0 .. 127 |->
    IF n = 0 THEN 128 ELSE Root[n - 1][b \div 2] \div 2 + (IF b % 2 = 0 THEN 0 ELSE 128)]

\* X^e modulo X^m - 17^root, its s-th coefficient.
ResidueIn(e, root, m, s) == IF s = e % m THEN Power(root * (e \div m)) ELSE 0

\* The j-th coefficient of the residues of X^e, after n layers.
Residue(e, n, j) ==
  LET m == 256 \div 2^n IN ResidueIn(e, Root[n][j \div m], m, j % m)

\* The other monomials as ntt leaves them: centred, evens then odds.
FactorHat == [e \in Factors |-> Pack([j \in Index |-> Barrett(Residue(e, 7, j))])]

\* What the tables are: powers of 17 add up, a block's root splits into its
\* square roots, and the zetas of the table are these roots, in the order in
\* which ntt takes them; ntt_inverse takes their negated inverses.
ASSUME RootsAssumption ==
  /\ \A a \in Index :
       /\ Zeta[a] \in 0 .. Q - 1
       /\ \A b \in Index : (Zeta[a] * Zeta[b]) % Q = Zeta[(a + b) % 256]
  /\ Zeta[0] = 1 /\ Zeta[128] = Q - 1
  /\ \A n \in 0 .. 6 : \A b \in 0 .. 2^n - 1 :
       LET root == Root[n + 1][2 * b]
       IN /\ root \in 0 .. 127
          /\ Root[n][b] = 2 * root /\ Root[n + 1][2 * b + 1] = root + 128
          /\ ZETA_RAW[2^n + b] = Zeta[root]
          /\ (ZETA_RAW[2^(n + 1) - 1 - b] * Zeta[root]) % Q = Q - 1
  /\ \A i \in Half : Root[7][i] \in 0 .. 255 /\ GAMMA_RAW[i] = Zeta[Root[7][i]]

-----------------------------------------------------------------------------
\* The kernels of the backend (src/src/algebraic/poly/arch.rs).
DispatchedPack(x) ==
  CASE backend = "generic" -> Pack(x) [] backend = "avx2" -> A!VecPack(x) [] OTHER -> N!VecPack(x)
DispatchedUnpack(h) ==
  CASE backend = "generic" -> Unpack(h) [] backend = "avx2" -> A!VecUnpack(h)
    [] OTHER -> N!VecUnpack(h)
DispatchedCanonical(h) ==
  CASE backend = "generic" -> [j \in Index |-> Value(Unpack(h)[j])]
    [] backend = "avx2" -> A!VecCanonical(h)
    [] OTHER -> N!VecCanonical(h)
DispatchedMultiply(f, g) ==
  CASE backend = "generic" -> Multiply(f, g) [] backend = "avx2" -> A!VecMultiply(f, g)
    [] OTHER -> N!VecMultiply(f, g)
DispatchedAccumulate(acc, f, g) ==
  CASE backend = "generic" -> Accumulate(acc, f, g, MulCache(g))
    [] backend = "avx2" -> A!VecAccumulate(acc, f, g, MulCache(g))
    [] OTHER -> N!VecAccumulate(acc, f, g, MulCache(g))
DispatchedReduce(acc) ==
  CASE backend = "generic" -> Reduce(acc) [] backend = "avx2" -> A!VecReduce(acc)
    [] OTHER -> N!VecReduce(acc)

\* accumulated_dot, of four components at most.
DispatchedDot(fs, gs) ==
  LET with(acc, n) == IF n <= Len(fs) THEN DispatchedAccumulate(acc, fs[n], gs[n]) ELSE acc
  IN DispatchedReduce(with(with(with(with([j \in Index |-> 0], 1), 2), 3), 4))

-----------------------------------------------------------------------------
NttInit ==
  /\ backend \in Backends /\ exponent \in Exponents[backend]
  /\ factors = <<>>
  /\ coeffs = Monomial(exponent, Coefficient)
  /\ phase = "ntt"
  /\ layer = 0 /\ next = 1
  /\ bound = Everywhere(Coefficient) /\ peak = Everywhere(0)

\* The merged strides 128 and 64.
HeadTrip ==
  /\ phase = "ntt" /\ layer = 0 /\ backend # "generic"
  /\ coeffs' = IF backend = "avx2" THEN A!HeadTrip(coeffs) ELSE N!HeadTrip(coeffs)
  /\ bound' = NttBound(NttBound(bound, 128), 64)
  /\ peak' = Larger(peak, bound')
  /\ layer' = 2
  /\ UNCHANGED <<backend, exponent, factors, phase, next>>

\* The merged strides 32 and 16, and 8 on NEON; the scalar tail then counts
\* its zetas from 16 or 32.
QuarterTrip ==
  /\ phase = "ntt" /\ layer = 2 /\ backend # "generic"
  /\ coeffs' = IF backend = "avx2" THEN A!QuarterTrip(coeffs) ELSE N!QuarterTrip(coeffs)
  /\ layer' = ScalarLayers[backend]
  /\ next' = 2^layer'
  /\ LET b == NttBound(NttBound(bound, 32), 16)
     IN bound' = IF backend = "avx2" THEN b ELSE NttBound(b, 8)
  /\ peak' = Larger(peak, bound')
  /\ UNCHANGED <<backend, exponent, factors, phase>>

NttStep ==
  /\ phase = "ntt" /\ layer \in ScalarLayers[backend] .. 6
  /\ LET len == NTT_SERIES[layer + 1]
     IN /\ coeffs' = NttLayer(coeffs, len, next)
        /\ next' = next + Groups(len)
        /\ bound' = NttBound(bound, len)
  /\ peak' = Larger(peak, bound')
  /\ layer' = layer + 1
  /\ UNCHANGED <<backend, exponent, factors, phase>>

\* The reductions that end ntt, and the storage as a TqElement.
NttEnd ==
  /\ phase = "ntt" /\ layer = 7
  /\ phase' = "hat"
  /\ coeffs' = DispatchedPack(Reduced(coeffs))
  /\ bound' = Everywhere(1664)
  /\ UNCHANGED <<backend, exponent, factors, layer, next, peak>>

\* A dot product of the element, repeated, with as many others.
Dot(p) ==
  /\ phase = "hat" /\ p # <<>>
  /\ phase' = "product"
  /\ factors' = p
  /\ coeffs' = DispatchedDot([n \in DOMAIN p |-> coeffs], [n \in DOMAIN p |-> FactorHat[p[n]]])
  /\ bound' = Everywhere(3994)
  /\ UNCHANGED <<backend, exponent, layer, next, peak>>

\* ntt_inverse unpacks; any element within its documented bound may be next.
InverseBegin ==
  /\ phase \in {"hat", "product"}
  /\ phase' = "inverse"
  /\ coeffs' = DispatchedUnpack(coeffs)
  /\ next' = 127
  /\ bound' = Everywhere(16383)
  /\ UNCHANGED <<backend, exponent, factors, layer, peak>>

InverseStep ==
  /\ phase = "inverse" /\ layer > 0
  /\ LET len == NTT_SERIES[layer]
     IN /\ coeffs' = IF layer > ScalarLayers[backend] THEN InverseLayer(coeffs, len, next)
                ELSE IF backend = "avx2" THEN A!VecInverseLayer(coeffs, len, next)
                ELSE N!VecInverseLayer(coeffs, len, next)
        /\ next' = next - Groups(len)
        /\ bound' = InverseBound(bound, len)
        /\ peak' = Larger(peak, Sums(bound, len))
  /\ layer' = layer - 1
  /\ UNCHANGED <<backend, exponent, factors, phase>>

InverseEnd ==
  /\ phase = "inverse" /\ layer = 0
  /\ phase' = "done"
  /\ coeffs' = CASE backend = "generic" -> Scaled(coeffs) [] backend = "avx2" -> A!VecScaled(coeffs)
           [] OTHER -> N!VecScaled(coeffs)
  /\ bound' = Everywhere(3328)
  /\ UNCHANGED <<backend, exponent, factors, layer, next, peak>>

NttNext ==
  \/ HeadTrip \/ QuarterTrip \/ NttStep \/ NttEnd
  \/ \E p \in Products : Dot(p)
  \/ InverseBegin \/ InverseStep \/ InverseEnd

NttSpec == NttInit /\ [][NttNext]_vars

-----------------------------------------------------------------------------
\* The same of the polynomial that coeffs stands for.
Expected(n, j) ==
  LET product(i) == IF i <= Len(factors) THEN Residue(exponent + factors[i], n, j) ELSE 0
  IN IF factors = <<>> THEN Residue(exponent, n, j)
     ELSE product(1) + product(2) + product(3) + product(4)

R_INV == 169

\* coeffs is the expected polynomial times `scale', in the layout of the phase.
Holds(x, scale) ==
  \A j \in Index : Congruent(x[j], ((Coefficient * scale) % Q) * Expected(layer, j))

ProductScale == IF factors = <<>> THEN 1 ELSE R_INV

\* In every layer of both transforms each block is the residue of the
\* polynomial modulo its own factor of X^256 + 1, in every backend: no zeta is
\* taken twice, out of turn or of the wrong sign, and no lane goes astray
\* (src/src/algebraic/poly/arch/generic.rs:42-100,
\* src/src/algebraic/poly/arch/avx2.rs:632-813,
\* src/src/algebraic/poly/arch/neon.rs:722-937).
LayersHoldResidues ==
  CASE phase = "ntt" -> Holds(coeffs, 1)
    [] phase \in {"hat", "product"} ->
         /\ Holds(Unpack(coeffs), ProductScale)
         /\ \A j \in Index : DispatchedCanonical(coeffs)[j] = Unpack(coeffs)[j] % Q
    [] phase = "inverse" -> Holds(coeffs, (ProductScale * 2^(7 - layer)) % Q)
    [] OTHER -> TRUE

\* No sum or difference of a butterfly leaves the i16, for any coefficients
\* that ntt is called with and any within the documented 16383 of ntt_inverse,
\* and none is beyond the magnitude counted on
\* (src/src/algebraic/poly/arch/generic.rs:84-85, src/src/algebraic/poly.rs:246).
NothingWraps ==
  \A j \in Index : peak[j] <= 32767 /\ coeffs[j] \in -bound[j] .. bound[j]

\* ntt_inverse of a product is the product modulo X^256 + 1; of a plain
\* transform it is the polynomial times R
\* (src/src/algebraic/poly.rs:232-256).
InverseOfProduct ==
  phase = "done" => Holds(coeffs, IF factors = <<>> THEN MONT_R ELSE 1)

\* The accumulated product with a cache, and the product without, are those of
\* the portable backend modulo q, whatever the order of the lanes in between
\* (src/src/algebraic/poly.rs:276-296, src/src/algebraic/poly/arch/avx2.rs:507-620).
CachedProductIsProduct ==
  phase = "hat" =>
    \A e \in Factors :
      LET product == Multiply(coeffs, FactorHat[e])
      IN \A j \in Index :
           /\ Congruent(DispatchedDot(<<coeffs>>, <<FactorHat[e]>>)[j], product[j])
           /\ Congruent(DispatchedMultiply(coeffs, FactorHat[e])[j], product[j])
=============================================================================
