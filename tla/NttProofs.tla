----------------------------- MODULE NttProofs -----------------------------
(***************************************************************************)
(* The transforms and products of every backend, for any monomials, any    *)
(* coefficient below q and any products of four others at most: each layer *)
(* holds the residues of the polynomial, the inverse transform undoes the  *)
(* other, a cached product is the product, and no i16 wraps.               *)
(*                                                                         *)
(*  1. Classes modulo q, and the powers of the root of unity.              *)
(*  2. A layer of ntt takes residues modulo X^(2m) - z^2 to residues       *)
(*     modulo X^m - z and X^m + z, and no magnitude past its cap.          *)
(*  3. The trips of the vector backends are layers.                        *)
(*  4. The same for ntt_inverse, whose layers double what they undo.       *)
(*  5. The lanes of pack, unpack, canonical, multiply and accumulate.      *)
(*  6. A dot product of residues is the residue of the product.            *)
(*  7. The inductive invariant, action by action, and the theorems.        *)
(***************************************************************************)
EXTENDS FieldSweepProofs, NttRun

\* Two numbers of one class differ by a multiple of q.
LEMMA ClassDiffers ==
  ASSUME NEW a \in Int, NEW b \in Int, Congruent(a, b)
  PROVE  \E n \in Int : a = b + n * Q
<1>1. (a - b) % 3329 = 0
  BY SMT DEF Congruent, Q
<1>2. a = b + ((a - b) \div 3329) * 3329 /\ (a - b) \div 3329 \in Int
  BY <1>1, SMT
<1> DEFINE n == (a - b) \div 3329
<1>3. n \in Int /\ a = b + n * Q
  BY <1>2, SMT DEF Q
<1> HIDE DEF n
<1> QED
  BY <1>3

\* Congruence is an equivalence.
LEMMA ClassOfItself ==
  ASSUME NEW a \in Int
  PROVE  Congruent(a, a)
BY SMT DEF Congruent, Q

\* Congruence modulo q is symmetric, transitive and kept by - and *.
LEMMA ClassBack ==
  ASSUME NEW a \in Int, NEW b \in Int, Congruent(a, b)
  PROVE  Congruent(b, a)
<1>1. PICK n \in Int : a = b + n * Q
  BY ClassDiffers
<1> DEFINE z == -n
<1>2. b = a + z * Q /\ z \in Int
  BY <1>1, SMT DEF Q
<1>3. Multiple(b, a)
  BY <1>2, Zenon DEF Multiple
<1> QED
  BY <1>3, MultipleCongruent

LEMMA ClassOn ==
  ASSUME NEW a \in Int, NEW b \in Int, NEW e \in Int, Congruent(a, b), Congruent(b, e)
  PROVE  Congruent(a, e)
<1>1. PICK n \in Int : a = b + n * Q
  BY ClassDiffers
<1>2. PICK m \in Int : b = e + m * Q
  BY ClassDiffers
<1> DEFINE z == n + m
<1>3. a = e + z * Q /\ z \in Int
  BY <1>1, <1>2, SMT DEF Q
<1>4. Multiple(a, e)
  BY <1>3, Zenon DEF Multiple
<1> QED
  BY <1>4, MultipleCongruent

\* Congruent numbers have congruent sums, differences and products.
LEMMA ClassSum ==
  ASSUME NEW a \in Int, NEW b \in Int, NEW e \in Int, NEW f \in Int,
         Congruent(a, b), Congruent(e, f)
  PROVE  Congruent(a + e, b + f)
<1>1. PICK n \in Int : a = b + n * Q
  BY ClassDiffers
<1>2. PICK m \in Int : e = f + m * Q
  BY ClassDiffers
<1> DEFINE s == a + e
           t == b + f
           z == n + m
<1>3. s = t + z * Q /\ z \in Int /\ s \in Int /\ t \in Int
  BY <1>1, <1>2, SMT DEF Q
<1>4. Congruent(s, t)
  <2> HIDE DEF s, t, z
  <2>1. Multiple(s, t)
    BY <1>3, Zenon DEF Multiple
  <2> QED
    BY <2>1, <1>3, MultipleCongruent
<1> QED
  BY <1>4

LEMMA ClassDifference ==
  ASSUME NEW a \in Int, NEW b \in Int, NEW e \in Int, NEW f \in Int,
         Congruent(a, b), Congruent(e, f)
  PROVE  Congruent(a - e, b - f)
<1>1. PICK n \in Int : a = b + n * Q
  BY ClassDiffers
<1>2. PICK m \in Int : e = f + m * Q
  BY ClassDiffers
<1> DEFINE s == a - e
           t == b - f
           z == n - m
<1>3. s = t + z * Q /\ z \in Int /\ s \in Int /\ t \in Int
  BY <1>1, <1>2, SMT DEF Q
<1>4. Congruent(s, t)
  <2> HIDE DEF s, t, z
  <2>1. Multiple(s, t)
    BY <1>3, Zenon DEF Multiple
  <2> QED
    BY <2>1, <1>3, MultipleCongruent
<1> QED
  BY <1>4

LEMMA ClassProduct ==
  ASSUME NEW a \in Int, NEW b \in Int, NEW e \in Int, NEW f \in Int,
         Congruent(a, b), Congruent(e, f)
  PROVE  Congruent(a * e, b * f)
<1>1. PICK n \in Int : a = b + n * Q
  BY ClassDiffers
<1>2. PICK m \in Int : e = f + m * Q
  BY ClassDiffers
<1> DEFINE s == a * e
           t == b * f
           z == n * f + b * m + Q * (n * m)
<1>3. s = t + z * Q
  BY <1>1, <1>2, SMT DEF Q
<1>4. z \in Int /\ s \in Int /\ t \in Int
  BY SMT DEF Q
<1>5. Congruent(s, t)
  <2> HIDE DEF s, t, z
  <2>1. Multiple(s, t)
    BY <1>3, <1>4, Zenon DEF Multiple
  <2> QED
    BY <2>1, <1>3, <1>4, MultipleCongruent
<1> QED
  BY <1>5

\* A number is congruent to its remainder.
LEMMA ClassOfRemainder ==
  ASSUME NEW a \in Int
  PROVE  Congruent(a, a % Q) /\ a % Q \in Int
<1>1. a = (a % 3329) + (a \div 3329) * 3329 /\ a % 3329 \in Int /\ a \div 3329 \in Int
  BY SMT
<1>2. Multiple(a, a % Q)
  BY <1>1, SMT DEF Multiple, Q
<1> QED
  BY <1>1, <1>2, MultipleCongruent DEF Q

-----------------------------------------------------------------------------
\* The powers of the root of unity.

\* The table, entry by entry.
LEMMA ZetaEntry ==
  ASSUME NEW a \in Index
  PROVE  Zeta[a] \in 0 .. Q - 1
BY RootsAssumption, Zenon

LEMMA ZetaTimes ==
  ASSUME NEW a \in Index, NEW b \in Index
  PROVE  (Zeta[a] * Zeta[b]) % Q = Zeta[(a + b) % 256]
BY RootsAssumption, ZenonT(40)

\* Every exponent gives a residue.
LEMMA ZetaType ==
  ASSUME NEW e \in Int
  PROVE  /\ e % 256 \in Index
         /\ Zeta[e % 256] \in Int /\ 0 <= Zeta[e % 256] /\ Zeta[e % 256] <= 3328
<1>1. e % 256 \in Index
  BY SMT DEF Index
<1> DEFINE z == Zeta[e % 256]
<1>2. z \in 0 .. Q - 1
  BY <1>1, ZetaEntry, Zenon
<1>3. z \in Int /\ 0 <= z /\ z <= 3328
  <2> HIDE DEF z
  <2> QED
    BY <1>2, SMT DEF Q
<1> QED
  BY <1>1, <1>3

\* Exponents add up.
LEMMA ZetaSum ==
  ASSUME NEW e \in Int, NEW f \in Int
  PROVE  Congruent(Zeta[e % 256] * Zeta[f % 256], Zeta[(e + f) % 256])
<1>a. PICK a \in Index : a = e % 256
  BY ZetaType
<1>b. PICK b \in Index : b = f % 256
  BY ZetaType
<1>2. (a + b) % 256 = (e + f) % 256
  BY <1>a, <1>b, SMT
<1>3. (Zeta[a] * Zeta[b]) % Q = Zeta[(a + b) % 256]
  BY <1>a, <1>b, ZetaTimes, SMT
<1>4. Zeta[a] \in Int /\ Zeta[b] \in Int
  BY ZetaType, <1>a, <1>b
<1> DEFINE p == Zeta[a] * Zeta[b]
<1>5. p \in Int
  BY <1>4, SMT
<1> HIDE DEF p
<1>6. Congruent(p, p % Q)
  BY <1>5, ClassOfRemainder
<1> QED
  BY <1>6, <1>3, <1>2, <1>a, <1>b DEF p

\* Half a turn changes the sign, and a whole one nothing.
LEMMA ZetaHalfTurn ==
  ASSUME NEW e \in Int
  PROVE  Congruent(Zeta[(e + 128) % 256], -Zeta[e % 256])
<1> DEFINE z == Zeta[e % 256]
           w == Zeta[(e + 128) % 256]
<1>1. z \in Int /\ w \in Int /\ e + 128 \in Int
  BY ZetaType, SMT
<1>2. 128 % 256 = 128
  BY SMT
<1>3. Congruent(z * Zeta[128 % 256], w)
  BY ZetaSum
<1>4. Zeta[128 % 256] = Q - 1
  BY <1>2, RootsAssumption
<1> HIDE DEF z, w
<1>5. Congruent(z * (Q - 1), w)
  BY <1>3, <1>4
<1> DEFINE p == z * (Q - 1)
           y == -z
<1>6. p \in Int /\ y \in Int /\ p = y + z * Q
  BY <1>1, SMT DEF Q
<1>7. Multiple(p, y)
  <2> HIDE DEF p, y
  <2> QED
    BY <1>1, <1>6 DEF Multiple
<1>8. Congruent(p, y)
  <2> HIDE DEF p, y
  <2> QED
    BY <1>6, <1>7, MultipleCongruent
<1>9. Congruent(w, y)
  <2>1. Congruent(p, w)
    BY <1>5
  <2> HIDE DEF p, y
  <2>2. Congruent(w, p)
    BY <2>1, <1>1, <1>6, ClassBack
  <2> QED
    BY <2>2, <1>8, <1>1, <1>6, ClassOn
<1> QED
  BY <1>9 DEF z, w

LEMMA ZetaTurns ==
  ASSUME NEW e \in Int, NEW n \in Int
  PROVE  Zeta[(e + 256 * n) % 256] = Zeta[e % 256]
<1>1. (e + 256 * n) % 256 = e % 256
  BY SMT
<1> QED
  BY <1>1

\* The same, of powers.
LEMMA PowerType ==
  ASSUME NEW e \in Int
  PROVE  Power(e) \in Int /\ 0 <= Power(e) /\ Power(e) <= 3328
BY ZetaType, SMT DEF Power

\* Powers of 17 multiply by adding their exponents, modulo q.
LEMMA PowerSum ==
  ASSUME NEW e \in Int, NEW f \in Int
  PROVE  Congruent(Power(e) * Power(f), Power(e + f))
BY ZetaSum, ZenonT(40) DEF Power

\* 17^128 is -1.
LEMMA PowerHalfTurn ==
  ASSUME NEW e \in Int
  PROVE  Congruent(Power(e + 128), -Power(e))
BY ZetaHalfTurn, Zenon DEF Power

\* 17^256 is 1.
LEMMA PowerTurns ==
  ASSUME NEW e \in Int, NEW n \in Int
  PROVE  Power(e + 256 * n) = Power(e)
BY ZetaTurns, ZenonT(40) DEF Power

-----------------------------------------------------------------------------
\* The layers: the n-th has stride len, and its count of groups is also the
\* first of its zetas.
LayerShape(n, len, count) ==
  \/ n = 0 /\ len = 128 /\ count = 1
  \/ n = 1 /\ len = 64 /\ count = 2
  \/ n = 2 /\ len = 32 /\ count = 4
  \/ n = 3 /\ len = 16 /\ count = 8
  \/ n = 4 /\ len = 8 /\ count = 16
  \/ n = 5 /\ len = 4 /\ count = 32
  \/ n = 6 /\ len = 2 /\ count = 64

\* The powers of two of the layers.
LEMMA SmallPowers ==
  /\ 2^0 = 1 /\ 2^1 = 2 /\ 2^2 = 4 /\ 2^3 = 8 /\ 2^4 = 16 /\ 2^5 = 32 /\ 2^6 = 64 /\ 2^7 = 128
<1>1. 2^0 = 1 /\ 2^1 = 2 /\ 2^2 = 4 /\ 2^3 = 8
  BY SMT
<1>2. 2^4 = 16 /\ 2^5 = 32 /\ 2^6 = 64 /\ 2^7 = 128
  BY SMT
<1> QED
  BY <1>1, <1>2

\* What NTT_SERIES and the counts are in each layer.
LEMMA ShapeOfLayer ==
  ASSUME NEW n \in 0 .. 6
  PROVE  /\ LayerShape(n, NTT_SERIES[n + 1], 2^n) /\ 2^(n + 1) = 2 * 2^n
         /\ Groups(NTT_SERIES[n + 1]) = 2^n
<1>1. CASE n = 0
  BY <1>1, SmallPowers, SMT DEF LayerShape, NTT_SERIES, Groups, HALF
<1>2. CASE n = 1
  BY <1>2, SmallPowers, SMT DEF LayerShape, NTT_SERIES, Groups, HALF
<1>3. CASE n = 2
  BY <1>3, SmallPowers, SMT DEF LayerShape, NTT_SERIES, Groups, HALF
<1>4. CASE n = 3
  BY <1>4, SmallPowers, SMT DEF LayerShape, NTT_SERIES, Groups, HALF
<1>5. CASE n = 4
  BY <1>5, SmallPowers, SMT DEF LayerShape, NTT_SERIES, Groups, HALF
<1>6. CASE n = 5
  BY <1>6, SmallPowers, SMT DEF LayerShape, NTT_SERIES, Groups, HALF
<1>7. CASE n = 6
  BY <1>7, SmallPowers, SMT DEF LayerShape, NTT_SERIES, Groups, HALF
<1> QED
  BY <1>1, <1>2, <1>3, <1>4, <1>5, <1>6, <1>7, SMT

\* The lengths of the blocks before and after a layer.
LEMMA BlockLengths ==
  ASSUME NEW n, NEW len, NEW count, LayerShape(n, len, count)
  PROVE  /\ n \in 0 .. 6 /\ 256 \div 2^n = 2 * len /\ 256 \div 2^(n + 1) = len /\ count = 2^n
<1> DEFINE Shape == n \in 0 .. 6 /\ 256 \div 2^n = 2 * len /\ 256 \div 2^(n + 1) = len /\ count = 2^n
<1>1. ASSUME n = 0 /\ len = 128 /\ count = 1 PROVE Shape
  BY <1>1, SmallPowers, SMT
<1>2. ASSUME n = 1 /\ len = 64 /\ count = 2 PROVE Shape
  BY <1>2, SmallPowers, SMT
<1>3. ASSUME n = 2 /\ len = 32 /\ count = 4 PROVE Shape
  BY <1>3, SmallPowers, SMT
<1>4. ASSUME n = 3 /\ len = 16 /\ count = 8 PROVE Shape
  BY <1>4, SmallPowers, SMT
<1>5. ASSUME n = 4 /\ len = 8 /\ count = 16 PROVE Shape
  BY <1>5, SmallPowers, SMT
<1>6. ASSUME n = 5 /\ len = 4 /\ count = 32 PROVE Shape
  BY <1>6, SmallPowers, SMT
<1>7. ASSUME n = 6 /\ len = 2 /\ count = 64 PROVE Shape
  BY <1>7, SmallPowers, SMT
<1>8. Shape
  BY <1>1, <1>2, <1>3, <1>4, <1>5, <1>6, <1>7, Zenon DEF LayerShape
<1> QED
  BY <1>8

\* A residue by its block's root and the place in it.
LEMMA ResidueBefore ==
  ASSUME NEW n, NEW len, NEW count, LayerShape(n, len, count), NEW e, NEW j,
         NEW b, j \div (2 * len) = b, NEW s, j % (2 * len) = s, NEW r, Root[n][b] = r
  PROVE  Residue(e, n, j) = ResidueIn(e, r, 2 * len, s)
<1>1. 256 \div 2^n = 2 * len
  BY BlockLengths, Zenon
<1>2. Residue(e, n, j) = ResidueIn(e, Root[n][j \div (256 \div 2^n)], 256 \div 2^n, j % (256 \div 2^n))
  BY Zenon DEF Residue
<1> QED
  BY <1>1, <1>2, ZenonT(40)

\* The residue after a layer, from the root of its block.
LEMMA ResidueAfter ==
  ASSUME NEW n, NEW len, NEW count, LayerShape(n, len, count), NEW e, NEW j,
         NEW b, j \div len = b, NEW s, j % len = s, NEW r, Root[n + 1][b] = r
  PROVE  Residue(e, n + 1, j) = ResidueIn(e, r, len, s)
<1>1. 256 \div 2^(n + 1) = len
  BY BlockLengths, Zenon
<1>2. Residue(e, n + 1, j)
        = ResidueIn(e, Root[n + 1][j \div (256 \div 2^(n + 1))], 256 \div 2^(n + 1), j % (256 \div 2^(n + 1)))
  BY Zenon DEF Residue
<1> QED
  BY <1>1, <1>2, Zenon

\* The two places of a butterfly: its low one's block is even, and within it
\* both are at the same place.
LowPlace(j, len, count, b) ==
  /\ b \in Int /\ 0 <= b /\ b <= count - 1
  /\ j + len \in Index /\ ~IsLow(j + len, len) /\ Group(j + len, len) = b
  /\ j \div len = 2 * b /\ (j + len) \div len = 2 * b + 1
  /\ (j + len) \div (2 * len) = b
  /\ j % len = j % (2 * len) /\ (j + len) % len = j % (2 * len)
  /\ (j + len) % (2 * len) = (j % (2 * len)) + len
  /\ j % (2 * len) \in Int /\ 0 <= j % (2 * len) /\ j % (2 * len) < len

\* The lower half of a group has a place and a partner in it.
LEMMA PlaceOfLow ==
  ASSUME NEW n, NEW len, NEW count, LayerShape(n, len, count), NEW j \in Index, IsLow(j, len)
  PROVE  LowPlace(j, len, count, Group(j, len))
<1>1. ASSUME n = 0, len = 128, count = 1 PROVE LowPlace(j, len, count, Group(j, len))
  BY <1>1, SMTT(30) DEF LowPlace, IsLow, Group, Index
<1>2. ASSUME n = 1, len = 64, count = 2 PROVE LowPlace(j, len, count, Group(j, len))
  BY <1>2, SMTT(30) DEF LowPlace, IsLow, Group, Index
<1>3. ASSUME n = 2, len = 32, count = 4 PROVE LowPlace(j, len, count, Group(j, len))
  BY <1>3, SMTT(30) DEF LowPlace, IsLow, Group, Index
<1>4. ASSUME n = 3, len = 16, count = 8 PROVE LowPlace(j, len, count, Group(j, len))
  BY <1>4, SMTT(30) DEF LowPlace, IsLow, Group, Index
<1>5. ASSUME n = 4, len = 8, count = 16 PROVE LowPlace(j, len, count, Group(j, len))
  BY <1>5, SMTT(30) DEF LowPlace, IsLow, Group, Index
<1>6. ASSUME n = 5, len = 4, count = 32 PROVE LowPlace(j, len, count, Group(j, len))
  BY <1>6, SMTT(30) DEF LowPlace, IsLow, Group, Index
<1>7. ASSUME n = 6, len = 2, count = 64 PROVE LowPlace(j, len, count, Group(j, len))
  BY <1>7, SMTT(30) DEF LowPlace, IsLow, Group, Index
<1> QED
  BY <1>1, <1>2, <1>3, <1>4, <1>5, <1>6, <1>7, Zenon DEF LayerShape

\* Every other place is the high one of a butterfly.
LEMMA PlaceOfHigh ==
  ASSUME NEW n, NEW len, NEW count, LayerShape(n, len, count), NEW j \in Index, ~IsLow(j, len)
  PROVE  j - len \in Index /\ IsLow(j - len, len) /\ Group(j - len, len) = Group(j, len)
         /\ j = (j - len) + len
<1> DEFINE Goal == j - len \in Index /\ IsLow(j - len, len) /\ Group(j - len, len) = Group(j, len)
                   /\ j = (j - len) + len
<1>1. ASSUME n = 0, len = 128, count = 1 PROVE Goal
  BY <1>1, SMTT(30) DEF IsLow, Group, Index
<1>2. ASSUME n = 1, len = 64, count = 2 PROVE Goal
  BY <1>2, SMTT(30) DEF IsLow, Group, Index
<1>3. ASSUME n = 2, len = 32, count = 4 PROVE Goal
  BY <1>3, SMTT(30) DEF IsLow, Group, Index
<1>4. ASSUME n = 3, len = 16, count = 8 PROVE Goal
  BY <1>4, SMTT(30) DEF IsLow, Group, Index
<1>5. ASSUME n = 4, len = 8, count = 16 PROVE Goal
  BY <1>5, SMTT(30) DEF IsLow, Group, Index
<1>6. ASSUME n = 5, len = 4, count = 32 PROVE Goal
  BY <1>6, SMTT(30) DEF IsLow, Group, Index
<1>7. ASSUME n = 6, len = 2, count = 64 PROVE Goal
  BY <1>7, SMTT(30) DEF IsLow, Group, Index
<1> QED
  BY <1>1, <1>2, <1>3, <1>4, <1>5, <1>6, <1>7, Zenon DEF LayerShape

\* An exponent's block is halved like a place's.
LEMMA ExponentHalved ==
  ASSUME NEW n, NEW len, NEW count, LayerShape(n, len, count), NEW e \in Nat
  PROVE  /\ e \div (2 * len) \in Int /\ e % (2 * len) \in Int
         /\ \/ /\ e % (2 * len) < len /\ e % len = e % (2 * len)
               /\ e \div len = 2 * (e \div (2 * len))
            \/ /\ len <= e % (2 * len) /\ e % len = (e % (2 * len)) - len
               /\ e \div len = 2 * (e \div (2 * len)) + 1
<1> DEFINE Goal == /\ e \div (2 * len) \in Int /\ e % (2 * len) \in Int
                   /\ \/ /\ e % (2 * len) < len /\ e % len = e % (2 * len)
                         /\ e \div len = 2 * (e \div (2 * len))
                      \/ /\ len <= e % (2 * len) /\ e % len = (e % (2 * len)) - len
                         /\ e \div len = 2 * (e \div (2 * len)) + 1
<1>1. ASSUME n = 0, len = 128, count = 1 PROVE Goal
  BY <1>1, SMTT(30)
<1>2. ASSUME n = 1, len = 64, count = 2 PROVE Goal
  BY <1>2, SMTT(30)
<1>3. ASSUME n = 2, len = 32, count = 4 PROVE Goal
  BY <1>3, SMTT(30)
<1>4. ASSUME n = 3, len = 16, count = 8 PROVE Goal
  BY <1>4, SMTT(30)
<1>5. ASSUME n = 4, len = 8, count = 16 PROVE Goal
  BY <1>5, SMTT(30)
<1>6. ASSUME n = 5, len = 4, count = 32 PROVE Goal
  BY <1>6, SMTT(30)
<1>7. ASSUME n = 6, len = 2, count = 64 PROVE Goal
  BY <1>7, SMTT(30)
<1> QED
  BY <1>1, <1>2, <1>3, <1>4, <1>5, <1>6, <1>7, Zenon DEF LayerShape

\* What the roots and the zetas of a layer are.
LEMMA RootSplit ==
  ASSUME NEW n, NEW len, NEW count, LayerShape(n, len, count),
         NEW b \in Int, 0 <= b, b <= count - 1, NEW r, r = Root[n + 1][2 * b]
  PROVE  /\ r \in Int /\ 0 <= r /\ r <= 127
         /\ Root[n][b] = 2 * r
         /\ Root[n + 1][2 * b + 1] = r + 128
         /\ ZETA_RAW[count + b] = Zeta[r]
         /\ (ZETA_RAW[2 * count - 1 - b] * Zeta[r]) % Q = Q - 1
<1>1. n \in 0 .. 6 /\ count = 2^n /\ 2^(n + 1) = 2 * count
  <2>1. n \in 0 .. 6 /\ count = 2^n
    BY BlockLengths, ZenonT(40)
  <2> QED
    BY <2>1, ShapeOfLayer
<1>2. b \in 0 .. 2^n - 1
  <2>1. count \in Int
    BY SMT DEF LayerShape
  <2> QED
    BY <1>1, <2>1, SMT
<1>3. LET root == Root[n + 1][2 * b]
      IN /\ root \in 0 .. 127
         /\ Root[n][b] = 2 * root /\ Root[n + 1][2 * b + 1] = root + 128
         /\ ZETA_RAW[2^n + b] = Zeta[root]
         /\ (ZETA_RAW[2^(n + 1) - 1 - b] * Zeta[root]) % Q = Q - 1
  BY <1>1, <1>2, RootsAssumption, ZenonT(40)
<1>4. r \in Int /\ 0 <= r /\ r <= 127
  <2>1. r \in 0 .. 127
    BY <1>3, Zenon
  <2> QED
    BY <2>1, SMT
<1>5. /\ Root[n][b] = 2 * r /\ Root[n + 1][2 * b + 1] = r + 128
      /\ ZETA_RAW[2^n + b] = Zeta[r]
      /\ (ZETA_RAW[2^(n + 1) - 1 - b] * Zeta[r]) % Q = Q - 1
  BY <1>3, Zenon
<1> QED
  BY <1>1, <1>4, <1>5, Zenon

\* The exponents that a layer's two halves ask for.
LEMMA HalvesOfExponent ==
  ASSUME NEW r \in Int, NEW a \in Int
  PROVE  /\ (2 * r) * a \in Int
         /\ r * (2 * a) = (2 * r) * a
         /\ (r + 128) * (2 * a) = (2 * r) * a + 256 * a
         /\ r * (2 * a + 1) = (2 * r) * a + r
         /\ (r + 128) * (2 * a + 1) = ((2 * r) * a + r + 128) + 256 * a
BY SMT

\* With the powers that they name.
LEMMA PowersOfHalves ==
  ASSUME NEW r \in Int, NEW a \in Int
  PROVE  /\ Power(r * (2 * a)) = Power((2 * r) * a)
         /\ Power((r + 128) * (2 * a)) = Power((2 * r) * a)
         /\ Congruent(Power(r * (2 * a + 1)), Power(r) * Power((2 * r) * a))
         /\ Congruent(Power((r + 128) * (2 * a + 1)), -(Power(r) * Power((2 * r) * a)))
<1>p. PICK p \in Int : p = (2 * r) * a
  BY SMT
<1>1. Power(r * (2 * a)) = Power(p)
  BY <1>p, HalvesOfExponent
<1>2. Power((r + 128) * (2 * a)) = Power(p + 256 * a)
  BY <1>p, HalvesOfExponent
<1>3. Power(p + 256 * a) = Power(p)
  BY <1>p, PowerTurns, ZenonT(40)
<1>4. Power(r * (2 * a + 1)) = Power(p + r)
  BY <1>p, HalvesOfExponent
<1>5. PICK q \in Int : q = p + r
  BY <1>p, SMT
<1>6. Power((r + 128) * (2 * a + 1)) = Power((q + 128) + 256 * a)
  BY <1>p, <1>5, HalvesOfExponent
<1>7. PICK w \in Int : w = q + 128
  BY <1>5, SMT
<1>8. Power(w + 256 * a) = Power(w)
  BY <1>7, PowerTurns, ZenonT(40)
<1>9. Congruent(Power(w), -Power(q))
  BY <1>5, <1>7, PowerHalfTurn, Zenon
<1>10. /\ Power(p) \in Int /\ Power(r) \in Int /\ Power(q) \in Int /\ Power(w) \in Int
  BY <1>p, <1>5, <1>7, PowerType
<1>11. Congruent(Power(p) * Power(r), Power(q))
  BY <1>p, <1>5, PowerSum, Zenon
<1>12. PICK z \in Int : z = Power(r) * Power(p)
  BY <1>10, SMT
<1>13. Congruent(z, Power(q))
  <2>1. z = Power(p) * Power(r)
    BY <1>10, <1>12, SMT
  <2> QED
    BY <2>1, <1>11
<1>14. Congruent(Power(q), z)
  BY <1>13, <1>12, <1>10, ClassBack
<1>15. Congruent(-Power(q), -z)
  <2>1. Congruent(0 - Power(q), 0 - z)
    BY <1>14, <1>10, <1>12, ClassDifference, ClassOfItself
  <2>2. 0 - Power(q) = -Power(q) /\ 0 - z = -z
    BY <1>10, <1>12, SMT
  <2> QED
    BY <2>1, <2>2
<1>16. Congruent(Power(w), -z)
  <2>1. -Power(q) \in Int /\ -z \in Int
    BY <1>10, <1>12, SMT
  <2> QED
    BY <2>1, <1>9, <1>15, <1>10, ClassOn
<1>17. Power((2 * r) * a) = Power(p)
  BY <1>p
<1>18. Power((r + 128) * (2 * a + 1)) = Power(w)
  BY <1>6, <1>7, <1>8
<1> QED
  BY <1>1, <1>2, <1>3, <1>4, <1>5, <1>12, <1>14, <1>16, <1>17, <1>18

\* A monomial's residues after a layer are the butterfly of those before.
LEMMA Twist ==
  ASSUME NEW n, NEW len, NEW count, LayerShape(n, len, count), NEW e \in Nat,
         NEW j \in Index, IsLow(j, len), NEW b, b = Group(j, len),
         NEW u, u = Residue(e, n, j), NEW v, v = Residue(e, n, j + len),
         NEW lo, lo = Residue(e, n + 1, j), NEW hi, hi = Residue(e, n + 1, j + len),
         NEW z, z = ZETA_RAW[count + b]
  PROVE  /\ u \in Int /\ v \in Int /\ lo \in Int /\ hi \in Int /\ z \in Int
         /\ Congruent(lo, u + z * v) /\ Congruent(hi, u - z * v)
<1> DEFINE a == e \div (2 * len)
           s == j % (2 * len)
           t == e % (2 * len)
<1>r. PICK r : r = Root[n + 1][2 * b]
  BY Zenon
<1>1. LowPlace(j, len, count, b)
  BY PlaceOfLow
<1>b. b = j \div (2 * len)
  BY DEF Group
<1>2. /\ b \in Int /\ 0 <= b /\ b <= count - 1 /\ s \in Int /\ 0 <= s /\ s < len
      /\ j \div len = 2 * b /\ (j + len) \div len = 2 * b + 1 /\ (j + len) \div (2 * len) = b
      /\ j % len = s /\ (j + len) % len = s /\ (j + len) % (2 * len) = s + len
      /\ j \div (2 * len) = b
  BY <1>1, <1>b, Zenon DEF LowPlace
<1>3. /\ r \in Int /\ 0 <= r /\ r <= 127
  BY <1>2, <1>r, RootSplit
<1>15. /\ Root[n][b] = 2 * r /\ Root[n + 1][2 * b + 1] = r + 128 /\ z = Zeta[r]
  BY <1>2, <1>r, RootSplit
<1>4. z = Power(r)
  <2>1. r % 256 = r
    BY <1>3, SMT
  <2> QED
    BY <1>15, <2>1, Zenon DEF Power
<1>5. /\ u = ResidueIn(e, 2 * r, 2 * len, s) /\ v = ResidueIn(e, 2 * r, 2 * len, s + len)
      /\ lo = ResidueIn(e, r, len, s) /\ hi = ResidueIn(e, r + 128, len, s)
  <2>1. u = ResidueIn(e, 2 * r, 2 * len, s)
    BY <1>2, <1>15, ResidueBefore
  <2>2. v = ResidueIn(e, 2 * r, 2 * len, s + len)
    BY <1>2, <1>15, ResidueBefore
  <2>3. lo = ResidueIn(e, r, len, s)
    BY <1>2, <1>r, ResidueAfter
  <2>4. hi = ResidueIn(e, r + 128, len, s)
    BY <1>2, <1>15, ResidueAfter
  <2> QED
    BY <2>1, <2>2, <2>3, <2>4, Zenon
<1>14. /\ u = IF s = t THEN Power((2 * r) * a) ELSE 0
       /\ v = IF s + len = t THEN Power((2 * r) * a) ELSE 0
       /\ lo = IF s = e % len THEN Power(r * (e \div len)) ELSE 0
       /\ hi = IF s = e % len THEN Power((r + 128) * (e \div len)) ELSE 0
  BY <1>5 DEF ResidueIn
<1>6. /\ a \in Int /\ t \in Int /\ len \in Int
      /\ \/ t < len /\ e % len = t /\ e \div len = 2 * a
         \/ len <= t /\ e % len = t - len /\ e \div len = 2 * a + 1
  <2>1. len \in Int
    BY SMT DEF LayerShape
  <2> QED
    BY <2>1, ExponentHalved, Zenon
<1> HIDE DEF a, s, t
<1>7. PICK w \in Int : w = Power((2 * r) * a)
  <2>1. (2 * r) * a \in Int
    BY <1>3, <1>6, HalvesOfExponent
  <2> QED
    BY <2>1, PowerType
<1>8. z \in Int
  BY <1>3, <1>4, PowerType
<1>9. PICK p \in Int : p = z * w
  BY <1>7, <1>8, SMT
<1>10. /\ Power(r * (2 * a)) = w /\ Power((r + 128) * (2 * a)) = w
       /\ Congruent(Power(r * (2 * a + 1)), p) /\ Congruent(Power((r + 128) * (2 * a + 1)), -p)
  <2>1. /\ Power(r * (2 * a)) = Power((2 * r) * a)
        /\ Power((r + 128) * (2 * a)) = Power((2 * r) * a)
        /\ Congruent(Power(r * (2 * a + 1)), Power(r) * Power((2 * r) * a))
        /\ Congruent(Power((r + 128) * (2 * a + 1)), -(Power(r) * Power((2 * r) * a)))
    BY <1>3, <1>6, PowersOfHalves, Zenon
  <2> QED
    BY <2>1, <1>4, <1>7, <1>9, Zenon
<1>11. /\ Power(r * (2 * a + 1)) \in Int /\ Power((r + 128) * (2 * a + 1)) \in Int
  <2>1. r * (2 * a + 1) \in Int /\ (r + 128) * (2 * a + 1) \in Int
    BY <1>3, <1>6, SMT
  <2> QED
    BY <2>1, PowerType
<1>12. CASE t < len /\ e % len = t /\ e \div len = 2 * a
  <2>1. v = 0
    BY <1>12, <1>14, <1>2, <1>6, SMT
  <2>2. u = IF s = t THEN w ELSE 0
    BY <1>14, <1>7
  <2>3. lo = u /\ hi = u
    BY <1>12, <1>14, <1>10, <2>2
  <2>4. u \in Int
    BY <2>2, <1>7
  <2>5. u + z * v = u /\ u - z * v = u
    BY <1>8, <2>1, <2>4, SMT
  <2> QED
    BY <2>1, <2>3, <2>4, <2>5, <1>8, ClassOfItself
<1>13. CASE len <= t /\ e % len = t - len /\ e \div len = 2 * a + 1
  <2>1. u = 0
    BY <1>13, <1>14, <1>2, <1>6, SMT
  <2>2. CASE s + len = t
    <3>1. v = w /\ s = t - len
      BY <2>2, <1>14, <1>7, <1>2, <1>6, SMT
    <3>2. lo = Power(r * (2 * a + 1)) /\ hi = Power((r + 128) * (2 * a + 1))
      BY <3>1, <1>13, <1>14
    <3>3. u + z * v = p /\ u - z * v = -p
      BY <2>1, <3>1, <1>9, <1>8, SMT
    <3> QED
      BY <2>1, <3>1, <3>2, <3>3, <1>7, <1>8, <1>10, <1>11
  <2>3. CASE s + len # t
    <3>1. v = 0 /\ s # t - len
      BY <2>3, <1>14, <1>2, <1>6, SMT
    <3>2. lo = 0 /\ hi = 0
      BY <3>1, <1>13, <1>14
    <3>3. u + z * v = 0 /\ u - z * v = 0
      BY <2>1, <3>1, <1>8, SMT
    <3> QED
      BY <2>1, <3>1, <3>2, <3>3, <1>8, ClassOfItself
  <2> QED
    BY <2>2, <2>3
<1> QED
  BY <1>6, <1>12, <1>13

\* u and v before a butterfly, lo and hi after it, with the zeta z.
Twisted(u, v, lo, hi, z) ==
  /\ u \in Int /\ v \in Int /\ lo \in Int /\ hi \in Int /\ z \in Int
  /\ Congruent(lo, u + z * v) /\ Congruent(hi, u - z * v)

LEMMA NoughtTwisted ==
  ASSUME NEW z \in Int
  PROVE  Twisted(0, 0, 0, 0, z)
<1>1. 0 + z * 0 = 0 /\ 0 - z * 0 = 0
  BY SMT
<1> QED
  BY <1>1, ClassOfItself DEF Twisted

\* Butterflies may be added up.
LEMMA TwistSum ==
  ASSUME NEW z, NEW u, NEW v, NEW lo, NEW hi, Twisted(u, v, lo, hi, z),
         NEW s, NEW t, NEW f, NEW g, Twisted(s, t, f, g, z)
  PROVE  Twisted(u + s, v + t, lo + f, hi + g, z)
<1>1. /\ u \in Int /\ v \in Int /\ lo \in Int /\ hi \in Int /\ z \in Int
      /\ s \in Int /\ t \in Int /\ f \in Int /\ g \in Int
  BY DEF Twisted
<1>2. PICK p \in Int : p = z * v
  BY <1>1, SMT
<1>3. PICK q \in Int : q = z * t
  BY <1>1, SMT
<1>4. Congruent(lo, u + p) /\ Congruent(hi, u - p) /\ Congruent(f, s + q) /\ Congruent(g, s - q)
  BY <1>2, <1>3 DEF Twisted
<1>5. u + p \in Int /\ u - p \in Int /\ s + q \in Int /\ s - q \in Int
  BY <1>1, <1>2, <1>3, SMT
<1>6. Congruent(lo + f, (u + p) + (s + q)) /\ Congruent(hi + g, (u - p) + (s - q))
  BY <1>1, <1>4, <1>5, ClassSum
<1>7. (u + p) + (s + q) = (u + s) + z * (v + t) /\ (u - p) + (s - q) = (u + s) - z * (v + t)
  BY <1>1, <1>2, <1>3, SMT
<1>8. u + s \in Int /\ v + t \in Int /\ lo + f \in Int /\ hi + g \in Int
  BY <1>1, SMT
<1> QED
  BY <1>1, <1>6, <1>7, <1>8 DEF Twisted

\* What the run's exponents are.
Operands == exponent \in Nat /\ factors \in Seq(Index)

\* The i-th of the products that a polynomial may be the sum of.
Term(i, n, j) == IF i <= Len(factors) THEN Residue(exponent + factors[i], n, j) ELSE 0

LEMMA ExpectedTerms ==
  ASSUME NEW n, NEW j
  PROVE  Expected(n, j) = IF factors = <<>> THEN Residue(exponent, n, j)
                          ELSE Term(1, n, j) + Term(2, n, j) + Term(3, n, j) + Term(4, n, j)
BY Zenon DEF Expected, Term

\* Each monomial of a product splits at a layer as the butterfly does.
LEMMA TermTwisted ==
  ASSUME Operands, NEW n, NEW len, NEW count, LayerShape(n, len, count),
         NEW j \in Index, IsLow(j, len), NEW i \in Nat, i >= 1
  PROVE  Twisted(Term(i, n, j), Term(i, n, j + len), Term(i, n + 1, j), Term(i, n + 1, j + len),
                 ZETA_RAW[count + Group(j, len)])
<1> DEFINE z == ZETA_RAW[count + Group(j, len)]
<1>1. CASE i <= Len(factors)
  <2>1. PICK e \in Nat : e = exponent + factors[i]
    <3>1. factors[i] \in Index /\ exponent \in Nat
      BY <1>1, SMT DEF Operands
    <3> QED
      BY <3>1, SMT DEF Index
  <2>2. Twisted(Residue(e, n, j), Residue(e, n, j + len), Residue(e, n + 1, j),
                Residue(e, n + 1, j + len), z)
    BY Twist, Zenon DEF Twisted
  <2> QED
    BY <1>1, <2>1, <2>2, Zenon DEF Term
<1>2. CASE ~(i <= Len(factors))
  <2>1. z \in Int
    BY Twist, Zenon DEF Operands
  <2> QED
    BY <1>2, <2>1, NoughtTwisted, Zenon DEF Term
<1> QED
  BY <1>1, <1>2

\* What the run expects after a layer is a butterfly of what it expected
\* before, by the zeta that the layer takes there.
LEMMA ExpectedTwisted ==
  ASSUME Operands, NEW n, NEW len, NEW count, LayerShape(n, len, count),
         NEW j \in Index, IsLow(j, len)
  PROVE  Twisted(Expected(n, j), Expected(n, j + len), Expected(n + 1, j), Expected(n + 1, j + len),
                 ZETA_RAW[count + Group(j, len)])
<1> DEFINE z == ZETA_RAW[count + Group(j, len)]
<1>1. CASE factors = <<>>
  <2>1. Twisted(Residue(exponent, n, j), Residue(exponent, n, j + len), Residue(exponent, n + 1, j),
                Residue(exponent, n + 1, j + len), z)
    BY Twist, Zenon DEF Twisted, Operands
  <2> QED
    BY <1>1, <2>1, ExpectedTerms, Zenon
<1>2. CASE factors # <<>>
  <2> DEFINE T(i) == Twisted(Term(i, n, j), Term(i, n, j + len), Term(i, n + 1, j), Term(i, n + 1, j + len), z)
  <2>1. T(1) /\ T(2) /\ T(3) /\ T(4)
    <3>1. \A i \in Nat : i >= 1 => T(i)
      BY TermTwisted, Zenon
    <3> QED
      BY <3>1, SMT
  <2>2. Twisted(Term(1, n, j) + Term(2, n, j), Term(1, n, j + len) + Term(2, n, j + len),
                Term(1, n + 1, j) + Term(2, n + 1, j), Term(1, n + 1, j + len) + Term(2, n + 1, j + len), z)
    BY <2>1, TwistSum, Zenon
  <2>3. Twisted(Term(1, n, j) + Term(2, n, j) + Term(3, n, j),
                Term(1, n, j + len) + Term(2, n, j + len) + Term(3, n, j + len),
                Term(1, n + 1, j) + Term(2, n + 1, j) + Term(3, n + 1, j),
                Term(1, n + 1, j + len) + Term(2, n + 1, j + len) + Term(3, n + 1, j + len), z)
    BY <2>1, <2>2, TwistSum, Zenon
  <2>4. Twisted(Term(1, n, j) + Term(2, n, j) + Term(3, n, j) + Term(4, n, j),
                Term(1, n, j + len) + Term(2, n, j + len) + Term(3, n, j + len) + Term(4, n, j + len),
                Term(1, n + 1, j) + Term(2, n + 1, j) + Term(3, n + 1, j) + Term(4, n + 1, j),
                Term(1, n + 1, j + len) + Term(2, n + 1, j + len) + Term(3, n + 1, j + len)
                  + Term(4, n + 1, j + len), z)
    BY <2>1, <2>3, TwistSum, Zenon
  <2> QED
    BY <1>2, <2>4, ExpectedTerms, Zenon
<1> QED
  BY <1>1, <1>2

-----------------------------------------------------------------------------
\* The i16 of c are within the magnitudes b.
Fits(c, b) ==
  \A j \in Index : c[j] \in Int16 /\ Inside(c[j], b[j])
Under(b, m) == \A j \in Index : b[j] <= m

\* c is the expected polynomial after n layers, scaled.
Carries(c, n, scale) == \A j \in Index : Congruent(c[j], scale * Expected(n, j))

\* The most that any coefficient has reached after n layers of ntt.
LayerCap(n) == 3328 * (n + 1)

\* A reach is a magnitude, of at most 3328.
LEMMA ReachOf ==
  ASSUME NEW b \in Nat, b <= 32767, NEW r, r = Reach(b)
  PROVE  r \in Nat /\ r <= 3328 /\ 65536 * r <= 3329 * b + 109084672
         /\ 3329 * b + 109084672 < 65536 * r + 65536
<1>1. r = (3329 * b + 109084672) \div 65536
  BY SMT DEF Reach, Q
<1>2. PICK y \in Int : y = 3329 * b + 109084672 /\ 0 <= y /\ y <= 218166015
  BY SMT
<1>3. r = y \div 65536
  BY <1>1, <1>2, SMT
<1>4. r \in Int /\ 65536 * r <= y /\ y < 65536 * r + 65536
  BY <1>2, <1>3, SMT
<1> QED
  BY <1>2, <1>4, SMT

\* A magnitude that has a reach.
Roomy(b) == b <= 32767

\* Within the cap of its layer no sum leaves the i16.
LEMMA CapRoom ==
  ASSUME NEW n \in 0 .. 6, NEW b \in Nat, b <= LayerCap(n)
  PROVE  Roomy(b)
BY SMT DEF Roomy, LayerCap

\* The product of a butterfly is within it.
LEMMA ConstMulWithin ==
  ASSUME NEW a \in Int16, NEW zeta \in 1 .. Q - 1, NEW b, Inside(a, b), Roomy(b),
         NEW t, t = BarrettConstMul(a, zeta), NEW r, r = Reach(b)
  PROVE  Congruent(t, a * zeta) /\ t \in Int /\ Inside(t, r) /\ Short(r)
<1>1. Congruent(t, a * zeta) /\ Short(t) /\ Attained(t, b)
  BY ConstMulReach, Zenon
<1>2. b \in Nat
  BY DEF Inside
<1>3. r \in Nat /\ r <= 3328 /\ 3329 * b + 109084672 < 65536 * r + 65536
  <2>1. b <= 32767
    BY SMT DEF Roomy
  <2> QED
    BY <1>2, <2>1, ReachOf, SMT
<1>4. -r <= t /\ t <= r
  BY <1>1, <1>2, <1>3, SMT DEF Attained, Short
<1>5. t \in Int /\ Inside(t, r) /\ Short(r)
  BY <1>1, <1>3, <1>4, SMT DEF Inside, Short
<1> QED
  BY <1>1, <1>5

\* A butterfly neither wraps nor exceeds the magnitude counted on.
LEMMA ButterflyFits ==
  ASSUME NEW p \in Int16, NEW q \in Int16, NEW bp, NEW bq, NEW n \in 0 .. 6,
         Inside(p, bp), Inside(q, bq), bp <= LayerCap(n), bq <= LayerCap(n),
         NEW zeta \in 1 .. Q - 1, NEW t, t = BarrettConstMul(q, zeta), NEW r, r = Reach(bq)
  PROVE  /\ t \in Int /\ Congruent(t, q * zeta)
         /\ Add(p, t) = p + t /\ Sub(p, t) = p - t
         /\ p + t \in Int16 /\ p - t \in Int16
         /\ bp + r <= LayerCap(n + 1)
         /\ Inside(p + t, bp + r) /\ Inside(p - t, bp + r)
<1>0. bp \in Nat /\ bq \in Nat
  BY DEF Inside
<1>1. Congruent(t, q * zeta) /\ t \in Int /\ Inside(t, r) /\ Short(r)
  BY <1>0, CapRoom, ConstMulWithin, Zenon
<1>2. r \in Nat /\ r <= 3328 /\ -r <= t /\ t <= r
  BY <1>1, SMT DEF Inside, Short
<1>m. bp + 3328 <= LayerCap(n + 1) /\ LayerCap(n + 1) <= 32767
  BY <1>0, SMT DEF LayerCap
<1>4. p \in Int /\ -bp <= p /\ p <= bp
  BY SMT DEF Int16, Inside
<1>5. /\ bp + r \in Nat /\ bp + r <= bp + 3328
      /\ -(bp + r) <= p + t /\ p + t <= bp + r
      /\ -(bp + r) <= p - t /\ p - t <= bp + r
      /\ p + t \in Int /\ p - t \in Int
  BY <1>0, <1>1, <1>2, <1>4, SMT
<1>3. bp + r <= LayerCap(n + 1) /\ bp + r <= 32767
  <2>1. LayerCap(n + 1) \in Int
    BY SMT DEF LayerCap
  <2> QED
    BY <1>0, <1>5, <1>m, <2>1, SMT
<1>6. p + t \in Int16 /\ p - t \in Int16
  BY <1>5, <1>3, SMT DEF Int16
<1>7. Add(p, t) = p + t /\ Sub(p, t) = p - t
  BY <1>6, WrapInside, Zenon DEF Add, Sub
<1>8. Inside(p + t, bp + r) /\ Inside(p - t, bp + r)
  BY <1>5 DEF Inside
<1> QED
  BY <1>1, <1>3, <1>6, <1>7, <1>8

\* It takes the residues of one layer to those of the next.
LEMMA ButterflyCarries ==
  ASSUME NEW u, NEW v, NEW lo, NEW hi, NEW z, Twisted(u, v, lo, hi, z), NEW scale \in Int,
         NEW p \in Int, NEW q \in Int, NEW t \in Int,
         Congruent(p, scale * u), Congruent(q, scale * v), Congruent(t, q * z)
  PROVE  Congruent(p + t, scale * lo) /\ Congruent(p - t, scale * hi)
<1>1. u \in Int /\ v \in Int /\ lo \in Int /\ hi \in Int /\ z \in Int
  BY DEF Twisted
<1>2. PICK su \in Int : su = scale * u
  BY <1>1, SMT
<1>3. PICK sv \in Int : sv = scale * v
  BY <1>1, SMT
<1>4. PICK svz \in Int : svz = sv * z
  BY <1>1, SMT
<1>5. PICK vz \in Int : vz = z * v
  BY <1>1, SMT
<1>6. PICK qz \in Int : qz = q * z
  BY <1>1, SMT
<1>7. Congruent(qz, svz)
  BY <1>1, <1>3, <1>4, <1>6, ClassProduct, ClassOfItself
<1>8. Congruent(t, svz)
  BY <1>4, <1>6, <1>7, ClassOn
<1>9. Congruent(p + t, su + svz) /\ Congruent(p - t, su - svz)
  BY <1>2, <1>4, <1>8, ClassSum, ClassDifference
<1>10. u + vz \in Int /\ u - vz \in Int
  BY <1>1, <1>5, SMT
<1>11. Congruent(u + vz, lo) /\ Congruent(u - vz, hi)
  BY <1>1, <1>5, <1>10, ClassBack DEF Twisted
<1>12. Congruent(scale * (u + vz), scale * lo) /\ Congruent(scale * (u - vz), scale * hi)
  BY <1>1, <1>10, <1>11, ClassProduct, ClassOfItself
<1>13. scale * (u + vz) = su + svz /\ scale * (u - vz) = su - svz
  BY <1>1, <1>2, <1>3, <1>4, <1>5, SMT
<1>14. Congruent(su + svz, scale * lo) /\ Congruent(su - svz, scale * hi)
  BY <1>12, <1>13
<1>15. /\ su + svz \in Int /\ su - svz \in Int /\ scale * lo \in Int /\ scale * hi \in Int
       /\ p + t \in Int /\ p - t \in Int
  BY <1>1, <1>2, <1>4, SMT
<1>16. Congruent(p + t, scale * lo)
  BY <1>9, <1>14, <1>15, ClassOn
<1>17. Congruent(p - t, scale * hi)
  BY <1>9, <1>14, <1>15, ClassOn
<1> QED
  BY <1>16, <1>17

\* The zetas of a layer are units.
LEMMA LayerZeta ==
  ASSUME NEW n, NEW len, NEW count, LayerShape(n, len, count),
         NEW b \in Int, 0 <= b, b <= count - 1
  PROVE  /\ ZETA_RAW[count + b] \in 1 .. Q - 1
         /\ ZETA_RAW[2 * count - 1 - b] \in 1 .. Q - 1
         /\ count + b \in 0 .. 127 /\ 2 * count - 1 - b \in 0 .. 127
<1>1. count \in Int /\ 1 <= count /\ count <= 64
  BY SMT DEF LayerShape
<1>2. PICK k \in 0 .. 127 : k = count + b
  BY <1>1, SMT
<1>3. PICK i \in 0 .. 127 : i = 2 * count - 1 - b
  BY <1>1, SMT
<1>4. ZETA_RAW[k] \in 1 .. Q - 1 /\ ZETA_RAW[i] \in 1 .. Q - 1
  BY TablesAssumption, Zenon
<1> QED
  BY <1>2, <1>3, <1>4, Zenon

\* One butterfly of a layer of ntt, both of its places.
LEMMA LayerPair ==
  ASSUME Operands, NEW n, NEW len, NEW count, LayerShape(n, len, count),
         NEW c, NEW b, Fits(c, b), Under(b, LayerCap(n)),
         NEW scale \in Int, Carries(c, n, scale),
         NEW i \in Index, IsLow(i, len), NEW k, k = i + len,
         NEW y, y = NttLayer(c, len, count), NEW w, w = NttBound(b, len)
  PROVE  /\ y[i] \in Int16 /\ Inside(y[i], w[i]) /\ w[i] <= LayerCap(n + 1)
         /\ y[k] \in Int16 /\ Inside(y[k], w[k]) /\ w[k] <= LayerCap(n + 1)
         /\ Congruent(y[i], scale * Expected(n + 1, i))
         /\ Congruent(y[k], scale * Expected(n + 1, k))
<1> DEFINE g == Group(i, len)
           z == ZETA_RAW[count + g]
<1>1. /\ g \in Int /\ 0 <= g /\ g <= count - 1 /\ k \in Index /\ ~IsLow(k, len) /\ Group(k, len) = g
  BY PlaceOfLow, Zenon DEF LowPlace
<1>2. z \in 1 .. Q - 1
  BY <1>1, LayerZeta
<1>3. i \in Int /\ len \in Int /\ k - len = i
  BY SMT DEF LayerShape, Index
<1>n. n \in 0 .. 6
  BY BlockLengths
<1>4. PICK t : t = BarrettConstMul(c[k], z)
  BY Zenon
<1>5. PICK r : r = Reach(b[k])
  BY Zenon
<1>6. y[i] = Add(c[i], t)
  BY <1>1, <1>4, Zenon DEF NttLayer, Twiddled
<1>7. y[k] = Sub(c[i], t)
  BY <1>1, <1>3, <1>4, Zenon DEF NttLayer, Twiddled
<1>8. w[i] = b[i] + r
  BY <1>1, <1>5, Zenon DEF NttBound
<1>9. w[k] = b[i] + r
  BY <1>1, <1>3, <1>5, Zenon DEF NttBound
<1>10. /\ c[i] \in Int16 /\ Inside(c[i], b[i]) /\ b[i] <= LayerCap(n)
       /\ c[k] \in Int16 /\ Inside(c[k], b[k]) /\ b[k] <= LayerCap(n)
  BY <1>1, Zenon DEF Fits, Under
<1> HIDE DEF g, z
<1>p. PICK p \in Int16 : p = c[i]
  BY <1>10
<1>q. PICK q \in Int16 : q = c[k]
  BY <1>10
<1>11. /\ t \in Int /\ Congruent(t, q * z)
       /\ Add(p, t) = p + t /\ Sub(p, t) = p - t
       /\ p + t \in Int16 /\ p - t \in Int16
       /\ b[i] + r <= LayerCap(n + 1)
       /\ Inside(p + t, b[i] + r) /\ Inside(p - t, b[i] + r)
  <2>1. PICK e : e = b[i]
    BY Zenon
  <2>2. PICK f : f = b[k]
    BY Zenon
  <2>3. Inside(p, e) /\ Inside(q, f) /\ e <= LayerCap(n) /\ f <= LayerCap(n) /\ t = BarrettConstMul(q, z) /\ r = Reach(f)
    BY <1>p, <1>q, <2>1, <2>2, <1>10, <1>4, <1>5, Zenon
  <2>4. /\ t \in Int /\ Congruent(t, q * z)
        /\ Add(p, t) = p + t /\ Sub(p, t) = p - t
        /\ p + t \in Int16 /\ p - t \in Int16
        /\ e + r <= LayerCap(n + 1)
        /\ Inside(p + t, e + r) /\ Inside(p - t, e + r)
    BY <1>n, <1>2, <1>p, <1>q, <2>3, ButterflyFits
  <2> QED
    BY <2>1, <2>4, Zenon
<1>12. Twisted(Expected(n, i), Expected(n, k), Expected(n + 1, i), Expected(n + 1, k), z)
  BY ExpectedTwisted, Zenon DEF z, g
<1>13. Congruent(c[i], scale * Expected(n, i)) /\ Congruent(c[k], scale * Expected(n, k))
  BY <1>1, Zenon DEF Carries
<1>14. p \in Int /\ q \in Int
  BY <1>p, <1>q, SMT DEF Int16
<1>15. /\ Congruent(p + t, scale * Expected(n + 1, i))
       /\ Congruent(p - t, scale * Expected(n + 1, k))
  <2>1. Congruent(p, scale * Expected(n, i)) /\ Congruent(q, scale * Expected(n, k)) /\ Congruent(t, q * z)
    BY <1>p, <1>q, <1>11, <1>13
  <2> QED
    BY <2>1, <1>11, <1>12, <1>14, ButterflyCarries
<1> QED
  BY <1>6, <1>7, <1>8, <1>9, <1>p, <1>q, <1>11, <1>15, Zenon

\* A layer of ntt fits and carries the residues on.
LEMMA LayerForward ==
  ASSUME Operands, NEW n, NEW len, NEW count, LayerShape(n, len, count),
         NEW c, NEW b, Fits(c, b), Under(b, LayerCap(n)),
         NEW scale \in Int, Carries(c, n, scale)
  PROVE  /\ Fits(NttLayer(c, len, count), NttBound(b, len))
         /\ Under(NttBound(b, len), LayerCap(n + 1))
         /\ Carries(NttLayer(c, len, count), n + 1, scale)
<1>y. PICK y : y = NttLayer(c, len, count)
  BY Zenon
<1>w. PICK w : w = NttBound(b, len)
  BY Zenon
<1> DEFINE Here(j) == /\ y[j] \in Int16 /\ Inside(y[j], w[j]) /\ w[j] <= LayerCap(n + 1)
                      /\ Congruent(y[j], scale * Expected(n + 1, j))
<1>1. ASSUME NEW j \in Index PROVE Here(j)
  <2>1. CASE IsLow(j, len)
    BY <2>1, <1>y, <1>w, LayerPair, Zenon
  <2>2. CASE ~IsLow(j, len)
    <3>1. PICK i : i = j - len
      BY Zenon
    <3>2. i \in Index /\ IsLow(i, len) /\ j = i + len
      BY <2>2, <3>1, PlaceOfHigh
    <3> QED
      BY <3>2, <1>y, <1>w, LayerPair, Zenon
  <2> QED
    BY <2>1, <2>2
<1> QED
  BY <1>1, <1>y, <1>w, Zenon DEF Fits, Under, Carries

-----------------------------------------------------------------------------
\* The tables of the backends are the one table.
LEMMA TablesOfBackends ==
  /\ A!ZETA_RAW = ZETA_RAW /\ N!ZETA_RAW = ZETA_RAW
  /\ A!GAMMA_MONT = GAMMA_MONT /\ N!GAMMA_MONT = GAMMA_MONT
<1>1. A!ZETA_LIST = ZETA_LIST /\ N!ZETA_LIST = ZETA_LIST
  BY DEF A!ZETA_LIST, N!ZETA_LIST, ZETA_LIST
<1>2. A!GAMMA_LIST = GAMMA_LIST /\ N!GAMMA_LIST = GAMMA_LIST
  BY DEF A!GAMMA_LIST, N!GAMMA_LIST, GAMMA_LIST
<1>3. A!ZETA_RAW = ZETA_RAW /\ N!ZETA_RAW = ZETA_RAW
  BY <1>1, Zenon DEF A!ZETA_RAW, N!ZETA_RAW, ZETA_RAW
<1>4. A!GAMMA_RAW = GAMMA_RAW /\ N!GAMMA_RAW = GAMMA_RAW
  BY <1>2, Zenon DEF A!GAMMA_RAW, N!GAMMA_RAW, GAMMA_RAW
<1>5. ASSUME NEW v
      PROVE  A!ToMontgomery(A!New(v)) = ToMontgomery(New(v)) /\ N!ToMontgomery(N!New(v)) = ToMontgomery(New(v))
  BY DEF A!ToMontgomery, A!New, A!Mul, A!MontgomeryReduce, A!High, A!Low, A!Wrap16, A!DivQ, A!Q, A!QINV, A!MONT_R_SQUARED,
     N!ToMontgomery, N!New, N!Mul, N!MontgomeryReduce, N!High, N!Low, N!Wrap16, N!DivQ, N!Q, N!QINV, N!MONT_R_SQUARED,
     ToMontgomery, New, Mul, MontgomeryReduce, High, Low, Wrap16, DivQ, Q, QINV, MONT_R_SQUARED
<1> QED
  BY <1>3, <1>4, <1>5, Zenon DEF A!GAMMA_MONT, N!GAMMA_MONT, GAMMA_MONT

\* A vector's lanes are those of D, and l is y.
LaneIs(a, D, l, y) == DOMAIN a = D /\ a[l] = y

\* The sum and the difference of a butterfly with the k-th zeta.
SumOf(p, q, k) == Add(p, Twiddled(q, k))
GapOf(p, q, k) == Sub(p, Twiddled(q, k))

\* A lane of the butterflies is the butterfly of the lanes.
LEMMA ConstMulOfAvx2 ==
  ASSUME NEW a, NEW D, NEW l \in D, NEW p, LaneIs(a, D, l, p), NEW k
  PROVE  LaneIs(A!ConstMul(a, k), D, l, Twiddled(p, k))
<1> DEFINE Rounded(e) == A!Wrap16((e + 16384) \div 32768)
<1>t. PICK t : t = A!MulRounded(a, A!Broadcast(a, A!BarrettMultiplier(A!ZETA_RAW[k])))
  BY Zenon
<1>u. t = [i \in D |-> Rounded(a[i] * A!BarrettMultiplier(A!ZETA_RAW[k]))]
  BY <1>t, SMT DEF LaneIs, A!MulRounded, A!Broadcast
<1>v. \A e : Rounded(e) = Wrap16((e + 16384) \div 32768)
  BY WordsOfAvx2
<1> HIDE DEF Rounded
<1>0. /\ DOMAIN A!ConstMul(a, k) = D
      /\ A!ConstMul(a, k)[l]
           = A!Wrap16(A!Wrap16(p * A!ZETA_RAW[k])
                        - A!Wrap16(Rounded(p * A!BarrettMultiplier(A!ZETA_RAW[k])) * A!Q))
  BY <1>t, <1>u, Zenon DEF LaneIs, A!ConstMul, A!Minus, A!MulLow, A!Broadcast
<1>2. A!BarrettMultiplier(ZETA_RAW[k]) = BarrettMultiplier(ZETA_RAW[k])
  BY DEF A!BarrettMultiplier, BarrettMultiplier, A!Q, Q
<1>3. A!ConstMul(a, k)[l]
        = Wrap16(Wrap16(p * ZETA_RAW[k])
                   - Wrap16(Wrap16((p * BarrettMultiplier(ZETA_RAW[k]) + 16384) \div 32768) * Q))
  BY <1>0, <1>v, <1>2, TablesOfBackends, WordsOfAvx2
<1>4. A!ConstMul(a, k)[l] = Twiddled(p, k)
  BY <1>3 DEF Twiddled, BarrettConstMul
<1> QED
  BY <1>0, <1>4 DEF LaneIs

LEMMA ButterflyOfAvx2 ==
  ASSUME NEW a, NEW b, NEW D, NEW l \in D, NEW p, NEW q, LaneIs(a, D, l, p), LaneIs(b, D, l, q), NEW k
  PROVE  /\ LaneIs(A!Butterfly(a, b, k)[1], D, l, SumOf(p, q, k))
         /\ LaneIs(A!Butterfly(a, b, k)[2], D, l, GapOf(p, q, k))
<1>t. PICK t : t = A!ConstMul(b, k)
  BY Zenon
<1>1. LaneIs(t, D, l, Twiddled(q, k))
  BY <1>t, ConstMulOfAvx2, Zenon
<1>2. A!Butterfly(a, b, k)[1] = A!Plus(a, t) /\ A!Butterfly(a, b, k)[2] = A!Minus(a, t)
  BY <1>t DEF A!Butterfly
<1>3. LaneIs(A!Plus(a, t), D, l, A!Wrap16(p + Twiddled(q, k)))
  BY <1>1, Zenon DEF LaneIs, A!Plus
<1>4. LaneIs(A!Minus(a, t), D, l, A!Wrap16(p - Twiddled(q, k)))
  BY <1>1, Zenon DEF LaneIs, A!Minus
<1> QED
  BY <1>2, <1>3, <1>4, WordsOfAvx2 DEF SumOf, GapOf, Add, Sub

\* On NEON the quotient is not wrapped, nor is its multiple.
LEMMA ConstMulOfNeon ==
  ASSUME NEW a, NEW D, NEW l \in D, NEW p \in Int16, LaneIs(a, D, l, p), NEW k \in 0 .. 127
  PROVE  LaneIs(N!ConstMul(a, k), D, l, Twiddled(p, k))
<1>z. PICK z \in 1 .. Q - 1 : z = ZETA_RAW[k]
  BY TablesAssumption, Zenon
<1>y. PICK y : y = N!BarrettMultiplier(z)
  BY Zenon
<1>m. y = BarrettMultiplier(z) /\ y \in Int /\ 0 <= y /\ y <= 32767
  <2>1. N!BarrettMultiplier(z) = BarrettMultiplier(z)
    BY DEF N!BarrettMultiplier, BarrettMultiplier, N!Q, Q
  <2>2. BarrettMultiplier(z) = (z * 32768 + 1664) \div 3329
    BY SMT DEF BarrettMultiplier, Q
  <2>3. PICK w \in Int : w = z * 32768 + 1664 /\ 0 <= w /\ w < 32768 * 3329
    BY SMT DEF Q
  <2>4. w \div 3329 \in Int /\ 0 <= w \div 3329 /\ w \div 3329 <= 32767
    BY <2>3, SMT
  <2> QED
    BY <1>y, <2>1, <2>2, <2>3, <2>4
<1>1. /\ DOMAIN N!ConstMul(a, k) = D
      /\ N!ConstMul(a, k)[l]
           = N!Wrap16(N!Wrap16(p * z)
                        - (IF p = -32768 /\ y = -32768 THEN 32767 ELSE (p * y + 16384) \div 32768) * N!Q)
  BY <1>z, <1>y, TablesOfBackends, SMT
     DEF LaneIs, N!ConstMul, N!MulSubtract, N!MulDoubled, N!MulLow, N!Broadcast
<1>2. N!ConstMul(a, k)[l] = Wrap16(Wrap16(p * z) - ((p * y + 16384) \div 32768) * Q)
  BY <1>1, <1>m, WordsOfNeon, SMT
<1>3. PICK h \in Int : h = p * y
  BY <1>m, SMT DEF Int16
<1>4. -32768 * 32767 <= h /\ h <= 32767 * 32767
  <2>1. -32768 <= p /\ p <= 32767 /\ p \in Int
    BY SMT DEF Int16
  <2> QED
    BY <1>3, <1>m, <2>1, SMT
<1>5. PICK t \in Int : t = (h + 16384) \div 32768
  BY SMT
<1>6. t \in Int16
  BY <1>4, <1>5, SMT DEF Int16
<1>7. Wrap16(t) = t
  BY <1>6, WrapInside
<1>8. PICK u \in Int : u = t * Q
  BY SMT DEF Q
<1>9. PICK w \in Int : w = Wrap16(p * z)
  <2>1. p * z \in Int
    BY SMT DEF Int16
  <2> QED
    BY <2>1, WrapSame, SMT DEF Int16
<1>10. Wrap16(w - u) = Wrap16(w - Wrap16(u))
  <2>1. SameWord(w, w)
    <3>1. w = w + 0 * 65536
      BY SMT
    <3> QED
      BY <3>1, SMT DEF SameWord
  <2>2. SameWord(Wrap16(u), u) /\ Wrap16(u) \in Int
    BY WrapSame, SMT DEF Int16
  <2>3. SameWord(w - Wrap16(u), w - u)
    BY <2>1, <2>2, SameWordSub
  <2>4. w - Wrap16(u) \in Int /\ w - u \in Int
    BY <2>2, SMT
  <2> QED
    BY <2>3, <2>4, WordEqual
<1>11. N!ConstMul(a, k)[l] = Wrap16(w - u)
  BY <1>2, <1>3, <1>5, <1>8, <1>9
<1>12. Twiddled(p, k) = Wrap16(Wrap16(p * z) - Wrap16(Wrap16((p * y + 16384) \div 32768) * Q))
  BY <1>z, <1>m DEF Twiddled, BarrettConstMul
<1>13. Twiddled(p, k) = Wrap16(w - Wrap16(u))
  BY <1>12, <1>3, <1>5, <1>7, <1>8, <1>9
<1> QED
  BY <1>1, <1>10, <1>11, <1>13 DEF LaneIs

LEMMA ButterflyOfNeon ==
  ASSUME NEW a, NEW b, NEW D, NEW l \in D, NEW p, NEW q \in Int16, LaneIs(a, D, l, p), LaneIs(b, D, l, q),
         NEW k \in 0 .. 127
  PROVE  /\ LaneIs(N!Butterfly(a, b, k)[1], D, l, SumOf(p, q, k))
         /\ LaneIs(N!Butterfly(a, b, k)[2], D, l, GapOf(p, q, k))
<1>t. PICK t : t = N!ConstMul(b, k)
  BY Zenon
<1>1. LaneIs(t, D, l, Twiddled(q, k))
  BY <1>t, ConstMulOfNeon, Zenon
<1>2. N!Butterfly(a, b, k)[1] = N!Plus(a, t) /\ N!Butterfly(a, b, k)[2] = N!Minus(a, t)
  BY <1>t DEF N!Butterfly
<1>3. LaneIs(N!Plus(a, t), D, l, N!Wrap16(p + Twiddled(q, k)))
  BY <1>1, Zenon DEF LaneIs, N!Plus
<1>4. LaneIs(N!Minus(a, t), D, l, N!Wrap16(p - Twiddled(q, k)))
  BY <1>1, Zenon DEF LaneIs, N!Minus
<1> QED
  BY <1>2, <1>3, <1>4, WordsOfNeon DEF SumOf, GapOf, Add, Sub

\* Butterflies are of i16.
LEMMA ButterflyWords ==
  ASSUME NEW p \in Int16, NEW q \in Int16, NEW k \in 0 .. 127
  PROVE  SumOf(p, q, k) \in Int16 /\ GapOf(p, q, k) \in Int16 /\ Twiddled(q, k) \in Int
<1>z. PICK z \in 1 .. Q - 1 : z = ZETA_RAW[k]
  BY TablesAssumption, Zenon
<1>1. PICK t \in Int : t = Twiddled(q, k)
  <2>1. PICK e : e = BarrettConstMul(q, z)
    BY Zenon
  <2>2. Short(e)
    BY <2>1, ConstMulShort, Zenon
  <2> QED
    BY <1>z, <2>1, <2>2 DEF Twiddled, Short
<1>2. p + t \in Int /\ p - t \in Int
  BY SMT DEF Int16
<1> QED
  BY <1>1, <1>2, WrapSame, Zenon DEF SumOf, GapOf, Add, Sub

-----------------------------------------------------------------------------
\* The four coefficients that a trip of two layers holds at once.
First(p, q, r, s, k0, k1) == SumOf(SumOf(p, r, k0), SumOf(q, s, k0), k1)
Second(p, q, r, s, k0, k1) == GapOf(SumOf(p, r, k0), SumOf(q, s, k0), k1)
Third(p, q, r, s, k0, k1) == SumOf(GapOf(p, r, k0), GapOf(q, s, k0), k1)
Fourth(p, q, r, s, k0, k1) == GapOf(GapOf(p, r, k0), GapOf(q, s, k0), k1)

\* Where they are, and where their zetas.
QuadPlaces(i, d, g) ==
  /\ i \in Index /\ i + d \in Index /\ i + 2 * d \in Index /\ i + 3 * d \in Index
  /\ IsLow(i, 2 * d) /\ IsLow(i + d, 2 * d) /\ ~IsLow(i + 2 * d, 2 * d) /\ ~IsLow(i + 3 * d, 2 * d)
  /\ Group(i, 2 * d) = g /\ Group(i + d, 2 * d) = g
  /\ Group(i + 2 * d, 2 * d) = g /\ Group(i + 3 * d, 2 * d) = g
  /\ IsLow(i, d) /\ ~IsLow(i + d, d) /\ IsLow(i + 2 * d, d) /\ ~IsLow(i + 3 * d, d)
  /\ Group(i, d) = 2 * g /\ Group(i + d, d) = 2 * g
  /\ Group(i + 2 * d, d) = 2 * g + 1 /\ Group(i + 3 * d, d) = 2 * g + 1
  /\ (i + 2 * d) - 2 * d = i /\ (i + 3 * d) - 2 * d = i + d
  /\ (i + d) + 2 * d = i + 3 * d /\ (i + d) - d = i
  /\ (i + 2 * d) + d = i + 3 * d /\ (i + 3 * d) - d = i + 2 * d

\* The trips hold the four coefficients of two layers.
LEMMA HeadPlaces ==
  ASSUME NEW i \in 0 .. 63
  PROVE  QuadPlaces(i, 64, 0)
BY SMTT(60) DEF QuadPlaces, Index, IsLow, Group

LEMMA QuarterPlaces ==
  ASSUME NEW g \in 0 .. 3, NEW l \in 0 .. 15
  PROVE  QuadPlaces(64 * g + l, 16, g)
BY SMTT(60) DEF QuadPlaces, Index, IsLow, Group

\* Two layers of ntt in terms of the four.
LEMMA QuadOfLayers ==
  ASSUME NEW i, NEW d, NEW g, QuadPlaces(i, d, g), NEW k0, NEW k1, NEW c,
         NEW e, e = NttLayer(NttLayer(c, 2 * d, k0), d, k1)
  PROVE  /\ e[i] = First(c[i], c[i + d], c[i + 2 * d], c[i + 3 * d], k0 + g, k1 + 2 * g)
         /\ e[i + d] = Second(c[i], c[i + d], c[i + 2 * d], c[i + 3 * d], k0 + g, k1 + 2 * g)
         /\ e[i + 2 * d] = Third(c[i], c[i + d], c[i + 2 * d], c[i + 3 * d], k0 + g, k1 + (2 * g + 1))
         /\ e[i + 3 * d] = Fourth(c[i], c[i + d], c[i + 2 * d], c[i + 3 * d], k0 + g, k1 + (2 * g + 1))
<1>m. PICK m : m = NttLayer(c, 2 * d, k0)
  BY Zenon
<1>1. m[i] = SumOf(c[i], c[i + 2 * d], k0 + g)
  BY <1>m, Zenon DEF QuadPlaces, NttLayer, SumOf
<1>2. m[i + d] = SumOf(c[i + d], c[i + 3 * d], k0 + g)
  BY <1>m, Zenon DEF QuadPlaces, NttLayer, SumOf
<1>3. m[i + 2 * d] = GapOf(c[i], c[i + 2 * d], k0 + g)
  BY <1>m, Zenon DEF QuadPlaces, NttLayer, GapOf
<1>4. m[i + 3 * d] = GapOf(c[i + d], c[i + 3 * d], k0 + g)
  BY <1>m, Zenon DEF QuadPlaces, NttLayer, GapOf
<1>5. e[i] = SumOf(m[i], m[i + d], k1 + 2 * g)
  BY <1>m, Zenon DEF QuadPlaces, NttLayer, SumOf
<1>6. e[i + d] = GapOf(m[i], m[i + d], k1 + 2 * g)
  BY <1>m, Zenon DEF QuadPlaces, NttLayer, GapOf
<1>7. e[i + 2 * d] = SumOf(m[i + 2 * d], m[i + 3 * d], k1 + (2 * g + 1))
  BY <1>m, Zenon DEF QuadPlaces, NttLayer, SumOf
<1>8. e[i + 3 * d] = GapOf(m[i + 2 * d], m[i + 3 * d], k1 + (2 * g + 1))
  BY <1>m, Zenon DEF QuadPlaces, NttLayer, GapOf
<1> QED
  BY <1>1, <1>2, <1>3, <1>4, <1>5, <1>6, <1>7, <1>8, Zenon DEF First, Second, Third, Fourth

\* Where a position is among the vectors.
LEMMA WindowOfAvx2 ==
  ASSUME NEW c, NEW n \in 0 .. 15, NEW l \in 0 .. 15
  PROVE  LaneIs(A!Windows(c, 16)[n], 0 .. 15, l, c[16 * n + l])
<1>1. 256 \div 16 - 1 = 15 /\ 16 - 1 = 15
  BY SMT
<1> QED
  BY <1>1 DEF LaneIs, A!Windows

LEMMA WindowOfNeon ==
  ASSUME NEW c, NEW n \in 0 .. 31, NEW l \in 0 .. 7
  PROVE  LaneIs(N!Windows(c, 8)[n], 0 .. 7, l, c[8 * n + l])
<1>1. 256 \div 8 - 1 = 31 /\ 8 - 1 = 7
  BY SMT
<1> QED
  BY <1>1 DEF LaneIs, N!Windows

LEMMA FlatOfAvx2 ==
  ASSUME NEW v, NEW n \in 0 .. 15, NEW l \in 0 .. 15
  PROVE  A!Flat(v, 16)[16 * n + l] = v[n][l] /\ 16 * n + l \in Index
<1>1. 16 * n + l \in Index /\ (16 * n + l) \div 16 = n /\ (16 * n + l) % 16 = l
  BY SMT DEF Index
<1>2. A!Index = Index
  BY DEF A!Index, Index
<1> QED
  BY <1>1, <1>2, Zenon DEF A!Flat

LEMMA FlatOfNeon ==
  ASSUME NEW v, NEW n \in 0 .. 31, NEW l \in 0 .. 7
  PROVE  N!Flat(v, 8)[8 * n + l] = v[n][l] /\ 8 * n + l \in Index
<1>1. 8 * n + l \in Index /\ (8 * n + l) \div 8 = n /\ (8 * n + l) % 8 = l
  BY SMT DEF Index
<1>2. N!Index = Index
  BY DEF N!Index, Index
<1> QED
  BY <1>1, <1>2, Zenon DEF N!Flat

\* Every position is in one lane of one vector.
LEMMA PlaceOfAvx2 ==
  ASSUME NEW j \in Index
  PROVE  j \div 16 \in 0 .. 15 /\ j % 16 \in 0 .. 15 /\ j = 16 * (j \div 16) + (j % 16)
BY SMT DEF Index

LEMMA PlaceOfNeon ==
  ASSUME NEW j \in Index
  PROVE  j \div 8 \in 0 .. 31 /\ j % 8 \in 0 .. 7 /\ j = 8 * (j \div 8) + (j % 8)
BY SMT DEF Index

-----------------------------------------------------------------------------
\* Each coefficient is an i16.
Words(c) == \A j \in Index : c[j] \in Int16

\* The four positions i, i + d, i + 2 d and i + 3 d of a trip's result.
QuadIs(e, c, i, d, k0, k1, k2) ==
  /\ e[i] = First(c[i], c[i + d], c[i + 2 * d], c[i + 3 * d], k0, k1)
  /\ e[i + d] = Second(c[i], c[i + d], c[i + 2 * d], c[i + 3 * d], k0, k1)
  /\ e[i + 2 * d] = Third(c[i], c[i + d], c[i + 2 * d], c[i + 3 * d], k0, k2)
  /\ e[i + 3 * d] = Fourth(c[i], c[i + d], c[i + 2 * d], c[i + 3 * d], k0, k2)

\* Two results of the same butterflies are the same.
LEMMA SameQuad ==
  ASSUME NEW e, NEW f, NEW c, NEW i, NEW d, NEW k0, NEW k1, NEW k2,
         QuadIs(e, c, i, d, k0, k1, k2), QuadIs(f, c, i, d, k0, k1, k2)
  PROVE  e[i] = f[i] /\ e[i + d] = f[i + d] /\ e[i + 2 * d] = f[i + 2 * d] /\ e[i + 3 * d] = f[i + 3 * d]
BY Zenon DEF QuadIs

\* The first trip.
LEMMA HeadOfLayers ==
  ASSUME NEW c, NEW i \in 0 .. 63
  PROVE  QuadIs(NttLayer(NttLayer(c, 128, 1), 64, 2), c, i, 64, 1, 2, 3)
<1>1. 2 * 64 = 128 /\ 1 + 0 = 1 /\ 2 + 2 * 0 = 2 /\ 2 + (2 * 0 + 1) = 3
  BY SMT
<1>2. PICK d : d = 64
  BY Zenon
<1>3. PICK g : g = 0
  BY Zenon
<1>4. PICK e : e = NttLayer(NttLayer(c, 2 * d, 1), d, 2)
  BY Zenon
<1>5. QuadPlaces(i, d, g)
  BY <1>2, <1>3, HeadPlaces
<1>6. QuadIs(e, c, i, d, 1 + g, 2 + 2 * g, 2 + (2 * g + 1))
  BY <1>4, <1>5, QuadOfLayers DEF QuadIs
<1> QED
  BY <1>1, <1>2, <1>3, <1>4, <1>6

\* A trip of AVX2 leaves what two butterflies leave.
LEMMA HeadQuadOfAvx2 ==
  ASSUME NEW c, NEW m \in 0 .. 3, NEW l \in 0 .. 15, NEW i, i = 16 * m + l
  PROVE  QuadIs(A!HeadTrip(c), c, i, 64, 1, 2, 3)
<1>v. PICK v : v = A!Windows(c, 16)
  BY Zenon
<1>h. PICK h : h = A!HeadRegisters(v, m)
  BY Zenon
<1>1. /\ m \in 0 .. 15 /\ m + 4 \in 0 .. 15 /\ m + 8 \in 0 .. 15 /\ m + 12 \in 0 .. 15
      /\ 16 * (m + 4) + l = i + 64 /\ 16 * (m + 8) + l = i + 2 * 64 /\ 16 * (m + 12) + l = i + 3 * 64
  BY SMT
<1>2. /\ LaneIs(v[m], 0 .. 15, l, c[i]) /\ LaneIs(v[m + 4], 0 .. 15, l, c[i + 64])
      /\ LaneIs(v[m + 8], 0 .. 15, l, c[i + 2 * 64]) /\ LaneIs(v[m + 12], 0 .. 15, l, c[i + 3 * 64])
  BY <1>v, <1>1, WindowOfAvx2
<1>3. PICK top : top = A!Butterfly(v[m], v[m + 8], 1)
  BY Zenon
<1>4. PICK low : low = A!Butterfly(v[m + 4], v[m + 12], 1)
  BY Zenon
<1>5. /\ h[1] = A!Butterfly(top[1], low[1], 2)[1] /\ h[2] = A!Butterfly(top[1], low[1], 2)[2]
      /\ h[3] = A!Butterfly(top[2], low[2], 3)[1] /\ h[4] = A!Butterfly(top[2], low[2], 3)[2]
  BY <1>h, <1>3, <1>4 DEF A!HeadRegisters
<1>P. PICK P : P = c[i]
  BY Zenon
<1>R. PICK R : R = c[i + 64]
  BY Zenon
<1>S. PICK S : S = c[i + 2 * 64]
  BY Zenon
<1>T. PICK T : T = c[i + 3 * 64]
  BY Zenon
<1>6. /\ h[1][l] = First(P, R, S, T, 1, 2) /\ h[2][l] = Second(P, R, S, T, 1, 2)
      /\ h[3][l] = Third(P, R, S, T, 1, 3) /\ h[4][l] = Fourth(P, R, S, T, 1, 3)
  <2>2. /\ LaneIs(v[m], 0 .. 15, l, P) /\ LaneIs(v[m + 4], 0 .. 15, l, R)
        /\ LaneIs(v[m + 8], 0 .. 15, l, S) /\ LaneIs(v[m + 12], 0 .. 15, l, T)
    BY <1>2, <1>P, <1>R, <1>S, <1>T
  <2>3. LaneIs(top[1], 0 .. 15, l, SumOf(P, S, 1)) /\ LaneIs(top[2], 0 .. 15, l, GapOf(P, S, 1))
    BY <2>2, <1>3, ButterflyOfAvx2, Zenon
  <2>4. LaneIs(low[1], 0 .. 15, l, SumOf(R, T, 1)) /\ LaneIs(low[2], 0 .. 15, l, GapOf(R, T, 1))
    BY <2>2, <1>4, ButterflyOfAvx2, Zenon
  <2>5. /\ LaneIs(A!Butterfly(top[1], low[1], 2)[1], 0 .. 15, l, First(P, R, S, T, 1, 2))
        /\ LaneIs(A!Butterfly(top[1], low[1], 2)[2], 0 .. 15, l, Second(P, R, S, T, 1, 2))
    BY <2>3, <2>4, ButterflyOfAvx2, Zenon DEF First, Second
  <2>6. /\ LaneIs(A!Butterfly(top[2], low[2], 3)[1], 0 .. 15, l, Third(P, R, S, T, 1, 3))
        /\ LaneIs(A!Butterfly(top[2], low[2], 3)[2], 0 .. 15, l, Fourth(P, R, S, T, 1, 3))
    BY <2>3, <2>4, ButterflyOfAvx2, Zenon DEF Third, Fourth
  <2> QED
    BY <1>5, <2>5, <2>6, Zenon DEF LaneIs
<1>7. ASSUME NEW n \in 0 .. 15
      PROVE  A!HeadTrip(c)[16 * n + l] = A!HeadRegisters(v, n % 4)[n \div 4 + 1][l]
  <2>1. PICK w : w = [k \in 0 .. 15 |-> A!HeadRegisters(v, k % 4)[k \div 4 + 1]]
    BY Zenon
  <2>2. A!HeadTrip(c) = A!Flat(w, 16)
    BY <1>v, <2>1 DEF A!HeadTrip
  <2>3. w[n] = A!HeadRegisters(v, n % 4)[n \div 4 + 1]
    BY <2>1, Zenon
  <2>4. A!Flat(w, 16)[16 * n + l] = w[n][l]
    BY FlatOfAvx2
  <2> QED
    BY <2>2, <2>3, <2>4, Zenon
<1>8. /\ m % 4 = m /\ m \div 4 + 1 = 1 /\ (m + 4) % 4 = m /\ (m + 4) \div 4 + 1 = 2
      /\ (m + 8) % 4 = m /\ (m + 8) \div 4 + 1 = 3 /\ (m + 12) % 4 = m /\ (m + 12) \div 4 + 1 = 4
  BY SMT
<1>9. /\ A!HeadTrip(c)[i] = h[1][l] /\ A!HeadTrip(c)[i + 64] = h[2][l]
      /\ A!HeadTrip(c)[i + 2 * 64] = h[3][l] /\ A!HeadTrip(c)[i + 3 * 64] = h[4][l]
  BY <1>1, <1>7, <1>8, <1>h
<1> QED
  BY <1>6, <1>9, <1>P, <1>R, <1>S, <1>T DEF QuadIs

LEMMA HeadQuadOfNeon ==
  ASSUME NEW c, Words(c), NEW m \in 0 .. 7, NEW l \in 0 .. 7, NEW i, i = 8 * m + l
  PROVE  QuadIs(N!HeadTrip(c), c, i, 64, 1, 2, 3)
<1>v. PICK v : v = N!Windows(c, 8)
  BY Zenon
<1>h. PICK h : h = N!HeadRegisters(v, m)
  BY Zenon
<1>1. /\ m \in 0 .. 31 /\ m + 8 \in 0 .. 31 /\ m + 16 \in 0 .. 31 /\ m + 24 \in 0 .. 31
      /\ 8 * (m + 8) + l = i + 64 /\ 8 * (m + 16) + l = i + 2 * 64 /\ 8 * (m + 24) + l = i + 3 * 64
  BY SMT
<1>2. /\ LaneIs(v[m], 0 .. 7, l, c[i]) /\ LaneIs(v[m + 8], 0 .. 7, l, c[i + 64])
      /\ LaneIs(v[m + 16], 0 .. 7, l, c[i + 2 * 64]) /\ LaneIs(v[m + 24], 0 .. 7, l, c[i + 3 * 64])
  BY <1>v, <1>1, WindowOfNeon
<1>3. PICK top : top = N!Butterfly(v[m], v[m + 16], 1)
  BY Zenon
<1>4. PICK low : low = N!Butterfly(v[m + 8], v[m + 24], 1)
  BY Zenon
<1>5. /\ h[1] = N!Butterfly(top[1], low[1], 2)[1] /\ h[2] = N!Butterfly(top[1], low[1], 2)[2]
      /\ h[3] = N!Butterfly(top[2], low[2], 3)[1] /\ h[4] = N!Butterfly(top[2], low[2], 3)[2]
  BY <1>h, <1>3, <1>4 DEF N!HeadRegisters
<1>P. PICK P : P = c[i]
  BY Zenon
<1>R. PICK R : R = c[i + 64]
  BY Zenon
<1>S. PICK S : S = c[i + 2 * 64]
  BY Zenon
<1>T. PICK T : T = c[i + 3 * 64]
  BY Zenon
<1>w. P \in Int16 /\ R \in Int16 /\ S \in Int16 /\ T \in Int16
  <2>1. i \in Index /\ i + 64 \in Index /\ i + 2 * 64 \in Index /\ i + 3 * 64 \in Index
    BY SMT DEF Index
  <2> QED
    BY <2>1, <1>P, <1>R, <1>S, <1>T DEF Words
<1>k. 1 \in 0 .. 127 /\ 2 \in 0 .. 127 /\ 3 \in 0 .. 127
  BY SMT
<1>6. /\ h[1][l] = First(P, R, S, T, 1, 2) /\ h[2][l] = Second(P, R, S, T, 1, 2)
      /\ h[3][l] = Third(P, R, S, T, 1, 3) /\ h[4][l] = Fourth(P, R, S, T, 1, 3)
  <2>2. /\ LaneIs(v[m], 0 .. 7, l, P) /\ LaneIs(v[m + 8], 0 .. 7, l, R)
        /\ LaneIs(v[m + 16], 0 .. 7, l, S) /\ LaneIs(v[m + 24], 0 .. 7, l, T)
    BY <1>2, <1>P, <1>R, <1>S, <1>T
  <2>3. LaneIs(top[1], 0 .. 7, l, SumOf(P, S, 1)) /\ LaneIs(top[2], 0 .. 7, l, GapOf(P, S, 1))
    BY <2>2, <1>3, <1>w, <1>k, ButterflyOfNeon, Zenon
  <2>4. LaneIs(low[1], 0 .. 7, l, SumOf(R, T, 1)) /\ LaneIs(low[2], 0 .. 7, l, GapOf(R, T, 1))
    BY <2>2, <1>4, <1>w, <1>k, ButterflyOfNeon, Zenon
  <2>w. SumOf(R, T, 1) \in Int16 /\ GapOf(R, T, 1) \in Int16
    BY <1>w, <1>k, ButterflyWords, Zenon
  <2>5. /\ LaneIs(N!Butterfly(top[1], low[1], 2)[1], 0 .. 7, l, First(P, R, S, T, 1, 2))
        /\ LaneIs(N!Butterfly(top[1], low[1], 2)[2], 0 .. 7, l, Second(P, R, S, T, 1, 2))
    BY <2>3, <2>4, <2>w, <1>k, ButterflyOfNeon, Zenon DEF First, Second
  <2>6. /\ LaneIs(N!Butterfly(top[2], low[2], 3)[1], 0 .. 7, l, Third(P, R, S, T, 1, 3))
        /\ LaneIs(N!Butterfly(top[2], low[2], 3)[2], 0 .. 7, l, Fourth(P, R, S, T, 1, 3))
    BY <2>3, <2>4, <2>w, <1>k, ButterflyOfNeon, Zenon DEF Third, Fourth
  <2> QED
    BY <1>5, <2>5, <2>6, Zenon DEF LaneIs
<1>7. ASSUME NEW n \in 0 .. 31
      PROVE  N!HeadTrip(c)[8 * n + l] = N!HeadRegisters(v, n % 8)[n \div 8 + 1][l]
  <2>1. PICK w : w = [k \in 0 .. 31 |-> N!HeadRegisters(v, k % 8)[k \div 8 + 1]]
    BY Zenon
  <2>2. N!HeadTrip(c) = N!Flat(w, 8)
    BY <1>v, <2>1 DEF N!HeadTrip
  <2>3. w[n] = N!HeadRegisters(v, n % 8)[n \div 8 + 1]
    BY <2>1, Zenon
  <2>4. N!Flat(w, 8)[8 * n + l] = w[n][l]
    BY FlatOfNeon
  <2> QED
    BY <2>2, <2>3, <2>4, Zenon
<1>8. /\ m % 8 = m /\ m \div 8 + 1 = 1 /\ (m + 8) % 8 = m /\ (m + 8) \div 8 + 1 = 2
      /\ (m + 16) % 8 = m /\ (m + 16) \div 8 + 1 = 3 /\ (m + 24) % 8 = m /\ (m + 24) \div 8 + 1 = 4
  BY SMT
<1>9. /\ N!HeadTrip(c)[i] = h[1][l] /\ N!HeadTrip(c)[i + 64] = h[2][l]
      /\ N!HeadTrip(c)[i + 2 * 64] = h[3][l] /\ N!HeadTrip(c)[i + 3 * 64] = h[4][l]
  BY <1>1, <1>7, <1>8, <1>h
<1> QED
  BY <1>6, <1>9, <1>P, <1>R, <1>S, <1>T DEF QuadIs

\* The trip is the layers of strides 128 and 64, on both.
LEMMA HeadIsLayers ==
  ASSUME NEW c, Words(c), NEW j \in Index
  PROVE  /\ A!HeadTrip(c)[j] = NttLayer(NttLayer(c, 128, 1), 64, 2)[j]
         /\ N!HeadTrip(c)[j] = NttLayer(NttLayer(c, 128, 1), 64, 2)[j]
<1>i. PICK i \in 0 .. 63 : j = i \/ j = i + 64 \/ j = i + 2 * 64 \/ j = i + 3 * 64
  <2>1. j % 64 \in 0 .. 63 /\ (j = j % 64 \/ j = (j % 64) + 64 \/ j = (j % 64) + 2 * 64 \/ j = (j % 64) + 3 * 64)
    BY SMT DEF Index
  <2> QED
    BY <2>1
<1>e. PICK e : e = NttLayer(NttLayer(c, 128, 1), 64, 2)
  BY Zenon
<1>1. QuadIs(e, c, i, 64, 1, 2, 3)
  BY <1>e, HeadOfLayers
<1>2. QuadIs(A!HeadTrip(c), c, i, 64, 1, 2, 3)
  <2>1. i \div 16 \in 0 .. 3 /\ i % 16 \in 0 .. 15 /\ i = 16 * (i \div 16) + (i % 16)
    BY SMT
  <2> QED
    BY <2>1, HeadQuadOfAvx2
<1>3. QuadIs(N!HeadTrip(c), c, i, 64, 1, 2, 3)
  <2>1. i \div 8 \in 0 .. 7 /\ i % 8 \in 0 .. 7 /\ i = 8 * (i \div 8) + (i % 8)
    BY SMT
  <2> QED
    BY <2>1, HeadQuadOfNeon
<1>4. A!HeadTrip(c)[j] = e[j] /\ N!HeadTrip(c)[j] = e[j]
  <2>1. PICK d : d = 64
    BY Zenon
  <2>2. /\ A!HeadTrip(c)[i] = e[i] /\ A!HeadTrip(c)[i + d] = e[i + d]
        /\ A!HeadTrip(c)[i + 2 * d] = e[i + 2 * d] /\ A!HeadTrip(c)[i + 3 * d] = e[i + 3 * d]
    BY <2>1, <1>1, <1>2, SameQuad
  <2>3. /\ N!HeadTrip(c)[i] = e[i] /\ N!HeadTrip(c)[i + d] = e[i + d]
        /\ N!HeadTrip(c)[i + 2 * d] = e[i + 2 * d] /\ N!HeadTrip(c)[i + 3 * d] = e[i + 3 * d]
    BY <2>1, <1>1, <1>3, SameQuad
  <2> QED
    BY <1>i, <2>1, <2>2, <2>3, Zenon
<1> QED
  BY <1>e, <1>4

-----------------------------------------------------------------------------
\* The second trip on AVX2, the strides 32 and 16.
LEMMA QuarterOfLayers ==
  ASSUME NEW c, NEW q \in 0 .. 3, NEW l \in 0 .. 15, NEW i, i = 64 * q + l,
         NEW k0, k0 = 4 + q, NEW k1, k1 = 8 + 2 * q, NEW k2, k2 = 9 + 2 * q
  PROVE  QuadIs(NttLayer(NttLayer(c, 32, 4), 16, 8), c, i, 16, k0, k1, k2)
<1>1. 2 * 16 = 32 /\ k2 = 8 + (2 * q + 1)
  BY SMT
<1>2. PICK d : d = 16
  BY Zenon
<1>4. PICK e : e = NttLayer(NttLayer(c, 2 * d, 4), d, 8)
  BY Zenon
<1>5. QuadPlaces(i, d, q)
  BY <1>2, QuarterPlaces
<1>6. QuadIs(e, c, i, d, 4 + q, 8 + 2 * q, 8 + (2 * q + 1))
  BY <1>4, <1>5, QuadOfLayers DEF QuadIs
<1> QED
  BY <1>1, <1>2, <1>4, <1>6

LEMMA QuarterQuadOfAvx2 ==
  ASSUME NEW c, NEW q \in 0 .. 3, NEW l \in 0 .. 15, NEW i, i = 64 * q + l,
         NEW k0, k0 = 4 + q, NEW k1, k1 = 8 + 2 * q, NEW k2, k2 = 9 + 2 * q
  PROVE  QuadIs(A!QuarterTrip(c), c, i, 16, k0, k1, k2)
<1>v. PICK v : v = A!Windows(c, 16)
  BY Zenon
<1>h. PICK h : h = A!QuarterRegisters(v, q)
  BY Zenon
<1>1. /\ 4 * q \in 0 .. 15 /\ 4 * q + 1 \in 0 .. 15 /\ 4 * q + 2 \in 0 .. 15 /\ 4 * q + 3 \in 0 .. 15
      /\ 16 * (4 * q) + l = i /\ 16 * (4 * q + 1) + l = i + 16
      /\ 16 * (4 * q + 2) + l = i + 2 * 16 /\ 16 * (4 * q + 3) + l = i + 3 * 16
  BY SMT
<1>2. /\ LaneIs(v[4 * q], 0 .. 15, l, c[i]) /\ LaneIs(v[4 * q + 1], 0 .. 15, l, c[i + 16])
      /\ LaneIs(v[4 * q + 2], 0 .. 15, l, c[i + 2 * 16]) /\ LaneIs(v[4 * q + 3], 0 .. 15, l, c[i + 3 * 16])
  BY <1>v, <1>1, WindowOfAvx2
<1>3. PICK top : top = A!Butterfly(v[4 * q], v[4 * q + 2], k0)
  BY Zenon
<1>4. PICK low : low = A!Butterfly(v[4 * q + 1], v[4 * q + 3], k0)
  BY Zenon
<1>5. /\ h[1] = A!Butterfly(top[1], low[1], k1)[1] /\ h[2] = A!Butterfly(top[1], low[1], k1)[2]
      /\ h[3] = A!Butterfly(top[2], low[2], k2)[1] /\ h[4] = A!Butterfly(top[2], low[2], k2)[2]
  BY <1>h, <1>3, <1>4 DEF A!QuarterRegisters
<1>P. PICK P : P = c[i]
  BY Zenon
<1>R. PICK R : R = c[i + 16]
  BY Zenon
<1>S. PICK S : S = c[i + 2 * 16]
  BY Zenon
<1>T. PICK T : T = c[i + 3 * 16]
  BY Zenon
<1>6. /\ h[1][l] = First(P, R, S, T, k0, k1) /\ h[2][l] = Second(P, R, S, T, k0, k1)
      /\ h[3][l] = Third(P, R, S, T, k0, k2) /\ h[4][l] = Fourth(P, R, S, T, k0, k2)
  <2>2. /\ LaneIs(v[4 * q], 0 .. 15, l, P) /\ LaneIs(v[4 * q + 1], 0 .. 15, l, R)
        /\ LaneIs(v[4 * q + 2], 0 .. 15, l, S) /\ LaneIs(v[4 * q + 3], 0 .. 15, l, T)
    BY <1>2, <1>P, <1>R, <1>S, <1>T
  <2>3. LaneIs(top[1], 0 .. 15, l, SumOf(P, S, k0)) /\ LaneIs(top[2], 0 .. 15, l, GapOf(P, S, k0))
    BY <2>2, <1>3, ButterflyOfAvx2, Zenon
  <2>4. LaneIs(low[1], 0 .. 15, l, SumOf(R, T, k0)) /\ LaneIs(low[2], 0 .. 15, l, GapOf(R, T, k0))
    BY <2>2, <1>4, ButterflyOfAvx2, Zenon
  <2>5. /\ LaneIs(A!Butterfly(top[1], low[1], k1)[1], 0 .. 15, l, First(P, R, S, T, k0, k1))
        /\ LaneIs(A!Butterfly(top[1], low[1], k1)[2], 0 .. 15, l, Second(P, R, S, T, k0, k1))
    BY <2>3, <2>4, ButterflyOfAvx2, Zenon DEF First, Second
  <2>6. /\ LaneIs(A!Butterfly(top[2], low[2], k2)[1], 0 .. 15, l, Third(P, R, S, T, k0, k2))
        /\ LaneIs(A!Butterfly(top[2], low[2], k2)[2], 0 .. 15, l, Fourth(P, R, S, T, k0, k2))
    BY <2>3, <2>4, ButterflyOfAvx2, Zenon DEF Third, Fourth
  <2> QED
    BY <1>5, <2>5, <2>6, Zenon DEF LaneIs
<1>7. ASSUME NEW n \in 0 .. 15
      PROVE  A!QuarterTrip(c)[16 * n + l] = A!QuarterRegisters(v, n \div 4)[(n % 4) + 1][l]
  <2>1. PICK w : w = [k \in 0 .. 15 |-> A!QuarterRegisters(v, k \div 4)[(k % 4) + 1]]
    BY Zenon
  <2>2. A!QuarterTrip(c) = A!Flat(w, 16)
    BY <1>v, <2>1 DEF A!QuarterTrip
  <2>3. w[n] = A!QuarterRegisters(v, n \div 4)[(n % 4) + 1]
    BY <2>1, Zenon
  <2>4. A!Flat(w, 16)[16 * n + l] = w[n][l]
    BY FlatOfAvx2
  <2> QED
    BY <2>2, <2>3, <2>4, Zenon
<1>8. /\ (4 * q) \div 4 = q /\ ((4 * q) % 4) + 1 = 1 /\ (4 * q + 1) \div 4 = q /\ ((4 * q + 1) % 4) + 1 = 2
      /\ (4 * q + 2) \div 4 = q /\ ((4 * q + 2) % 4) + 1 = 3 /\ (4 * q + 3) \div 4 = q /\ ((4 * q + 3) % 4) + 1 = 4
  BY SMT
<1>9. /\ A!QuarterTrip(c)[i] = h[1][l] /\ A!QuarterTrip(c)[i + 16] = h[2][l]
      /\ A!QuarterTrip(c)[i + 2 * 16] = h[3][l] /\ A!QuarterTrip(c)[i + 3 * 16] = h[4][l]
  BY <1>1, <1>7, <1>8, <1>h
<1> QED
  BY <1>6, <1>9, <1>P, <1>R, <1>S, <1>T DEF QuadIs

\* The second trip of AVX2 is the layers 32 and 16.
LEMMA QuarterOfAvx2 ==
  ASSUME NEW c, NEW j \in Index
  PROVE  A!QuarterTrip(c)[j] = NttLayer(NttLayer(c, 32, 4), 16, 8)[j]
<1>q. PICK q \in 0 .. 3, l \in 0 .. 15, i \in Int :
        i = 64 * q + l /\ (j = i \/ j = i + 16 \/ j = i + 2 * 16 \/ j = i + 3 * 16)
  <2> DEFINE a == j \div 64
             b == j % 16
             s == 64 * a + b
  <2>1. a \in 0 .. 3 /\ b \in 0 .. 15 /\ s \in Int
    BY SMT DEF Index
  <2>2. j = s \/ j = s + 16 \/ j = s + 2 * 16 \/ j = s + 3 * 16
    BY SMT DEF Index
  <2> QED
    BY <2>1, <2>2
<1>0. PICK k0 : k0 = 4 + q
  BY Zenon
<1>1. PICK k1 : k1 = 8 + 2 * q
  BY Zenon
<1>2. PICK k2 : k2 = 9 + 2 * q
  BY Zenon
<1>e. PICK e : e = NttLayer(NttLayer(c, 32, 4), 16, 8)
  BY Zenon
<1>3. QuadIs(e, c, i, 16, k0, k1, k2)
  BY <1>q, <1>0, <1>1, <1>2, <1>e, QuarterOfLayers
<1>4. QuadIs(A!QuarterTrip(c), c, i, 16, k0, k1, k2)
  BY <1>q, <1>0, <1>1, <1>2, QuarterQuadOfAvx2
<1>5. PICK d : d = 16
  BY Zenon
<1>6. /\ A!QuarterTrip(c)[i] = e[i] /\ A!QuarterTrip(c)[i + d] = e[i + d]
      /\ A!QuarterTrip(c)[i + 2 * d] = e[i + 2 * d] /\ A!QuarterTrip(c)[i + 3 * d] = e[i + 3 * d]
  BY <1>3, <1>4, <1>5, SameQuad
<1> QED
  BY <1>q, <1>e, <1>5, <1>6, Zenon

-----------------------------------------------------------------------------
\* The layers leave words.
LEMMA WordsOfLayer ==
  ASSUME NEW n, NEW len, NEW count, LayerShape(n, len, count), NEW c, Words(c)
  PROVE  Words(NttLayer(c, len, count))
<1>1. ASSUME NEW i \in Index, IsLow(i, len)
      PROVE  NttLayer(c, len, count)[i] \in Int16 /\ NttLayer(c, len, count)[i + len] \in Int16
  <2>1. /\ Group(i, len) \in Int /\ 0 <= Group(i, len) /\ Group(i, len) <= count - 1
        /\ i + len \in Index /\ ~IsLow(i + len, len) /\ Group(i + len, len) = Group(i, len)
    BY <1>1, PlaceOfLow, Zenon DEF LowPlace
  <2>2. PICK k \in 0 .. 127 : k = count + Group(i, len)
    BY <2>1, LayerZeta
  <2>3. (i + len) - len = i
    BY SMT DEF Index, LayerShape
  <2>4. c[i] \in Int16 /\ c[i + len] \in Int16
    BY <2>1 DEF Words
  <2>5. NttLayer(c, len, count)[i] = SumOf(c[i], c[i + len], k)
    BY <1>1, <2>2, Zenon DEF NttLayer, SumOf
  <2>6. NttLayer(c, len, count)[i + len] = GapOf(c[i], c[i + len], k)
    BY <2>1, <2>2, <2>3, Zenon DEF NttLayer, GapOf
  <2> QED
    BY <2>4, <2>5, <2>6, ButterflyWords
<1>2. ASSUME NEW j \in Index PROVE NttLayer(c, len, count)[j] \in Int16
  <2>1. CASE IsLow(j, len)
    BY <1>1, <2>1
  <2>2. CASE ~IsLow(j, len)
    <3>1. PICK i : i = j - len
      BY Zenon
    <3>2. i \in Index /\ IsLow(i, len) /\ j = i + len
      BY <2>2, <3>1, PlaceOfHigh
    <3> QED
      BY <3>2, <1>1
  <2> QED
    BY <2>1, <2>2
<1> QED
  BY <1>2 DEF Words

\* A quarter's eight vectors.
Loaded(r, c, q) == \A w \in 0 .. 7, l \in 0 .. 7 : LaneIs(r[w], 0 .. 7, l, c[64 * q + 8 * w + l])

\* A lane in a level of the second trip on NEON: the lower register of its
\* butterfly, the place in the layer and the zeta.
LevelPlace(q, w, l, apart, len, count, z, low, i) ==
  /\ i \in Index /\ low \in 0 .. 7 /\ low + apart \in 0 .. 7
  /\ count + Group(i, len) \in 0 .. 127
  /\ count + Group(i, len) = z + w \div (2 * apart)
  /\ \/ /\ w = low /\ IsLow(i, len)
        /\ i + len \in Index /\ i = 64 * q + 8 * low + l /\ i + len = 64 * q + 8 * (low + apart) + l
     \/ /\ w # low /\ ~IsLow(i, len)
        /\ i - len \in Index /\ i - len = 64 * q + 8 * low + l /\ i = 64 * q + 8 * (low + apart) + l

LevelShape(q, apart, len, count, z) ==
  \/ apart = 4 /\ len = 32 /\ count = 4 /\ z = 4 + q
  \/ apart = 2 /\ len = 16 /\ count = 8 /\ z = 8 + 2 * q
  \/ apart = 1 /\ len = 8 /\ count = 16 /\ z = 16 + 4 * q

\* Where the registers of the second trip of NEON meet.
LEMMA PlaceOfLevel ==
  ASSUME NEW q \in 0 .. 3, NEW w \in 0 .. 7, NEW l \in 0 .. 7, NEW apart, NEW len, NEW count, NEW z,
         LevelShape(q, apart, len, count, z),
         NEW low, low = w - (w % (2 * apart)) + (w % apart), NEW i, i = 64 * q + 8 * w + l
  PROVE  LevelPlace(q, w, l, apart, len, count, z, low, i)
<1> DEFINE Goal == LevelPlace(q, w, l, apart, len, count, z, low, i)
<1>1. ASSUME apart = 4, len = 32, count = 4, z = 4 + q PROVE Goal
  BY <1>1, SMTT(60) DEF LevelPlace, IsLow, Group, Index
<1>2. ASSUME apart = 2, len = 16, count = 8, z = 8 + 2 * q PROVE Goal
  BY <1>2, SMTT(60) DEF LevelPlace, IsLow, Group, Index
<1>3. ASSUME apart = 1, len = 8, count = 16, z = 16 + 4 * q PROVE Goal
  BY <1>3, SMTT(60) DEF LevelPlace, IsLow, Group, Index
<1> QED
  BY <1>1, <1>2, <1>3, Zenon DEF LevelShape

\* A level is a layer.
LEMMA LevelIsLayer ==
  ASSUME NEW q \in 0 .. 3, NEW apart, NEW len, NEW count, NEW z,
         LevelShape(q, apart, len, count, z), NEW c, Words(c), NEW r, Loaded(r, c, q)
  PROVE  Loaded(N!Level(r, apart, z), NttLayer(c, len, count), q)
<1>1. ASSUME NEW w \in 0 .. 7, NEW l \in 0 .. 7
      PROVE  LaneIs(N!Level(r, apart, z)[w], 0 .. 7, l, NttLayer(c, len, count)[64 * q + 8 * w + l])
  <2>l. PICK low : low = w - (w % (2 * apart)) + (w % apart)
    BY Zenon
  <2>i. PICK i : i = 64 * q + 8 * w + l
    BY Zenon
  <2>k. PICK k : k = z + w \div (2 * apart)
    BY Zenon
  <2>1. LevelPlace(q, w, l, apart, len, count, z, low, i)
    BY <2>l, <2>i, PlaceOfLevel
  <2>p. PICK pair : pair = N!Butterfly(r[low], r[low + apart], k)
    BY Zenon
  <2>2. N!Level(r, apart, z)[w] = IF w = low THEN pair[1] ELSE pair[2]
    BY <2>l, <2>k, <2>p, Zenon DEF N!Level
  <2>3. k \in 0 .. 127 /\ count + Group(i, len) = k /\ i \in Index /\ low \in 0 .. 7 /\ low + apart \in 0 .. 7
    BY <2>1, <2>k, Zenon DEF LevelPlace
  <2>u. PICK u : u = c[64 * q + 8 * low + l]
    BY Zenon
  <2>v. PICK v : v = c[64 * q + 8 * (low + apart) + l]
    BY Zenon
  <2>4. LaneIs(r[low], 0 .. 7, l, u) /\ LaneIs(r[low + apart], 0 .. 7, l, v)
    BY <2>3, <2>u, <2>v DEF Loaded
  <2>5. v \in Int16
    BY <2>1, <2>v DEF LevelPlace, Words
  <2>6. LaneIs(pair[1], 0 .. 7, l, SumOf(u, v, k)) /\ LaneIs(pair[2], 0 .. 7, l, GapOf(u, v, k))
    BY <2>3, <2>4, <2>5, <2>p, ButterflyOfNeon, Zenon
  <2>7. CASE w = low /\ IsLow(i, len) /\ i + len \in Index /\ i = 64 * q + 8 * low + l
             /\ i + len = 64 * q + 8 * (low + apart) + l
    <3>1. NttLayer(c, len, count)[i] = SumOf(u, v, k)
      BY <2>3, <2>7, <2>u, <2>v, Zenon DEF NttLayer, SumOf
    <3> QED
      BY <2>2, <2>6, <2>7, <2>i, <3>1
  <2>8. CASE w # low /\ ~IsLow(i, len) /\ i - len \in Index /\ i - len = 64 * q + 8 * low + l
             /\ i = 64 * q + 8 * (low + apart) + l
    <3>1. NttLayer(c, len, count)[i] = GapOf(u, v, k)
      BY <2>3, <2>8, <2>u, <2>v, Zenon DEF NttLayer, GapOf
    <3> QED
      BY <2>2, <2>6, <2>8, <2>i, <3>1
  <2> QED
    BY <2>1, <2>7, <2>8 DEF LevelPlace
<1> QED
  BY <1>1 DEF Loaded

\* The second trip on NEON, the strides 32, 16 and 8.
LEMMA QuarterOfNeon ==
  ASSUME NEW c, Words(c), NEW j \in Index
  PROVE  N!QuarterTrip(c)[j] = NttLayer(NttLayer(NttLayer(c, 32, 4), 16, 8), 8, 16)[j]
<1>v. PICK v : v = N!Windows(c, 8)
  BY Zenon
<1>q. PICK q \in 0 .. 3, w \in 0 .. 7, l \in 0 .. 7 : j = 64 * q + 8 * w + l
  <2>1. /\ j \div 64 \in 0 .. 3 /\ (j \div 8) % 8 \in 0 .. 7 /\ j % 8 \in 0 .. 7
        /\ j = 64 * (j \div 64) + 8 * ((j \div 8) % 8) + (j % 8)
    BY SMT DEF Index
  <2> QED
    BY <2>1
<1>r. PICK r : r = [k \in 0 .. 7 |-> v[8 * q + k]]
  BY Zenon
<1>1. Loaded(r, c, q)
  <2>1. ASSUME NEW k \in 0 .. 7, NEW e \in 0 .. 7 PROVE LaneIs(r[k], 0 .. 7, e, c[64 * q + 8 * k + e])
    <3>1. 8 * q + k \in 0 .. 31 /\ 8 * (8 * q + k) + e = 64 * q + 8 * k + e
      BY SMT
    <3>2. LaneIs(v[8 * q + k], 0 .. 7, e, c[8 * (8 * q + k) + e])
      BY <3>1, <1>v, WindowOfNeon
    <3> QED
      BY <1>r, <3>1, <3>2
  <2> QED
    BY <2>1 DEF Loaded
<1>a. PICK a : a = NttLayer(c, 32, 4)
  BY Zenon
<1>b. PICK b : b = NttLayer(a, 16, 8)
  BY Zenon
<1>d. PICK d : d = NttLayer(b, 8, 16)
  BY Zenon
<1>2. Words(a) /\ Words(b)
  <2>1. LayerShape(2, 32, 4) /\ LayerShape(3, 16, 8)
    BY DEF LayerShape
  <2>2. Words(a)
    BY <2>1, <1>a, WordsOfLayer
  <2> QED
    BY <2>1, <2>2, <1>b, WordsOfLayer
<1>3. Loaded(N!Level(r, 4, 4 + q), a, q)
  <2>1. LevelShape(q, 4, 32, 4, 4 + q)
    BY DEF LevelShape
  <2> QED
    BY <2>1, <1>1, <1>a, LevelIsLayer
<1>4. Loaded(N!Level(N!Level(r, 4, 4 + q), 2, 8 + 2 * q), b, q)
  <2>1. LevelShape(q, 2, 16, 8, 8 + 2 * q)
    BY DEF LevelShape
  <2> QED
    BY <2>1, <1>2, <1>3, <1>b, LevelIsLayer
<1>5. Loaded(N!Level(N!Level(N!Level(r, 4, 4 + q), 2, 8 + 2 * q), 1, 16 + 4 * q), d, q)
  <2>1. LevelShape(q, 1, 8, 16, 16 + 4 * q)
    BY DEF LevelShape
  <2> QED
    BY <2>1, <1>2, <1>4, <1>d, LevelIsLayer
<1>6. N!QuarterRegisters(v, q) = N!Level(N!Level(N!Level(r, 4, 4 + q), 2, 8 + 2 * q), 1, 16 + 4 * q)
  BY <1>r DEF N!QuarterRegisters
<1>7. N!QuarterRegisters(v, q)[w][l] = d[j]
  BY <1>5, <1>6, <1>q, ZenonT(40) DEF Loaded, LaneIs
<1>8. N!QuarterTrip(c)[j] = N!QuarterRegisters(v, q)[w][l]
  <2>1. PICK m \in 0 .. 31 : m = 8 * q + w /\ m \div 8 = q /\ m % 8 = w /\ j = 8 * m + l
    <3>1. 8 * q + w \in 0 .. 31 /\ (8 * q + w) \div 8 = q /\ (8 * q + w) % 8 = w /\ j = 8 * (8 * q + w) + l
      BY <1>q, SMT
    <3> QED
      BY <3>1
  <2>2. PICK u : u = [k \in 0 .. 3 |-> N!QuarterRegisters(v, k)]
    BY Zenon
  <2>3. PICK y : y = [k \in 0 .. 31 |-> u[k \div 8][k % 8]]
    BY Zenon
  <2>4. N!QuarterTrip(c) = N!Flat(y, 8)
    BY <1>v, <2>2, <2>3 DEF N!QuarterTrip
  <2>5. y[m] = N!QuarterRegisters(v, q)[w]
    BY <2>1, <2>2, <2>3, Zenon
  <2>6. N!Flat(y, 8)[8 * m + l] = y[m][l]
    BY FlatOfNeon
  <2> QED
    BY <2>1, <2>4, <2>5, <2>6, Zenon
<1> QED
  BY <1>a, <1>b, <1>d, <1>7, <1>8

-----------------------------------------------------------------------------
\* An inverse butterfly undoes one, twice over: the factor of each zeta and
\* its inverse is -1.
LEMMA InverseCarries ==
  ASSUME NEW u, NEW v, NEW lo, NEW hi, NEW z, Twisted(u, v, lo, hi, z), NEW scale \in Int,
         NEW p \in Int, NEW q \in Int, NEW t \in Int, NEW zi \in Int,
         Congruent(p, scale * lo), Congruent(q, scale * hi),
         (zi * z) % Q = Q - 1, Congruent(t, (q - p) * zi)
  PROVE  Congruent(p + q, (2 * scale) * u) /\ Congruent(t, (2 * scale) * v)
<1>1. u \in Int /\ v \in Int /\ lo \in Int /\ hi \in Int /\ z \in Int
  BY DEF Twisted
<1>2. PICK zv \in Int : zv = z * v
  BY <1>1, SMT
<1>3. PICK a \in Int : a = scale * (u + zv)
  BY <1>1, SMT
<1>4. PICK b \in Int : b = scale * (u - zv)
  BY <1>1, SMT
<1>5. u + zv \in Int /\ u - zv \in Int /\ scale * lo \in Int /\ scale * hi \in Int
  BY <1>1, SMT
<1>6. Congruent(scale * lo, a) /\ Congruent(scale * hi, b)
  BY <1>1, <1>2, <1>3, <1>4, <1>5, ClassProduct, ClassOfItself DEF Twisted
<1>7. Congruent(p, a) /\ Congruent(q, b)
  BY <1>5, <1>6, ClassOn
<1>8. Congruent(p + q, a + b) /\ Congruent(q - p, b - a)
  BY <1>7, ClassSum, ClassDifference
<1>9. a + b = (2 * scale) * u
  BY <1>1, <1>3, <1>4, SMT
<1>10. PICK s \in Int : s = (2 * scale) * v
  BY <1>1, SMT
<1>11. PICK y \in Int : y = zi * z
  BY <1>1, SMT
<1>12. (b - a) * zi = -(s * y)
  <2>1. b - a = -((2 * scale) * zv)
    BY <1>1, <1>3, <1>4, SMT
  <2>2. PICK f \in Int : f = 2 * scale
    BY SMT
  <2>3. (-(f * (z * v))) * zi = -((f * v) * (zi * z))
    BY <1>1, <2>2, SMT
  <2> QED
    BY <2>1, <2>2, <2>3, <1>2, <1>10, <1>11
<1>13. Congruent(y, -1)
  <2>1. Congruent(y, Q - 1)
    BY <1>11, ClassOfRemainder
  <2>2. Q - 1 \in Int /\ Congruent(Q - 1, -1)
    BY SMT DEF Q, Congruent
  <2>3. -1 \in Int
    BY SMT
  <2> QED
    BY <2>1, <2>2, <2>3, ClassOn
<1>14. Congruent(s * y, -s)
  <2>1. Congruent(s * y, s * (-1))
    <3>1. -1 \in Int
      BY SMT
    <3> QED
      BY <3>1, <1>13, ClassProduct, ClassOfItself
  <2>2. s * (-1) = -s
    BY SMT
  <2> QED
    BY <2>1, <2>2
<1>15. Congruent(-(s * y), s)
  <2>1. s * y \in Int /\ -s \in Int /\ 0 - (s * y) = -(s * y) /\ 0 - (-s) = s /\ 0 \in Int
    BY SMT
  <2>2. Congruent(0 - (s * y), 0 - (-s))
    BY <2>1, <1>14, ClassDifference, ClassOfItself
  <2> QED
    BY <2>1, <2>2
<1>16. Congruent((q - p) * zi, (b - a) * zi)
  <2>1. q - p \in Int /\ b - a \in Int
    BY SMT
  <2> QED
    BY <2>1, <1>8, ClassProduct, ClassOfItself
<1>17. Congruent(t, s)
  <2>1. (q - p) * zi \in Int /\ (b - a) * zi \in Int
    BY SMT
  <2>2. Congruent(t, (b - a) * zi)
    BY <2>1, <1>16, ClassOn
  <2>3. Congruent((b - a) * zi, s)
    BY <1>12, <1>15
  <2> QED
    BY <2>1, <2>2, <2>3, ClassOn
<1> QED
  BY <1>8, <1>9, <1>10, <1>17

\* The most that any coefficient has reached in ntt_inverse when n layers are
\* still split.
InverseCap(n) == <<26624, 13312, 6656, 3328, 13312, 6656, 3328, 16383>>[n + 1]

\* The sums within these fit, and are within the next.
CapsOfLayer(n, len) ==
  \A b, e \in Nat :
    b <= InverseCap(n + 1) /\ e <= InverseCap(n + 1) =>
      /\ Roomy(b + e)
      /\ ~InverseReduces(len) => b + e <= InverseCap(n)

\* Every layer of ntt_inverse has room for its sums, the reduction of every
\* other layer included.
LEMMA InverseRoom ==
  ASSUME NEW n, NEW len, NEW count, LayerShape(n, len, count)
  PROVE  CapsOfLayer(n, len)
<1>1. ASSUME n = 0, len = 128, count = 1 PROVE CapsOfLayer(n, len)
  BY <1>1, SMT DEF CapsOfLayer, InverseCap, Roomy, InverseReduces
<1>2. ASSUME n = 1, len = 64, count = 2 PROVE CapsOfLayer(n, len)
  BY <1>2, SMT DEF CapsOfLayer, InverseCap, Roomy, InverseReduces
<1>3. ASSUME n = 2, len = 32, count = 4 PROVE CapsOfLayer(n, len)
  BY <1>3, SMT DEF CapsOfLayer, InverseCap, Roomy, InverseReduces
<1>4. ASSUME n = 3, len = 16, count = 8 PROVE CapsOfLayer(n, len)
  BY <1>4, SMT DEF CapsOfLayer, InverseCap, Roomy, InverseReduces
<1>5. ASSUME n = 4, len = 8, count = 16 PROVE CapsOfLayer(n, len)
  BY <1>5, SMT DEF CapsOfLayer, InverseCap, Roomy, InverseReduces
<1>6. ASSUME n = 5, len = 4, count = 32 PROVE CapsOfLayer(n, len)
  BY <1>6, SMT DEF CapsOfLayer, InverseCap, Roomy, InverseReduces
<1>7. ASSUME n = 6, len = 2, count = 64 PROVE CapsOfLayer(n, len)
  BY <1>7, SMT DEF CapsOfLayer, InverseCap, Roomy, InverseReduces
<1> QED
  BY <1>1, <1>2, <1>3, <1>4, <1>5, <1>6, <1>7, Zenon DEF LayerShape

\* Canonical numbers and their negatives are within each.
LEMMA CapOfShort ==
  ASSUME NEW n \in 0 .. 7, NEW r \in Nat, Short(r)
  PROVE  r <= InverseCap(n)
<1>1. InverseCap(n) \in Int /\ 3328 <= InverseCap(n)
  BY SMT DEF InverseCap
<1> QED
  BY <1>1, SMT DEF Short

\* A sum of words within magnitudes that add up to no more than a word.
LEMMA SumInside ==
  ASSUME NEW p \in Int16, NEW q \in Int16, NEW bp, NEW bq, Inside(p, bp), Inside(q, bq), Roomy(bp + bq)
  PROVE  /\ p + q \in Int16 /\ Add(p, q) = p + q /\ Inside(p + q, bp + bq)
         /\ q - p \in Int16 /\ Sub(q, p) = q - p /\ Inside(q - p, bp + bq)
         /\ bp + bq = bq + bp /\ bp + bq \in Nat
<1>1. /\ bp \in Nat /\ bq \in Nat /\ -bp <= p /\ p <= bp /\ -bq <= q /\ q <= bq /\ bp + bq <= 32767
      /\ p \in Int /\ q \in Int
  BY SMT DEF Inside, Roomy, Int16
<1>2. /\ p + q \in Int /\ q - p \in Int /\ bp + bq \in Nat /\ bp + bq = bq + bp
      /\ -(bp + bq) <= p + q /\ p + q <= bp + bq /\ -(bp + bq) <= q - p /\ q - p <= bp + bq
      /\ -32768 <= p + q /\ p + q <= 32767 /\ -32768 <= q - p /\ q - p <= 32767
  BY <1>1, SMT
<1>3. p + q \in Int16 /\ q - p \in Int16
  BY <1>2, SMT DEF Int16
<1>4. Add(p, q) = p + q /\ Sub(q, p) = q - p
  BY <1>3, WrapInside, Zenon DEF Add, Sub
<1>5. Inside(p + q, bp + bq) /\ Inside(q - p, bp + bq)
  BY <1>2, SMT DEF Inside
<1>6. bp + bq = bq + bp /\ bp + bq \in Nat
  BY <1>2
<1> QED
  BY <1>3, <1>4, <1>5, <1>6

\* What a reduction leaves.
LEMMA BarrettInside ==
  ASSUME NEW a \in Int16
  PROVE  /\ Barrett(a) \in Int16 /\ Inside(Barrett(a), 1664) /\ Congruent(Barrett(a), a)
         /\ Short(1664) /\ 1664 \in Nat
<1>1. PICK y : y = Barrett(a)
  BY Zenon
<1>2. y \in Int /\ -1664 <= y /\ y <= 1664 /\ Multiple(y, a)
  BY <1>1, BarrettExact
<1>3. y \in Int16 /\ Inside(y, 1664) /\ Short(1664) /\ 1664 \in Nat
  BY <1>2, SMT DEF Int16, Inside, Short
<1>4. a \in Int
  BY SMT DEF Int16
<1>5. Congruent(y, a)
  BY <1>2, <1>4, MultipleCongruent
<1> QED
  BY <1>1, <1>3, <1>5

\* The entries of a layer of ntt_inverse and of the magnitudes there.
LEMMA SumsEntries ==
  ASSUME NEW b, NEW len, NEW i \in Index, IsLow(i, len), NEW k \in Index, ~IsLow(k, len),
         i + len = k, k - len = i
  PROVE  Sums(b, len)[i] = b[i] + b[k] /\ Sums(b, len)[k] = b[k] + b[i]
<1>1. Partner(i, len) = k /\ Partner(k, len) = i
  BY Zenon DEF Partner
<1> QED
  BY <1>1, Zenon DEF Sums

\* The two halves of what it does to the magnitudes.
LEMMA BoundEntryHigh ==
  ASSUME NEW b, NEW len, NEW k \in Index, ~IsLow(k, len)
  PROVE  InverseBound(b, len)[k] = Reach(Sums(b, len)[k])
<1>1. PICK S : S = Sums(b, len)
  BY Zenon
<1>2. \A j \in Index : InverseBound(b, len)[j] = CASE ~IsLow(j, len) -> Reach(S[j])
                                                 [] IsLow(j, len) /\ InverseReduces(len) -> 1664
                                                 [] OTHER -> S[j]
  BY <1>1 DEF InverseBound
<1> QED
  BY <1>1, <1>2

LEMMA BoundEntryLow ==
  ASSUME NEW b, NEW len, NEW i \in Index, IsLow(i, len)
  PROVE  /\ InverseReduces(len) => InverseBound(b, len)[i] = 1664
         /\ ~InverseReduces(len) => InverseBound(b, len)[i] = Sums(b, len)[i]
<1>1. PICK S : S = Sums(b, len)
  BY Zenon
<1>2. \A j \in Index : InverseBound(b, len)[j] = CASE ~IsLow(j, len) -> Reach(S[j])
                                                 [] IsLow(j, len) /\ InverseReduces(len) -> 1664
                                                 [] OTHER -> S[j]
  BY <1>1 DEF InverseBound
<1> QED
  BY <1>1, <1>2

\* The two halves of an inverse layer.
LEMMA InverseEntryHigh ==
  ASSUME NEW c, NEW len, NEW m, NEW k \in Index, ~IsLow(k, len)
  PROVE  InverseLayer(c, len, m)[k] = Twiddled(Sub(c[k], c[k - len]), InverseZeta(m, Group(k, len)))
BY Zenon DEF InverseLayer

LEMMA InverseEntryLow ==
  ASSUME NEW c, NEW len, NEW m, NEW i \in Index, IsLow(i, len)
  PROVE  /\ InverseReduces(len) => InverseLayer(c, len, m)[i] = Barrett(Add(c[i], c[i + len]))
         /\ ~InverseReduces(len) => InverseLayer(c, len, m)[i] = Add(c[i], c[i + len])
BY Zenon DEF InverseLayer

\* One butterfly of a layer of ntt_inverse, both of its places.
LEMMA InversePair ==
  ASSUME Operands, NEW n, NEW len, NEW count, LayerShape(n, len, count),
         NEW c, NEW b, Fits(c, b), Under(b, InverseCap(n + 1)),
         NEW scale \in Int, Carries(c, n + 1, scale),
         NEW i \in Index, IsLow(i, len), NEW k, k = i + len,
         NEW y, y = InverseLayer(c, len, 2 * count - 1), NEW w, w = InverseBound(b, len),
         NEW s, s = Sums(b, len)
  PROVE  /\ y[i] \in Int16 /\ Inside(y[i], w[i]) /\ w[i] <= InverseCap(n) /\ Roomy(s[i]) /\ s[i] \in Nat
         /\ y[k] \in Int16 /\ Inside(y[k], w[k]) /\ w[k] <= InverseCap(n) /\ Roomy(s[k]) /\ s[k] \in Nat
         /\ Congruent(y[i], (2 * scale) * Expected(n, i))
         /\ Congruent(y[k], (2 * scale) * Expected(n, k))
<1> DEFINE g == Group(i, len)
           z == ZETA_RAW[count + g]
           zi == ZETA_RAW[2 * count - 1 - g]
<1>1. /\ g \in Int /\ 0 <= g /\ g <= count - 1 /\ k \in Index /\ ~IsLow(k, len) /\ Group(k, len) = g
  BY PlaceOfLow, Zenon DEF LowPlace
<1>2. z \in 1 .. Q - 1 /\ zi \in 1 .. Q - 1
  BY <1>1, LayerZeta
<1>3. (zi * z) % Q = Q - 1
  <2>1. PICK r : r = Root[n + 1][2 * g]
    BY Zenon
  <2> QED
    BY <1>1, <2>1, RootSplit
<1>4. k - len = i /\ i + len = k /\ n + 1 \in 0 .. 7 /\ n \in 0 .. 7
  <2>1. i \in Int /\ len \in Int /\ n + 1 \in 0 .. 7 /\ n \in 0 .. 7
    BY SMT DEF LayerShape, Index
  <2> QED
    BY <2>1, SMT
<1>5. InverseZeta(2 * count - 1, g) = 2 * count - 1 - g
  BY DEF InverseZeta
<1>6. /\ s[i] = b[i] + b[k] /\ s[k] = b[k] + b[i] /\ w[k] = Reach(s[k])
      /\ InverseReduces(len) => w[i] = 1664
      /\ ~InverseReduces(len) => w[i] = s[i]
      /\ y[k] = BarrettConstMul(Sub(c[k], c[i]), zi)
      /\ InverseReduces(len) => y[i] = Barrett(Add(c[i], c[k]))
      /\ ~InverseReduces(len) => y[i] = Add(c[i], c[k])
  <2> HIDE DEF g, z, zi
  <2>1. PICK m : m = 2 * count - 1
    BY Zenon
  <2>3. y = InverseLayer(c, len, m)
    BY <2>1, Zenon
  <2>a. Sums(b, len)[i] = b[i] + b[k] /\ Sums(b, len)[k] = b[k] + b[i]
    BY <1>1, <1>4, SumsEntries, Zenon
  <2>b. InverseBound(b, len)[k] = Reach(Sums(b, len)[k])
    BY <1>1, BoundEntryHigh, Zenon
  <2>c. /\ InverseReduces(len) => InverseBound(b, len)[i] = 1664
        /\ ~InverseReduces(len) => InverseBound(b, len)[i] = Sums(b, len)[i]
    BY BoundEntryLow
  <2>d. InverseLayer(c, len, m)[k] = Twiddled(Sub(c[k], c[i]), InverseZeta(m, Group(k, len)))
    BY <1>1, <1>4, InverseEntryHigh, ZenonT(40)
  <2>e. /\ InverseReduces(len) => InverseLayer(c, len, m)[i] = Barrett(Add(c[i], c[k]))
        /\ ~InverseReduces(len) => InverseLayer(c, len, m)[i] = Add(c[i], c[k])
    <3>1. /\ InverseReduces(len) => InverseLayer(c, len, m)[i] = Barrett(Add(c[i], c[i + len]))
          /\ ~InverseReduces(len) => InverseLayer(c, len, m)[i] = Add(c[i], c[i + len])
      BY InverseEntryLow
    <3> QED
      BY <1>4, <3>1
  <2>4. y[k] = Twiddled(Sub(c[k], c[i]), m - g)
    BY <1>1, <2>3, <2>d, Zenon DEF InverseZeta
  <2>5. Twiddled(Sub(c[k], c[i]), m - g) = BarrettConstMul(Sub(c[k], c[i]), zi)
    BY <2>1, Zenon DEF Twiddled, zi
  <2>f. /\ InverseReduces(len) => w[i] = 1664
        /\ ~InverseReduces(len) => w[i] = s[i]
    BY <2>c
  <2>g. w[k] = Reach(s[k])
    BY <2>b
  <2>h. y[k] = BarrettConstMul(Sub(c[k], c[i]), zi)
    BY <2>4, <2>5, Zenon
  <2> QED
    BY <2>a, <2>e, <2>f, <2>g, <2>h, <2>3
<1> HIDE DEF g, z, zi
<1>p. PICK p \in Int16 : p = c[i]
  BY <1>1 DEF Fits
<1>q. PICK q \in Int16 : q = c[k]
  BY <1>1 DEF Fits
<1>e. PICK e : e = b[i]
  BY Zenon
<1>f. PICK f : f = b[k]
  BY Zenon
<1>7. Inside(p, e) /\ Inside(q, f) /\ e <= InverseCap(n + 1) /\ f <= InverseCap(n + 1)
  BY <1>1, <1>p, <1>q, <1>e, <1>f DEF Fits, Under
<1>8. Roomy(e + f) /\ (~InverseReduces(len) => e + f <= InverseCap(n))
  <2>1. e \in Nat /\ f \in Nat
    BY <1>7 DEF Inside
  <2> QED
    BY <1>7, <2>1, InverseRoom DEF CapsOfLayer
<1>9. /\ p + q \in Int16 /\ Add(p, q) = p + q /\ Inside(p + q, e + f)
      /\ q - p \in Int16 /\ Sub(q, p) = q - p /\ Inside(q - p, e + f)
      /\ e + f = f + e /\ e + f \in Nat
  BY <1>7, <1>8, SumInside, Zenon
<1>10. s[i] = e + f /\ s[k] = e + f
  BY <1>6, <1>9, <1>e, <1>f
<1>t. PICK t : t = BarrettConstMul(q - p, zi)
  BY Zenon
<1>r. PICK r : r = Reach(e + f)
  BY Zenon
<1>11. Congruent(t, (q - p) * zi) /\ t \in Int /\ Inside(t, r) /\ Short(r) /\ t \in Int16
  <2>1. PICK a \in Int16 : a = q - p
    BY <1>9
  <2>2. PICK d : d = e + f
    BY Zenon
  <2>3. Congruent(t, a * zi) /\ t \in Int /\ Inside(t, r) /\ Short(r)
    BY <1>2, <1>8, <1>9, <1>t, <1>r, <2>1, <2>2, ConstMulWithin
  <2>4. t \in Int16
    BY <2>3, SMT DEF Inside, Short, Int16
  <2> QED
    BY <2>1, <2>3, <2>4
<1>12. y[k] = t /\ w[k] = r
  BY <1>6, <1>9, <1>10, <1>p, <1>q, <1>t, <1>r
<1>13. r <= InverseCap(n)
  <2>1. r \in Nat
    BY <1>11 DEF Inside
  <2> QED
    BY <1>4, <1>11, <2>1, CapOfShort
<1>14. Twisted(Expected(n, i), Expected(n, k), Expected(n + 1, i), Expected(n + 1, k), z)
  BY ExpectedTwisted, Zenon DEF z, g
<1>15. Congruent(p, scale * Expected(n + 1, i)) /\ Congruent(q, scale * Expected(n + 1, k))
  BY <1>1, <1>p, <1>q DEF Carries
<1>16. /\ Congruent(p + q, (2 * scale) * Expected(n, i))
       /\ Congruent(t, (2 * scale) * Expected(n, k))
  <2>1. p \in Int /\ q \in Int /\ zi \in Int
    BY <1>2, SMT DEF Int16
  <2> QED
    BY <1>3, <1>11, <1>14, <1>15, <2>1, InverseCarries
<1>17. y[i] \in Int16 /\ Inside(y[i], w[i]) /\ w[i] <= InverseCap(n)
       /\ Congruent(y[i], (2 * scale) * Expected(n, i))
  <2>1. CASE InverseReduces(len)
    <3>1. PICK a \in Int16 : a = p + q
      BY <1>9
    <3>2. y[i] = Barrett(a) /\ w[i] = 1664
      BY <1>6, <1>9, <1>p, <1>q, <2>1, <3>1
    <3>3. /\ Barrett(a) \in Int16 /\ Inside(Barrett(a), 1664) /\ Congruent(Barrett(a), a)
          /\ Short(1664) /\ 1664 \in Nat
      BY BarrettInside
    <3>4. 1664 <= InverseCap(n)
      BY <1>4, <3>3, CapOfShort
    <3>5. Congruent(Barrett(a), (2 * scale) * Expected(n, i))
      <4>1. Barrett(a) \in Int /\ a \in Int
        BY <3>3, SMT DEF Int16
      <4>2. (2 * scale) * Expected(n, i) \in Int
        <5>1. Expected(n, i) \in Int
          BY <1>14 DEF Twisted
        <5> QED
          BY <5>1, SMT
      <4>3. Congruent(a, (2 * scale) * Expected(n, i))
        BY <1>16, <3>1
      <4> QED
        BY <3>3, <4>1, <4>2, <4>3, ClassOn
    <3> QED
      BY <3>2, <3>3, <3>4, <3>5
  <2>2. CASE ~InverseReduces(len)
    <3>1. y[i] = p + q /\ w[i] = e + f
      BY <1>6, <1>9, <1>10, <1>p, <1>q, <2>2
    <3> QED
      BY <1>8, <1>9, <1>16, <2>2, <3>1
  <2> QED
    BY <2>1, <2>2
<1> QED
  BY <1>8, <1>9, <1>10, <1>11, <1>12, <1>13, <1>16, <1>17

\* A layer of ntt_inverse fits, and carries twice the residues back.
LEMMA LayerBack ==
  ASSUME Operands, NEW n, NEW len, NEW count, LayerShape(n, len, count),
         NEW c, NEW b, Fits(c, b), Under(b, InverseCap(n + 1)),
         NEW scale \in Int, Carries(c, n + 1, scale)
  PROVE  /\ Fits(InverseLayer(c, len, 2 * count - 1), InverseBound(b, len))
         /\ Under(InverseBound(b, len), InverseCap(n))
         /\ \A j \in Index : Sums(b, len)[j] \in Nat /\ Roomy(Sums(b, len)[j])
         /\ Carries(InverseLayer(c, len, 2 * count - 1), n, 2 * scale)
<1>y. PICK y : y = InverseLayer(c, len, 2 * count - 1)
  BY Zenon
<1>w. PICK w : w = InverseBound(b, len)
  BY Zenon
<1>s. PICK s : s = Sums(b, len)
  BY Zenon
<1> DEFINE Here(j) == /\ y[j] \in Int16 /\ Inside(y[j], w[j]) /\ w[j] <= InverseCap(n)
                      /\ Roomy(s[j]) /\ s[j] \in Nat
                      /\ Congruent(y[j], (2 * scale) * Expected(n, j))
<1>1. ASSUME NEW j \in Index PROVE Here(j)
  <2>1. CASE IsLow(j, len)
    BY <2>1, <1>y, <1>w, <1>s, InversePair, Zenon
  <2>2. CASE ~IsLow(j, len)
    <3>1. PICK i : i = j - len
      BY Zenon
    <3>2. i \in Index /\ IsLow(i, len) /\ j = i + len
      BY <2>2, <3>1, PlaceOfHigh
    <3> QED
      BY <3>2, <1>y, <1>w, <1>s, InversePair, Zenon
  <2> QED
    BY <2>1, <2>2
<1> QED
  BY <1>1, <1>y, <1>w, <1>s, Zenon DEF Fits, Under, Carries

-----------------------------------------------------------------------------
\* A vector of w lanes of a layer of ntt_inverse is in one half of its group,
\* and so is its partner, `far' vectors from it.
VectorPlace(w, m, l, i, len, far) ==
  /\ i \in Index /\ IsLow(w * m, len) = IsLow(i, len) /\ Group(w * m, len) = Group(i, len)
  /\ IsLow(i, len) =>
       m + far \in 0 .. 256 \div w - 1 /\ w * (m + far) + l = i + len /\ i + len \in Index
  /\ ~IsLow(i, len) =>
       m - far \in 0 .. 256 \div w - 1 /\ w * (m - far) + l = i - len /\ i - len \in Index

\* A vector of the first four inverse layers lies in one half of its group.
LEMMA VectorPlaceOfAvx2 ==
  ASSUME NEW n, NEW len, NEW count, LayerShape(n, len, count), n <= 3,
         NEW m \in 0 .. 15, NEW l \in 0 .. 15, NEW i, i = 16 * m + l, NEW far, far = len \div 16
  PROVE  VectorPlace(16, m, l, i, len, far)
<1> DEFINE Goal == VectorPlace(16, m, l, i, len, far)
<1>0. far \in Int /\ i \in Int
  BY SMT DEF LayerShape
<1>1. ASSUME n = 0, len = 128, count = 1 PROVE Goal
  BY <1>1, SMTT(60) DEF VectorPlace, IsLow, Group, Index
<1>2. ASSUME n = 1, len = 64, count = 2 PROVE Goal
  BY <1>2, SMTT(60) DEF VectorPlace, IsLow, Group, Index
<1>3. ASSUME n = 2, len = 32, count = 4 PROVE Goal
  BY <1>3, SMTT(60) DEF VectorPlace, IsLow, Group, Index
<1>4. ASSUME n = 3, len = 16, count = 8 PROVE Goal
  BY <1>4, SMTT(60) DEF VectorPlace, IsLow, Group, Index
<1>5. (n = 0 /\ len = 128 /\ count = 1) \/ (n = 1 /\ len = 64 /\ count = 2)
      \/ (n = 2 /\ len = 32 /\ count = 4) \/ (n = 3 /\ len = 16 /\ count = 8)
  BY SMT DEF LayerShape
<1> QED
  BY <1>1, <1>2, <1>3, <1>4, <1>5, Zenon

LEMMA VectorPlaceOfNeon ==
  ASSUME NEW n, NEW len, NEW count, LayerShape(n, len, count), n <= 4,
         NEW m \in 0 .. 31, NEW l \in 0 .. 7, NEW i, i = 8 * m + l, NEW far, far = len \div 8
  PROVE  VectorPlace(8, m, l, i, len, far)
<1> DEFINE Goal == VectorPlace(8, m, l, i, len, far)
<1>1. ASSUME n = 0, len = 128, count = 1 PROVE Goal
  BY <1>1, SMTT(60) DEF VectorPlace, IsLow, Group, Index
<1>2. ASSUME n = 1, len = 64, count = 2 PROVE Goal
  BY <1>2, SMTT(60) DEF VectorPlace, IsLow, Group, Index
<1>3. ASSUME n = 2, len = 32, count = 4 PROVE Goal
  BY <1>3, SMTT(60) DEF VectorPlace, IsLow, Group, Index
<1>4. ASSUME n = 3, len = 16, count = 8 PROVE Goal
  BY <1>4, SMTT(60) DEF VectorPlace, IsLow, Group, Index
<1>5. ASSUME n = 4, len = 8, count = 16 PROVE Goal
  BY <1>5, SMTT(60) DEF VectorPlace, IsLow, Group, Index
<1>6. (n = 0 /\ len = 128 /\ count = 1) \/ (n = 1 /\ len = 64 /\ count = 2)
      \/ (n = 2 /\ len = 32 /\ count = 4) \/ (n = 3 /\ len = 16 /\ count = 8)
      \/ (n = 4 /\ len = 8 /\ count = 16)
  BY SMT DEF LayerShape
<1> QED
  BY <1>1, <1>2, <1>3, <1>4, <1>5, <1>6, Zenon

\* The plain operators of the backends are the one definition.
LEMMA PlacesOfBackends ==
  ASSUME NEW j, NEW len, NEW k
  PROVE  /\ A!IsLow(j, len) = IsLow(j, len) /\ A!Group(j, len) = Group(j, len)
         /\ N!IsLow(j, len) = IsLow(j, len) /\ N!Group(j, len) = Group(j, len)
         /\ A!InverseZeta(k, j) = InverseZeta(k, j) /\ N!InverseZeta(k, j) = InverseZeta(k, j)
BY DEF A!IsLow, A!Group, N!IsLow, N!Group, IsLow, Group, A!InverseZeta, N!InverseZeta, InverseZeta

\* Only the stride 16 is reduced in the vector loops.
LEMMA VectorReduces ==
  ASSUME NEW n, NEW len, NEW count, LayerShape(n, len, count), n <= 4
  PROVE  InverseReduces(len) = (len = 16)
BY SMT DEF LayerShape, InverseReduces

-----------------------------------------------------------------------------
\* A lane of a layer of ntt_inverse's vector loop.
LEMMA InverseLaneOfAvx2 ==
  ASSUME NEW n, NEW len, NEW count, LayerShape(n, len, count), n <= 3, NEW c, Words(c), NEW k,
         NEW m \in 0 .. 15, NEW l \in 0 .. 15, NEW i, i = 16 * m + l
  PROVE  A!VecInverseLayer(c, len, k)[i] = InverseLayer(c, len, k)[i]
<1>f. PICK far : far = len \div 16
  BY Zenon
<1>v. PICK v : v = A!Windows(c, 16)
  BY Zenon
<1>1. VectorPlace(16, m, l, i, len, far)
  BY <1>f, VectorPlaceOfAvx2
<1>2. i \in Index /\ IsLow(16 * m, len) = IsLow(i, len) /\ Group(16 * m, len) = Group(i, len)
  BY <1>1 DEF VectorPlace
<1> DEFINE sum(p) == A!Plus(v[p], v[p + far])
           high(p) == A!ConstMul(A!Minus(v[p], v[p - far]), A!InverseZeta(k, A!Group(16 * p, len)))
           F == [p \in 0 .. 15 |->
                  CASE A!IsLow(16 * p, len) /\ len = 16 -> A!BarrettLanes(sum(p))
                    [] A!IsLow(16 * p, len) /\ len # 16 -> sum(p)
                    [] OTHER -> high(p)]
<1>3. A!VecInverseLayer(c, len, k) = A!Flat(F, 16)
  BY <1>f, <1>v DEF A!VecInverseLayer
<1>4. A!VecInverseLayer(c, len, k)[i] = F[m][l]
  <2> HIDE DEF F
  <2>1. A!Flat(F, 16)[16 * m + l] = F[m][l]
    BY FlatOfAvx2, Zenon
  <2> QED
    BY <1>3, <2>1
<1>5. /\ IsLow(i, len) /\ len = 16 => F[m] = A!BarrettLanes(sum(m))
      /\ IsLow(i, len) /\ len # 16 => F[m] = sum(m)
      /\ ~IsLow(i, len) => F[m] = high(m)
  <2>1. A!IsLow(16 * m, len) = IsLow(i, len)
    BY <1>2, PlacesOfBackends
  <2> HIDE DEF sum, high
  <2> QED
    BY <2>1
<1> HIDE DEF F
<1>w. LaneIs(v[m], 0 .. 15, l, c[i])
  BY <1>v, WindowOfAvx2
<1>6. CASE IsLow(i, len)
  <2>1. m + far \in 0 .. 15 /\ 16 * (m + far) + l = i + len /\ i + len \in Index
    <3>1. 256 \div 16 - 1 = 15
      BY SMT
    <3> QED
      BY <1>1, <1>6, <3>1 DEF VectorPlace
  <2>2. LaneIs(v[m + far], 0 .. 15, l, c[i + len])
    BY <1>v, <2>1, WindowOfAvx2
  <2>3. LaneIs(sum(m), 0 .. 15, l, Add(c[i], c[i + len]))
    <3>1. LaneIs(A!Plus(v[m], v[m + far]), 0 .. 15, l, A!Wrap16(c[i] + c[i + len]))
      BY <1>w, <2>2, Zenon DEF LaneIs, A!Plus
    <3> QED
      BY <3>1, WordsOfAvx2 DEF Add
  <2> HIDE DEF sum
  <2>4. Add(c[i], c[i + len]) \in Int16
    <3>1. c[i] \in Int /\ c[i + len] \in Int
      BY <1>2, <2>1, AnInteger DEF Words
    <3>2. c[i] + c[i + len] \in Int
      BY <3>1
    <3> QED
      BY <3>2, WrapSame DEF Add
  <2>5. CASE len = 16
    <3>1. A!BarrettLanes(sum(m))[l] = Barrett(Add(c[i], c[i + len]))
      BY <2>3, <2>4, BarrettOfAvx2 DEF LaneIs
    <3>2. InverseReduces(len)
      BY <2>5 DEF InverseReduces
    <3> QED
      BY <1>2, <1>4, <1>5, <1>6, <2>5, <3>1, <3>2, InverseEntryLow
  <2>6. CASE len # 16
    <3>0. n <= 4
      BY SMT DEF LayerShape
    <3>1. ~InverseReduces(len)
      BY <2>6, <3>0, VectorReduces
    <3> QED
      BY <1>2, <1>4, <1>5, <1>6, <2>3, <2>6, <3>1, InverseEntryLow DEF LaneIs
  <2> QED
    BY <2>5, <2>6
<1>7. CASE ~IsLow(i, len)
  <2>1. m - far \in 0 .. 15 /\ 16 * (m - far) + l = i - len /\ i - len \in Index
    <3>1. 256 \div 16 - 1 = 15
      BY SMT
    <3> QED
      BY <1>1, <1>7, <3>1 DEF VectorPlace
  <2>2. LaneIs(v[m - far], 0 .. 15, l, c[i - len])
    BY <1>v, <2>1, WindowOfAvx2
  <2>3. LaneIs(A!Minus(v[m], v[m - far]), 0 .. 15, l, Sub(c[i], c[i - len]))
    <3>1. LaneIs(A!Minus(v[m], v[m - far]), 0 .. 15, l, A!Wrap16(c[i] - c[i - len]))
      BY <1>w, <2>2, Zenon DEF LaneIs, A!Minus
    <3> QED
      BY <3>1, WordsOfAvx2 DEF Sub
  <2>4. A!InverseZeta(k, A!Group(16 * m, len)) = InverseZeta(k, Group(i, len))
    BY <1>2, PlacesOfBackends, Zenon
  <2>5. LaneIs(high(m), 0 .. 15, l, Twiddled(Sub(c[i], c[i - len]), InverseZeta(k, Group(i, len))))
    BY <2>3, <2>4, ConstMulOfAvx2, Zenon
  <2>6. F[m] = high(m)
    BY <1>5, <1>7
  <2> HIDE DEF high
  <2> QED
    BY <1>2, <1>4, <1>7, <2>5, <2>6, InverseEntryHigh, ZenonT(40) DEF LaneIs
<1> QED
  BY <1>6, <1>7

LEMMA InverseLaneOfNeon ==
  ASSUME NEW n, NEW len, NEW count, LayerShape(n, len, count), n <= 4, NEW c, Words(c),
         NEW k, k = 2 * count - 1,
         NEW m \in 0 .. 31, NEW l \in 0 .. 7, NEW i, i = 8 * m + l
  PROVE  N!VecInverseLayer(c, len, k)[i] = InverseLayer(c, len, k)[i]
<1>f. PICK far : far = len \div 8
  BY Zenon
<1>v. PICK v : v = N!Windows(c, 8)
  BY Zenon
<1>1. VectorPlace(8, m, l, i, len, far)
  BY <1>f, VectorPlaceOfNeon
<1>2. i \in Index /\ IsLow(8 * m, len) = IsLow(i, len) /\ Group(8 * m, len) = Group(i, len)
  BY <1>1 DEF VectorPlace
<1> DEFINE sum(p) == N!Plus(v[p], v[p + far])
           high(p) == N!ConstMul(N!Minus(v[p], v[p - far]), N!InverseZeta(k, N!Group(8 * p, len)))
           F == [p \in 0 .. 31 |->
                  CASE N!IsLow(8 * p, len) /\ len = 16 -> N!BarrettLanes(sum(p))
                    [] N!IsLow(8 * p, len) /\ len # 16 -> sum(p)
                    [] OTHER -> high(p)]
<1>3. N!VecInverseLayer(c, len, k) = N!Flat(F, 8)
  BY <1>f, <1>v DEF N!VecInverseLayer
<1>4. N!VecInverseLayer(c, len, k)[i] = F[m][l]
  <2> HIDE DEF F
  <2> QED
    BY <1>3, FlatOfNeon
<1>5. /\ IsLow(i, len) /\ len = 16 => F[m] = N!BarrettLanes(sum(m))
      /\ IsLow(i, len) /\ len # 16 => F[m] = sum(m)
      /\ ~IsLow(i, len) => F[m] = high(m)
  <2>1. N!IsLow(8 * m, len) = IsLow(i, len)
    BY <1>2, PlacesOfBackends
  <2> HIDE DEF sum, high
  <2> QED
    BY <2>1
<1> HIDE DEF F
<1>w. LaneIs(v[m], 0 .. 7, l, c[i])
  BY <1>v, WindowOfNeon
<1>6. CASE IsLow(i, len)
  <2>1. m + far \in 0 .. 31 /\ 8 * (m + far) + l = i + len /\ i + len \in Index
    <3>1. 256 \div 8 - 1 = 31
      BY SMT
    <3> QED
      BY <1>1, <1>6, <3>1 DEF VectorPlace
  <2>2. LaneIs(v[m + far], 0 .. 7, l, c[i + len])
    BY <1>v, <2>1, WindowOfNeon
  <2>3. LaneIs(sum(m), 0 .. 7, l, Add(c[i], c[i + len]))
    <3>1. LaneIs(N!Plus(v[m], v[m + far]), 0 .. 7, l, N!Wrap16(c[i] + c[i + len]))
      BY <1>w, <2>2, Zenon DEF LaneIs, N!Plus
    <3> QED
      BY <3>1, WordsOfNeon DEF Add
  <2> HIDE DEF sum
  <2>4. Add(c[i], c[i + len]) \in Int16
    <3>1. c[i] \in Int /\ c[i + len] \in Int
      BY <1>2, <2>1, AnInteger DEF Words
    <3>2. c[i] + c[i + len] \in Int
      BY <3>1
    <3> QED
      BY <3>2, WrapSame DEF Add
  <2>5. CASE len = 16
    <3>1. N!BarrettLanes(sum(m))[l] = Barrett(Add(c[i], c[i + len]))
      BY <2>3, <2>4, BarrettOfNeon DEF LaneIs
    <3>2. InverseReduces(len)
      BY <2>5 DEF InverseReduces
    <3> QED
      BY <1>2, <1>4, <1>5, <1>6, <2>5, <3>1, <3>2, InverseEntryLow
  <2>6. CASE len # 16
    <3>1. ~InverseReduces(len)
      BY <2>6, VectorReduces
    <3> QED
      BY <1>2, <1>4, <1>5, <1>6, <2>3, <2>6, <3>1, InverseEntryLow DEF LaneIs
  <2> QED
    BY <2>5, <2>6
<1>7. CASE ~IsLow(i, len)
  <2>1. m - far \in 0 .. 31 /\ 8 * (m - far) + l = i - len /\ i - len \in Index
    <3>1. 256 \div 8 - 1 = 31
      BY SMT
    <3> QED
      BY <1>1, <1>7, <3>1 DEF VectorPlace
  <2>2. LaneIs(v[m - far], 0 .. 7, l, c[i - len])
    BY <1>v, <2>1, WindowOfNeon
  <2>3. LaneIs(N!Minus(v[m], v[m - far]), 0 .. 7, l, Sub(c[i], c[i - len]))
    <3>1. LaneIs(N!Minus(v[m], v[m - far]), 0 .. 7, l, N!Wrap16(c[i] - c[i - len]))
      BY <1>w, <2>2, Zenon DEF LaneIs, N!Minus
    <3> QED
      BY <3>1, WordsOfNeon DEF Sub
  <2>4. N!InverseZeta(k, N!Group(8 * m, len)) = InverseZeta(k, Group(i, len))
    BY <1>2, PlacesOfBackends, Zenon
  <2>z. InverseZeta(k, Group(i, len)) \in 0 .. 127
    <3>1. /\ Group(i, len) \in Int /\ 0 <= Group(i, len) /\ Group(i, len) <= count - 1
      <4>1. IsLow(i - len, len) /\ Group(i - len, len) = Group(i, len)
        BY <1>2, <1>7, PlaceOfHigh
      <4> QED
        BY <2>1, <4>1, PlaceOfLow DEF LowPlace
    <3> QED
      BY <3>1, LayerZeta DEF InverseZeta
  <2>s. Sub(c[i], c[i - len]) \in Int16
    <3>1. c[i] \in Int /\ c[i - len] \in Int
      BY <1>2, <2>1, AnInteger DEF Words
    <3>2. c[i] - c[i - len] \in Int
      BY <3>1
    <3> QED
      BY <3>2, WrapSame DEF Sub
  <2>5. LaneIs(high(m), 0 .. 7, l, Twiddled(Sub(c[i], c[i - len]), InverseZeta(k, Group(i, len))))
    BY <2>3, <2>4, <2>z, <2>s, ConstMulOfNeon, Zenon
  <2>6. F[m] = high(m)
    BY <1>5, <1>7
  <2> HIDE DEF high
  <2> QED
    BY <1>2, <1>4, <1>7, <2>5, <2>6, InverseEntryHigh, ZenonT(40) DEF LaneIs
<1> QED
  BY <1>6, <1>7

\* The vector loops of ntt_inverse are its layers.
LEMMA InverseOfAvx2 ==
  ASSUME NEW n, NEW len, NEW count, LayerShape(n, len, count), n <= 3, NEW c, Words(c), NEW k, NEW j \in Index
  PROVE  A!VecInverseLayer(c, len, k)[j] = InverseLayer(c, len, k)[j]
<1>1. j \div 16 \in 0 .. 15 /\ j % 16 \in 0 .. 15 /\ j = 16 * (j \div 16) + (j % 16)
  BY PlaceOfAvx2
<1>2. PICK m \in 0 .. 15 : m = j \div 16
  BY <1>1
<1>3. PICK l \in 0 .. 15 : l = j % 16
  BY <1>1
<1> QED
  <2>1. j = 16 * m + l
    BY <1>1, <1>2, <1>3, Zenon
  <2> QED
    BY <2>1, InverseLaneOfAvx2

LEMMA InverseOfNeon ==
  ASSUME NEW n, NEW len, NEW count, LayerShape(n, len, count), n <= 4, NEW c, Words(c), NEW j \in Index
  PROVE  N!VecInverseLayer(c, len, 2 * count - 1)[j] = InverseLayer(c, len, 2 * count - 1)[j]
<1>1. j \div 8 \in 0 .. 31 /\ j % 8 \in 0 .. 7 /\ j = 8 * (j \div 8) + (j % 8)
  BY PlaceOfNeon
<1>2. PICK m \in 0 .. 31 : m = j \div 8
  BY <1>1
<1>3. PICK l \in 0 .. 7 : l = j % 8
  BY <1>1
<1> QED
  <2>1. j = 8 * m + l
    BY <1>1, <1>2, <1>3, Zenon
  <2>2. PICK k : k = 2 * count - 1
    BY Zenon
  <2>3. N!VecInverseLayer(c, len, k)[j] = InverseLayer(c, len, k)[j]
    BY <2>1, <2>2, InverseLaneOfNeon
  <2> QED
    BY <2>2, <2>3, Zenon

-----------------------------------------------------------------------------
\* The lanes of a product of two vectors.
LEMMA FqMulOfAvx2 ==
  ASSUME NEW a, NEW b, NEW D, NEW l \in D, NEW p \in Int, NEW q \in Int, LaneIs(a, D, l, p), LaneIs(b, D, l, q)
  PROVE  LaneIs(A!FqMul(a, b), D, l, Mul(p, q))
<1>1. /\ DOMAIN A!FqMul(a, b) = D
      /\ A!FqMul(a, b)[l] = A!Wrap16(A!High(p * q) - A!High(A!Wrap16(A!Wrap16(p * q) * A!QINV) * A!Q))
  BY Zenon DEF LaneIs, A!FqMul, A!Minus, A!MulHigh, A!MulLow, A!Broadcast
<1>2. PICK y \in Int : y = p * q
  BY SMT
<1>3. A!FqMul(a, b)[l] = Wrap16(High(y) - High(Wrap16(Wrap16(y) * QINV) * Q))
  BY <1>1, <1>2, WordsOfAvx2, SMT
<1>h. PICK hi \in Int : hi = High(y)
  BY Halved
<1>g. PICK lo \in Nat : lo = Low(y) /\ lo <= 65535
  BY Halved
<1>4. hi = High(y) /\ lo = Low(y) /\ lo <= 65535
  BY <1>h, <1>g
<1>5. PICK s \in Int : s = Shifted(lo)
  BY <1>4, MontgomeryQuotient
<1>6. High(Wrap16(Wrap16(y) * QINV) * Q) = -s
  BY <1>4, <1>5, FactorOfWord, FactorHigh
<1>7. High(y) - High(Wrap16(Wrap16(y) * QINV) * Q) = hi + s
  BY <1>4, <1>6, SMT
<1>8. Mul(p, q) = Wrap16(hi + s)
  BY <1>2, <1>4, <1>5, ReductionForm, SMT DEF Mul
<1> QED
  BY <1>1, <1>3, <1>7, <1>8 DEF LaneIs

LEMMA FqMulOfNeon ==
  ASSUME NEW a, NEW b, NEW l \in 0 .. 7, NEW p \in Int, NEW q \in Int,
         LaneIs(a, 0 .. 7, l, p), LaneIs(b, 0 .. 7, l, q)
  PROVE  LaneIs(N!FqMul(a, b), 0 .. 7, l, Mul(p, q))
<1>1. N!FqMul(a, b)
        = N!Combine(N!MontgomeryLanes(HalfProduct(N!LowLanes(a), N!LowLanes(b))),
                    N!MontgomeryLanes(HalfProduct(N!HighLanes(a), N!HighLanes(b))))
  BY Zenon DEF N!FqMul, HalfProduct
<1>2. DOMAIN N!FqMul(a, b) = 0 .. 7
  BY <1>1, Zenon DEF N!Combine
<1>3. CASE l \in 0 .. 3
  <2>1. N!LowLanes(a)[l] = p /\ N!LowLanes(b)[l] = q
    BY <1>3, LowerLane DEF LaneIs
  <2>2. N!MontgomeryLanes(HalfProduct(N!LowLanes(a), N!LowLanes(b)))[l] = Mul(p, q)
    BY <1>3, <2>1, HalfProductLane
  <2> QED
    BY <1>1, <1>2, <1>3, <2>2, CombinedLow DEF LaneIs
<1>4. CASE l \in 4 .. 7
  <2>1. l - 4 \in 0 .. 3 /\ N!HighLanes(a)[l - 4] = p /\ N!HighLanes(b)[l - 4] = q
    BY <1>4, UpperLane DEF LaneIs
  <2>2. N!MontgomeryLanes(HalfProduct(N!HighLanes(a), N!HighLanes(b)))[l - 4] = Mul(p, q)
    BY <2>1, HalfProductLane
  <2> QED
    BY <1>1, <1>2, <1>4, <2>2, CombinedHigh DEF LaneIs
<1> QED
  BY <1>3, <1>4, SMT

\* The factors of a product are in any order.
LEMMA MulCommutes ==
  ASSUME NEW p \in Int, NEW q \in Int
  PROVE  Mul(p, q) = Mul(q, p)
<1>1. p * q = q * p
  BY SMT
<1> QED
  BY <1>1, Zenon DEF Mul

\* The scaling that ends ntt_inverse.
LEMMA ScaledOfAvx2 ==
  ASSUME NEW c, Words(c), NEW m \in 0 .. 15, NEW l \in 0 .. 15, NEW i, i = 16 * m + l
  PROVE  A!VecScaled(c)[i] = Scaled(c)[i]
<1>v. PICK v : v = A!Windows(c, 16)
  BY Zenon
<1> DEFINE F == [n \in 0 .. 15 |-> A!FqMul(A!Broadcast(v[n], A!NTT_INVERSE_SCALE), v[n])]
<1>1. A!VecScaled(c) = A!Flat(F, 16)
  BY <1>v DEF A!VecScaled
<1>2. A!VecScaled(c)[i] = F[m][l] /\ i \in Index
  <2> HIDE DEF F
  <2>1. A!Flat(F, 16)[16 * m + l] = F[m][l] /\ 16 * m + l \in Index
    BY FlatOfAvx2, Zenon
  <2> QED
    BY <1>1, <2>1
<1>3. LaneIs(v[m], 0 .. 15, l, c[i])
  BY <1>v, WindowOfAvx2
<1>4. LaneIs(A!Broadcast(v[m], A!NTT_INVERSE_SCALE), 0 .. 15, l, NTT_INVERSE_SCALE)
  BY <1>3 DEF LaneIs, A!Broadcast, A!NTT_INVERSE_SCALE, NTT_INVERSE_SCALE
<1>5. c[i] \in Int /\ NTT_INVERSE_SCALE \in Int
  BY <1>2, AnInteger DEF Words, NTT_INVERSE_SCALE
<1>6. F[m][l] = Mul(NTT_INVERSE_SCALE, c[i])
  <2>1. LaneIs(A!FqMul(A!Broadcast(v[m], A!NTT_INVERSE_SCALE), v[m]), 0 .. 15, l, Mul(NTT_INVERSE_SCALE, c[i]))
    BY <1>3, <1>4, <1>5, FqMulOfAvx2, Zenon
  <2> QED
    BY <2>1, Zenon DEF LaneIs
<1>7. Mul(NTT_INVERSE_SCALE, c[i]) = Mul(c[i], NTT_INVERSE_SCALE)
  BY <1>5, MulCommutes
<1> HIDE DEF F
<1> QED
  BY <1>2, <1>6, <1>7, Zenon DEF Scaled

LEMMA ScaledOfNeon ==
  ASSUME NEW c, Words(c), NEW m \in 0 .. 31, NEW l \in 0 .. 7, NEW i, i = 8 * m + l
  PROVE  N!VecScaled(c)[i] = Scaled(c)[i]
<1>v. PICK v : v = N!Windows(c, 8)
  BY Zenon
<1> DEFINE F == [n \in 0 .. 31 |-> N!FqMul(N!Broadcast(v[n], N!NTT_INVERSE_SCALE), v[n])]
<1>1. N!VecScaled(c) = N!Flat(F, 8)
  BY <1>v DEF N!VecScaled
<1>2. N!VecScaled(c)[i] = F[m][l] /\ i \in Index
  <2> HIDE DEF F
  <2>1. N!Flat(F, 8)[8 * m + l] = F[m][l] /\ 8 * m + l \in Index
    BY FlatOfNeon, Zenon
  <2> QED
    BY <1>1, <2>1
<1>3. LaneIs(v[m], 0 .. 7, l, c[i])
  BY <1>v, WindowOfNeon
<1>4. LaneIs(N!Broadcast(v[m], N!NTT_INVERSE_SCALE), 0 .. 7, l, NTT_INVERSE_SCALE)
  BY <1>3 DEF LaneIs, N!Broadcast, N!NTT_INVERSE_SCALE, NTT_INVERSE_SCALE
<1>5. c[i] \in Int /\ NTT_INVERSE_SCALE \in Int
  BY <1>2, AnInteger DEF Words, NTT_INVERSE_SCALE
<1>6. F[m][l] = Mul(NTT_INVERSE_SCALE, c[i])
  <2>1. LaneIs(N!FqMul(N!Broadcast(v[m], N!NTT_INVERSE_SCALE), v[m]), 0 .. 7, l, Mul(NTT_INVERSE_SCALE, c[i]))
    BY <1>3, <1>4, <1>5, FqMulOfNeon, Zenon
  <2> QED
    BY <2>1, Zenon DEF LaneIs
<1>7. Mul(NTT_INVERSE_SCALE, c[i]) = Mul(c[i], NTT_INVERSE_SCALE)
  BY <1>5, MulCommutes
<1> HIDE DEF F
<1> QED
  BY <1>2, <1>6, <1>7, Zenon DEF Scaled

\* The place of j in the vectors of either backend.
LEMMA SplitOfAvx2 ==
  ASSUME NEW j \in Index
  PROVE  \E m \in 0 .. 15, l \in 0 .. 15 : j = 16 * m + l
BY PlaceOfAvx2

LEMMA SplitOfNeon ==
  ASSUME NEW j \in Index
  PROVE  \E m \in 0 .. 31, l \in 0 .. 7 : j = 8 * m + l
BY PlaceOfNeon

\* The last pass of each backend is the portable one.
LEMMA ScaledIsScaled ==
  ASSUME NEW c, Words(c), NEW j \in Index
  PROVE  A!VecScaled(c)[j] = Scaled(c)[j] /\ N!VecScaled(c)[j] = Scaled(c)[j]
<1>1. A!VecScaled(c)[j] = Scaled(c)[j]
  <2>1. PICK m \in 0 .. 15, l \in 0 .. 15 : j = 16 * m + l
    BY SplitOfAvx2
  <2> QED
    BY <2>1, ScaledOfAvx2
<1>2. N!VecScaled(c)[j] = Scaled(c)[j]
  <2>1. PICK m \in 0 .. 31, l \in 0 .. 7 : j = 8 * m + l
    BY SplitOfNeon
  <2> QED
    BY <2>1, ScaledOfNeon
<1> QED
  BY <1>1, <1>2

-----------------------------------------------------------------------------
\* pack's shuffles bring the even lanes before the odd ones.
LEMMA EvensThenOdds ==
  ASSUME NEW a, NEW y \in 0 .. 15
  PROVE  A!MiddleSwapped(A!EvensFirst(a))[y] = a[IF y < 8 THEN 2 * y ELSE 2 * y - 15]
<1>1. CASE y \in 0 .. 3
  BY <1>1, SMTT(60) DEF A!MiddleSwapped, A!EvensFirst
<1>2. CASE y \in 4 .. 7
  BY <1>2, SMTT(60) DEF A!MiddleSwapped, A!EvensFirst
<1>3. CASE y \in 8 .. 11
  BY <1>3, SMTT(60) DEF A!MiddleSwapped, A!EvensFirst
<1>4. CASE y \in 12 .. 15
  BY <1>4, SMTT(60) DEF A!MiddleSwapped, A!EvensFirst
<1> QED
  BY <1>1, <1>2, <1>3, <1>4, SMT

\* The lane of the natural order that is packed into lane l of vector m.
LEMMA PackedLaneOfAvx2 ==
  ASSUME NEW c, NEW m \in 0 .. 15, NEW l \in 0 .. 15, NEW i, i = 16 * m + l
  PROVE  A!VecPack(c)[i] = Pack(c)[i]
<1>v. PICK v : v = A!Windows(c, 16)
  BY Zenon
<1> DEFINE d(n) == A!MiddleSwapped(A!EvensFirst(v[n]))
           F == [n \in 0 .. 15 |-> A!JoinHalves(d(2 * (n % 8)), d(2 * (n % 8) + 1), n \div 8)]
<1>1. A!VecPack(c) = A!Flat(F, 16)
  BY <1>v DEF A!VecPack
<1>2. A!VecPack(c)[i] = F[m][l] /\ i \in Index
  <2> HIDE DEF F
  <2>1. A!Flat(F, 16)[16 * m + l] = F[m][l] /\ 16 * m + l \in Index
    BY FlatOfAvx2, Zenon
  <2> QED
    BY <1>1, <2>1
<1>3. F[m] = A!JoinHalves(d(2 * (m % 8)), d(2 * (m % 8) + 1), m \div 8)
  BY Zenon
<1> HIDE DEF F
\* The source of lane y of the n-th vector.
<1>4. ASSUME NEW n \in 0 .. 15, NEW y \in 0 .. 15
      PROVE  d(n)[y] = c[16 * n + (IF y < 8 THEN 2 * y ELSE 2 * y - 15)]
  <2>1. PICK z : z = IF y < 8 THEN 2 * y ELSE 2 * y - 15
    BY Zenon
  <2>2. z \in 0 .. 15
    BY <2>1, SMT
  <2>3. v[n][z] = c[16 * n + z]
    BY <1>v, <2>2, WindowOfAvx2, ZenonT(40) DEF LaneIs
  <2>4. d(n)[y] = v[n][z]
    BY <2>1, EvensThenOdds
  <2> QED
    BY <2>1, <2>3, <2>4
<1> HIDE DEF d
<1>e. PICK e \in 0 .. 15 : e = 2 * (m % 8)
  BY SMT
<1>o. PICK o \in 0 .. 15 : o = 2 * (m % 8) + 1
  BY SMT
<1>h. PICK h \in 0 .. 1 : h = m \div 8
  BY SMT
<1>5. F[m] = A!JoinHalves(d(e), d(o), h)
  BY <1>3, <1>e, <1>o, <1>h
<1>6. CASE l \in 0 .. 7
  <2>1. F[m][l] = d(e)[8 * h + l]
    BY <1>5, <1>6, SMT DEF A!JoinHalves
  <2>2. PICK y \in 0 .. 15 : y = 8 * h + l
    BY <1>6, SMT
  <2>3. F[m][l] = c[16 * e + (IF y < 8 THEN 2 * y ELSE 2 * y - 15)]
    BY <1>4, <2>1, <2>2
  <2>4. 16 * e + (IF y < 8 THEN 2 * y ELSE 2 * y - 15) = IF i < HALF THEN 2 * i ELSE 2 * (i - HALF) + 1
    BY <1>6, <1>e, <1>h, <2>2, SMTT(60) DEF HALF
  <2> QED
    BY <1>2, <2>3, <2>4 DEF Pack
<1>7. CASE l \in 8 .. 15
  <2>1. F[m][l] = d(o)[8 * h + l - 8]
    BY <1>5, <1>7, SMT DEF A!JoinHalves
  <2>2. PICK y \in 0 .. 15 : y = 8 * h + l - 8
    BY <1>7, SMT
  <2>3. F[m][l] = c[16 * o + (IF y < 8 THEN 2 * y ELSE 2 * y - 15)]
    BY <1>4, <2>1, <2>2
  <2>4. 16 * o + (IF y < 8 THEN 2 * y ELSE 2 * y - 15) = IF i < HALF THEN 2 * i ELSE 2 * (i - HALF) + 1
    BY <1>7, <1>o, <1>h, <2>2, SMTT(60) DEF HALF
  <2> QED
    BY <1>2, <2>3, <2>4 DEF Pack
<1> QED
  BY <1>6, <1>7, SMT

LEMMA PackedLaneOfNeon ==
  ASSUME NEW c, NEW m \in 0 .. 31, NEW l \in 0 .. 7, NEW i, i = 8 * m + l
  PROVE  N!VecPack(c)[i] = Pack(c)[i]
<1>v. PICK v : v = N!Windows(c, 8)
  BY Zenon
<1> DEFINE F == [n \in 0 .. 31 |-> N!Alternate(v[2 * (n % 16)], v[2 * (n % 16) + 1], n \div 16)]
<1>1. N!VecPack(c) = N!Flat(F, 8)
  BY <1>v DEF N!VecPack
<1>2. N!VecPack(c)[i] = F[m][l] /\ i \in Index
  <2> HIDE DEF F
  <2>1. N!Flat(F, 8)[8 * m + l] = F[m][l] /\ 8 * m + l \in Index
    BY FlatOfNeon, Zenon
  <2> QED
    BY <1>1, <2>1
<1>3. F[m] = N!Alternate(v[2 * (m % 16)], v[2 * (m % 16) + 1], m \div 16)
  BY Zenon
<1> HIDE DEF F
<1>4. ASSUME NEW n \in 0 .. 31, NEW y \in 0 .. 7 PROVE v[n][y] = c[8 * n + y]
  BY <1>v, WindowOfNeon DEF LaneIs
<1>e. PICK e \in 0 .. 31 : e = 2 * (m % 16)
  BY SMT
<1>o. PICK o \in 0 .. 31 : o = 2 * (m % 16) + 1
  BY SMT
<1>h. PICK h \in 0 .. 1 : h = m \div 16
  BY SMT
<1>5. F[m] = N!Alternate(v[e], v[o], h)
  BY <1>3, <1>e, <1>o, <1>h
<1>6. CASE l \in 0 .. 3
  <2>2. PICK y \in 0 .. 7 : y = 2 * l + h
    BY <1>6, SMT
  <2>1. F[m][l] = v[e][y]
    BY <1>5, <1>6, <2>2, SMT DEF N!Alternate
  <2>3. F[m][l] = c[8 * e + y]
    BY <1>4, <2>1
  <2>4. 8 * e + y = IF i < HALF THEN 2 * i ELSE 2 * (i - HALF) + 1
    BY <1>6, <1>e, <1>h, <2>2, SMTT(60) DEF HALF
  <2> QED
    BY <1>2, <2>3, <2>4 DEF Pack
<1>7. CASE l \in 4 .. 7
  <2>2. PICK y \in 0 .. 7 : y = 2 * l + h - 8
    BY <1>7, SMT
  <2>1. F[m][l] = v[o][y]
    BY <1>5, <1>7, <2>2, SMT DEF N!Alternate
  <2>3. F[m][l] = c[8 * o + y]
    BY <1>4, <2>1
  <2>4. 8 * o + y = IF i < HALF THEN 2 * i ELSE 2 * (i - HALF) + 1
    BY <1>7, <1>o, <1>h, <2>2, SMTT(60) DEF HALF
  <2> QED
    BY <1>2, <2>3, <2>4 DEF Pack
<1> QED
  BY <1>6, <1>7, SMT

\* The 128-bit half that the n-th vector is made of.
InHalf(n, h) == n % 2 = h

\* A lane of them is lane k of one of the two.
OneOf(y, a, b, l, k) == y = IF l % 2 = 0 THEN a[k] ELSE b[k]

\* The interleaving of even and odd vectors.
LEMMA InterleavedOfAvx2 ==
  ASSUME NEW a, NEW b, NEW h \in 0 .. 1, NEW n, InHalf(n, h), NEW l \in 0 .. 15
  PROVE  OneOf(A!Interleaved(a, b, n)[l], a, b, l, 8 * h + l \div 2)
<1>2. ASSUME NEW y \in 0 .. 15, NEW first
      PROVE  A!UnpackFrom(a, b, first)[y]
               = IF y % 2 = 0 THEN a[8 * (y \div 8) + first + (y % 8) \div 2]
                 ELSE b[8 * (y \div 8) + first + (y % 8) \div 2]
  BY Zenon DEF A!UnpackFrom
<1>3. A!Interleaved(a, b, n)[l]
        = IF l < 8 THEN A!UnpackFrom(a, b, 0)[8 * h + l] ELSE A!UnpackFrom(a, b, 4)[8 * h + l - 8]
  <2>1. PICK u : u = A!UnpackFrom(a, b, 0)
    BY Zenon
  <2>2. PICK w : w = A!UnpackFrom(a, b, 4)
    BY Zenon
  <2>3. A!Interleaved(a, b, n) = A!JoinHalves(u, w, h)
    BY <2>1, <2>2, Zenon DEF A!Interleaved, A!UnpackLo, A!UnpackHi, InHalf
  <2>4. A!JoinHalves(u, w, h)[l] = IF l < 8 THEN u[8 * h + l] ELSE w[8 * h + l - 8]
    BY Zenon DEF A!JoinHalves
  <2> QED
    BY <2>1, <2>2, <2>3, <2>4
<1>4. CASE l < 8
  <2>1. PICK y \in 0 .. 15 : y = 8 * h + l
    BY <1>4, SMT
  <2>2. 8 * (y \div 8) + 0 + (y % 8) \div 2 = 8 * h + l \div 2 /\ y % 2 = l % 2
    BY <1>4, <2>1, SMTT(60)
  <2>3. A!Interleaved(a, b, n)[l] = A!UnpackFrom(a, b, 0)[y]
    BY <1>3, <1>4, <2>1
  <2>4. A!UnpackFrom(a, b, 0)[y]
          = IF y % 2 = 0 THEN a[8 * (y \div 8) + 0 + (y % 8) \div 2]
            ELSE b[8 * (y \div 8) + 0 + (y % 8) \div 2]
    BY <1>2
  <2>5. A!Interleaved(a, b, n)[l] = IF l % 2 = 0 THEN a[8 * h + l \div 2] ELSE b[8 * h + l \div 2]
    BY <2>2, <2>3, <2>4
  <2> QED
    BY <2>5, Zenon DEF OneOf
<1>5. CASE ~(l < 8)
  <2>1. PICK y \in 0 .. 15 : y = 8 * h + l - 8
    BY <1>5, SMT
  <2>2. 8 * (y \div 8) + 4 + (y % 8) \div 2 = 8 * h + l \div 2 /\ y % 2 = l % 2
    BY <1>5, <2>1, SMTT(60)
  <2>3. A!Interleaved(a, b, n)[l] = A!UnpackFrom(a, b, 4)[y]
    BY <1>3, <1>5, <2>1
  <2>4. A!UnpackFrom(a, b, 4)[y]
          = IF y % 2 = 0 THEN a[8 * (y \div 8) + 4 + (y % 8) \div 2]
            ELSE b[8 * (y \div 8) + 4 + (y % 8) \div 2]
    BY <1>2
  <2>5. A!Interleaved(a, b, n)[l] = IF l % 2 = 0 THEN a[8 * h + l \div 2] ELSE b[8 * h + l \div 2]
    BY <2>2, <2>3, <2>4
  <2> QED
    BY <2>5, Zenon DEF OneOf
<1> QED
  BY <1>4, <1>5

\* unpack interleaves the halves again.
LEMMA InterleavedEven ==
  ASSUME NEW a, NEW b, NEW h \in 0 .. 1, NEW n, InHalf(n, h), NEW l \in 0 .. 15, l % 2 = 0
  PROVE  A!Interleaved(a, b, n)[l] = a[8 * h + l \div 2]
<1>1. OneOf(A!Interleaved(a, b, n)[l], a, b, l, 8 * h + l \div 2)
  BY InterleavedOfAvx2, Zenon
<1> QED
  BY <1>1 DEF OneOf

LEMMA InterleavedOdd ==
  ASSUME NEW a, NEW b, NEW h \in 0 .. 1, NEW n, InHalf(n, h), NEW l \in 0 .. 15, l % 2 = 1
  PROVE  A!Interleaved(a, b, n)[l] = b[8 * h + l \div 2]
<1>1. OneOf(A!Interleaved(a, b, n)[l], a, b, l, 8 * h + l \div 2)
  BY InterleavedOfAvx2, Zenon
<1> QED
  BY <1>1 DEF OneOf

LEMMA InterleavedOfNeon ==
  ASSUME NEW a, NEW b, NEW h \in 0 .. 1, NEW l \in 0 .. 7
  PROVE  /\ 4 * h + l \div 2 \in 0 .. 7
         /\ l % 2 = 0 => N!Interleaved(a, b, h)[l] = a[4 * h + l \div 2]
         /\ l % 2 = 1 => N!Interleaved(a, b, h)[l] = b[4 * h + l \div 2]
<1>1. 4 * h + l \div 2 \in 0 .. 7
  BY SMT
<1>2. N!Interleaved(a, b, h)[l] = (IF l % 2 = 0 THEN a ELSE b)[4 * h + l \div 2]
  BY Zenon DEF N!Interleaved
<1> QED
  BY <1>1, <1>2

-----------------------------------------------------------------------------
\* The n + 1 vectors w hold e, l + 1 lanes each.
Hold(w, e, n, l) == \A p \in 0 .. n, y \in 0 .. l : w[p][y] = e[(l + 1) * p + y]

LEMMA HoldOfAvx2 ==
  ASSUME NEW w, NEW e, \A p \in 0 .. 15, y \in 0 .. 15 : w[p][y] = e[16 * p + y]
  PROVE  Hold(w, e, 15, 15)
<1>1. 15 + 1 = 16
  BY SMT
<1> QED
  BY <1>1, Zenon DEF Hold

LEMMA HoldOfNeon ==
  ASSUME NEW w, NEW e, \A p \in 0 .. 31, y \in 0 .. 7 : w[p][y] = e[8 * p + y]
  PROVE  Hold(w, e, 31, 7)
<1>1. 7 + 1 = 8
  BY SMT
<1> QED
  BY <1>1, Zenon DEF Hold

\* Vectors of e, interleaved, are e in the natural order.
LEMMA NaturalOfAvx2 ==
  ASSUME NEW e, NEW w, Hold(w, e, 15, 15),
         NEW m \in 0 .. 15, NEW l \in 0 .. 15, NEW i, i = 16 * m + l
  PROVE  A!Interleaved(w[m \div 2], w[A!Beside(m \div 2, 16)], m)[l] = Unpack(e)[i]
<1>p. PICK p \in 0 .. 7 : p = m \div 2
  BY SMT
<1>h. PICK h \in 0 .. 1 : h = m % 2
  BY SMT
<1>1. A!Beside(p, 16) = p + 8
  <2>1. 128 \div 16 = 8
    BY SMT
  <2> QED
    BY <2>1, Zenon DEF A!Beside, A!HALF
<1>y. PICK y \in 0 .. 15 : y = 8 * h + l \div 2
  BY SMT
<1>2. /\ l % 2 = 0 => A!Interleaved(w[p], w[p + 8], m)[l] = w[p][y]
      /\ l % 2 = 1 => A!Interleaved(w[p], w[p + 8], m)[l] = w[p + 8][y]
  <2>a. PICK a : a = w[p]
    BY Zenon
  <2>b. PICK b : b = w[p + 8]
    BY Zenon
  <2>h. InHalf(m, h)
    BY <1>h DEF InHalf
  <2>1. /\ l % 2 = 0 => A!Interleaved(a, b, m)[l] = a[8 * h + l \div 2]
        /\ l % 2 = 1 => A!Interleaved(a, b, m)[l] = b[8 * h + l \div 2]
    <3>1. l % 2 = 0 => A!Interleaved(a, b, m)[l] = a[8 * h + l \div 2]
      BY <2>h, InterleavedEven
    <3>2. l % 2 = 1 => A!Interleaved(a, b, m)[l] = b[8 * h + l \div 2]
      BY <2>h, InterleavedOdd
    <3> QED
      BY <3>1, <3>2
  <2> QED
    BY <2>a, <2>b, <2>1, <1>y
<1>3. w[p][y] = e[16 * p + y] /\ w[p + 8][y] = e[16 * (p + 8) + y]
  <2>1. p \in 0 .. 15 /\ p + 8 \in 0 .. 15 /\ 15 + 1 = 16
    BY SMT
  <2> QED
    BY <2>1 DEF Hold
<1>4. Unpack(e)[i] = e[(i % 2) * HALF + i \div 2]
  <2>1. i \in Index
    BY SMT DEF Index
  <2> QED
    BY <2>1, Zenon DEF Unpack
<1>5. CASE l % 2 = 0
  <2>1. (i % 2) * HALF + i \div 2 = 16 * p + y
    BY <1>5, <1>p, <1>h, <1>y, SMTT(60) DEF HALF
  <2> QED
    BY <1>1, <1>2, <1>3, <1>4, <1>5, <1>p, <2>1
<1>6. CASE l % 2 = 1
  <2>1. (i % 2) * HALF + i \div 2 = 16 * (p + 8) + y
    BY <1>6, <1>p, <1>h, <1>y, SMTT(60) DEF HALF
  <2> QED
    BY <1>1, <1>2, <1>3, <1>4, <1>6, <1>p, <2>1
<1> QED
  BY <1>5, <1>6, SMT

LEMMA NaturalOfNeon ==
  ASSUME NEW e, NEW w, Hold(w, e, 31, 7),
         NEW m \in 0 .. 31, NEW l \in 0 .. 7, NEW i, i = 8 * m + l
  PROVE  N!Interleaved(w[m \div 2], w[N!Beside(m \div 2, 8)], m % 2)[l] = Unpack(e)[i]
<1>p. PICK p \in 0 .. 15 : p = m \div 2
  BY SMT
<1>h. PICK h \in 0 .. 1 : h = m % 2
  BY SMT
<1>1. N!Beside(p, 8) = p + 16
  <2>1. 128 \div 8 = 16
    BY SMT
  <2> QED
    BY <2>1, Zenon DEF N!Beside, N!HALF
<1>y. PICK y \in 0 .. 7 : y = 4 * h + l \div 2
  BY SMT
<1>2. /\ l % 2 = 0 => N!Interleaved(w[p], w[p + 16], h)[l] = w[p][y]
      /\ l % 2 = 1 => N!Interleaved(w[p], w[p + 16], h)[l] = w[p + 16][y]
  BY <1>y, InterleavedOfNeon
<1>3. w[p][y] = e[8 * p + y] /\ w[p + 16][y] = e[8 * (p + 16) + y]
  <2>1. p \in 0 .. 31 /\ p + 16 \in 0 .. 31 /\ 7 + 1 = 8
    BY SMT
  <2> QED
    BY <2>1 DEF Hold
<1>4. Unpack(e)[i] = e[(i % 2) * HALF + i \div 2]
  <2>1. i \in Index
    BY SMT DEF Index
  <2> QED
    BY <2>1, Zenon DEF Unpack
<1>5. CASE l % 2 = 0
  <2>1. (i % 2) * HALF + i \div 2 = 8 * p + y
    BY <1>5, <1>p, <1>h, <1>y, SMTT(60) DEF HALF
  <2> QED
    BY <1>1, <1>2, <1>3, <1>4, <1>5, <1>p, <1>h, <2>1
<1>6. CASE l % 2 = 1
  <2>1. (i % 2) * HALF + i \div 2 = 8 * (p + 16) + y
    BY <1>6, <1>p, <1>h, <1>y, SMTT(60) DEF HALF
  <2> QED
    BY <1>1, <1>2, <1>3, <1>4, <1>6, <1>p, <1>h, <2>1
<1> QED
  BY <1>5, <1>6, SMT

\* unpack and canonical of the backends.
LEMMA UnpackedLaneOfAvx2 ==
  ASSUME NEW c, NEW m \in 0 .. 15, NEW l \in 0 .. 15, NEW i, i = 16 * m + l
  PROVE  /\ A!VecUnpack(c)[i] = Unpack(c)[i]
         /\ Words(c) => A!VecCanonical(c)[i] = Value(Unpack(c)[i])
<1>v. PICK v : v = A!Windows(c, 16)
  BY Zenon
<1>1. ASSUME NEW p \in 0 .. 15, NEW y \in 0 .. 15
      PROVE  LaneIs(v[p], 0 .. 15, y, c[16 * p + y]) /\ 16 * p + y \in Index
  <2>1. 16 * p + y \in Index
    BY SMT DEF Index
  <2> QED
    BY <1>v, <2>1, WindowOfAvx2
<1>2. A!VecUnpack(c)[i] = Unpack(c)[i]
  <2> DEFINE F == [n \in 0 .. 15 |-> A!Interleaved(v[n \div 2], v[A!Beside(n \div 2, 16)], n)]
  <2>1. A!VecUnpack(c) = A!Flat(F, 16)
    BY <1>v DEF A!VecUnpack
  <2>2. F[m] = A!Interleaved(v[m \div 2], v[A!Beside(m \div 2, 16)], m)
    BY Zenon
  <2> HIDE DEF F
  <2>3. A!Flat(F, 16)[16 * m + l] = F[m][l]
    BY FlatOfAvx2, Zenon
  <2>4. A!Interleaved(v[m \div 2], v[A!Beside(m \div 2, 16)], m)[l] = Unpack(c)[i]
    <3>1. Hold(v, c, 15, 15)
      BY <1>1, HoldOfAvx2 DEF LaneIs
    <3> QED
      BY <3>1, NaturalOfAvx2, SMTT(30)
  <2> QED
    BY <2>1, <2>2, <2>3, <2>4
<1>3. ASSUME Words(c) PROVE A!VecCanonical(c)[i] = Value(Unpack(c)[i])
  <2> DEFINE F == [n \in 0 .. 15 |-> A!Interleaved(A!CanonicalLanes(v[n \div 2]),
                                                   A!CanonicalLanes(v[A!Beside(n \div 2, 16)]), n)]
  <2>1. A!VecCanonical(c) = A!Flat(F, 16)
    BY <1>v DEF A!VecCanonical
  <2>w. PICK w : w = [p \in 0 .. 15 |-> A!CanonicalLanes(v[p])]
    BY Zenon
  <2>e. PICK e : e = [j \in Index |-> Value(c[j])]
    BY Zenon
  <2>2. F[m] = A!Interleaved(A!CanonicalLanes(v[m \div 2]), A!CanonicalLanes(v[A!Beside(m \div 2, 16)]), m)
    BY Zenon
  <2> HIDE DEF F
  <2>3. A!Flat(F, 16)[16 * m + l] = F[m][l]
    BY FlatOfAvx2, Zenon
  <2>4. ASSUME NEW p \in 0 .. 15, NEW y \in 0 .. 15 PROVE w[p][y] = e[16 * p + y]
    <3>1. LaneIs(v[p], 0 .. 15, y, c[16 * p + y]) /\ c[16 * p + y] \in Int16
      BY <1>1, <1>3 DEF Words
    <3>2. A!CanonicalLanes(v[p])[y] = Value(c[16 * p + y])
      BY <3>1, CanonicalOfAvx2 DEF LaneIs
    <3> QED
      BY <1>1, <2>w, <2>e, <3>2
  <2>5. A!Interleaved(w[m \div 2], w[A!Beside(m \div 2, 16)], m)[l] = Unpack(e)[i]
    <3>1. Hold(w, e, 15, 15)
      BY <2>4, HoldOfAvx2
    <3> QED
      BY <3>1, NaturalOfAvx2
  <2>6. m \div 2 \in 0 .. 15 /\ A!Beside(m \div 2, 16) \in 0 .. 15
    BY SMT DEF A!Beside, A!HALF
  <2>7. w[m \div 2] = A!CanonicalLanes(v[m \div 2])
        /\ w[A!Beside(m \div 2, 16)] = A!CanonicalLanes(v[A!Beside(m \div 2, 16)])
    BY <2>w, <2>6, Zenon
  <2>8. Unpack(e)[i] = Value(Unpack(c)[i])
    <3>1. i \in Index /\ (i % 2) * HALF + i \div 2 \in Index
      BY SMTT(60) DEF Index, HALF
    <3> QED
      BY <2>e, <3>1, Zenon DEF Unpack
  <2> QED
    BY <2>1, <2>2, <2>3, <2>5, <2>7, <2>8
<1> QED
  BY <1>2, <1>3

LEMMA UnpackedLaneOfNeon ==
  ASSUME NEW c, NEW m \in 0 .. 31, NEW l \in 0 .. 7, NEW i, i = 8 * m + l
  PROVE  /\ N!VecUnpack(c)[i] = Unpack(c)[i]
         /\ Words(c) => N!VecCanonical(c)[i] = Value(Unpack(c)[i])
<1>v. PICK v : v = N!Windows(c, 8)
  BY Zenon
<1>1. ASSUME NEW p \in 0 .. 31, NEW y \in 0 .. 7
      PROVE  LaneIs(v[p], 0 .. 7, y, c[8 * p + y]) /\ 8 * p + y \in Index
  <2>1. 8 * p + y \in Index
    BY SMT DEF Index
  <2> QED
    BY <1>v, <2>1, WindowOfNeon
<1>2. N!VecUnpack(c)[i] = Unpack(c)[i]
  <2> DEFINE F == [n \in 0 .. 31 |-> N!Interleaved(v[n \div 2], v[N!Beside(n \div 2, 8)], n % 2)]
  <2>1. N!VecUnpack(c) = N!Flat(F, 8)
    BY <1>v DEF N!VecUnpack
  <2>2. F[m] = N!Interleaved(v[m \div 2], v[N!Beside(m \div 2, 8)], m % 2)
    BY Zenon
  <2> HIDE DEF F
  <2>3. N!Flat(F, 8)[8 * m + l] = F[m][l]
    BY FlatOfNeon, Zenon
  <2>4. N!Interleaved(v[m \div 2], v[N!Beside(m \div 2, 8)], m % 2)[l] = Unpack(c)[i]
    <3>1. Hold(v, c, 31, 7)
      BY <1>1, HoldOfNeon DEF LaneIs
    <3> QED
      BY <3>1, NaturalOfNeon
  <2> QED
    BY <2>1, <2>2, <2>3, <2>4
<1>3. ASSUME Words(c) PROVE N!VecCanonical(c)[i] = Value(Unpack(c)[i])
  <2> DEFINE F == [n \in 0 .. 31 |-> N!Interleaved(N!CanonicalLanes(v[n \div 2]),
                                                   N!CanonicalLanes(v[N!Beside(n \div 2, 8)]), n % 2)]
  <2>1. N!VecCanonical(c) = N!Flat(F, 8)
    BY <1>v DEF N!VecCanonical
  <2>w. PICK w : w = [p \in 0 .. 31 |-> N!CanonicalLanes(v[p])]
    BY Zenon
  <2>e. PICK e : e = [j \in Index |-> Value(c[j])]
    BY Zenon
  <2>2. F[m] = N!Interleaved(N!CanonicalLanes(v[m \div 2]), N!CanonicalLanes(v[N!Beside(m \div 2, 8)]), m % 2)
    BY Zenon
  <2> HIDE DEF F
  <2>3. N!Flat(F, 8)[8 * m + l] = F[m][l]
    BY FlatOfNeon, Zenon
  <2>4. ASSUME NEW p \in 0 .. 31, NEW y \in 0 .. 7 PROVE w[p][y] = e[8 * p + y]
    <3>1. LaneIs(v[p], 0 .. 7, y, c[8 * p + y]) /\ c[8 * p + y] \in Int16
      BY <1>1, <1>3 DEF Words
    <3>2. N!CanonicalLanes(v[p])[y] = Value(c[8 * p + y])
      BY <3>1, CanonicalOfNeon DEF LaneIs
    <3> QED
      BY <1>1, <2>w, <2>e, <3>2
  <2>5. N!Interleaved(w[m \div 2], w[N!Beside(m \div 2, 8)], m % 2)[l] = Unpack(e)[i]
    <3>1. Hold(w, e, 31, 7)
      BY <2>4, HoldOfNeon
    <3> QED
      BY <3>1, NaturalOfNeon
  <2>6. m \div 2 \in 0 .. 31 /\ N!Beside(m \div 2, 8) \in 0 .. 31
    BY SMT DEF N!Beside, N!HALF
  <2>7. w[m \div 2] = N!CanonicalLanes(v[m \div 2])
        /\ w[N!Beside(m \div 2, 8)] = N!CanonicalLanes(v[N!Beside(m \div 2, 8)])
    BY <2>w, <2>6, Zenon
  <2>8. Unpack(e)[i] = Value(Unpack(c)[i])
    <3>1. i \in Index /\ (i % 2) * HALF + i \div 2 \in Index
      BY SMTT(60) DEF Index, HALF
    <3> QED
      BY <2>e, <3>1, Zenon DEF Unpack
  <2> QED
    BY <2>1, <2>2, <2>3, <2>5, <2>7, <2>8
<1> QED
  BY <1>2, <1>3

\* The kernels that only move lanes, whatever the backend.
LEMMA PackIsPack ==
  ASSUME NEW c, NEW j \in Index
  PROVE  A!VecPack(c)[j] = Pack(c)[j] /\ N!VecPack(c)[j] = Pack(c)[j]
<1>1. A!VecPack(c)[j] = Pack(c)[j]
  <2>1. PICK m \in 0 .. 15, l \in 0 .. 15 : j = 16 * m + l
    BY SplitOfAvx2
  <2> QED
    BY <2>1, PackedLaneOfAvx2
<1>2. N!VecPack(c)[j] = Pack(c)[j]
  <2>1. PICK m \in 0 .. 31, l \in 0 .. 7 : j = 8 * m + l
    BY SplitOfNeon
  <2> QED
    BY <2>1, PackedLaneOfNeon
<1> QED
  BY <1>1, <1>2

\* unpack and canonical of each backend are the portable ones.
LEMMA UnpackIsUnpack ==
  ASSUME NEW c, NEW j \in Index
  PROVE  /\ A!VecUnpack(c)[j] = Unpack(c)[j] /\ N!VecUnpack(c)[j] = Unpack(c)[j]
         /\ Words(c) => A!VecCanonical(c)[j] = Value(Unpack(c)[j]) /\ N!VecCanonical(c)[j] = Value(Unpack(c)[j])
<1>1. A!VecUnpack(c)[j] = Unpack(c)[j] /\ (Words(c) => A!VecCanonical(c)[j] = Value(Unpack(c)[j]))
  <2>1. PICK m \in 0 .. 15, l \in 0 .. 15 : j = 16 * m + l
    BY SplitOfAvx2
  <2> QED
    BY <2>1, UnpackedLaneOfAvx2
<1>2. N!VecUnpack(c)[j] = Unpack(c)[j] /\ (Words(c) => N!VecCanonical(c)[j] = Value(Unpack(c)[j]))
  <2>1. PICK m \in 0 .. 31, l \in 0 .. 7 : j = 8 * m + l
    BY SplitOfNeon
  <2> QED
    BY <2>1, UnpackedLaneOfNeon
<1> QED
  BY <1>1, <1>2

-----------------------------------------------------------------------------
\* A Montgomery product is a word, whatever its factors.
LEMMA MulWord ==
  ASSUME NEW p \in Int, NEW q \in Int
  PROVE  Mul(p, q) \in Int16 /\ Mul(p, q) \in Int
<1>1. PICK y \in Int : y = p * q
  BY SMT
<1>h. PICK hi \in Int : hi = High(y)
  BY Halved
<1>g. PICK lo \in Nat : lo = Low(y) /\ lo <= 65535
  BY Halved
<1>5. PICK s \in Int : s = Shifted(lo)
  BY <1>g, MontgomeryQuotient
<1>6. Mul(p, q) = Wrap16(hi + s)
  BY <1>1, <1>h, <1>g, <1>5, ReductionForm, SMT DEF Mul
<1>7. hi + s \in Int
  BY SMT
<1> QED
  BY <1>6, <1>7, WrapSame, AnInteger

\* The gammas of the base multiplication, in Montgomery form.
LEMMA GammaWord ==
  ASSUME NEW i \in Half
  PROVE  GAMMA_MONT[i] \in Int16 /\ GAMMA_MONT[i] \in Int /\ GAMMA_MONT[i] = Mul(GAMMA_RAW[i], MONT_R_SQUARED)
<1>0. Half = 0 .. 127
  BY SMT DEF Half, HALF
<1>1. GAMMA_RAW[i] \in 1 .. Q - 1
  BY <1>0, TablesAssumption, Zenon
<1>2. PICK z \in 1 .. Q - 1 : z = GAMMA_RAW[i]
  BY <1>1
<1>3. z \in Nat /\ z <= 65535 /\ z % Q = z /\ z \in Int
  <2>1. z \in Int /\ 1 <= z /\ z <= 3328
    BY SMT DEF Q
  <2>2. z % 3329 = z
    BY <2>1, SMT
  <2> QED
    BY <2>1, <2>2, SMT DEF Q
<1>4. New(z) = z
  BY <1>3, NewExact
<1>5. GAMMA_MONT[i] = Mul(z, MONT_R_SQUARED)
  BY <1>0, <1>2, <1>4, Zenon DEF GAMMA_MONT, ToMontgomery
<1>6. MONT_R_SQUARED \in Int
  BY SMT DEF MONT_R_SQUARED
<1>r. PICK r \in Int : r = MONT_R_SQUARED
  BY <1>6
<1>w. z \in Int
  BY <1>3
<1>m. Mul(z, r) \in Int16 /\ Mul(z, r) \in Int
  BY <1>w, MulWord, Zenon
<1>7. Mul(z, MONT_R_SQUARED) \in Int16 /\ Mul(z, MONT_R_SQUARED) \in Int
  BY <1>r, <1>m
<1> QED
  BY <1>2, <1>5, <1>7

EvenProduct(f, g, i) == Add(Mul(f[i], g[i]), Mul(Mul(f[128 + i], g[128 + i]), GAMMA_MONT[i]))
OddProduct(f, g, i) == Add(Mul(f[i], g[128 + i]), Mul(f[128 + i], g[i]))

\* The two halves of a product.
LEMMA MultiplyForm ==
  ASSUME NEW f, NEW g, NEW i \in Half
  PROVE  /\ i \in Index /\ 128 + i \in Index
         /\ Multiply(f, g)[i] = EvenProduct(f, g, i) /\ Multiply(f, g)[128 + i] = OddProduct(f, g, i)
<1>1. /\ i \in Index /\ 128 + i \in Index /\ i % HALF = i /\ (128 + i) % HALF = i /\ i < HALF
      /\ ~(128 + i < HALF) /\ HALF + i = 128 + i
  BY SMT DEF Index, Half, HALF
<1>2. Multiply(f, g)[i] = EvenProduct(f, g, i)
  BY <1>1 DEF Multiply, EvenProduct
<1>3. Multiply(f, g)[128 + i] = OddProduct(f, g, i)
  BY <1>1 DEF Multiply, OddProduct
<1> QED
  BY <1>1, <1>2, <1>3

\* A vector of pairs is multiplied as the portable code multiplies pairs.
LEMMA MultipliedOfAvx2 ==
  ASSUME NEW f, Words(f), NEW g, Words(g), NEW m \in 0 .. 7, NEW l \in 0 .. 15, NEW i, i = 16 * m + l
  PROVE  A!VecMultiply(f, g)[i] = EvenProduct(f, g, i) /\ A!VecMultiply(f, g)[128 + i] = OddProduct(f, g, i)
<1>a. PICK a : a = A!Windows(f, 16)
  BY Zenon
<1>b. PICK b : b = A!Windows(g, 16)
  BY Zenon
<1> DEFINE gamma(n) == [t \in 0 .. 15 |-> A!GAMMA_MONT[16 * n + t]]
           even(n) == A!Plus(A!FqMul(a[n], b[n]), A!FqMul(A!FqMul(a[n + 8], b[n + 8]), gamma(n)))
           odd(n) == A!Plus(A!FqMul(a[n], b[n + 8]), A!FqMul(a[n + 8], b[n]))
           F == [n \in 0 .. 15 |-> IF n < 8 THEN even(n) ELSE odd(n - 8)]
<1>1. A!VecMultiply(f, g) = A!Flat(F, 16)
  BY <1>a, <1>b DEF A!VecMultiply
<1>2. F[m] = even(m) /\ F[m + 8] = odd(m)
  <2> HIDE DEF even, odd
  <2>1. m \in 0 .. 15 /\ m + 8 \in 0 .. 15 /\ m < 8 /\ ~(m + 8 < 8) /\ (m + 8) - 8 = m
    BY SMT
  <2> QED
    BY <2>1
<1> HIDE DEF F
<1>3. A!VecMultiply(f, g)[i] = F[m][l] /\ A!VecMultiply(f, g)[128 + i] = F[m + 8][l]
  <2>1. m \in 0 .. 15 /\ m + 8 \in 0 .. 15 /\ 16 * (m + 8) + l = 128 + i
    BY SMT
  <2>2. A!Flat(F, 16)[16 * m + l] = F[m][l]
    BY <2>1, FlatOfAvx2, ZenonT(40)
  <2>3. A!Flat(F, 16)[16 * (m + 8) + l] = F[m + 8][l]
    BY <2>1, FlatOfAvx2, ZenonT(40)
  <2> QED
    BY <1>1, <2>1, <2>2, <2>3
<1>i. i \in Half /\ i \in Index /\ 128 + i \in Index
  BY SMT DEF Half, HALF, Index
<1>4. LaneIs(a[m], 0 .. 15, l, f[i]) /\ LaneIs(b[m], 0 .. 15, l, g[i])
  <2>1. m \in 0 .. 15
    BY SMT
  <2> QED
    BY <1>a, <1>b, <2>1, WindowOfAvx2
<1>5. LaneIs(a[m + 8], 0 .. 15, l, f[128 + i]) /\ LaneIs(b[m + 8], 0 .. 15, l, g[128 + i])
  <2>1. m + 8 \in 0 .. 15 /\ 16 * (m + 8) + l = 128 + i
    BY SMT
  <2> QED
    BY <1>a, <1>b, <2>1, WindowOfAvx2
<1>6. f[i] \in Int /\ g[i] \in Int /\ f[128 + i] \in Int /\ g[128 + i] \in Int
  BY <1>i, AnInteger DEF Words
<1>7. LaneIs(A!FqMul(a[m], b[m]), 0 .. 15, l, Mul(f[i], g[i]))
  BY <1>4, <1>6, FqMulOfAvx2, Zenon
<1>8. LaneIs(A!FqMul(a[m + 8], b[m + 8]), 0 .. 15, l, Mul(f[128 + i], g[128 + i]))
  <2>1. PICK p \in Int : p = f[128 + i]
    BY <1>6
  <2>2. PICK q \in Int : q = g[128 + i]
    BY <1>6
  <2>3. LaneIs(a[m + 8], 0 .. 15, l, p) /\ LaneIs(b[m + 8], 0 .. 15, l, q)
    BY <1>5, <2>1, <2>2
  <2>4. LaneIs(A!FqMul(a[m + 8], b[m + 8]), 0 .. 15, l, Mul(p, q))
    BY <2>3, FqMulOfAvx2, Zenon
  <2> QED
    BY <2>1, <2>2, <2>4
<1>9. LaneIs(A!FqMul(a[m], b[m + 8]), 0 .. 15, l, Mul(f[i], g[128 + i]))
  BY <1>4, <1>5, <1>6, FqMulOfAvx2, ZenonT(40)
<1>10. LaneIs(A!FqMul(a[m + 8], b[m]), 0 .. 15, l, Mul(f[128 + i], g[i]))
  BY <1>4, <1>5, <1>6, FqMulOfAvx2, ZenonT(40)
<1>11. LaneIs(gamma(m), 0 .. 15, l, GAMMA_MONT[i])
  BY TablesOfBackends, Zenon DEF LaneIs
<1> HIDE DEF gamma
<1>12. Mul(f[128 + i], g[128 + i]) \in Int /\ GAMMA_MONT[i] \in Int
  BY <1>i, <1>6, MulWord, GammaWord, ZenonT(40)
<1>13. LaneIs(A!FqMul(A!FqMul(a[m + 8], b[m + 8]), gamma(m)), 0 .. 15, l,
              Mul(Mul(f[128 + i], g[128 + i]), GAMMA_MONT[i]))
  <2>1. PICK p \in Int : p = Mul(f[128 + i], g[128 + i])
    BY <1>12
  <2>2. PICK q \in Int : q = GAMMA_MONT[i]
    BY <1>12
  <2>5. PICK v : v = A!FqMul(a[m + 8], b[m + 8])
    BY Zenon
  <2>3. LaneIs(v, 0 .. 15, l, p) /\ LaneIs(gamma(m), 0 .. 15, l, q)
    BY <1>8, <1>11, <2>1, <2>2, <2>5
  <2>4. LaneIs(A!FqMul(v, gamma(m)), 0 .. 15, l, Mul(p, q))
    BY <2>3, FqMulOfAvx2, Zenon
  <2> QED
    BY <2>1, <2>2, <2>4, <2>5
<1>14. even(m)[l] = A!Wrap16(Mul(f[i], g[i]) + Mul(Mul(f[128 + i], g[128 + i]), GAMMA_MONT[i]))
  BY <1>7, <1>13, ZenonT(40) DEF LaneIs, A!Plus
<1>15. odd(m)[l] = A!Wrap16(Mul(f[i], g[128 + i]) + Mul(f[128 + i], g[i]))
  BY <1>9, <1>10, Zenon DEF LaneIs, A!Plus
<1> HIDE DEF even, odd
<1>16. even(m)[l] = EvenProduct(f, g, i) /\ odd(m)[l] = OddProduct(f, g, i)
  BY <1>14, <1>15, WordsOfAvx2 DEF EvenProduct, OddProduct, Add
<1> QED
  BY <1>2, <1>3, <1>16

LEMMA MultipliedOfNeon ==
  ASSUME NEW f, Words(f), NEW g, Words(g), NEW m \in 0 .. 15, NEW l \in 0 .. 7, NEW i, i = 8 * m + l
  PROVE  N!VecMultiply(f, g)[i] = EvenProduct(f, g, i) /\ N!VecMultiply(f, g)[128 + i] = OddProduct(f, g, i)
<1>a. PICK a : a = N!Windows(f, 8)
  BY Zenon
<1>b. PICK b : b = N!Windows(g, 8)
  BY Zenon
<1> DEFINE gamma(n) == [t \in 0 .. 7 |-> N!GAMMA_MONT[8 * n + t]]
           even(n) == N!Plus(N!FqMul(a[n], b[n]), N!FqMul(N!FqMul(a[n + 16], b[n + 16]), gamma(n)))
           odd(n) == N!Plus(N!FqMul(a[n], b[n + 16]), N!FqMul(a[n + 16], b[n]))
           F == [n \in 0 .. 31 |-> IF n < 16 THEN even(n) ELSE odd(n - 16)]
<1>1. N!VecMultiply(f, g) = N!Flat(F, 8)
  BY <1>a, <1>b DEF N!VecMultiply
<1>2. F[m] = even(m) /\ F[m + 16] = odd(m)
  <2> HIDE DEF even, odd
  <2>1. m \in 0 .. 31 /\ m + 16 \in 0 .. 31 /\ m < 16 /\ ~(m + 16 < 16) /\ (m + 16) - 16 = m
    BY SMT
  <2> QED
    BY <2>1
<1> HIDE DEF F
<1>3. N!VecMultiply(f, g)[i] = F[m][l] /\ N!VecMultiply(f, g)[128 + i] = F[m + 16][l]
  <2>1. m \in 0 .. 31 /\ m + 16 \in 0 .. 31 /\ 8 * (m + 16) + l = 128 + i
    BY SMT
  <2>2. N!Flat(F, 8)[8 * m + l] = F[m][l]
    BY <2>1, FlatOfNeon, ZenonT(40)
  <2>3. N!Flat(F, 8)[8 * (m + 16) + l] = F[m + 16][l]
    BY <2>1, FlatOfNeon, ZenonT(40)
  <2> QED
    BY <1>1, <2>1, <2>2, <2>3
<1>i. i \in Half /\ i \in Index /\ 128 + i \in Index
  BY SMT DEF Half, HALF, Index
<1>4. LaneIs(a[m], 0 .. 7, l, f[i]) /\ LaneIs(b[m], 0 .. 7, l, g[i])
  <2>1. m \in 0 .. 31
    BY SMT
  <2> QED
    BY <1>a, <1>b, <2>1, WindowOfNeon
<1>5. LaneIs(a[m + 16], 0 .. 7, l, f[128 + i]) /\ LaneIs(b[m + 16], 0 .. 7, l, g[128 + i])
  <2>1. m + 16 \in 0 .. 31 /\ 8 * (m + 16) + l = 128 + i
    BY SMT
  <2> QED
    BY <1>a, <1>b, <2>1, WindowOfNeon
<1>6. f[i] \in Int /\ g[i] \in Int /\ f[128 + i] \in Int /\ g[128 + i] \in Int
  BY <1>i, AnInteger DEF Words
<1>7. LaneIs(N!FqMul(a[m], b[m]), 0 .. 7, l, Mul(f[i], g[i]))
  BY <1>4, <1>6, FqMulOfNeon, Zenon
<1>8. LaneIs(N!FqMul(a[m + 16], b[m + 16]), 0 .. 7, l, Mul(f[128 + i], g[128 + i]))
  <2>1. PICK p \in Int : p = f[128 + i]
    BY <1>6
  <2>2. PICK q \in Int : q = g[128 + i]
    BY <1>6
  <2>3. LaneIs(a[m + 16], 0 .. 7, l, p) /\ LaneIs(b[m + 16], 0 .. 7, l, q)
    BY <1>5, <2>1, <2>2
  <2>4. LaneIs(N!FqMul(a[m + 16], b[m + 16]), 0 .. 7, l, Mul(p, q))
    BY <2>3, FqMulOfNeon, Zenon
  <2> QED
    BY <2>1, <2>2, <2>4
<1>9. LaneIs(N!FqMul(a[m], b[m + 16]), 0 .. 7, l, Mul(f[i], g[128 + i]))
  BY <1>4, <1>5, <1>6, FqMulOfNeon, ZenonT(40)
<1>10. LaneIs(N!FqMul(a[m + 16], b[m]), 0 .. 7, l, Mul(f[128 + i], g[i]))
  BY <1>4, <1>5, <1>6, FqMulOfNeon, ZenonT(40)
<1>11. LaneIs(gamma(m), 0 .. 7, l, GAMMA_MONT[i])
  BY TablesOfBackends, Zenon DEF LaneIs
<1> HIDE DEF gamma
<1>12. Mul(f[128 + i], g[128 + i]) \in Int /\ GAMMA_MONT[i] \in Int
  BY <1>i, <1>6, MulWord, GammaWord, ZenonT(40)
<1>13. LaneIs(N!FqMul(N!FqMul(a[m + 16], b[m + 16]), gamma(m)), 0 .. 7, l,
              Mul(Mul(f[128 + i], g[128 + i]), GAMMA_MONT[i]))
  <2>1. PICK p \in Int : p = Mul(f[128 + i], g[128 + i])
    BY <1>12
  <2>2. PICK q \in Int : q = GAMMA_MONT[i]
    BY <1>12
  <2>5. PICK v : v = N!FqMul(a[m + 16], b[m + 16])
    BY Zenon
  <2>3. LaneIs(v, 0 .. 7, l, p) /\ LaneIs(gamma(m), 0 .. 7, l, q)
    BY <1>8, <1>11, <2>1, <2>2, <2>5
  <2>4. LaneIs(N!FqMul(v, gamma(m)), 0 .. 7, l, Mul(p, q))
    BY <2>3, FqMulOfNeon, Zenon
  <2> QED
    BY <2>1, <2>2, <2>4, <2>5
<1>14. even(m)[l] = N!Wrap16(Mul(f[i], g[i]) + Mul(Mul(f[128 + i], g[128 + i]), GAMMA_MONT[i]))
  BY <1>7, <1>13, Zenon DEF LaneIs, N!Plus
<1>15. odd(m)[l] = N!Wrap16(Mul(f[i], g[128 + i]) + Mul(f[128 + i], g[i]))
  BY <1>9, <1>10, Zenon DEF LaneIs, N!Plus
<1> HIDE DEF even, odd
<1>16. even(m)[l] = EvenProduct(f, g, i) /\ odd(m)[l] = OddProduct(f, g, i)
  BY <1>14, <1>15, WordsOfNeon DEF EvenProduct, OddProduct, Add
<1> QED
  BY <1>2, <1>3, <1>16

\* A position is in one half or in the other.
LEMMA InHalves ==
  ASSUME NEW j \in Index
  PROVE  j \in Half \/ \E i \in Half : j = 128 + i
<1>1. CASE j < 128
  BY <1>1, SMT DEF Index, Half, HALF
<1>2. CASE ~(j < 128)
  <2>1. j - 128 \in Half /\ j = 128 + (j - 128)
    BY <1>2, SMT DEF Index, Half, HALF
  <2> QED
    BY <2>1
<1> QED
  BY <1>1, <1>2

\* The product of each backend is the portable one.
LEMMA MultiplyIsMultiply ==
  ASSUME NEW f, Words(f), NEW g, Words(g), NEW j \in Index
  PROVE  A!VecMultiply(f, g)[j] = Multiply(f, g)[j] /\ N!VecMultiply(f, g)[j] = Multiply(f, g)[j]
<1>1. ASSUME NEW i \in Half
      PROVE  /\ A!VecMultiply(f, g)[i] = EvenProduct(f, g, i)
             /\ A!VecMultiply(f, g)[128 + i] = OddProduct(f, g, i)
  <2>1. PICK m \in 0 .. 7, l \in 0 .. 15 : i = 16 * m + l
    <3>1. i \div 16 \in 0 .. 7 /\ i % 16 \in 0 .. 15 /\ i = 16 * (i \div 16) + (i % 16)
      BY SMT DEF Half, HALF
    <3> QED
      BY <3>1
  <2> QED
    BY <2>1, MultipliedOfAvx2
<1>2. ASSUME NEW i \in Half
      PROVE  /\ N!VecMultiply(f, g)[i] = EvenProduct(f, g, i)
             /\ N!VecMultiply(f, g)[128 + i] = OddProduct(f, g, i)
  <2>1. PICK m \in 0 .. 15, l \in 0 .. 7 : i = 8 * m + l
    <3>1. i \div 8 \in 0 .. 15 /\ i % 8 \in 0 .. 7 /\ i = 8 * (i \div 8) + (i % 8)
      BY SMT DEF Half, HALF
    <3> QED
      BY <3>1
  <2> QED
    BY <2>1, MultipliedOfNeon
<1> QED
  BY <1>1, <1>2, InHalves, MultiplyForm

-----------------------------------------------------------------------------
\* What a component adds to the sums of the i-th even and odd places.
EvenGain(f, g, cache, i) == f[i] * g[i] + f[128 + i] * cache[i]
OddGain(f, g, i) == f[i] * g[128 + i] + f[128 + i] * g[i]

\* The two halves of what a component adds.
LEMMA AccumulateForm ==
  ASSUME NEW acc, NEW f, NEW g, NEW cache, NEW i \in Half
  PROVE  /\ Accumulate(acc, f, g, cache)[i] = acc[i] + EvenGain(f, g, cache, i)
         /\ Accumulate(acc, f, g, cache)[128 + i] = acc[128 + i] + OddGain(f, g, i)
<1>1. /\ i \in Index /\ 128 + i \in Index /\ i % HALF = i /\ (128 + i) % HALF = i /\ i < HALF
      /\ ~(128 + i < HALF) /\ HALF + i = 128 + i
  BY SMT DEF Index, Half, HALF
<1>2. Accumulate(acc, f, g, cache)[i] = acc[i] + EvenGain(f, g, cache, i)
  BY <1>1 DEF Accumulate, EvenGain
<1>3. Accumulate(acc, f, g, cache)[128 + i] = acc[128 + i] + OddGain(f, g, i)
  BY <1>1 DEF Accumulate, OddGain
<1> QED
  BY <1>2, <1>3

\* The halves of a product, side by side, are the product.
LEMMA HalvesJoined ==
  ASSUME NEW y \in Int
  PROVE  High(y) * 65536 + Low(Wrap16(y)) = y
<1>1. PICK w \in Int : w = Wrap16(y) /\ SameWord(w, y)
  <2>1. Wrap16(y) \in Int16 /\ SameWord(Wrap16(y), y)
    BY WrapSame
  <2> QED
    BY <2>1, AnInteger
<1>2. PICK j \in Int : w = y + j * 65536
  BY <1>1, SameWordPick
<1>3. PICK hi \in Int : hi = High(y)
  BY Halved
<1>4. PICK lo \in Nat : lo = Low(y) /\ lo <= 65535
  BY Halved
<1>5. y = hi * 65536 + lo
  BY <1>3, <1>4, Halved
<1>h. PICK h \in Int : h = hi + j
  BY SMT
<1>6. w = h * 65536 + lo
  BY <1>2, <1>5, <1>h, SMT
<1>7. Low(w) = lo
  BY <1>4, <1>6, SMT DEF Low
<1> QED
  BY <1>1, <1>3, <1>5, <1>7

\* Where lane l of sixteen products is among the planes' i32 lanes.
Plane(l) == 4 * (l \div 8) + (l % 4) + (IF l % 8 < 4 THEN 0 ELSE 8)
\* The lane p of the planes of the products of two vectors.
WideAt(a, b, p) == IF p < 8 THEN A!WideningMulLo(a, b)[p] ELSE A!WideningMulHi(a, b)[p - 8]

\* Where a widened product lies in the accumulator planes of AVX2.
LEMMA PlaneSource ==
  ASSUME NEW l \in 0 .. 15, NEW p, p = Plane(l), NEW first, first = (IF p < 8 THEN 0 ELSE 4),
         NEW k, k = (IF p < 8 THEN p ELSE p - 8)
  PROVE  /\ p \in 0 .. 15 /\ k \in 0 .. 7 /\ 2 * k \in 0 .. 15 /\ 2 * k + 1 \in 0 .. 15
         /\ (2 * k) % 2 = 0 /\ (2 * k + 1) % 2 # 0
         /\ 8 * ((2 * k) \div 8) + first + ((2 * k) % 8) \div 2 = l
         /\ 8 * ((2 * k + 1) \div 8) + first + ((2 * k + 1) % 8) \div 2 = l
<1>1. CASE l \in 0 .. 3
  BY <1>1, SMTT(60) DEF Plane
<1>2. CASE l \in 4 .. 7
  BY <1>2, SMTT(60) DEF Plane
<1>3. CASE l \in 8 .. 11
  BY <1>3, SMTT(60) DEF Plane
<1>4. CASE l \in 12 .. 15
  BY <1>4, SMTT(60) DEF Plane
<1> QED
  BY <1>1, <1>2, <1>3, <1>4, SMT

\* It is the exact 32-bit product of its lanes.
LEMMA WideLaneOfPlanes ==
  ASSUME NEW a, NEW b, NEW l \in 0 .. 15, NEW s \in Int, NEW t \in Int,
         LaneIs(a, 0 .. 15, l, s), LaneIs(b, 0 .. 15, l, t)
  PROVE  WideAt(a, b, Plane(l)) = s * t
<1>p. PICK p : p = Plane(l)
  BY Zenon
<1>f. PICK first : first = (IF p < 8 THEN 0 ELSE 4)
  BY Zenon
<1>k. PICK k : k = (IF p < 8 THEN p ELSE p - 8)
  BY Zenon
<1>1. /\ p \in 0 .. 15 /\ k \in 0 .. 7 /\ 2 * k \in 0 .. 15 /\ 2 * k + 1 \in 0 .. 15
      /\ (2 * k) % 2 = 0 /\ (2 * k + 1) % 2 # 0
      /\ 8 * ((2 * k) \div 8) + first + ((2 * k) % 8) \div 2 = l
      /\ 8 * ((2 * k + 1) \div 8) + first + ((2 * k + 1) % 8) \div 2 = l
  BY <1>p, <1>f, <1>k, PlaneSource
<1>y. PICK y \in Int : y = s * t
  BY SMT
<1>lo. PICK lo : lo = A!MulLow(a, b)
  BY Zenon
<1>hi. PICK hi : hi = A!MulHigh(a, b)
  BY Zenon
<1>2. lo[l] = Wrap16(y) /\ hi[l] = High(y)
  <2>1. lo[l] = A!Wrap16(s * t) /\ hi[l] = A!High(s * t)
    BY <1>lo, <1>hi, Zenon DEF LaneIs, A!MulLow, A!MulHigh
  <2> QED
    BY <2>1, <1>y, WordsOfAvx2
<1>u. PICK u : u = A!UnpackFrom(lo, hi, first)
  BY Zenon
<1>3. \A n \in 0 .. 15 : u[n] = IF n % 2 = 0 THEN lo[8 * (n \div 8) + first + (n % 8) \div 2]
                                ELSE hi[8 * (n \div 8) + first + (n % 8) \div 2]
  BY <1>u, Zenon DEF A!UnpackFrom
<1>4. u[2 * k] = lo[l] /\ u[2 * k + 1] = hi[l]
  BY <1>1, <1>3
<1>5. WideAt(a, b, p) = A!AsInt32(u)[k]
  <2>1. CASE p < 8
    <3>1. first = 0 /\ k = p
      BY <2>1, <1>f, <1>k
    <3> QED
      BY <2>1, <3>1, <1>u, <1>lo, <1>hi, Zenon DEF WideAt, A!WideningMulLo, A!UnpackLo
  <2>2. CASE ~(p < 8)
    <3>1. first = 4 /\ k = p - 8
      BY <2>2, <1>f, <1>k
    <3> QED
      BY <2>2, <3>1, <1>u, <1>lo, <1>hi, Zenon DEF WideAt, A!WideningMulHi, A!UnpackHi
  <2> QED
    BY <2>1, <2>2
<1>6. A!AsInt32(u)[k] = u[2 * k + 1] * 65536 + A!Low(u[2 * k])
  BY <1>1, SMT DEF A!AsInt32
<1>7. A!AsInt32(u)[k] = High(y) * 65536 + Low(Wrap16(y))
  BY <1>2, <1>4, <1>6, WordsOfAvx2
<1> QED
  BY <1>p, <1>5, <1>7, <1>y, HalvesJoined
\* The sums s are in acc in the order of the planes.
InPlanes(acc, s) == \A m \in 0 .. 15, l \in 0 .. 15 : acc[16 * m + Plane(l)] = s[16 * m + l]

LEMMA PlaneInside ==
  ASSUME NEW l \in 0 .. 15
  PROVE  Plane(l) \in 0 .. 15
BY SMTT(60) DEF Plane

\* basemul_accumulate keeps the order of the planes.
LEMMA AccumulatedInPlanes ==
  ASSUME NEW acc, NEW s, InPlanes(acc, s), NEW f, Words(f), NEW g, Words(g),
         NEW cache, \A i \in Half : cache[i] \in Int
  PROVE  InPlanes(A!VecAccumulate(acc, f, g, cache), Accumulate(s, f, g, cache))
<1>a. PICK a : a = A!Windows(f, 16)
  BY Zenon
<1>b. PICK b : b = A!Windows(g, 16)
  BY Zenon
<1> DEFINE mm(n) == [t \in 0 .. 15 |-> cache[16 * n + t]]
           gain(u, v, w, z) ==
             [t \in 0 .. 15 |-> IF t < 8 THEN A!WideningMulLo(u, v)[t] + A!WideningMulLo(w, z)[t]
                                ELSE A!WideningMulHi(u, v)[t - 8] + A!WideningMulHi(w, z)[t - 8]]
           G == [n \in 0 .. 15 |-> IF n < 8 THEN gain(a[n], b[n], a[n + 8], mm(n))
                                   ELSE gain(a[n - 8], b[n], a[n], b[n - 8])]
<1>1. A!VecAccumulate(acc, f, g, cache) = [j \in A!Index |-> acc[j] + A!Flat(G, 16)[j]]
  BY <1>a, <1>b DEF A!VecAccumulate
<1>2. ASSUME NEW u, NEW v, NEW w, NEW z, NEW t \in 0 .. 15
      PROVE  gain(u, v, w, z)[t] = WideAt(u, v, t) + WideAt(w, z, t)
  BY Zenon DEF WideAt
<1> HIDE DEF gain
<1>3. ASSUME NEW n \in 0 .. 7
      PROVE  G[n] = gain(a[n], b[n], a[n + 8], mm(n)) /\ G[n + 8] = gain(a[n], b[n + 8], a[n + 8], b[n])
  <2> HIDE DEF mm
  <2>1. n \in 0 .. 15 /\ n + 8 \in 0 .. 15 /\ n < 8 /\ ~(n + 8 < 8) /\ (n + 8) - 8 = n
    BY SMT
  <2> QED
    BY <2>1
<1> HIDE DEF G
<1>4. ASSUME NEW n \in 0 .. 15, NEW t \in 0 .. 15
      PROVE  A!VecAccumulate(acc, f, g, cache)[16 * n + t] = acc[16 * n + t] + G[n][t]
  <2>1. A!Flat(G, 16)[16 * n + t] = G[n][t] /\ 16 * n + t \in Index
    BY FlatOfAvx2, Zenon
  <2>2. A!Index = Index
    BY DEF A!Index, Index
  <2> QED
    BY <1>1, <2>1, <2>2, Zenon
<1>5. ASSUME NEW n \in 0 .. 15, NEW t \in 0 .. 15
      PROVE  /\ LaneIs(a[n], 0 .. 15, t, f[16 * n + t]) /\ f[16 * n + t] \in Int
             /\ LaneIs(b[n], 0 .. 15, t, g[16 * n + t]) /\ g[16 * n + t] \in Int
  <2>1. 16 * n + t \in Index
    BY SMT DEF Index
  <2> QED
    BY <1>a, <1>b, <2>1, WindowOfAvx2, AnInteger DEF Words
<1>6. ASSUME NEW m \in 0 .. 7, NEW l \in 0 .. 15
      PROVE  /\ A!VecAccumulate(acc, f, g, cache)[16 * m + Plane(l)] = Accumulate(s, f, g, cache)[16 * m + l]
             /\ A!VecAccumulate(acc, f, g, cache)[16 * (m + 8) + Plane(l)]
                  = Accumulate(s, f, g, cache)[16 * (m + 8) + l]
  <2>p. PICK p \in 0 .. 15 : p = Plane(l)
    BY PlaneInside
  <2>i. PICK i \in Half : i = 16 * m + l
    BY SMT DEF Half, HALF
  <2>1. m \in 0 .. 15 /\ m + 8 \in 0 .. 15 /\ 16 * (m + 8) + l = 128 + i
    BY <2>i, SMT
  <2>2. /\ LaneIs(a[m], 0 .. 15, l, f[i]) /\ f[i] \in Int
        /\ LaneIs(b[m], 0 .. 15, l, g[i]) /\ g[i] \in Int
        /\ LaneIs(a[m + 8], 0 .. 15, l, f[128 + i]) /\ f[128 + i] \in Int
        /\ LaneIs(b[m + 8], 0 .. 15, l, g[128 + i]) /\ g[128 + i] \in Int
    <3>1. /\ LaneIs(a[m], 0 .. 15, l, f[16 * m + l]) /\ f[16 * m + l] \in Int
          /\ LaneIs(b[m], 0 .. 15, l, g[16 * m + l]) /\ g[16 * m + l] \in Int
      BY <1>5, <2>1
    <3>n. PICK n \in 0 .. 15 : n = m + 8
      BY <2>1
    <3>2. /\ LaneIs(a[n], 0 .. 15, l, f[16 * n + l]) /\ f[16 * n + l] \in Int
          /\ LaneIs(b[n], 0 .. 15, l, g[16 * n + l]) /\ g[16 * n + l] \in Int
      BY <1>5
    <3>3. 16 * n + l = 128 + i
      BY <2>1, <3>n
    <3> QED
      BY <2>i, <3>1, <3>2, <3>3, <3>n
  <2>3. LaneIs(mm(m), 0 .. 15, l, cache[i]) /\ cache[i] \in Int
    BY <2>i, Zenon DEF LaneIs
  <2> HIDE DEF mm
  <2>4. /\ WideAt(a[m], b[m], p) = f[i] * g[i]
        /\ WideAt(a[m], b[m + 8], p) = f[i] * g[128 + i]
        /\ WideAt(a[m + 8], b[m], p) = f[128 + i] * g[i]
    BY <2>2, <2>p, WideLaneOfPlanes
  <2>5. WideAt(a[m + 8], mm(m), p) = f[128 + i] * cache[i]
    BY <2>2, <2>3, <2>p, WideLaneOfPlanes
  <2>6. G[m][p] = EvenGain(f, g, cache, i) /\ G[m + 8][p] = OddGain(f, g, i)
    <3>a. G[m] = gain(a[m], b[m], a[m + 8], mm(m)) /\ G[m + 8] = gain(a[m], b[m + 8], a[m + 8], b[m])
      BY <1>3
    <3>1. G[m][p] = WideAt(a[m], b[m], p) + WideAt(a[m + 8], mm(m), p)
      <4>1. gain(a[m], b[m], a[m + 8], mm(m))[p] = WideAt(a[m], b[m], p) + WideAt(a[m + 8], mm(m), p)
        BY <1>2
      <4> QED
        BY <3>a, <4>1
    <3>2. G[m + 8][p] = WideAt(a[m], b[m + 8], p) + WideAt(a[m + 8], b[m], p)
      <4>1. gain(a[m], b[m + 8], a[m + 8], b[m])[p] = WideAt(a[m], b[m + 8], p) + WideAt(a[m + 8], b[m], p)
        BY <1>2
      <4> QED
        BY <3>a, <4>1
    <3> QED
      BY <2>4, <2>5, <3>1, <3>2, Zenon DEF EvenGain, OddGain
  <2>7. acc[16 * m + p] = s[i] /\ acc[16 * (m + 8) + p] = s[128 + i]
    BY <2>1, <2>i, <2>p DEF InPlanes
  <2>8. A!VecAccumulate(acc, f, g, cache)[16 * m + p] = s[i] + EvenGain(f, g, cache, i)
    BY <1>4, <2>1, <2>6, <2>7
  <2>9. A!VecAccumulate(acc, f, g, cache)[16 * (m + 8) + p] = s[128 + i] + OddGain(f, g, i)
    BY <1>4, <2>1, <2>6, <2>7
  <2> QED
    <3>1. /\ Accumulate(s, f, g, cache)[i] = s[i] + EvenGain(f, g, cache, i)
          /\ Accumulate(s, f, g, cache)[128 + i] = s[128 + i] + OddGain(f, g, i)
      BY AccumulateForm
    <3> QED
      BY <2>1, <2>8, <2>9, <2>p, <2>i, <3>1
<1>7. ASSUME NEW m \in 0 .. 15, NEW l \in 0 .. 15
      PROVE  A!VecAccumulate(acc, f, g, cache)[16 * m + Plane(l)] = Accumulate(s, f, g, cache)[16 * m + l]
  <2>1. CASE m \in 0 .. 7
    BY <1>6, <2>1
  <2>2. CASE m \in 8 .. 15
    <3>1. PICK n \in 0 .. 7 : m = n + 8
      <4>1. m - 8 \in 0 .. 7 /\ m = (m - 8) + 8
        BY <2>2, SMT
      <4> QED
        BY <4>1
    <3> QED
      BY <1>6, <3>1
  <2> QED
    BY <2>1, <2>2, SMT
<1> QED
  BY <1>7, Zenon DEF InPlanes

-----------------------------------------------------------------------------
\* vmlal of half a vector.
Mlal(sum, u, v) == [l \in 0 .. 3 |-> sum[l] + u[l] * v[l]]
TwiceMlal(sum, u, v, w, z) ==
  N!Combine(Mlal(Mlal(N!LowLanes(sum), N!LowLanes(u), N!LowLanes(v)), N!LowLanes(w), N!LowLanes(z)),
            Mlal(Mlal(N!HighLanes(sum), N!HighLanes(u), N!HighLanes(v)), N!HighLanes(w), N!HighLanes(z)))

LEMMA TwiceLane ==
  ASSUME NEW sum, NEW u, NEW v, NEW w, NEW z, NEW l \in 0 .. 7
  PROVE  TwiceMlal(sum, u, v, w, z)[l] = (sum[l] + u[l] * v[l]) + w[l] * z[l]
<1> DEFINE lows == Mlal(Mlal(N!LowLanes(sum), N!LowLanes(u), N!LowLanes(v)), N!LowLanes(w), N!LowLanes(z))
           highs == Mlal(Mlal(N!HighLanes(sum), N!HighLanes(u), N!HighLanes(v)), N!HighLanes(w), N!HighLanes(z))
<1>1. ASSUME NEW k \in 0 .. 3
      PROVE  /\ lows[k] = (N!LowLanes(sum)[k] + N!LowLanes(u)[k] * N!LowLanes(v)[k])
                            + N!LowLanes(w)[k] * N!LowLanes(z)[k]
             /\ highs[k] = (N!HighLanes(sum)[k] + N!HighLanes(u)[k] * N!HighLanes(v)[k])
                             + N!HighLanes(w)[k] * N!HighLanes(z)[k]
  BY Zenon DEF Mlal
<1>2. TwiceMlal(sum, u, v, w, z) = N!Combine(lows, highs)
  BY Zenon DEF TwiceMlal
<1> HIDE DEF lows, highs
<1>3. CASE l \in 0 .. 3
  <2>1. /\ N!LowLanes(sum)[l] = sum[l] /\ N!LowLanes(u)[l] = u[l] /\ N!LowLanes(v)[l] = v[l]
        /\ N!LowLanes(w)[l] = w[l] /\ N!LowLanes(z)[l] = z[l]
    BY <1>3, LowerLane
  <2>2. N!Combine(lows, highs)[l] = lows[l]
    BY <1>3, CombinedLow
  <2> QED
    BY <1>1, <1>2, <1>3, <2>1, <2>2
<1>4. CASE l \in 4 .. 7
  <2>k. PICK k \in 0 .. 3 : k = l - 4
    BY <1>4, SMT
  <2>1. /\ N!HighLanes(sum)[k] = sum[l] /\ N!HighLanes(u)[k] = u[l] /\ N!HighLanes(v)[k] = v[l]
        /\ N!HighLanes(w)[k] = w[l] /\ N!HighLanes(z)[k] = z[l]
    BY <1>4, <2>k, UpperLane
  <2>2. N!Combine(lows, highs)[l] = highs[k]
    BY <1>4, <2>k, CombinedHigh
  <2> QED
    BY <1>1, <1>2, <2>1, <2>2
<1> QED
  BY <1>3, <1>4, SMT

\* The sums s, in their own order.
InOrder(acc, s) == \A j \in Index : acc[j] = s[j] /\ s[j] \in Int

\* NEON keeps its sums in order.
LEMMA AccumulatedInOrder ==
  ASSUME NEW acc, NEW s, InOrder(acc, s), NEW f, Words(f), NEW g, Words(g),
         NEW cache, \A i \in Half : cache[i] \in Int
  PROVE  \A j \in Index : N!VecAccumulate(acc, f, g, cache)[j] = Accumulate(s, f, g, cache)[j]
<1>s. PICK v : v = N!Windows(acc, 8)
  BY Zenon
<1>a. PICK a : a = N!Windows(f, 8)
  BY Zenon
<1>b. PICK b : b = N!Windows(g, 8)
  BY Zenon
<1> DEFINE mm(n) == [t \in 0 .. 7 |-> cache[8 * n + t]]
           G == [n \in 0 .. 31 |-> IF n < 16 THEN TwiceMlal(v[n], a[n], b[n], a[n + 16], mm(n))
                                   ELSE TwiceMlal(v[n], a[n - 16], b[n], a[n], b[n - 16])]
<1>1. N!VecAccumulate(acc, f, g, cache) = N!Flat(G, 8)
  BY <1>s, <1>a, <1>b, ZenonT(40) DEF N!VecAccumulate, TwiceMlal, Mlal
<1>3. ASSUME NEW n \in 0 .. 15
      PROVE  /\ G[n] = TwiceMlal(v[n], a[n], b[n], a[n + 16], mm(n))
             /\ G[n + 16] = TwiceMlal(v[n + 16], a[n], b[n + 16], a[n + 16], b[n])
  <2> HIDE DEF mm
  <2>1. n \in 0 .. 31 /\ n + 16 \in 0 .. 31 /\ n < 16 /\ ~(n + 16 < 16) /\ (n + 16) - 16 = n
    BY SMT
  <2> QED
    BY <2>1
<1> HIDE DEF G
<1>4. ASSUME NEW n \in 0 .. 31, NEW t \in 0 .. 7
      PROVE  N!VecAccumulate(acc, f, g, cache)[8 * n + t] = G[n][t]
  <2>1. N!Flat(G, 8)[8 * n + t] = G[n][t]
    BY FlatOfNeon, Zenon
  <2> QED
    BY <1>1, <2>1
<1>5. ASSUME NEW n \in 0 .. 31, NEW t \in 0 .. 7
      PROVE  /\ a[n][t] = f[8 * n + t] /\ f[8 * n + t] \in Int
             /\ b[n][t] = g[8 * n + t] /\ g[8 * n + t] \in Int
             /\ v[n][t] = s[8 * n + t] /\ s[8 * n + t] \in Int
  <2>1. 8 * n + t \in Index
    BY SMT DEF Index
  <2> QED
    BY <1>s, <1>a, <1>b, <2>1, WindowOfNeon, AnInteger DEF Words, LaneIs, InOrder
<1>6. ASSUME NEW m \in 0 .. 15, NEW l \in 0 .. 7, NEW i \in Half, i = 8 * m + l
      PROVE  /\ N!VecAccumulate(acc, f, g, cache)[i] = Accumulate(s, f, g, cache)[i]
             /\ N!VecAccumulate(acc, f, g, cache)[128 + i] = Accumulate(s, f, g, cache)[128 + i]
  <2>1. m \in 0 .. 31
    BY SMT
  <2>n. PICK n \in 0 .. 31 : n = m + 16
    BY SMT
  <2>i. 8 * n + l = 128 + i
    BY <1>6, <2>n, SMT
  <2>2. /\ a[m][l] = f[i] /\ f[i] \in Int /\ b[m][l] = g[i] /\ g[i] \in Int /\ v[m][l] = s[i] /\ s[i] \in Int
    BY <1>5, <1>6, <2>1
  <2>3. /\ a[n][l] = f[128 + i] /\ f[128 + i] \in Int /\ b[n][l] = g[128 + i] /\ g[128 + i] \in Int
        /\ v[n][l] = s[128 + i] /\ s[128 + i] \in Int
    <3>1. /\ a[n][l] = f[8 * n + l] /\ f[8 * n + l] \in Int
          /\ b[n][l] = g[8 * n + l] /\ g[8 * n + l] \in Int
          /\ v[n][l] = s[8 * n + l] /\ s[8 * n + l] \in Int
      BY <1>5
    <3> QED
      BY <2>i, <3>1
  <2>4. mm(m)[l] = cache[i] /\ cache[i] \in Int
    BY <1>6, Zenon
  <2> HIDE DEF mm
  <2>5. G[m] = TwiceMlal(v[m], a[m], b[m], a[n], mm(m)) /\ G[n] = TwiceMlal(v[n], a[m], b[n], a[n], b[m])
    BY <1>3, <2>n
  <2>6. G[m][l] = (s[i] + f[i] * g[i]) + f[128 + i] * cache[i]
    <3>1. TwiceMlal(v[m], a[m], b[m], a[n], mm(m))[l] = (v[m][l] + a[m][l] * b[m][l]) + a[n][l] * mm(m)[l]
      BY TwiceLane
    <3> QED
      BY <2>2, <2>3, <2>4, <2>5, <3>1
  <2>7. G[n][l] = (s[128 + i] + f[i] * g[128 + i]) + f[128 + i] * g[i]
    <3>1. TwiceMlal(v[n], a[m], b[n], a[n], b[m])[l] = (v[n][l] + a[m][l] * b[n][l]) + a[n][l] * b[m][l]
      BY TwiceLane
    <3> QED
      BY <2>2, <2>3, <2>5, <3>1
  <2>8. N!VecAccumulate(acc, f, g, cache)[i] = G[m][l] /\ N!VecAccumulate(acc, f, g, cache)[128 + i] = G[n][l]
    <3>1. N!VecAccumulate(acc, f, g, cache)[8 * n + l] = G[n][l]
      BY <1>4
    <3> QED
      BY <1>4, <1>6, <2>1, <2>i, <3>1
  <2>9. ASSUME NEW d \in Int, NEW x1 \in Int, NEW x2 \in Int, NEW x3 \in Int, NEW x4 \in Int
        PROVE  (d + x1 * x2) + x3 * x4 = d + (x1 * x2 + x3 * x4)
    <3>1. x1 * x2 \in Int /\ x3 * x4 \in Int
      BY SMT
    <3> QED
      BY <3>1, SMT
  <2>10. G[m][l] = s[i] + EvenGain(f, g, cache, i)
    BY <2>2, <2>3, <2>4, <2>6, <2>9 DEF EvenGain
  <2>11. G[n][l] = s[128 + i] + OddGain(f, g, i)
    BY <2>2, <2>3, <2>7, <2>9 DEF OddGain
  <2>12. /\ Accumulate(s, f, g, cache)[i] = s[i] + EvenGain(f, g, cache, i)
         /\ Accumulate(s, f, g, cache)[128 + i] = s[128 + i] + OddGain(f, g, i)
    BY AccumulateForm
  <2> QED
    BY <2>8, <2>10, <2>11, <2>12
<1>7. ASSUME NEW i \in Half
      PROVE  /\ N!VecAccumulate(acc, f, g, cache)[i] = Accumulate(s, f, g, cache)[i]
             /\ N!VecAccumulate(acc, f, g, cache)[128 + i] = Accumulate(s, f, g, cache)[128 + i]
  <2>1. PICK m \in 0 .. 15, l \in 0 .. 7 : i = 8 * m + l
    <3>1. i \div 8 \in 0 .. 15 /\ i % 8 \in 0 .. 7 /\ i = 8 * (i \div 8) + (i % 8)
      BY SMT DEF Half, HALF
    <3> QED
      BY <3>1
  <2> QED
    BY <1>6, <2>1
<1> QED
  BY <1>7, InHalves

-----------------------------------------------------------------------------
\* A sum of products that basemul_reduce is exact for.
Reducible(y) == y \in Int /\ High(y) \in ProductHighs

\* What it leaves of the sum.
ReducedSum(y) == FromProductSum(High(y), Low(y))

LEMMA ReduceForm ==
  ASSUME NEW s, NEW j \in Index
  PROVE  Reduce(s)[j] = ReducedSum(s[j])
BY Zenon DEF Reduce, ReducedSum

\* The reduction of a sum within its range is exact and bounded.
LEMMA ReducedWord ==
  ASSUME NEW y, Reducible(y)
  PROVE  /\ ReducedSum(y) \in EntryBound /\ SumReduced(High(y), Low(y))
         /\ High(y) \in ProductHighs /\ Low(y) \in UInt16 /\ y = High(y) * 65536 + Low(y)
<1>1. y \in Int
  BY DEF Reducible
<1>2. High(y) \in Int /\ Low(y) \in Nat /\ Low(y) <= 65535 /\ y = High(y) * 65536 + Low(y)
  BY <1>1, Halved
<1>h. PICK hi \in ProductHighs : hi = High(y)
  BY DEF Reducible
<1>l. PICK lo \in UInt16 : lo = Low(y)
  BY <1>2 DEF UInt16
<1>3. SumReduced(hi, lo) /\ FromProductSum(hi, lo) \in EntryBound
  BY MontgomeryExact
<1> QED
  BY <1>2, <1>3, <1>h, <1>l DEF ReducedSum

\* basemul_reduce puts the sums of the planes back in order.
LEMMA ReducedOfAvx2 ==
  ASSUME NEW acc, NEW s, InPlanes(acc, s), \A j \in Index : Reducible(s[j]), NEW j \in Index
  PROVE  A!VecReduce(acc)[j] = Reduce(s)[j]
<1>v. PICK v : v = A!Windows(acc, 8)
  BY Zenon
<1>0. PICK m \in 0 .. 15, l \in 0 .. 15 : j = 16 * m + l
  BY SplitOfAvx2
<1> DEFINE F == [n \in 0 .. 15 |-> A!Packs(A!MontgomeryReduceWide(v[2 * n]), A!MontgomeryReduceWide(v[2 * n + 1]))]
<1>1. A!VecReduce(acc) = A!Flat(F, 16)
  BY <1>v DEF A!VecReduce
<1>lo. PICK lo : lo = A!MontgomeryReduceWide(v[2 * m])
  BY Zenon
<1>hi. PICK hi : hi = A!MontgomeryReduceWide(v[2 * m + 1])
  BY Zenon
<1>2. F[m] = A!Packs(lo, hi)
  BY <1>lo, <1>hi, Zenon
<1> HIDE DEF F
<1>3. A!VecReduce(acc)[j] = F[m][l]
  <2>1. A!Flat(F, 16)[16 * m + l] = F[m][l]
    BY FlatOfAvx2, Zenon
  <2> QED
    BY <1>0, <1>1, <2>1
<1>i. PICK i \in 0 .. 7 : i = 4 * (l \div 8) + (l % 4)
  BY SMT
<1>z. PICK z : z = IF l % 8 < 4 THEN lo[i] ELSE hi[i]
  BY Zenon
<1>y. PICK y : y = s[j] /\ Reducible(y)
  BY Zenon
<1>r. PICK r : r = ReducedSum(y)
  BY Zenon
<1>4. A!Packs(lo, hi)[l] = IF z < -32768 THEN -32768 ELSE IF z > 32767 THEN 32767 ELSE z
  <2>1. ASSUME NEW least, NEW most
        PROVE  A!PackInto(lo, hi, least, most)[l] = IF z < least THEN least ELSE IF z > most THEN most ELSE z
    BY <1>i, <1>z, Zenon DEF A!PackInto
  <2> QED
    BY <2>1 DEF A!Packs
<1>5. ASSUME NEW n \in 0 .. 31, NEW t \in 0 .. 7
      PROVE  DOMAIN v[n] = 0 .. 7 /\ v[n][t] = acc[8 * n + t]
  <2>1. A!Windows(acc, 8) = [a \in 0 .. 256 \div 8 - 1 |-> [b \in 0 .. 8 - 1 |-> acc[8 * a + b]]]
    BY Zenon DEF A!Windows
  <2>2. 256 \div 8 - 1 = 31 /\ 8 - 1 = 7
    BY SMT
  <2> QED
    BY <1>v, <2>1, <2>2
<1>6. ASSUME NEW n \in 0 .. 31, NEW t \in 0 .. 7, 8 * n + t = 16 * m + Plane(l)
      PROVE  A!MontgomeryReduceWide(v[n])[t] = r
  <2>1. v[n][t] = y
    <3>1. acc[16 * m + Plane(l)] = s[16 * m + l]
      BY DEF InPlanes
    <3> QED
      BY <1>0, <1>5, <1>6, <1>y, <3>1
  <2>2. PICK w : w = v[n]
    BY Zenon
  <2>3. w[t] = y /\ t \in DOMAIN w
    BY <1>5, <2>1, <2>2
  <2>4. High(y) \in ProductHighs /\ Low(y) \in UInt16 /\ y = High(y) * 65536 + Low(y)
    BY <1>y, ReducedWord
  <2>h. PICK h \in ProductHighs : h = High(y)
    BY <2>4
  <2>l. PICK k \in UInt16 : k = Low(y)
    BY <2>4
  <2>5. w[t] = h * 65536 + k
    BY <2>3, <2>4, <2>h, <2>l
  <2>6. A!MontgomeryReduceWide(w)[t] = FromProductSum(h, k)
    BY <2>3, <2>5, WideOfAvx2
  <2> QED
    BY <2>2, <2>6, <2>h, <2>l, <1>r DEF ReducedSum
<1>7. z = r
  <2>1. CASE l % 8 < 4
    <3>1. PICK n \in 0 .. 31 : n = 2 * m
      BY SMT
    <3>2. 8 * n + i = 16 * m + Plane(l)
      BY <1>i, <2>1, <3>1, SMTT(60) DEF Plane
    <3>3. A!MontgomeryReduceWide(v[n])[i] = r
      BY <1>6, <3>2
    <3> QED
      BY <1>z, <1>lo, <2>1, <3>1, <3>3
  <2>2. CASE ~(l % 8 < 4)
    <3>1. PICK n \in 0 .. 31 : n = 2 * m + 1
      BY SMT
    <3>2. 8 * n + i = 16 * m + Plane(l)
      BY <1>i, <2>2, <3>1, SMTT(60) DEF Plane
    <3>3. A!MontgomeryReduceWide(v[n])[i] = r
      BY <1>6, <3>2
    <3> QED
      BY <1>z, <1>hi, <2>2, <3>1, <3>3
  <2> QED
    BY <2>1, <2>2
<1>8. A!Packs(lo, hi)[l] = r
  <2>1. r \in EntryBound
    BY <1>y, <1>r, ReducedWord
  <2>2. r \in Int /\ -32768 <= r /\ r <= 32767
    BY <2>1, SMT DEF EntryBound
  <2> QED
    BY <1>4, <1>7, <2>2, SMT
<1> QED
  BY <1>2, <1>3, <1>8, <1>y, <1>r, ReduceForm

LEMMA ReducedOfNeon ==
  ASSUME NEW acc, NEW s, InOrder(acc, s), NEW j \in Index
  PROVE  N!VecReduce(acc)[j] = Reduce(s)[j]
<1>v. PICK v : v = N!Windows(acc, 8)
  BY Zenon
<1>0. PICK m \in 0 .. 31, l \in 0 .. 7 : j = 8 * m + l
  BY SplitOfNeon
<1> DEFINE F == [n \in 0 .. 31 |-> N!Combine(N!MontgomeryLanes(N!LowLanes(v[n])),
                                             N!MontgomeryLanes(N!HighLanes(v[n])))]
<1>1. N!VecReduce(acc) = N!Flat(F, 8)
  BY <1>v DEF N!VecReduce
<1>w. PICK w : w = v[m]
  BY Zenon
<1>2. F[m] = N!Combine(N!MontgomeryLanes(N!LowLanes(w)), N!MontgomeryLanes(N!HighLanes(w)))
  BY <1>w, Zenon
<1> HIDE DEF F
<1>3. N!VecReduce(acc)[j] = F[m][l]
  <2>1. N!Flat(F, 8)[8 * m + l] = F[m][l]
    BY FlatOfNeon, Zenon
  <2> QED
    BY <1>0, <1>1, <2>1
<1>y. PICK y \in Int : y = s[j]
  BY DEF InOrder
<1>4. w[l] = y
  BY <1>0, <1>v, <1>w, <1>y, WindowOfNeon DEF LaneIs, InOrder
<1>5. F[m][l] = MontgomeryReduce(High(y), Low(y))
  <2>1. CASE l \in 0 .. 3
    <3>a. PICK a : a = N!LowLanes(w)
      BY Zenon
    <3>1. l \in DOMAIN a /\ a[l] = y
      <4>1. l \in DOMAIN N!LowLanes(w)
        BY <2>1, Zenon DEF N!LowLanes
      <4> QED
        BY <3>a, <4>1, <1>4, <2>1, LowerLane
    <3>2. N!MontgomeryLanes(a)[l] = MontgomeryReduce(High(a[l]), Low(a[l]))
      BY <3>1, MontgomeryOfNeon
    <3> QED
      BY <1>2, <2>1, <3>a, <3>1, <3>2, CombinedLow
  <2>2. CASE l \in 4 .. 7
    <3>k. PICK k \in 0 .. 3 : k = l - 4
      BY <2>2, SMT
    <3>a. PICK a : a = N!HighLanes(w)
      BY Zenon
    <3>1. k \in DOMAIN a /\ a[k] = y
      <4>1. k \in DOMAIN N!HighLanes(w)
        BY Zenon DEF N!HighLanes
      <4>2. N!HighLanes(w)[k] = w[l]
        BY <2>2, <3>k, UpperLane
      <4> QED
        BY <3>a, <4>1, <4>2, <1>4
    <3>2. N!MontgomeryLanes(a)[k] = MontgomeryReduce(High(a[k]), Low(a[k]))
      BY <3>1, MontgomeryOfNeon
    <3>3. F[m][l] = N!MontgomeryLanes(a)[k]
      BY <1>2, <2>2, <3>a, <3>k, CombinedHigh
    <3> QED
      BY <3>1, <3>2, <3>3
  <2> QED
    BY <2>1, <2>2, SMT
<1>6. Reduce(s)[j] = MontgomeryReduce(High(y), Low(y))
  BY <1>y, ReduceForm DEF ReducedSum, FromProductSum
<1> QED
  BY <1>3, <1>5, <1>6

-----------------------------------------------------------------------------
\* Far within what basemul_reduce takes.
Moderate(y) == y \in Int /\ -60000000 <= y /\ y <= 60000000

\* Centred coefficients and reduced products.
Centred(a) == a \in Int /\ -1664 <= a /\ a <= 1664
Entry(a) == a \in Int /\ -3994 <= a /\ a <= 3994

\* Sums of this size are reducible.
LEMMA ModerateReducible ==
  ASSUME NEW y, Moderate(y)
  PROVE  Reducible(y)
<1>1. y \in Int
  BY DEF Moderate
<1>h. PICK hi \in Int : hi = High(y)
  BY <1>1, Halved
<1>l. PICK lo \in Nat : lo = Low(y) /\ lo <= 65535
  BY <1>1, Halved
<1>2. y = hi * 65536 + lo
  BY <1>1, <1>h, <1>l, Halved
<1>3. -2030 <= hi /\ hi <= 2029
  BY <1>2, <1>l, SMT DEF Moderate
<1> QED
  <2>1. hi \in ProductHighs
    BY <1>3, SMT DEF ProductHighs
  <2> QED
    BY <1>1, <1>h, <2>1 DEF Reducible

\* A Montgomery reduction divides by R modulo q.
LEMMA ReducedClass ==
  ASSUME NEW y, Moderate(y), NEW r, r = ReducedSum(y)
  PROVE  Entry(r) /\ Congruent(r, R_INV * y)
<1>1. y \in Int
  BY DEF Moderate
<1>2. Reducible(y)
  BY ModerateReducible
<1>h. PICK hi \in Int : hi = High(y)
  BY <1>1, Halved
<1>l. PICK lo \in Nat : lo = Low(y)
  BY <1>1, Halved
<1>3. y = hi * 65536 + lo
  BY <1>1, <1>h, <1>l, Halved
<1>4. r \in EntryBound
  BY <1>2, ReducedWord
<1>5. SumReduced(hi, lo)
  BY <1>2, <1>h, <1>l, ReducedWord
<1>6. r = FromProductSum(hi, lo)
  BY <1>h, <1>l DEF ReducedSum
<1>e. PICK e \in EntryBound : e = r
  BY <1>4
<1>7. Entry(r) /\ r \in Int
  <2>1. e \in Int /\ -3994 <= e /\ e <= 3994
    BY SMT DEF EntryBound
  <2> QED
    BY <1>e, <2>1 DEF Entry
<1>8. Congruent(r * MONT_R, hi * MONT_R + lo)
  BY <1>5, <1>6 DEF SumReduced
<1>p. PICK p \in Int : p = r * MONT_R
  BY <1>7, SMT DEF MONT_R, Q
<1>q. PICK q \in Int : q = hi * MONT_R + lo
  BY SMT DEF MONT_R, Q
<1>9. PICK k \in Int : p = q + k * Q
  BY <1>8, <1>p, <1>q, ClassDiffers
<1>10. p = r * 2285 /\ q = hi * 2285 + lo
  BY <1>7, <1>p, <1>q, SMT DEF MONT_R, Q
<1> DEFINE m == 169 * (k - 19 * hi) - 116 * r
           t == R_INV * y
<1>11. m \in Int /\ t \in Int /\ r = t + m * Q
  <2>1. PICK s \in Int : s = r
    BY <1>7
  <2>2. s * 2285 = hi * 2285 + lo + k * 3329
    BY <1>9, <1>10, <2>1, SMT DEF Q
  <2>3. s = 169 * y + m * 3329 /\ m \in Int
    BY <2>1, <2>2, <1>3, SMT
  <2> QED
    BY <2>1, <2>3, <1>1, SMT DEF Q, R_INV
<1>12. Multiple(r, t)
  <2> HIDE DEF m, t
  <2> QED
    BY <1>11 DEF Multiple
<1>13. Congruent(r, t)
  <2> HIDE DEF m, t
  <2> QED
    BY <1>7, <1>11, <1>12, MultipleCongruent
<1> QED
  BY <1>7, <1>13

\* A Montgomery product is a product by 1/R.
LEMMA MulClass ==
  ASSUME NEW a \in Int, NEW b \in Int, NEW y, y = a * b, Moderate(y), NEW r, r = Mul(a, b)
  PROVE  Entry(r) /\ Congruent(r, R_INV * y)
<1>1. r = ReducedSum(y)
  BY DEF Mul, ReducedSum, FromProductSum
<1> QED
  BY <1>1, ReducedClass

\* Products of centred coefficients and entries.
LEMMA CentredProduct ==
  ASSUME NEW a, NEW b, Entry(a), Centred(b)
  PROVE  /\ a * b \in Int /\ -6646016 <= a * b /\ a * b <= 6646016 /\ Moderate(a * b)
         /\ b * a = a * b /\ a \in Int /\ b \in Int
<1>1. a \in Int /\ -3994 <= a /\ a <= 3994 /\ 3994 \in Nat /\ b \in Int /\ -1664 <= b /\ b <= 1664
  BY SMT DEF Entry, Centred
<1>2. -(1664 * 3994) <= a * b /\ a * b <= 1664 * 3994
  BY <1>1, ProductWithin
<1>3. a * b \in Int /\ b * a = a * b
  BY <1>1, SMT
<1> QED
  BY <1>1, <1>2, <1>3, SMT DEF Moderate

\* Centred factors have a product far within it.
LEMMA BothCentred ==
  ASSUME NEW a, NEW b, Centred(a), Centred(b)
  PROVE  /\ a * b \in Int /\ -2768896 <= a * b /\ a * b <= 2768896 /\ Moderate(a * b)
         /\ Entry(a) /\ a \in Int /\ b \in Int
<1>1. a \in Int /\ -1664 <= a /\ a <= 1664 /\ 1664 \in Nat /\ b \in Int /\ -1664 <= b /\ b <= 1664
  BY SMT DEF Centred
<1>2. -(1664 * 1664) <= a * b /\ a * b <= 1664 * 1664
  BY <1>1, ProductWithin
<1>3. a * b \in Int
  BY <1>1, SMT
<1> QED
  BY <1>1, <1>2, <1>3, SMT DEF Moderate, Entry

LEMMA ZetaRange ==
  ASSUME NEW z \in 1 .. Q - 1
  PROVE  z \in Int /\ 1 <= z /\ z <= 3328
BY SMT DEF Q

\* The gammas in Montgomery form.
LEMMA GammaClass ==
  ASSUME NEW i \in Half, NEW z, z = GAMMA_RAW[i], NEW w, w = GAMMA_MONT[i]
  PROVE  z \in Int /\ Entry(w) /\ Congruent(R_INV * w, z)
<1>0. Half = 0 .. 127
  BY SMT DEF Half, HALF
<1>1. z \in 1 .. Q - 1
  BY <1>0, TablesAssumption, Zenon
<1>2. z \in Int /\ 1 <= z /\ z <= 3328
  BY <1>1, ZetaRange
<1>m. PICK m \in Int : m = MONT_R_SQUARED
  BY SMT DEF MONT_R_SQUARED
<1>3. m = 1353
  BY <1>m, SMT DEF MONT_R_SQUARED
<1>4. w = Mul(z, m)
  BY <1>m, GammaWord
<1>y. PICK y \in Int : y = z * m
  BY <1>2, SMT
<1>5. y = 1353 * z
  BY <1>2, <1>3, <1>y, SMT
<1>6. Moderate(y)
  BY <1>2, <1>5, SMT DEF Moderate
<1>7. Entry(w) /\ Congruent(w, R_INV * y)
  BY <1>2, <1>4, <1>6, <1>y, MulClass
<1>8. w \in Int
  BY <1>7 DEF Entry
<1>t. PICK t \in Int : t = R_INV * y
  BY SMT DEF R_INV
<1>9. PICK k \in Int : w = t + k * Q
  BY <1>7, <1>8, <1>t, ClassDiffers
<1> DEFINE n == 169 * k + 11608 * z
           v == R_INV * w
<1>10. v \in Int /\ n \in Int /\ v = z + n * Q
  BY <1>2, <1>5, <1>8, <1>9, <1>t, SMT DEF R_INV, Q
<1>11. Congruent(v, z)
  <2> HIDE DEF v, n
  <2>1. Multiple(v, z)
    BY <1>10 DEF Multiple
  <2> QED
    BY <2>1, <1>2, <1>10, MultipleCongruent
<1> QED
  BY <1>2, <1>7, <1>11

\* mul_cache multiplies with the gamma itself.
LEMMA CacheClass ==
  ASSUME NEW i \in Half, NEW z, z = GAMMA_RAW[i], NEW d, Centred(d),
         NEW c, c = Mul(d, GAMMA_MONT[i])
  PROVE  z \in Int /\ d \in Int /\ Entry(c) /\ Congruent(c, d * z)
<1>w. PICK w : w = GAMMA_MONT[i]
  BY Zenon
<1>1. z \in Int /\ Entry(w) /\ Congruent(R_INV * w, z)
  BY <1>w, GammaClass
<1>2. d * w \in Int /\ Moderate(d * w) /\ w \in Int /\ d \in Int
  <2>1. /\ w * d \in Int /\ Moderate(w * d) /\ d * w = w * d /\ w \in Int /\ d \in Int
    BY <1>1, CentredProduct
  <2> QED
    BY <2>1
<1>y. PICK y \in Int : y = d * w
  BY <1>2
<1>3. Entry(c) /\ Congruent(c, R_INV * y)
  BY <1>2, <1>y, <1>w, MulClass
<1>t. PICK t \in Int : t = R_INV * w
  BY <1>2, SMT DEF R_INV
<1>4. Congruent(d * t, d * z)
  BY <1>1, <1>2, <1>t, ClassProduct, ClassOfItself
<1>5. d * t = R_INV * y
  BY <1>2, <1>y, <1>t, SMT DEF R_INV
<1>6. d * t \in Int /\ d * z \in Int /\ c \in Int
  BY <1>1, <1>2, <1>3, <1>t, SMT DEF Entry
<1>7. Congruent(c, d * t)
  BY <1>3, <1>5
<1>p. PICK p \in Int : p = d * t
  BY <1>6
<1>q. PICK q \in Int : q = d * z
  BY <1>6
<1>8. Congruent(c, q)
  BY <1>4, <1>6, <1>7, <1>p, <1>q, ClassOn
<1> QED
  BY <1>1, <1>2, <1>3, <1>8, <1>q

-----------------------------------------------------------------------------
\* The product of two residues modulo X^2 - z.
PairProduct(u0, u1, v0, v1, z, w0, w1) ==
  /\ u0 \in Int /\ u1 \in Int /\ v0 \in Int /\ v1 \in Int /\ z \in Int /\ w0 \in Int /\ w1 \in Int
  /\ Congruent(u0 * v0 + (u1 * v1) * z, w0)
  /\ Congruent(u0 * v1 + u1 * v0, w1)

\* What each component of a dot product adds.
Gain(y) == y \in Int /\ -9414912 <= y /\ y <= 9414912

\* A scale can be taken out of a product of pairs.
LEMMA PairRegrouped ==
  ASSUME NEW s \in Int, NEW u0 \in Int, NEW u1 \in Int, NEW v0 \in Int, NEW v1 \in Int, NEW z \in Int
  PROVE  /\ (s * u0) * v0 + (s * u1) * (v1 * z) = s * (u0 * v0 + (u1 * v1) * z)
         /\ (s * u0) * v1 + (s * u1) * v0 = s * (u0 * v1 + u1 * v0)
         /\ s * u0 \in Int /\ s * u1 \in Int /\ v1 * z \in Int
         /\ u0 * v0 + (u1 * v1) * z \in Int /\ u0 * v1 + u1 * v0 \in Int
BY SMT

\* Classes of the factors give the class of a sum of two products.
LEMMA SumOfTwoProducts ==
  ASSUME NEW a \in Int, NEW b \in Int, NEW d \in Int, NEW e \in Int,
         NEW p \in Int, NEW q \in Int, NEW r \in Int, NEW t \in Int,
         Congruent(a, p), Congruent(b, q), Congruent(d, r), Congruent(e, t)
  PROVE  Congruent(a * b + d * e, p * q + r * t)
<1>1. Congruent(a * b, p * q) /\ Congruent(d * e, r * t)
  BY ClassProduct
<1>2. a * b \in Int /\ p * q \in Int /\ d * e \in Int /\ r * t \in Int
  BY SMT
<1> QED
  BY <1>1, <1>2, ClassSum

\* With the cache of the other factor, the gain of a component is the product
\* of the residues.
LEMMA GainClass ==
  ASSUME NEW i \in Half, NEW z, z = GAMMA_RAW[i],
         NEW f0, NEW f1, NEW g0, NEW g1, Centred(f0), Centred(f1), Centred(g0), Centred(g1),
         NEW s \in Int, NEW u0, NEW u1, NEW v0, NEW v1, NEW w0, NEW w1,
         PairProduct(u0, u1, v0, v1, z, w0, w1),
         Congruent(f0, s * u0), Congruent(f1, s * u1), Congruent(g0, v0), Congruent(g1, v1),
         NEW c, c = Mul(g1, GAMMA_MONT[i])
  PROVE  /\ Gain(f0 * g0 + f1 * c) /\ Congruent(f0 * g0 + f1 * c, s * w0)
         /\ Gain(f0 * g1 + f1 * g0) /\ Congruent(f0 * g1 + f1 * g0, s * w1)
<1>1. z \in Int /\ Entry(c) /\ Congruent(c, g1 * z) /\ c \in Int /\ g1 \in Int
  BY CacheClass DEF Entry
<1>2. /\ u0 \in Int /\ u1 \in Int /\ v0 \in Int /\ v1 \in Int /\ w0 \in Int /\ w1 \in Int
      /\ Congruent(u0 * v0 + (u1 * v1) * z, w0) /\ Congruent(u0 * v1 + u1 * v0, w1)
  BY DEF PairProduct
<1>3. f0 \in Int /\ f1 \in Int /\ g0 \in Int
  BY DEF Centred
<1>4. PICK a \in Int : a = f0 * g0 /\ -2768896 <= a /\ a <= 2768896
  BY BothCentred
<1>5. PICK b \in Int : b = f1 * c /\ -6646016 <= b /\ b <= 6646016
  BY <1>1, CentredProduct
<1>6. PICK d \in Int : d = f0 * g1 /\ -2768896 <= d /\ d <= 2768896
  BY BothCentred
<1>7. PICK e \in Int : e = f1 * g0 /\ -2768896 <= e /\ e <= 2768896
  BY BothCentred
<1>8. Gain(a + b) /\ Gain(d + e)
  BY <1>4, <1>5, <1>6, <1>7, SMT DEF Gain
<1>9. Gain(f0 * g0 + f1 * c) /\ Gain(f0 * g1 + f1 * g0)
  BY <1>4, <1>5, <1>6, <1>7, <1>8
<1>10. Congruent(c, v1 * z)
  <2>1. Congruent(g1 * z, v1 * z)
    BY <1>1, <1>2, ClassProduct, ClassOfItself
  <2>2. g1 * z \in Int /\ v1 * z \in Int
    BY <1>1, <1>2, SMT
  <2> QED
    BY <2>1, <2>2, <1>1, ClassOn
<1>p. PICK p \in Int : p = s * u0
  BY <1>2, SMT
<1>q. PICK q \in Int : q = s * u1
  BY <1>2, SMT
<1>t. PICK t \in Int : t = v1 * z
  BY <1>1, <1>2, SMT
<1>11. /\ Congruent(f0 * g0 + f1 * c, p * v0 + q * t)
       /\ Congruent(f0 * g1 + f1 * g0, p * v1 + q * v0)
  <2>1. Congruent(f0, p) /\ Congruent(f1, q) /\ Congruent(c, t)
    BY <1>10, <1>p, <1>q, <1>t
  <2>2. Congruent(f0 * g0 + f1 * c, p * v0 + q * t)
    BY <2>1, <1>1, <1>2, <1>3, SumOfTwoProducts, ZenonT(40)
  <2>3. Congruent(f0 * g1 + f1 * g0, p * v1 + q * v0)
    BY <2>1, <1>1, <1>2, <1>3, SumOfTwoProducts
  <2> QED
    BY <2>2, <2>3
<1>m. PICK m \in Int : m = u0 * v0 + (u1 * v1) * z
  BY <1>1, <1>2, PairRegrouped
<1>n. PICK n \in Int : n = u0 * v1 + u1 * v0
  BY <1>1, <1>2, PairRegrouped
<1>12. p * v0 + q * t = s * m /\ p * v1 + q * v0 = s * n
  BY <1>1, <1>2, <1>p, <1>q, <1>t, <1>m, <1>n, PairRegrouped
<1>13. Congruent(s * m, s * w0) /\ Congruent(s * n, s * w1)
  <2>1. Congruent(m, w0) /\ Congruent(n, w1)
    BY <1>2, <1>m, <1>n
  <2>2. Congruent(s * m, s * w0)
    BY <2>1, <1>2, ClassProduct, ClassOfItself
  <2>3. Congruent(s * n, s * w1)
    BY <2>1, <1>2, ClassProduct, ClassOfItself
  <2> QED
    BY <2>2, <2>3
<1>14. /\ s * m \in Int /\ s * n \in Int /\ s * w0 \in Int /\ s * w1 \in Int
       /\ f0 * g0 + f1 * c \in Int /\ f0 * g1 + f1 * g0 \in Int
  BY <1>1, <1>2, <1>3, SMT
<1>15. Congruent(f0 * g0 + f1 * c, s * m) /\ Congruent(f0 * g1 + f1 * g0, s * n)
  BY <1>11, <1>12
<1>16. Congruent(f0 * g0 + f1 * c, s * w0)
  BY <1>13, <1>14, <1>15, ClassOn
<1>17. Congruent(f0 * g1 + f1 * g0, s * w1)
  BY <1>13, <1>14, <1>15, ClassOn
<1> QED
  BY <1>9, <1>16, <1>17

-----------------------------------------------------------------------------
\* The residues of the last layer are modulo X^2 - 17^r.
LEMMA LastResidues ==
  ASSUME NEW e, NEW i \in Half, NEW r, r = Root[7][i]
  PROVE  /\ Residue(e, 7, 2 * i) = ResidueIn(e, r, 2, 0)
         /\ Residue(e, 7, 2 * i + 1) = ResidueIn(e, r, 2, 1)
<1>1. 256 \div 2^7 = 2
  BY SmallPowers, SMT
<1>2. /\ (2 * i) \div 2 = i /\ (2 * i + 1) \div 2 = i /\ (2 * i) % 2 = 0 /\ (2 * i + 1) % 2 = 1
  BY SMT DEF Half, HALF
<1>3. \A j : Residue(e, 7, j) = ResidueIn(e, Root[7][j \div (256 \div 2^7)], 256 \div 2^7, j % (256 \div 2^7))
  BY Zenon DEF Residue
<1>4. \A j : Residue(e, 7, j) = ResidueIn(e, Root[7][j \div 2], 2, j % 2)
  BY <1>1, <1>3
<1>5. Residue(e, 7, 2 * i) = ResidueIn(e, Root[7][(2 * i) \div 2], 2, (2 * i) % 2)
  BY <1>4
<1>6. Residue(e, 7, 2 * i + 1) = ResidueIn(e, Root[7][(2 * i + 1) \div 2], 2, (2 * i + 1) % 2)
  BY <1>4
<1> QED
  BY <1>2, <1>5, <1>6

\* The gammas are the roots of the last layer.
LEMMA LastRoot ==
  ASSUME NEW i \in Half, NEW r, r = Root[7][i]
  PROVE  r \in Int /\ GAMMA_RAW[i] = Power(r)
<1>1. r \in 0 .. 255 /\ GAMMA_RAW[i] = Zeta[r]
  BY RootsAssumption
<1>2. r \in Int /\ r % 256 = r
  BY <1>1, SMT
<1> QED
  BY <1>1, <1>2 DEF Power

\* Powers of r times half of an exponent.
LEMMA PowersAdded ==
  ASSUME NEW r \in Int, NEW a \in Int, NEW b \in Int
  PROVE  /\ Congruent(Power(r * a) * Power(r * b), Power(r * (a + b)))
         /\ Congruent((Power(r * a) * Power(r * b)) * Power(r), Power(r * (a + b + 1)))
         /\ Power(r * a) \in Int /\ Power(r * b) \in Int /\ Power(r) \in Int
         /\ Power(r * (a + b)) \in Int /\ Power(r * (a + b + 1)) \in Int
<1>p. PICK p \in Int : p = r * a
  BY SMT
<1>q. PICK q \in Int : q = r * b
  BY SMT
<1>1. r * (a + b) = p + q /\ r * (a + b + 1) = (p + q) + r
  BY <1>p, <1>q, SMT
<1>s. PICK s \in Int : s = p + q
  BY SMT
<1>t. PICK t \in Int : t = s + r
  BY SMT
<1>2. Congruent(Power(p) * Power(q), Power(s))
  BY <1>s, PowerSum
<1>3. Congruent(Power(s) * Power(r), Power(t))
  BY <1>t, PowerSum
<1>4. Power(p) \in Int /\ Power(q) \in Int /\ Power(s) \in Int /\ Power(t) \in Int /\ Power(r) \in Int
  BY PowerType
<1>m. PICK m \in Int : m = Power(p) * Power(q)
  BY <1>4, SMT
<1>5. Congruent(m * Power(r), Power(s) * Power(r))
  BY <1>2, <1>4, <1>m, ClassProduct, ClassOfItself
<1>6. m * Power(r) \in Int /\ Power(s) * Power(r) \in Int
  BY <1>4, SMT
<1>7. Congruent(m * Power(r), Power(t))
  BY <1>3, <1>4, <1>5, <1>6, ClassOn
<1>8. r * (a + b) = s /\ r * (a + b + 1) = t
  BY <1>1, <1>s, <1>t
<1> QED
  BY <1>2, <1>4, <1>7, <1>8, <1>p, <1>q, <1>m

\* Exponents add within the pairs, with a carry from the odd parts.
LEMMA HalvedSum ==
  ASSUME NEW e \in Nat, NEW f \in Nat
  PROVE  /\ e \div 2 \in Int /\ f \div 2 \in Int
         /\ (e % 2 = 0 \/ e % 2 = 1) /\ (f % 2 = 0 \/ f % 2 = 1)
         /\ e % 2 = 0 /\ f % 2 = 0 => (e + f) % 2 = 0 /\ (e + f) \div 2 = e \div 2 + f \div 2
         /\ e % 2 = 0 /\ f % 2 = 1 => (e + f) % 2 = 1 /\ (e + f) \div 2 = e \div 2 + f \div 2
         /\ e % 2 = 1 /\ f % 2 = 0 => (e + f) % 2 = 1 /\ (e + f) \div 2 = e \div 2 + f \div 2
         /\ e % 2 = 1 /\ f % 2 = 1 => (e + f) % 2 = 0 /\ (e + f) \div 2 = e \div 2 + f \div 2 + 1
BY SMT

-----------------------------------------------------------------------------
\* Monomials multiply modulo X^2 - z by the sum of their exponents.
LEMMA ResiduesMultiply ==
  ASSUME NEW e \in Nat, NEW f \in Nat, NEW i \in Half
  PROVE  PairProduct(Residue(e, 7, 2 * i), Residue(e, 7, 2 * i + 1),
                     Residue(f, 7, 2 * i), Residue(f, 7, 2 * i + 1), GAMMA_RAW[i],
                     Residue(e + f, 7, 2 * i), Residue(e + f, 7, 2 * i + 1))
<1>r. PICK r : r = Root[7][i]
  BY Zenon
<1>1. r \in Int /\ GAMMA_RAW[i] = Power(r)
  BY <1>r, LastRoot
<1>a. PICK a \in Int : a = e \div 2
  BY SMT
<1>b. PICK b \in Int : b = f \div 2
  BY SMT
<1>2. /\ Congruent(Power(r * a) * Power(r * b), Power(r * (a + b)))
      /\ Congruent((Power(r * a) * Power(r * b)) * Power(r), Power(r * (a + b + 1)))
      /\ Power(r * a) \in Int /\ Power(r * b) \in Int /\ Power(r) \in Int
      /\ Power(r * (a + b)) \in Int /\ Power(r * (a + b + 1)) \in Int
  BY <1>1, PowersAdded
<1>p. PICK p \in Int : p = Power(r * a)
  BY <1>2
<1>q. PICK q \in Int : q = Power(r * b)
  BY <1>2
<1>z. PICK z \in Int : z = Power(r)
  BY <1>2
<1>s. PICK s \in Int : s = Power(r * (a + b))
  BY <1>2
<1>t. PICK t \in Int : t = Power(r * (a + b + 1))
  BY <1>2
<1>3. Congruent(p * q, s) /\ Congruent((p * q) * z, t)
  BY <1>2, <1>p, <1>q, <1>z, <1>s, <1>t
<1>4. ASSUME NEW n
      PROVE  /\ Residue(n, 7, 2 * i) = IF 0 = n % 2 THEN Power(r * (n \div 2)) ELSE 0
             /\ Residue(n, 7, 2 * i + 1) = IF 1 = n % 2 THEN Power(r * (n \div 2)) ELSE 0
  BY <1>r, LastResidues DEF ResidueIn
<1> DEFINE u0 == Residue(e, 7, 2 * i)
           u1 == Residue(e, 7, 2 * i + 1)
           v0 == Residue(f, 7, 2 * i)
           v1 == Residue(f, 7, 2 * i + 1)
           w0 == Residue(e + f, 7, 2 * i)
           w1 == Residue(e + f, 7, 2 * i + 1)
<1>5. /\ u0 = IF 0 = e % 2 THEN p ELSE 0
      /\ u1 = IF 1 = e % 2 THEN p ELSE 0
  BY <1>4, <1>a, <1>p
<1>6. /\ v0 = IF 0 = f % 2 THEN q ELSE 0
      /\ v1 = IF 1 = f % 2 THEN q ELSE 0
  BY <1>4, <1>b, <1>q
<1>7. /\ w0 = IF 0 = (e + f) % 2 THEN Power(r * ((e + f) \div 2)) ELSE 0
      /\ w1 = IF 1 = (e + f) % 2 THEN Power(r * ((e + f) \div 2)) ELSE 0
  BY <1>4
<1> HIDE DEF u0, u1, v0, v1, w0, w1
<1>k. 0 \in Int /\ Congruent(0, 0)
  BY SMT DEF Congruent, Q
<1> DEFINE Goal == /\ u0 \in Int /\ u1 \in Int /\ v0 \in Int /\ v1 \in Int /\ w0 \in Int /\ w1 \in Int
                   /\ Congruent(u0 * v0 + (u1 * v1) * z, w0) /\ Congruent(u0 * v1 + u1 * v0, w1)
<1>8. ASSUME e % 2 = 0 /\ f % 2 = 0 PROVE Goal
  <2>1. (e + f) % 2 = 0 /\ (e + f) \div 2 = a + b
    BY <1>8, <1>a, <1>b, HalvedSum
  <2>2. u0 = p /\ u1 = 0 /\ v0 = q /\ v1 = 0 /\ w0 = s /\ w1 = 0
    BY <1>8, <2>1, <1>5, <1>6, <1>7, <1>s
  <2>3. p * q + (0 * 0) * z = p * q /\ p * 0 + 0 * q = 0
    BY SMT
  <2> QED
    BY <2>2, <2>3, <1>3, <1>k
<1>9. ASSUME e % 2 = 0 /\ f % 2 = 1 PROVE Goal
  <2>1. (e + f) % 2 = 1 /\ (e + f) \div 2 = a + b
    BY <1>9, <1>a, <1>b, HalvedSum
  <2>2. u0 = p /\ u1 = 0 /\ v0 = 0 /\ v1 = q /\ w0 = 0 /\ w1 = s
    BY <1>9, <2>1, <1>5, <1>6, <1>7, <1>s
  <2>3. p * 0 + (0 * q) * z = 0 /\ p * q + 0 * 0 = p * q
    BY SMT
  <2> QED
    BY <2>2, <2>3, <1>3, <1>k
<1>10. ASSUME e % 2 = 1 /\ f % 2 = 0 PROVE Goal
  <2>1. (e + f) % 2 = 1 /\ (e + f) \div 2 = a + b
    BY <1>10, <1>a, <1>b, HalvedSum
  <2>2. u0 = 0 /\ u1 = p /\ v0 = q /\ v1 = 0 /\ w0 = 0 /\ w1 = s
    BY <1>10, <2>1, <1>5, <1>6, <1>7, <1>s
  <2>3. 0 * q + (p * 0) * z = 0 /\ 0 * 0 + p * q = p * q
    BY SMT
  <2> QED
    BY <2>2, <2>3, <1>3, <1>k
<1>11. ASSUME e % 2 = 1 /\ f % 2 = 1 PROVE Goal
  <2>1. (e + f) % 2 = 0 /\ (e + f) \div 2 = a + b + 1
    BY <1>11, <1>a, <1>b, HalvedSum
  <2>2. u0 = 0 /\ u1 = p /\ v0 = 0 /\ v1 = q /\ w0 = t /\ w1 = 0
    BY <1>11, <2>1, <1>5, <1>6, <1>7, <1>t
  <2>3. 0 * 0 + (p * q) * z = (p * q) * z /\ 0 * q + p * 0 = 0
    BY SMT
  <2> QED
    BY <2>2, <2>3, <1>3, <1>k
<1>12. Goal
  BY <1>8, <1>9, <1>10, <1>11, HalvedSum
<1>13. PairProduct(u0, u1, v0, v1, z, w0, w1)
  BY <1>12 DEF PairProduct
<1> QED
  BY <1>13, <1>1, <1>z DEF u0, u1, v0, v1, w0, w1

-----------------------------------------------------------------------------
\* h holds scale * X^e, centred, in the layout of a TqElement.
HatOf(h, scale, e) ==
  \A i \in Half :
    /\ Centred(h[i]) /\ Congruent(h[i], scale * Residue(e, 7, 2 * i))
    /\ Centred(h[128 + i]) /\ Congruent(h[128 + i], scale * Residue(e, 7, 2 * i + 1))

\* It is of i16.
LEMMA HatWords ==
  ASSUME NEW h, NEW scale, NEW e, HatOf(h, scale, e)
  PROVE  Words(h)
<1>1. ASSUME NEW a, Centred(a) PROVE a \in Int16
  BY <1>1, SMT DEF Centred, Int16
<1>2. ASSUME NEW j \in Index PROVE h[j] \in Int16
  <2>1. CASE j \in Half
    BY <2>1, <1>1 DEF HatOf
  <2>2. CASE \E i \in Half : j = 128 + i
    <3>1. PICK i \in Half : j = 128 + i
      BY <2>2
    <3>2. Centred(h[128 + i])
      BY Zenon DEF HatOf
    <3> QED
      BY <3>1, <3>2, <1>1
  <2> QED
    BY <2>1, <2>2, InHalves
<1> QED
  BY <1>2 DEF Words

\* A residue of a last layer is a canonical number.
LEMMA ResidueType ==
  ASSUME NEW e \in Nat, NEW i \in Half
  PROVE  /\ Residue(e, 7, 2 * i) \in Int16 /\ Residue(e, 7, 2 * i + 1) \in Int16
         /\ Residue(e, 7, 2 * i) \in Int /\ Residue(e, 7, 2 * i + 1) \in Int
<1>r. PICK r : r = Root[7][i]
  BY Zenon
<1>1. r \in Int
  BY <1>r, LastRoot
<1>a. PICK a \in Int : a = e \div 2
  BY SMT
<1>m. PICK m \in Int : m = r * a
  BY <1>1, SMT
<1>p. PICK p \in Int : p = Power(m) /\ 0 <= p /\ p <= 3328
  BY PowerType
<1>2. p \in Int16 /\ 0 \in Int16 /\ p \in Int /\ 0 \in Int
  BY <1>p, SMT DEF Int16
<1>3. /\ Residue(e, 7, 2 * i) = IF 0 = e % 2 THEN Power(r * (e \div 2)) ELSE 0
      /\ Residue(e, 7, 2 * i + 1) = IF 1 = e % 2 THEN Power(r * (e \div 2)) ELSE 0
  BY <1>r, LastResidues DEF ResidueIn
<1>4. /\ Residue(e, 7, 2 * i) = IF 0 = e % 2 THEN p ELSE 0
      /\ Residue(e, 7, 2 * i + 1) = IF 1 = e % 2 THEN p ELSE 0
  BY <1>3, <1>a, <1>m, <1>p
<1>5. Residue(e, 7, 2 * i) = p \/ Residue(e, 7, 2 * i) = 0
  BY <1>4
<1>6. Residue(e, 7, 2 * i + 1) = p \/ Residue(e, 7, 2 * i + 1) = 0
  BY <1>4
<1> QED
  BY <1>2, <1>5, <1>6

\* A reduced number is centred and of its class.
LEMMA BarrettClass ==
  ASSUME NEW a \in Int16, NEW r, r = Barrett(a)
  PROVE  Centred(r) /\ Congruent(r, a)
<1>1. Barrett(a) \in Int /\ -1664 <= Barrett(a) /\ Barrett(a) <= 1664 /\ Multiple(Barrett(a), a)
  BY BarrettExact
<1>2. a \in Int
  BY SMT DEF Int16
<1>3. r \in Int /\ -1664 <= r /\ r <= 1664 /\ Multiple(r, a)
  BY <1>1
<1>4. Congruent(r, a)
  BY <1>2, <1>3, MultipleCongruent
<1>5. Centred(r)
  BY <1>3 DEF Centred
<1> QED
  BY <1>4, <1>5

\* pack puts the even places before the odd ones.
LEMMA PackForm ==
  ASSUME NEW c, NEW i \in Half
  PROVE  /\ Pack(c)[i] = c[2 * i] /\ Pack(c)[128 + i] = c[2 * i + 1]
         /\ 2 * i \in Index /\ 2 * i + 1 \in Index
<1>1. /\ i \in Index /\ 128 + i \in Index /\ i < HALF /\ ~(128 + i < HALF) /\ (128 + i) - HALF = i
      /\ 2 * i \in Index /\ 2 * i + 1 \in Index
  BY SMT DEF Index, Half, HALF
<1>2. Pack(c)[i] = c[2 * i]
  BY <1>1 DEF Pack
<1>3. Pack(c)[128 + i] = c[2 * i + 1]
  <2>1. Pack(c)[128 + i] = c[2 * ((128 + i) - HALF) + 1]
    BY <1>1 DEF Pack
  <2> QED
    BY <2>1, <1>1
<1> QED
  BY <1>1, <1>2, <1>3

\* The other monomials are as ntt leaves them.
LEMMA FactorIsHat ==
  ASSUME NEW e \in Factors, e \in Nat
  PROVE  HatOf(FactorHat[e], 1, e)
<1>h. PICK h : h = FactorHat[e]
  BY Zenon
<1> DEFINE c == [j \in Index |-> Barrett(Residue(e, 7, j))]
<1>1. h = Pack(c)
  BY <1>h DEF FactorHat
<1>2. ASSUME NEW j \in Index PROVE c[j] = Barrett(Residue(e, 7, j))
  BY Zenon
<1> HIDE DEF c
<1>3. ASSUME NEW i \in Half
      PROVE  /\ Centred(h[i]) /\ Congruent(h[i], 1 * Residue(e, 7, 2 * i))
             /\ Centred(h[128 + i]) /\ Congruent(h[128 + i], 1 * Residue(e, 7, 2 * i + 1))
  <2>1. /\ h[i] = c[2 * i] /\ h[128 + i] = c[2 * i + 1] /\ 2 * i \in Index /\ 2 * i + 1 \in Index
    BY <1>1, PackForm
  <2>a. PICK a \in Int16 : a = Residue(e, 7, 2 * i) /\ a \in Int
    BY ResidueType
  <2>b. PICK b \in Int16 : b = Residue(e, 7, 2 * i + 1) /\ b \in Int
    BY ResidueType
  <2>2. h[i] = Barrett(a) /\ h[128 + i] = Barrett(b)
    BY <2>1, <2>a, <2>b, <1>2
  <2>3. 1 * a = a /\ 1 * b = b
    BY <2>a, <2>b, SMT
  <2>4. Centred(h[i]) /\ Congruent(h[i], a)
    BY <2>2, BarrettClass
  <2>5. Centred(h[128 + i]) /\ Congruent(h[128 + i], b)
    BY <2>2, BarrettClass
  <2> QED
    BY <2>3, <2>4, <2>5, <2>a, <2>b
<1> QED
  BY <1>3, <1>h DEF HatOf

-----------------------------------------------------------------------------
\* The accumulators of the backend hold the sums s.
Matches(acc, s) ==
  /\ backend = "generic" => acc = s
  /\ backend = "avx2" => InPlanes(acc, s)
  /\ backend # "generic" /\ backend # "avx2" => InOrder(acc, s)

Numbers(s) == \A j \in Index : s[j] \in Int

\* The cache of an element, place by place.
LEMMA CacheForm ==
  ASSUME NEW g, NEW i \in Half
  PROVE  MulCache(g)[i] = Mul(g[128 + i], GAMMA_MONT[i])
<1>1. MulCache(g)[i] = Mul(g[HALF + i], GAMMA_MONT[i])
  BY Zenon DEF MulCache
<1>2. HALF + i = 128 + i
  BY SMT DEF HALF
<1> QED
  BY <1>1, <1>2

LEMMA CacheNumbers ==
  ASSUME NEW g, Words(g)
  PROVE  \A i \in Half : MulCache(g)[i] \in Int
<1>1. ASSUME NEW i \in Half PROVE MulCache(g)[i] \in Int
  <2>1. 128 + i \in Index
    BY SMT DEF Half, HALF, Index
  <2>2. g[128 + i] \in Int16
    BY <2>1 DEF Words
  <2>3. PICK a \in Int16 : a = g[128 + i]
    BY <2>2
  <2>4. a \in Int
    BY SMT DEF Int16
  <2>5. PICK w \in Int : w = GAMMA_MONT[i]
    BY GammaWord
  <2>6. Mul(a, w) \in Int
    BY <2>4, MulWord
  <2> QED
    BY <2>3, <2>5, <2>6, CacheForm
<1> QED
  BY <1>1

\* Accumulating keeps the backends together.
LEMMA AccumulateMatches ==
  ASSUME NEW acc, NEW s, Matches(acc, s), NEW f, Words(f), NEW g, Words(g),
         NEW r, r = Accumulate(s, f, g, MulCache(g)), Numbers(r)
  PROVE  Matches(DispatchedAccumulate(acc, f, g), r)
<1>c. PICK cache : cache = MulCache(g)
  BY Zenon
<1>1. \A i \in Half : cache[i] \in Int
  BY <1>c, CacheNumbers
<1>2. CASE backend = "generic"
  BY <1>2 DEF Matches, DispatchedAccumulate
<1>3. CASE backend = "avx2"
  <2>1. InPlanes(A!VecAccumulate(acc, f, g, cache), Accumulate(s, f, g, cache))
    BY <1>1, <1>3, AccumulatedInPlanes DEF Matches
  <2>2. DispatchedAccumulate(acc, f, g) = A!VecAccumulate(acc, f, g, cache)
    BY <1>3, <1>c DEF DispatchedAccumulate
  <2> QED
    BY <2>1, <2>2, <1>3, <1>c DEF Matches
<1>4. CASE backend # "generic" /\ backend # "avx2"
  <2>1. \A j \in Index : N!VecAccumulate(acc, f, g, cache)[j] = Accumulate(s, f, g, cache)[j]
    BY <1>1, <1>4, AccumulatedInOrder DEF Matches
  <2>2. DispatchedAccumulate(acc, f, g) = N!VecAccumulate(acc, f, g, cache)
    BY <1>4, <1>c DEF DispatchedAccumulate
  <2>3. InOrder(N!VecAccumulate(acc, f, g, cache), r)
    BY <2>1, <1>c DEF InOrder, Numbers
  <2> QED
    BY <2>2, <2>3, <1>4 DEF Matches
<1> QED
  BY <1>2, <1>3, <1>4

\* So does the reduction of what they have accumulated.
LEMMA ReduceMatches ==
  ASSUME NEW acc, NEW s, Matches(acc, s), \A j \in Index : Reducible(s[j]), NEW j \in Index
  PROVE  DispatchedReduce(acc)[j] = Reduce(s)[j]
<1>2. CASE backend = "generic"
  BY <1>2 DEF Matches, DispatchedReduce
<1>3. CASE backend = "avx2"
  BY <1>3, ReducedOfAvx2 DEF Matches, DispatchedReduce
<1>4. CASE backend # "generic" /\ backend # "avx2"
  BY <1>4, ReducedOfNeon DEF Matches, DispatchedReduce
<1> QED
  BY <1>2, <1>3, <1>4

Noughts == [j \in Index |-> 0]

LEMMA NoughtsMatch == Matches(Noughts, Noughts)
<1>1. \A j \in Index : Noughts[j] = 0
  BY Zenon DEF Noughts
<1>2. InOrder(Noughts, Noughts)
  BY <1>1, SMT DEF InOrder
<1>3. ASSUME NEW m \in 0 .. 15, NEW l \in 0 .. 15
      PROVE  Noughts[16 * m + Plane(l)] = Noughts[16 * m + l]
  <2>1. PICK p \in 0 .. 15 : p = Plane(l)
    BY PlaneInside
  <2>2. 16 * m + p \in Index /\ 16 * m + l \in Index
    BY SMT DEF Index
  <2> QED
    BY <2>1, <2>2, <1>1
<1>4. InPlanes(Noughts, Noughts)
  BY <1>3, Zenon DEF InPlanes
<1> QED
  BY <1>2, <1>4 DEF Matches

-----------------------------------------------------------------------------
\* The sum of m products.
Limit(y, m) == y \in Int /\ -(9414912 * m) <= y /\ y <= 9414912 * m

\* The sums s hold scale times the residues t, in the layout of a TqElement.
Gathered(s, scale, t, m) ==
  \A i \in Half :
    /\ Limit(s[i], m) /\ t[2 * i] \in Int /\ Congruent(s[i], scale * t[2 * i])
    /\ Limit(s[128 + i], m) /\ t[2 * i + 1] \in Int /\ Congruent(s[128 + i], scale * t[2 * i + 1])

\* The residues t and those of X^e.
With(t, e) == [j \in Index |-> t[j] + Residue(e, 7, j)]

\* Each component adds at most its share to the limit.
LEMMA LimitNext ==
  ASSUME NEW m \in 0 .. 3, NEW y, Limit(y, m), NEW d, Gain(d)
  PROVE  Limit(y + d, m + 1) /\ y \in Int /\ d \in Int
BY SMT DEF Limit, Gain

LEMMA SumClass ==
  ASSUME NEW a \in Int, NEW b \in Int, NEW scale \in Int, NEW p \in Int, NEW q \in Int,
         Congruent(a, scale * p), Congruent(b, scale * q)
  PROVE  Congruent(a + b, scale * (p + q))
<1>1. scale * p \in Int /\ scale * q \in Int /\ scale * (p + q) = scale * p + scale * q
  BY SMT
<1>p. PICK u \in Int : u = scale * p
  BY <1>1
<1>q. PICK v \in Int : v = scale * q
  BY <1>1
<1>2. Congruent(a + b, u + v)
  BY <1>p, <1>q, ClassSum
<1> QED
  BY <1>1, <1>2, <1>p, <1>q

\* A component adds the residue of its product to what is gathered.
LEMMA DotStep ==
  ASSUME NEW s, NEW scale \in Int, NEW t, NEW m \in 0 .. 3, Gathered(s, scale, t, m),
         NEW e \in Nat, NEW d \in Nat, NEW f, HatOf(f, scale, e), NEW g, HatOf(g, 1, d)
  PROVE  Gathered(Accumulate(s, f, g, MulCache(g)), scale, With(t, e + d), m + 1)
<1>r. PICK r : r = Accumulate(s, f, g, MulCache(g))
  BY Zenon
<1>w. PICK w : w = With(t, e + d)
  BY Zenon
<1>1. ASSUME NEW i \in Half
      PROVE  /\ Limit(r[i], m + 1) /\ w[2 * i] \in Int /\ Congruent(r[i], scale * w[2 * i])
             /\ Limit(r[128 + i], m + 1) /\ w[2 * i + 1] \in Int
             /\ Congruent(r[128 + i], scale * w[2 * i + 1])
  <2>u0. PICK u0 \in Int : u0 = Residue(e, 7, 2 * i)
    BY ResidueType
  <2>u1. PICK u1 \in Int : u1 = Residue(e, 7, 2 * i + 1)
    BY ResidueType
  <2>v0. PICK v0 \in Int : v0 = Residue(d, 7, 2 * i)
    BY ResidueType
  <2>v1. PICK v1 \in Int : v1 = Residue(d, 7, 2 * i + 1)
    BY ResidueType
  <2>n. PICK n \in Nat : n = e + d
    BY SMT
  <2>w0. PICK w0 \in Int : w0 = Residue(n, 7, 2 * i)
    BY ResidueType
  <2>w1. PICK w1 \in Int : w1 = Residue(n, 7, 2 * i + 1)
    BY ResidueType
  <2>z. PICK z : z = GAMMA_RAW[i]
    BY Zenon
  <2>1. PairProduct(u0, u1, v0, v1, z, w0, w1)
    BY ResiduesMultiply, <2>u0, <2>u1, <2>v0, <2>v1, <2>n, <2>w0, <2>w1, <2>z
  <2>f0. PICK f0 : f0 = f[i] /\ Centred(f0) /\ Congruent(f0, scale * u0)
    BY <2>u0 DEF HatOf
  <2>f1. PICK f1 : f1 = f[128 + i] /\ Centred(f1) /\ Congruent(f1, scale * u1)
    BY <2>u1 DEF HatOf
  <2>2. 1 * v0 = v0 /\ 1 * v1 = v1
    BY SMT
  <2>g0. PICK g0 : g0 = g[i] /\ Centred(g0) /\ Congruent(g0, v0)
    BY <2>v0, <2>2 DEF HatOf
  <2>g1. PICK g1 : g1 = g[128 + i] /\ Centred(g1) /\ Congruent(g1, v1)
    BY <2>v1, <2>2 DEF HatOf
  <2>c. PICK c : c = Mul(g1, GAMMA_MONT[i])
    BY Zenon
  <2>k. /\ Centred(f0) /\ Centred(f1) /\ Centred(g0) /\ Centred(g1)
        /\ Congruent(f0, scale * u0) /\ Congruent(f1, scale * u1) /\ Congruent(g0, v0) /\ Congruent(g1, v1)
    BY <2>f0, <2>f1, <2>g0, <2>g1
  <2>j. /\ Gain(f0 * g0 + f1 * c) /\ Congruent(f0 * g0 + f1 * c, scale * w0)
        /\ Gain(f0 * g1 + f1 * g0) /\ Congruent(f0 * g1 + f1 * g0, scale * w1)
    BY <2>1, <2>z, <2>k, <2>c, GainClass, Zenon
  <2>y. PICK y : y = f0 * g0 + f1 * c /\ Gain(y) /\ Congruent(y, scale * w0)
    BY <2>j, Zenon
  <2>x. PICK o : o = f0 * g1 + f1 * g0 /\ Gain(o) /\ Congruent(o, scale * w1)
    BY <2>j, Zenon
  <2>3. MulCache(g)[i] = c
    BY <2>c, <2>g1, CacheForm
  <2>4. r[i] = s[i] + y /\ r[128 + i] = s[128 + i] + o
    BY <2>3, <1>r, <2>y, <2>x, <2>f0, <2>f1, <2>g0, <2>g1, AccumulateForm DEF EvenGain, OddGain
  <2>5. 2 * i \in Index /\ 2 * i + 1 \in Index
    BY SMT DEF Half, HALF, Index
  <2>6. w[2 * i] = t[2 * i] + w0 /\ w[2 * i + 1] = t[2 * i + 1] + w1
    BY <2>5, <2>n, <2>w0, <2>w1, <1>w DEF With
  <2>a. PICK a : a = s[i] /\ Limit(a, m)
    BY DEF Gathered
  <2>b. PICK b : b = s[128 + i] /\ Limit(b, m)
    BY DEF Gathered
  <2>p. PICK p \in Int : p = t[2 * i] /\ Congruent(a, scale * p)
    BY <2>a DEF Gathered
  <2>q. PICK q \in Int : q = t[2 * i + 1] /\ Congruent(b, scale * q)
    BY <2>b DEF Gathered
  <2>7. Limit(a + y, m + 1) /\ a \in Int /\ y \in Int
    BY <2>a, <2>y, LimitNext
  <2>8. Limit(b + o, m + 1) /\ b \in Int /\ o \in Int
    BY <2>b, <2>x, LimitNext
  <2>9. Congruent(a + y, scale * (p + w0))
    BY <2>7, <2>p, <2>y, SumClass
  <2>10. Congruent(b + o, scale * (q + w1))
    BY <2>8, <2>q, <2>x, SumClass
  <2>11. p + w0 \in Int /\ q + w1 \in Int
    BY SMT
  <2>12. r[i] = a + y /\ w[2 * i] = p + w0
    BY <2>4, <2>6, <2>a, <2>p
  <2>13. r[128 + i] = b + o /\ w[2 * i + 1] = q + w1
    BY <2>4, <2>6, <2>b, <2>q
  <2> QED
    BY <2>7, <2>8, <2>9, <2>10, <2>11, <2>12, <2>13
<1> QED
  BY <1>1, <1>r, <1>w, Zenon DEF Gathered

-----------------------------------------------------------------------------
\* The accumulators hold scale times the residues t.
Holding(acc, scale, t, m) ==
  (\A j \in Index : t[j] \in Int) /\ \E s : Matches(acc, s) /\ Gathered(s, scale, t, m)

LEMMA LimitNumber ==
  ASSUME NEW y, NEW m, Limit(y, m)
  PROVE  y \in Int
BY SMT DEF Limit

LEMMA GatheredNumbers ==
  ASSUME NEW s, NEW scale, NEW t, NEW m, Gathered(s, scale, t, m)
  PROVE  Numbers(s)
<1>1. ASSUME NEW j \in Index PROVE s[j] \in Int
  <2>1. CASE j \in Half
    <3>1. Limit(s[j], m)
      BY <2>1, Zenon DEF Gathered
    <3> QED
      BY <3>1, LimitNumber, Zenon
  <2>2. CASE \E i \in Half : j = 128 + i
    <3>1. PICK i \in Half : j = 128 + i
      BY <2>2
    <3>2. Limit(s[128 + i], m)
      BY Zenon DEF Gathered
    <3>3. s[128 + i] \in Int
      BY <3>2, LimitNumber, Zenon
    <3> QED
      BY <3>1, <3>3
  <2> QED
    BY <2>1, <2>2, InHalves
<1> QED
  BY <1>1 DEF Numbers

LEMMA LimitWiden ==
  ASSUME NEW m \in 0 .. 3, NEW y, Limit(y, m)
  PROVE  Limit(y, m + 1)
BY SMT DEF Limit

\* The same of the accumulators of every backend.
LEMMA HoldingStep ==
  ASSUME NEW acc, NEW scale \in Int, NEW t, NEW m \in 0 .. 3, Holding(acc, scale, t, m),
         NEW e \in Nat, NEW d \in Nat, NEW f, HatOf(f, scale, e), NEW g, HatOf(g, 1, d)
  PROVE  Holding(DispatchedAccumulate(acc, f, g), scale, With(t, e + d), m + 1)
<1>s. PICK s : Matches(acc, s) /\ Gathered(s, scale, t, m)
  BY DEF Holding
<1>r. PICK r : r = Accumulate(s, f, g, MulCache(g))
  BY Zenon
<1>1. Gathered(r, scale, With(t, e + d), m + 1)
  BY <1>s, <1>r, DotStep
<1>2. Numbers(r)
  BY <1>1, GatheredNumbers
<1>3. Words(f) /\ Words(g)
  BY HatWords
<1>4. Matches(DispatchedAccumulate(acc, f, g), r)
  BY <1>s, <1>r, <1>2, <1>3, AccumulateMatches
<1>w. PICK w : w = With(t, e + d)
  BY Zenon
<1>5. ASSUME NEW j \in Index PROVE w[j] \in Int
  <2>1. CASE \E i \in Half : j = 2 * i
    <3>1. PICK i \in Half : j = 2 * i
      BY <2>1
    <3>2. w[2 * i] \in Int
      BY <1>1, <1>w, Zenon DEF Gathered
    <3> QED
      BY <3>1, <3>2
  <2>2. CASE \E i \in Half : j = 2 * i + 1
    <3>1. PICK i \in Half : j = 2 * i + 1
      BY <2>2
    <3>2. w[2 * i + 1] \in Int
      BY <1>1, <1>w, Zenon DEF Gathered
    <3> QED
      BY <3>1, <3>2
  <2>3. (\E i \in Half : j = 2 * i) \/ (\E i \in Half : j = 2 * i + 1)
    <3>1. j \div 2 \in Half /\ (j = 2 * (j \div 2) \/ j = 2 * (j \div 2) + 1)
      BY SMT DEF Half, HALF, Index
    <3> QED
      BY <3>1
  <2> QED
    BY <2>1, <2>2, <2>3
<1> QED
  BY <1>1, <1>4, <1>5, <1>w, Zenon DEF Holding

LEMMA HoldingWiden ==
  ASSUME NEW acc, NEW scale \in Int, NEW t, NEW m \in 0 .. 3, Holding(acc, scale, t, m)
  PROVE  Holding(acc, scale, t, m + 1)
<1>s. PICK s : Matches(acc, s) /\ Gathered(s, scale, t, m)
  BY DEF Holding
<1>1. Gathered(s, scale, t, m + 1)
  BY <1>s, LimitWiden DEF Gathered
<1> QED
  BY <1>s, <1>1 DEF Holding

LEMMA HoldingNoughts ==
  ASSUME NEW scale \in Int
  PROVE  Holding(Noughts, scale, Noughts, 0)
<1>1. \A j \in Index : Noughts[j] = 0
  BY Zenon DEF Noughts
<1>2. 0 \in Int /\ Limit(0, 0) /\ scale * 0 = 0 /\ Congruent(0, 0)
  BY SMT DEF Limit, Congruent, Q
<1>3. ASSUME NEW i \in Half
      PROVE  i \in Index /\ 128 + i \in Index /\ 2 * i \in Index /\ 2 * i + 1 \in Index
  BY SMT DEF Half, HALF, Index
<1>4. Gathered(Noughts, scale, Noughts, 0)
  <2>1. ASSUME NEW i \in Half
        PROVE  /\ Limit(Noughts[i], 0) /\ Noughts[2 * i] \in Int
               /\ Congruent(Noughts[i], scale * Noughts[2 * i])
               /\ Limit(Noughts[128 + i], 0) /\ Noughts[2 * i + 1] \in Int
               /\ Congruent(Noughts[128 + i], scale * Noughts[2 * i + 1])
    <3>1. Noughts[i] = 0 /\ Noughts[128 + i] = 0 /\ Noughts[2 * i] = 0 /\ Noughts[2 * i + 1] = 0
      BY <1>1, <1>3
    <3> QED
      BY <3>1, <1>2
  <2> QED
    BY <2>1, Zenon DEF Gathered
<1> QED
  BY <1>1, <1>2, <1>4, NoughtsMatch DEF Holding

-----------------------------------------------------------------------------
\* A dot product of up to four components, as it is accumulated.
Step(acc, fs, gs, n) == IF n <= Len(fs) THEN DispatchedAccumulate(acc, fs[n], gs[n]) ELSE acc
Steps(fs, gs) == Step(Step(Step(Step(Noughts, fs, gs, 1), fs, gs, 2), fs, gs, 3), fs, gs, 4)

\* accumulated_dot is these steps and a reduction.
LEMMA DotForm ==
  ASSUME NEW fs, NEW gs
  PROVE  DispatchedDot(fs, gs) = DispatchedReduce(Steps(fs, gs))
BY DEF DispatchedDot, Steps, Step, Noughts

\* The residues that it adds up.
PlusTerm(t, p, n) == IF n <= Len(p) THEN With(t, exponent + p[n]) ELSE t
AllTerms(p) == PlusTerm(PlusTerm(PlusTerm(PlusTerm(Noughts, p, 1), p, 2), p, 3), p, 4)

\* The components: the element, repeated, and the elements of p.
Components(fs, gs, p, scale) ==
  /\ exponent \in Nat /\ scale \in Int /\ Len(fs) = Len(p) /\ Len(p) \in Nat
  /\ \A n \in 1 .. Len(p) :
       /\ p[n] \in Nat /\ exponent + p[n] \in Nat
       /\ HatOf(fs[n], scale, exponent) /\ HatOf(gs[n], 1, p[n])

\* After n steps the first n products are held.
LEMMA ComponentHeld ==
  ASSUME NEW fs, NEW gs, NEW p, NEW scale, Components(fs, gs, p, scale), NEW acc, NEW t,
         NEW m \in 0 .. 3, Holding(acc, scale, t, m), NEW n, n = m + 1
  PROVE  Holding(Step(acc, fs, gs, n), scale, PlusTerm(t, p, n), n)
<1>1. scale \in Int /\ exponent \in Nat /\ Len(fs) = Len(p) /\ Len(p) \in Nat
  BY DEF Components
<1>2. CASE n <= Len(p)
  <2>1. n \in 1 .. Len(p)
    BY <1>1, <1>2, SMT
  <2>2. p[n] \in Nat /\ HatOf(fs[n], scale, exponent) /\ HatOf(gs[n], 1, p[n])
    BY <2>1 DEF Components
  <2>f. PICK f : f = fs[n] /\ HatOf(f, scale, exponent)
    BY <2>2
  <2>d. PICK d \in Nat : d = p[n]
    BY <2>2
  <2>g. PICK g : g = gs[n] /\ HatOf(g, 1, d)
    BY <2>2, <2>d
  <2>3. Holding(DispatchedAccumulate(acc, f, g), scale, With(t, exponent + d), m + 1)
    BY <1>1, <2>f, <2>g, HoldingStep, Zenon
  <2> QED
    BY <1>1, <1>2, <2>3, <2>f, <2>d, <2>g DEF Step, PlusTerm
<1>3. CASE ~(n <= Len(p))
  BY <1>1, <1>3, HoldingWiden DEF Step, PlusTerm
<1> QED
  BY <1>2, <1>3

\* After all four, all of them.
LEMMA StepsHeld ==
  ASSUME NEW fs, NEW gs, NEW p, NEW scale, Components(fs, gs, p, scale)
  PROVE  Holding(Steps(fs, gs), scale, AllTerms(p), 4)
<1>0. /\ 0 \in 0 .. 3 /\ 1 \in 0 .. 3 /\ 2 \in 0 .. 3 /\ 3 \in 0 .. 3
      /\ 1 = 0 + 1 /\ 2 = 1 + 1 /\ 3 = 2 + 1 /\ 4 = 3 + 1 /\ scale \in Int
  BY SMT DEF Components
<1>1. Holding(Noughts, scale, Noughts, 0)
  BY <1>0, HoldingNoughts
<1>a. PICK a, u : a = Step(Noughts, fs, gs, 1) /\ u = PlusTerm(Noughts, p, 1)
  BY Zenon
<1>2. Holding(a, scale, u, 1)
  BY <1>0, <1>1, <1>a, ComponentHeld
<1>b. PICK b, v : b = Step(a, fs, gs, 2) /\ v = PlusTerm(u, p, 2)
  BY Zenon
<1>3. Holding(b, scale, v, 2)
  BY <1>0, <1>2, <1>b, ComponentHeld
<1>c. PICK c, w : c = Step(b, fs, gs, 3) /\ w = PlusTerm(v, p, 3)
  BY Zenon
<1>4. Holding(c, scale, w, 3)
  BY <1>0, <1>3, <1>c, ComponentHeld
<1>5. Holding(Step(c, fs, gs, 4), scale, PlusTerm(w, p, 4), 4)
  BY <1>0, <1>4, ComponentHeld
<1> QED
  BY <1>5, <1>a, <1>b, <1>c DEF Steps, AllTerms

\* Its result.
LEMMA DotClass ==
  ASSUME NEW fs, NEW gs, NEW p, NEW scale, Components(fs, gs, p, scale), NEW i \in Half,
         NEW t, t = AllTerms(p), NEW h, h = DispatchedDot(fs, gs)
  PROVE  /\ Entry(h[i]) /\ t[2 * i] \in Int /\ Congruent(h[i], (R_INV * scale) * t[2 * i])
         /\ Entry(h[128 + i]) /\ t[2 * i + 1] \in Int
         /\ Congruent(h[128 + i], (R_INV * scale) * t[2 * i + 1])
<1>a. PICK acc : acc = Steps(fs, gs)
  BY Zenon
<1>1. h = DispatchedReduce(acc)
  BY <1>a, DotForm
<1>2. Holding(acc, scale, t, 4)
  BY <1>a, StepsHeld
<1>s. PICK s : Matches(acc, s) /\ Gathered(s, scale, t, 4)
  BY <1>2 DEF Holding
<1>3. ASSUME NEW y, Limit(y, 4) PROVE Moderate(y)
  BY <1>3, SMT DEF Limit, Moderate
<1>4. ASSUME NEW k \in Half
      PROVE  Moderate(s[k]) /\ Moderate(s[128 + k])
  <2>1. Limit(s[k], 4) /\ Limit(s[128 + k], 4)
    BY <1>s, Zenon DEF Gathered
  <2> QED
    BY <2>1, <1>3
<1>5. ASSUME NEW j \in Index PROVE Reducible(s[j])
  <2>1. CASE j \in Half
    BY <2>1, <1>4, ModerateReducible
  <2>2. CASE \E k \in Half : j = 128 + k
    <3>1. PICK k \in Half : j = 128 + k
      BY <2>2
    <3>2. Moderate(s[j])
      BY <3>1, <1>4
    <3> QED
      BY <3>2, ModerateReducible
  <2> QED
    BY <2>1, <2>2, InHalves
<1>6. ASSUME NEW j \in Index PROVE h[j] = ReducedSum(s[j])
  BY <1>1, <1>5, <1>s, ReduceMatches, ReduceForm
<1>7. ASSUME NEW y, Moderate(y), NEW r, r = ReducedSum(y), NEW u \in Int, Congruent(y, scale * u)
      PROVE  Entry(r) /\ Congruent(r, (R_INV * scale) * u)
  <2>0. scale \in Int /\ R_INV \in Int /\ y \in Int
    <3>1. scale \in Int
      BY DEF Components
    <3>2. R_INV \in Int
      BY SMT DEF R_INV
    <3>3. y \in Int
      BY <1>7, ModerateReducible, Zenon DEF Reducible
    <3> QED
      BY <3>1, <3>2, <3>3
  <2>1. Entry(r) /\ Congruent(r, R_INV * y) /\ r \in Int
    BY <1>7, ReducedClass DEF Entry
  <2>v. PICK v \in Int : v = scale * u
    BY <2>0, SMT
  <2>n. PICK n \in Int : n = R_INV
    BY <2>0
  <2>2. Congruent(n * y, n * v)
    BY <1>7, <2>0, <2>v, ClassProduct, ClassOfItself
  <2>3. n * y \in Int /\ n * v \in Int /\ n * v = (n * scale) * u
    BY <2>0, <2>v, SMT
  <2>4. Congruent(r, n * v)
    BY <2>1, <2>2, <2>3, <2>n, <2>0, ClassOn
  <2> QED
    BY <2>1, <2>3, <2>4, <2>n
<1>8. i \in Index /\ 128 + i \in Index
  BY SMT DEF Half, HALF, Index
<1>9. /\ t[2 * i] \in Int /\ Congruent(s[i], scale * t[2 * i])
      /\ t[2 * i + 1] \in Int /\ Congruent(s[128 + i], scale * t[2 * i + 1])
  BY <1>s, Zenon DEF Gathered
<1>10. Entry(h[i]) /\ Congruent(h[i], (R_INV * scale) * t[2 * i])
  BY <1>4, <1>6, <1>7, <1>8, <1>9
<1>11. Entry(h[128 + i]) /\ Congruent(h[128 + i], (R_INV * scale) * t[2 * i + 1])
  BY <1>4, <1>6, <1>7, <1>8, <1>9
<1> QED
  BY <1>9, <1>10, <1>11

-----------------------------------------------------------------------------
\* The i-th product with a monomial of p, or nothing.
TermOf(p, i, n, j) == IF i <= Len(p) THEN Residue(exponent + p[i], n, j) ELSE 0

LEMMA PlusTermForm ==
  ASSUME NEW t, NEW p, NEW n, NEW j \in Index, NEW a \in Int, t[j] = a
  PROVE  PlusTerm(t, p, n)[j] = a + TermOf(p, n, 7, j)
<1>1. CASE n <= Len(p)
  <2>1. With(t, exponent + p[n])[j] = t[j] + Residue(exponent + p[n], 7, j)
    BY Zenon DEF With
  <2> QED
    BY <1>1, <2>1 DEF PlusTerm, TermOf
<1>2. CASE ~(n <= Len(p))
  <2>1. a + 0 = a
    BY SMT
  <2> QED
    BY <1>2, <2>1 DEF PlusTerm, TermOf
<1> QED
  BY <1>1, <1>2

\* A place is the even or the odd one of its pair.
LEMMA PlaceOfPair ==
  ASSUME NEW j \in Index
  PROVE  \E i \in Half : j = 2 * i \/ j = 2 * i + 1
<1>1. j \div 2 \in Half /\ (j = 2 * (j \div 2) \/ j = 2 * (j \div 2) + 1)
  BY SMT DEF Half, HALF, Index
<1> QED
  BY <1>1

LEMMA ResidueNumber ==
  ASSUME NEW e \in Nat, NEW j \in Index
  PROVE  Residue(e, 7, j) \in Int
<1>1. PICK i \in Half : j = 2 * i \/ j = 2 * i + 1
  BY PlaceOfPair
<1>2. Residue(e, 7, 2 * i) \in Int /\ Residue(e, 7, 2 * i + 1) \in Int
  BY ResidueType
<1> QED
  BY <1>1, <1>2

LEMMA TermNumber ==
  ASSUME NEW p, \A n \in 1 .. Len(p) : exponent + p[n] \in Nat, Len(p) \in Nat,
         NEW i \in 1 .. 4, NEW j \in Index
  PROVE  TermOf(p, i, 7, j) \in Int
<1>1. CASE i <= Len(p)
  <2>1. i \in 1 .. Len(p)
    BY <1>1, SMT
  <2>e. PICK e \in Nat : e = exponent + p[i]
    BY <2>1
  <2>2. Residue(e, 7, j) \in Int
    BY ResidueNumber
  <2> QED
    BY <1>1, <2>e, <2>2 DEF TermOf
<1>2. CASE ~(i <= Len(p))
  BY <1>2 DEF TermOf
<1> QED
  BY <1>1, <1>2

\* The held sum is that of the four terms.
LEMMA AllTermsForm ==
  ASSUME NEW p, \A n \in 1 .. Len(p) : exponent + p[n] \in Nat, Len(p) \in Nat, NEW j \in Index
  PROVE  AllTerms(p)[j] = TermOf(p, 1, 7, j) + TermOf(p, 2, 7, j) + TermOf(p, 3, 7, j) + TermOf(p, 4, 7, j)
<1>0. Noughts[j] = 0 /\ 0 \in Int /\ 1 \in 1 .. 4 /\ 2 \in 1 .. 4 /\ 3 \in 1 .. 4 /\ 4 \in 1 .. 4
  BY DEF Noughts
<1>a. PICK a \in Int : a = TermOf(p, 1, 7, j)
  BY <1>0, TermNumber
<1>b. PICK b \in Int : b = TermOf(p, 2, 7, j)
  BY <1>0, TermNumber
<1>c. PICK c \in Int : c = TermOf(p, 3, 7, j)
  BY <1>0, TermNumber
<1>d. PICK d \in Int : d = TermOf(p, 4, 7, j)
  BY <1>0, TermNumber
<1>u. PICK u : u = PlusTerm(Noughts, p, 1)
  BY Zenon
<1>1. u[j] = a
  <2>1. u[j] = 0 + a
    BY <1>0, <1>a, <1>u, PlusTermForm
  <2> QED
    BY <2>1, SMT
<1>v. PICK v : v = PlusTerm(u, p, 2)
  BY Zenon
<1>2. v[j] = a + b
  BY <1>1, <1>b, <1>v, PlusTermForm
<1>m. PICK m \in Int : m = a + b
  BY SMT
<1>w. PICK w : w = PlusTerm(v, p, 3)
  BY Zenon
<1>3. w[j] = m + c
  BY <1>2, <1>m, <1>c, <1>w, PlusTermForm
<1>n. PICK n \in Int : n = m + c
  BY SMT
<1>4. PlusTerm(w, p, 4)[j] = n + d
  BY <1>3, <1>n, <1>d, PlusTermForm
<1>5. AllTerms(p) = PlusTerm(w, p, 4)
  BY <1>u, <1>v, <1>w DEF AllTerms
<1> QED
  BY <1>4, <1>5, <1>n, <1>m, <1>a, <1>b, <1>c, <1>d

\* The places of an unpacked element.
LEMMA UnpackForm ==
  ASSUME NEW h, NEW i \in Half
  PROVE  Unpack(h)[2 * i] = h[i] /\ Unpack(h)[2 * i + 1] = h[128 + i]
<1>1. /\ 2 * i \in Index /\ 2 * i + 1 \in Index
      /\ ((2 * i) % 2) * HALF + (2 * i) \div 2 = i
      /\ ((2 * i + 1) % 2) * HALF + (2 * i + 1) \div 2 = 128 + i
  BY SMT DEF Index, Half, HALF
<1>2. Unpack(h)[2 * i] = h[((2 * i) % 2) * HALF + (2 * i) \div 2]
  BY <1>1, Zenon DEF Unpack
<1>3. Unpack(h)[2 * i + 1] = h[((2 * i + 1) % 2) * HALF + (2 * i + 1) \div 2]
  BY <1>1, Zenon DEF Unpack
<1> QED
  BY <1>1, <1>2, <1>3

\* What multiply forms is an i16, and again a factor.
LEMMA EntryWord ==
  ASSUME NEW a, Entry(a)
  PROVE  a \in Int16 /\ a \in Int /\ Inside(a, 3994)
<1>1. a \in Int /\ -3994 <= a /\ a <= 3994
  BY DEF Entry
<1>2. Inside(a, 3994)
  BY <1>1, SMT DEF Inside
<1>3. a \in Int16
  BY <1>1, SMT DEF Int16
<1> QED
  BY <1>1, <1>2, <1>3

\* A dot product, unpacked, is the sum of the products times R^-1.
LEMMA DotCarries ==
  ASSUME NEW fs, NEW gs, NEW p, NEW scale, Components(fs, gs, p, scale), NEW j \in Index,
         NEW h, h = DispatchedDot(fs, gs)
  PROVE  /\ Entry(h[j]) /\ Entry(Unpack(h)[j])
         /\ Congruent(Unpack(h)[j], (R_INV * scale) * (TermOf(p, 1, 7, j) + TermOf(p, 2, 7, j) + TermOf(p, 3, 7, j) + TermOf(p, 4, 7, j)))
<1>t. PICK t : t = AllTerms(p)
  BY Zenon
<1>1. (\A n \in 1 .. Len(p) : exponent + p[n] \in Nat) /\ Len(p) \in Nat
  BY DEF Components
<1>2. t[j] = TermOf(p, 1, 7, j) + TermOf(p, 2, 7, j) + TermOf(p, 3, 7, j) + TermOf(p, 4, 7, j)
  BY <1>1, <1>t, AllTermsForm, Zenon
<1>3. ASSUME NEW i \in Half
      PROVE  /\ Entry(h[i]) /\ Congruent(h[i], (R_INV * scale) * t[2 * i])
             /\ Entry(h[128 + i]) /\ Congruent(h[128 + i], (R_INV * scale) * t[2 * i + 1])
             /\ Unpack(h)[2 * i] = h[i] /\ Unpack(h)[2 * i + 1] = h[128 + i]
  BY <1>t, DotClass, UnpackForm
<1>4. Entry(h[j])
  <2>1. CASE j \in Half
    BY <2>1, <1>3
  <2>2. CASE \E i \in Half : j = 128 + i
    <3>1. PICK i \in Half : j = 128 + i
      BY <2>2
    <3>2. Entry(h[128 + i])
      BY <1>3
    <3> QED
      BY <3>1, <3>2
  <2> QED
    BY <2>1, <2>2, InHalves
<1>5. Entry(Unpack(h)[j]) /\ Congruent(Unpack(h)[j], (R_INV * scale) * t[j])
  <2>1. PICK i \in Half : j = 2 * i \/ j = 2 * i + 1
    BY PlaceOfPair
  <2>2. CASE j = 2 * i
    BY <2>2, <1>3
  <2>3. CASE j = 2 * i + 1
    BY <2>3, <1>3
  <2> QED
    BY <2>1, <2>2, <2>3
<1> QED
  BY <1>2, <1>4, <1>5

-----------------------------------------------------------------------------
\* multiply, modulo q.
LEMMA EntriesAdd ==
  ASSUME NEW a, NEW b, Entry(a), Entry(b)
  PROVE  Add(a, b) = a + b /\ a \in Int /\ b \in Int /\ a + b \in Int16
<1>1. a \in Int /\ b \in Int /\ -7988 <= a + b /\ a + b <= 7988
  BY SMT DEF Entry
<1>s. PICK s \in Int : s = a + b
  BY <1>1, SMT
<1>2. s \in Int16
  BY <1>1, <1>s, SMT DEF Int16
<1>3. Wrap16(s) = s
  BY <1>2, WrapInside
<1> QED
  BY <1>1, <1>2, <1>3, <1>s DEF Add

LEMMA EntryProduct ==
  ASSUME NEW a, NEW b, Entry(a), Entry(b)
  PROVE  Moderate(a * b) /\ a \in Int /\ b \in Int
<1>1. a \in Int /\ b \in Int /\ -3994 <= a /\ a <= 3994 /\ -3994 <= b /\ b <= 3994
  BY SMT DEF Entry
<1>u. PICK u \in Int : u = 3994 - a /\ u >= 0 /\ u <= 7988
  BY <1>1, SMT
<1>v. PICK v \in Int : v = 3994 - b /\ v >= 0 /\ v <= 7988
  BY <1>1, SMT
<1>2. 0 <= u * v /\ u * v <= 7988 * 7988 /\ u * v \in Int
  <2>1. 0 <= u * v /\ u * v <= 7988 * v
    BY <1>u, <1>v, SMT
  <2> QED
    BY <2>1, <1>u, <1>v, SMT
<1>3. u * v = 3994 * 3994 - 3994 * a - 3994 * b + a * b /\ a * b \in Int
  BY <1>1, <1>u, <1>v, SMT
<1>4. -60000000 <= a * b /\ a * b <= 60000000
  BY <1>1, <1>2, <1>3, SMT
<1> QED
  BY <1>1, <1>3, <1>4, SMT DEF Moderate

-----------------------------------------------------------------------------
\* The product without a cache.
LEMMA MultipliedPair ==
  ASSUME NEW i \in Half, NEW z, z = GAMMA_RAW[i],
         NEW f0, NEW f1, NEW g0, NEW g1, Centred(f0), Centred(f1), Centred(g0), Centred(g1),
         NEW s \in Int, NEW w0 \in Int, NEW w1 \in Int,
         NEW c, c = Mul(g1, GAMMA_MONT[i]),
         Congruent(f0 * g0 + f1 * c, s * w0), Congruent(f0 * g1 + f1 * g0, s * w1)
  PROVE  /\ Congruent(Add(Mul(f0, g0), Mul(Mul(f1, g1), GAMMA_MONT[i])), (R_INV * s) * w0)
         /\ Congruent(Add(Mul(f0, g1), Mul(f1, g0)), (R_INV * s) * w1)
<1>n. PICK n \in Int : n = R_INV
  BY SMT DEF R_INV
<1>o. PICK o : o = GAMMA_MONT[i]
  BY Zenon
<1>1. z \in Int /\ Entry(o) /\ Congruent(n * o, z) /\ o \in Int
  BY <1>o, <1>n, GammaClass, EntryWord
<1>2. Congruent(c, g1 * z) /\ Entry(c) /\ c \in Int
  BY CacheClass, EntryWord
<1>3. f0 \in Int /\ f1 \in Int /\ g0 \in Int /\ g1 \in Int
  BY DEF Centred
<1>4. Moderate(f0 * g0) /\ Moderate(f1 * g1) /\ Moderate(f0 * g1) /\ Moderate(f1 * g0)
  BY BothCentred
<1>a. PICK a : a = Mul(f0, g0)
  BY Zenon
<1>b. PICK b : b = Mul(f1, g1)
  BY Zenon
<1>d. PICK d : d = Mul(b, o)
  BY Zenon
<1>e. PICK e : e = Mul(f0, g1)
  BY Zenon
<1>h. PICK h : h = Mul(f1, g0)
  BY Zenon
<1>5. Entry(a) /\ Congruent(a, n * (f0 * g0)) /\ a \in Int
  BY <1>3, <1>4, <1>a, <1>n, MulClass, EntryWord
<1>6. Entry(b) /\ Congruent(b, n * (f1 * g1)) /\ b \in Int
  BY <1>3, <1>4, <1>b, <1>n, MulClass, EntryWord
<1>7. Entry(e) /\ Congruent(e, n * (f0 * g1)) /\ e \in Int
  BY <1>3, <1>4, <1>e, <1>n, MulClass, EntryWord
<1>8. Entry(h) /\ Congruent(h, n * (f1 * g0)) /\ h \in Int
  BY <1>3, <1>4, <1>h, <1>n, MulClass, EntryWord
<1>9. Entry(d) /\ Congruent(d, n * (b * o)) /\ d \in Int
  <2>1. Moderate(b * o)
    BY <1>1, <1>6, EntryProduct
  <2> QED
    BY <2>1, <1>1, <1>6, <1>d, <1>n, MulClass, EntryWord
<1>10. Congruent(d, n * (f1 * (g1 * z)))
  <2>u. PICK u \in Int : u = n * o
    BY <1>1, SMT
  <2>v. PICK v \in Int : v = n * (f1 * g1)
    BY <1>3, SMT
  <2>1. Congruent(b * u, v * z)
    BY <1>1, <1>6, <2>u, <2>v, ClassProduct
  <2>2. n * (b * o) = b * u
    BY <1>1, <1>6, <2>u, SMT
  <2>3. v * z = n * (f1 * (g1 * z))
    BY <1>1, <1>3, <2>v, SMT
  <2>4. b * u \in Int /\ v * z \in Int
    BY <1>1, <1>6, SMT
  <2>5. Congruent(d, b * u)
    BY <1>9, <2>2
  <2>6. Congruent(d, v * z)
    BY <2>1, <2>4, <2>5, <1>9, ClassOn
  <2> QED
    BY <2>3, <2>6
<1>t. PICK t \in Int : t = g1 * z
  BY <1>1, <1>3, SMT
<1>11. Congruent(a + d, n * (f0 * g0 + f1 * t))
  <2>1. n * (f0 * g0) \in Int /\ n * (f1 * t) \in Int
        /\ n * (f0 * g0) + n * (f1 * t) = n * (f0 * g0 + f1 * t)
    BY <1>3, SMT
  <2>u. PICK u \in Int : u = n * (f0 * g0)
    BY <2>1
  <2>v. PICK v \in Int : v = n * (f1 * t)
    BY <2>1
  <2>2. Congruent(d, v)
    BY <1>10, <1>t, <2>v
  <2>3. Congruent(a + d, u + v)
    BY <1>5, <1>9, <2>2, <2>u, ClassSum
  <2> QED
    BY <2>1, <2>3, <2>u, <2>v
<1>12. Congruent(e + h, n * (f0 * g1 + f1 * g0))
  <2>1. n * (f0 * g1) \in Int /\ n * (f1 * g0) \in Int
        /\ n * (f0 * g1) + n * (f1 * g0) = n * (f0 * g1 + f1 * g0)
    BY <1>3, SMT
  <2>u. PICK u \in Int : u = n * (f0 * g1)
    BY <2>1
  <2>v. PICK v \in Int : v = n * (f1 * g0)
    BY <2>1
  <2>3. Congruent(e + h, u + v)
    BY <1>7, <1>8, <2>u, <2>v, ClassSum
  <2> QED
    BY <2>1, <2>3, <2>u, <2>v
<1>13. Congruent(f0 * g0 + f1 * t, s * w0)
  <2>1. Congruent(t, c)
    BY <1>2, <1>t, ClassBack
  <2>2. Congruent(f0 * g0 + f1 * t, f0 * g0 + f1 * c)
    BY <2>1, <1>2, <1>3, SumOfTwoProducts, ClassOfItself
  <2>3. f0 * g0 + f1 * t \in Int /\ f0 * g0 + f1 * c \in Int /\ s * w0 \in Int
    BY <1>2, <1>3, SMT
  <2> QED
    BY <2>2, <2>3, ClassOn
<1>14. ASSUME NEW y \in Int, NEW m \in Int, NEW w \in Int, Congruent(y, n * m), Congruent(m, s * w)
       PROVE  Congruent(y, (R_INV * s) * w)
  <2>1. n * m \in Int /\ s * w \in Int /\ n * (s * w) = (n * s) * w /\ n * (s * w) \in Int
    BY SMT
  <2>v. PICK v \in Int : v = s * w
    BY <2>1
  <2>2. Congruent(n * m, n * v)
    BY <1>14, <2>v, ClassProduct, ClassOfItself
  <2>3. Congruent(y, n * v)
    BY <1>14, <2>1, <2>2, <2>v, ClassOn
  <2> QED
    BY <2>1, <2>3, <2>v, <1>n
<1>15. /\ Add(a, d) = a + d /\ Add(e, h) = e + h /\ a + d \in Int /\ e + h \in Int
       /\ f0 * g0 + f1 * t \in Int /\ f0 * g1 + f1 * g0 \in Int
  <2>1. Add(a, d) = a + d
    BY <1>5, <1>9, EntriesAdd
  <2>2. Add(e, h) = e + h
    BY <1>7, <1>8, EntriesAdd
  <2>3. /\ a + d \in Int /\ e + h \in Int
        /\ f0 * g0 + f1 * t \in Int /\ f0 * g1 + f1 * g0 \in Int
    BY <1>3, <1>5, <1>7, <1>8, <1>9, SMT
  <2> QED
    BY <2>1, <2>2, <2>3
<1>16. Congruent(a + d, (R_INV * s) * w0)
  BY <1>11, <1>13, <1>14, <1>15
<1>17. Congruent(e + h, (R_INV * s) * w1)
  BY <1>12, <1>14, <1>15
<1> QED
  BY <1>15, <1>16, <1>17, <1>a, <1>b, <1>d, <1>e, <1>h, <1>o

\* multiply gives the residue of the product, by 1/R.
LEMMA MultiplyClass ==
  ASSUME NEW f, NEW g, NEW e \in Nat, NEW d \in Nat, NEW scale \in Int,
         HatOf(f, scale, e), HatOf(g, 1, d), NEW i \in Half
  PROVE  /\ Congruent(Multiply(f, g)[i], (R_INV * scale) * Residue(e + d, 7, 2 * i))
         /\ Congruent(Multiply(f, g)[128 + i], (R_INV * scale) * Residue(e + d, 7, 2 * i + 1))
<1>u0. PICK u0 \in Int : u0 = Residue(e, 7, 2 * i)
  BY ResidueType
<1>u1. PICK u1 \in Int : u1 = Residue(e, 7, 2 * i + 1)
  BY ResidueType
<1>v0. PICK v0 \in Int : v0 = Residue(d, 7, 2 * i)
  BY ResidueType
<1>v1. PICK v1 \in Int : v1 = Residue(d, 7, 2 * i + 1)
  BY ResidueType
<1>n. PICK n \in Nat : n = e + d
  BY SMT
<1>w0. PICK w0 \in Int : w0 = Residue(n, 7, 2 * i)
  BY ResidueType
<1>w1. PICK w1 \in Int : w1 = Residue(n, 7, 2 * i + 1)
  BY ResidueType
<1>z. PICK z : z = GAMMA_RAW[i]
  BY Zenon
<1>1. PairProduct(u0, u1, v0, v1, z, w0, w1)
  BY ResiduesMultiply, <1>u0, <1>u1, <1>v0, <1>v1, <1>n, <1>w0, <1>w1, <1>z
<1>f0. PICK f0 : f0 = f[i] /\ Centred(f0) /\ Congruent(f0, scale * u0)
  BY <1>u0 DEF HatOf
<1>f1. PICK f1 : f1 = f[128 + i] /\ Centred(f1) /\ Congruent(f1, scale * u1)
  BY <1>u1 DEF HatOf
<1>2. 1 * v0 = v0 /\ 1 * v1 = v1
  BY SMT
<1>g0. PICK g0 : g0 = g[i] /\ Centred(g0) /\ Congruent(g0, v0)
  BY <1>v0, <1>2 DEF HatOf
<1>g1. PICK g1 : g1 = g[128 + i] /\ Centred(g1) /\ Congruent(g1, v1)
  BY <1>v1, <1>2 DEF HatOf
<1>c. PICK c : c = Mul(g1, GAMMA_MONT[i])
  BY Zenon
<1>k. /\ Centred(f0) /\ Centred(f1) /\ Centred(g0) /\ Centred(g1)
      /\ Congruent(f0, scale * u0) /\ Congruent(f1, scale * u1) /\ Congruent(g0, v0) /\ Congruent(g1, v1)
  BY <1>f0, <1>f1, <1>g0, <1>g1
<1>3. /\ Congruent(f0 * g0 + f1 * c, scale * w0) /\ Congruent(f0 * g1 + f1 * g0, scale * w1)
  BY <1>1, <1>z, <1>k, <1>c, GainClass, Zenon
<1>4. /\ Congruent(Add(Mul(f0, g0), Mul(Mul(f1, g1), GAMMA_MONT[i])), (R_INV * scale) * w0)
      /\ Congruent(Add(Mul(f0, g1), Mul(f1, g0)), (R_INV * scale) * w1)
  BY <1>3, <1>z, <1>k, <1>c, MultipliedPair, Zenon
<1>5. /\ EvenProduct(f, g, i) = Add(Mul(f0, g0), Mul(Mul(f1, g1), GAMMA_MONT[i]))
      /\ OddProduct(f, g, i) = Add(Mul(f0, g1), Mul(f1, g0))
  BY <1>f0, <1>f1, <1>g0, <1>g1 DEF EvenProduct, OddProduct
<1> QED
  BY <1>4, <1>5, <1>w0, <1>w1, <1>n, MultiplyForm

\* It is a dot product of one component, modulo q.
LEMMA OneComponent ==
  ASSUME NEW f, NEW g, NEW d \in Index, NEW scale \in Int, exponent \in Nat,
         HatOf(f, scale, exponent), HatOf(g, 1, d)
  PROVE  /\ Components(<<f>>, <<g>>, <<d>>, scale)
         /\ \A j \in Index : TermOf(<<d>>, 1, 7, j) = Residue(exponent + d, 7, j)
                             /\ TermOf(<<d>>, 2, 7, j) = 0 /\ TermOf(<<d>>, 3, 7, j) = 0
                             /\ TermOf(<<d>>, 4, 7, j) = 0
<1>1. /\ Len(<<f>>) = 1 /\ Len(<<g>>) = 1 /\ Len(<<d>>) = 1 /\ <<f>>[1] = f /\ <<g>>[1] = g /\ <<d>>[1] = d
  BY SMT
<1>2. d \in Nat /\ exponent + d \in Nat /\ 1 \in Nat /\ 1 .. 1 = {1} /\ 1 <= 1 /\ ~(2 <= 1) /\ ~(3 <= 1) /\ ~(4 <= 1)
  BY SMT DEF Index
<1>3. Components(<<f>>, <<g>>, <<d>>, scale)
  BY <1>1, <1>2 DEF Components
<1> QED
  BY <1>1, <1>2, <1>3 DEF TermOf

\* With the cache and without, the product is the same modulo q.
LEMMA CachedIsProduct ==
  ASSUME NEW f, NEW g, NEW d \in Index, NEW scale \in Int, exponent \in Nat,
         HatOf(f, scale, exponent), HatOf(g, 1, d), NEW j \in Index
  PROVE  Congruent(DispatchedDot(<<f>>, <<g>>)[j], Multiply(f, g)[j])
<1>h. PICK h : h = DispatchedDot(<<f>>, <<g>>)
  BY Zenon
<1>t. PICK t : t = AllTerms(<<d>>)
  BY Zenon
<1>n. PICK n \in Nat : n = exponent + d
  BY SMT DEF Index
<1>c. Components(<<f>>, <<g>>, <<d>>, scale)
  BY OneComponent
<1>y. PICK y \in Int : y = R_INV * scale
  BY SMT DEF R_INV
<1>m. PICK m : m = Multiply(f, g)
  BY Zenon
<1>0. d \in Nat
  BY SMT DEF Index
<1>1. ASSUME NEW i \in Index PROVE t[i] = Residue(n, 7, i)
  <2>1. /\ TermOf(<<d>>, 1, 7, i) = Residue(n, 7, i)
        /\ TermOf(<<d>>, 2, 7, i) = 0 /\ TermOf(<<d>>, 3, 7, i) = 0 /\ TermOf(<<d>>, 4, 7, i) = 0
    BY <1>n, OneComponent
  <2>2. PICK u \in Int : u = Residue(n, 7, i)
    BY ResidueNumber
  <2>3. (\A k \in 1 .. Len(<<d>>) : exponent + <<d>>[k] \in Nat) /\ Len(<<d>>) \in Nat
    BY <1>c DEF Components
  <2>4. t[i] = TermOf(<<d>>, 1, 7, i) + TermOf(<<d>>, 2, 7, i) + TermOf(<<d>>, 3, 7, i) + TermOf(<<d>>, 4, 7, i)
    BY <2>3, <1>t, AllTermsForm, Zenon
  <2>5. t[i] = u + 0 + 0 + 0
    BY <2>1, <2>2, <2>4
  <2> QED
    BY <2>2, <2>5, SMT
<1>2. ASSUME NEW i \in Half
      PROVE  Congruent(h[i], m[i]) /\ Congruent(h[128 + i], m[128 + i])
  <2>1. 2 * i \in Index /\ 2 * i + 1 \in Index
    BY SMT DEF Half, HALF, Index
  <2>u. PICK u \in Int : u = Residue(n, 7, 2 * i) /\ u = t[2 * i]
    BY <2>1, <1>1, ResidueType
  <2>v. PICK v \in Int : v = Residue(n, 7, 2 * i + 1) /\ v = t[2 * i + 1]
    BY <2>1, <1>1, ResidueType
  <2>2. Entry(h[i]) /\ Congruent(h[i], y * u) /\ Entry(h[128 + i]) /\ Congruent(h[128 + i], y * v)
    BY <1>c, <1>h, <1>t, <1>y, <2>u, <2>v, DotClass
  <2>3. Congruent(m[i], y * u) /\ Congruent(m[128 + i], y * v)
    BY <1>0, <1>n, <1>y, <1>m, <2>u, <2>v, MultiplyClass
  <2>4. m[i] \in Int /\ m[128 + i] \in Int
    <3>1. ASSUME NEW a \in Int, NEW b \in Int PROVE Add(a, b) \in Int
      BY SMT DEF Add, Wrap16
    <3>2. f[i] \in Int /\ f[128 + i] \in Int /\ g[i] \in Int /\ g[128 + i] \in Int
      BY DEF HatOf, Centred
    <3>3. /\ Mul(f[i], g[i]) \in Int /\ Mul(f[128 + i], g[128 + i]) \in Int
          /\ Mul(f[i], g[128 + i]) \in Int /\ Mul(f[128 + i], g[i]) \in Int
      <4>p. PICK a \in Int, b \in Int, c \in Int, e \in Int :
              a = f[i] /\ b = f[128 + i] /\ c = g[i] /\ e = g[128 + i]
        BY <3>2
      <4>1. Mul(a, c) \in Int /\ Mul(b, e) \in Int /\ Mul(a, e) \in Int /\ Mul(b, c) \in Int
        BY MulWord
      <4> QED
        BY <4>p, <4>1
    <3>4. Mul(Mul(f[128 + i], g[128 + i]), GAMMA_MONT[i]) \in Int
      BY <3>3, MulWord, GammaWord
    <3> QED
      <4>1. EvenProduct(f, g, i) \in Int
        BY <3>1, <3>3, <3>4, Zenon DEF EvenProduct
      <4>2. OddProduct(f, g, i) \in Int
        BY <3>1, <3>3, Zenon DEF OddProduct
      <4> QED
        BY <1>m, <4>1, <4>2, MultiplyForm, Zenon
  <2>5. y * u \in Int /\ y * v \in Int /\ h[i] \in Int /\ h[128 + i] \in Int
    BY <2>2, SMT DEF Entry
  <2>p. PICK p \in Int : p = y * u
    BY <2>5
  <2>q. PICK q \in Int : q = y * v
    BY <2>5
  <2>6. Congruent(p, m[i]) /\ Congruent(q, m[128 + i])
    BY <2>3, <2>4, <2>p, <2>q, ClassBack
  <2>7. Congruent(h[i], m[i])
    BY <2>2, <2>4, <2>5, <2>6, <2>p, ClassOn
  <2>8. Congruent(h[128 + i], m[128 + i])
    BY <2>2, <2>4, <2>5, <2>6, <2>q, ClassOn
  <2> QED
    BY <2>7, <2>8
<1>3. CASE j \in Half
  BY <1>3, <1>2, <1>h, <1>m
<1>4. CASE \E i \in Half : j = 128 + i
  <2>1. PICK i \in Half : j = 128 + i
    BY <1>4
  <2>2. Congruent(h[128 + i], m[128 + i])
    BY <1>2
  <2> QED
    BY <2>1, <2>2, <1>h, <1>m
<1> QED
  BY <1>3, <1>4, InHalves

-----------------------------------------------------------------------------
\* What the run expects is a number, and a scale counts modulo q only.
LEMMA ShapeEnds == LayerShape(6, 2, 64) /\ LayerShape(0, 128, 1)
BY SMT DEF LayerShape

LEMMA ExpectedNumber ==
  ASSUME Operands, NEW n \in 0 .. 7, NEW j \in Index
  PROVE  Expected(n, j) \in Int
<1>1. ASSUME NEW m, NEW len, NEW count, LayerShape(m, len, count)
      PROVE  Expected(m, j) \in Int /\ Expected(m + 1, j) \in Int
  <2>1. CASE IsLow(j, len)
    BY <1>1, <2>1, ExpectedTwisted, Zenon DEF Twisted
  <2>2. CASE ~IsLow(j, len)
    <3>1. PICK i \in Index : i = j - len /\ IsLow(i, len) /\ j = i + len
      BY <1>1, <2>2, PlaceOfHigh
    <3>2. Expected(m, i + len) \in Int /\ Expected(m + 1, i + len) \in Int
      BY <1>1, <3>1, ExpectedTwisted, Zenon DEF Twisted
    <3> QED
      BY <3>1, <3>2
  <2> QED
    BY <2>1, <2>2
<1>2. CASE n \in 0 .. 6
  <2>1. PICK len, count : LayerShape(n, len, count)
    BY <1>2, ShapeOfLayer
  <2> QED
    BY <2>1, <1>1
<1>3. CASE n = 7
  <2>1. Expected(6 + 1, j) \in Int
    BY <1>1, ShapeEnds
  <2>2. 6 + 1 = 7
    BY SMT
  <2> QED
    BY <1>3, <2>1, <2>2
<1>4. n \in 0 .. 6 \/ n = 7
  BY SMT
<1> QED
  BY <1>2, <1>3, <1>4

LEMMA CoefficientNumber == Coefficient \in Int /\ 1 <= Coefficient /\ Coefficient <= 3328
<1>1. Coefficient \in 1 .. Q - 1
  BY RunAssumption
<1> QED
  BY <1>1, ZetaRange

\* A scale may be taken modulo q.
LEMMA ScaleClass ==
  ASSUME NEW c \in Int, NEW e \in Int, NEW y \in Int, NEW k \in Int, NEW m \in Int, Congruent(k, m),
         Congruent(y, (c * k) * e)
  PROVE  Congruent(y, ((c * m) % Q) * e)
<1>k. PICK u \in Int : u = c * k
  BY SMT
<1>m. PICK v \in Int : v = c * m
  BY SMT
<1>1. Congruent(u, v)
  BY <1>k, <1>m, ClassProduct, ClassOfItself
<1>r. PICK w \in Int : w = v % Q
  BY ClassOfRemainder
<1>2. Congruent(v, w)
  BY <1>r, ClassOfRemainder
<1>3. Congruent(u, w)
  BY <1>1, <1>2, ClassOn
<1>4. Congruent(u * e, w * e)
  BY <1>3, ClassProduct, ClassOfItself
<1>5. u * e \in Int /\ w * e \in Int
  BY SMT
<1>6. Congruent(y, u * e)
  BY <1>k
<1> QED
  BY <1>4, <1>5, <1>6, <1>m, <1>r, ClassOn

\* What a layer carries is what the run is to hold.
LEMMA HoldsOfCarries ==
  ASSUME Operands, layer \in 0 .. 7, NEW c, \A j \in Index : c[j] \in Int,
         NEW k \in Int, NEW m \in Int, Congruent(k, m), Carries(c, layer, Coefficient * k)
  PROVE  Holds(c, m)
<1>1. ASSUME NEW j \in Index
      PROVE  Congruent(c[j], ((Coefficient * m) % Q) * Expected(layer, j))
  <2>1. Congruent(c[j], (Coefficient * k) * Expected(layer, j)) /\ c[j] \in Int
    BY DEF Carries
  <2>e. PICK e \in Int : e = Expected(layer, j)
    BY ExpectedNumber
  <2>y. PICK y \in Int : y = c[j]
    BY <2>1
  <2>c. PICK d \in Int : d = Coefficient
    BY CoefficientNumber
  <2>2. Congruent(y, (d * k) * e)
    BY <2>1, <2>c, <2>e, <2>y
  <2>3. Congruent(y, ((d * m) % Q) * e)
    BY <2>2, ScaleClass, Zenon
  <2> QED
    BY <2>3, <2>c, <2>e, <2>y
<1> QED
  BY <1>1 DEF Holds

-----------------------------------------------------------------------------
\* What the layers of ntt_inverse have multiplied by.
Doubled(n) == <<128, 64, 32, 16, 8, 4, 2, 1>>[n + 1]

\* Each layer doubles once more; these are powers of two.
LEMMA DoubledNext ==
  ASSUME NEW n \in 0 .. 6
  PROVE  Doubled(n) = 2 * Doubled(n + 1) /\ Doubled(n + 1) \in Int /\ Doubled(n) \in Int
BY SMT DEF Doubled

LEMMA DoubledPower ==
  ASSUME NEW n \in 0 .. 7
  PROVE  Doubled(n) = 2^(7 - n) /\ Doubled(n) \in Int
<1>1. CASE n = 0
  BY <1>1, SmallPowers, SMT DEF Doubled
<1>2. CASE n = 1
  BY <1>2, SmallPowers, SMT DEF Doubled
<1>3. CASE n = 2
  BY <1>3, SmallPowers, SMT DEF Doubled
<1>4. CASE n = 3
  BY <1>4, SmallPowers, SMT DEF Doubled
<1>5. CASE n = 4
  BY <1>5, SmallPowers, SMT DEF Doubled
<1>6. CASE n = 5
  BY <1>6, SmallPowers, SMT DEF Doubled
<1>7. CASE n = 6
  BY <1>7, SmallPowers, SMT DEF Doubled
<1>8. CASE n = 7
  BY <1>8, SmallPowers, SMT DEF Doubled
<1> QED
  BY <1>1, <1>2, <1>3, <1>4, <1>5, <1>6, <1>7, <1>8, SMT

\* A product has been divided by R once.
LEMMA ProductScaleNumber ==
  /\ ProductScale \in Int /\ R_INV \in Int
  /\ factors = <<>> => ProductScale = 1
  /\ factors # <<>> => ProductScale = R_INV
BY SMT DEF ProductScale, R_INV

\* ntt_inverse's last pass: it takes the 128 off, and R on.
FinalFactor == 243529
FinalScale == IF factors = <<>> THEN MONT_R ELSE 1

\* The last factor, reduced and multiplied in one.
LEMMA ScaledEntry ==
  ASSUME NEW a \in Int16, NEW b, Inside(a, b), b <= 26624, NEW r, r = Mul(a, NTT_INVERSE_SCALE)
  PROVE  r \in Int16 /\ Inside(r, 3328) /\ Congruent(r, FinalFactor * a) /\ r \in Int /\ a \in Int
<1>0. a \in Int /\ -26624 <= a /\ a <= 26624
  BY SMT DEF Int16, Inside
<1>n. PICK n \in Int : n = NTT_INVERSE_SCALE /\ n = 1441
  BY SMT DEF NTT_INVERSE_SCALE
<1>y. PICK y \in Int : y = a * n
  BY <1>0, SMT
<1>1. y = 1441 * a /\ Moderate(y)
  BY <1>0, <1>n, <1>y, SMT DEF Moderate
<1>2. Entry(r) /\ Congruent(r, R_INV * y)
  BY <1>0, <1>1, <1>n, <1>y, MulClass
<1>3. R_INV * y = FinalFactor * a
  BY <1>0, <1>1, SMT DEF R_INV, FinalFactor
<1>4. r \in Int16 /\ r \in Int
  BY <1>2, EntryWord
<1>h. PICK hi \in Int : hi = High(y)
  BY Halved
<1>l. PICK lo \in Nat : lo = Low(y) /\ lo <= 65535
  BY Halved
<1>5. y = hi * 65536 + lo
  BY <1>h, <1>l, Halved
<1>s. PICK s \in Int : s = Shifted(lo) /\ -1664 <= s /\ s <= 1665
  BY <1>l, MontgomeryQuotient
<1>6. r = Wrap16(hi + s)
  BY <1>n, <1>y, <1>h, <1>l, <1>s, ReductionForm DEF Mul
<1>7. -587 <= hi /\ hi <= 586
  BY <1>0, <1>1, <1>5, <1>l, SMT
<1>t. PICK t \in Int : t = hi + s
  BY SMT
<1>8. -3328 <= t /\ t <= 3328
  BY <1>7, <1>s, <1>t, SMT
<1>9. t \in Int16
  BY <1>8, SMT DEF Int16
<1>10. r = t
  BY <1>6, <1>9, <1>t, WrapInside
<1>11. Inside(t, 3328)
  BY <1>8, SMT DEF Inside
<1> QED
  BY <1>0, <1>2, <1>3, <1>4, <1>10, <1>11

-----------------------------------------------------------------------------
\* The parts of the inductive invariant.  In any phase: types, and room in peak.
Shape ==
  /\ backend \in Backends /\ Operands /\ layer \in 0 .. 7
  /\ phase \in {"ntt", "hat", "product", "inverse", "done"}
  /\ \A j \in Index : peak[j] \in Nat /\ Roomy(peak[j])

\* Between the layers of ntt.
Forwards ==
  /\ factors = <<>>
  /\ Fits(coeffs, bound) /\ Under(bound, LayerCap(layer))
  /\ Carries(coeffs, layer, Coefficient)
  /\ layer \in ScalarLayers[backend] .. 6 => next = 2^layer

\* Stored as a TqElement.
AsElement ==
  /\ layer = 7
  /\ Fits(coeffs, bound) /\ Under(bound, 3994)
  /\ Carries(Unpack(coeffs), 7, Coefficient * ProductScale)

\* Between the layers of ntt_inverse.
Backwards ==
  /\ Fits(coeffs, bound) /\ Under(bound, InverseCap(layer))
  /\ Carries(coeffs, layer, Coefficient * (ProductScale * Doubled(layer)))
  /\ next = 2^layer - 1

\* The layers hold the residues within caps that depend on the layer only, and
\* the next zeta is that of the layer: what one layer needs of the one before.
IInv ==
  /\ Shape
  /\ phase = "ntt" => Forwards
  /\ phase = "hat" => AsElement /\ factors = <<>> /\ HatOf(coeffs, Coefficient, exponent)
  /\ phase = "product" => AsElement
  /\ phase = "inverse" => Backwards
  /\ phase = "done" => Fits(coeffs, bound) /\ layer = 0 /\ Holds(coeffs, FinalScale)

-----------------------------------------------------------------------------
\* What fits its bounds is a polynomial of i16.
LEMMA FitsWords ==
  ASSUME NEW c, NEW b, Fits(c, b)
  PROVE  Words(c) /\ \A j \in Index : b[j] \in Nat /\ c[j] \in Int
<1>1. ASSUME NEW a \in Int16 PROVE a \in Int
  BY SMT DEF Int16
<1> QED
  BY <1>1 DEF Fits, Words, Inside

\* What holds of an element holds of one that is the same at each place.
LEMMA SameFits ==
  ASSUME NEW c, NEW b, NEW y, \A j \in Index : c[j] = y[j], Fits(y, b)
  PROVE  Fits(c, b)
BY Zenon DEF Fits

\* What holds of an element holds of one that is the same at each place.
LEMMA SameCarries ==
  ASSUME NEW c, NEW n, NEW scale, NEW y, \A j \in Index : c[j] = y[j], Carries(y, n, scale)
  PROVE  Carries(c, n, scale)
BY Zenon DEF Carries

\* Caps leave room, and the larger of two magnitudes with room has room.
LEMMA CapIsRoomy ==
  ASSUME NEW n \in 0 .. 7, NEW b, \A j \in Index : b[j] \in Nat, Under(b, LayerCap(n))
  PROVE  \A j \in Index : b[j] \in Nat /\ Roomy(b[j])
<1>1. ASSUME NEW a \in Nat, a <= LayerCap(n) PROVE Roomy(a)
  BY <1>1, SMT DEF LayerCap, Roomy
<1> QED
  BY <1>1 DEF Under

LEMMA LargerRoomy ==
  ASSUME NEW p, \A j \in Index : p[j] \in Nat /\ Roomy(p[j]),
         NEW s, \A j \in Index : s[j] \in Nat /\ Roomy(s[j])
  PROVE  \A j \in Index : Larger(p, s)[j] \in Nat /\ Roomy(Larger(p, s)[j])
<1>1. ASSUME NEW j \in Index PROVE Larger(p, s)[j] = p[j] \/ Larger(p, s)[j] = s[j]
  BY DEF Larger
<1> QED
  BY <1>1

LEMMA EverywhereIs ==
  ASSUME NEW b, NEW j \in Index
  PROVE  Everywhere(b)[j] = b
BY Zenon DEF Everywhere

\* Carries is about the run's monomials only.
LEMMA CarriesNext ==
  ASSUME NEW y, NEW n, NEW scale, Carries(y, n, scale), UNCHANGED <<exponent, factors>>,
         NEW m, NEW k, m = n, k = scale
  PROVE  \A j \in Index : Congruent(y[j], k * Expected(m, j)')
<1>1. ASSUME NEW j \in Index PROVE Expected(m, j)' = Expected(n, j)
  BY DEF Expected
<1> QED
  BY <1>1 DEF Carries

-----------------------------------------------------------------------------
\* At the start each place holds its own coefficient.
LEMMA FirstResidue ==
  ASSUME NEW e \in Index, NEW j \in Index
  PROVE  Residue(e, 0, j) = IF j = e THEN 1 ELSE 0
<1>1. 256 \div 2^0 = 256
  BY SmallPowers, SMT
<1>2. j \div 256 = 0 /\ j % 256 = j /\ e % 256 = e /\ e \div 256 = 0
  BY SMT DEF Index
<1>3. Residue(e, 0, j) = ResidueIn(e, Root[0][j \div (256 \div 2^0)], 256 \div 2^0, j % (256 \div 2^0))
  BY Zenon DEF Residue
<1>4. Residue(e, 0, j) = ResidueIn(e, Root[0][0], 256, j)
  BY <1>1, <1>2, <1>3
<1>5. PICK r \in Int : r = Root[0][0]
  <2>1. PICK k : k = Root[0 + 1][2 * 0]
    BY Zenon
  <2>2. 0 \in Int /\ 0 <= 0 /\ 0 <= 1 - 1
    BY SMT
  <2>3. k \in Int /\ Root[0][0] = 2 * k
    BY <2>1, <2>2, ShapeEnds, RootSplit
  <2> QED
    BY <2>3, SMT
<1>6. Power(r * 0) = 1
  <2>1. (r * 0) % 256 = 0
    BY SMT
  <2> QED
    BY <2>1, RootsAssumption DEF Power
<1> QED
  BY <1>2, <1>4, <1>5, <1>6 DEF ResidueIn

\* The invariant holds at the start.
LEMMA InitShape ==
  ASSUME NttInit
  PROVE  Shape /\ exponent \in Index
<1>1. exponent \in Index /\ backend \in Backends
  BY RunAssumption DEF NttInit
<1>2. factors \in Seq(Index)
  <2>1. factors = <<>>
    BY DEF NttInit
  <2> QED
    BY <2>1, SMT
<1>3. exponent \in Nat
  BY <1>1, SMT DEF Index
<1>4. layer \in 0 .. 7 /\ phase = "ntt"
  <2>1. layer = 0 /\ phase = "ntt"
    BY DEF NttInit
  <2> QED
    BY <2>1, SMT
<1>5. ASSUME NEW j \in Index PROVE peak[j] \in Nat /\ Roomy(peak[j])
  <2>1. peak[j] = 0
    BY EverywhereIs DEF NttInit
  <2> QED
    BY <2>1, SMT DEF Roomy
<1> QED
  BY <1>1, <1>2, <1>3, <1>4, <1>5 DEF Shape, Operands

LEMMA InitForwards ==
  ASSUME NttInit
  PROVE  Forwards
<1>0. Shape /\ exponent \in Index
  BY InitShape
<1>k. PICK k \in Int : k = Coefficient /\ 1 <= k /\ k <= 3328
  BY CoefficientNumber
<1>1. ASSUME NEW j \in Index
      PROVE  /\ coeffs[j] = IF j = exponent THEN k ELSE 0
             /\ bound[j] = k
  BY <1>k, EverywhereIs DEF NttInit, Monomial
<1>2. Fits(coeffs, bound)
  <2>1. k \in Int16 /\ 0 \in Int16 /\ Inside(k, k) /\ Inside(0, k)
    BY <1>k, SMT DEF Int16, Inside
  <2> QED
    BY <1>1, <2>1 DEF Fits
<1>3. Under(bound, LayerCap(layer))
  <2>1. layer = 0
    BY DEF NttInit
  <2>2. k <= LayerCap(0)
    BY <1>k, SMT DEF LayerCap
  <2> QED
    BY <1>1, <2>1, <2>2 DEF Under
<1>4. Carries(coeffs, layer, Coefficient)
  <2>1. ASSUME NEW j \in Index PROVE Congruent(coeffs[j], k * Expected(0, j))
    <3>1. Expected(0, j) = IF j = exponent THEN 1 ELSE 0
      BY <1>0, FirstResidue DEF Expected, NttInit
    <3>2. k * 1 = k /\ k * 0 = 0 /\ Congruent(k, k) /\ Congruent(0, 0)
      BY SMT DEF Congruent, Q
    <3> QED
      BY <1>1, <3>1, <3>2
  <2> QED
    BY <2>1, <1>k DEF Carries, NttInit
<1>5. layer \in ScalarLayers[backend] .. 6 => next = 2^layer
  BY SmallPowers DEF NttInit
<1>6. factors = <<>>
  BY DEF NttInit
<1> QED
  BY <1>2, <1>3, <1>4, <1>5, <1>6 DEF Forwards

LEMMA IInvInit == NttInit => IInv
<1>1. ASSUME NttInit PROVE IInv
  <2>1. phase = "ntt"
    BY <1>1 DEF NttInit
  <2> QED
    BY <1>1, <2>1, InitShape, InitForwards DEF IInv
<1> QED
  BY <1>1

-----------------------------------------------------------------------------
\* A step of ntt, from what it leaves.
LEMMA NowForwards ==
  ASSUME Shape, factors = <<>>, phase' = "ntt", UNCHANGED <<backend, exponent, factors>>,
         NEW n \in 0 .. 7, layer' = n, NEW c, coeffs' = c, NEW b, bound' = b,
         Fits(c, b), Under(b, LayerCap(n)), Carries(c, n, Coefficient),
         peak' = Larger(peak, bound'),
         n \in ScalarLayers[backend] .. 6 => next' = 2^n
  PROVE  IInv'
<1>1. \A j \in Index : b[j] \in Nat /\ Roomy(b[j])
  BY FitsWords, CapIsRoomy
<1>2. \A j \in Index : peak'[j] \in Nat /\ Roomy(peak'[j])
  <2>1. \A j \in Index : Larger(peak, b)[j] \in Nat /\ Roomy(Larger(peak, b)[j])
    BY <1>1, LargerRoomy DEF Shape
  <2> QED
    BY <2>1
<1>3. Shape'
  BY <1>2 DEF Shape, Operands
<1>4. Fits(coeffs, bound)'
  BY DEF Fits
<1>5. Under(bound, LayerCap(layer))'
  BY DEF Under
<1>6. Carries(coeffs, layer, Coefficient)'
  <2>1. \A j \in Index : Congruent(c[j], Coefficient * Expected(n, j)')
    BY CarriesNext
  <2> QED
    BY <2>1 DEF Carries, Expected
<1>7. (layer \in ScalarLayers[backend] .. 6 => next = 2^layer)'
  BY Zenon
<1>8. Forwards'
  BY <1>4, <1>5, <1>6, <1>7 DEF Forwards
<1> QED
  BY <1>3, <1>8 DEF IInv

-----------------------------------------------------------------------------
\* The steps of ntt keep the invariant.
LEMMA FirstShapes ==
  /\ LayerShape(0, 128, 1) /\ LayerShape(1, 64, 2) /\ LayerShape(2, 32, 4) /\ LayerShape(3, 16, 8)
  /\ LayerShape(4, 8, 16)
BY SMT DEF LayerShape

LEMMA LayerSums == 0 + 1 = 1 /\ 1 + 1 = 2 /\ 2 + 1 = 3 /\ 3 + 1 = 4 /\ 4 + 1 = 5
BY SMT

\* The element and its bounds after n layers.
After(c, b, n) == Fits(c, b) /\ Under(b, LayerCap(n)) /\ Carries(c, n, Coefficient)

\* A layer takes what holds after n layers to what holds after n + 1.
LEMMA OneLayer ==
  ASSUME Operands, NEW n, NEW len, NEW count, LayerShape(n, len, count), NEW c, NEW b, After(c, b, n),
         NEW m, n + 1 = m
  PROVE  After(NttLayer(c, len, count), NttBound(b, len), m)
<1>1. Coefficient \in Int
  BY CoefficientNumber
<1> QED
  BY <1>1, LayerForward, Zenon DEF After

LEMMA SameAfter ==
  ASSUME NEW c, NEW b, NEW n, NEW y, \A j \in Index : c[j] = y[j], After(y, b, n)
  PROVE  After(c, b, n)
BY SameFits, SameCarries DEF After

\* A step of ntt that leaves this keeps the invariant.
LEMMA NowAfter ==
  ASSUME Shape, factors = <<>>, phase' = "ntt", UNCHANGED <<backend, exponent, factors>>,
         NEW n \in 0 .. 7, layer' = n, NEW c, coeffs' = c, NEW b, bound' = b, After(c, b, n),
         peak' = Larger(peak, bound'),
         n \in ScalarLayers[backend] .. 6 => next' = 2^n
  PROVE  IInv'
BY NowForwards DEF After

\* The first trip is two layers.
LEMMA HeadTripKeeps ==
  ASSUME IInv, HeadTrip
  PROVE  IInv'
<1>1. Shape /\ Forwards /\ Operands /\ factors = <<>> /\ layer = 0 /\ phase = "ntt"
  BY DEF IInv, HeadTrip, Shape, Forwards
<1>c. PICK c : c = coeffs
  BY Zenon
<1>b. PICK b : b = bound
  BY Zenon
<1>2. After(c, b, 0)
  BY <1>1, <1>c, <1>b DEF Forwards, After
<1>3. Words(c)
  BY <1>2, FitsWords DEF After
<1>4. After(NttLayer(c, 128, 1), NttBound(b, 128), 1)
  BY <1>1, <1>2, FirstShapes, LayerSums, OneLayer
<1>5. After(NttLayer(NttLayer(c, 128, 1), 64, 2), NttBound(NttBound(b, 128), 64), 2)
  BY <1>1, <1>4, FirstShapes, LayerSums, OneLayer
<1>y. PICK y : y = coeffs'
  BY Zenon
<1>w. PICK w : w = NttBound(NttBound(b, 128), 64)
  BY Zenon
<1>6. \A j \in Index : y[j] = NttLayer(NttLayer(c, 128, 1), 64, 2)[j]
  BY <1>3, <1>y, <1>c, HeadIsLayers DEF HeadTrip
<1>7. After(y, w, 2)
  BY <1>5, <1>6, <1>w, SameAfter
<1>8. bound' = w /\ layer' = 2 /\ phase' = "ntt" /\ peak' = Larger(peak, bound')
      /\ UNCHANGED <<backend, exponent, factors>>
  BY <1>b, <1>w DEF HeadTrip
<1>9. ~(2 \in ScalarLayers[backend] .. 6)
  <2>1. backend \in {"avx2", "neon", "neon_asm"}
    BY <1>1 DEF Shape, Backends, HeadTrip
  <2>2. ScalarLayers[backend] = 4 \/ ScalarLayers[backend] = 5
    BY <2>1 DEF ScalarLayers
  <2> QED
    BY <2>2, SMT
<1>10. 2 \in 0 .. 7
  BY SMT
<1> QED
  BY <1>1, <1>7, <1>8, <1>9, <1>10, <1>y, NowAfter

\* The second is two layers more on AVX2 and three on NEON.
LEMMA QuarterTripKeeps ==
  ASSUME IInv, QuarterTrip
  PROVE  IInv'
<1>1. Shape /\ Forwards /\ Operands /\ factors = <<>> /\ layer = 2 /\ phase = "ntt"
  BY DEF IInv, QuarterTrip, Shape, Forwards
<1>c. PICK c : c = coeffs
  BY Zenon
<1>b. PICK b : b = bound
  BY Zenon
<1>2. After(c, b, 2)
  BY <1>1, <1>c, <1>b DEF Forwards, After
<1>3. Words(c)
  BY <1>2, FitsWords DEF After
<1>d. PICK d : d = NttLayer(NttLayer(c, 32, 4), 16, 8)
  BY Zenon
<1>e. PICK e : e = NttBound(NttBound(b, 32), 16)
  BY Zenon
<1>4. After(d, e, 4)
  <2>1. After(NttLayer(c, 32, 4), NttBound(b, 32), 3)
    BY <1>1, <1>2, FirstShapes, LayerSums, OneLayer
  <2> QED
    BY <1>1, <2>1, <1>d, <1>e, FirstShapes, LayerSums, OneLayer
<1>5. After(NttLayer(d, 8, 16), NttBound(e, 8), 5)
  BY <1>1, <1>4, FirstShapes, LayerSums, OneLayer
<1>y. PICK y : y = coeffs'
  BY Zenon
<1>w. PICK w : w = bound'
  BY Zenon
<1>n. PICK n : n = ScalarLayers[backend]
  BY Zenon
<1>6. After(y, w, n) /\ n \in 0 .. 7
  <2>1. CASE backend = "avx2"
    <3>1. \A j \in Index : y[j] = d[j]
      BY <2>1, <1>y, <1>c, <1>d, QuarterOfAvx2 DEF QuarterTrip
    <3>2. w = e /\ n = 4
      BY <2>1, <1>w, <1>b, <1>e, <1>n DEF QuarterTrip, ScalarLayers
    <3>3. 4 \in 0 .. 7
      BY SMT
    <3> QED
      BY <3>1, <3>2, <3>3, <1>4, SameAfter
  <2>2. CASE backend \in {"neon", "neon_asm"}
    <3>1. \A j \in Index : y[j] = NttLayer(d, 8, 16)[j]
      BY <2>2, <1>3, <1>y, <1>c, <1>d, QuarterOfNeon DEF QuarterTrip
    <3>2. w = NttBound(e, 8) /\ n = 5
      BY <2>2, <1>w, <1>b, <1>e, <1>n DEF QuarterTrip, ScalarLayers
    <3>3. 5 \in 0 .. 7
      BY SMT
    <3> QED
      BY <3>1, <3>2, <3>3, <1>5, SameAfter
  <2> QED
    BY <2>1, <2>2, <1>1 DEF Shape, Backends, QuarterTrip
<1>8. layer' = n /\ next' = 2^n /\ phase' = "ntt" /\ peak' = Larger(peak, bound')
      /\ UNCHANGED <<backend, exponent, factors>>
  BY <1>n, <1>1 DEF QuarterTrip
<1> QED
  BY <1>1, <1>6, <1>8, <1>y, <1>w, NowAfter

\* A layer of the portable code.
LEMMA NttStepKeeps ==
  ASSUME IInv, NttStep
  PROVE  IInv'
<1>1. Shape /\ Forwards /\ Operands /\ factors = <<>> /\ layer \in ScalarLayers[backend] .. 6
      /\ phase = "ntt" /\ layer \in 0 .. 7
  BY DEF IInv, NttStep, Shape, Forwards
<1>n. PICK n \in 0 .. 6 : n = layer
  BY <1>1, SMT
<1>len. PICK len : len = NTT_SERIES[n + 1]
  BY Zenon
<1>count. PICK count : count = 2^n
  BY Zenon
<1>2. LayerShape(n, len, count) /\ 2^(n + 1) = 2 * count /\ Groups(len) = count
  BY <1>len, <1>count, ShapeOfLayer
<1>3. next = count
  BY <1>1, <1>n, <1>count DEF Forwards
<1>c. PICK c : c = coeffs
  BY Zenon
<1>b. PICK b : b = bound
  BY Zenon
<1>4. After(c, b, n)
  BY <1>1, <1>n, <1>c, <1>b DEF Forwards, After
<1>m. PICK m \in 0 .. 7 : m = n + 1
  BY SMT
<1>y. PICK y : y = NttLayer(c, len, count)
  BY Zenon
<1>w. PICK w : w = NttBound(b, len)
  BY Zenon
<1>5. After(y, w, m)
  BY <1>1, <1>2, <1>4, <1>m, <1>y, <1>w, OneLayer
<1>6. /\ coeffs' = y /\ bound' = w /\ layer' = m /\ next' = count + count
      /\ phase' = "ntt" /\ peak' = Larger(peak, bound') /\ UNCHANGED <<backend, exponent, factors>>
  BY <1>1, <1>2, <1>3, <1>n, <1>len, <1>c, <1>b, <1>m, <1>y, <1>w DEF NttStep
<1>7. next' = 2^m
  <2>1. count \in Int
    BY <1>2, SMT DEF LayerShape
  <2>2. count + count = 2 * count
    BY <2>1, SMT
  <2> QED
    BY <2>2, <1>2, <1>6, <1>m
<1> QED
  BY <1>1, <1>5, <1>6, <1>7, NowAfter

-----------------------------------------------------------------------------
\* What is stored as a TqElement is centred.
LEMMA CentredFits ==
  ASSUME NEW a, Centred(a)
  PROVE  a \in Int16 /\ a \in Int /\ Inside(a, 1664)
<1>1. a \in Int /\ -1664 <= a /\ a <= 1664
  BY DEF Centred
<1>2. a \in Int16
  BY <1>1, SMT DEF Int16
<1>3. Inside(a, 1664)
  BY <1>1, SMT DEF Inside
<1> QED
  BY <1>1, <1>2, <1>3

\* An element in this layout, as its unpacked residues.
LEMMA HatEntries ==
  ASSUME NEW h, NEW scale, NEW e, HatOf(h, scale, e), NEW j \in Index
  PROVE  Centred(h[j]) /\ Congruent(Unpack(h)[j], scale * Residue(e, 7, j))
<1>1. Centred(h[j])
  <2>1. CASE j \in Half
    BY <2>1, Zenon DEF HatOf
  <2>2. CASE \E i \in Half : j = 128 + i
    <3>1. PICK i \in Half : j = 128 + i
      BY <2>2
    <3>2. Centred(h[128 + i])
      BY Zenon DEF HatOf
    <3> QED
      BY <3>1, <3>2
  <2> QED
    BY <2>1, <2>2, InHalves
<1>2. PICK i \in Half : j = 2 * i \/ j = 2 * i + 1
  BY PlaceOfPair
<1>3. /\ Congruent(h[i], scale * Residue(e, 7, 2 * i))
      /\ Congruent(h[128 + i], scale * Residue(e, 7, 2 * i + 1))
  BY Zenon DEF HatOf
<1>4. Unpack(h)[2 * i] = h[i] /\ Unpack(h)[2 * i + 1] = h[128 + i]
  BY UnpackForm
<1>5. CASE j = 2 * i
  BY <1>1, <1>3, <1>4, <1>5
<1>6. CASE j = 2 * i + 1
  BY <1>1, <1>3, <1>4, <1>6
<1> QED
  BY <1>2, <1>5, <1>6

\* The reductions that end ntt.
LEMMA EndIsHat ==
  ASSUME Forwards, Operands, layer = 7, backend \in Backends,
         NEW h, h = DispatchedPack(Reduced(coeffs))
  PROVE  HatOf(h, Coefficient, exponent)
<1>r. PICK r : r = Reduced(coeffs)
  BY Zenon
<1>1. ASSUME NEW j \in Index PROVE h[j] = Pack(r)[j]
  BY <1>r, PackIsPack DEF DispatchedPack
<1>2. ASSUME NEW j \in Index PROVE r[j] = Barrett(coeffs[j])
  BY <1>r, Zenon DEF Reduced
<1>3. ASSUME NEW j \in Index
      PROVE  Centred(r[j]) /\ Congruent(r[j], Coefficient * Residue(exponent, 7, j))
  <2>a. PICK a \in Int16 : a = coeffs[j]
    BY DEF Forwards, Fits
  <2>e. PICK e \in Int : e = Expected(7, j)
    BY ExpectedNumber
  <2>k. PICK k \in Int : k = Coefficient * e
    BY CoefficientNumber, SMT
  <2>0. a \in Int
    BY SMT DEF Int16
  <2>1. e = Residue(exponent, 7, j)
    BY <2>e DEF Expected, Forwards
  <2>2. Congruent(a, k)
    BY <2>a, <2>e, <2>k DEF Forwards, Carries
  <2>b. PICK b : b = Barrett(a)
    BY Zenon
  <2>3. Centred(b) /\ Congruent(b, a) /\ b \in Int
    BY <2>b, BarrettClass, CentredFits
  <2>4. Congruent(b, k)
    BY <2>0, <2>2, <2>3, ClassOn
  <2>5. r[j] = b
    BY <2>a, <2>b, <1>2
  <2> QED
    BY <2>1, <2>3, <2>4, <2>5, <2>k
<1>4. ASSUME NEW i \in Half
      PROVE  /\ Centred(h[i]) /\ Congruent(h[i], Coefficient * Residue(exponent, 7, 2 * i))
             /\ Centred(h[128 + i]) /\ Congruent(h[128 + i], Coefficient * Residue(exponent, 7, 2 * i + 1))
  <2>1. i \in Index /\ 128 + i \in Index
    BY SMT DEF Half, HALF, Index
  <2>2. /\ 2 * i \in Index /\ 2 * i + 1 \in Index
        /\ h[i] = r[2 * i] /\ h[128 + i] = r[2 * i + 1]
    BY <2>1, <1>1, PackForm
  <2> QED
    BY <2>2, <1>3
<1> QED
  BY <1>4 DEF HatOf

\* The end of ntt stores an element.
LEMMA NttEndKeeps ==
  ASSUME IInv, NttEnd
  PROVE  IInv'
<1>1. Shape /\ Forwards /\ Operands /\ factors = <<>> /\ layer = 7 /\ phase = "ntt"
  BY DEF IInv, NttEnd, Shape, Forwards
<1>h. PICK h : h = coeffs' /\ HatOf(h, Coefficient, exponent)
  BY <1>1, EndIsHat DEF NttEnd, Shape
<1>2. /\ phase' = "hat" /\ bound' = Everywhere(1664)
      /\ UNCHANGED <<backend, exponent, factors, layer, next, peak>>
  BY DEF NttEnd
<1>3. Shape'
  BY <1>1, <1>2 DEF Shape, Operands
<1>4. Fits(coeffs, bound)'
  <2>1. ASSUME NEW j \in Index PROVE h[j] \in Int16 /\ Inside(h[j], Everywhere(1664)[j])
    <3>1. h[j] \in Int16 /\ Inside(h[j], 1664)
      BY <1>h, HatEntries, CentredFits
    <3> QED
      BY <3>1, EverywhereIs
  <2> QED
    BY <2>1, <1>h, <1>2 DEF Fits
<1>5. Under(bound, 3994)'
  <2>1. 1664 <= 3994
    BY SMT
  <2>2. ASSUME NEW j \in Index PROVE Everywhere(1664)[j] <= 3994
    BY <2>1, EverywhereIs
  <2> QED
    BY <2>2, <1>2 DEF Under
<1>6. Carries(Unpack(coeffs), 7, Coefficient * ProductScale)'
  <2>1. ASSUME NEW j \in Index
        PROVE  Congruent(Unpack(h)[j], Coefficient * Expected(7, j)')
    <3>1. Congruent(Unpack(h)[j], Coefficient * Residue(exponent, 7, j))
      BY <1>h, HatEntries
    <3>2. Expected(7, j)' = Residue(exponent, 7, j)
      BY <1>1, <1>2 DEF Expected
    <3> QED
      BY <3>1, <3>2
  <2>2. ProductScale' = 1
    BY <1>1, <1>2 DEF ProductScale
  <2>3. Coefficient * 1 = Coefficient
    BY CoefficientNumber, SMT
  <2>4. Unpack(coeffs)' = Unpack(h)
    BY <1>h DEF Unpack
  <2> QED
    BY <2>1, <2>2, <2>3, <2>4 DEF Carries
<1>7. HatOf(coeffs, Coefficient, exponent)'
  BY <1>h, <1>2 DEF HatOf
<1>8. AsElement'
  BY <1>1, <1>2, <1>4, <1>5, <1>6 DEF AsElement
<1> QED
  BY <1>1, <1>2, <1>3, <1>7, <1>8 DEF IInv

-----------------------------------------------------------------------------
\* A product keeps the invariant.
LEMMA DotKeeps ==
  ASSUME IInv, NEW p \in Products, Dot(p)
  PROVE  IInv'
<1>1. /\ Shape /\ Operands /\ AsElement /\ layer = 7 /\ exponent \in Nat
      /\ HatOf(coeffs, Coefficient, exponent)
  BY DEF IInv, Dot, Shape, AsElement, Operands
<1>2. p \in Seq(Index) /\ Len(p) <= 4 /\ Len(p) \in Nat /\ DOMAIN p = 1 .. Len(p)
  <2>1. p \in Seq(Index) /\ Len(p) <= 4
    BY RunAssumption
  <2> QED
    BY <2>1, SMT
<1>f. PICK fs : fs = [n \in DOMAIN p |-> coeffs]
  BY Zenon
<1>g. PICK gs : gs = [n \in DOMAIN p |-> FactorHat[p[n]]]
  BY Zenon
<1>3. ASSUME NEW n \in 1 .. Len(p)
      PROVE  /\ p[n] \in Index /\ p[n] \in Nat /\ exponent + p[n] \in Nat
             /\ HatOf(fs[n], Coefficient, exponent) /\ HatOf(gs[n], 1, p[n])
  <2>1. p[n] \in Index
    BY <1>2, SMT
  <2>d. PICK d \in Nat : d = p[n]
    <3>1. \A k \in Index : k \in Nat
      BY SMT DEF Index
    <3> QED
      BY <2>1, <3>1
  <2>2. exponent + d \in Nat
    BY <1>1, SMT
  <2>3. d \in Factors
    <3>1. d \in {p[m] : m \in DOMAIN p}
      BY <1>2, <2>d
    <3> QED
      BY <3>1 DEF Factors
  <2>4. fs[n] = coeffs /\ gs[n] = FactorHat[d]
    BY <1>f, <1>g, <1>2, <2>d
  <2>5. HatOf(FactorHat[d], 1, d)
    BY <2>3, FactorIsHat
  <2> QED
    BY <1>1, <2>1, <2>d, <2>2, <2>4, <2>5
<1>4. Components(fs, gs, p, Coefficient)
  <2>1. Len(fs) = Len(p)
    <3>1. DOMAIN fs = 1 .. Len(p)
      BY <1>2, <1>f
    <3>2. fs \in Seq({coeffs})
      BY <1>2, <1>f, SMT
    <3> QED
      BY <3>1, <3>2, <1>2, SMT
  <2> QED
    BY <2>1, <1>1, <1>2, <1>3, CoefficientNumber DEF Components
<1>h. PICK h : h = coeffs'
  BY Zenon
<1>5. /\ h = DispatchedDot(fs, gs) /\ phase' = "product" /\ factors' = p /\ p # <<>>
      /\ bound' = Everywhere(3994) /\ UNCHANGED <<backend, exponent, layer, next, peak>>
  BY <1>f, <1>g, <1>h DEF Dot
<1>6. ASSUME NEW j \in Index
      PROVE  /\ Entry(h[j])
             /\ Congruent(Unpack(h)[j], (R_INV * Coefficient)
                  * (TermOf(p, 1, 7, j) + TermOf(p, 2, 7, j) + TermOf(p, 3, 7, j) + TermOf(p, 4, 7, j)))
  BY <1>4, <1>5, DotCarries
<1>7. Shape'
  BY <1>1, <1>2, <1>5 DEF Shape, Operands
<1>8. Fits(coeffs, bound)'
  <2>1. ASSUME NEW j \in Index PROVE h[j] \in Int16 /\ Inside(h[j], Everywhere(3994)[j])
    <3>1. h[j] \in Int16 /\ Inside(h[j], 3994)
      BY <1>6, EntryWord
    <3> QED
      BY <3>1, EverywhereIs
  <2> QED
    BY <2>1, <1>h, <1>5 DEF Fits
<1>9. Under(bound, 3994)'
  <2>1. 3994 <= 3994
    BY SMT
  <2>2. ASSUME NEW j \in Index PROVE Everywhere(3994)[j] <= 3994
    BY <2>1, EverywhereIs
  <2> QED
    BY <2>2, <1>5 DEF Under
<1>10. Carries(Unpack(coeffs), 7, Coefficient * ProductScale)'
  <2>1. ASSUME NEW j \in Index
        PROVE  Expected(7, j)'
                 = TermOf(p, 1, 7, j) + TermOf(p, 2, 7, j) + TermOf(p, 3, 7, j) + TermOf(p, 4, 7, j)
    BY <1>5 DEF Expected, TermOf
  <2>2. ProductScale' = R_INV
    BY <1>5 DEF ProductScale
  <2>3. R_INV * Coefficient = Coefficient * R_INV
    BY CoefficientNumber, SMT DEF R_INV
  <2>4. Unpack(coeffs)' = Unpack(h)
    BY <1>h DEF Unpack
  <2>5. ASSUME NEW j \in Index
        PROVE  Congruent(Unpack(h)[j], (Coefficient * R_INV) * Expected(7, j)')
    BY <1>6, <2>1, <2>3
  <2> QED
    BY <2>2, <2>4, <2>5 DEF Carries
<1>11. AsElement'
  BY <1>1, <1>5, <1>8, <1>9, <1>10 DEF AsElement
<1> QED
  BY <1>5, <1>7, <1>11 DEF IInv

-----------------------------------------------------------------------------
\* The steps of ntt_inverse keep the invariant.
LEMMA InverseBeginKeeps ==
  ASSUME IInv, InverseBegin
  PROVE  IInv'
<1>1. Shape /\ Operands /\ AsElement /\ layer = 7
  BY DEF IInv, InverseBegin, Shape, AsElement
<1>h. PICK h : h = coeffs'
  BY Zenon
<1>c. PICK c : c = coeffs
  BY Zenon
<1>2. /\ phase' = "inverse" /\ next' = 127 /\ bound' = Everywhere(16383)
      /\ UNCHANGED <<backend, exponent, factors, layer, peak>>
  BY DEF InverseBegin
<1>3. ASSUME NEW j \in Index PROVE h[j] = Unpack(c)[j]
  BY <1>h, <1>c, UnpackIsUnpack DEF InverseBegin, DispatchedUnpack
<1>4. ASSUME NEW j \in Index PROVE c[j] \in Int16 /\ Inside(c[j], 16383)
  <2>a. PICK a \in Int16 : a = c[j]
    BY <1>1, <1>c DEF AsElement, Fits
  <2>b. PICK b : b = bound[j] /\ Inside(a, b) /\ b <= 3994
    BY <1>1, <1>c, <2>a DEF AsElement, Fits, Under
  <2>1. Inside(a, 16383)
    BY <2>b, SMT DEF Inside, Int16
  <2> QED
    BY <2>a, <2>1
<1>5. ASSUME NEW j \in Index PROVE h[j] \in Int16 /\ Inside(h[j], 16383)
  <2>1. PICK i \in Half : j = 2 * i \/ j = 2 * i + 1
    BY PlaceOfPair
  <2>2. i \in Index /\ 128 + i \in Index
    BY SMT DEF Half, HALF, Index
  <2>3. h[j] = c[i] \/ h[j] = c[128 + i]
    BY <2>1, <1>3, UnpackForm
  <2> QED
    BY <2>2, <2>3, <1>4
<1>6. Fits(coeffs, bound)'
  BY <1>2, <1>5, <1>h, EverywhereIs DEF Fits
<1>7. Under(bound, InverseCap(layer))'
  <2>1. InverseCap(7) = 16383
    BY SMT DEF InverseCap
  <2>2. 16383 <= 16383
    BY SMT
  <2>3. ASSUME NEW j \in Index PROVE bound'[j] <= InverseCap(7)
    BY <1>2, <2>1, <2>2, EverywhereIs
  <2> QED
    BY <2>3, <1>1, <1>2 DEF Under
<1>8. Carries(coeffs, layer, Coefficient * (ProductScale * Doubled(layer)))'
  <2>1. ProductScale * Doubled(7) = ProductScale
    <3>1. Doubled(7) = 1
      BY SMT DEF Doubled
    <3> QED
      BY <3>1, ProductScaleNumber, SMT
  <2>2. ASSUME NEW j \in Index
        PROVE  Congruent(h[j], (Coefficient * (ProductScale * Doubled(7))) * Expected(7, j))
    BY <1>1, <1>3, <1>c, <2>1 DEF AsElement, Carries
  <2>3. ProductScale' = ProductScale
    BY <1>2 DEF ProductScale
  <2>4. ASSUME NEW j \in Index PROVE Expected(7, j)' = Expected(7, j)
    BY <1>2 DEF Expected
  <2>5. layer' = 7
    BY <1>1, <1>2
  <2> QED
    BY <1>h, <2>2, <2>3, <2>4, <2>5 DEF Carries, Doubled, Expected
<1>9. (next = 2^layer - 1)'
  BY <1>1, <1>2, SmallPowers, SMT
<1>10. Shape'
  BY <1>1, <1>2 DEF Shape, Operands
<1>11. Backwards'
  BY <1>6, <1>7, <1>8, <1>9 DEF Backwards
<1> QED
  BY <1>2, <1>10, <1>11 DEF IInv

-----------------------------------------------------------------------------
\* The layers that a vector backend does are those of the portable one.
LEMMA InverseOfBackend ==
  ASSUME backend \in Backends, NEW n, NEW len, NEW count, LayerShape(n, len, count),
         n < ScalarLayers[backend], NEW c, Words(c), NEW k, k = 2 * count - 1, NEW j \in Index
  PROVE  (IF backend = "avx2" THEN A!VecInverseLayer(c, len, k) ELSE N!VecInverseLayer(c, len, k))[j]
           = InverseLayer(c, len, k)[j]
<1>0. n \in 0 .. 6
  BY BlockLengths
<1>1. CASE backend = "generic"
  <2>1. ScalarLayers[backend] = 0
    BY <1>1 DEF ScalarLayers
  <2> QED
    BY <1>0, <2>1, SMT
<1>2. CASE backend = "avx2"
  <2>1. ScalarLayers[backend] = 4
    BY <1>2 DEF ScalarLayers
  <2>2. n <= 3
    BY <1>0, <2>1, SMT
  <2> QED
    BY <1>2, <2>2, InverseOfAvx2
<1>3. CASE backend \in {"neon", "neon_asm"}
  <2>1. ScalarLayers[backend] = 5
    BY <1>3 DEF ScalarLayers
  <2>2. n <= 4
    BY <1>0, <2>1, SMT
  <2> QED
    BY <1>3, <2>2, InverseOfNeon
<1> QED
  BY <1>1, <1>2, <1>3 DEF Backends

\* A layer of ntt_inverse, by whichever loop.
LEMMA InverseStepKeeps ==
  ASSUME IInv, InverseStep
  PROVE  IInv'
<1>1. Shape /\ Operands /\ Backwards /\ layer \in 0 .. 7 /\ layer > 0 /\ backend \in Backends
  BY DEF IInv, InverseStep, Shape
<1>n. PICK n \in 0 .. 6 : layer = n + 1
  <2>1. layer - 1 \in 0 .. 6 /\ layer = (layer - 1) + 1
    BY <1>1, SMT
  <2> QED
    BY <2>1
<1>len. PICK len : len = NTT_SERIES[n + 1]
  BY Zenon
<1>count. PICK count : count = 2^n
  BY Zenon
<1>2. LayerShape(n, len, count) /\ 2^(n + 1) = 2 * count /\ Groups(len) = count
  BY <1>len, <1>count, ShapeOfLayer
<1>k. PICK k : k = 2 * count - 1
  BY Zenon
<1>3. next = k
  BY <1>1, <1>2, <1>n, <1>k DEF Backwards
<1>c. PICK c : c = coeffs
  BY Zenon
<1>b. PICK b : b = bound
  BY Zenon
<1>s. PICK s \in Int : s = Coefficient * (ProductScale * Doubled(n + 1))
  <2>p. PICK p \in Int : p = ProductScale
    BY ProductScaleNumber
  <2>d. PICK d \in Int : d = Doubled(n + 1)
    BY DoubledNext
  <2>q. PICK q \in Int : q = Coefficient
    BY CoefficientNumber
  <2>1. q * (p * d) \in Int
    BY SMT
  <2> QED
    BY <2>1, <2>p, <2>d, <2>q
<1>4. Fits(c, b) /\ Under(b, InverseCap(n + 1)) /\ Carries(c, n + 1, s)
  BY <1>1, <1>n, <1>c, <1>b, <1>s DEF Backwards
<1>5. Words(c)
  BY <1>4, FitsWords
<1>y. PICK y : y = coeffs'
  BY Zenon
<1>w. PICK w : w = InverseBound(b, len)
  BY Zenon
<1>u. PICK u : u = Sums(b, len)
  BY Zenon
<1>6. /\ Fits(InverseLayer(c, len, k), w) /\ Under(w, InverseCap(n))
      /\ (\A j \in Index : u[j] \in Nat /\ Roomy(u[j]))
      /\ Carries(InverseLayer(c, len, k), n, 2 * s)
  BY <1>1, <1>2, <1>4, <1>k, <1>w, <1>u, LayerBack
<1>7. /\ bound' = w /\ layer' = n /\ next' = k - count /\ phase' = "inverse" /\ peak' = Larger(peak, u)
      /\ UNCHANGED <<backend, exponent, factors>>
  <2>1. layer' = n
    BY <1>n, SMT DEF InverseStep
  <2>2. NTT_SERIES[layer] = len
    BY <1>n, <1>len
  <2> QED
    BY <2>1, <2>2, <1>2, <1>3, <1>b, <1>w, <1>u DEF InverseStep
<1>8. ASSUME NEW j \in Index PROVE y[j] = InverseLayer(c, len, k)[j]
  <2>1. NTT_SERIES[layer] = len
    BY <1>n, <1>len
  <2>2. CASE layer > ScalarLayers[backend]
    BY <2>1, <2>2, <1>3, <1>y, <1>c DEF InverseStep
  <2>3. CASE ~(layer > ScalarLayers[backend])
    <3>1. n < ScalarLayers[backend]
      <4>1. ScalarLayers[backend] \in Int
        BY <1>1, SMT DEF ScalarLayers, Backends
      <4> QED
        BY <4>1, <2>3, <1>n, SMT
    <3>2. y = IF backend = "avx2" THEN A!VecInverseLayer(c, len, k) ELSE N!VecInverseLayer(c, len, k)
      BY <2>1, <2>3, <1>3, <1>y, <1>c DEF InverseStep
    <3> QED
      BY <3>1, <3>2, <1>1, <1>2, <1>5, <1>k, InverseOfBackend
  <2> QED
    BY <2>2, <2>3
<1>9. Fits(y, w) /\ Carries(y, n, 2 * s)
  BY <1>6, <1>8, SameFits, SameCarries
<1>10. 2 * s = Coefficient * (ProductScale * Doubled(n))
  <2>p. PICK p \in Int : p = ProductScale
    BY ProductScaleNumber
  <2>d. PICK d \in Int : d = Doubled(n + 1) /\ Doubled(n) = 2 * d
    BY DoubledNext
  <2>q. PICK q \in Int : q = Coefficient
    BY CoefficientNumber
  <2>1. 2 * (q * (p * d)) = q * (p * (2 * d))
    BY SMT
  <2> QED
    BY <2>1, <2>p, <2>d, <2>q, <1>s
<1>11. Fits(coeffs, bound)' /\ Under(bound, InverseCap(layer))'
  BY <1>6, <1>7, <1>9, <1>y DEF Fits, Under, InverseCap
<1>12. Carries(coeffs, layer, Coefficient * (ProductScale * Doubled(layer)))'
  <2>1. ASSUME NEW j \in Index
        PROVE  Congruent(y[j], (Coefficient * (ProductScale * Doubled(n))) * Expected(n, j))
    BY <1>9, <1>10 DEF Carries
  <2>2. ProductScale' = ProductScale
    BY <1>7 DEF ProductScale
  <2>3. ASSUME NEW j \in Index PROVE Expected(n, j)' = Expected(n, j)
    BY <1>7 DEF Expected
  <2> QED
    BY <1>y, <1>7, <2>1, <2>2, <2>3 DEF Carries, Doubled, Expected
<1>13. (next = 2^layer - 1)'
  <2>1. count \in Int
    BY <1>2, SMT DEF LayerShape
  <2>2. k - count = count - 1
    BY <2>1, <1>k, SMT
  <2> QED
    BY <2>2, <1>7, <1>count
<1>14. Shape'
  <2>1. \A j \in Index : Larger(peak, u)[j] \in Nat /\ Roomy(Larger(peak, u)[j])
    BY <1>1, <1>6, LargerRoomy DEF Shape
  <2>2. n \in 0 .. 7
    BY SMT
  <2> QED
    BY <2>1, <2>2, <1>1, <1>7 DEF Shape, Operands
<1>15. Backwards'
  BY <1>11, <1>12, <1>13 DEF Backwards
<1> QED
  BY <1>7, <1>14, <1>15 DEF IInv

-----------------------------------------------------------------------------
\* What the scaling makes of what the layers have multiplied by.
LEMMA FinalClass ==
  ASSUME NEW y \in Int, NEW a \in Int, NEW c \in Int, NEW e \in Int,
         Congruent(y, FinalFactor * a), Congruent(a, (c * (ProductScale * 128)) * e)
  PROVE  Congruent(y, ((c * FinalScale) % Q) * e)
<1>f. PICK f \in Int : f = FinalFactor
  BY SMT DEF FinalFactor
<1>p. PICK p \in Int : p = ProductScale
  BY ProductScaleNumber
<1>m. PICK m \in Int : m = f * (p * 128)
  BY SMT
<1>b. PICK b \in Int : b = (c * (p * 128)) * e
  BY SMT
<1>1. Congruent(f * a, f * b)
  BY <1>b, <1>p, ClassProduct, ClassOfItself
<1>2. f * b = (c * m) * e /\ f * a \in Int /\ f * b \in Int
  BY <1>b, <1>m, SMT
<1>3. Congruent(y, (c * m) * e)
  <2>1. Congruent(y, f * a)
    BY <1>f
  <2>2. Congruent(y, f * b)
    BY <1>1, <1>2, <2>1, ClassOn
  <2> QED
    BY <2>2, <1>2
<1>s. PICK s \in Int : s = FinalScale
  BY SMT DEF FinalScale, MONT_R, Q
<1>4. Congruent(m, s)
  <2>1. CASE factors = <<>>
    <3>1. p = 1 /\ f = 243529 /\ s = 2285
      BY <2>1, <1>f, <1>p, <1>s, ProductScaleNumber, SMT DEF FinalFactor, FinalScale, MONT_R, Q
    <3>2. m = s + 9363 * Q
      BY <3>1, <1>m, SMT DEF Q
    <3>3. Multiple(m, s)
      BY <3>2, SMT DEF Multiple
    <3> QED
      BY <3>3, MultipleCongruent
  <2>2. CASE factors # <<>>
    <3>1. p = 169 /\ f = 243529 /\ s = 1
      BY <2>2, <1>f, <1>p, <1>s, ProductScaleNumber, SMT DEF FinalFactor, FinalScale, R_INV
    <3>2. m = s + 1582463 * Q
      BY <3>1, <1>m, SMT DEF Q
    <3>3. Multiple(m, s)
      BY <3>2, SMT DEF Multiple
    <3> QED
      BY <3>3, MultipleCongruent
  <2> QED
    BY <2>1, <2>2
<1>5. Congruent(y, ((c * s) % Q) * e)
  BY <1>3, <1>4, ScaleClass, Zenon
<1> QED
  BY <1>5, <1>s

\* Its last pass leaves the polynomial.
LEMMA InverseEndKeeps ==
  ASSUME IInv, InverseEnd
  PROVE  IInv'
<1>1. Shape /\ Operands /\ Backwards /\ layer = 0
  BY DEF IInv, InverseEnd, Shape
<1>h. PICK h : h = coeffs'
  BY Zenon
<1>c. PICK c : c = coeffs
  BY Zenon
<1>2. /\ phase' = "done" /\ bound' = Everywhere(3328)
      /\ UNCHANGED <<backend, exponent, factors, layer, next, peak>>
  BY DEF InverseEnd
<1>3. Words(c)
  BY <1>1, <1>c, FitsWords DEF Backwards
<1>4. ASSUME NEW j \in Index PROVE h[j] = Mul(c[j], NTT_INVERSE_SCALE)
  <2>1. h[j] = Scaled(c)[j]
    BY <1>3, <1>h, <1>c, ScaledIsScaled DEF InverseEnd
  <2> QED
    BY <2>1, Zenon DEF Scaled
<1>5. ASSUME NEW j \in Index
      PROVE  /\ h[j] \in Int16 /\ Inside(h[j], 3328)
             /\ Congruent(h[j], ((Coefficient * FinalScale) % Q) * Expected(0, j))
  <2>a. PICK a \in Int16 : a = c[j]
    BY <1>3 DEF Words
  <2>b. PICK b : b = bound[j] /\ Inside(a, b) /\ b <= InverseCap(0)
    BY <1>1, <1>c, <2>a DEF Backwards, Fits, Under
  <2>1. b <= 26624
    BY <2>b, SMT DEF InverseCap, Inside
  <2>y. PICK y : y = h[j]
    BY Zenon
  <2>2. y = Mul(a, NTT_INVERSE_SCALE)
    BY <1>4, <2>a, <2>y
  <2>3. y \in Int16 /\ Inside(y, 3328) /\ Congruent(y, FinalFactor * a) /\ y \in Int /\ a \in Int
    BY <2>1, <2>2, <2>b, ScaledEntry
  <2>e. PICK e \in Int : e = Expected(0, j)
    BY <1>1, ExpectedNumber
  <2>q. PICK q \in Int : q = Coefficient
    BY CoefficientNumber
  <2>4. Doubled(0) = 128
    BY SMT DEF Doubled
  <2>5. Congruent(a, (q * (ProductScale * 128)) * e)
    BY <1>1, <1>c, <2>a, <2>e, <2>q, <2>4 DEF Backwards, Carries
  <2>6. Congruent(y, ((q * FinalScale) % Q) * e)
    <3>f. PICK f \in Int : f = FinalFactor * a
      BY <2>3, SMT DEF FinalFactor
    <3>z. PICK z : z = (q * (ProductScale * 128)) * e
      BY Zenon
    <3>1. Congruent(y, FinalFactor * a) /\ Congruent(a, (q * (ProductScale * 128)) * e)
      BY <2>3, <2>5
    <3>2. y \in Int /\ a \in Int /\ q \in Int /\ e \in Int
      BY <2>3
    <3>3. \A yy, aa, cc, ee \in Int : Congruent(yy, FinalFactor * aa) /\ Congruent(aa, (cc * (ProductScale * 128)) * ee) => Congruent(yy, ((cc * FinalScale) % Q) * ee)
      BY FinalClass
    <3> QED
      BY <3>1, <3>2, <3>3
  <2> QED
    BY <2>3, <2>6, <2>y, <2>e, <2>q
<1>6. Fits(coeffs, bound)'
  BY <1>2, <1>5, <1>h, EverywhereIs DEF Fits
<1>7. Holds(coeffs, FinalScale)'
  <2>1. FinalScale' = FinalScale
    BY <1>2 DEF FinalScale
  <2>2. ASSUME NEW j \in Index PROVE Expected(0, j)' = Expected(0, j)
    BY <1>2 DEF Expected
  <2>3. layer' = 0
    BY <1>1, <1>2
  <2> QED
    BY <1>h, <1>5, <2>1, <2>2, <2>3 DEF Holds, Expected
<1>8. Shape'
  BY <1>1, <1>2 DEF Shape, Operands
<1> QED
  BY <1>1, <1>2, <1>6, <1>7, <1>8 DEF IInv

\* Nothing changes when nothing does.
LEMMA StutterKeeps ==
  ASSUME IInv, UNCHANGED vars
  PROVE  IInv'
<1>1. /\ backend' = backend /\ exponent' = exponent /\ factors' = factors /\ coeffs' = coeffs
      /\ phase' = phase /\ layer' = layer /\ next' = next /\ bound' = bound /\ peak' = peak
  BY DEF vars
<1>2. Shape'
  BY <1>1 DEF IInv, Shape, Operands
<1>3. ProductScale' = ProductScale /\ FinalScale' = FinalScale /\ Unpack(coeffs)' = Unpack(coeffs)
  BY <1>1 DEF ProductScale, FinalScale, Unpack
<1>4. \A n, j : Expected(n, j)' = Expected(n, j)
  BY <1>1 DEF Expected
<1>5. Forwards => Forwards'
  BY <1>1, <1>4 DEF Forwards, Fits, Under, Carries, LayerCap, Expected
<1>6. AsElement => AsElement'
  BY <1>1, <1>3, <1>4 DEF AsElement, Fits, Under, Carries
<1>7. Backwards => Backwards'
  BY <1>1, <1>3, <1>4 DEF Backwards, Fits, Under, Carries, InverseCap, Doubled, Expected
<1>8. Holds(coeffs, FinalScale) => Holds(coeffs, FinalScale)'
  BY <1>1, <1>3, <1>4 DEF Holds, Expected
<1>9. HatOf(coeffs, Coefficient, exponent) => HatOf(coeffs, Coefficient, exponent)'
  BY <1>1 DEF HatOf
<1>10. Fits(coeffs, bound) => Fits(coeffs, bound)'
  BY <1>1 DEF Fits
<1> QED
  BY <1>1, <1>2, <1>5, <1>6, <1>7, <1>8, <1>9, <1>10 DEF IInv

\* Every step keeps the invariant.
LEMMA IInvNext == IInv /\ [NttNext]_vars => IInv'
<1> SUFFICES ASSUME IInv, [NttNext]_vars PROVE IInv'
  OBVIOUS
<1>1. CASE HeadTrip
  BY <1>1, HeadTripKeeps
<1>2. CASE QuarterTrip
  BY <1>2, QuarterTripKeeps
<1>3. CASE NttStep
  BY <1>3, NttStepKeeps
<1>4. CASE NttEnd
  BY <1>4, NttEndKeeps
<1>5. CASE \E p \in Products : Dot(p)
  BY <1>5, DotKeeps
<1>6. CASE InverseBegin
  BY <1>6, InverseBeginKeeps
<1>7. CASE InverseStep
  BY <1>7, InverseStepKeeps
<1>8. CASE InverseEnd
  BY <1>8, InverseEndKeeps
<1>9. CASE UNCHANGED vars
  BY <1>9, StutterKeeps
<1> QED
  BY <1>1, <1>2, <1>3, <1>4, <1>5, <1>6, <1>7, <1>8, <1>9 DEF NttNext

\* The layers of every backend keep what the inductive invariant says.
THEOREM NttInvariant == NttSpec => []IInv
<1>1. NttInit => IInv
  BY IInvInit
<1>2. IInv /\ [NttNext]_vars => IInv'
  BY IInvNext
<1> QED
  BY <1>1, <1>2, PTL DEF NttSpec

-----------------------------------------------------------------------------
\* Some bound is kept to in every phase.
LEMMA AlwaysFits ==
  ASSUME IInv
  PROVE  Fits(coeffs, bound)
BY DEF IInv, Shape, Forwards, AsElement, Backwards

\* The invariant leaves no room for a wrap.
LEMMA NothingHasWrapped == IInv => NothingWraps
<1>1. ASSUME IInv, NEW j \in Index
      PROVE  peak[j] <= 32767 /\ coeffs[j] \in -bound[j] .. bound[j]
  <2>1. peak[j] \in Nat /\ peak[j] <= 32767
    BY <1>1 DEF IInv, Shape, Roomy
  <2>b. PICK b : b = bound[j]
    BY Zenon
  <2>a. PICK a \in Int : a = coeffs[j] /\ Inside(a, b)
    BY <1>1, <2>b, AlwaysFits, FitsWords DEF Fits
  <2>2. a \in -b .. b
    BY <2>a, SMT DEF Inside
  <2> QED
    BY <2>1, <2>2, <2>a, <2>b
<1> QED
  BY <1>1 DEF NothingWraps

-----------------------------------------------------------------------------
\* The residues, phase by phase.
LEMMA LayersOfNtt ==
  ASSUME IInv, phase = "ntt"
  PROVE  Holds(coeffs, 1)
<1>1. Forwards /\ Operands /\ layer \in 0 .. 7
  BY DEF IInv, Shape
<1>2. 1 \in Int /\ Congruent(1, 1)
  BY SMT DEF Congruent, Q
<1>3. Coefficient * 1 = Coefficient
  BY CoefficientNumber, SMT
<1>4. Carries(coeffs, layer, Coefficient * 1)
  BY <1>1, <1>3 DEF Forwards
<1>5. \A j \in Index : coeffs[j] \in Int
  BY <1>1, FitsWords DEF Forwards
<1> QED
  BY <1>1, <1>2, <1>4, <1>5, HoldsOfCarries

LEMMA LayersOfElement ==
  ASSUME IInv, phase \in {"hat", "product"}
  PROVE  /\ Holds(Unpack(coeffs), ProductScale)
         /\ \A j \in Index : DispatchedCanonical(coeffs)[j] = Unpack(coeffs)[j] % Q
<1>1. AsElement /\ Operands /\ layer \in 0 .. 7 /\ backend \in Backends
  BY DEF IInv, Shape
<1>2. Words(coeffs)
  BY <1>1, FitsWords DEF AsElement
<1>u. PICK u : u = Unpack(coeffs)
  BY Zenon
<1>3. ASSUME NEW j \in Index PROVE u[j] \in Int16
  <2>1. PICK i \in Half : j = 2 * i \/ j = 2 * i + 1
    BY PlaceOfPair
  <2>2. i \in Index /\ 128 + i \in Index
    BY SMT DEF Half, HALF, Index
  <2>3. u[2 * i] = coeffs[i] /\ u[2 * i + 1] = coeffs[128 + i]
    BY <1>u, UnpackForm
  <2> QED
    BY <1>2, <2>1, <2>2, <2>3 DEF Words
<1>4. \A a \in Int16 : a \in Int
  BY SMT DEF Int16
<1>5. Holds(u, ProductScale)
  <2>1. ProductScale \in Int
    BY ProductScaleNumber
  <2>2. Congruent(ProductScale, ProductScale)
    BY <2>1, ClassOfItself
  <2>3. Carries(u, layer, Coefficient * ProductScale)
    BY <1>1, <1>u DEF AsElement
  <2>4. \A j \in Index : u[j] \in Int
    BY <1>3, <1>4
  <2> QED
    BY <1>1, <2>1, <2>2, <2>3, <2>4, HoldsOfCarries
<1>6. ASSUME NEW j \in Index PROVE DispatchedCanonical(coeffs)[j] = u[j] % Q
  <2>1. Value(u[j]) = u[j] % Q
    BY <1>3, ValueExact
  <2>2. CASE backend = "generic"
    BY <2>1, <2>2, <1>u DEF DispatchedCanonical
  <2>3. CASE backend # "generic"
    <3>1. /\ A!VecCanonical(coeffs)[j] = Value(u[j])
          /\ N!VecCanonical(coeffs)[j] = Value(u[j])
      BY <1>2, <1>u, UnpackIsUnpack
    <3> QED
      BY <2>1, <2>3, <3>1, <1>1 DEF DispatchedCanonical, Backends
  <2> QED
    BY <2>2, <2>3
<1> QED
  BY <1>5, <1>6, <1>u

LEMMA LayersOfInverse ==
  ASSUME IInv, phase = "inverse"
  PROVE  Holds(coeffs, (ProductScale * 2^(7 - layer)) % Q)
<1>1. Backwards /\ Operands /\ layer \in 0 .. 7
  BY DEF IInv, Shape
<1>d. PICK d \in Int : d = Doubled(layer) /\ d = 2^(7 - layer)
  BY <1>1, DoubledPower
<1>p. PICK p \in Int : p = ProductScale
  BY ProductScaleNumber
<1>k. PICK k \in Int : k = p * d
  BY SMT
<1>m. PICK m \in Int : m = k % Q /\ Congruent(k, m)
  BY ClassOfRemainder
<1>2. Carries(coeffs, layer, Coefficient * k)
  BY <1>1, <1>d, <1>p, <1>k DEF Backwards
<1>3. \A j \in Index : coeffs[j] \in Int
  BY <1>1, FitsWords DEF Backwards
<1>4. Holds(coeffs, m)
  BY <1>1, <1>2, <1>3, <1>m, HoldsOfCarries
<1> QED
  BY <1>4, <1>m, <1>k, <1>d, <1>p

\* In every phase the layers hold residues.
LEMMA LayersHold == IInv => LayersHoldResidues
<1> SUFFICES ASSUME IInv PROVE LayersHoldResidues
  OBVIOUS
<1>1. CASE phase = "ntt"
  BY <1>1, LayersOfNtt DEF LayersHoldResidues
<1>2. CASE phase \in {"hat", "product"}
  BY <1>2, LayersOfElement DEF LayersHoldResidues
<1>3. CASE phase = "inverse"
  BY <1>3, LayersOfInverse DEF LayersHoldResidues
<1>4. CASE phase = "done"
  BY <1>4 DEF LayersHoldResidues
<1> QED
  BY <1>1, <1>2, <1>3, <1>4 DEF IInv, Shape

-----------------------------------------------------------------------------
\* The products of an element with the other monomials.
LEMMA MultiplyNumber ==
  ASSUME NEW f, Words(f), NEW g, Words(g), NEW j \in Index
  PROVE  Multiply(f, g)[j] \in Int
<1>1. ASSUME NEW a \in Int, NEW b \in Int PROVE Add(a, b) \in Int
  BY SMT DEF Add, Wrap16
<1>2. \A a \in Int16 : a \in Int
  BY SMT DEF Int16
<1>3. ASSUME NEW i \in Half
      PROVE  Multiply(f, g)[i] \in Int /\ Multiply(f, g)[128 + i] \in Int
  <2>1. i \in Index /\ 128 + i \in Index
    BY SMT DEF Half, HALF, Index
  <2>2. f[i] \in Int /\ f[128 + i] \in Int /\ g[i] \in Int /\ g[128 + i] \in Int
    BY <1>2, <2>1 DEF Words
  <2>3. /\ Mul(f[i], g[i]) \in Int /\ Mul(f[128 + i], g[128 + i]) \in Int
        /\ Mul(f[i], g[128 + i]) \in Int /\ Mul(f[128 + i], g[i]) \in Int
    <3>p. PICK a \in Int, b \in Int, c \in Int, e \in Int :
            a = f[i] /\ b = f[128 + i] /\ c = g[i] /\ e = g[128 + i]
      BY <2>2
    <3>1. Mul(a, c) \in Int /\ Mul(b, e) \in Int /\ Mul(a, e) \in Int /\ Mul(b, c) \in Int
      BY MulWord
    <3> QED
      BY <3>p, <3>1
  <2>4. Mul(Mul(f[128 + i], g[128 + i]), GAMMA_MONT[i]) \in Int
    BY <2>3, MulWord, GammaWord
  <2>5. EvenProduct(f, g, i) \in Int
    BY <1>1, <2>3, <2>4, Zenon DEF EvenProduct
  <2>6. OddProduct(f, g, i) \in Int
    BY <1>1, <2>3, Zenon DEF OddProduct
  <2> QED
    BY <2>5, <2>6, MultiplyForm, Zenon
<1>4. CASE j \in Half
  BY <1>3, <1>4
<1>5. CASE \E i \in Half : j = 128 + i
  <2>1. PICK i \in Half : j = 128 + i
    BY <1>5
  <2>2. Multiply(f, g)[128 + i] \in Int
    BY <1>3
  <2> QED
    BY <2>1, <2>2
<1> QED
  BY <1>4, <1>5, InHalves

\* The other exponents are places of a polynomial.
LEMMA FactorPlace ==
  ASSUME NEW e \in Factors
  PROVE  e \in Index /\ e \in Nat
<1>1. PICK p \in Products : e \in {p[n] : n \in DOMAIN p}
  BY DEF Factors
<1>2. p \in Seq(Index)
  BY RunAssumption
<1>3. PICK n \in DOMAIN p : e = p[n]
  BY <1>1
<1>4. e \in Index
  BY <1>2, <1>3, SMT
<1> QED
  BY <1>4, SMT DEF Index

\* The two products agree in every reachable state.
LEMMA CachedProducts == IInv => CachedProductIsProduct
<1>1. ASSUME IInv, phase = "hat", NEW e \in Factors, NEW j \in Index
      PROVE  /\ Congruent(DispatchedDot(<<coeffs>>, <<FactorHat[e]>>)[j], Multiply(coeffs, FactorHat[e])[j])
             /\ Congruent(DispatchedMultiply(coeffs, FactorHat[e])[j], Multiply(coeffs, FactorHat[e])[j])
  <2>f. PICK f : f = coeffs
    BY Zenon
  <2>g. PICK g : g = FactorHat[e]
    BY Zenon
  <2>1. e \in Index /\ e \in Nat
    BY FactorPlace
  <2>2. HatOf(f, Coefficient, exponent) /\ HatOf(g, 1, e)
    BY <1>1, <2>1, <2>f, <2>g, FactorIsHat DEF IInv
  <2>3. exponent \in Nat /\ backend \in Backends
    BY <1>1 DEF IInv, Shape, Operands
  <2>k. PICK k \in Int : k = Coefficient
    BY CoefficientNumber
  <2>4. Congruent(DispatchedDot(<<f>>, <<g>>)[j], Multiply(f, g)[j])
    BY <2>1, <2>2, <2>3, <2>k, CachedIsProduct
  <2>5. Words(f) /\ Words(g)
    BY <2>2, HatWords
  <2>6. DispatchedMultiply(f, g)[j] = Multiply(f, g)[j]
    BY <2>3, <2>5, MultiplyIsMultiply DEF DispatchedMultiply, Backends
  <2>m. PICK m \in Int : m = Multiply(f, g)[j]
    BY <2>5, MultiplyNumber
  <2>7. Congruent(m, m)
    BY ClassOfItself
  <2> QED
    BY <2>4, <2>6, <2>7, <2>m, <2>f, <2>g
<1> QED
  BY <1>1, Zenon DEF CachedProductIsProduct

-----------------------------------------------------------------------------
\* No butterfly of any backend leaves the i16, for any monomials.
THEOREM NttNeverWraps == NttSpec => []NothingWraps
BY NttInvariant, NothingHasWrapped, PTL

\* Each layer of both transforms holds the residues of the polynomial.
THEOREM NttLayersHold == NttSpec => []LayersHoldResidues
BY NttInvariant, LayersHold, PTL

\* ntt_inverse undoes ntt, and a product in between is the product of the ring.
THEOREM NttInverseOfProduct == NttSpec => []InverseOfProduct
<1>1. IInv => InverseOfProduct
  BY DEF IInv, InverseOfProduct, FinalScale
<1> QED
  BY <1>1, NttInvariant, PTL

\* A product with a cache is the product without one.
THEOREM NttCachedProduct == NttSpec => []CachedProductIsProduct
BY NttInvariant, CachedProducts, PTL
=============================================================================
