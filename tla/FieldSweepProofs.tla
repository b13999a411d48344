-------------------------- MODULE FieldSweepProofs --------------------------
(***************************************************************************)
(* The reductions of the field are exact and bounded for every input, and  *)
(* the mul-shift divides by q; each lane of the vector kernels computes    *)
(* what the field does.  Leaves with numerals beyond 16 bits are           *)
(* for SMT alone.                                                          *)
(***************************************************************************)
EXTENDS VectorSweep, TLAPS


LEMMA InInt16 ==
  ASSUME NEW y \in Int
  PROVE  y \in Int16 <=> (-32768 <= y /\ y <= 32767)
BY SMT DEF Int16

\* a and b have the same low 16 bits.
SameWord(a, b) == \E j \in Int : a = b + j * 65536

LEMMA SameWordPick ==
  ASSUME NEW a \in Int, NEW b \in Int, SameWord(a, b)
  PROVE  \E j \in Int : a = b + j * 65536
BY SMT DEF SameWord

LEMMA SameWordSub ==
  ASSUME NEW a \in Int, NEW b \in Int, NEW c \in Int, NEW e \in Int,
         SameWord(a, b), SameWord(c, e)
  PROVE  SameWord(a - c, b - e)
<1>1. PICK i \in Int : a = b + i * 65536
  BY SameWordPick, SMT
<1>2. PICK j \in Int : c = e + j * 65536
  BY SameWordPick, SMT
<1>3. PICK k \in Int : k = i - j
  BY SMT
<1>4. a - c = (b - e) + k * 65536
  BY <1>1, <1>2, <1>3, SMT
<1> QED
  BY <1>4, SMT DEF SameWord

\* Wrapping keeps the word ...
LEMMA WrapSame ==
  ASSUME NEW y \in Int
  PROVE  Wrap16(y) \in Int16 /\ SameWord(Wrap16(y), y)
<1>1. PICK r \in Int, w \in Int :
        /\ r = (y + 32768) % 65536 /\ y + 32768 = w * 65536 + r
        /\ 0 <= r /\ r < 65536
  <2>1. /\ (y + 32768) % 65536 \in Int /\ (y + 32768) \div 65536 \in Int
        /\ y + 32768 = ((y + 32768) \div 65536) * 65536 + ((y + 32768) % 65536)
        /\ 0 <= (y + 32768) % 65536 /\ (y + 32768) % 65536 < 65536
    BY SMT
  <2> QED
    BY <2>1, SMT
<1>2. Wrap16(y) = r - 32768
  BY <1>1, SMT DEF Wrap16
<1>3. r - 32768 = y + (-w) * 65536 /\ -w \in Int
  BY <1>1, SMT
<1>4. -32768 <= r - 32768 /\ r - 32768 <= 32767 /\ r - 32768 \in Int
  BY <1>1, SMT
<1>5. Wrap16(y) \in Int16
  BY <1>2, <1>4, InInt16
<1> QED
  BY <1>2, <1>3, <1>5, SMT DEF SameWord

\* ... and two i16 with the same word are equal.
LEMMA WrapUnique ==
  ASSUME NEW y \in Int, NEW d \in Int16, SameWord(y, d)
  PROVE  Wrap16(y) = d
<1>1. PICK j \in Int : y = d + j * 65536
  BY SMT DEF SameWord
<1>2. Wrap16(d + j * 65536) = d
  BY SMTT(30) DEF Wrap16, Int16
<1> QED
  BY <1>1, <1>2, SMT

\* A difference that fits is computed by wrapping operations on wrapped parts.
LEMMA WrapSub ==
  ASSUME NEW y \in Int, NEW u \in Int, y - u \in Int16
  PROVE  Wrap16(y - Wrap16(u)) = y - u /\ Wrap16(Wrap16(y) - Wrap16(u)) = y - u
<1>1. SameWord(y, y)
  <2>1. y = y + 0 * 65536
    BY SMT
  <2> QED
    BY <2>1, SMT DEF SameWord
<1>2. SameWord(Wrap16(y), y) /\ SameWord(Wrap16(u), u) /\ Wrap16(y) \in Int /\ Wrap16(u) \in Int
  BY WrapSame, SMT DEF Int16
<1>3. SameWord(y - Wrap16(u), y - u) /\ SameWord(Wrap16(y) - Wrap16(u), y - u)
  BY <1>1, <1>2, SameWordSub
<1>4. y - Wrap16(u) \in Int /\ Wrap16(y) - Wrap16(u) \in Int
  BY <1>2, SMT
<1> QED
  BY <1>3, <1>4, WrapUnique

LEMMA WrapInside ==
  ASSUME NEW y \in Int16
  PROVE  Wrap16(y) = y
BY SMTT(30) DEF Wrap16, Int16

\* a and b differ by a multiple of q.
Multiple(a, b) == \E k \in Int : a = b + k * Q

LEMMA MultipleCongruent ==
  ASSUME NEW a \in Int, NEW b \in Int, Multiple(a, b)
  PROVE  Congruent(a, b)
<1>1. PICK k \in Int : a = b + k * 3329
  BY SMT DEF Multiple, Q
<1> QED
  BY <1>1, SMT DEF Congruent, Q

\* Of the numbers that differ from a by multiples of q, the remainder is in
\* 0 .. q - 1.
LEMMA Remainder ==
  ASSUME NEW a \in Int, NEW v \in Int, Multiple(v, a), 0 <= v, v <= 3328
  PROVE  v = a % Q
<1>1. PICK k \in Int : v = a + k * 3329
  BY SMT DEF Multiple, Q
<1> QED
  BY <1>1, SMTT(30) DEF Q

LEMMA MultipleNext ==
  ASSUME NEW a \in Int, NEW b \in Int, Multiple(a, b)
  PROVE  Multiple(a + Q, b)
<1>1. PICK k \in Int : a = b + k * 3329
  BY SMT DEF Multiple, Q
<1>2. PICK i \in Int : i = k + 1
  BY SMT
<1>3. a + 3329 = b + i * 3329
  BY <1>1, <1>2, SMT
<1> QED
  BY <1>3, SMT DEF Multiple, Q

LEMMA BarrettExact ==
  ASSUME NEW a \in Int16
  PROVE  /\ Barrett(a) \in Int /\ -1664 <= Barrett(a) /\ Barrett(a) <= 1664
         /\ Multiple(Barrett(a), a)
<1>1. a \in Int /\ -32768 <= a /\ a <= 32767
  BY SMT DEF Int16
<1>2. PICK t \in Int : t = (20159 * a + 33554432) \div 67108864
  BY <1>1, SMT
<1>3. 67108864 * t <= 20159 * a + 33554432 /\ 20159 * a + 33554432 < 67108864 * (t + 1)
  BY <1>1, <1>2, SMT
<1>4. -1664 <= a - t * 3329 /\ a - t * 3329 <= 1664 /\ a - t * 3329 \in Int
  <2>1. -11 < t /\ t < 11
    BY <1>1, <1>3, SMT
  <2> QED
    BY <1>1, <1>3, <2>1, SMT
<1>5. t \in Int16
  <2>1. -32768 <= t /\ t <= 32767
    BY <1>1, <1>3, SMT
  <2> QED
    BY <2>1, InInt16
<1>6. Wrap16(t) = t
  BY <1>5, WrapInside
<1>7. a - t * 3329 \in Int16 /\ t * 3329 \in Int
  <2>1. t * 3329 \in Int /\ -32768 <= a - t * 3329 /\ a - t * 3329 <= 32767
    BY <1>1, <1>4, SMT
  <2> QED
    BY <1>4, <2>1, InInt16
<1>8. Wrap16(a - Wrap16(t * 3329)) = a - t * 3329
  BY <1>1, <1>7, WrapSub, SMT
<1>9. Barrett(a) = a - t * 3329
  BY <1>1, <1>2, <1>6, <1>8, SMT DEF Barrett, BARRETT_V, Q
<1>10. \E k \in Int : a - t * 3329 = a + k * 3329
  <2>1. PICK k \in Int : k = -t
    BY SMT
  <2>2. a - t * 3329 = a + k * 3329
    BY <1>1, <2>1, SMT
  <2> QED
    BY <2>2
<1>11. Multiple(Barrett(a), a)
  BY <1>9, <1>10, SMT DEF Multiple, Q
<1> QED
  BY <1>4, <1>9, <1>11, SMT

-----------------------------------------------------------------------------
\* The factor that montgomery_reduce subtracts, and the difference it shifts.
Factor(lo) == Wrap16(lo * QINV)
Shifted(lo) == (lo - Factor(lo) * Q) \div 65536

\* The factor clears the low half, so the shift drops nothing.
LEMMA MontgomeryQuotient ==
  ASSUME NEW lo \in Nat, lo <= 65535
  PROVE  /\ Factor(lo) \in Int /\ Shifted(lo) \in Int
         /\ 65536 * Shifted(lo) = lo - Factor(lo) * 3329
         /\ -1664 <= Shifted(lo) /\ Shifted(lo) <= 1665
<1> DEFINE y == lo * (-3327)
           m == Wrap16(y)
<1>1. y \in Int
  BY SMT
<1>2. m \in Int16 /\ SameWord(m, y)
  BY <1>1, WrapSame
<1>3. m \in Int /\ -32768 <= m /\ m <= 32767
  BY <1>2, SMT DEF Int16
<1>4. PICK j \in Int : m = y + j * 65536
  BY <1>1, <1>2, <1>3, SameWordPick, SMT
<1>5. Factor(lo) = m
  BY SMT DEF Factor, QINV
<1> HIDE DEF m
<1> DEFINE u == 169 * lo - j * 3329
<1>6. u \in Int /\ 65536 * u = lo - m * 3329
  BY <1>3, <1>4, SMT
<1> HIDE DEF u
<1>7. u = (lo - m * 3329) \div 65536
  BY <1>3, <1>6, SMT
<1>8. -1664 <= u /\ u <= 1665
  BY <1>3, <1>6, SMT
<1>9. Shifted(lo) = u
  BY <1>5, <1>7, SMT DEF Shifted, Q
<1> QED
  BY <1>3, <1>5, <1>6, <1>8, <1>9, SMT

LEMMA MontgomeryExact ==
  ASSUME NEW hi \in ProductHighs, NEW lo \in UInt16
  PROVE  SumReduced(hi, lo) /\ FromProductSum(hi, lo) \in EntryBound
<1> DEFINE u == Shifted(lo)
           m == Factor(lo)
           r == hi + u
<1>1. /\ hi \in Int /\ -2030 <= hi /\ hi <= 2029 /\ lo \in Nat
      /\ u \in Int /\ m \in Int
      /\ 65536 * u = lo - m * 3329
      /\ -1664 <= u /\ u <= 1665
  BY MontgomeryQuotient, SMT DEF UInt16, ProductHighs
<1>2. MontgomeryReduce(hi, lo) = Wrap16(r)
  BY SMT DEF MontgomeryReduce, Shifted, Factor
<1> HIDE DEF u, m
<1>3. r \in Int /\ -3994 <= r /\ r <= 3994
  BY <1>1, SMT
<1> HIDE DEF r
<1>4. Wrap16(r) = r
  <2>1. -32768 <= r /\ r <= 32767
    BY <1>3, SMT
  <2> QED
    BY <1>3, <2>1, InInt16, WrapInside
<1>5. MONT_R = 2285
  BY SMT DEF MONT_R, Q
<1> DEFINE k == (-m) - 19 * u
           z == hi * 2285 + lo
           w == r * 2285
<1>6. k \in Int /\ z \in Int /\ w \in Int
  BY <1>1, <1>3, SMT
<1>7. w = z + k * 3329
  BY <1>1, SMT DEF r
<1> HIDE DEF k, z, w
<1>8. Congruent(w, z)
  <2>1. Multiple(w, z)
    BY <1>6, <1>7, SMT DEF Multiple, Q
  <2> QED
    BY <1>6, <2>1, MultipleCongruent
<1>9. r \in EntryBound
  BY <1>3, SMT DEF EntryBound
<1>10. FromProductSum(hi, lo) = r
  BY <1>2, <1>4 DEF FromProductSum
<1> QED
  BY <1>5, <1>8, <1>9, <1>10, SMT DEF SumReduced, z, w

-----------------------------------------------------------------------------
LEMMA ProductBound ==
  ASSUME NEW a \in Int, NEW e \in Int, -32768 <= a, a <= 32767, -1664 <= e, e <= 1664
  PROVE  -54525952 <= a * e /\ a * e <= 54525952
<1>1. CASE e >= 0
  <2>1. (-32768) * e <= a * e /\ a * e <= 32767 * e
    BY <1>1, SMT
  <2> QED
    BY <1>1, <2>1, SMT
<1>2. CASE e < 0
  <2>1. a * e <= (-32768) * e /\ 32767 * e <= a * e
    BY <1>2, SMT
  <2> QED
    BY <1>2, <2>1, SMT
<1> QED
  BY <1>1, <1>2, SMT

LEMMA MultiplierBound ==
  ASSUME NEW a \in Int, NEW b \in Int, -32768 <= a, a <= 32767, 0 <= b, b <= 32758
  PROVE  -1073741824 <= a * b /\ a * b <= 1073709056
<1>1. (-32768) * b <= a * b /\ a * b <= 32767 * b
  BY SMT
<1> QED
  BY <1>1, SMT

\* A factor of at most 1664 in magnitude, as many times.
LEMMA ProductWithin ==
  ASSUME NEW a \in Int, NEW e \in Int, NEW r \in Nat, -r <= a, a <= r, -1664 <= e, e <= 1664
  PROVE  -(1664 * r) <= a * e /\ a * e <= 1664 * r
<1>1. CASE e >= 0
  <2>1. (-r) * e <= a * e /\ a * e <= r * e
    BY <1>1, SMT
  <2>2. r * e <= 1664 * r
    BY <1>1, SMT
  <2>3. (-r) * e = -(r * e)
    BY SMT
  <2> QED
    BY <2>1, <2>2, <2>3, SMT
<1>2. CASE e < 0
  <2>1. a * e <= (-r) * e /\ r * e <= a * e
    BY <1>2, SMT
  <2>2. (-r) * e <= 1664 * r
    BY <1>2, SMT
  <2>3. (-r) * e = -(r * e)
    BY SMT
  <2> QED
    BY <2>1, <2>2, <2>3, SMT
<1> QED
  BY <1>1, <1>2, SMT

\* What a constant multiplication of a number of at most r may reach.
Attained(e, r) == -(3329 * r + 109084672) <= 65536 * e /\ 65536 * e <= 3329 * r + 109084672

\* A number that is a canonical one or its negative.
Short(e) == e \in Int /\ -3328 <= e /\ e <= 3328

\* A number of at most that magnitude.
Inside(a, r) == r \in Nat /\ -r <= a /\ a <= r

\* barrett_const_mul takes the rounded quotient of the product away, with a
\* multiplier that is off by half a unit at most.
LEMMA ConstMulReach ==
  ASSUME NEW a \in Int16, NEW zeta \in 1 .. Q - 1, NEW r, Inside(a, r),
         NEW reached, reached = BarrettConstMul(a, zeta)
  PROVE  /\ Congruent(reached, a * zeta)
         /\ Short(reached) /\ Attained(reached, r)
<1>r. r \in Nat /\ -r <= a /\ a <= r
  BY DEF Inside
<1>1. a \in Int /\ -32768 <= a /\ a <= 32767 /\ zeta \in Int /\ 1 <= zeta /\ zeta <= 3328
  BY SMT DEF Int16, Q
<1>2. PICK b \in Int : b = (zeta * 32768 + 1664) \div 3329
  BY <1>1, SMT
<1> DEFINE e == zeta * 32768 - b * 3329
<1>3. e \in Int /\ -1664 <= e /\ e <= 1664 /\ e = zeta * 32768 - b * 3329
  BY <1>1, <1>2, SMT
<1> HIDE DEF e
<1>4. 0 <= b /\ b <= 32758
  BY <1>1, <1>3, SMT
<1> DEFINE p == a * zeta
           s == a * b
           w == a * e
<1>5. p \in Int /\ s \in Int /\ w \in Int
  BY <1>1, <1>3, SMT
<1>6. 32768 * p = w + 3329 * s
  BY <1>1, <1>3, <1>5, SMT
<1>7. -54525952 <= w /\ w <= 54525952
  BY <1>1, <1>3, <1>5, ProductBound, SMT
<1>8. -1073741824 <= s /\ s <= 1073709056
  BY <1>1, <1>4, MultiplierBound, SMT
<1> HIDE DEF p, s, w
<1>9. PICK t \in Int : t = (s + 16384) \div 32768
  <2>1. (s + 16384) \div 32768 \in Int
    BY <1>5, SMT
  <2> QED
    BY <2>1, SMT
<1>10. 32768 * t <= s + 16384 /\ s + 16384 < 32768 * (t + 1)
  BY <1>5, <1>9, SMT
<1>11. PICK d \in Int : d = p - t * 3329
  <2>1. p - t * 3329 \in Int
    BY <1>5, SMT
  <2> QED
    BY <2>1, SMT
<1>12. -3328 <= d /\ d <= 3328
  BY <1>5, <1>6, <1>7, <1>10, <1>11, SMT
<1>13. -32768 <= t /\ t <= 32767
  BY <1>5, <1>10, <1>8, SMT
<1>14. Wrap16(t) = t
  BY <1>13, InInt16, WrapInside
<1>15. d \in Int16
  <2>1. -32768 <= d /\ d <= 32767
    BY <1>12, SMT
  <2> QED
    BY <2>1, InInt16
<1>16. PICK u \in Int : u = t * 3329
  <2>1. t * 3329 \in Int
    BY SMT
  <2> QED
    BY <2>1, SMT
<1>17. Wrap16(Wrap16(p) - Wrap16(u)) = d
  <2>1. d = p - u
    BY <1>11, <1>16, SMT
  <2> QED
    BY <1>5, <1>15, <2>1, WrapSub
<1>18. Q \div 2 = 1664
  BY SMT DEF Q
<1>19. BarrettMultiplier(zeta) = b
  BY <1>2, <1>18, SMT DEF BarrettMultiplier, Q
<1>20. BarrettConstMul(a, zeta) = d
  BY <1>9, <1>14, <1>16, <1>17, <1>19, SMT DEF BarrettConstMul, Q, p, s
<1>21. Multiple(d, p)
  <2>1. PICK k \in Int : k = -t
    BY SMT
  <2>2. d = p + k * 3329
    BY <1>5, <1>11, <2>1, SMT
  <2> QED
    BY <2>2, SMT DEF Multiple, Q
<1>22. Congruent(d, p)
  BY <1>5, <1>21, MultipleCongruent
<1>23. -(1664 * r) <= w /\ w <= 1664 * r
  BY <1>r, <1>1, <1>3, ProductWithin, SMT DEF w
<1>24. -(3329 * r + 109084672) <= 65536 * d /\ 65536 * d <= 3329 * r + 109084672
  BY <1>r, <1>5, <1>6, <1>23, <1>10, <1>11, SMT
<1>25. Attained(d, r)
  BY <1>r, <1>24, SMT DEF Attained
<1>26. Short(d)
  BY <1>12, SMT DEF Short
<1> QED
  BY <1>20, <1>22, <1>25, <1>26 DEF p

LEMMA ConstMulShort ==
  ASSUME NEW a \in Int16, NEW zeta \in 1 .. Q - 1, NEW e, e = BarrettConstMul(a, zeta)
  PROVE  Congruent(e, a * zeta) /\ Short(e)
<1>1. PICK r : Inside(a, r)
  <2>1. Inside(a, 32768)
    BY SMT DEF Int16, Inside
  <2> QED
    BY <2>1, SMT
<1> QED
  BY <1>1, ConstMulReach, Zenon

LEMMA ConstMulExact ==
  ASSUME NEW a \in Int16, NEW zeta \in 1 .. Q - 1
  PROVE  /\ Congruent(BarrettConstMul(a, zeta), a * zeta)
         /\ BarrettConstMul(a, zeta) \in -3328 .. 3328
<1>1. PICK e : e = BarrettConstMul(a, zeta)
  BY Zenon
<1>2. Congruent(e, a * zeta) /\ Short(e)
  BY <1>1, ConstMulShort, Zenon
<1>3. e \in -3328 .. 3328
  BY <1>2, SMT DEF Short
<1> QED
  BY <1>1, <1>2, <1>3

-----------------------------------------------------------------------------
\* Chained floors.
LEMMA LimbsBelow ==
  ASSUME NEW a \in Nat, NEW b \in Nat, NEW t0 \in Nat, NEW h1 \in Nat, NEW h2 \in Nat, NEW m \in Nat,
         2048 * t0 <= b * 1903, 2 * h1 <= b * 1259 + t0, 2048 * h2 <= a * 1903 + h1,
         1024 * m <= a * 1259 + h2
  PROVE  8589934592 * m <= 2580335 * (a * 4096 + b)
<1>1. 2097152 * m <= 2048 * a * 1259 + a * 1903 + h1
  BY SMT
<1>2. 4194304 * m <= 2 * 2580335 * a + b * 1259 + t0
  BY <1>1, SMT
<1>3. 2048 * 4194304 * m <= 2048 * 2 * 2580335 * a + 2048 * b * 1259 + b * 1903
  BY <1>2, SMT
<1> QED
  BY <1>3, SMT

LEMMA LimbsAbove ==
  ASSUME NEW a \in Nat, NEW b \in Nat, NEW t0 \in Nat, NEW h1 \in Nat, NEW h2 \in Nat, NEW m \in Nat,
         b * 1903 < 2048 * (t0 + 1), b * 1259 + t0 < 2 * (h1 + 1), a * 1903 + h1 < 2048 * (h2 + 1),
         a * 1259 + h2 < 1024 * (m + 1)
  PROVE  2580335 * (a * 4096 + b) < 8589934592 * (m + 1)
<1>1. 2048 * a * 1259 + a * 1903 + h1 < 2097152 * (m + 1)
  <2>1. a * 1259 + h2 + 1 <= 1024 * (m + 1)
    BY SMT
  <2>2. 2048 * (a * 1259) + 2048 * (h2 + 1) <= 2097152 * (m + 1)
    BY <2>1, SMT
  <2> QED
    BY <2>2, SMT
<1>2. 2 * 2580335 * a + b * 1259 + t0 < 4194304 * (m + 1)
  BY <1>1, SMT
<1>3. 2048 * 2 * 2580335 * a + 2048 * b * 1259 + b * 1903 < 2048 * 4194304 * (m + 1)
  BY <1>2, SMT
<1> QED
  BY <1>3, SMT

LEMMA DivUnique ==
  ASSUME NEW n \in Nat, n <= 13637312, NEW m \in Nat,
         8589934592 * m <= 2580335 * n, 2580335 * n < 8589934592 * (m + 1)
  PROVE  m = n \div 3329
<1>1. PICK w \in Nat, r \in Nat : n = w * 3329 + r /\ r <= 3328 /\ w = n \div 3329
  <2>1. n \div 3329 \in Nat /\ n % 3329 \in Nat /\ n % 3329 <= 3328
    BY SMT
  <2>2. n = (n \div 3329) * 3329 + (n % 3329)
    BY SMT
  <2> QED
    BY <2>1, <2>2, SMT
<1>2. w <= 4096
  BY <1>1, SMT
<1>3. 2580335 * n = 8589934592 * w + 623 * w + 2580335 * r
  BY <1>1, SMT
<1>4. 623 * w + 2580335 * r < 8589934592
  BY <1>1, <1>2, SMT
<1>5. 8589934592 * m < 8589934592 * (w + 1)
  BY <1>3, <1>4, SMT
<1>6. 8589934592 * w < 8589934592 * (m + 1)
  BY <1>1, <1>3, SMT
<1>7. m < w + 1 /\ w < m + 1
  BY <1>1, <1>5, <1>6, SMT
<1> QED
  BY <1>1, <1>7, SMT

LEMMA DivQExact ==
  ASSUME NEW n \in Nat, n <= 13637312
  PROVE  DivQ(n) = n \div Q
<1> DEFINE a == n \div 4096
           b == n % 4096
           t0 == (b * 1903) \div 2048
           h1 == (b * 1259 + t0) \div 2
           h2 == (a * 1903 + h1) \div 2048
           m == (a * 1259 + h2) \div 1024
<1>1. a \in Nat /\ b \in Nat /\ n = a * 4096 + b
  BY SMT
<1>2. DivQ(n) = m
  BY SMT DEF DivQ
<1> HIDE DEF a, b
<1>3. t0 \in Nat /\ 2048 * t0 <= b * 1903 /\ b * 1903 < 2048 * (t0 + 1)
  BY <1>1, SMT
<1> HIDE DEF t0
<1>4. h1 \in Nat /\ 2 * h1 <= b * 1259 + t0 /\ b * 1259 + t0 < 2 * (h1 + 1)
  BY <1>1, <1>3, SMT
<1> HIDE DEF h1
<1>5. h2 \in Nat /\ 2048 * h2 <= a * 1903 + h1 /\ a * 1903 + h1 < 2048 * (h2 + 1)
  BY <1>1, <1>4, SMT
<1> HIDE DEF h2
<1>6. m \in Nat /\ 1024 * m <= a * 1259 + h2 /\ a * 1259 + h2 < 1024 * (m + 1)
  BY <1>1, <1>5, SMT
<1> HIDE DEF m
<1>7. 8589934592 * m <= 2580335 * (a * 4096 + b)
  BY <1>1, <1>3, <1>4, <1>5, <1>6, LimbsBelow, SMT
<1>8. 2580335 * (a * 4096 + b) < 8589934592 * (m + 1)
  BY <1>1, <1>3, <1>4, <1>5, <1>6, LimbsAbove, SMT
<1>9. m = n \div 3329
  BY <1>1, <1>6, <1>7, <1>8, DivUnique, SMT
<1> QED
  BY <1>2, <1>9, SMT DEF Q

-----------------------------------------------------------------------------
\* A canonical value of an i16 is its remainder by q.
LEMMA ValueExact ==
  ASSUME NEW a \in Int16
  PROVE  Value(a) = a % Q
<1>1. Multiple(Barrett(a), a)
  BY BarrettExact
<1>2. Barrett(a) \in Int /\ -1664 <= Barrett(a) /\ Barrett(a) <= 1664
  BY BarrettExact
<1>3. a \in Int
  BY SMT DEF Int16
<1>4. CASE Barrett(a) >= 0
  <2>1. 0 <= Barrett(a) /\ Barrett(a) <= 3328 /\ ~(Barrett(a) < 0)
    BY <1>2, <1>4, SMT
  <2>2. Barrett(a) = a % Q
    BY <1>1, <1>2, <1>3, <2>1, Remainder
  <2> QED
    BY <2>1, <2>2 DEF Value
<1>5. CASE Barrett(a) < 0
  <2>1. Barrett(a) + Q \in Int /\ 0 <= Barrett(a) + Q /\ Barrett(a) + Q <= 3328
    BY <1>2, <1>5, SMT DEF Q
  <2>2. Multiple(Barrett(a) + Q, a)
    BY <1>1, <1>2, <1>3, MultipleNext
  <2>3. Barrett(a) + Q = a % Q
    BY <1>3, <2>1, <2>2, Remainder
  <2> QED
    BY <1>5, <2>3 DEF Value
<1> QED
  BY <1>2, <1>4, <1>5, SMT

LEMMA NewExact ==
  ASSUME NEW v \in Nat, v <= 65535
  PROVE  New(v) = v % Q
<1>1. DivQ(v) = v \div Q
  <2>1. v <= 13637312
    BY SMT
  <2> QED
    BY <2>1, DivQExact, SMT
<1>2. v = (v \div Q) * Q + (v % Q)
  BY SMT DEF Q
<1>3. v \div Q \in Int /\ v % Q \in Int
  BY SMT DEF Q
<1> QED
  BY <1>1, <1>2, <1>3, SMT DEF New, Q

-----------------------------------------------------------------------------
\* The sweep stays within the 16-bit integers.
THEOREM TypeCorrect == Spec => []TypeOK
<1>1. Init => TypeOK
  BY SMT DEF Init, TypeOK, Int16
<1>2. TypeOK /\ [Next]_x => TypeOK'
  BY SMT DEF TypeOK, Next, Int16
<1> QED
  BY <1>1, <1>2, PTL DEF Spec

\* Barrett reduction is exact and centred for every i16.
THEOREM Reduces == Spec => []ReduceIsExact
<1>1. TypeOK => ReduceIsExact
  <2> SUFFICES ASSUME TypeOK PROVE ReduceIsExact
    OBVIOUS
  <2>1. x \in Int16 /\ x \in Int
    BY SMT DEF TypeOK, Int16
  <2>2. Barrett(x) \in Int /\ -1664 <= Barrett(x) /\ Barrett(x) <= 1664 /\ Multiple(Barrett(x), x)
    BY <2>1, BarrettExact
  <2>3. Congruent(Barrett(x), x)
    BY <2>1, <2>2, MultipleCongruent
  <2>4. Value(x) = x % Q
    BY <2>1, ValueExact
  <2>5. Barrett(x) \in -1664 .. 1664
    BY <2>2, SMT
  <2> QED
    BY <2>3, <2>4, <2>5 DEF ReduceIsExact
<1> QED
  BY <1>1, TypeCorrect, PTL

\* Every sum of products that base multiplication forms, whatever halves are
\* chosen, is reduced exactly and within 1.2 q.
THEOREM SumsReduce == Spec => []SumsReduceExactly
<1>1. TypeOK => SumsReduceExactly
  <2> SUFFICES ASSUME TypeOK, NEW h \in Highs, Wrap16(h) \in ProductHighs
               PROVE  /\ SumReduced(Wrap16(h), Low(x))
                      /\ FromProductSum(Wrap16(h), Low(x)) \in EntryBound
    BY DEF SumsReduceExactly
  <2>1. Low(x) \in UInt16
    BY SMT DEF TypeOK, Int16, UInt16, Low
  <2> QED
    BY <2>1, MontgomeryExact
<1> QED
  BY <1>1, TypeCorrect, PTL

\* A butterfly's product with every zeta of the table is exact and below q.
THEOREM ConstMuls == Spec => []ConstMulIsExact
<1>1. TypeOK => ConstMulIsExact
  <2> SUFFICES ASSUME TypeOK, NEW k \in DOMAIN ZETA_RAW
               PROVE  LET r == BarrettConstMul(x, ZETA_RAW[k])
                      IN Congruent(r, x * ZETA_RAW[k]) /\ r \in -3328 .. 3328
    BY DEF ConstMulIsExact
  <2> DEFINE zeta == ZETA_RAW[k]
  <2>1. zeta \in 1 .. Q - 1
    BY TablesAssumption DEF ZETA_RAW
  <2> HIDE DEF zeta
  <2>2. Congruent(BarrettConstMul(x, zeta), x * zeta) /\ BarrettConstMul(x, zeta) \in -3328 .. 3328
    BY <2>1, ConstMulExact DEF TypeOK
  <2> QED
    BY <2>2 DEF zeta
<1> QED
  BY <1>1, TypeCorrect, PTL

\* new is exact for every u16.
THEOREM NewReduces == Spec => []NewIsExact
<1>1. TypeOK => NewIsExact
  <2> SUFFICES ASSUME TypeOK PROVE NewIsExact
    OBVIOUS
  <2>1. PICK v \in Nat : v = x + 32768 /\ v <= 65535
    BY SMT DEF TypeOK, Int16
  <2>2. New(v) = v % Q
    BY <2>1, NewExact
  <2> QED
    BY <2>1, <2>2, SMT DEF NewIsExact
<1> QED
  BY <1>1, TypeCorrect, PTL
-----------------------------------------------------------------------------
(* Compression.                                                            *)

\* The canonical values, and the halves of the scales 2 .. 4096.
Canonical == 0 .. 3328
Halves == 1 .. 2048

LEMMA Powers ==
  ASSUME NEW d \in 1 .. 12
  PROVE  /\ 2^d \in Int /\ 2^(d - 1) \in Int /\ 2^(d + 1) = 2 * 2^d /\ 2^d = 2 * 2^(d - 1)
         /\ 2^(d - 1) \in Halves
<1>1. CASE d = 1
  BY <1>1, SMT DEF Halves
<1>2. CASE d = 2
  BY <1>2, SMT DEF Halves
<1>3. CASE d = 3
  BY <1>3, SMT DEF Halves
<1>4. CASE d = 4
  BY <1>4, SMT DEF Halves
<1>5. CASE d = 5
  BY <1>5, SMT DEF Halves
<1>6. CASE d = 6
  BY <1>6, SMT DEF Halves
<1>7. CASE d = 7
  BY <1>7, SMT DEF Halves
<1>8. CASE d = 8
  BY <1>8, SMT DEF Halves
<1>9. CASE d = 9
  BY <1>9, SMT DEF Halves
<1>10. CASE d = 10
  BY <1>10, SMT DEF Halves
<1>11. CASE d = 11
  BY <1>11, SMT DEF Halves
<1>12. CASE d = 12
  BY <1>12, SMT DEF Halves
<1> QED
  BY <1>1, <1>2, <1>3, <1>4, <1>5, <1>6, <1>7, <1>8, <1>9, <1>10, <1>11, <1>12, SMT

\* Divided euclideanly.
LEMMA Divided ==
  ASSUME NEW n \in Int, NEW p \in Int, p >= 1
  PROVE  /\ n \div p \in Int /\ n % p \in Int
         /\ n = p * (n \div p) + (n % p) /\ 0 <= n % p /\ n % p < p
BY SMT

IsQuotient(z, n, p) == z = n \div p /\ p * z <= n /\ n < p * (z + 1)

LEMMA Quotient ==
  ASSUME NEW n \in Int, NEW p \in Int, p >= 1
  PROVE  \E z \in Int : IsQuotient(z, n, p)
<1>1. PICK z \in Int, r \in Int : z = n \div p /\ n = p * z + r /\ 0 <= r /\ r < p
  BY Divided
<1>2. p * (z + 1) = p * z + p
  BY SMT
<1>3. p * z <= n /\ n < p * (z + 1)
  BY <1>1, <1>2, SMT
<1> QED
  BY <1>1, <1>3 DEF IsQuotient

\* A multiple of the quotient is no more than its number.
LEMMA Ordered ==
  ASSUME NEW a \in Int, NEW b \in Int, NEW p \in Int, p >= 1, a <= b
  PROVE  p * a <= p * b
BY SMT

LEMMA QuotientUnique ==
  ASSUME NEW n \in Int, NEW p \in Int, p >= 1, NEW m \in Int, p * m <= n, n < p * (m + 1)
  PROVE  n \div p = m
<1>1. PICK w \in Int, r \in Int : w = n \div p /\ n = p * w + r /\ 0 <= r /\ r < p
  BY Divided, SMT
<1>2. w + 1 <= m => p * (w + 1) <= p * m
  BY <1>1, Ordered, SMT
<1>3. m + 1 <= w => p * (m + 1) <= p * w
  BY <1>1, Ordered, SMT
<1>4. p * (w + 1) = p * w + p
  BY <1>1, SMT
<1>5. ~(w + 1 <= m) /\ ~(m + 1 <= w)
  BY <1>1, <1>2, <1>3, <1>4, SMT
<1> QED
  BY <1>1, <1>5, SMT

\* The value z that m, the rounded v * p / q, stands for is half a step off v
\* at most.
LEMMA HalfAStep ==
  ASSUME NEW v \in Int, NEW half \in Int, half >= 1, NEW p \in Int, p = 2 * half,
         NEW m \in Int, NEW r \in Int, 0 <= r, r <= 3328, p * v + 1664 = 3329 * m + r,
         NEW z \in Int, p * z <= 3329 * m + half, 3329 * m + half < p * (z + 1),
         NEW most \in Int, (2 * p) * most <= 3329 + p, 3329 + p < (2 * p) * (most + 1)
  PROVE  -most <= z - v /\ z - v <= most
<1>1. p * (z - v) <= 1664 - r + half /\ 1664 - r + half < p * (z - v + 1)
  <2>1. p * (z - v) = p * z - p * v /\ p * (z - v + 1) = p * (z + 1) - p * v
    BY SMT
  <2> QED
    BY <2>1, SMT
<1>2. /\ (2 * p) * most = 2 * (p * most) /\ (2 * p) * (most + 1) = 2 * (p * most) + 2 * p
      /\ p * (most + 1) = p * most + p /\ p * (-most) = -(p * most)
  BY SMT
<1>3. most + 1 <= z - v => p * (most + 1) <= p * (z - v)
  BY Ordered, SMT
<1>4. z - v + 1 <= -most => p * (z - v + 1) <= p * (-most)
  BY Ordered, SMT
<1>5. ~(most + 1 <= z - v)
  BY <1>1, <1>2, <1>3, SMT
<1>6. ~(z - v + 1 <= -most)
  BY <1>1, <1>2, <1>4, SMT
<1> QED
  BY <1>5, <1>6, SMT

\* The rounding of compress is to the nearest, halves up.
LEMMA Nearest ==
  ASSUME NEW n \in Int
  PROVE  (2 * n + 3329) \div 6658 = (n + 1664) \div 3329
<1>1. PICK m \in Int : m = (n + 1664) \div 3329 /\ 3329 * m <= n + 1664 /\ n + 1664 < 3329 * (m + 1)
  BY SMT
<1>2. 6658 * m <= 2 * n + 3329 /\ 2 * n + 3329 < 6658 * (m + 1)
  BY <1>1, SMT
<1> QED
  BY <1>1, <1>2, QuotientUnique, SMT

\* Two numbers that differ by a multiple of q and are close are the same.
LEMMA CloseSame ==
  ASSUME NEW a \in Int, NEW b \in Int, Multiple(a, b), a - b <= 3328, b - a <= 3328
  PROVE  a = b
<1>1. PICK k \in Int : a = b + k * 3329
  BY SMT DEF Multiple, Q
<1> QED
  BY <1>1, SMT

\* Compress and Decompress for the canonical value v, the scale p and its half.
CompressAt(v, p) == DivQ(v * p + Q \div 2) % p
\* z is the multiple of q / p that m stands for, rounded, before it is reduced.
StandsFor(m, z, half, p) == p * z <= Q * m + half /\ Q * m + half < p * (z + 1)
DecompressAt(y, half, p) == New((Q * y + half) \div p)

LEMMA CompressForm ==
  ASSUME NEW a, NEW d
  PROVE  Compress(a, d) = CompressAt(Value(a), 2^d)
BY Zenon DEF Compress, CompressAt

LEMMA DecompressForm ==
  ASSUME NEW y, NEW d
  PROVE  Decompress(y, d) = DecompressAt(y, 2^(d - 1), 2^d)
BY Zenon DEF Decompress, DecompressAt

LEMMA MultiplePick ==
  ASSUME NEW a \in Int, NEW b \in Int, Multiple(a, b)
  PROVE  \E k \in Int : a = b + k * 3329
BY SMT DEF Multiple, Q

LEMMA CompressOf ==
  ASSUME NEW v \in Canonical, NEW half \in Halves, NEW p \in Int, p = 2 * half
  PROVE  /\ CompressAt(v, p) = ((v * (2 * p) + Q) \div (2 * Q)) % p
         /\ LET off == Barrett(DecompressAt(CompressAt(v, p), half, p) - v)
                most == (Q + p) \div (2 * p)
            IN off \in -most .. most
<1>0. v \in Int /\ 0 <= v /\ v <= 3328 /\ half \in Int /\ 1 <= half /\ half <= 2048
  BY SMT DEF Canonical, Halves
<1>1. p \in Int /\ p = 2 * half /\ p >= 1
  BY <1>0, SMT
<1>2. PICK w \in Nat : w = v * p /\ w <= 3328 * p
  BY <1>0, <1>1, SMT
<1>3. PICK m \in Int, r \in Int : /\ m = (w + 1664) \div 3329 /\ w + 1664 = 3329 * m + r
                                  /\ 0 <= r /\ r <= 3328 /\ 0 <= m /\ m <= p
  <2>1. /\ (w + 1664) \div 3329 \in Int /\ (w + 1664) % 3329 \in Int
        /\ w + 1664 = 3329 * ((w + 1664) \div 3329) + ((w + 1664) % 3329)
        /\ 0 <= (w + 1664) % 3329 /\ (w + 1664) % 3329 <= 3328
    BY SMT
  <2> QED
    BY <1>0, <1>1, <1>2, <2>1, SMT
<1>4. CompressAt(v, p) = m % p
  <2>1. DivQ(w + 1664) = (w + 1664) \div Q
    <3>1. w + 1664 \in Nat /\ w + 1664 <= 13637312
      BY <1>0, <1>1, <1>2, SMT
    <3> QED
      BY <3>1, DivQExact, SMT
  <2>2. Q \div 2 = 1664 /\ Q = 3329
    BY SMT DEF Q
  <2>3. CompressAt(v, p) = DivQ(v * p + Q \div 2) % p
    BY Zenon DEF CompressAt
  <2> QED
    BY <1>2, <1>3, <2>1, <2>2, <2>3, SMT
<1>5. ((v * (2 * p) + Q) \div (2 * Q)) % p = m % p
  <2>1. v * (2 * p) = 2 * w
    BY <1>0, <1>1, <1>2, SMT
  <2>2. (2 * w + 3329) \div 6658 = (w + 1664) \div 3329
    BY Nearest, SMT
  <2>3. 2 * Q = 6658 /\ Q = 3329
    BY SMT DEF Q
  <2> QED
    BY <1>3, <2>1, <2>2, <2>3, SMT
<1>6. \E z \in Int : /\ StandsFor(m, z, half, p)
                     /\ Multiple(DecompressAt(m % p, half, p), z)
                     /\ DecompressAt(m % p, half, p) \in Canonical
  <2>1. CASE m < p
    <3>1. m % p = m
      BY <1>0, <1>1, <1>3, <2>1, SMT
    <3>2. PICK z \in Int : z = (Q * m + half) \div p /\ p * z <= Q * m + half
                           /\ Q * m + half < p * (z + 1)
      <4>1. PICK g \in Int : g = Q * m + half
        BY <1>0, SMT DEF Q
      <4>2. p >= 1
        BY <1>1
      <4>3. PICK z \in Int : IsQuotient(z, g, p)
        BY <4>2, Quotient, Zenon
      <4>4. z = g \div p /\ p * z <= g /\ g < p * (z + 1)
        BY <4>3 DEF IsQuotient
      <4> QED
        BY <4>1, <4>4, Zenon
    <3>3. 0 <= z /\ z <= 3329
      <4>1. z <= -1 => p * z <= p * (-1)
        BY <1>0, <1>1, Ordered, SMT
      <4>2. 3330 <= z => p * 3330 <= p * z
        BY <1>0, <1>1, Ordered, SMT
      <4> QED
        BY <1>0, <1>1, <1>3, <2>1, <3>2, <4>1, <4>2, SMT DEF Q
    <3>4. DecompressAt(m % p, half, p) = z % Q
      <4>1. DecompressAt(m % p, half, p) = New((Q * m + half) \div p)
        BY <3>1, Zenon DEF DecompressAt
      <4>2. DecompressAt(m % p, half, p) = New(z)
        BY <3>2, <4>1
      <4>3. z \in Nat /\ z <= 65535
        BY <1>0, <1>1, <3>3, SMT
      <4> QED
        BY <4>2, <4>3, NewExact
    <3>5. Multiple(z % Q, z) /\ z % Q \in Canonical
      <4>1. PICK k \in Int : z = 3329 * k + (z % 3329) /\ z % 3329 \in 0 .. 3328
        BY <1>0, <1>1, SMT
      <4>2. PICK i \in Int : i = -k
        BY <1>0, <1>1, SMT
      <4>3. z % Q = z + i * Q
        BY <1>0, <1>1, <4>1, <4>2, SMT DEF Q
      <4> QED
        BY <1>0, <1>1, <4>1, <4>3, SMT DEF Multiple, Q, Canonical
    <3>6. StandsFor(m, z, half, p)
      BY <3>2 DEF StandsFor
    <3> QED
      BY <3>4, <3>5, <3>6
  <2>2. CASE m = p
    <3>1. m % p = 0
      BY <1>0, <1>1, <2>2, SMT
    <3>2. half \div p = 0
      BY <1>0, <1>1, QuotientUnique, SMT
    <3>3. DecompressAt(m % p, half, p) = New(0)
      <4>1. DecompressAt(m % p, half, p) = New((Q * 0 + half) \div p)
        BY <3>1, Zenon DEF DecompressAt
      <4>2. Q * 0 + half = half
        BY <1>0, <1>1, SMT DEF Q
      <4> QED
        BY <3>2, <4>1, <4>2
    <3>4. DecompressAt(m % p, half, p) = 0
      BY <1>0, <1>1, <3>3, NewExact, SMT DEF Q
    <3>5. Multiple(0, 3329)
      <4>1. 0 = 3329 + (-1) * Q
        BY <1>0, <1>1, SMT DEF Q
      <4> QED
        BY <1>0, <1>1, <4>1, SMT DEF Multiple
    <3>6. StandsFor(m, 3329, half, p)
      BY <1>0, <1>1, <2>2, SMT DEF StandsFor, Q
    <3>7. 0 \in Canonical /\ 3329 \in Int
      BY SMT DEF Canonical
    <3> QED
      BY <3>4, <3>5, <3>6, <3>7
  <2>3. m < p \/ m = p
    BY <1>0, <1>1, <1>3, SMT
  <2> QED
    BY <2>1, <2>2, <2>3
<1>7. PICK most \in Int : /\ most = (Q + p) \div (2 * p)
                          /\ (2 * p) * most <= 3329 + p /\ 3329 + p < (2 * p) * (most + 1)
                          /\ most <= 1664
  <2>1. PICK n \in Int, t \in Int : n = Q + p /\ t = 2 * p
    BY <1>1, SMT DEF Q
  <2>2. t >= 1
    BY <1>1, <2>1, SMT
  <2>3. PICK most \in Int : IsQuotient(most, n, t)
    BY <2>2, Quotient, Zenon
  <2>4. /\ most = (Q + p) \div (2 * p)
        /\ (2 * p) * most <= Q + p /\ Q + p < (2 * p) * (most + 1)
    BY <2>1, <2>3, Zenon DEF IsQuotient
  <2>5. 1665 <= most => t * 1665 <= t * most
    BY <2>2, Ordered, SMT
  <2>6. most <= 1664
    BY <1>0, <1>1, <2>1, <2>4, <2>5, SMT DEF Q
  <2>7. Q = 3329
    BY SMT DEF Q
  <2> QED
    BY <2>4, <2>6, <2>7
<1>8. PICK z \in Int, y \in Canonical : /\ StandsFor(m, z, half, p) /\ Multiple(y, z)
                                        /\ y = DecompressAt(m % p, half, p)
  BY <1>6
<1>9. -most <= z - v /\ z - v <= most
  <2>1. p * v + 1664 = 3329 * m + r
    BY <1>0, <1>1, <1>2, <1>3, SMT
  <2>2. p * z <= 3329 * m + half /\ 3329 * m + half < p * (z + 1)
    BY <1>8, SMT DEF StandsFor, Q
  <2> QED
    BY <1>0, <1>1, <1>3, <1>7, <2>1, <2>2, HalfAStep, SMT
<1>10. PICK off \in Int : off = Barrett(y - v) /\ -1664 <= off /\ off <= 1664 /\ Multiple(off, y - v)
  <2>1. y - v \in Int16
    BY <1>0, SMT DEF Int16, Canonical
  <2> QED
    BY <2>1, BarrettExact, SMT
<1>11. Multiple(off, z - v)
  <2>0. y \in Int /\ y - v \in Int
    BY <1>0, SMT DEF Canonical
  <2>1. PICK i \in Int : y = z + i * 3329
    BY <1>8, <2>0, MultiplePick
  <2>2. PICK k \in Int : off = (y - v) + k * 3329
    BY <1>10, <2>0, MultiplePick
  <2>3. PICK t \in Int : t = i + k
    BY SMT
  <2>4. off = (z - v) + t * 3329
    BY <1>0, <2>0, <2>1, <2>2, <2>3, SMT
  <2> QED
    BY <2>4, SMT DEF Multiple, Q
<1>12. off = z - v
  BY <1>0, <1>7, <1>9, <1>10, <1>11, CloseSame, SMT
<1>13. off \in -most .. most
  BY <1>9, <1>12, SMT
<1> QED
  BY <1>4, <1>5, <1>7, <1>8, <1>10, <1>13

LEMMA CompressExact ==
  ASSUME NEW a \in Int16, NEW d \in 1 .. 12
  PROVE  /\ Compress(a, d) = ((Value(a) * 2^(d + 1) + Q) \div (2 * Q)) % 2^d
         /\ LET off == Barrett(Decompress(Compress(a, d), d) - Value(a))
                most == (Q + 2^d) \div 2^(d + 1)
            IN off \in -most .. most
<1>1. Value(a) \in Canonical
  <2>1. a \in Int
    BY SMT DEF Int16
  <2>2. a % Q \in Int /\ 0 <= a % Q /\ a % Q <= 3328
    BY <2>1, SMT DEF Q
  <2>3. a % Q \in Canonical
    BY <2>2, SMT DEF Canonical
  <2> QED
    BY <2>1, <2>2, <2>3, ValueExact
<1>2. /\ 2^d \in Int /\ 2^(d + 1) = 2 * 2^d /\ 2^d = 2 * 2^(d - 1) /\ 2^(d - 1) \in Halves
  BY Powers, Zenon
<1>3. PICK v \in Canonical, half \in Halves, p \in Int :
        /\ v = Value(a) /\ half = 2^(d - 1) /\ p = 2^d /\ 2^(d + 1) = 2 * p /\ p = 2 * half
  BY <1>1, <1>2, Zenon
<1>4. p = 2 * half
  BY <1>3, Zenon
<1>5. /\ CompressAt(v, p) = ((v * (2 * p) + Q) \div (2 * Q)) % p
      /\ LET off == Barrett(DecompressAt(CompressAt(v, p), half, p) - v)
             most == (Q + p) \div (2 * p)
         IN off \in -most .. most
  BY <1>4, CompressOf, Zenon
<1>6. Compress(a, d) = CompressAt(v, p)
  BY <1>3, CompressForm, Zenon
<1>7. Decompress(CompressAt(v, p), d) = DecompressAt(CompressAt(v, p), half, p)
  BY <1>3, DecompressForm, Zenon
<1> QED
  BY <1>3, <1>5, <1>6, <1>7, Zenon

\* Compress_d rounds to the nearest multiple, halves up, and Decompress_d is
\* off by half a step at most, for every i16 and every d (FIPS 203 equations
\* 4.7 and 4.8, src/src/algebraic/field.rs:197-225).
THEOREM Compresses == Spec => []CompressRounds
<1>1. TypeOK => CompressRounds
  <2> SUFFICES ASSUME TypeOK, NEW d \in Depths
               PROVE  /\ Compress(x, d) = ((Value(x) * 2^(d + 1) + Q) \div (2 * Q)) % 2^d
                      /\ LET off == Barrett(Decompress(Compress(x, d), d) - Value(x))
                             most == (Q + 2^d) \div 2^(d + 1)
                         IN off \in -most .. most
    BY SMT DEF CompressRounds
  <2>1. x \in Int16 /\ d \in 1 .. 12
    BY SweepAssumption DEF TypeOK
  <2> QED
    BY <2>1, CompressExact
<1> QED
  BY <1>1, TypeCorrect, PTL

-----------------------------------------------------------------------------
(* The vector kernels.  The backends' modules are instances, whose copies  *)
(* of the field's definitions are the field's.                             *)

\* The AVX2 module's words are the field's.
LEMMA WordsOfAvx2 ==
  ASSUME NEW v
  PROVE  /\ A!Wrap16(v) = Wrap16(v) /\ A!High(v) = High(v) /\ A!Low(v) = Low(v)
         /\ A!Q = Q /\ A!QINV = QINV /\ A!BARRETT_V = BARRETT_V
BY SMT DEF A!Wrap16, A!High, A!Low, A!Q, A!QINV, A!BARRETT_V, Wrap16, High, Low, Q, QINV, BARRETT_V

\* So are the NEON module's.
LEMMA WordsOfNeon ==
  ASSUME NEW v
  PROVE  /\ N!Wrap16(v) = Wrap16(v) /\ N!High(v) = High(v) /\ N!Low(v) = Low(v)
         /\ N!Q = Q /\ N!QINV = QINV /\ N!BARRETT_V = BARRETT_V
BY SMT DEF N!Wrap16, N!High, N!Low, N!Q, N!QINV, N!BARRETT_V, Wrap16, High, Low, Q, QINV, BARRETT_V

LEMMA DivQOfAvx2 ==
  ASSUME NEW n
  PROVE  A!DivQ(n) = DivQ(n)
BY Zenon DEF A!DivQ, DivQ

\* The quotient of barrett, before it is wrapped.
BarrettQuotient(a) == (BARRETT_V * a + 33554432) \div 67108864

LEMMA QuotientSmall ==
  ASSUME NEW a \in Int16
  PROVE  /\ BarrettQuotient(a) \in Int16 /\ Wrap16(BarrettQuotient(a)) = BarrettQuotient(a)
         /\ Barrett(a) = Wrap16(a - BarrettQuotient(a) * Q)
         /\ Barrett(a) = Wrap16(a - Wrap16(BarrettQuotient(a) * Q))
<1>1. a \in Int /\ -32768 <= a /\ a <= 32767
  BY SMT DEF Int16
<1>2. PICK t \in Int : t = (20159 * a + 33554432) \div 67108864
  BY <1>1, SMT
<1>3. 67108864 * t <= 20159 * a + 33554432 /\ 20159 * a + 33554432 < 67108864 * (t + 1)
  BY <1>1, <1>2, SMT
<1>4. -11 < t /\ t < 11
  BY <1>1, <1>3, SMT
<1>5. t \in Int16
  <2>1. -32768 <= t /\ t <= 32767
    BY <1>4, SMT
  <2> QED
    BY <2>1, InInt16
<1>6. Wrap16(t) = t
  BY <1>5, WrapInside
<1>7. BarrettQuotient(a) = t
  BY <1>1, <1>2, SMT DEF BarrettQuotient, BARRETT_V
<1>8. Barrett(a) = Wrap16(a - Wrap16(t * Q))
  BY <1>6, <1>7 DEF Barrett, BarrettQuotient
<1>9. -1664 <= a - t * 3329 /\ a - t * 3329 <= 1664 /\ a - t * 3329 \in Int /\ t * 3329 \in Int
  BY <1>1, <1>3, <1>4, SMT
<1>10. a - t * 3329 \in Int16
  <2>1. -32768 <= a - t * 3329 /\ a - t * 3329 <= 32767
    BY <1>1, <1>9, SMT
  <2> QED
    BY <1>9, <2>1, InInt16
<1>11. Wrap16(a - t * 3329) = a - t * 3329
  BY <1>10, WrapInside
<1>12. Wrap16(a - Wrap16(t * 3329)) = a - t * 3329
  BY <1>1, <1>9, <1>10, WrapSub
<1>13. Q = 3329
  BY SMT DEF Q
<1> QED
  BY <1>5, <1>6, <1>7, <1>8, <1>11, <1>12, <1>13

\* vpmulhi's half, rounded and shifted, is the quotient.
LEMMA HighQuotient ==
  ASSUME NEW a \in Int16
  PROVE  (High(a * BARRETT_V) + 512) \div 1024 = BarrettQuotient(a)
<1>1. a \in Int /\ -32768 <= a /\ a <= 32767
  BY SMT DEF Int16
<1>2. PICK y \in Int : y = 20159 * a
  BY <1>1, SMT
<1>3. (y \div 65536 + 512) \div 1024 = (y + 33554432) \div 67108864
  BY <1>2, SMT
<1> QED
  BY <1>1, <1>2, <1>3, SMT DEF High, BarrettQuotient, BARRETT_V

LEMMA BarrettOfAvx2 ==
  ASSUME NEW a, NEW l \in DOMAIN a, a[l] \in Int16
  PROVE  A!BarrettLanes(a)[l] = Barrett(a[l])
<1>1. A!BarrettLanes(a)[l]
        = A!Wrap16(a[l] - A!Wrap16(((A!High(a[l] * A!BARRETT_V) + 512) \div 1024) * A!Q))
  BY Zenon DEF A!BarrettLanes, A!Minus, A!MulLow, A!MulHigh, A!Broadcast
<1>2. A!BarrettLanes(a)[l]
        = Wrap16(a[l] - Wrap16(((High(a[l] * BARRETT_V) + 512) \div 1024) * Q))
  BY <1>1, WordsOfAvx2, SMT
<1> QED
  BY <1>2, HighQuotient, QuotientSmall, SMT

\* Adding q where a centred residue is negative.
LEMMA MadeCanonical ==
  ASSUME NEW a \in Int16
  PROVE  Wrap16(Barrett(a) + (IF Barrett(a) < 0 THEN Q ELSE 0)) = Value(a)
<1>1. PICK b \in Int : b = Barrett(a) /\ -1664 <= b /\ b <= 1664
  BY BarrettExact, SMT
<1>2. CASE b < 0
  <2>1. b + 3329 \in Int16
    BY <1>1, <1>2, SMT DEF Int16
  <2>2. Wrap16(b + 3329) = b + 3329
    BY <2>1, WrapInside
  <2> QED
    BY <1>1, <1>2, <2>2, SMT DEF Value, Q
<1>3. CASE ~(b < 0)
  <2>1. b + 0 \in Int16 /\ b + 0 = b
    BY <1>1, <1>3, SMT DEF Int16
  <2>2. Wrap16(b + 0) = b + 0
    BY <2>1, WrapInside
  <2> QED
    BY <1>1, <1>3, <2>1, <2>2, SMT DEF Value
<1> QED
  BY <1>2, <1>3

LEMMA CanonicalOfAvx2 ==
  ASSUME NEW a, NEW l \in DOMAIN a, a[l] \in Int16
  PROVE  A!CanonicalLanes(a)[l] = Value(a[l])
<1> DEFINE r == A!BarrettLanes(a)
<1>1. r[l] = Barrett(a[l]) /\ l \in DOMAIN r
  <2>1. DOMAIN r = DOMAIN a
    BY Zenon DEF A!BarrettLanes, A!Minus
  <2> QED
    BY <2>1, BarrettOfAvx2, Zenon
<1>2. A!CanonicalLanes(a)[l] = A!Wrap16(r[l] + (IF r[l] < 0 THEN A!Q ELSE 0))
  <2>1. DOMAIN r = DOMAIN a
    BY Zenon DEF A!BarrettLanes, A!Minus
  <2> HIDE DEF r
  <2>2. A!CanonicalLanes(a) = A!Plus(r, A!KeepNegative(r, A!Broadcast(a, A!Q)))
    BY Zenon DEF A!CanonicalLanes, r
  <2> QED
    BY <1>1, <2>1, <2>2, Zenon DEF A!Plus, A!KeepNegative, A!Broadcast
<1> HIDE DEF r
<1> QED
  BY <1>1, <1>2, MadeCanonical, WordsOfAvx2, SMT

\* vcombine's lanes.
LEMMA CombinedLow ==
  ASSUME NEW a, NEW b, NEW l \in 0 .. 3
  PROVE  N!Combine(a, b)[l] = a[l]
<1>1. l \in 0 .. 7 /\ l < 4
  BY SMT
<1> QED
  BY <1>1, Zenon DEF N!Combine

LEMMA CombinedHigh ==
  ASSUME NEW a, NEW b, NEW l \in 4 .. 7
  PROVE  N!Combine(a, b)[l] = b[l - 4]
<1>1. l \in 0 .. 7 /\ ~(l < 4)
  BY SMT
<1> QED
  BY <1>1, Zenon DEF N!Combine

\* The widened upper lanes.
LEMMA UpperLane ==
  ASSUME NEW a, NEW l \in 4 .. 7
  PROVE  l - 4 \in 0 .. 3 /\ N!HighLanes(a)[l - 4] = a[l]
<1>1. l - 4 \in 0 .. 3 /\ (l - 4) + 4 = l
  BY SMT
<1> QED
  BY <1>1, Zenon DEF N!HighLanes

LEMMA LowerLane ==
  ASSUME NEW a, NEW l \in 0 .. 3
  PROVE  N!LowLanes(a)[l] = a[l]
BY Zenon DEF N!LowLanes

\* What barrett_reduce leaves of a widened lane, and of four.
BarrettWide(v) == v - ((N!BARRETT_V * v + 33554432) \div 67108864) * N!Q
BarrettHalf(h) == [l \in 0 .. 3 |-> BarrettWide(h[l])]

LEMMA BarrettHalfLane ==
  ASSUME NEW h, NEW l \in 0 .. 3, NEW a \in Int16, h[l] = a
  PROVE  N!Narrow(BarrettHalf(h))[l] = Barrett(a)
<1>1. DOMAIN BarrettHalf(h) = 0 .. 3
  BY Zenon DEF BarrettHalf
<1>2. N!Narrow(BarrettHalf(h))[l] = N!Wrap16(BarrettHalf(h)[l])
  BY <1>1, Zenon DEF N!Narrow
<1>3. BarrettHalf(h)[l] = BarrettWide(a)
  BY Zenon DEF BarrettHalf
<1>4. BarrettHalf(h)[l] = a - BarrettQuotient(a) * Q
  BY <1>3, WordsOfNeon, SMT DEF BarrettQuotient, BarrettWide
<1> QED
  BY <1>2, <1>4, WordsOfNeon, QuotientSmall, SMT

LEMMA BarrettOfNeon ==
  ASSUME NEW a, NEW l \in 0 .. 7, a[l] \in Int16
  PROVE  N!BarrettLanes(a)[l] = Barrett(a[l])
<1>1. N!BarrettLanes(a)
        = N!Combine(N!Narrow(BarrettHalf(N!LowLanes(a))), N!Narrow(BarrettHalf(N!HighLanes(a))))
  BY SMT DEF N!BarrettLanes, BarrettHalf, BarrettWide
<1>2. CASE l \in 0 .. 3
  BY <1>1, <1>2, CombinedLow, LowerLane, BarrettHalfLane, SMT
<1>3. CASE l \in 4 .. 7
  <2>1. l - 4 \in 0 .. 3 /\ N!HighLanes(a)[l - 4] = a[l]
    BY <1>3, UpperLane
  <2>2. N!Narrow(BarrettHalf(N!HighLanes(a)))[l - 4] = Barrett(a[l])
    BY <2>1, BarrettHalfLane
  <2> QED
    BY <1>1, <1>3, <2>2, CombinedHigh
<1> QED
  BY <1>2, <1>3, SMT

LEMMA CanonicalOfNeon ==
  ASSUME NEW a, DOMAIN a = 0 .. 7, NEW l \in 0 .. 7, a[l] \in Int16
  PROVE  N!CanonicalLanes(a)[l] = Value(a[l])
<1> DEFINE r == N!BarrettLanes(a)
<1>1. r[l] = Barrett(a[l])
  BY BarrettOfNeon
<1>2. DOMAIN r = 0 .. 7
  BY SMT DEF N!BarrettLanes, N!Combine
<1> HIDE DEF r
<1>3. N!CanonicalLanes(a) = N!Plus(r, N!KeepNegative(r, N!Broadcast(a, N!Q)))
  BY Zenon DEF N!CanonicalLanes, r
<1>4. N!CanonicalLanes(a)[l] = N!Wrap16(r[l] + (IF r[l] < 0 THEN N!Q ELSE 0))
  BY <1>2, <1>3, Zenon DEF N!Plus, N!KeepNegative, N!Broadcast
<1> QED
  BY <1>1, <1>4, MadeCanonical, WordsOfNeon, SMT

-----------------------------------------------------------------------------
(* Products.                                                               *)

LEMMA WordEqual ==
  ASSUME NEW y \in Int, NEW z \in Int, SameWord(y, z)
  PROVE  Wrap16(y) = Wrap16(z)
<1>1. Wrap16(z) \in Int16 /\ SameWord(Wrap16(z), z) /\ Wrap16(z) \in Int
  BY WrapSame, SMT DEF Int16
<1>2. PICK i \in Int : Wrap16(z) = z + i * 65536
  BY <1>1, SameWordPick
<1>3. PICK j \in Int : y = z + j * 65536
  BY SameWordPick
<1>4. PICK k \in Int : k = j - i
  BY SMT
<1>5. y = Wrap16(z) + k * 65536
  BY <1>1, <1>2, <1>3, <1>4, SMT
<1>6. SameWord(y, Wrap16(z))
  BY <1>5 DEF SameWord
<1> QED
  BY <1>1, <1>6, WrapUnique

\* A number by its halves.
LEMMA Halved ==
  ASSUME NEW y \in Int
  PROVE  /\ High(y) \in Int /\ Low(y) \in Nat /\ Low(y) <= 65535
         /\ y = High(y) * 65536 + Low(y)
BY SMT DEF High, Low

LEMMA HalvesUnique ==
  ASSUME NEW y \in Int, NEW hi \in Int, NEW lo \in Nat, lo <= 65535, y = hi * 65536 + lo
  PROVE  High(y) = hi /\ Low(y) = lo
BY SMT DEF High, Low

\* The factor of a number is that of its low half, also where the number is
\* wrapped first.
LEMMA FactorOfWord ==
  ASSUME NEW y \in Int
  PROVE  Wrap16(Wrap16(y) * QINV) = Factor(Low(y))
<1>1. Wrap16(y) \in Int16 /\ SameWord(Wrap16(y), y) /\ Wrap16(y) \in Int
  BY WrapSame, SMT DEF Int16
<1>2. PICK w \in Int : w = Wrap16(y)
  BY <1>1
<1>3. PICK i \in Int : w = y + i * 65536
  BY <1>1, <1>2, SameWordPick
<1>4. PICK hi \in Int, lo \in Int : lo = Low(y) /\ y = hi * 65536 + lo
  BY SMT DEF Low
<1>5. PICK k \in Int : k = (hi + i) * (-3327)
  BY SMT
<1>6. w * (-3327) = lo * (-3327) + k * 65536
  BY <1>3, <1>4, <1>5, SMT
<1>7. SameWord(w * (-3327), lo * (-3327))
  BY <1>6, SMT DEF SameWord
<1>8. w * (-3327) \in Int /\ lo * (-3327) \in Int
  BY SMT
<1>9. Wrap16(w * (-3327)) = Wrap16(lo * (-3327))
  BY <1>7, <1>8, WordEqual
<1> QED
  BY <1>2, <1>4, <1>9, SMT DEF Factor, QINV

\* What the factor takes from the upper half.
LEMMA FactorHigh ==
  ASSUME NEW lo \in Nat, lo <= 65535
  PROVE  High(Factor(lo) * Q) = -Shifted(lo)
<1>1. PICK m \in Int, s \in Int : /\ m = Factor(lo) /\ s = Shifted(lo)
                                  /\ 65536 * s = lo - m * 3329
  BY MontgomeryQuotient, SMT
<1>2. m * 3329 = (-s) * 65536 + lo /\ -s \in Int
  BY <1>1, SMT
<1>3. High(m * 3329) = -s
  <2>1. PICK y \in Int, hi \in Int : y = m * 3329 /\ hi = -s /\ y = hi * 65536 + lo
    BY <1>2, SMT
  <2>2. High(y) = hi
    BY <2>1, SMT DEF High
  <2> QED
    BY <2>1, <2>2, SMT
<1> QED
  BY <1>1, <1>3, SMT DEF Q

\* ... and what is left of the number when it is taken away.
LEMMA DifferenceHigh ==
  ASSUME NEW y \in Int
  PROVE  High(y - Factor(Low(y)) * Q) = High(y) + Shifted(Low(y))
<1>1. PICK hi \in Int, lo \in Nat : /\ hi = High(y) /\ lo = Low(y) /\ lo <= 65535
                                    /\ y = hi * 65536 + lo
  <2>1. High(y) \in Int /\ Low(y) \in Nat /\ Low(y) <= 65535 /\ y = High(y) * 65536 + Low(y)
    BY Halved
  <2> QED
    BY <2>1, SMT
<1>2. PICK m \in Int, s \in Int : /\ m = Factor(lo) /\ s = Shifted(lo)
                                  /\ 65536 * s = lo - m * 3329
  BY <1>1, MontgomeryQuotient, SMT
<1>3. y - m * 3329 = (hi + s) * 65536 + 0 /\ hi + s \in Int
  BY <1>1, <1>2, SMT
<1>4. High(y - m * 3329) = hi + s
  <2>1. PICK z \in Int, h \in Int : z = y - m * 3329 /\ h = hi + s /\ z = h * 65536 + 0
    BY <1>3, SMT
  <2>2. High(z) = h
    BY <2>1, SMT DEF High
  <2> QED
    BY <2>1, <2>2, SMT
<1>5. m = Factor(lo) /\ s = Shifted(lo)
  BY <1>2
<1>6. hi = High(y) /\ lo = Low(y)
  BY <1>1
<1>7. Q = 3329
  BY SMT DEF Q
<1> QED
  BY <1>4, <1>5, <1>6, <1>7

LEMMA ReductionForm ==
  ASSUME NEW hi, NEW lo
  PROVE  MontgomeryReduce(hi, lo) = Wrap16(hi + Shifted(lo))
BY SMT DEF MontgomeryReduce, Shifted, Factor

LEMMA ProductOfAvx2 ==
  ASSUME NEW a, NEW l \in DOMAIN a, NEW b \in Int, a[l] \in Int
  PROVE  A!FqMul(a, A!Broadcast(a, b))[l] = Mul(a[l], b)
<1>1. A!FqMul(a, A!Broadcast(a, b))[l]
        = A!Wrap16(A!High(a[l] * b) - A!High(A!Wrap16(A!Wrap16(a[l] * b) * A!QINV) * A!Q))
  BY Zenon DEF A!FqMul, A!Minus, A!MulHigh, A!MulLow, A!Broadcast
<1>2. PICK y \in Int : y = a[l] * b
  BY SMT
<1>3. A!FqMul(a, A!Broadcast(a, b))[l] = Wrap16(High(y) - High(Wrap16(Wrap16(y) * QINV) * Q))
  BY <1>1, <1>2, WordsOfAvx2, SMT
<1>4. PICK hi \in Int, lo \in Nat : hi = High(y) /\ lo = Low(y) /\ lo <= 65535
  BY Halved, SMT
<1>5. PICK s \in Int : s = Shifted(lo)
  BY <1>4, MontgomeryQuotient
<1>6. High(Wrap16(Wrap16(y) * QINV) * Q) = -s
  BY <1>4, <1>5, FactorOfWord, FactorHigh
<1>7. High(y) - High(Wrap16(Wrap16(y) * QINV) * Q) = hi + s
  BY <1>4, <1>6, SMT
<1>8. Mul(a[l], b) = Wrap16(hi + s)
  BY <1>2, <1>4, <1>5, ReductionForm, SMT DEF Mul
<1> QED
  BY <1>3, <1>7, <1>8

\* montgomery_reduce of a lane, in the form of the field's.
LEMMA MontgomeryOfNeon ==
  ASSUME NEW a, NEW l \in DOMAIN a, a[l] \in Int
  PROVE  N!MontgomeryLanes(a)[l] = MontgomeryReduce(High(a[l]), Low(a[l]))
<1>1. N!MontgomeryLanes(a)[l]
        = N!Wrap16(N!High(a[l] - N!Wrap16(N!Wrap16(a[l]) * N!QINV) * N!Q))
  BY Zenon DEF N!MontgomeryLanes, N!Narrow
<1>2. N!MontgomeryLanes(a)[l] = Wrap16(High(a[l] - Wrap16(Wrap16(a[l]) * QINV) * Q))
  BY <1>1, WordsOfNeon, SMT
<1>3. N!MontgomeryLanes(a)[l] = Wrap16(High(a[l]) + Shifted(Low(a[l])))
  BY <1>2, FactorOfWord, DifferenceHigh
<1> QED
  BY <1>3, ReductionForm

HalfProduct(u, v) == [l \in 0 .. 3 |-> u[l] * v[l]]

LEMMA HalfProductLane ==
  ASSUME NEW u, NEW v, NEW l \in 0 .. 3, NEW a \in Int, NEW b \in Int, u[l] = a, v[l] = b
  PROVE  N!MontgomeryLanes(HalfProduct(u, v))[l] = Mul(a, b)
<1>1. l \in DOMAIN HalfProduct(u, v) /\ HalfProduct(u, v)[l] = a * b
  BY Zenon DEF HalfProduct
<1>2. HalfProduct(u, v)[l] \in Int
  BY <1>1, SMT
<1>3. N!MontgomeryLanes(HalfProduct(u, v))[l] = MontgomeryReduce(High(a * b), Low(a * b))
  BY <1>1, <1>2, MontgomeryOfNeon
<1> QED
  BY <1>3 DEF Mul

LEMMA ProductOfNeon ==
  ASSUME NEW a, DOMAIN a = 0 .. 7, NEW l \in 0 .. 7, NEW b \in Int, a[l] \in Int
  PROVE  N!FqMul(a, N!Broadcast(a, b))[l] = Mul(a[l], b)
<1> DEFINE c == N!Broadcast(a, b)
<1>1. c[l] = b
  BY Zenon DEF N!Broadcast
<1> HIDE DEF c
<1>2. N!FqMul(a, c)
        = N!Combine(N!MontgomeryLanes(HalfProduct(N!LowLanes(a), N!LowLanes(c))),
                    N!MontgomeryLanes(HalfProduct(N!HighLanes(a), N!HighLanes(c))))
  BY Zenon DEF N!FqMul, HalfProduct
<1>3. CASE l \in 0 .. 3
  <2>1. N!LowLanes(a)[l] = a[l] /\ N!LowLanes(c)[l] = b
    BY <1>1, <1>3, LowerLane
  <2>2. N!MontgomeryLanes(HalfProduct(N!LowLanes(a), N!LowLanes(c)))[l] = Mul(a[l], b)
    BY <1>3, <2>1, HalfProductLane
  <2> QED
    BY <1>2, <1>3, <2>2, CombinedLow DEF c
<1>4. CASE l \in 4 .. 7
  <2>1. l - 4 \in 0 .. 3 /\ N!HighLanes(a)[l - 4] = a[l] /\ N!HighLanes(c)[l - 4] = b
    BY <1>1, <1>4, UpperLane
  <2>2. N!MontgomeryLanes(HalfProduct(N!HighLanes(a), N!HighLanes(c)))[l - 4] = Mul(a[l], b)
    BY <2>1, HalfProductLane
  <2> QED
    BY <1>2, <1>4, <2>2, CombinedHigh DEF c
<1> QED
  BY <1>3, <1>4, SMT

\* montgomery_reduce_wide of a sum of products needs no wrapping.
LEMMA WideOfAvx2 ==
  ASSUME NEW a, NEW l \in DOMAIN a, NEW hi \in ProductHighs, NEW lo \in UInt16,
         a[l] = hi * 65536 + lo
  PROVE  A!MontgomeryReduceWide(a)[l] = FromProductSum(hi, lo)
<1>1. A!MontgomeryReduceWide(a)[l] = A!High(a[l] - A!Wrap16(A!Low(a[l]) * A!QINV) * A!Q)
  BY SMT DEF A!MontgomeryReduceWide
<1>2. A!MontgomeryReduceWide(a)[l] = High(a[l] - Factor(Low(a[l])) * Q)
  BY <1>1, WordsOfAvx2, SMT DEF Factor
<1>3. hi \in Int /\ lo \in Nat /\ lo <= 65535 /\ -2030 <= hi /\ hi <= 2029
  BY SMT DEF ProductHighs, UInt16
<1>4. High(a[l]) = hi /\ Low(a[l]) = lo /\ a[l] \in Int
  BY <1>3, HalvesUnique, SMT
<1>5. A!MontgomeryReduceWide(a)[l] = hi + Shifted(lo)
  BY <1>2, <1>4, DifferenceHigh
<1>6. Shifted(lo) \in Int /\ -1664 <= Shifted(lo) /\ Shifted(lo) <= 1665
  BY <1>3, MontgomeryQuotient
<1>7. hi + Shifted(lo) \in Int16
  BY <1>3, <1>6, SMT DEF Int16
<1>8. FromProductSum(hi, lo) = Wrap16(hi + Shifted(lo))
  BY ReductionForm, SMT DEF FromProductSum
<1> QED
  BY <1>5, <1>7, <1>8, WrapInside

-----------------------------------------------------------------------------
(* Compression.                                                            *)

\* pack_lanes of two halves within a lane is their lanes in order.
LEMMA PackedLow ==
  ASSUME NEW a, NEW b, NEW l \in 0 .. 7, a[l] \in Nat, a[l] <= 4095
  PROVE  A!PackLanes(a, b)[l] = a[l]
BY SMTT(60) DEF A!PackLanes, A!MiddleSwapped, A!Packus, A!PackInto

LEMMA PackedHigh ==
  ASSUME NEW a, NEW b, NEW l \in 8 .. 15, b[l - 8] \in Nat, b[l - 8] <= 4095
  PROVE  A!PackLanes(a, b)[l] = b[l - 8]
BY SMTT(60) DEF A!PackLanes, A!MiddleSwapped, A!Packus, A!PackInto

LEMMA DividedLane ==
  ASSUME NEW a, NEW l \in 0 .. 7
  PROVE  A!DivideByQ(a)[l] = DivQ(a[l])
BY DivQOfAvx2, SMTT(60) DEF A!DivideByQ

\* A compressed value has d bits.
LEMMA CompressAtSmall ==
  ASSUME NEW v \in Canonical, NEW half \in Halves, NEW p \in Int, p = 2 * half
  PROVE  /\ CompressAt(v, p) = ((v * p + 1664) \div 3329) % p
         /\ CompressAt(v, p) \in Nat /\ CompressAt(v, p) < p /\ p <= 4096
<1>1. v \in Int /\ 0 <= v /\ v <= 3328 /\ 2 <= p /\ p <= 4096
  BY SMT DEF Canonical, Halves
<1>2. PICK w \in Nat : w = v * p /\ w <= 13631488
  BY <1>1, SMT
<1>3. DivQ(w + 1664) = (w + 1664) \div Q
  <2>1. w + 1664 \in Nat /\ w + 1664 <= 13637312
    BY <1>2, SMT
  <2> QED
    BY <2>1, DivQExact, SMT
<1>4. Q \div 2 = 1664 /\ Q = 3329
  BY SMT DEF Q
<1>5. CompressAt(v, p) = DivQ(v * p + Q \div 2) % p
  BY Zenon DEF CompressAt
<1>6. CompressAt(v, p) = ((v * p + 1664) \div 3329) % p
  BY <1>2, <1>3, <1>4, <1>5, SMT
<1>7. PICK m \in Int : m = (v * p + 1664) \div 3329
  <2>1. (w + 1664) \div 3329 \in Int
    BY <1>2, SMT
  <2> QED
    BY <1>2, <2>1, SMT
<1>8. m % p \in Int /\ 0 <= m % p /\ m % p < p
  BY <1>1, Divided, SMT
<1> QED
  BY <1>1, <1>6, <1>7, <1>8, SMT

LEMMA ValueCanonical ==
  ASSUME NEW a \in Int16
  PROVE  Value(a) \in Canonical
<1>1. a \in Int
  BY SMT DEF Int16
<1>2. a % Q \in Canonical
  BY <1>1, SMT DEF Q, Canonical
<1> QED
  BY <1>2, ValueExact

\* One half of compress, of canonical lanes.
DivideHalf(c, half, p) ==
  [l \in 0 .. 7 |-> A!DivideByQ([i \in 0 .. 7 |-> A!HalfOf(c, half)[i] * p + A!Q \div 2])[l] % p]

LEMMA DivideHalfLane ==
  ASSUME NEW c, NEW half, NEW p, NEW l \in 0 .. 7, NEW v, c[8 * half + l] = v
  PROVE  DivideHalf(c, half, p)[l] = CompressAt(v, p)
<1> DEFINE n == [i \in 0 .. 7 |-> A!HalfOf(c, half)[i] * p + A!Q \div 2]
<1>1. n[l] = v * p + Q \div 2
  <2>1. A!HalfOf(c, half)[l] = v
    BY Zenon DEF A!HalfOf
  <2>2. A!Q = Q
    BY WordsOfAvx2
  <2> QED
    BY <2>1, <2>2, Zenon
<1>2. DivideHalf(c, half, p)[l] = A!DivideByQ(n)[l] % p
  BY Zenon DEF DivideHalf
<1> HIDE DEF n
<1>3. A!DivideByQ(n)[l] = DivQ(n[l])
  BY DividedLane
<1> QED
  BY <1>1, <1>2, <1>3, Zenon DEF CompressAt

LEMMA CompressOfAvx2 ==
  ASSUME NEW a, DOMAIN a = 0 .. 15, NEW d \in 1 .. 12, NEW l \in 0 .. 15, a[l] \in Int16
  PROVE  A!CompressLanes(a, d)[l] = Compress(a[l], d)
<1>1. PICK v \in Canonical, half \in Halves, p \in Int :
        v = Value(a[l]) /\ half = 2^(d - 1) /\ p = 2^d /\ p = 2 * half
  BY ValueCanonical, Powers, Zenon
<1>2. CompressAt(v, p) \in Nat /\ CompressAt(v, p) <= 4095
  <2>1. CompressAt(v, p) \in Nat /\ CompressAt(v, p) < p /\ p <= 4096
    BY <1>1, CompressAtSmall, SMT
  <2> QED
    BY <2>1, SMT
<1>3. Compress(a[l], d) = CompressAt(v, p)
  BY <1>1, CompressForm, Zenon
<1> DEFINE c == A!CanonicalLanes(a)
<1>4. c[l] = v
  BY <1>1, CanonicalOfAvx2, Zenon
<1>5. A!CompressLanes(a, d) = A!PackLanes(DivideHalf(c, 0, 2^d), DivideHalf(c, 1, 2^d))
  BY Zenon DEF A!CompressLanes, DivideHalf
<1> HIDE DEF c
<1>6. CASE l \in 0 .. 7
  <2>1. 8 * 0 + l = l
    BY SMT
  <2>2. DivideHalf(c, 0, p)[l] = CompressAt(v, p)
    BY <1>4, <1>6, <2>1, DivideHalfLane, SMT
  <2>3. A!PackLanes(DivideHalf(c, 0, p), DivideHalf(c, 1, p))[l] = CompressAt(v, p)
    BY <1>2, <1>6, <2>2, PackedLow, SMT
  <2> QED
    BY <1>1, <1>3, <1>5, <2>3, Zenon
<1>7. CASE l \in 8 .. 15
  <2>1. 8 * 1 + (l - 8) = l /\ l - 8 \in 0 .. 7
    BY <1>7, SMT
  <2>2. DivideHalf(c, 1, p)[l - 8] = CompressAt(v, p)
    BY <1>4, <2>1, DivideHalfLane, SMT
  <2>3. A!PackLanes(DivideHalf(c, 0, p), DivideHalf(c, 1, p))[l] = CompressAt(v, p)
    BY <1>2, <1>7, <2>2, PackedHigh, SMT
  <2> QED
    BY <1>1, <1>3, <1>5, <2>3, Zenon
<1> QED
  BY <1>6, <1>7, SMT

-----------------------------------------------------------------------------
\* The ceiling multiplier exceeds 2^(31 + d) by a fraction of q.
IsCeiling(b, p) == \E e \in Int : 1 <= e /\ e <= Q /\ 3329 * b = 2147483648 * p + e

LEMMA LimbDivision ==
  ASSUME NEW h \in Nat, NEW b \in Int, b = (h \div 3329) * 32768 + ((h % 3329) * 32768) \div 3329 + 1
  PROVE  \E e \in Int : 1 <= e /\ e <= 3329 /\ 3329 * b = 32768 * h + e
<1>1. PICK w \in Int, r \in Int : w = h \div 3329 /\ r = h % 3329 /\ h = 3329 * w + r
  BY SMT
<1>2. PICK u \in Int, e \in Int : /\ u = (r * 32768) \div 3329 /\ r * 32768 = 3329 * u + e
                                  /\ 0 <= e /\ e < 3329
  <2>1. r * 32768 \in Int
    BY SMT
  <2>2. /\ (r * 32768) \div 3329 \in Int /\ (r * 32768) % 3329 \in Int
        /\ r * 32768 = 3329 * ((r * 32768) \div 3329) + ((r * 32768) % 3329)
        /\ 0 <= (r * 32768) % 3329 /\ (r * 32768) % 3329 < 3329
    BY <2>1, Divided, SMT
  <2> QED
    BY <2>2, SMT
<1>3. PICK f \in Int : f = 3329 - e
  BY SMT
<1>4. 1 <= f /\ f <= 3329
  BY <1>2, <1>3, SMT
<1>5. 3329 * b = 32768 * h + f
  BY <1>1, <1>2, <1>3, SMT
<1> QED
  BY <1>4, <1>5, SMT

LEMMA Multiplier ==
  ASSUME NEW d \in 1 .. 12
  PROVE  N!CompressMultiplier(d) \in Int /\ IsCeiling(N!CompressMultiplier(d), 2^d)
<1>1. 2^d \in Nat /\ 2^(16 + d) = 65536 * 2^d
  <2>1. CASE d = 1
    BY <2>1, SMT
  <2>2. CASE d = 2
    BY <2>2, SMT
  <2>3. CASE d = 3
    BY <2>3, SMT
  <2>4. CASE d = 4
    BY <2>4, SMT
  <2>5. CASE d = 5
    BY <2>5, SMT
  <2>6. CASE d = 6
    BY <2>6, SMT
  <2>7. CASE d = 7
    BY <2>7, SMT
  <2>8. CASE d = 8
    BY <2>8, SMT
  <2>9. CASE d = 9
    BY <2>9, SMT
  <2>10. CASE d = 10
    BY <2>10, SMT
  <2>11. CASE d = 11
    BY <2>11, SMT
  <2>12. CASE d = 12
    BY <2>12, SMT
  <2> QED
    BY <2>1, <2>2, <2>3, <2>4, <2>5, <2>6, <2>7, <2>8, <2>9, <2>10, <2>11, <2>12, SMT
<1>2. PICK p \in Nat, h \in Nat : p = 2^d /\ h = 2^(16 + d) /\ h = 65536 * p
  BY <1>1, SMT
<1>3. N!CompressMultiplier(d) = (h \div 3329) * 32768 + ((h % 3329) * 32768) \div 3329 + 1
  BY <1>2, SMT DEF N!CompressMultiplier, N!PowerByQ, N!Q
<1>4. PICK b \in Int : b = N!CompressMultiplier(d)
  BY <1>3, SMT
<1>5. PICK e \in Int : 1 <= e /\ e <= 3329 /\ 3329 * b = 32768 * h + e
  BY <1>3, <1>4, LimbDivision
<1>6. 3329 * b = 2147483648 * p + e
  BY <1>2, <1>5, SMT
<1>7. IsCeiling(b, p)
  BY <1>5, <1>6, SMT DEF IsCeiling, Q
<1> QED
  BY <1>2, <1>4, <1>7

\* One lane of vqrdmulhq_s32 by the ceiling multiplier.
WideLane(v, b) == (v * High(b) + (v * Low(b) + 1073741824) \div 65536) \div 32768

LEMMA MultiplierDivides ==
  ASSUME NEW v \in Canonical, NEW p \in Int, NEW b \in Int, IsCeiling(b, p)
  PROVE  WideLane(v, b) = (v * p + 1664) \div 3329
<1>1. v \in Int /\ 0 <= v /\ v <= 3328
  BY SMT DEF Canonical
<1>2. PICK e \in Int : 1 <= e /\ e <= 3329 /\ 3329 * b = 2147483648 * p + e
  BY SMT DEF IsCeiling, Q
<1>3. PICK h \in Int, w \in Int : h = High(b) /\ w = Low(b)
  BY SMT DEF High, Low
<1>4. b = h * 65536 + w
  BY <1>3, SMT DEF High, Low
<1>5. PICK vh \in Int, vw \in Int : vh = v * h /\ vw = v * w
  BY <1>1, SMT
<1>6. PICK t \in Int : t = (vw + 1073741824) \div 65536
  BY SMT
<1>7. PICK n \in Int : n = (vh + t) \div 32768
  BY SMT
<1>8. PICK m \in Int : /\ m = (v * p + 1664) \div 3329
                       /\ 3329 * m <= v * p + 1664 /\ v * p + 1664 < 3329 * (m + 1)
  <2>1. PICK vp \in Int : vp = v * p + 1664
    BY <1>1, SMT
  <2>2. PICK m \in Int : m = vp \div 3329 /\ 3329 * m <= vp /\ vp < 3329 * (m + 1)
    BY SMT
  <2> QED
    BY <2>1, <2>2, SMT
<1>9. PICK vp \in Int, ve \in Int, vb \in Int : vp = v * p /\ ve = v * e /\ vb = v * b
  BY <1>1, SMT
<1>10. vb = vh * 65536 + vw
  <2>1. v * (h * 65536 + w) = (v * h) * 65536 + v * w
    BY <1>1, SMT
  <2> QED
    BY <1>4, <1>5, <1>9, <2>1, SMT
<1>11. 3329 * vb = 2147483648 * vp + ve
  <2>1. v * (3329 * b) = 3329 * (v * b) /\ v * (2147483648 * p + e) = 2147483648 * (v * p) + v * e
    BY <1>1, SMT
  <2> QED
    BY <1>2, <1>9, <2>1, SMT
<1>12. 0 <= ve /\ ve <= 11078912
  <2>1. 0 <= v * e /\ v * e <= 3328 * 3329
    BY <1>1, <1>2, SMT
  <2> QED
    BY <1>9, <2>1, SMT
<1>13. /\ 65536 * t <= vw + 1073741824 /\ vw + 1073741824 < 65536 * (t + 1)
       /\ 32768 * n <= vh + t /\ vh + t < 32768 * (n + 1)
       /\ 3329 * m <= vp + 1664 /\ vp + 1664 < 3329 * (m + 1)
  <2>1. 65536 * t <= vw + 1073741824 /\ vw + 1073741824 < 65536 * (t + 1)
    BY <1>6, SMT
  <2>2. 32768 * n <= vh + t /\ vh + t < 32768 * (n + 1)
    BY <1>7, SMT
  <2>3. 3329 * m <= vp + 1664 /\ vp + 1664 < 3329 * (m + 1)
    BY <1>8, <1>9, SMT
  <2> QED
    BY <2>1, <2>2, <2>3, SMT
<1>14. 2147483648 * n <= vb + 1073741824 /\ vb + 1073741824 < 2147483648 * (n + 1)
  BY <1>10, <1>13, SMT
<1>15. 2147483648 * 3329 * n <= 2147483648 * vp + ve + 3329 * 1073741824
  BY <1>11, <1>14, SMT
<1>16. 2147483648 * vp + ve + 3329 * 1073741824 < 2147483648 * 3329 * (n + 1)
  BY <1>11, <1>14, SMT
<1>17. n = m
  <2>1. ~(n > m)
    BY <1>12, <1>13, <1>15, SMT
  <2>2. ~(n < m)
    BY <1>12, <1>13, <1>16, SMT
  <2> QED
    BY <2>1, <2>2, SMT
<1>18. WideLane(v, b) = n
  BY <1>3, <1>5, <1>6, <1>7, SMT DEF WideLane
<1> QED
  BY <1>8, <1>17, <1>18, SMT

\* Four lanes of compress, before they are narrowed.
ScaledHalf(c, b, p) == [l \in 0 .. 3 |-> N!MulDoubledWide(c, b)[l] % p]

LEMMA ScaledHalfLane ==
  ASSUME NEW c, NEW l \in 0 .. 3, DOMAIN c = 0 .. 3, NEW half \in Halves, NEW p \in Int, p = 2 * half,
         NEW b \in Int, IsCeiling(b, p), NEW v \in Canonical, c[l] = v
  PROVE  N!Narrow(ScaledHalf(c, b, p))[l] = CompressAt(v, p)
<1>1. N!MulDoubledWide(c, b)[l] = WideLane(v, b)
  <2>1. N!High(b) = High(b) /\ N!Low(b) = Low(b)
    BY WordsOfNeon, SMT
  <2> QED
    BY <2>1, SMT DEF N!MulDoubledWide, WideLane
<1>2. ScaledHalf(c, b, p)[l] = CompressAt(v, p)
  <2>1. ScaledHalf(c, b, p)[l] = WideLane(v, b) % p
    BY <1>1, SMT DEF ScaledHalf
  <2>2. CompressAt(v, p) = ((v * p + 1664) \div 3329) % p
    BY CompressAtSmall, SMT
  <2> QED
    BY <2>1, <2>2, MultiplierDivides, SMT
<1>3. CompressAt(v, p) \in Nat /\ CompressAt(v, p) < p /\ p <= 4096
  BY CompressAtSmall, SMT
<1>4. CompressAt(v, p) \in Int16
  BY <1>3, SMT DEF Int16
<1>5. N!Narrow(ScaledHalf(c, b, p))[l] = N!Wrap16(ScaledHalf(c, b, p)[l])
  BY SMT DEF N!Narrow, ScaledHalf
<1> QED
  BY <1>2, <1>4, <1>5, WordsOfNeon, WrapInside, SMT

LEMMA CompressOfNeon ==
  ASSUME NEW a, DOMAIN a = 0 .. 7, NEW d \in 1 .. 12, NEW l \in 0 .. 7, a[l] \in Int16
  PROVE  N!CompressLanes(a, d)[l] = Compress(a[l], d)
<1>1. PICK v \in Canonical, half \in Halves, p \in Int :
        v = Value(a[l]) /\ half = 2^(d - 1) /\ p = 2^d /\ p = 2 * half
  BY ValueCanonical, Powers, Zenon
<1>2. PICK b \in Int : b = N!CompressMultiplier(d) /\ IsCeiling(b, p)
  BY <1>1, Multiplier, Zenon
<1>3. Compress(a[l], d) = CompressAt(v, p)
  BY <1>1, CompressForm, Zenon
<1> DEFINE c == N!CanonicalLanes(a)
           lo == N!LowLanes(c)
           hi == N!HighLanes(c)
<1>4. c[l] = v
  BY <1>1, CanonicalOfNeon, Zenon
<1>5. DOMAIN lo = 0 .. 3 /\ DOMAIN hi = 0 .. 3
  BY Zenon DEF N!LowLanes, N!HighLanes
<1>6. N!CompressLanes(a, d)
        = N!Combine(N!Narrow(ScaledHalf(lo, b, p)), N!Narrow(ScaledHalf(hi, b, p)))
  BY <1>1, <1>2, Zenon DEF N!CompressLanes, ScaledHalf
<1> HIDE DEF c
<1>7. CASE l \in 0 .. 3
  <2>1. lo[l] = v
    BY <1>4, <1>7, LowerLane
  <2> HIDE DEF lo, hi
  <2>2. N!Narrow(ScaledHalf(lo, b, p))[l] = CompressAt(v, p)
    BY <1>1, <1>2, <1>5, <1>7, <2>1, ScaledHalfLane, SMT
  <2> QED
    BY <1>3, <1>6, <1>7, <2>2, CombinedLow, SMT
<1>8. CASE l \in 4 .. 7
  <2>1. l - 4 \in 0 .. 3 /\ hi[l - 4] = v
    BY <1>4, <1>8, UpperLane
  <2> HIDE DEF lo, hi
  <2>2. N!Narrow(ScaledHalf(hi, b, p))[l - 4] = CompressAt(v, p)
    BY <1>1, <1>2, <1>5, <2>1, ScaledHalfLane, SMT
  <2> QED
    BY <1>3, <1>6, <1>8, <2>2, CombinedHigh, SMT
<1> QED
  BY <1>7, <1>8, SMT

-----------------------------------------------------------------------------
\* A value of d bits is decompressed without a reduction.
ScaledUp(y, half, p) == (y * Q + half) \div p

LEMMA DecompressSmall ==
  ASSUME NEW half \in Halves, NEW p \in Int, p = 2 * half, NEW y \in Int, 0 <= y, y < p
  PROVE  /\ DecompressAt(y, half, p) = ScaledUp(y, half, p)
         /\ ScaledUp(y, half, p) \in Nat /\ ScaledUp(y, half, p) <= 3328
<1>1. half \in Int /\ 1 <= half /\ half <= 2048 /\ p >= 1
  BY SMT DEF Halves
<1>2. PICK g \in Int : g = y * 3329 + half
  BY <1>1, SMT
<1>3. PICK z \in Int : IsQuotient(z, g, p)
  BY <1>1, Quotient
<1>4. z = g \div p /\ p * z <= g /\ g < p * (z + 1)
  BY <1>3 DEF IsQuotient
<1>5. 0 <= z
  <2>1. z <= -1 => p * z <= p * (-1)
    BY <1>1, Ordered, SMT
  <2> QED
    BY <1>1, <1>2, <1>4, <2>1, SMT
<1>6. z <= 3328
  <2>1. 3329 <= z => p * 3329 <= p * z
    BY <1>1, Ordered, SMT
  <2>2. g < p * 3329
    BY <1>1, <1>2, SMT
  <2> QED
    BY <1>1, <1>4, <2>1, <2>2, SMT
<1>7. ScaledUp(y, half, p) = z
  BY <1>2, <1>4, SMT DEF ScaledUp, Q
<1>8. New(z) = z
  <2>1. z \in Nat /\ z <= 65535
    BY <1>5, <1>6, SMT
  <2>2. New(z) = z % Q
    BY <2>1, NewExact
  <2> QED
    BY <1>5, <1>6, <2>2, SMT DEF Q
<1>9. DecompressAt(y, half, p) = New(z)
  <2>1. Q * y + half = g
    BY <1>2, SMT DEF Q
  <2> QED
    BY <1>4, <2>1, Zenon DEF DecompressAt
<1> QED
  BY <1>5, <1>6, <1>7, <1>8, <1>9, SMT

\* The values of d bits.
Bits(d) == {y \in Int : 0 <= y /\ y < 2^d}

LEMMA DecompressIs ==
  ASSUME NEW d \in 1 .. 12, NEW y \in Bits(d)
  PROVE  Decompress(y, d) = ScaledUp(y, 2^(d - 1), 2^d)
<1>1. PICK half \in Halves, p \in Int : half = 2^(d - 1) /\ p = 2^d /\ p = 2 * half
  BY Powers, Zenon
<1>2. y \in Int /\ 0 <= y /\ y < p
  BY <1>1, Zenon DEF Bits
<1>3. /\ DecompressAt(y, half, p) = ScaledUp(y, half, p)
      /\ ScaledUp(y, half, p) \in Nat /\ ScaledUp(y, half, p) <= 3328
  BY <1>1, <1>2, DecompressSmall, SMT
<1>4. Decompress(y, d) = DecompressAt(y, half, p)
  BY <1>1, DecompressForm, Zenon
<1> QED
  BY <1>1, <1>3, <1>4

LEMMA DecompressCanonical ==
  ASSUME NEW d \in 1 .. 12, NEW y \in Bits(d)
  PROVE  Decompress(y, d) \in Canonical
<1>1. PICK half \in Halves, p \in Int : half = 2^(d - 1) /\ p = 2^d /\ p = 2 * half
  BY Powers, Zenon
<1>2. y \in Int /\ 0 <= y /\ y < p
  BY <1>1, Zenon DEF Bits
<1>3. /\ DecompressAt(y, half, p) = ScaledUp(y, half, p)
      /\ ScaledUp(y, half, p) \in Nat /\ ScaledUp(y, half, p) <= 3328
  BY <1>1, <1>2, DecompressSmall, SMT
<1>4. Decompress(y, d) = DecompressAt(y, half, p)
  BY <1>1, DecompressForm, Zenon
<1> QED
  BY <1>1, <1>3, <1>4, SMT DEF Canonical

\* One half of decompress.
ScaleHalf(y, half, d) == [l \in 0 .. 7 |-> (A!HalfOf(y, half)[l] * A!Q + 2^(d - 1)) \div 2^d]

LEMMA ScaleHalfLane ==
  ASSUME NEW y, NEW half, NEW d, NEW l \in 0 .. 7, NEW i, 8 * half + l = i, NEW v, y[i] = v
  PROVE  ScaleHalf(y, half, d)[l] = ScaledUp(v, 2^(d - 1), 2^d)
<1>1. A!HalfOf(y, half)[l] = v
  BY Zenon DEF A!HalfOf
<1>2. A!Q = Q
  BY WordsOfAvx2
<1>3. ScaleHalf(y, half, d)[l] = (A!HalfOf(y, half)[l] * A!Q + 2^(d - 1)) \div 2^d
  BY Zenon DEF ScaleHalf
<1> QED
  BY <1>1, <1>2, <1>3, Zenon DEF ScaledUp

LEMMA DecompressOfAvx2 ==
  ASSUME NEW y, NEW d \in 1 .. 12, NEW l \in 0 .. 15, y[l] \in Bits(d)
  PROVE  A!DecompressLanes(y, d)[l] = Decompress(y[l], d)
<1>1. PICK r : r = Decompress(y[l], d)
  OBVIOUS
<1>2. r \in Nat /\ r <= 4095
  <2>1. r \in Canonical
    BY <1>1, DecompressCanonical
  <2> QED
    BY <2>1, SMT DEF Canonical
<1>3. r = ScaledUp(y[l], 2^(d - 1), 2^d)
  BY <1>1, DecompressIs
<1> DEFINE lo == ScaleHalf(y, 0, d)
           hi == ScaleHalf(y, 1, d)
<1>4. A!DecompressLanes(y, d) = A!PackLanes(lo, hi)
  BY Zenon DEF A!DecompressLanes, ScaleHalf
<1>5. CASE l \in 0 .. 7
  <2>1. 8 * 0 + l = l
    BY SMT
  <2>2. lo[l] = ScaledUp(y[l], 2^(d - 1), 2^d)
    BY <1>5, <2>1, ScaleHalfLane, SMT
  <2>3. lo[l] = r
    BY <1>3, <2>2
  <2> HIDE DEF lo, hi
  <2> QED
    BY <1>1, <1>2, <1>4, <1>5, <2>3, PackedLow, SMT
<1>6. CASE l \in 8 .. 15
  <2>1. 8 * 1 + (l - 8) = l /\ l - 8 \in 0 .. 7
    BY <1>6, SMT
  <2>2. hi[l - 8] = r
    BY <1>3, <2>1, ScaleHalfLane
  <2> HIDE DEF lo, hi
  <2> QED
    BY <1>1, <1>2, <1>4, <1>6, <2>2, PackedHigh, SMT
<1> QED
  BY <1>5, <1>6, SMT

\* Four lanes of decompress, before they are narrowed.
ScaleQuarter(c, d) == [l \in 0 .. 3 |-> (2^(d - 1) + c[l] * N!Q) \div 2^d]

LEMMA ScaleQuarterLane ==
  ASSUME NEW c, NEW l \in 0 .. 3, NEW d \in 1 .. 12, NEW v \in Bits(d), c[l] = v
  PROVE  N!Narrow(ScaleQuarter(c, d))[l] = Decompress(v, d)
<1>1. PICK half \in Int, p \in Int : half = 2^(d - 1) /\ p = 2^d
  BY Powers, Zenon
<1>2. v \in Int
  BY Zenon DEF Bits
<1>3. ScaleQuarter(c, d)[l] = (half + v * Q) \div p
  <2>1. N!Q = Q
    BY WordsOfNeon
  <2> QED
    BY <1>1, <2>1, Zenon DEF ScaleQuarter
<1>4. half + v * Q = v * Q + half
  BY <1>2, SMT DEF Q
<1>5. ScaleQuarter(c, d)[l] = Decompress(v, d)
  <2>1. Decompress(v, d) = ScaledUp(v, half, p)
    BY <1>1, DecompressIs
  <2> QED
    BY <1>3, <1>4, <2>1, Zenon DEF ScaledUp
<1>6. Decompress(v, d) \in Int16
  <2>1. PICK r \in Canonical : r = Decompress(v, d)
    BY DecompressCanonical
  <2>2. r \in Int16
    BY SMT DEF Int16, Canonical
  <2> QED
    BY <2>1, <2>2
<1>7. N!Narrow(ScaleQuarter(c, d))[l] = N!Wrap16(ScaleQuarter(c, d)[l])
  BY SMT DEF N!Narrow, ScaleQuarter
<1> QED
  BY <1>5, <1>6, <1>7, WordsOfNeon, WrapInside, SMT

LEMMA DecompressOfNeon ==
  ASSUME NEW y, NEW d \in 1 .. 12, NEW l \in 0 .. 7, y[l] \in Bits(d)
  PROVE  N!DecompressLanes(y, d)[l] = Decompress(y[l], d)
<1> DEFINE lo == N!LowLanes(y)
           hi == N!HighLanes(y)
<1>1. N!DecompressLanes(y, d)
        = N!Combine(N!Narrow(ScaleQuarter(lo, d)), N!Narrow(ScaleQuarter(hi, d)))
  BY Zenon DEF N!DecompressLanes, ScaleQuarter
<1>2. CASE l \in 0 .. 3
  <2>1. lo[l] = y[l]
    BY <1>2, LowerLane
  <2> HIDE DEF lo, hi
  <2>2. N!Narrow(ScaleQuarter(lo, d))[l] = Decompress(y[l], d)
    BY <1>2, <2>1, ScaleQuarterLane
  <2> QED
    BY <1>1, <1>2, <2>2, CombinedLow
<1>3. CASE l \in 4 .. 7
  <2>1. l - 4 \in 0 .. 3 /\ hi[l - 4] = y[l]
    BY <1>3, UpperLane
  <2> HIDE DEF lo, hi
  <2>2. N!Narrow(ScaleQuarter(hi, d))[l - 4] = Decompress(y[l], d)
    BY <2>1, ScaleQuarterLane
  <2> QED
    BY <1>1, <1>3, <2>2, CombinedHigh
<1> QED
  BY <1>2, <1>3, SMT

-----------------------------------------------------------------------------
(* The sweep.                                                              *)

LEMMA AnInteger ==
  ASSUME NEW y \in Int16
  PROVE  y \in Int
BY SMT DEF Int16

\* The coefficients of a vector at an aligned x are i16.
LEMMA SixteenLane ==
  ASSUME TypeOK, x % 16 = 0, NEW l \in 0 .. 15
  PROVE  Sixteen[l] = x + l /\ x + l \in Int16
<1>1. x + l \in Int16
  BY SMT DEF TypeOK, Int16
<1> QED
  BY <1>1, Zenon DEF Sixteen

LEMMA EightLane ==
  ASSUME TypeOK, x % 16 = 0, NEW part \in 0 .. 1, NEW l \in 0 .. 7
  PROVE  Eight(part)[l] = x + 8 * part + l /\ x + 8 * part + l \in Int16
<1>1. x + 8 * part + l \in Int16
  BY SMT DEF TypeOK, Int16
<1> QED
  BY <1>1, Zenon DEF Eight

LEMMA Shapes ==
  ASSUME NEW part
  PROVE  DOMAIN Sixteen = 0 .. 15 /\ DOMAIN Eight(part) = 0 .. 7
BY Zenon DEF Sixteen, Eight

LEMMA ReduceLanes ==
  ASSUME TypeOK, x % 16 = 0
  PROVE  ReduceAgrees
<1>1. ASSUME NEW l \in 0 .. 15
      PROVE  /\ A!BarrettLanes(Sixteen)[l] = Barrett(x + l)
             /\ A!CanonicalLanes(Sixteen)[l] = Value(x + l)
  <2>1. Sixteen[l] = x + l /\ x + l \in Int16 /\ l \in DOMAIN Sixteen
    BY SixteenLane, Shapes
  <2> QED
    BY <2>1, BarrettOfAvx2, CanonicalOfAvx2
<1>2. ASSUME NEW part \in 0 .. 1, NEW l \in 0 .. 7
      PROVE  /\ N!BarrettLanes(Eight(part))[l] = Barrett(x + 8 * part + l)
             /\ N!CanonicalLanes(Eight(part))[l] = Value(x + 8 * part + l)
  <2>1. /\ Eight(part)[l] = x + 8 * part + l /\ x + 8 * part + l \in Int16
        /\ DOMAIN Eight(part) = 0 .. 7
    BY EightLane, Shapes
  <2> QED
    BY <2>1, BarrettOfNeon, CanonicalOfNeon
<1> QED
  BY <1>1, <1>2, Zenon DEF ReduceAgrees

LEMMA ProductLanes ==
  ASSUME TypeOK, x % 16 = 0
  PROVE  ProductsAgree
<1>1. ASSUME NEW b \in ProductFactors, NEW l \in 0 .. 15
      PROVE  A!FqMul(Sixteen, A!Broadcast(Sixteen, b))[l] = Mul(x + l, b)
  <2>1. Sixteen[l] = x + l /\ x + l \in Int /\ l \in DOMAIN Sixteen
    <3>1. Sixteen[l] = x + l /\ x + l \in Int16
      BY SixteenLane
    <3> QED
      BY <3>1, Shapes, AnInteger
  <2>2. b \in Int
    BY SMT DEF ProductFactors
  <2> QED
    BY <2>1, <2>2, ProductOfAvx2
<1>2. ASSUME NEW b \in ProductFactors, NEW part \in 0 .. 1, NEW l \in 0 .. 7
      PROVE  N!FqMul(Eight(part), N!Broadcast(Eight(part), b))[l] = Mul(x + 8 * part + l, b)
  <2>1. /\ Eight(part)[l] = x + 8 * part + l /\ x + 8 * part + l \in Int
        /\ DOMAIN Eight(part) = 0 .. 7
    <3>1. Eight(part)[l] = x + 8 * part + l /\ x + 8 * part + l \in Int16
      BY EightLane
    <3> QED
      BY <3>1, Shapes, AnInteger
  <2>2. b \in Int
    BY SMT DEF ProductFactors
  <2> QED
    BY <2>1, <2>2, ProductOfNeon
<1>3. ASSUME NEW hi \in ProductHighs, NEW first \in {0, 8}, NEW l \in 0 .. 7
      PROVE  /\ A!MontgomeryReduceWide(WideSums(8, first, hi))[l]
                  = FromProductSum(hi, Low(x + first + l))
             /\ N!MontgomeryLanes(WideSums(8, first, hi))[l]
                  = FromProductSum(hi, Low(x + first + l))
  <2> DEFINE w == WideSums(8, first, hi)
             lo == Low(x + first + l)
  <2>1. lo \in UInt16
    BY SMT DEF TypeOK, Int16, UInt16, Low
  <2>2. l \in DOMAIN w /\ w[l] = hi * 65536 + lo
    <3>1. l \in 0 .. 8 - 1
      BY SMT
    <3> QED
      BY <3>1, SMT DEF WideSums
  <2>3. hi \in Int /\ lo \in Nat /\ lo <= 65535
    BY <2>1, SMT DEF UInt16, ProductHighs
  <2> HIDE DEF w, lo
  <2>4. High(w[l]) = hi /\ Low(w[l]) = lo /\ w[l] \in Int
    <3>1. PICK y \in Int : y = hi * 65536 + lo
      BY <2>3, SMT
    <3>2. High(y) = hi /\ Low(y) = lo
      BY <2>3, <3>1, SMT DEF High, Low
    <3> QED
      BY <2>2, <3>1, <3>2, SMT
  <2>5. A!MontgomeryReduceWide(w)[l] = FromProductSum(hi, lo)
    BY <2>1, <2>2, WideOfAvx2, SMT
  <2>6. N!MontgomeryLanes(w)[l] = FromProductSum(hi, lo)
    BY <2>2, <2>4, MontgomeryOfNeon, SMT DEF FromProductSum
  <2> QED
    BY <2>5, <2>6 DEF w, lo
<1> QED
  BY <1>1, <1>2, <1>3, Zenon DEF ProductsAgree

LEMMA CompressedLanes ==
  ASSUME TypeOK, x % 16 = 0
  PROVE  CompressAgrees
<1> SUFFICES ASSUME NEW d \in Depths
             PROVE  /\ \A l \in 0 .. 15 : A!CompressLanes(Sixteen, d)[l] = Compress(x + l, d)
                    /\ \A part \in 0 .. 1 : \A l \in 0 .. 7 :
                         N!CompressLanes(Eight(part), d)[l] = Compress(x + 8 * part + l, d)
  BY Zenon DEF CompressAgrees
<1>1. d \in 1 .. 12
  BY SweepAssumption
<1>2. ASSUME NEW l \in 0 .. 15
      PROVE  A!CompressLanes(Sixteen, d)[l] = Compress(x + l, d)
  <2>1. Sixteen[l] = x + l /\ x + l \in Int16 /\ DOMAIN Sixteen = 0 .. 15
    BY SixteenLane, Shapes
  <2> QED
    BY <1>1, <2>1, CompressOfAvx2
<1>3. ASSUME NEW part \in 0 .. 1, NEW l \in 0 .. 7
      PROVE  N!CompressLanes(Eight(part), d)[l] = Compress(x + 8 * part + l, d)
  <2>1. /\ Eight(part)[l] = x + 8 * part + l /\ x + 8 * part + l \in Int16
        /\ DOMAIN Eight(part) = 0 .. 7
    BY EightLane, Shapes
  <2> QED
    BY <1>1, <2>1, CompressOfNeon
<1> QED
  BY <1>2, <1>3

LEMMA DecompressedLanes ==
  ASSUME TypeOK
  PROVE  DecompressAgrees
<1> SUFFICES ASSUME NEW d \in Depths, NEW l \in 0 .. 15
             PROVE  LET y == [i \in 0 .. 15 |-> (x + i) % 2^d]
                        avx2 == A!DecompressLanes(y, d)
                        low == N!DecompressLanes([i \in 0 .. 7 |-> y[i]], d)
                        high == N!DecompressLanes([i \in 0 .. 7 |-> y[i + 8]], d)
                    IN /\ avx2[l] = Decompress(y[l], d)
                       /\ (IF l < 8 THEN low[l] ELSE high[l - 8]) = Decompress(y[l], d)
  BY Zenon DEF DecompressAgrees
<1> DEFINE y == [i \in 0 .. 15 |-> (x + i) % 2^d]
           lower == [i \in 0 .. 7 |-> y[i]]
           upper == [i \in 0 .. 7 |-> y[i + 8]]
<1>1. d \in 1 .. 12
  BY SweepAssumption
<1>2. y[l] \in Bits(d)
  <2>1. x + l \in Int
    BY SMT DEF TypeOK, Int16
  <2>2. PICK half \in Halves, p \in Int : p = 2^d /\ p = 2 * half
    BY <1>1, Powers, Zenon
  <2>3. p >= 1
    BY <2>2, SMT DEF Halves
  <2>4. (x + l) % p \in Int /\ 0 <= (x + l) % p /\ (x + l) % p < p
    BY <2>1, <2>3, Divided, SMT
  <2> QED
    BY <2>2, <2>4, Zenon DEF Bits
<1> HIDE DEF y
<1>3. A!DecompressLanes(y, d)[l] = Decompress(y[l], d)
  BY <1>1, <1>2, DecompressOfAvx2
<1>4. CASE l < 8
  <2>1. l \in 0 .. 7
    BY <1>4, SMT
  <2>2. lower[l] = y[l]
    BY <2>1, Zenon
  <2> HIDE DEF lower
  <2>3. N!DecompressLanes(lower, d)[l] = Decompress(y[l], d)
    BY <1>1, <1>2, <2>1, <2>2, DecompressOfNeon
  <2> QED
    BY <1>3, <1>4, <2>3 DEF lower, y
<1>5. CASE ~(l < 8)
  <2>1. l - 8 \in 0 .. 7 /\ (l - 8) + 8 = l
    BY <1>5, SMT
  <2>2. upper[l - 8] = y[l]
    BY <2>1, Zenon
  <2> HIDE DEF upper
  <2>3. N!DecompressLanes(upper, d)[l - 8] = Decompress(y[l], d)
    BY <1>1, <1>2, <2>1, <2>2, DecompressOfNeon
  <2> QED
    BY <1>3, <1>5, <2>3 DEF upper, y
<1> QED
  BY <1>4, <1>5

\* The kernels of both vector backends give what the field's own operations
\* give, for every i16 and every d (src/src/algebraic/poly/arch/avx2.rs:47-355,
\* neon.rs:54-418).
THEOREM LanesFollow == Spec => []LanesAreTheField
<1>1. TypeOK => LanesAreTheField
  BY ReduceLanes, ProductLanes, CompressedLanes, DecompressedLanes, Zenon DEF LanesAreTheField
<1> QED
  BY <1>1, TypeCorrect, PTL
=============================================================================
