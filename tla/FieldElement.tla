---------------------------- MODULE FieldElement ----------------------------
(***************************************************************************)
(* The prime field of src/src/algebraic/field.rs at its machine widths:    *)
(* i16 representatives of classes modulo q, signed Montgomery arithmetic,  *)
(* and the mul-shifts that replace every division.                         *)
(*                                                                         *)
(* An i32 is its two halves, the signed upper and the unsigned lower 16    *)
(* bits, so that no sum here leaves TLC's own 32 bits.                     *)
(***************************************************************************)
EXTENDS Integers

Q == 3329
QINV == -3327
BARRETT_V == 20159
MONT_R_SQUARED == 1353
\* R modulo q, R = 2^16 the radix of the Montgomery form.
MONT_R == 65536 % Q

Int16 == {i \in Int : -32768 <= i /\ i <= 32767}
UInt16 == {i \in Nat : i <= 65535}

\* `as i16` and the wrapping operations.
Wrap16(x) == ((x + 32768) % 65536) - 32768
High(x) == x \div 65536
Low(x) == x % 65536

\* a and b are representatives of one class.
Congruent(a, b) == (a - b) % Q = 0

-----------------------------------------------------------------------------
\* Mutant: the rounding constant is left out.
BarrettFloor(a) ==
  LET t == Wrap16((BARRETT_V * a) \div 67108864) IN Wrap16(a - Wrap16(t * Q))

\* barrett and reduce
Barrett(a) ==
  LET t == Wrap16((BARRETT_V * a + 33554432) \div 67108864)
  IN Wrap16(a - Wrap16(t * Q))

\* value: the canonical representative.
Value(a) == IF Barrett(a) < 0 THEN Barrett(a) + Q ELSE Barrett(a)

\* Mutant: the factor's sign is that of the unsigned convention.
MontgomeryReduceUnsigned(hi, lo) ==
  LET m == Wrap16(lo * 3327) IN Wrap16(hi + (lo - m * Q) \div 65536)

\* montgomery_reduce of hi * 2^16 + lo: subtracting m * Q clears the low half,
\* and what an i32 drops above its 32 bits the cast to i16 drops as well.
MontgomeryReduce(hi, lo) ==
  LET m == Wrap16(lo * QINV) IN Wrap16(hi + (lo - m * Q) \div 65536)

\* from_product_sum
FromProductSum(hi, lo) == MontgomeryReduce(hi, lo)

Mul(a, b) == MontgomeryReduce(High(a * b), Low(a * b))
ToMontgomery(a) == Mul(a, MONT_R_SQUARED)
Add(a, b) == Wrap16(a + b)
Sub(a, b) == Wrap16(a - b)

\* Mutant: the constant's multiplier is rounded down.
BarrettMultiplierFloor(zeta) == (zeta * 32768) \div Q
\* ZETA_BARRETT's entry for a zeta.
BarrettMultiplier(zeta) == (zeta * 32768 + Q \div 2) \div Q

\* barrett_const_mul by a zeta and its multiplier.
BarrettConstMul(a, zeta) ==
  LET t == Wrap16((a * BarrettMultiplier(zeta) + 16384) \div 32768)
  IN Wrap16(Wrap16(a * zeta) - Wrap16(t * Q))

-----------------------------------------------------------------------------
\* (n * BARRETT_DIV_Q) >> 33 in limbs: BARRETT_DIV_Q = 1259 * 2^11 + 1903.
DivQ(n) ==
  LET a == n \div 4096
      b == n % 4096
      t1 == b * 1259 + (b * 1903) \div 2048
      t2 == a * 1903 + t1 \div 2
  IN (a * 1259 + t2 \div 2048) \div 1024

\* new: the canonical element of a u16.
New(v) == v - DivQ(v) * Q

\* Mutant: no rounding before the division.
CompressFloor(a, d) == DivQ(Value(a) * 2^d) % 2^d

Compress(a, d) == DivQ(Value(a) * 2^d + Q \div 2) % 2^d
Decompress(y, d) == New((Q * y + 2^(d - 1)) \div 2^d)
=============================================================================
