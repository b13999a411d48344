----------------------------- MODULE BitPacking -----------------------------
(***************************************************************************)
(* The scalar pack and unpack of src/src/encoding/arch/generic.rs, value   *)
(* by value through a 128-bit accumulator of which 64-bit words are stored *)
(* and loaded.                                                             *)
(***************************************************************************)
EXTENDS BitWords

CONSTANTS
  N,      \* values of an element
  Widths, \* the d of ByteEncode_d and ByteDecode_d
  Lengths \* the numbers of bytes that an input may lack

\* Whole words are stored, a value is a u16, and one more value and one more
\* word fit the accumulator.
ASSUME PackingAssumption ==
  /\ N \in Nat /\ N % 64 = 0
  /\ Widths \in SUBSET (1 .. 16)
  /\ Lengths \in SUBSET Nat

VARIABLES
  op,          \* "pack" or "unpack"
  d,
  length,      \* bytes of the input to unpack
  n,           \* values done
  accumulator, bits,
  words,       \* words stored or loaded
  out          \* the bytes packed, or the values unpacked

vars == <<op, d, length, n, accumulator, bits, words, out>>

Bytes == (N \div 8) * d
Done == n = N

Init ==
  /\ op \in {"pack", "unpack"}
  /\ d \in Widths
  /\ length \in IF op = "pack" THEN {0} ELSE {Bytes - l : l \in {l \in Lengths : l <= Bytes}}
  /\ n = 0 /\ bits = 0 /\ words = 0
  /\ accumulator = Zero(128)
  /\ out = IF op = "pack" THEN [m \in 0 .. Bytes - 1 |-> Zero(8)] ELSE [i \in 0 .. N - 1 |-> Zero(16)]

-----------------------------------------------------------------------------
\* Mutant: a word is stored one bit late.
IsFullLate(b) == b > 64

IsFull(b) == b >= 64

\* A value is or-ed in above the bits there are; a full word is stored.
PackValue ==
  /\ op = "pack" /\ n < N
  /\ LET acc == Or(accumulator, ShiftUp(Value(n, d), 16, bits, 128), 128)
     IN IF IsFull(bits + d)
          THEN /\ out' = [m \in DOMAIN out |->
                           IF m \div 8 = words
                             THEN [p \in Positions(8) |-> acc[8 * (m % 8) + p]]
                             ELSE out[m]]
               /\ accumulator' = ShiftDown(acc, 64, 128)
               /\ bits' = bits + d - 64
               /\ words' = words + 1
          ELSE /\ accumulator' = acc
               /\ bits' = bits + d
               /\ UNCHANGED <<out, words>>
  /\ n' = n + 1
  /\ UNCHANGED <<op, d, length>>

\* The next word of the input; a short last chunk is padded with zeros, and
\* so is what follows it.
NextWord(w) == [p \in Positions(64) |-> InputByte(8 * w + p \div 8, length)[p % 8]]

\* Mutant: the rest of a word is thrown away when it is too short.
KeptBitsNone(acc, b) == Zero(128)
KeptBits(acc, b) == acc

\* A word is loaded above the bits there are when they are too few.
UnpackValue ==
  /\ op = "unpack" /\ n < N
  /\ LET short == bits < d
         acc == IF short
                  THEN Or(KeptBits(accumulator, bits), ShiftUp(NextWord(words), 64, bits, 128), 128)
                  ELSE accumulator
     IN /\ out' = [out EXCEPT ![n] = Low(acc, d, 16)]
        /\ accumulator' = ShiftDown(acc, d, 128)
        /\ bits' = (IF short THEN bits + 64 ELSE bits) - d
        /\ words' = IF short THEN words + 1 ELSE words
  /\ n' = n + 1
  /\ UNCHANGED <<op, d, length>>

Next == PackValue \/ UnpackValue
Spec == Init /\ [][Next]_vars

-----------------------------------------------------------------------------
\* Every stored byte is the byte of ByteEncode_d and the others are still
\* zero; after the last value none is (src/src/encoding/arch/generic.rs:8-33).
PacksInPlace ==
  op = "pack" =>
    /\ \A m \in DOMAIN out : out[m] = IF m < 8 * words THEN PackedByte(m) ELSE Zero(8)
    /\ Done => \A m \in DOMAIN out : out[m] = PackedByte(m)

\* Every value unpacked is the one that was packed there, with zeros for the
\* bits that a short input lacks (src/src/encoding/arch/generic.rs:35-76).
UnpacksInPlace ==
  op = "unpack" => \A i \in 0 .. n - 1 : out[i] = InputValue(i, d, length)

\* The accumulator has room for what the next value adds, and holds nothing
\* above the bits it counts: no bit is lost at the top, none is or-ed twice
\* (src/src/encoding/arch/generic.rs:17-31, 62-75).
AccumulatorHasRoom ==
  /\ bits + (IF op = "pack" THEN d ELSE 64) <= 128
  /\ \A p \in Positions(128) : p >= bits => accumulator[p] = {}
=============================================================================
