------------------------------ MODULE BitWords ------------------------------
(***************************************************************************)
(* Machine words by where their bits come from: position p of a word holds *)
(* the set of the message bits that were or-ed into it, {} for a zero.     *)
(* Message bits are numbered through: bit j of the i-th d-bit value is     *)
(* i * d + j, and ByteEncode_d puts it in bit p of byte m, 8 * m + p being *)
(* the same number.                                                        *)
(***************************************************************************)
EXTENDS Naturals

Positions(width) == 0 .. width - 1
Word(width) == [Positions(width) -> SUBSET Nat]
Zero(width) == [p \in Positions(width) |-> {}]

\* Shifts and masks of a word, in a register of the given width.
ShiftUp(w, from, n, width) ==
  [p \in Positions(width) |-> IF p >= n /\ p - n < from THEN w[p - n] ELSE {}]
ShiftDown(w, n, width) ==
  [p \in Positions(width) |-> IF p + n < width THEN w[p + n] ELSE {}]
Low(w, n, width) == [p \in Positions(width) |-> IF p < n THEN w[p] ELSE {}]
Or(v, w, width) == [p \in Positions(width) |-> v[p] \cup w[p]]

\* The i-th value of a run of d-bit values, as a u16.
Value(i, d) == [p \in Positions(16) |-> IF p < d THEN {i * d + p} ELSE {}]

\* The m-th byte of their packing, and the same byte of an input that ends
\* after `length' bytes and reads as zeros from there.
PackedByte(m) == [p \in Positions(8) |-> {8 * m + p}]
InputByte(m, length) == IF m < length THEN PackedByte(m) ELSE Zero(8)

\* The i-th value of such an input.
InputValue(i, d, length) ==
  [p \in Positions(16) |-> IF p < d /\ i * d + p < 8 * length THEN {i * d + p} ELSE {}]
=============================================================================
