------------------------------ MODULE BitLanes ------------------------------
(***************************************************************************)
(* The vector kernels of src/src/encoding/arch/avx2.rs and neon.rs: eight  *)
(* values, which are d bytes, per iteration, by table lookups into lanes   *)
(* of 32 or 16 bits and a shift of each lane. A kernel runs here on what   *)
(* the scalar form has just run on.                                        *)
(***************************************************************************)
EXTENDS BitPacking, Integers, Sequences

Backends == {"avx2", "neon"}

VARIABLES
  backend,   \* whose kernel runs, "none" before one does
  i,         \* iterations done
  group,     \* of the two stores of an iteration of pack, those done
  stored     \* what the kernel has made of the scalar form's input

kernel == <<backend, i, group, stored>>

-----------------------------------------------------------------------------
\* The inputs that do not take the scalar path.
HasKernel(b, o, w, l) ==
  CASE o = "pack" -> w \in {10, 11, 12}
    [] o = "unpack" -> w \in {4, 5, 10, 11, 12} /\ (b = "neon" => l = (N \div 8) * w)

\* Lanes of `width' bits, gathered from a window of 16 bytes by a function from
\* the lanes' bytes to the window's; 255 reads as zero.
Gather(window, idx, lane, width) ==
  [p \in Positions(width) |->
    LET source == idx[(width \div 8) * lane + p \div 8]
    IN IF source = 255 THEN {} ELSE window[source][p % 8]]

\* The eight values of an iteration, as the 16 bytes of their u16s.
ChunkBytes(w, c) == [m \in 0 .. 15 |-> [p \in Positions(8) |-> Value(8 * c + m \div 2, w)[8 * (m % 2) + p]]]

\* pack_controls: for the bytes from j0, the value each begins in and the bits
\* of that value that an earlier byte holds.
ValueIndex(w, j) == (8 * j) \div w
BitOffset(w, j) == 8 * j - w * ValueIndex(w, j)

\* Mutant: the second value's shift is that of a byte-sized value.
NextShiftByte(w, j) == 8 - BitOffset(w, j)
NextShift(w, j) == w - BitOffset(w, j)

LaneWidth(b) == IF b = "avx2" THEN 32 ELSE 16

\* The controls of an AVX2 lane read 255 in its upper half.
ControlOf(b, value) ==
  [m \in 0 .. LaneWidth(b) - 1 |->
    LET bytes == LaneWidth(b) \div 8
        v == value[m \div bytes]
    IN IF m % bytes < 2 /\ v < 8 THEN 2 * v + (m % bytes) ELSE 255]

\* The group of eight bytes from j0 of an iteration.
PackedGroup(b, w, c, j0) ==
  LET width == LaneWidth(b)
      first == [k \in 0 .. 7 |-> ValueIndex(w, j0 + k)]
      lane(k, shifted) == Gather(ChunkBytes(w, c), ControlOf(b, [m \in 0 .. 7 |-> first[m] + shifted]), k, width)
  IN [k \in 0 .. 7 |->
       Low(Or(ShiftDown(lane(k, 0), BitOffset(w, j0 + k), width),
              ShiftUp(lane(k, 1), width, NextShift(w, j0 + k), width), width), 8, 8)]

\* Mutant: the second store follows the first.
GroupAtAdjacent(w, g) == 8 * g
\* Where in an iteration's d bytes a group is stored.
GroupAt(w, g) == g * (w - 8)

-----------------------------------------------------------------------------
\* NEON's tables, `idx' by byte and `shifts' by lane, for its u16 lanes and
\* the u32 lanes of 11-bit values.
IDX_5 == <<0, 1, 0, 1, 1, 2, 1, 2, 2, 3, 3, 4, 3, 4, 4, 5>>
SHIFTS_5 == <<0, 5, 2, 7, 4, 1, 6, 3>>
IDX_10 == <<0, 1, 1, 2, 2, 3, 3, 4, 5, 6, 6, 7, 7, 8, 8, 9>>
SHIFTS_10 == <<0, 2, 4, 6, 0, 2, 4, 6>>
IDX_12 == <<0, 1, 1, 2, 3, 4, 4, 5, 6, 7, 7, 8, 9, 10, 10, 11>>
SHIFTS_12 == <<0, 4, 0, 4, 0, 4, 0, 4>>
IDX_11_LOW == <<0, 1, 2, 3, 1, 2, 3, 4, 2, 3, 4, 5, 4, 5, 6, 7>>
IDX_11_HIGH == <<5, 6, 7, 8, 6, 7, 8, 9, 8, 9, 10, 11, 9, 10, 11, 12>>
SHIFTS_11 == <<0, 3, 6, 1, 4, 7, 2, 5>>

NeonTable(w) ==
  CASE w = 5 -> [idx |-> IDX_5, shifts |-> SHIFTS_5, width |-> 16]
    [] w = 10 -> [idx |-> IDX_10, shifts |-> SHIFTS_10, width |-> 16]
    [] w = 12 -> [idx |-> IDX_12, shifts |-> SHIFTS_12, width |-> 16]
    [] w = 11 -> [idx |-> IDX_11_LOW \o IDX_11_HIGH, shifts |-> SHIFTS_11, width |-> 32]

NeonControls(w) ==
  LET table == NeonTable(w)
  IN [idx |-> [m \in 0 .. Len(table.idx) - 1 |-> table.idx[m + 1]],
      shifts |-> [k \in 0 .. 7 |-> table.shifts[k + 1]],
      width |-> table.width]

\* gather_controls
GatherControls(w) ==
  [idx |-> [m \in 0 .. 31 |-> (w * (m \div 4)) \div 8 + (m % 4)],
   shifts |-> [k \in 0 .. 7 |-> (w * k) % 8],
   width |-> 32]

UnpackControls(b, w) == IF b = "avx2" THEN GatherControls(w) ELSE NeonControls(w)

\* window: 16 bytes, zeros past the end of the input.
Window(w, c, l) == [m \in 0 .. 15 |-> InputByte(w * c + m, l)]

\* The k-th value of an iteration of a gathering kernel.
GatheredValue(b, w, c, l, k) ==
  LET controls == UnpackControls(b, w)
      lane == Gather(Window(w, c, l), controls.idx, k, controls.width)
  IN Low(ShiftDown(lane, controls.shifts[k], controls.width), w, 16)

\* unpack_4: the two nibbles of each byte, zipped.
NibbleValue(c, l, k) ==
  LET byte == InputByte(16 * c + k \div 2, l)
  IN IF k % 2 = 0 THEN Low(byte, 4, 8) ELSE ShiftDown(byte, 4, 8)
Widened(byte) == [p \in Positions(16) |-> IF p < 8 THEN byte[p] ELSE {}]

IsNibbles(b, w) == b = "neon" /\ w = 4

-----------------------------------------------------------------------------
\* Nothing is left to iterate on.
Ended == IF IsNibbles(backend, d) /\ op = "unpack" THEN i = N \div 32 \/ 16 * (i + 1) > length
                                                 ELSE 8 * i = N

FormsInit == Init /\ backend = "none" /\ i = 0 /\ group = 0 /\ stored = out

ScalarForm == Next /\ UNCHANGED kernel

\* pack and unpack of a backend that has a kernel for the input.
Dispatch ==
  /\ Done /\ backend = "none"
  /\ \E b \in Backends : HasKernel(b, op, d, length) /\ backend' = b
  /\ UNCHANGED <<vars, i, group, stored>>

Running == backend \in Backends /\ ~Ended

\* One of the two overlapping stores of an iteration of pack_gathered.
StoreGroup ==
  /\ Running /\ op = "pack"
  /\ LET at == d * i + GroupAt(d, group)
         bytes == PackedGroup(backend, d, i, group * (d - 8))
     IN stored' = [m \in DOMAIN stored |-> IF m - at \in 0 .. 7 THEN bytes[m - at] ELSE stored[m]]
  /\ group' = 1 - group
  /\ i' = i + group
  /\ UNCHANGED <<vars, backend>>

\* An iteration of unpack_gathered, or of unpack_11.
GatherValues ==
  /\ Running /\ op = "unpack" /\ ~IsNibbles(backend, d)
  /\ stored' = [v \in DOMAIN stored |->
                 IF v \div 8 = i THEN GatheredValue(backend, d, i, length, v % 8) ELSE stored[v]]
  /\ i' = i + 1
  /\ UNCHANGED <<vars, backend, group>>

\* An iteration of unpack_4, 32 values from 16 bytes; a rest is left.
ZipNibbles ==
  /\ Running /\ op = "unpack" /\ IsNibbles(backend, d)
  /\ stored' = [v \in DOMAIN stored |->
                 IF v \div 32 = i THEN Widened(NibbleValue(i, length, v % 32)) ELSE stored[v]]
  /\ i' = i + 1
  /\ UNCHANGED <<vars, backend, group>>

FormsNext == ScalarForm \/ Dispatch \/ StoreGroup \/ GatherValues \/ ZipNibbles
FormsSpec == FormsInit /\ [][FormsNext]_<<vars, kernel>>

-----------------------------------------------------------------------------
\* A vector kernel gives what the scalar form gives of the same input. The
\* stores of pack have written the scalar form's bytes, twice where the two of
\* an iteration overlap, and none beyond; and once a kernel has ended every
\* value is the scalar form's, zeros for missing bytes included
\* (src/src/encoding/arch/avx2.rs:84-203, neon.rs:103-260).
FormsAgree ==
  backend \in Backends =>
    /\ op = "pack" =>
         \A m \in DOMAIN stored : stored[m] = IF m < d * i + 8 * group THEN out[m] ELSE Zero(8)
    /\ op = "unpack" /\ Ended => stored = out

\* No store leaves the 32 * D bytes of the packing, which the raw pointers do
\* not check, and no lookup goes past byte 13 of a window
\* (src/src/encoding/arch/avx2.rs:89-92, 158-159, neon.rs:108-110, 162-163).
AccessesStayInside ==
  Running =>
    /\ op = "pack" => d * i + GroupAt(d, group) + 8 <= Bytes
    /\ op = "unpack" /\ ~IsNibbles(backend, d) =>
         LET idx == UnpackControls(backend, d).idx IN \A m \in DOMAIN idx : idx[m] <= 13
=============================================================================
