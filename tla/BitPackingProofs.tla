-------------------------- MODULE BitPackingProofs --------------------------
(***************************************************************************)
(* What the scalar packing does for every number of values that fills      *)
(* whole words, every width up to 16 and every length of the input, and    *)
(* that the vector kernels do the same wherever they are dispatched.       *)
(***************************************************************************)
EXTENDS BitLanes, TLAPS

\* The bits done and the bits held are those of the words stored, and the
\* accumulator holds exactly the held ones, in order.
Packing ==
  /\ 64 * words + bits = n * d
  /\ accumulator = [p \in Positions(128) |-> IF p < bits THEN {64 * words + p} ELSE {}]
  /\ out = [m \in 0 .. Bytes - 1 |-> IF m < 8 * words THEN PackedByte(m) ELSE Zero(8)]

\* The bits loaded are those unpacked and those held.
Unpacking ==
  /\ 64 * words = n * d + bits
  /\ accumulator = [p \in Positions(128) |->
                     IF p < bits /\ n * d + p < 8 * length THEN {n * d + p} ELSE {}]
  /\ out = [v \in 0 .. N - 1 |-> IF v < n THEN InputValue(v, d, length) ELSE Zero(16)]

Counts ==
  /\ op \in {"pack", "unpack"}
  /\ d \in Nat /\ 1 <= d /\ d <= 16
  /\ length \in Nat
  /\ n \in Nat /\ n <= N
  /\ bits \in Nat /\ bits < 64
  /\ words \in Nat

IInv ==
  /\ Counts
  /\ op = "pack" => Packing
  /\ op = "unpack" => Unpacking

-----------------------------------------------------------------------------
\* Nothing is held when all values are packed.
LEMMA WholeWords ==
  ASSUME NEW w \in Nat, NEW b \in Nat, b < 64, NEW e \in Nat, 64 * w + b = N * e
  PROVE  b = 0 /\ (N \div 8) * e = 8 * w
<1> DEFINE k == N \div 64
<1>1. k \in Nat /\ N = 64 * k /\ N \div 8 = 8 * k
  BY PackingAssumption, SMT
<1>2. k * e \in Nat /\ N * e = 64 * (k * e) /\ (8 * k) * e = 8 * (k * e)
  BY <1>1, SMT
<1> HIDE DEF k
<1>3. b = 0 /\ w = k * e
  BY <1>2, SMT
<1> QED
  BY <1>1, <1>2, <1>3, SMT

LEMMA InitInv == Init => IInv
<1> SUFFICES ASSUME Init PROVE IInv
  OBVIOUS
<1>1. Counts
  <2>1. N \in Nat /\ d \in Nat /\ 1 <= d /\ d <= 16 /\ Lengths \in SUBSET Nat
    BY PackingAssumption DEF Init
  <2>2. Bytes \in Nat
    BY <2>1 DEF Bytes
  <2>3. length \in Nat
    BY <2>1, <2>2 DEF Init
  <2> QED
    BY <2>1, <2>3 DEF Init, Counts
<1>2. ASSUME op = "pack" PROVE Packing
  <2>1. 64 * words + bits = n * d
    BY <1>1 DEF Init, Counts
  <2>2. accumulator = [p \in Positions(128) |-> IF p < bits THEN {64 * words + p} ELSE {}]
    BY DEF Init, Zero, Positions
  <2>3. out = [m \in 0 .. Bytes - 1 |-> IF m < 8 * words THEN PackedByte(m) ELSE Zero(8)]
    BY <1>2 DEF Init
  <2> QED
    BY <2>1, <2>2, <2>3 DEF Packing
<1>3. ASSUME op = "unpack" PROVE Unpacking
  <2>1. 64 * words = n * d + bits
    BY <1>1 DEF Init, Counts
  <2>2. accumulator = [p \in Positions(128) |->
                        IF p < bits /\ n * d + p < 8 * length THEN {n * d + p} ELSE {}]
    BY DEF Init, Zero, Positions
  <2>3. out = [v \in 0 .. N - 1 |-> IF v < n THEN InputValue(v, d, length) ELSE Zero(16)]
    BY <1>3 DEF Init
  <2> QED
    BY <2>1, <2>2, <2>3 DEF Unpacking
<1> QED
  BY <1>1, <1>2, <1>3 DEF IInv
-----------------------------------------------------------------------------
\* pack: the accumulator with the value's bits above those it held.
LEMMA ValueAdded ==
  ASSUME IInv, op = "pack"
  PROVE  Or(accumulator, ShiftUp(Value(n, d), 16, bits, 128), 128)
           = [p \in Positions(128) |-> IF p < bits + d THEN {64 * words + p} ELSE {}]
<1> DEFINE acc == Or(accumulator, ShiftUp(Value(n, d), 16, bits, 128), 128)
<1> SUFFICES ASSUME NEW p \in Positions(128)
             PROVE  acc[p] = IF p < bits + d THEN {64 * words + p} ELSE {}
  BY DEF Or
<1>1. Counts /\ Packing
  BY DEF IInv
<1>2. p \in Nat /\ p < 128
  BY DEF Positions
<1>3. acc[p] = accumulator[p] \cup ShiftUp(Value(n, d), 16, bits, 128)[p]
  BY DEF Or
<1>4. accumulator[p] = IF p < bits THEN {64 * words + p} ELSE {}
  BY <1>1 DEF Packing
<1>5. ShiftUp(Value(n, d), 16, bits, 128)[p]
        = IF p >= bits /\ p - bits < d THEN {64 * words + p} ELSE {}
  <2>1. ShiftUp(Value(n, d), 16, bits, 128)[p]
          = IF p >= bits /\ p - bits < 16 THEN Value(n, d)[p - bits] ELSE {}
    BY DEF ShiftUp
  <2>2. ASSUME p >= bits, p - bits < 16
        PROVE  Value(n, d)[p - bits] = IF p - bits < d THEN {64 * words + p} ELSE {}
    <3>1. p - bits \in Positions(16)
      BY <1>1, <1>2, <2>2 DEF Counts, Positions
    <3>2. Value(n, d)[p - bits] = IF p - bits < d THEN {n * d + (p - bits)} ELSE {}
      BY <3>1 DEF Value
    <3>3. n * d + (p - bits) = 64 * words + p
      <4>1. 64 * words + bits = n * d
        BY <1>1 DEF Packing
      <4> QED
        BY <1>1, <1>2, <4>1 DEF Counts
    <3> QED
      BY <3>2, <3>3
  <2>3. p >= bits /\ p - bits < d => p - bits < 16
    BY <1>1, <1>2 DEF Counts
  <2> QED
    BY <2>1, <2>2, <2>3
<1>6. p < bits + d <=> p < bits \/ (p >= bits /\ p - bits < d)
  BY <1>1, <1>2 DEF Counts
<1> QED
  BY <1>3, <1>4, <1>5, <1>6

\* Multiplication by a width, one value on.
LEMMA NextProduct ==
  ASSUME Counts PROVE (n + 1) * d = n * d + d /\ n * d \in Nat
BY SMT DEF Counts

LEMMA PackKeeps ==
  ASSUME IInv, PackValue PROVE IInv'
<1> DEFINE acc == Or(accumulator, ShiftUp(Value(n, d), 16, bits, 128), 128)
           held == [p \in Positions(128) |-> IF p < bits + d THEN {64 * words + p} ELSE {}]
<1>1. Counts /\ Packing /\ op = "pack" /\ n < N /\ N \in Nat
  BY PackingAssumption DEF IInv, PackValue
<1>2. acc = held
  BY <1>1, ValueAdded
<1>3. (n + 1) * d = n * d + d /\ n * d \in Nat
  BY <1>1, NextProduct
<1>4. 64 * words + bits = n * d
  BY <1>1 DEF Packing
<1>5. n' = n + 1 /\ op' = op /\ d' = d /\ length' = length /\ Bytes' = Bytes
  BY DEF PackValue, Bytes
<1>6. CASE IsFull(bits + d)
  <2>1. /\ out' = [m \in DOMAIN out |->
                    IF m \div 8 = words THEN [p \in Positions(8) |-> acc[8 * (m % 8) + p]]
                                        ELSE out[m]]
        /\ accumulator' = ShiftDown(acc, 64, 128)
        /\ bits' = bits + d - 64
        /\ words' = words + 1
    BY <1>6 DEF PackValue
  <2>2. bits + d >= 64
    BY <1>6 DEF IsFull
  <2>3. Counts'
    BY <1>1, <1>5, <2>1, <2>2 DEF Counts
  <2>4. 64 * words' + bits' = n' * d'
    BY <1>1, <1>3, <1>4, <1>5, <2>1, <2>2 DEF Counts
  <2>5. accumulator' = [p \in Positions(128) |-> IF p < bits' THEN {64 * words' + p} ELSE {}]
    <3> DEFINE shifted(p) == IF p + 64 < 128 THEN held[p + 64] ELSE {}
               kept(p) == IF p < bits' THEN {64 * words' + p} ELSE {}
    <3>0. accumulator' = [p \in Positions(128) |-> shifted(p)]
      <4> HIDE DEF acc, held
      <4>1. accumulator' = ShiftDown(held, 64, 128)
        BY <1>2, <2>1
      <4> QED
        BY <4>1 DEF ShiftDown
    <3> SUFFICES ASSUME NEW p \in Positions(128) PROVE shifted(p) = kept(p)
      <4> HIDE DEF shifted, kept
      <4>1. \A p \in Positions(128) : shifted(p) = kept(p)
        OBVIOUS
      <4>2. [p \in Positions(128) |-> shifted(p)] = [p \in Positions(128) |-> kept(p)]
        BY <4>1
      <4> QED
        BY <3>0, <4>2 DEF kept
    <3>1. p \in Nat /\ p < 128
      BY DEF Positions
    <3>3. CASE p + 64 < 128
      <4>1. p + 64 \in Positions(128)
        BY <3>1, <3>3 DEF Positions
      <4>2. held[p + 64] = IF p + 64 < bits + d THEN {64 * words + (p + 64)} ELSE {}
        BY <4>1
      <4>3. (p + 64 < bits + d <=> p < bits') /\ 64 * words + (p + 64) = 64 * words' + p
        BY <1>1, <2>1, <3>1 DEF Counts
      <4> QED
        BY <3>3, <4>2, <4>3
    <3>4. CASE ~(p + 64 < 128)
      <4>1. ~(p < bits')
        BY <1>1, <2>1, <3>1, <3>4 DEF Counts
      <4> QED
        BY <3>4, <4>1
    <3> QED
      BY <3>3, <3>4
  <2>6. out' = [m \in 0 .. Bytes' - 1 |-> IF m < 8 * words' THEN PackedByte(m) ELSE Zero(8)]
    <3>1. DOMAIN out = 0 .. Bytes - 1
      BY <1>1 DEF Packing
    <3>2. Bytes \in Nat
      BY <1>1, SMT DEF Bytes, Counts
    <3> SUFFICES ASSUME NEW m \in 0 .. Bytes - 1
                 PROVE  (IF m \div 8 = words THEN [p \in Positions(8) |-> acc[8 * (m % 8) + p]]
                                             ELSE out[m])
                          = IF m < 8 * words' THEN PackedByte(m) ELSE Zero(8)
      BY <1>5, <2>1, <3>1
    <3>3. m \in Nat /\ words \in Nat /\ words' = words + 1
      BY <1>1, <2>1, <3>2 DEF Counts
    <3>4. CASE m \div 8 = words
      <4>1. m = 8 * words + (m % 8) /\ m % 8 \in 0 .. 7 /\ m < 8 * words'
        BY <3>3, <3>4, SMT
      <4>2. ASSUME NEW p \in Positions(8)
            PROVE  acc[8 * (m % 8) + p] = {8 * m + p}
        <5>1. p \in Nat /\ p < 8
          BY DEF Positions
        <5>2. 8 * (m % 8) + p \in Positions(128) /\ 8 * (m % 8) + p < 64
          BY <4>1, <5>1 DEF Positions
        <5>3. 8 * (m % 8) + p < bits + d
          BY <1>1, <2>2, <5>2 DEF Counts, Positions
        <5>4. 64 * words + (8 * (m % 8) + p) = 8 * m + p
          BY <3>3, <4>1, <5>1
        <5> QED
          BY <1>2, <5>2, <5>3, <5>4
      <4> QED
        BY <3>4, <4>1, <4>2 DEF PackedByte
    <3>5. CASE m \div 8 # words
      <4>1. m < 8 * words <=> m < 8 * words'
        BY <3>3, <3>5, SMT
      <4>2. out[m] = IF m < 8 * words THEN PackedByte(m) ELSE Zero(8)
        BY <1>1 DEF Packing
      <4> QED
        BY <3>5, <4>1, <4>2
    <3> QED
      BY <3>4, <3>5
  <2> QED
    BY <1>1, <1>5, <2>3, <2>4, <2>5, <2>6 DEF IInv, Packing
<1>7. CASE ~IsFull(bits + d)
  <2>1. accumulator' = acc /\ bits' = bits + d /\ out' = out /\ words' = words
    BY <1>7 DEF PackValue
  <2>2. ~(bits + d >= 64)
    BY <1>7 DEF IsFull
  <2>3. Counts'
    BY <1>1, <1>5, <2>1, <2>2 DEF Counts
  <2>4. 64 * words' + bits' = n' * d'
    BY <1>1, <1>3, <1>4, <1>5, <2>1 DEF Counts
  <2>5. accumulator' = [p \in Positions(128) |-> IF p < bits' THEN {64 * words' + p} ELSE {}]
    BY <1>2, <2>1
  <2>6. out' = [m \in 0 .. Bytes' - 1 |-> IF m < 8 * words' THEN PackedByte(m) ELSE Zero(8)]
    BY <1>1, <1>5, <2>1 DEF Packing
  <2> QED
    BY <1>1, <1>5, <2>3, <2>4, <2>5, <2>6 DEF IInv, Packing
<1> QED
  BY <1>6, <1>7
-----------------------------------------------------------------------------
\* The w-th word of the input, bit by bit.
LEMMA WordBits ==
  ASSUME Counts, NEW q \in Positions(64)
  PROVE  NextWord(words)[q] = IF 64 * words + q < 8 * length THEN {64 * words + q} ELSE {}
<1>1. q \in Nat /\ q < 64 /\ words \in Nat /\ length \in Nat
  BY DEF Positions, Counts
<1>2. NextWord(words)[q] = InputByte(8 * words + q \div 8, length)[q % 8]
  BY DEF NextWord
<1>3. q % 8 \in Positions(8) /\ 8 * (8 * words + q \div 8) + (q % 8) = 64 * words + q
  BY <1>1, SMT DEF Positions
<1>4. 8 * words + q \div 8 < length <=> 64 * words + q < 8 * length
  BY <1>1, SMT
<1>5. PackedByte(8 * words + q \div 8)[q % 8] = {64 * words + q}
  BY <1>3 DEF PackedByte
<1>6. Zero(8)[q % 8] = {}
  BY <1>3 DEF Zero
<1> QED
  BY <1>2, <1>4, <1>5, <1>6 DEF InputByte

\* unpack: the accumulator once it holds a whole value.
Short == bits < d
Loaded == IF Short THEN Or(KeptBits(accumulator, bits), ShiftUp(NextWord(words), 64, bits, 128), 128)
                   ELSE accumulator
Available == IF Short THEN bits + 64 ELSE bits

LEMMA WordAdded ==
  ASSUME IInv, op = "unpack"
  PROVE  Loaded = [p \in Positions(128) |->
                    IF p < Available /\ n * d + p < 8 * length THEN {n * d + p} ELSE {}]
<1>1. Counts /\ Unpacking
  BY DEF IInv
<1>2. CASE ~Short
  BY <1>1, <1>2 DEF Loaded, Available, Unpacking
<1>3. CASE Short
  <2> DEFINE word == ShiftUp(NextWord(words), 64, bits, 128)
             loaded(p) == accumulator[p] \cup word[p]
             wanted(p) == IF p < Available /\ n * d + p < 8 * length THEN {n * d + p} ELSE {}
  <2>1. Loaded = [p \in Positions(128) |-> loaded(p)]
    BY <1>3 DEF Loaded, KeptBits, Or
  <2>2. ASSUME NEW p \in Positions(128) PROVE loaded(p) = wanted(p)
    <3>1. p \in Nat /\ p < 128 /\ n * d \in Nat
      BY <1>1, NextProduct DEF Positions
    <3>2. accumulator[p] = IF p < bits /\ n * d + p < 8 * length THEN {n * d + p} ELSE {}
      BY <1>1 DEF Unpacking
    <3>3. word[p] = IF p >= bits /\ p - bits < 64 THEN NextWord(words)[p - bits] ELSE {}
      BY DEF ShiftUp
    <3>4. ASSUME p >= bits, p - bits < 64
          PROVE  NextWord(words)[p - bits] = IF n * d + p < 8 * length THEN {n * d + p} ELSE {}
      <4>1. p - bits \in Positions(64)
        BY <1>1, <3>1, <3>4 DEF Counts, Positions
      <4>2. 64 * words + (p - bits) = n * d + p
        BY <1>1, <3>1 DEF Counts, Unpacking
      <4> QED
        BY <1>1, <4>1, <4>2, WordBits
    <3>5. p < Available <=> p < bits \/ (p >= bits /\ p - bits < 64)
      BY <1>1, <1>3, <3>1 DEF Counts, Available
    <3>6. p < bits => ~(p >= bits)
      BY <1>1, <3>1 DEF Counts
    <3> QED
      BY <3>2, <3>3, <3>4, <3>5, <3>6
  <2> HIDE DEF loaded, wanted
  <2>3. [p \in Positions(128) |-> loaded(p)] = [p \in Positions(128) |-> wanted(p)]
    BY <2>2
  <2> QED
    BY <2>1, <2>3 DEF wanted
<1> QED
  BY <1>2, <1>3

LEMMA UnpackKeeps ==
  ASSUME IInv, UnpackValue PROVE IInv'
<1> DEFINE held(p) == IF p < Available /\ n * d + p < 8 * length THEN {n * d + p} ELSE {}
<1>1. Counts /\ Unpacking /\ op = "unpack" /\ n < N /\ N \in Nat
  BY PackingAssumption DEF IInv, UnpackValue
<1>2. Loaded = [p \in Positions(128) |-> held(p)]
  BY <1>1, WordAdded
<1>3. (n + 1) * d = n * d + d /\ n * d \in Nat
  BY <1>1, NextProduct
<1>4. /\ out' = [out EXCEPT ![n] = Low(Loaded, d, 16)]
      /\ accumulator' = ShiftDown(Loaded, d, 128)
      /\ bits' = Available - d
      /\ words' = IF Short THEN words + 1 ELSE words
      /\ n' = n + 1 /\ op' = op /\ d' = d /\ length' = length
  BY DEF UnpackValue, Loaded, Short, Available
<1>5. /\ Available \in Nat /\ d <= Available /\ Available < 64 + d /\ Available < 128
      /\ 64 * words' = n * d + Available
  BY <1>1, <1>4 DEF Counts, Unpacking, Available, Short
<1>6. Counts'
  BY <1>1, <1>4, <1>5 DEF Counts
<1>7. 64 * words' = n' * d' + bits'
  BY <1>1, <1>3, <1>4, <1>5 DEF Counts
<1>8. accumulator' = [p \in Positions(128) |->
                       IF p < bits' /\ n' * d' + p < 8 * length' THEN {n' * d' + p} ELSE {}]
  <2> DEFINE shifted(p) == IF p + d < 128 THEN Loaded[p + d] ELSE {}
             kept(p) == IF p < bits' /\ n' * d' + p < 8 * length' THEN {n' * d' + p} ELSE {}
  <2>1. accumulator' = [p \in Positions(128) |-> shifted(p)]
    BY <1>4 DEF ShiftDown
  <2>2. ASSUME NEW p \in Positions(128) PROVE shifted(p) = kept(p)
    <3>1. p \in Nat /\ p < 128
      BY DEF Positions
    <3>2. n' * d' + p = n * d + (p + d)
      BY <1>1, <1>3, <1>4, <3>1 DEF Counts
    <3>3. p < bits' <=> p + d < Available
      BY <1>1, <1>4, <1>5, <3>1 DEF Counts
    <3>4. CASE p + d < 128
      <4>1. p + d \in Positions(128)
        BY <1>1, <3>1, <3>4 DEF Counts, Positions
      <4>2. Loaded[p + d] = held(p + d)
        BY <1>2, <4>1
      <4> QED
        BY <1>4, <3>2, <3>3, <3>4, <4>2
    <3>5. CASE ~(p + d < 128)
      <4>1. ~(p < bits')
        BY <1>1, <1>5, <3>1, <3>3, <3>5 DEF Counts
      <4> QED
        BY <3>5, <4>1
    <3> QED
      BY <3>4, <3>5
  <2> HIDE DEF shifted, kept
  <2>3. [p \in Positions(128) |-> shifted(p)] = [p \in Positions(128) |-> kept(p)]
    BY <2>2
  <2> QED
    BY <2>1, <2>3 DEF kept
<1>9. out' = [v \in 0 .. N - 1 |-> IF v < n' THEN InputValue(v, d', length') ELSE Zero(16)]
  <2> DEFINE before(v) == IF v < n THEN InputValue(v, d, length) ELSE Zero(16)
             after(v) == IF v < n + 1 THEN InputValue(v, d, length) ELSE Zero(16)
  <2>1. Low(Loaded, d, 16) = InputValue(n, d, length)
    <3> DEFINE low(p) == IF p < d THEN Loaded[p] ELSE {}
               wanted(p) == IF p < d /\ n * d + p < 8 * length THEN {n * d + p} ELSE {}
    <3>1. ASSUME NEW p \in Positions(16) PROVE low(p) = wanted(p)
      <4>1. p \in Nat /\ p < 16 /\ p \in Positions(128)
        BY DEF Positions
      <4>2. Loaded[p] = held(p)
        BY <1>2, <4>1
      <4>3. p < d => p < Available
        BY <1>1, <1>5, <4>1 DEF Counts
      <4> QED
        BY <4>2, <4>3
    <3>2. Low(Loaded, d, 16) = [p \in Positions(16) |-> low(p)]
      BY DEF Low
    <3>3. InputValue(n, d, length) = [p \in Positions(16) |-> wanted(p)]
      BY DEF InputValue
    <3> HIDE DEF low, wanted
    <3>4. [p \in Positions(16) |-> low(p)] = [p \in Positions(16) |-> wanted(p)]
      BY <3>1
    <3> QED
      BY <3>2, <3>3, <3>4
  <2>2. out = [v \in 0 .. N - 1 |-> before(v)]
    BY <1>1 DEF Unpacking
  <2>3. out' = [v \in 0 .. N - 1 |-> IF v = n THEN InputValue(n, d, length) ELSE before(v)]
    <3> HIDE DEF before
    <3> QED
      BY <1>4, <2>1, <2>2
  <2>4. ASSUME NEW v \in 0 .. N - 1
        PROVE  (IF v = n THEN InputValue(n, d, length) ELSE before(v)) = after(v)
    <3>1. v < n + 1 <=> v < n \/ v = n
      BY <1>1 DEF Counts
    <3> QED
      BY <3>1
  <2>5. out' = [v \in 0 .. N - 1 |-> after(v)]
    <3> HIDE DEF before, after
    <3> QED
      BY <2>3, <2>4
  <2> QED
    BY <1>4, <2>5
<1> QED
  BY <1>1, <1>4, <1>6, <1>7, <1>8, <1>9 DEF IInv, Unpacking

\* The counts and contents above hold in every state.
THEOREM Inductive == Spec => []IInv
<1>1. ASSUME IInv, [Next]_vars PROVE IInv'
  <2>1. CASE PackValue
    BY <1>1, <2>1, PackKeeps
  <2>2. CASE UnpackValue
    BY <1>1, <2>2, UnpackKeeps
  <2>3. CASE UNCHANGED vars
    BY <1>1, <2>3 DEF IInv, Counts, Packing, Unpacking, vars, Bytes
  <2> QED
    BY <1>1, <2>1, <2>2, <2>3 DEF Next
<1> QED
  BY InitInv, <1>1, PTL DEF Spec

-----------------------------------------------------------------------------
LEMMA InPlace == IInv => PacksInPlace
<1> SUFFICES ASSUME IInv, op = "pack" PROVE PacksInPlace
  BY DEF PacksInPlace
<1>1. Counts /\ Packing
  BY DEF IInv
<1>2. \A m \in DOMAIN out : out[m] = IF m < 8 * words THEN PackedByte(m) ELSE Zero(8)
  BY <1>1 DEF Packing
<1>3. ASSUME Done PROVE \A m \in DOMAIN out : out[m] = PackedByte(m)
  <2>1. Bytes = 8 * words
    <3>1. 64 * words + bits = N * d
      BY <1>1, <1>3 DEF Packing, Done
    <3> QED
      BY <1>1, <3>1, WholeWords DEF Counts, Bytes
  <2>2. DOMAIN out = 0 .. 8 * words - 1
    BY <1>1, <2>1 DEF Packing
  <2>3. \A m \in DOMAIN out : m < 8 * words
    BY <1>1, <2>2 DEF Counts
  <2> QED
    BY <1>2, <2>3
<1> QED
  BY <1>2, <1>3 DEF PacksInPlace

\* Each byte that pack has stored is ByteEncode_d's, and all are at the end
\* (src/src/encoding/arch/generic.rs:8-33).
THEOREM Packs == Spec => []PacksInPlace
  BY Inductive, InPlace, PTL

\* Each value that unpack has given is ByteDecode_d's, zero-padded
\* (src/src/encoding/arch/generic.rs:35-76).
THEOREM Unpacks == Spec => []UnpacksInPlace
<1>1. IInv => UnpacksInPlace
  <2> SUFFICES ASSUME IInv, op = "unpack", NEW v \in 0 .. n - 1 PROVE out[v] = InputValue(v, d, length)
    BY DEF UnpacksInPlace
  <2>1. Counts /\ Unpacking /\ N \in Nat
    BY PackingAssumption DEF IInv
  <2>2. v \in 0 .. N - 1 /\ v < n
    BY <2>1 DEF Counts
  <2> QED
    BY <2>1, <2>2 DEF Unpacking
<1> QED
  BY Inductive, <1>1, PTL

\* No bit of the 128-bit accumulator is lost at the top or used twice
\* (src/src/encoding/arch/generic.rs:17-31, 62-75).
THEOREM HasRoom == Spec => []AccumulatorHasRoom
<1>1. IInv => AccumulatorHasRoom
  <2> SUFFICES ASSUME IInv PROVE AccumulatorHasRoom
    OBVIOUS
  <2>1. Counts
    BY DEF IInv
  <2>2. bits + (IF op = "pack" THEN d ELSE 64) <= 128
    BY <2>1 DEF Counts
  <2>3. ASSUME NEW p \in Positions(128), p >= bits PROVE accumulator[p] = {}
    <3>1. ~(p < bits)
      BY <2>1, <2>3 DEF Counts, Positions
    <3>2. CASE op = "pack"
      BY <3>1, <3>2 DEF IInv, Packing
    <3>3. CASE op = "unpack"
      BY <3>1, <3>3 DEF IInv, Unpacking
    <3> QED
      BY <2>1, <3>2, <3>3 DEF Counts
  <2> QED
    BY <2>2, <2>3 DEF AccumulatorHasRoom
<1> QED
  BY Inductive, <1>1, PTL

-----------------------------------------------------------------------------
(* The vector kernels.                                                     *)

VectorWidths == {4, 5, 10, 11, 12}

\* The controls of every gathering kernel, the constant tables of NEON
\* included, select for the k-th lane the bytes from (w * k) \div 8 on and
\* shift it by the bits of them that are not the k-th value's.
IsGathering(controls, w) ==
  /\ controls.width \in {16, 32}
  /\ \A m \in 0 .. controls.width - 1 :
       controls.idx[m] = (w * (m \div (controls.width \div 8))) \div 8 + (m % (controls.width \div 8))
  /\ \A k \in 0 .. 7 :
       controls.shifts[k] = (w * k) % 8 /\ w + ((w * k) % 8) <= controls.width
  /\ DOMAIN controls.idx = 0 .. controls.width - 1

LEMMA GatherControlsGather ==
  ASSUME NEW w \in VectorWidths
  PROVE  IsGathering(GatherControls(w), w)
BY SMT DEF IsGathering, GatherControls, VectorWidths

\* A table of bytes per lane and of shifts, in the order of the lanes.
IsTable(idx, shifts, width, w) ==
  /\ width \in {16, 32} /\ Len(idx) = width
  /\ \A m \in 0 .. width - 1 :
       idx[m + 1] = (w * (m \div (width \div 8))) \div 8 + (m % (width \div 8))
  /\ \A k \in 0 .. 7 : shifts[k + 1] = (w * k) % 8 /\ w + ((w * k) % 8) <= width

LEMMA TableGathers ==
  ASSUME NEW idx, NEW shifts, NEW w, NEW width, IsTable(idx, shifts, width, w), NEW v,
         NeonTable(v) = [idx |-> idx, shifts |-> shifts, width |-> width]
  PROVE  IsGathering(NeonControls(v), w)
<1> DEFINE controls == NeonControls(v)
<1>1. NeonTable(v).idx = idx /\ NeonTable(v).shifts = shifts /\ NeonTable(v).width = width
  OBVIOUS
<1>2. controls = [idx |-> [m \in 0 .. Len(idx) - 1 |-> idx[m + 1]],
                  shifts |-> [k \in 0 .. 7 |-> shifts[k + 1]],
                  width |-> width]
  BY <1>1, Zenon DEF NeonControls
<1>3. Len(idx) = width /\ width \in {16, 32}
  BY DEF IsTable
<1>4. /\ controls.idx = [m \in 0 .. width - 1 |-> idx[m + 1]]
      /\ controls.shifts = [k \in 0 .. 7 |-> shifts[k + 1]]
      /\ controls.width = width
  BY <1>2, <1>3
<1> HIDE DEF controls
<1>5. DOMAIN controls.idx = 0 .. width - 1
  BY <1>4
<1>6. \A m \in 0 .. width - 1 : controls.idx[m] = idx[m + 1]
  BY <1>4
<1>7. \A k \in 0 .. 7 : controls.shifts[k] = shifts[k + 1]
  BY <1>4
<1>8. IsGathering(controls, w)
  BY <1>3, <1>4, <1>5, <1>6, <1>7 DEF IsGathering, IsTable
<1> QED
  BY <1>8 DEF controls

LEMMA Table5 == IsTable(IDX_5, SHIFTS_5, 16, 5)
BY SMTT(30) DEF IsTable, IDX_5, SHIFTS_5

LEMMA Table10 == IsTable(IDX_10, SHIFTS_10, 16, 10)
BY SMTT(30) DEF IsTable, IDX_10, SHIFTS_10

LEMMA Table12 == IsTable(IDX_12, SHIFTS_12, 16, 12)
BY SMTT(30) DEF IsTable, IDX_12, SHIFTS_12

IDX_11 == IDX_11_LOW \o IDX_11_HIGH

LEMMA Table11 == IsTable(IDX_11, SHIFTS_11, 32, 11)
<1>1. \A m \in 0 .. 15 : IDX_11[m + 1] = IDX_11_LOW[m + 1]
  BY SMTT(30) DEF IDX_11, IDX_11_LOW, IDX_11_HIGH
<1>2. \A m \in 16 .. 31 : IDX_11[m + 1] = IDX_11_HIGH[m - 15]
  BY SMTT(30) DEF IDX_11, IDX_11_LOW, IDX_11_HIGH
<1>3. \A m \in 0 .. 15 : IDX_11_LOW[m + 1] = (11 * (m \div 4)) \div 8 + (m % 4)
  BY SMTT(30) DEF IDX_11_LOW
<1>4. \A m \in 16 .. 31 : IDX_11_HIGH[m - 15] = (11 * (m \div 4)) \div 8 + (m % 4)
  BY SMTT(30) DEF IDX_11_HIGH
<1>5. \A k \in 0 .. 7 : SHIFTS_11[k + 1] = (11 * k) % 8 /\ 11 + ((11 * k) % 8) <= 32
  BY SMTT(30) DEF SHIFTS_11
<1>6. Len(IDX_11) = 32
  BY SMTT(30) DEF IDX_11, IDX_11_LOW, IDX_11_HIGH
<1>7. \A m \in 0 .. 31 : m \in 0 .. 15 \/ m \in 16 .. 31
  BY SMT
<1> QED
  BY <1>1, <1>2, <1>3, <1>4, <1>5, <1>6, <1>7, SMT DEF IsTable

LEMMA NeonControlsGather ==
  ASSUME NEW w \in {5, 10, 11, 12}
  PROVE  IsGathering(NeonControls(w), w)
<1>1. CASE w = 5
  <2>1. NeonTable(w) = [idx |-> IDX_5, shifts |-> SHIFTS_5, width |-> 16]
    BY <1>1, SMT DEF NeonTable
  <2> QED
    BY <1>1, <2>1, Table5, TableGathers, Zenon
<1>2. CASE w = 10
  <2>1. NeonTable(w) = [idx |-> IDX_10, shifts |-> SHIFTS_10, width |-> 16]
    BY <1>2, SMT DEF NeonTable
  <2> QED
    BY <1>2, <2>1, Table10, TableGathers, Zenon
<1>3. CASE w = 12
  <2>1. NeonTable(w) = [idx |-> IDX_12, shifts |-> SHIFTS_12, width |-> 16]
    BY <1>3, SMT DEF NeonTable
  <2> QED
    BY <1>3, <2>1, Table12, TableGathers, Zenon
<1>4. CASE w = 11
  <2>1. NeonTable(w) = [idx |-> IDX_11, shifts |-> SHIFTS_11, width |-> 32]
    BY <1>4, SMT DEF NeonTable, IDX_11
  <2> QED
    BY <1>4, <2>1, Table11, TableGathers, Zenon
<1> QED
  BY <1>1, <1>2, <1>3, <1>4

LEMMA ControlsGather ==
  ASSUME NEW b \in Backends, NEW w \in VectorWidths, ~IsNibbles(b, w)
  PROVE  IsGathering(UnpackControls(b, w), w)
<1>1. CASE b = "avx2"
  BY <1>1, GatherControlsGather DEF UnpackControls
<1>2. CASE b = "neon"
  <2>1. w \in {5, 10, 11, 12}
    BY <1>2 DEF VectorWidths, IsNibbles
  <2> QED
    BY <1>2, <2>1, NeonControlsGather DEF UnpackControls
<1> QED
  BY <1>1, <1>2 DEF Backends

\* A byte of the input, bit by bit.
LEMMA InputBits ==
  ASSUME NEW m \in Nat, NEW l \in Nat, NEW q \in Positions(8)
  PROVE  InputByte(m, l)[q] = IF 8 * m + q < 8 * l THEN {8 * m + q} ELSE {}
<1>1. q \in Nat /\ q < 8
  BY DEF Positions
<1>2. m < l <=> 8 * m + q < 8 * l
  BY <1>1, SMT
<1>3. PackedByte(m)[q] = {8 * m + q} /\ Zero(8)[q] = {}
  BY DEF PackedByte, Zero
<1> QED
  BY <1>2, <1>3 DEF InputByte

\* Where the k-th of eight values begins: byte e, bit s.
LEMMA ValueStart ==
  ASSUME NEW w \in VectorWidths, NEW k \in 0 .. 7
  PROVE  \E e \in Nat, s \in Nat :
           /\ e = (w * k) \div 8 /\ s = (w * k) % 8 /\ w * k = 8 * e + s
           /\ e <= 10 /\ s <= 7
<1>1. w \in Nat /\ w * k \in Nat /\ w * k <= 84
  BY SMT DEF VectorWidths
<1>2. /\ (w * k) \div 8 \in Nat /\ (w * k) % 8 \in Nat /\ (w * k) \div 8 <= 10 /\ (w * k) % 8 <= 7
      /\ w * k = 8 * ((w * k) \div 8) + ((w * k) % 8)
  BY <1>1, SMT
<1> QED
  BY <1>2

\* A lane holds the input's bits from its first byte on.
LEMMA LaneBit ==
  ASSUME NEW w \in VectorWidths, NEW c \in Nat, NEW l \in Nat, NEW k \in 0 .. 7,
         NEW controls, IsGathering(controls, w), NEW p \in Positions(controls.width),
         NEW e \in Nat, e = (w * k) \div 8, e <= 10
  PROVE  Gather(Window(w, c, l), controls.idx, k, controls.width)[p]
           = IF 8 * (w * c + e) + p < 8 * l THEN {8 * (w * c + e) + p} ELSE {}
<1>1. PICK width \in {16, 32}, bytes \in {2, 4} :
        width = controls.width /\ bytes = width \div 8 /\ width = 8 * bytes
  BY SMT DEF IsGathering
<1>2. p \in Nat /\ p < width /\ w * c \in Nat
  BY <1>1, SMT DEF Positions, VectorWidths
<1>3. PICK t \in Nat, q \in Nat : t = p \div 8 /\ q = p % 8 /\ p = 8 * t + q /\ q <= 7 /\ t < bytes
  BY <1>1, <1>2, SMT
<1> DEFINE m == bytes * k + t
<1>4. m \in 0 .. width - 1 /\ m \div bytes = k /\ m % bytes = t
  <2>1. CASE bytes = 2
    <3>1. width = 16 /\ t < 2
      BY <1>1, <1>3, <2>1
    <3>2. 2 * k + t \in 0 .. 15 /\ (2 * k + t) \div 2 = k /\ (2 * k + t) % 2 = t
      BY <3>1, SMT
    <3> QED
      BY <2>1, <3>1, <3>2
  <2>2. CASE bytes = 4
    BY <1>1, <1>3, <2>2, SMT
  <2> QED
    BY <2>1, <2>2
<1>5. controls.idx[m] = e + t
  <2>1. controls.idx[m] = (w * (m \div bytes)) \div 8 + (m % bytes)
    BY <1>1, <1>4 DEF IsGathering
  <2> QED
    BY <1>4, <2>1
<1>6. e + t \in 0 .. 15 /\ e + t # 255
  BY <1>3, SMT
<1>7. Gather(Window(w, c, l), controls.idx, k, controls.width)[p] = Window(w, c, l)[e + t][q]
  <2> HIDE DEF m
  <2>1. (controls.width \div 8) * k + p \div 8 = m
    BY <1>1, <1>3 DEF m
  <2> QED
    BY <1>3, <1>5, <1>6, <2>1 DEF Gather
<1>8. Window(w, c, l)[e + t] = InputByte(w * c + (e + t), l)
  BY <1>6 DEF Window
<1>9. q \in Positions(8) /\ w * c + (e + t) \in Nat
  BY <1>2, <1>3, SMT DEF Positions
<1>10. 8 * (w * c + (e + t)) + q = 8 * (w * c + e) + p
  BY <1>2, <1>3, SMT
<1>11. InputByte(w * c + (e + t), l)[q]
         = IF 8 * (w * c + (e + t)) + q < 8 * l THEN {8 * (w * c + (e + t)) + q} ELSE {}
  BY <1>9, InputBits
<1> QED
  BY <1>7, <1>8, <1>10, <1>11

\* An iteration of a gathering kernel gives the scalar form's values.
LEMMA GatheredIs ==
  ASSUME NEW b \in Backends, NEW w \in VectorWidths, ~IsNibbles(b, w),
         NEW c \in Nat, NEW l \in Nat, NEW k \in 0 .. 7
  PROVE  GatheredValue(b, w, c, l, k) = InputValue(8 * c + k, w, l)
<1> DEFINE controls == UnpackControls(b, w)
           lane == Gather(Window(w, c, l), controls.idx, k, controls.width)
           shift == controls.shifts[k]
<1>1. IsGathering(controls, w)
  BY ControlsGather
<1> HIDE DEF controls
<1>2. PICK e \in Nat, s \in Nat :
        /\ e = (w * k) \div 8 /\ s = (w * k) % 8 /\ w * k = 8 * e + s /\ e <= 10 /\ s <= 7
  BY ValueStart
<1>3. shift = s /\ w + s <= controls.width /\ controls.width \in {16, 32}
  BY <1>1, <1>2 DEF IsGathering
<1>4. (8 * c + k) * w = 8 * (w * c + e) + s /\ w * c \in Nat
  <2>1. (8 * c + k) * w = 8 * (w * c) + w * k /\ w * c \in Nat
    BY SMT DEF VectorWidths
  <2> QED
    BY <1>2, <2>1, SMT
<1> DEFINE made(p) == IF p < w THEN ShiftDown(lane, s, controls.width)[p] ELSE {}
           wanted(p) == IF p < w /\ (8 * c + k) * w + p < 8 * l THEN {(8 * c + k) * w + p} ELSE {}
<1>5. ASSUME NEW p \in Positions(16) PROVE made(p) = wanted(p)
  <2>1. p \in Nat /\ p < 16 /\ p \in Positions(controls.width)
    BY <1>3, SMT DEF Positions
  <2>2. CASE p < w
    <3>1. p + s < controls.width /\ p + s \in Positions(controls.width)
      BY <1>3, <2>1, <2>2, SMT DEF Positions, VectorWidths
    <3>2. ShiftDown(lane, s, controls.width)[p] = lane[p + s]
      BY <2>1, <3>1 DEF ShiftDown
    <3>3. lane[p + s] = IF 8 * (w * c + e) + (p + s) < 8 * l THEN {8 * (w * c + e) + (p + s)} ELSE {}
      <4>1. PICK at \in Positions(controls.width) : at = p + s
        BY <3>1
      <4>2. e = (w * k) \div 8 /\ e <= 10
        BY <1>2
      <4>3. lane[at] = IF 8 * (w * c + e) + at < 8 * l THEN {8 * (w * c + e) + at} ELSE {}
        BY <1>1, <4>2, LaneBit
      <4> QED
        BY <4>1, <4>3
    <3>4. 8 * (w * c + e) + (p + s) = (8 * c + k) * w + p
      BY <1>4, <2>1, SMT
    <3> QED
      BY <2>2, <3>2, <3>3, <3>4
  <2>3. CASE ~(p < w)
    BY <2>3
  <2> QED
    BY <2>2, <2>3
<1>6. GatheredValue(b, w, c, l, k) = [p \in Positions(16) |-> made(p)]
  BY <1>3 DEF GatheredValue, Low, controls
<1>7. InputValue(8 * c + k, w, l) = [p \in Positions(16) |-> wanted(p)]
  BY DEF InputValue
<1> HIDE DEF made, wanted
<1>8. [p \in Positions(16) |-> made(p)] = [p \in Positions(16) |-> wanted(p)]
  BY <1>5
<1> QED
  BY <1>6, <1>7, <1>8

\* An iteration of the zipping kernel gives the scalar form's nibbles.
LEMMA NibbleIs ==
  ASSUME NEW c \in Nat, NEW l \in Nat, NEW k \in 0 .. 31
  PROVE  Widened(NibbleValue(c, l, k)) = InputValue(32 * c + k, 4, l)
<1> DEFINE byte == InputByte(16 * c + k \div 2, l)
           made(p) == IF p < 8 THEN NibbleValue(c, l, k)[p] ELSE {}
           wanted(p) == IF p < 4 /\ (32 * c + k) * 4 + p < 8 * l THEN {(32 * c + k) * 4 + p} ELSE {}
           bit(q) == IF 8 * (16 * c + k \div 2) + q < 8 * l THEN {8 * (16 * c + k \div 2) + q} ELSE {}
<1>1. 16 * c + k \div 2 \in Nat
  BY SMT
<1>2. \A q \in Positions(8) : byte[q] = bit(q)
  BY <1>1, InputBits
<1> HIDE DEF byte
<1>3. ASSUME NEW p \in Positions(16) PROVE made(p) = wanted(p)
  <2>1. p \in Nat /\ p < 16 /\ (p < 8 => p \in Positions(8))
    BY SMT DEF Positions
  <2>2. CASE ~(p < 8)
    BY <2>1, <2>2, SMT
  <2>3. CASE p < 8 /\ k % 2 = 0
    <3>1. NibbleValue(c, l, k) = Low(byte, 4, 8)
      BY <2>3 DEF NibbleValue, byte
    <3>2. made(p) = IF p < 4 THEN byte[p] ELSE {}
      BY <2>1, <2>3, <3>1 DEF Low
    <3>3. 8 * (16 * c + k \div 2) + p = (32 * c + k) * 4 + p
      BY <2>3, SMT
    <3> QED
      BY <1>2, <2>1, <2>3, <3>2, <3>3
  <2>4. CASE p < 8 /\ k % 2 # 0
    <3>1. NibbleValue(c, l, k) = ShiftDown(byte, 4, 8)
      BY <2>4 DEF NibbleValue, byte
    <3>2. made(p) = IF p + 4 < 8 THEN byte[p + 4] ELSE {}
      BY <2>1, <2>4, <3>1 DEF ShiftDown
    <3>3. 8 * (16 * c + k \div 2) + (p + 4) = (32 * c + k) * 4 + p
      BY <2>1, <2>4, SMT
    <3>4. p + 4 < 8 <=> p < 4
      BY <2>1, SMT
    <3>5. p + 4 < 8 => p + 4 \in Positions(8)
      BY <2>1, SMT DEF Positions
    <3> QED
      BY <1>2, <3>2, <3>3, <3>4, <3>5
  <2> QED
    BY <2>2, <2>3, <2>4
<1>4. Widened(NibbleValue(c, l, k)) = [p \in Positions(16) |-> made(p)]
  BY DEF Widened
<1>5. InputValue(32 * c + k, 4, l) = [p \in Positions(16) |-> wanted(p)]
  BY DEF InputValue
<1> HIDE DEF made, wanted
<1>6. [p \in Positions(16) |-> made(p)] = [p \in Positions(16) |-> wanted(p)]
  BY <1>3
<1> QED
  BY <1>4, <1>5, <1>6

-----------------------------------------------------------------------------
\* The k-th lane of a packing kernel holds the value its control names, and
\* nothing when there are no more than eight.
LEMMA LaneValue ==
  ASSUME NEW b \in Backends, NEW w \in 10 .. 12, NEW c \in Nat, NEW k \in 0 .. 7,
         NEW value, NEW v \in Nat, value[k] = v, NEW p \in Positions(LaneWidth(b))
  PROVE  Gather(ChunkBytes(w, c), ControlOf(b, value), k, LaneWidth(b))[p]
           = IF p < w /\ v < 8 THEN {(8 * c + v) * w + p} ELSE {}
<1> DEFINE width == LaneWidth(b)
           bytes == width \div 8
           t == p \div 8
           q == p % 8
           m == bytes * k + t
           source == ControlOf(b, value)[m]
<1>1. width \in {16, 32} /\ bytes \in {2, 4} /\ width = 8 * bytes
  BY SMT DEF LaneWidth
<1> HIDE DEF width
<1>2. p \in Nat /\ p < width
  BY <1>1, SMT DEF Positions, width
<1> HIDE DEF bytes
<1>3. t \in Nat /\ q \in Nat /\ p = 8 * t + q /\ q <= 7 /\ t < bytes
  BY <1>1, <1>2, SMT
<1> HIDE DEF t, q
<1>4. m \in 0 .. width - 1 /\ m \div bytes = k /\ m % bytes = t
  <2>1. CASE bytes = 2
    <3>1. width = 16 /\ t < 2
      BY <1>1, <1>3, <2>1
    <3>2. 2 * k + t \in 0 .. 15 /\ (2 * k + t) \div 2 = k /\ (2 * k + t) % 2 = t
      BY <1>3, <3>1, SMT
    <3> QED
      BY <2>1, <3>1, <3>2
  <2>2. CASE bytes = 4
    <3>1. width = 32 /\ t < 4
      BY <1>1, <1>3, <2>2
    <3>2. 4 * k + t \in 0 .. 31 /\ (4 * k + t) \div 4 = k /\ (4 * k + t) % 4 = t
      BY <1>3, <3>1, SMT
    <3> QED
      BY <2>2, <3>1, <3>2
  <2> QED
    BY <1>1, <2>1, <2>2
<1> HIDE DEF m
<1>5. source = IF t < 2 /\ v < 8 THEN 2 * v + t ELSE 255
  <2>1. source = IF m % bytes < 2 /\ value[m \div bytes] < 8 THEN 2 * value[m \div bytes] + (m % bytes) ELSE 255
    BY <1>4 DEF ControlOf, width, bytes
  <2> QED
    BY <1>4, <2>1
<1> HIDE DEF source
<1>6. Gather(ChunkBytes(w, c), ControlOf(b, value), k, LaneWidth(b))[p]
        = IF source = 255 THEN {} ELSE ChunkBytes(w, c)[source][q]
  BY DEF Gather, source, m, bytes, t, q, width
<1>7. CASE t < 2 /\ v < 8
  <2>1. source = 2 * v + t /\ source # 255 /\ source \in 0 .. 15
    BY <1>3, <1>5, <1>7, SMT
  <2>2. q \in Positions(8) /\ 8 * t + q \in Positions(16)
    BY <1>3, <1>7, SMT DEF Positions
  <2>3. ChunkBytes(w, c)[source][q] = Value(8 * c + source \div 2, w)[8 * (source % 2) + q]
    BY <2>1, <2>2 DEF ChunkBytes
  <2>4. source \div 2 = v /\ source % 2 = t
    BY <1>3, <1>7, <2>1, SMT
  <2>5. Value(8 * c + v, w)[8 * t + q] = IF 8 * t + q < w THEN {(8 * c + v) * w + (8 * t + q)} ELSE {}
    BY <2>2 DEF Value
  <2> QED
    BY <1>3, <1>6, <1>7, <2>1, <2>3, <2>4, <2>5
<1>8. CASE ~(t < 2 /\ v < 8)
  <2>1. source = 255
    BY <1>5, <1>8
  <2>2. t >= 2 => ~(p < w)
    BY <1>3, SMT
  <2>3. t < 2 \/ t >= 2
    BY <1>3
  <2> QED
    BY <1>6, <1>8, <2>1, <2>2, <2>3
<1> QED
  BY <1>7, <1>8

\* A group of eight bytes is the packing's, wherever in the iteration it is.
LEMMA GroupIs ==
  ASSUME NEW b \in Backends, NEW w \in 10 .. 12, NEW c \in Nat, NEW j0 \in 0 .. w - 8, NEW k \in 0 .. 7
  PROVE  PackedGroup(b, w, c, j0)[k] = PackedByte(w * c + (j0 + k))
<1> DEFINE j == j0 + k
           width == LaneWidth(b)
           first == [x \in 0 .. 7 |-> ValueIndex(w, j0 + x)]
           lane(y, shifted) == Gather(ChunkBytes(w, c), ControlOf(b, [x \in 0 .. 7 |-> first[x] + shifted]), y, width)
           f == ValueIndex(w, j)
           off == BitOffset(w, j)
           low == ShiftDown(lane(k, 0), off, width)
           high == ShiftUp(lane(k, 1), width, NextShift(w, j), width)
           made(q) == low[q] \cup high[q]
<1>1. j \in Nat /\ j < w /\ w \in Nat
  BY SMT
<1>2. f \in 0 .. 7 /\ off \in 0 .. w - 1 /\ 8 * j = w * f + off /\ NextShift(w, j) = w - off
  <2>1. CASE w = 10
    BY <1>1, <2>1, SMT DEF ValueIndex, BitOffset, NextShift
  <2>2. CASE w = 11
    BY <1>1, <2>2, SMT DEF ValueIndex, BitOffset, NextShift
  <2>3. CASE w = 12
    BY <1>1, <2>3, SMT DEF ValueIndex, BitOffset, NextShift
  <2> QED
    BY <2>1, <2>2, <2>3
<1>3. first[k] = f
  OBVIOUS
<1>4. width \in {16, 32}
  BY DEF LaneWidth
<1>5. PICK g \in Nat : g = w * c /\ (8 * c + f) * w = 8 * g + w * f /\ (8 * c + (f + 1)) * w = 8 * g + w * f + w
  BY <1>1, <1>2, SMT
<1>6. PackedGroup(b, w, c, j0)[k] = Low(Or(low, high, width), 8, 8)
  BY DEF PackedGroup
<1> DEFINE v0 == [x \in 0 .. 7 |-> first[x] + 0]
           v1 == [x \in 0 .. 7 |-> first[x] + 1]
<1>7. v0[k] = f /\ v1[k] = f + 1 /\ f \in Nat /\ f + 1 \in Nat
  BY <1>2, <1>3
<1>8. lane(k, 0) = Gather(ChunkBytes(w, c), ControlOf(b, v0), k, width)
      /\ lane(k, 1) = Gather(ChunkBytes(w, c), ControlOf(b, v1), k, width)
  OBVIOUS
<1> DEFINE lane0 == lane(k, 0)
           lane1 == lane(k, 1)
<1> HIDE DEF first, f, off, v0, v1, j
<1>9. ASSUME NEW p \in Positions(width)
      PROVE  /\ lane0[p] = IF p < w THEN {(8 * c + f) * w + p} ELSE {}
             /\ lane1[p] = IF p < w /\ f < 7 THEN {(8 * c + (f + 1)) * w + p} ELSE {}
  <2> HIDE DEF lane0, lane1
  <2>1. lane0[p] = IF p < w /\ f < 8 THEN {(8 * c + f) * w + p} ELSE {}
    <3>1. v0[k] = f /\ f \in Nat
      BY <1>7
    <3>2. Gather(ChunkBytes(w, c), ControlOf(b, v0), k, LaneWidth(b))[p]
            = IF p < w /\ f < 8 THEN {(8 * c + f) * w + p} ELSE {}
      BY <3>1, LaneValue
    <3> QED
      BY <1>8, <3>2 DEF lane0
  <2>2. lane1[p] = IF p < w /\ f + 1 < 8 THEN {(8 * c + (f + 1)) * w + p} ELSE {}
    <3>1. PICK v \in Nat : v = f + 1 /\ v1[k] = v
      BY <1>7
    <3>2. v1[k] = v
      BY <3>1
    <3>3. Gather(ChunkBytes(w, c), ControlOf(b, v1), k, LaneWidth(b))[p]
            = IF p < w /\ v < 8 THEN {(8 * c + v) * w + p} ELSE {}
      BY <3>2, LaneValue
    <3> QED
      BY <1>8, <3>1, <3>3 DEF lane1
  <2>3. f < 8 /\ (f + 1 < 8 <=> f < 7)
    BY <1>2, SMT
  <2> QED
    BY <2>1, <2>2, <2>3
<1> HIDE DEF width, lane0, lane1, lane
<1>10. ASSUME NEW q \in Positions(8) PROVE made(q) = {8 * (w * c + j) + q}
  <2>1. q \in Nat /\ q < 8 /\ q \in Positions(width)
    BY <1>4, SMT DEF Positions
  <2>2. low[q] = IF q + off < width THEN lane0[q + off] ELSE {}
    BY <2>1 DEF ShiftDown, lane0
  <2>3. high[q] = IF q >= w - off /\ q - (w - off) < width THEN lane1[q - (w - off)] ELSE {}
    BY <1>2, <2>1 DEF ShiftUp, lane1
  <2>4. 8 * (w * c + j) + q = 8 * g + w * f + off + q
    BY <1>1, <1>2, <1>5, SMT
  <2>5. CASE q + off < w
    <3>1. q + off < width /\ q + off \in Positions(width) /\ ~(q >= w - off)
      BY <1>2, <1>4, <2>1, <2>5, SMT DEF Positions
    <3>2. low[q] = {(8 * c + f) * w + (q + off)}
      BY <1>9, <2>2, <2>5, <3>1
    <3>3. (8 * c + f) * w + (q + off) = 8 * (w * c + j) + q
      BY <1>2, <1>5, <2>1, <2>4, SMT
    <3>4. high[q] = {}
      BY <2>3, <3>1
    <3> QED
      BY <3>2, <3>3, <3>4
  <2>6. CASE ~(q + off < w)
    <3>1. low[q] = {}
      <4>1. q + off < width => q + off \in Positions(width)
        BY <1>2, <1>4, <2>1, SMT DEF Positions
      <4> QED
        BY <1>9, <2>2, <2>6, <4>1
    <3>2. q >= w - off /\ q - (w - off) < width /\ q - (w - off) < w /\ q - (w - off) \in Positions(width)
      BY <1>1, <1>2, <1>4, <2>1, <2>6, SMT DEF Positions
    <3>3. f < 7
      <4>1. CASE w = 10
        BY <1>1, <1>2, <2>1, <2>6, <4>1, SMT
      <4>2. CASE w = 11
        BY <1>1, <1>2, <2>1, <2>6, <4>2, SMT
      <4>3. CASE w = 12
        BY <1>1, <1>2, <2>1, <2>6, <4>3, SMT
      <4> QED
        BY <4>1, <4>2, <4>3
    <3>4. high[q] = {(8 * c + (f + 1)) * w + (q - (w - off))}
      BY <1>9, <2>3, <3>2, <3>3
    <3>5. (8 * c + (f + 1)) * w + (q - (w - off)) = 8 * (w * c + j) + q
      BY <1>1, <1>2, <1>5, <2>1, <2>4, SMT
    <3> QED
      BY <3>1, <3>4, <3>5
  <2> QED
    BY <2>5, <2>6
<1>11. Low(Or(low, high, width), 8, 8) = [q \in Positions(8) |-> {8 * (w * c + j) + q}]
  <2> HIDE DEF low, high
  <2>1. ASSUME NEW q \in Positions(8) PROVE Low(Or(low, high, width), 8, 8)[q] = made(q)
    <3>1. q \in Positions(width) /\ q < 8
      BY <1>4, SMT DEF Positions
    <3> QED
      BY <3>1 DEF Low, Or
  <2>2. Low(Or(low, high, width), 8, 8) = [q \in Positions(8) |-> Low(Or(low, high, width), 8, 8)[q]]
    BY DEF Low
  <2> QED
    BY <1>10, <2>1, <2>2
<1> QED
  BY <1>6, <1>11 DEF PackedByte, j

-----------------------------------------------------------------------------
(* A kernel runs after the scalar form, on the same input.                 *)

\* Values of an iteration of an unpacking kernel.
PerStep == IF IsNibbles(backend, d) THEN 32 ELSE 8

StoredBytes ==
  [m \in 0 .. Bytes - 1 |-> IF m < d * i + 8 * group THEN PackedByte(m) ELSE Zero(8)]
StoredValues ==
  [v \in 0 .. N - 1 |-> IF v < PerStep * i THEN InputValue(v, d, length) ELSE Zero(16)]

\* What a kernel has stored is what the scalar form gives, up to where it is.
PackKernel == 8 * i <= N /\ (group = 1 => 8 * i < N) /\ stored = StoredBytes
UnpackKernel == group = 0 /\ PerStep * i <= N /\ stored = StoredValues

KernelInv ==
  /\ backend \in Backends \cup {"none"}
  /\ i \in Nat /\ group \in {0, 1}
  /\ op = "pack" => PackKernel
  /\ op = "unpack" => UnpackKernel
  /\ backend = "none" => i = 0 /\ group = 0
  /\ backend \in Backends => Done /\ HasKernel(backend, op, d, length)

\* The scalar form is not disturbed by the kernels.
THEOREM ScalarFormRuns == FormsSpec => Spec
<1>1. FormsInit => Init
  BY DEF FormsInit
<1>2. [FormsNext]_<<vars, kernel>> => [Next]_vars
  BY DEF FormsNext, ScalarForm, Dispatch, StoreGroup, GatherValues, ZipNibbles
<1> QED
  BY <1>1, <1>2, PTL DEF FormsSpec, Spec

\* The widths of the kernels.
LEMMA KernelWidths ==
  ASSUME IInv, KernelInv, backend \in Backends
  PROVE  /\ op = "pack" => d \in 10 .. 12
         /\ op = "unpack" => d \in VectorWidths
         /\ op = "unpack" /\ IsNibbles(backend, d) => d = 4 /\ length = (N \div 8) * 4
         /\ N \in Nat /\ N % 64 = 0 /\ i \in Nat /\ length \in Nat
<1>1. HasKernel(backend, op, d, length) /\ i \in Nat
  BY DEF KernelInv
<1>2. length \in Nat /\ N \in Nat /\ N % 64 = 0
  BY PackingAssumption DEF IInv, Counts
<1>3. op = "pack" => d \in {10, 11, 12}
  BY <1>1 DEF HasKernel
<1>4. op = "unpack" => d \in {4, 5, 10, 11, 12} /\ (backend = "neon" => length = (N \div 8) * d)
  BY <1>1 DEF HasKernel
<1>5. op = "unpack" /\ IsNibbles(backend, d) => d = 4 /\ length = (N \div 8) * 4
  BY <1>4 DEF IsNibbles
<1>6. \A w \in {10, 11, 12} : w \in 10 .. 12
  BY SMT
<1> QED
  BY <1>1, <1>2, <1>3, <1>4, <1>5, <1>6 DEF VectorWidths

LEMMA KernelInit == FormsInit => KernelInv
<1> SUFFICES ASSUME FormsInit PROVE KernelInv
  OBVIOUS
<1>1. Init /\ backend = "none" /\ i = 0 /\ group = 0 /\ stored = out
  BY DEF FormsInit
<1>2. IInv /\ N \in Nat
  BY <1>1, InitInv, PackingAssumption
<1>3. d \in Nat /\ d * i = 0 /\ PerStep * i = 0
  <2>1. d \in Nat
    BY <1>2 DEF IInv, Counts
  <2>2. PerStep \in Nat
    BY DEF PerStep
  <2> QED
    BY <1>1, <2>1, <2>2, SMT
<1>4. op = "pack" => PackKernel
  <2> SUFFICES ASSUME op = "pack" PROVE PackKernel
    OBVIOUS
  <2>1. stored = [m \in 0 .. Bytes - 1 |-> Zero(8)]
    BY <1>1 DEF Init
  <2>2. \A m \in 0 .. Bytes - 1 : ~(m < d * i + 8 * group)
    BY <1>1, <1>3, SMT
  <2>3. stored = StoredBytes
    BY <2>1, <2>2 DEF StoredBytes
  <2> QED
    BY <1>1, <1>2, <2>3, SMT DEF PackKernel
<1>5. op = "unpack" => UnpackKernel
  <2> SUFFICES ASSUME op = "unpack" PROVE UnpackKernel
    OBVIOUS
  <2>1. stored = [v \in 0 .. N - 1 |-> Zero(16)]
    BY <1>1 DEF Init
  <2>2. \A v \in 0 .. N - 1 : ~(v < PerStep * i)
    BY <1>3, SMT
  <2>3. stored = StoredValues
    BY <2>1, <2>2 DEF StoredValues
  <2>4. PerStep * i <= N
    BY <1>2, <1>3, SMT
  <2> QED
    BY <1>1, <2>3, <2>4 DEF UnpackKernel
<1>6. "none" \notin Backends
  BY DEF Backends
<1> QED
  BY <1>1, <1>4, <1>5, <1>6 DEF KernelInv

\* Before a kernel is dispatched, nothing is stored.
LEMMA ScalarKeeps ==
  ASSUME IInv, KernelInv, ScalarForm PROVE KernelInv'
<1>1. UNCHANGED kernel /\ UNCHANGED <<op, d, length>> /\ n < N
  BY DEF ScalarForm, Next, PackValue, UnpackValue
<1>2. ~Done
  BY <1>1, PackingAssumption, SMT DEF Done, IInv, Counts
<1>3. backend = "none"
  BY <1>2 DEF KernelInv
<1>4. "none" \notin Backends
  BY DEF Backends
<1>5. PackKernel' <=> PackKernel
  BY <1>1 DEF PackKernel, StoredBytes, kernel, Bytes
<1>6. UnpackKernel' <=> UnpackKernel
  BY <1>1 DEF UnpackKernel, StoredValues, kernel, PerStep
<1> QED
  BY <1>1, <1>3, <1>4, <1>5, <1>6 DEF KernelInv, kernel

LEMMA DispatchKeeps ==
  ASSUME IInv, KernelInv, Dispatch PROVE KernelInv'
<1>1. /\ UNCHANGED <<op, d, length, n, i, group, stored>> /\ Done /\ backend = "none"
      /\ backend' \in Backends /\ HasKernel(backend', op, d, length)
  BY DEF Dispatch, vars
<1>2. i = 0 /\ group = 0 /\ "none" \notin Backends
  BY <1>1 DEF KernelInv, Backends
<1>3. PackKernel' <=> PackKernel
  BY <1>1 DEF PackKernel, StoredBytes, Bytes
<1>4. PerStep * i = 0 /\ PerStep' * i = 0
  <2>1. PerStep \in Nat /\ PerStep' \in Nat
    BY DEF PerStep
  <2>2. \A x \in Nat : x * 0 = 0
    BY SMT
  <2> QED
    BY <1>2, <2>1, <2>2, Zenon
<1>5. UnpackKernel' <=> UnpackKernel
  <2>1. PerStep' * i' = PerStep * i
    BY <1>1, <1>4
  <2> HIDE DEF PerStep
  <2> QED
    BY <1>1, <2>1 DEF UnpackKernel, StoredValues
<1> QED
  BY <1>1, <1>2, <1>3, <1>5 DEF KernelInv, Done

\* The stores of an iteration of pack.
LEMMA StoreKeeps ==
  ASSUME IInv, KernelInv, StoreGroup PROVE KernelInv'
<1> DEFINE at == d * i + GroupAt(d, group)
           bytes == PackedGroup(backend, d, i, group * (d - 8))
<1>1. /\ stored' = [m \in DOMAIN stored |-> IF m - at \in 0 .. 7 THEN bytes[m - at] ELSE stored[m]]
      /\ group' = 1 - group /\ i' = i + group /\ UNCHANGED <<op, d, length, n, backend>>
      /\ backend \in Backends /\ op = "pack" /\ ~Ended
  BY DEF StoreGroup, Running, vars
<1>2. d \in 10 .. 12 /\ N \in Nat /\ N % 64 = 0 /\ i \in Nat /\ group \in {0, 1} /\ PackKernel
  BY <1>1, KernelWidths DEF KernelInv
<1>3. Bytes \in Nat /\ Bytes' = Bytes
  BY <1>1, <1>2, SMT DEF Bytes
<1>4. PICK g \in Nat : g = d * i /\ d * (i + 1) = g + d
  BY <1>2, SMT
<1>5. group * (d - 8) \in 0 .. d - 8 /\ at = g + group * (d - 8) /\ at \in Nat
  BY <1>2, <1>4, SMT DEF GroupAt
<1>6. \A k \in 0 .. 7 : bytes[k] = PackedByte(d * i + (group * (d - 8) + k))
  BY <1>1, <1>2, <1>5, GroupIs
<1> HIDE DEF bytes
<1>7. 8 * i' <= N /\ (group' = 1 => 8 * i' < N)
  <2>1. 8 * i <= N /\ 8 * i # N
    BY <1>1, <1>2 DEF PackKernel, Ended
  <2>2. N \in Nat /\ N % 64 = 0 /\ i \in Nat
    BY <1>2
  <2>3. 8 * (i + 1) <= N
    BY <2>1, <2>2, SMT
  <2>4. CASE group = 0
    BY <1>1, <2>1, <2>2, <2>4, SMT
  <2>5. CASE group = 1
    BY <1>1, <2>2, <2>3, <2>5, SMT
  <2> QED
    BY <1>2, <2>4, <2>5
<1>8. d' * i' + 8 * group' = IF group = 0 THEN g + 8 ELSE g + d
  BY <1>1, <1>2, <1>4, SMT
<1> DEFINE was(m) == IF m < g + 8 * group THEN PackedByte(m) ELSE Zero(8)
           is(m) == IF m < d' * i' + 8 * group' THEN PackedByte(m) ELSE Zero(8)
<1>9. stored = [m \in 0 .. Bytes - 1 |-> was(m)]
  BY <1>2, <1>4 DEF PackKernel, StoredBytes
<1>10. ASSUME NEW m \in 0 .. Bytes - 1
       PROVE  (IF m - at \in 0 .. 7 THEN bytes[m - at] ELSE was(m)) = is(m)
  <2>1. m \in Nat
    BY <1>3, SMT
  <2>2. CASE m - at \in 0 .. 7
    <3>1. m < d' * i' + 8 * group'
      BY <1>2, <1>5, <1>8, <2>1, <2>2, SMT
    <3>2. bytes[m - at] = PackedByte(d * i + (group * (d - 8) + (m - at)))
      BY <1>6, <2>2
    <3>3. d * i + (group * (d - 8) + (m - at)) = m
      BY <1>4, <1>5, <2>1, SMT
    <3> QED
      BY <2>2, <3>1, <3>2, <3>3
  <2>3. CASE m - at \notin 0 .. 7
    <3>1. m < d' * i' + 8 * group' <=> m < g + 8 * group
      BY <1>2, <1>5, <1>8, <2>1, <2>3, SMT
    <3> QED
      BY <2>3, <3>1
  <2> QED
    BY <2>2, <2>3
<1>11. stored' = [m \in 0 .. Bytes - 1 |-> is(m)]
  <2>1. stored' = [m \in 0 .. Bytes - 1 |-> IF m - at \in 0 .. 7 THEN bytes[m - at] ELSE was(m)]
    <3> HIDE DEF was, at
    <3> QED
      BY <1>1, <1>9
  <2> HIDE DEF was, is, at
  <2> QED
    BY <1>10, <2>1
<1>12. PackKernel'
  BY <1>3, <1>7, <1>11 DEF PackKernel, StoredBytes
<1>13. i' \in Nat /\ group' \in {0, 1}
  BY <1>1, <1>2, SMT
<1>14. Done' /\ HasKernel(backend', op', d', length')
  BY <1>1 DEF KernelInv, Done
<1>15. backend \notin {"none"}
  BY <1>1 DEF Backends
<1> QED
  BY <1>1, <1>12, <1>13, <1>14, <1>15 DEF KernelInv

\* A whole iteration is left when not all values are done.
LEMMA MoreValues ==
  ASSUME NEW step \in {8, 32}, N \in Nat, N % 64 = 0, NEW a \in Nat, step * a <= N, step * a # N
  PROVE  step * (a + 1) <= N
<1>1. CASE step = 8
  BY <1>1, SMT
<1>2. CASE step = 32
  BY <1>2, SMT
<1> QED
  BY <1>1, <1>2

LEMMA UnpackKernelKeeps ==
  ASSUME IInv, KernelInv, GatherValues \/ ZipNibbles PROVE KernelInv'
<1>1. /\ i' = i + 1 /\ UNCHANGED <<op, d, length, n, backend, group>>
      /\ backend \in Backends /\ op = "unpack" /\ ~Ended
  BY DEF GatherValues, ZipNibbles, Running, vars
<1>2. /\ d \in VectorWidths /\ N \in Nat /\ N % 64 = 0 /\ i \in Nat /\ length \in Nat
      /\ UnpackKernel
      /\ IsNibbles(backend, d) => d = 4 /\ length = (N \div 8) * 4
  BY <1>1, KernelWidths DEF KernelInv
<1>3. PerStep \in {8, 32} /\ PerStep' = PerStep /\ group = 0
  BY <1>1, <1>2 DEF PerStep, UnpackKernel
<1>4. PerStep * i <= N /\ PerStep * i # N
  <2>1. PerStep * i <= N
    BY <1>2 DEF UnpackKernel
  <2>2. CASE IsNibbles(backend, d)
    <3>1. i # N \div 32 /\ PerStep = 32
      BY <1>1, <2>2 DEF Ended, PerStep
    <3> QED
      BY <1>2, <2>1, <3>1, SMT
  <2>3. CASE ~IsNibbles(backend, d)
    BY <1>1, <2>1, <2>3 DEF Ended, PerStep
  <2> QED
    BY <2>2, <2>3
<1>5. PerStep * (i + 1) <= N
  BY <1>2, <1>3, <1>4, MoreValues
<1>6. stored = [v \in 0 .. N - 1 |-> IF v < PerStep * i THEN InputValue(v, d, length) ELSE Zero(16)]
  BY <1>2 DEF UnpackKernel, StoredValues
<1>7. stored' = [v \in 0 .. N - 1 |-> IF v < PerStep * (i + 1) THEN InputValue(v, d, length) ELSE Zero(16)]
  <2>1. CASE GatherValues
    <3>1. /\ ~IsNibbles(backend, d)
          /\ stored' = [v \in DOMAIN stored |->
                         IF v \div 8 = i THEN GatheredValue(backend, d, i, length, v % 8) ELSE stored[v]]
      BY <2>1 DEF GatherValues
    <3>2. PerStep = 8
      BY <3>1 DEF PerStep
    <3>3. ASSUME NEW v \in 0 .. N - 1, v \div 8 = i
          PROVE  GatheredValue(backend, d, i, length, v % 8) = InputValue(v, d, length)
      <4>1. v % 8 \in 0 .. 7 /\ 8 * i + (v % 8) = v
        BY <1>2, <3>3, SMT
      <4>2. GatheredValue(backend, d, i, length, v % 8) = InputValue(8 * i + (v % 8), d, length)
        BY <1>1, <1>2, <3>1, <4>1, GatheredIs
      <4> QED
        BY <4>1, <4>2
    <3> DEFINE made(v) == GatheredValue(backend, d, i, length, v % 8)
               is(v) == InputValue(v, d, length)
    <3>4. \A v \in 0 .. N - 1 : v \div 8 = i => made(v) = is(v)
      BY <3>3
    <3>5. stored = [v \in 0 .. N - 1 |-> IF v < 8 * i THEN is(v) ELSE Zero(16)]
      BY <1>6, <3>2
    <3>6. stored' = [v \in DOMAIN stored |-> IF v \div 8 = i THEN made(v) ELSE stored[v]]
      BY <3>1
    <3> HIDE DEF made, is
    <3>7. [v \in DOMAIN stored |-> IF v \div 8 = i THEN made(v) ELSE stored[v]]
            = [v \in 0 .. N - 1 |-> IF v < 8 * (i + 1) THEN is(v) ELSE Zero(16)]
      BY <1>2, <3>4, <3>5
    <3> QED
      BY <3>2, <3>6, <3>7 DEF is
  <2>2. CASE ZipNibbles
    <3>1. /\ IsNibbles(backend, d)
          /\ stored' = [v \in DOMAIN stored |->
                         IF v \div 32 = i THEN Widened(NibbleValue(i, length, v % 32)) ELSE stored[v]]
      BY <2>2 DEF ZipNibbles
    <3>2. PerStep = 32 /\ d = 4
      BY <1>2, <3>1 DEF PerStep
    <3>3. ASSUME NEW v \in 0 .. N - 1, v \div 32 = i
          PROVE  Widened(NibbleValue(i, length, v % 32)) = InputValue(v, d, length)
      <4>1. v % 32 \in 0 .. 31 /\ 32 * i + (v % 32) = v
        BY <1>2, <3>3, SMT
      <4>2. Widened(NibbleValue(i, length, v % 32)) = InputValue(32 * i + (v % 32), 4, length)
        BY <1>2, <4>1, NibbleIs
      <4> QED
        BY <3>2, <4>1, <4>2
    <3> DEFINE made(v) == Widened(NibbleValue(i, length, v % 32))
               is(v) == InputValue(v, d, length)
    <3>4. \A v \in 0 .. N - 1 : v \div 32 = i => made(v) = is(v)
      BY <3>3
    <3>5. stored = [v \in 0 .. N - 1 |-> IF v < 32 * i THEN is(v) ELSE Zero(16)]
      BY <1>6, <3>2
    <3>6. stored' = [v \in DOMAIN stored |-> IF v \div 32 = i THEN made(v) ELSE stored[v]]
      BY <3>1
    <3> HIDE DEF made, is
    <3>7. [v \in DOMAIN stored |-> IF v \div 32 = i THEN made(v) ELSE stored[v]]
            = [v \in 0 .. N - 1 |-> IF v < 32 * (i + 1) THEN is(v) ELSE Zero(16)]
      BY <1>2, <3>4, <3>5
    <3> QED
      BY <3>2, <3>6, <3>7 DEF is
  <2> QED
    BY <2>1, <2>2
<1>8. UnpackKernel'
  BY <1>1, <1>3, <1>5, <1>7 DEF UnpackKernel, StoredValues
<1>9. i' \in Nat /\ group' \in {0, 1}
  BY <1>1, <1>2, <1>3
<1>10. Done' /\ HasKernel(backend', op', d', length')
  BY <1>1 DEF KernelInv, Done
<1>11. backend \notin {"none"}
  BY <1>1 DEF Backends
<1> QED
  BY <1>1, <1>8, <1>9, <1>10, <1>11 DEF KernelInv

\* The vector kernels keep to what the scalar form gives, in every step.
THEOREM KernelInvariance == FormsSpec => [](IInv /\ KernelInv)
<1>1. FormsInit => IInv /\ KernelInv
  BY KernelInit, InitInv DEF FormsInit
<1>2. ASSUME IInv, KernelInv, [FormsNext]_<<vars, kernel>> PROVE KernelInv'
  <2>1. CASE ScalarForm
    BY <1>2, <2>1, ScalarKeeps
  <2>2. CASE Dispatch
    BY <1>2, <2>2, DispatchKeeps
  <2>3. CASE StoreGroup
    BY <1>2, <2>3, StoreKeeps
  <2>4. CASE GatherValues
    BY <1>2, <2>4, UnpackKernelKeeps
  <2>5. CASE ZipNibbles
    BY <1>2, <2>5, UnpackKernelKeeps
  <2>6. CASE UNCHANGED <<vars, kernel>>
    BY <1>2, <2>6 DEF KernelInv, PackKernel, UnpackKernel, StoredBytes, StoredValues, PerStep, Bytes, Done, vars, kernel
  <2> QED
    BY <1>2, <2>1, <2>2, <2>3, <2>4, <2>5, <2>6 DEF FormsNext
<1>3. FormsSpec => []IInv
  BY ScalarFormRuns, Inductive, PTL
<1> QED
  BY <1>1, <1>2, <1>3, PTL DEF FormsSpec

\* A vector kernel gives what the scalar form gives, byte by byte and value by
\* value (src/src/encoding/arch/avx2.rs:84-203, neon.rs:103-260).
THEOREM KernelsAgree == FormsSpec => []FormsAgree
<1>1. IInv /\ KernelInv => FormsAgree
  <2> SUFFICES ASSUME IInv, KernelInv, backend \in Backends PROVE FormsAgree
    BY DEF FormsAgree
  <2>1. n = N /\ HasKernel(backend, op, d, length)
    BY DEF KernelInv, Done
  <2>2. ASSUME op = "pack", NEW m \in DOMAIN stored
        PROVE  stored[m] = IF m < d * i + 8 * group THEN out[m] ELSE Zero(8)
    <3>1. stored = StoredBytes /\ out = [x \in 0 .. Bytes - 1 |-> out[x]]
      BY <2>2 DEF KernelInv, PackKernel, IInv, Packing
    <3>2. m \in 0 .. Bytes - 1 /\ m \in DOMAIN out
      BY <2>2, <3>1 DEF StoredBytes
    <3>3. out[m] = PackedByte(m)
      BY <2>1, <2>2, <3>2, InPlace DEF PacksInPlace, Done
    <3>4. stored[m] = IF m < d * i + 8 * group THEN PackedByte(m) ELSE Zero(8)
      BY <3>1, <3>2 DEF StoredBytes
    <3> QED
      BY <3>3, <3>4
  <2>3. ASSUME op = "unpack", Ended PROVE stored = out
    <3>1. /\ stored = StoredValues /\ PerStep * i <= N
          /\ out = [v \in 0 .. N - 1 |-> IF v < n THEN InputValue(v, d, length) ELSE Zero(16)]
      BY <2>3 DEF KernelInv, UnpackKernel, IInv, Unpacking
    <3>2. /\ N \in Nat /\ N % 64 = 0 /\ i \in Nat /\ length \in Nat
          /\ IsNibbles(backend, d) => d = 4 /\ length = (N \div 8) * 4
      BY <2>3, KernelWidths
    <3>3. PerStep * i = N
      <4>1. CASE IsNibbles(backend, d)
        <5>1. PerStep = 32 /\ (i = N \div 32 \/ 16 * (i + 1) > length)
          BY <2>3, <4>1 DEF PerStep, Ended
        <5>2. length = (N \div 8) * 4
          BY <3>2, <4>1
        <5> QED
          BY <3>1, <3>2, <5>1, <5>2, SMT
      <4>2. CASE ~IsNibbles(backend, d)
        BY <2>3, <4>2 DEF PerStep, Ended
      <4> QED
        BY <4>1, <4>2
    <3>4. \A v \in 0 .. N - 1 : v < n /\ v < PerStep * i
      BY <2>1, <3>2, <3>3, SMT
    <3> QED
      BY <3>1, <3>4 DEF StoredValues
  <2> QED
    BY <2>2, <2>3 DEF FormsAgree
<1> QED
  BY <1>1, KernelInvariance, PTL

\* No store of a kernel leaves the packing's bytes and no lookup goes past
\* byte 13 of a window (src/src/encoding/arch/avx2.rs:89-92, 158-159,
\* neon.rs:108-110, 162-163).
THEOREM AccessesInside == FormsSpec => []AccessesStayInside
<1>1. IInv /\ KernelInv => AccessesStayInside
  <2> SUFFICES ASSUME IInv, KernelInv, Running PROVE AccessesStayInside
    BY DEF AccessesStayInside
  <2>1. backend \in Backends /\ ~Ended
    BY DEF Running
  <2>2. ASSUME op = "pack" PROVE d * i + GroupAt(d, group) + 8 <= Bytes
    <3>1. d \in 10 .. 12 /\ N \in Nat /\ N % 64 = 0 /\ i \in Nat /\ group \in {0, 1}
      BY <2>1, <2>2, KernelWidths DEF KernelInv
    <3>2. 8 * i <= N /\ 8 * i # N
      BY <2>1, <2>2 DEF KernelInv, PackKernel, Ended
    <3>3. PICK k \in Nat : k = N \div 8 /\ i + 1 <= k
      BY <3>1, <3>2, SMT
    <3>4. d * i + d <= k * d
      BY <3>1, <3>3, SMT
    <3>5. GroupAt(d, group) + 8 <= d
      BY <3>1, SMT DEF GroupAt
    <3> QED
      BY <3>1, <3>3, <3>4, <3>5, SMT DEF Bytes, GroupAt
  <2>3. ASSUME op = "unpack", ~IsNibbles(backend, d), NEW m \in DOMAIN UnpackControls(backend, d).idx
        PROVE  UnpackControls(backend, d).idx[m] <= 13
    <3> DEFINE controls == UnpackControls(backend, d)
    <3>1. d \in VectorWidths
      BY <2>1, <2>3, KernelWidths
    <3>2. IsGathering(controls, d)
      BY <2>1, <2>3, <3>1, ControlsGather
    <3> HIDE DEF controls
    <3>3. PICK bytes \in {2, 4} : bytes = controls.width \div 8 /\ controls.width = 8 * bytes
      BY <3>2, SMT DEF IsGathering
    <3>4. m \in 0 .. 8 * bytes - 1
      BY <2>3, <3>2, <3>3 DEF IsGathering, controls
    <3>5. m \div bytes \in 0 .. 7 /\ m % bytes \in 0 .. 3
      BY <3>4, SMT
    <3>6. controls.idx[m] = (d * (m \div bytes)) \div 8 + (m % bytes)
      BY <3>2, <3>3, <3>4 DEF IsGathering
    <3>7. (d * (m \div bytes)) \div 8 \in Nat /\ (d * (m \div bytes)) \div 8 <= 10
      BY <3>1, <3>5, ValueStart
    <3>8. controls.idx[m] <= 13
      BY <3>5, <3>6, <3>7, SMT
    <3> QED
      BY <3>8 DEF controls
  <2> QED
    BY <2>2, <2>3 DEF AccessesStayInside
<1> QED
  BY <1>1, KernelInvariance, PTL
=============================================================================
