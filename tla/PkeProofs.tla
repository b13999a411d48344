----------------------------- MODULE PkeProofs -----------------------------
(***************************************************************************)
(* For every first stream, count, seed and eta: the batches of a sampler   *)
(* yield consecutive PRF streams and waste at most one lane, and for all   *)
(* bits of the streams each coefficient is drawn from its own.  For every  *)
(* set of seeds, coins and messages and each parameter set: the matrix     *)
(* cancels when K-PKE decrypts with the right key, and only then, no noise *)
(* stream is used twice, and no operand is larger than its operation takes.*)
(***************************************************************************)
EXTENDS CbdBits, RingPke, SequenceTheorems, TLAPS

\* A batch is a sequence of its width of PRF calls.
LEMMA BatchType ==
  ASSUME NEW eta \in Etas, NEW seed \in Seeds, NEW b \in Nat, NEW r \in Nat
  PROVE  /\ Squeeze(eta, seed, b, r) \in Seq(Prfs)
         /\ Len(Squeeze(eta, seed, b, r)) = Width(r)
         /\ \A l \in 1 .. Width(r) :
              Squeeze(eta, seed, b, r)[l] = PRF(eta, seed, (b + l - 1) % 256)
<1>1. Width(r) \in Nat
  BY DEF Width
<1>2. PICK s : s = [l \in 1 .. Width(r) |-> PRF(eta, seed, (b + l - 1) % 256)]
  OBVIOUS
<1>3. s = Squeeze(eta, seed, b, r)
  BY <1>2 DEF Squeeze, PrfBatch
<1>4. ASSUME NEW l \in 1 .. Width(r) PROVE PRF(eta, seed, (b + l - 1) % 256) \in Prfs
  <2>1. b + l - 1 \in Nat
    BY <1>1
  <2>2. (b + l - 1) % 256 \in Byte
    BY <2>1 DEF Byte
  <2> QED
    BY <2>2 DEF PRF, Prfs
<1>5. s \in [1 .. Width(r) -> Prfs]
  BY <1>2, <1>4
<1>6. s \in Seq(Prfs)
  BY <1>1, <1>5, SeqDef
<1>7. Len(s) = Width(r)
  BY <1>1, <1>5, <1>6, LenProperties
<1> QED
  BY <1>2, <1>3, <1>6, <1>7

\* Widths are one, two or four, and no more than one over what is asked for.
LEMMA WidthType ==
  ASSUME NEW r \in Nat
  PROVE  /\ Width(r) \in {1, 2, 4}
         /\ r > 4 => Width(r) = 4
         /\ r \in {1, 2, 4} => Width(r) = r
         /\ r = 3 => Width(r) = 4
BY DEF Width

\* Domain separators wrap as the sum does.
LEMMA WrapAdd ==
  ASSUME NEW a \in Nat, NEW b \in Nat
  PROVE  /\ a % 256 \in Byte
         /\ ((a % 256) + b) % 256 = (a + b) % 256
BY DEF Byte

\* A new sampler covers the first streams of its run.
LEMMA InitStep ==
  ASSUME RunAssumption, Init
  PROVE  IInv
<1>1. PICK eta \in Etas, seed \in Seeds :
        /\ first \in Firsts /\ count \in Counts
        /\ sampler = New(eta, seed, first, count)
        /\ yielded = <<>> /\ squeezed = Len(sampler.batch)
  BY DEF Init
<1>2. first \in Nat /\ first \in Byte /\ count \in Nat /\ count > 0
  BY <1>1 DEF RunAssumption, Byte
<1>3. PICK batch : batch = Squeeze(eta, seed, first, count)
  OBVIOUS
<1>4. /\ batch \in Seq(Prfs) /\ Len(batch) = Width(count)
      /\ \A l \in 1 .. Len(batch) : batch[l] = PRF(eta, seed, (first + l - 1) % 256)
  <2>1. /\ Squeeze(eta, seed, first, count) \in Seq(Prfs)
        /\ Len(Squeeze(eta, seed, first, count)) = Width(count)
        /\ \A l \in 1 .. Width(count) :
             Squeeze(eta, seed, first, count)[l] = PRF(eta, seed, (first + l - 1) % 256)
    BY <1>2, BatchType
  <2> QED
    BY <1>3, <2>1
<1>5. Width(count) \in {1, 2, 4}
  BY <1>2, WidthType
<1>6. sampler = [eta |-> eta, seed |-> seed, next |-> (first + Len(batch)) % 256,
                 remaining |-> count, batch |-> batch, taken |-> 0]
  BY <1>1, <1>3 DEF New
<1>7. (first + Len(batch)) % 256 \in Byte
  BY <1>2, <1>4, <1>5, WrapAdd
<1>8. sampler \in Samplers
  BY <1>2, <1>4, <1>6, <1>7 DEF Samplers
<1>9. yielded \in Seq(Prfs) /\ Len(yielded) = 0
  BY <1>1
<1>10. TypeOK
  BY <1>1, <1>2, <1>4, <1>5, <1>6, <1>8, <1>9 DEF TypeOK, Samplers
<1>11. Before = 0
  BY <1>6, <1>9 DEF Before
<1>12. Covers(sampler, Before)
  BY <1>2, <1>4, <1>6, <1>11 DEF Covers
<1>13. Aligned
  BY <1>1, <1>2, <1>4, <1>5, <1>6, <1>11 DEF Aligned
<1>14. NthStream
  BY <1>9 DEF NthStream
<1> QED
  BY <1>2, <1>6, <1>9, <1>10, <1>12, <1>13, <1>14 DEF IInv

\* The sampler as sample_element reads it: with a lane left in its batch.
LEMMA RefillStep ==
  ASSUME IInv, sampler.remaining > 0, NEW s, s = Refilled(sampler)
  PROVE  /\ s \in Samplers
         /\ s.eta = sampler.eta /\ s.seed = sampler.seed
         /\ s.remaining = sampler.remaining
         /\ s.taken < Len(s.batch) /\ Len(s.batch) \in {1, 2, 4}
         /\ Len(s.batch) = Width(s.remaining + s.taken)
         /\ \E y \in Nat :
              /\ Len(yielded) = y + s.taken /\ y % 4 = 0
              /\ Covers(s, y)
              /\ y + Len(s.batch) = squeezed + (IF sampler.taken = Len(sampler.batch)
                                                THEN Len(s.batch) ELSE 0)
<1>1. /\ sampler \in Samplers /\ first \in Nat /\ yielded \in Seq(Prfs)
      /\ sampler.taken <= Len(sampler.batch)
  <2>1. /\ sampler \in Samplers /\ first \in Byte /\ yielded \in Seq(Prfs)
        /\ sampler.taken <= Len(sampler.batch)
    BY DEF IInv, TypeOK
  <2>2. first \in Nat
    BY <2>1 DEF Byte
  <2> QED
    BY <2>1, <2>2
<1>2. /\ sampler.taken \in Nat /\ sampler.remaining \in Nat
      /\ sampler.next \in Nat /\ sampler.eta \in Etas /\ sampler.seed \in Seeds
      /\ Len(yielded) \in Nat
  <2>1. /\ sampler.taken \in Nat /\ sampler.remaining \in Nat
        /\ sampler.next \in Byte /\ sampler.eta \in Etas /\ sampler.seed \in Seeds
    BY <1>1 DEF Samplers
  <2>2. sampler.next \in Nat
    BY <2>1 DEF Byte
  <2>3. Len(yielded) \in Nat
    BY <1>1, LenProperties
  <2> QED
    BY <2>1, <2>2, <2>3
<1>3. Len(sampler.batch) = Width(sampler.remaining + sampler.taken)
  BY DEF IInv, Aligned
<1>4. Len(sampler.batch) \in {1, 2, 4}
  BY <1>2, <1>3, WidthType
<1>5. /\ Before = Len(yielded) - sampler.taken /\ Before \in Nat /\ Before % 4 = 0
      /\ squeezed = Before + Len(sampler.batch)
      /\ Covers(sampler, Before)
  BY DEF IInv, Aligned, Before
<1>6. Len(yielded) = Before + sampler.taken
  BY <1>2, <1>5
<1>7. CASE sampler.taken # Len(sampler.batch)
  <2>1. s = sampler
    BY <1>7 DEF Refilled
  <2>2. sampler.taken < Len(sampler.batch)
    BY <1>1, <1>2, <1>4, <1>7
  <2>3. Before + Len(s.batch) = squeezed + 0
    BY <1>2, <1>4, <1>5, <2>1
  <2>4. Len(yielded) = Before + s.taken /\ Before \in Nat /\ Before % 4 = 0
        /\ Covers(s, Before)
    BY <1>5, <1>6, <2>1
  <2>5. /\ s \in Samplers
        /\ s.eta = sampler.eta /\ s.seed = sampler.seed
        /\ s.remaining = sampler.remaining
        /\ s.taken < Len(s.batch) /\ Len(s.batch) \in {1, 2, 4}
        /\ Len(s.batch) = Width(s.remaining + s.taken)
    BY <1>1, <1>3, <1>4, <2>1, <2>2
  <2> QED
    BY <1>7, <2>3, <2>4, <2>5
<1>8. CASE sampler.taken = Len(sampler.batch)
  <2>1. PICK batch : batch = Squeeze(sampler.eta, sampler.seed, sampler.next,
                                     sampler.remaining)
    OBVIOUS
  <2>2. /\ batch \in Seq(Prfs) /\ Len(batch) = Width(sampler.remaining)
        /\ \A l \in 1 .. Len(batch) :
             batch[l] = PRF(sampler.eta, sampler.seed, (sampler.next + l - 1) % 256)
    <3>1. PICK e \in Etas, d \in Seeds, b \in Nat, r \in Nat :
            /\ e = sampler.eta /\ d = sampler.seed
            /\ b = sampler.next /\ r = sampler.remaining
      BY <1>2
    <3>2. /\ Squeeze(e, d, b, r) \in Seq(Prfs)
          /\ Len(Squeeze(e, d, b, r)) = Width(r)
          /\ \A l \in 1 .. Width(r) :
               Squeeze(e, d, b, r)[l] = PRF(e, d, (b + l - 1) % 256)
      BY BatchType, SMTT(30)
    <3> QED
      BY <2>1, <3>1, <3>2
  <2>3. Len(batch) \in {1, 2, 4}
    BY <1>2, <2>2, WidthType
  <2>4. s = [sampler EXCEPT !.batch = batch,
                            !.next = (sampler.next + Len(batch)) % 256, !.taken = 0]
    BY <1>8, <2>1 DEF Refilled
  <2>5. s = [eta |-> sampler.eta, seed |-> sampler.seed,
             next |-> (sampler.next + Len(batch)) % 256,
             remaining |-> sampler.remaining, batch |-> batch, taken |-> 0]
    BY <1>1, <2>4, ZenonT(60) DEF Samplers
  <2>6. s \in Samplers
    <3>1. (sampler.next + Len(batch)) % 256 \in Byte
      <4>1. sampler.next + Len(batch) \in Nat
        BY <1>2, <2>3
      <4> QED
        BY <4>1, WrapAdd, 0 \in Nat
    <3> QED
      BY <1>2, <2>2, <2>5, <3>1 DEF Samplers
  <2>7. Len(sampler.batch) = 4
    BY <1>2, <1>3, <1>4, <1>8, WidthType
  <2>8. PICK y \in Nat : y = Len(yielded) /\ y = Before + 4
    BY <1>2, <1>6, <1>8, <2>7
  <2>9. y % 4 = 0
    BY <1>5, <2>8
  <2>10. sampler.next = (first + y) % 256
    <3>1. sampler.next = (first + Before + 4) % 256
      BY <1>5, <2>7 DEF Covers
    <3>2. first + Before + 4 = first + y
      BY <1>1, <1>5, <2>8
    <3> QED
      BY <3>1, <3>2
  <2>11. (sampler.next + Len(batch)) % 256 = (first + y + Len(batch)) % 256
    BY <1>1, <2>3, <2>8, <2>10, WrapAdd
  <2>12. ASSUME NEW l \in 1 .. Len(batch)
         PROVE  batch[l] = PRF(sampler.eta, sampler.seed, (first + y + l - 1) % 256)
    <3>1. l - 1 \in Nat /\ first + y \in Nat
      BY <1>1, <2>3
    <3>2. (((first + y) % 256) + (l - 1)) % 256 = (first + y + (l - 1)) % 256
      BY <3>1, WrapAdd
    <3>3. (sampler.next + l - 1) % 256 = (first + y + l - 1) % 256
      BY <1>1, <1>2, <2>3, <2>8, <2>10, <3>1, <3>2
    <3> QED
      BY <2>2, <3>3
  <2>13. Covers(s, y)
    BY <2>5, <2>11, <2>12 DEF Covers
  <2>14. Len(yielded) = y + s.taken /\ y % 4 = 0
    BY <2>5, <2>8, <2>9
  <2>15. y + Len(s.batch) = squeezed + Len(s.batch)
    BY <1>5, <2>3, <2>5, <2>7, <2>8
  <2>16. /\ s.eta = sampler.eta /\ s.seed = sampler.seed
         /\ s.remaining = sampler.remaining
         /\ s.taken < Len(s.batch) /\ Len(s.batch) \in {1, 2, 4}
         /\ Len(s.batch) = Width(s.remaining + s.taken)
    <3>1. s.remaining + s.taken = sampler.remaining
      BY <1>2, <2>5
    <3>2. s.batch = batch /\ s.taken = 0
      BY <2>5
    <3>3. s.taken < Len(s.batch) /\ Len(s.batch) \in {1, 2, 4}
      BY <2>3, <3>2
    <3> QED
      BY <2>2, <2>5, <3>1, <3>2, <3>3
  <2> QED
    BY <1>8, <2>6, <2>13, <2>14, <2>15, <2>16
<1> QED
  BY <1>7, <1>8

\* One sample: the sampler goes on covering the streams to come.
LEMMA SampleStep ==
  ASSUME IInv, SampleElement
  PROVE  IInv'
<1>1. PICK s : s = Refilled(sampler)
  OBVIOUS
<1>2. /\ sampler.remaining > 0
      /\ sampler' = [s EXCEPT !.taken = s.taken + 1,
                              !.remaining = IF s.remaining > 0 THEN s.remaining - 1 ELSE 0]
      /\ yielded' = Append(yielded, s.batch[s.taken + 1])
      /\ first' = first /\ count' = count
      /\ squeezed' = squeezed + (IF sampler.taken = Len(sampler.batch)
                                 THEN Len(sampler'.batch) ELSE 0)
  BY <1>1 DEF SampleElement, Sampled, Lane
<1>3. /\ s \in Samplers
      /\ s.eta = sampler.eta /\ s.seed = sampler.seed
      /\ s.remaining = sampler.remaining
      /\ s.taken < Len(s.batch) /\ Len(s.batch) \in {1, 2, 4}
      /\ Len(s.batch) = Width(s.remaining + s.taken)
  BY <1>1, <1>2, RefillStep
<1>4. PICK y \in Nat :
        /\ Len(yielded) = y + s.taken /\ y % 4 = 0
        /\ Covers(s, y)
        /\ y + Len(s.batch) = squeezed + (IF sampler.taken = Len(sampler.batch)
                                          THEN Len(s.batch) ELSE 0)
  BY <1>1, <1>2, RefillStep
<1>5. /\ s.next = (first + y + Len(s.batch)) % 256
      /\ \A l \in 1 .. Len(s.batch) :
           s.batch[l] = PRF(s.eta, s.seed, (first + y + l - 1) % 256)
  BY <1>4 DEF Covers
<1>6. /\ first \in Byte /\ first \in Nat /\ count \in Nat \ {0}
      /\ yielded \in Seq(Prfs)
      /\ sampler.remaining + Len(yielded) = count /\ NthStream
  <2>1. /\ first \in Byte /\ count \in Nat \ {0} /\ yielded \in Seq(Prfs)
        /\ sampler.remaining + Len(yielded) = count /\ NthStream
    BY DEF IInv, TypeOK
  <2>2. first \in Nat
    BY <2>1 DEF Byte
  <2> QED
    BY <2>1, <2>2
<1>7. /\ s.taken \in Nat /\ s.remaining \in Nat /\ s.remaining > 0
      /\ s.batch \in Seq(Prfs) /\ s.eta \in Etas /\ s.seed \in Seeds
      /\ s.next \in Byte
  BY <1>2, <1>3 DEF Samplers
<1>8. sampler' = [eta |-> s.eta, seed |-> s.seed, next |-> s.next,
                  remaining |-> s.remaining - 1, batch |-> s.batch,
                  taken |-> s.taken + 1]
  <2>1. sampler' = [s EXCEPT !.taken = s.taken + 1, !.remaining = s.remaining - 1]
    BY <1>2, <1>7
  <2> QED
    BY <1>3, <2>1 DEF Samplers
<1>9. sampler' \in Samplers
  <2>1. s.taken + 1 \in Nat /\ s.remaining - 1 \in Nat
    BY <1>7
  <2> QED
    BY <1>7, <1>8, <2>1 DEF Samplers
<1>10. Len(yielded) \in Nat /\ Len(yielded) = y + s.taken
  BY <1>4, <1>6, LenProperties
<1>11. s.taken + 1 \in 1 .. Len(s.batch)
  BY <1>3, <1>7
<1>12. /\ s.batch[s.taken + 1] \in Prfs
       /\ s.batch[s.taken + 1] = PRF(s.eta, s.seed, (first + y + s.taken) % 256)
  <2>1. s.batch[s.taken + 1] \in Prfs
    BY <1>7, <1>11, LenProperties
  <2>2. first + y + (s.taken + 1) - 1 = first + y + s.taken
    BY <1>5, <1>6, <1>7
  <2>3. s.batch[s.taken + 1]
          = PRF(s.eta, s.seed, (first + y + (s.taken + 1) - 1) % 256)
    BY <1>5, <1>11
  <2> QED
    BY <2>1, <2>2, <2>3
<1>13. /\ yielded' \in Seq(Prfs) /\ Len(yielded') = Len(yielded) + 1
       /\ \A n \in 1 .. Len(yielded) : yielded'[n] = yielded[n]
       /\ yielded'[Len(yielded) + 1] = s.batch[s.taken + 1]
  BY <1>2, <1>6, <1>12, AppendProperties
<1>14. Before' = y
  <2>1. Len(yielded') = y + s.taken + 1 /\ sampler'.taken = s.taken + 1
    BY <1>8, <1>10, <1>13
  <2> QED
    BY <1>7, <2>1 DEF Before
<1>15. squeezed' = y + Len(s.batch)
  BY <1>2, <1>4, <1>8
<1>16. TypeOK'
  <2>1. squeezed' \in Nat
    BY <1>3, <1>15
  <2>2. sampler'.taken <= Len(sampler'.batch)
    BY <1>8, <1>11
  <2> QED
    BY <1>2, <1>6, <1>9, <1>13, <2>1, <2>2 DEF TypeOK
<1>17. sampler'.remaining + Len(yielded') = count'
  BY <1>2, <1>3, <1>6, <1>7, <1>8, <1>10, <1>13
<1>18. Covers(sampler, Before)'
  BY <1>2, <1>5, <1>8, <1>14 DEF Covers
<1>19. Aligned'
  <2>1. sampler'.remaining + sampler'.taken = s.remaining + s.taken
    BY <1>7, <1>8
  <2>2. sampler'.taken > 0
    BY <1>7, <1>8
  <2> QED
    BY <1>3, <1>4, <1>8, <1>14, <1>15, <2>1, <2>2 DEF Aligned
<1>20. NthStream'
  <2>1. ASSUME NEW n \in 1 .. Len(yielded')
        PROVE  yielded'[n] = PRF(s.eta, s.seed, (first + n - 1) % 256)
    <3>1. CASE n \in 1 .. Len(yielded)
      BY <1>3, <1>6, <1>13, <3>1, ZenonT(60) DEF NthStream
    <3>2. CASE n = Len(yielded) + 1
      <4>1. first + n - 1 = first + y + s.taken
        <5>1. n = y + s.taken + 1
          BY <1>10, <3>2
        <5> QED
          BY <1>6, <1>7, <5>1
      <4> QED
        BY <1>12, <1>13, <3>2, <4>1
    <3> QED
      BY <1>10, <1>13, <3>1, <3>2
  <2> QED
    BY <1>2, <1>8, <2>1 DEF NthStream
<1> QED
  BY <1>16, <1>17, <1>18, <1>19, <1>20 DEF IInv

\* The inductive invariant: the batch in hand covers the streams to come.
THEOREM IndInvCorrect == Spec => []IInv
<1>1. Init => IInv
  BY RunAssumption, InitStep
<1>2. IInv /\ [Next]_vars => IInv'
  <2> SUFFICES ASSUME IInv, [Next]_vars PROVE IInv'
    OBVIOUS
  <2>1. CASE SampleElement
    BY <2>1, SampleStep
  <2>2. CASE UNCHANGED vars
    BY <2>2 DEF vars, IInv, TypeOK, Covers, Aligned, Before, NthStream
  <2> QED
    BY <2>1, <2>2 DEF Next
<1> QED
  BY <1>1, <1>2, PTL DEF Spec

\* Every sample is the next PRF stream of its run (src/src/sampling.rs:238).
THEOREM NthStreamHolds == Spec => []NthStream
<1>1. IInv => NthStream
  BY DEF IInv
<1> QED
  BY <1>1, IndInvCorrect, PTL

\* A batch is never read past its end (src/src/sampling.rs:221).
THEOREM TypeCorrect == Spec => []TypeOK
<1>1. IInv => TypeOK
  BY DEF IInv
<1> QED
  BY <1>1, IndInvCorrect, PTL

\* A run squeezes at most one lane nobody reads (src/src/sampling.rs:289).
THEOREM OneLaneAtMost == Spec => []OneLaneInVain
<1>1. ASSUME IInv, sampler.remaining = 0
      PROVE  squeezed = count + (IF count % 4 = 3 THEN 1 ELSE 0)
  <2>1. /\ sampler \in Samplers /\ yielded \in Seq(Prfs)
        /\ sampler.taken <= Len(sampler.batch)
        /\ sampler.remaining + Len(yielded) = count
        /\ Before \in Nat /\ Before % 4 = 0
        /\ Len(sampler.batch) = Width(sampler.remaining + sampler.taken)
        /\ squeezed = Before + Len(sampler.batch)
        /\ sampler.taken > 0
    BY <1>1 DEF IInv, TypeOK, Aligned
  <2>2. sampler.taken \in Nat /\ Len(yielded) \in Nat
    BY <2>1, LenProperties DEF Samplers
  <2>3. count = Before + sampler.taken
    BY <1>1, <2>1, <2>2 DEF Before
  <2>4. Len(sampler.batch) = Width(sampler.taken)
    BY <1>1, <2>1, <2>2
  <2>5. Len(sampler.batch) \in {1, 2, 4}
    BY <2>2, <2>4, WidthType
  <2>6. sampler.taken \in {1, 2, 3, 4}
    BY <2>1, <2>2, <2>5
  <2>7. CASE sampler.taken = 3
    BY <2>1, <2>3, <2>4, <2>7, WidthType, SMTT(30)
  <2>8. CASE sampler.taken \in {1, 2, 4}
    <3>1. Len(sampler.batch) = sampler.taken
      BY <2>4, <2>8, WidthType
    <3>2. count % 4 # 3
      <4>1. CASE sampler.taken = 1
        BY <2>1, <2>3, <4>1
      <4>2. CASE sampler.taken = 2
        BY <2>1, <2>3, <4>2
      <4>3. CASE sampler.taken = 4
        BY <2>1, <2>3, <4>3
      <4> QED
        BY <2>8, <4>1, <4>2, <4>3
    <3> QED
      BY <2>1, <2>3, <3>1, <3>2
  <2> QED
    BY <2>6, <2>7, <2>8
<1>2. IInv => OneLaneInVain
  BY <1>1 DEF OneLaneInVain
<1> QED
  BY <1>2, IndInvCorrect, PTL

-----------------------------------------------------------------------------
(* The bits that a lane's coefficients are drawn from.                     *)

\* The word of every eta-th bit, as the sum of its eight bits.
LEMMA MaskedCopyIs ==
  ASSUME NEW t, NEW eta, NEW shift
  PROVE  MaskedCopy(t, eta, shift)
           = 0 + t[eta * (1 - 1) + shift] * 2^(eta * (1 - 1)) + t[eta * (2 - 1)
                     + shift] * 2^(eta * (2 - 1))
               + t[eta * (3 - 1) + shift] * 2^(eta * (3 - 1)) + t[eta * (4 - 1)
                         + shift] * 2^(eta * (4 - 1))
               + t[eta * (5 - 1) + shift] * 2^(eta * (5 - 1)) + t[eta * (6 - 1)
                         + shift] * 2^(eta * (6 - 1))
               + t[eta * (7 - 1) + shift] * 2^(eta * (7 - 1)) + t[eta * (8 - 1)
                         + shift] * 2^(eta * (8 - 1))
<1> DEFINE c(f) == t[eta * (f - 1) + shift] * 2^(eta * (f - 1))
           Loop(g) == [f \in 0 .. 8 |-> IF f = 0 THEN 0 ELSE g[f - 1] + c(f)]
           s1 == 0 + c(1)
           s2 == s1 + c(2)
           s3 == s2 + c(3)
           s4 == s3 + c(4)
           s5 == s4 + c(5)
           s6 == s5 + c(6)
           s7 == s6 + c(7)
           s8 == s7 + c(8)
           G == [f \in 0 .. 8 |-> IF f = 0 THEN 0 ELSE IF f = 1 THEN s1 ELSE IF f
                     = 2 THEN s2
                                  ELSE IF f = 3 THEN s3 ELSE IF f = 4 THEN s4 ELSE IF f
                                            = 5 THEN s5
                                  ELSE IF f = 6 THEN s6 ELSE IF f = 7 THEN s7 ELSE s8]
           sum == CHOOSE g : g = Loop(g)
<1> HIDE DEF c
<1>1. G = Loop(G)
  <2>1. ASSUME NEW f \in 0 .. 8 PROVE G[f] = Loop(G)[f]
    <3>1. f = 0 \/ f = 1 \/ f = 2 \/ f = 3 \/ f = 4 \/ f = 5 \/ f = 6 \/ f = 7 \/ f = 8
      BY SMT
    <3> HIDE DEF s1, s2, s3, s4, s5, s6, s7, s8
    <3>2. /\ G[0] = 0 /\ G[1] = s1 /\ G[2] = s2 /\ G[3] = s3 /\ G[4] = s4
          /\ G[5] = s5 /\ G[6] = s6 /\ G[7] = s7 /\ G[8] = s8
      BY SMT
    <3>3. Loop(G)[f] = IF f = 0 THEN 0 ELSE G[f - 1] + c(f)
      BY SMT
    <3>4. /\ 1 - 1 = 0 /\ 2 - 1 = 1 /\ 3 - 1 = 2 /\ 4 - 1 = 3 /\ 5 - 1 = 4 /\ 6 - 1 = 5
          /\ 7 - 1 = 6 /\ 8 - 1 = 7
      BY SMT
    <3>5. /\ s1 = 0 + c(1) /\ s2 = s1 + c(2) /\ s3 = s2 + c(3) /\ s4 = s3 + c(4)
          /\ s5 = s4 + c(5) /\ s6 = s5 + c(6) /\ s7 = s6 + c(7) /\ s8 = s7 + c(8)
      BY DEF s1, s2, s3, s4, s5, s6, s7, s8
    <3> HIDE DEF G, Loop
    <3> QED
      BY <3>1, <3>2, <3>3, <3>4, <3>5
  <2> HIDE DEF s1, s2, s3, s4, s5, s6, s7, s8
  <2> QED
    BY <2>1
<1>2. sum = Loop(sum)
  <2> HIDE DEF G, Loop
  <2> QED
    BY <1>1
<1>3. MaskedCopy(t, eta, shift) = sum[8]
  BY Zenon DEF MaskedCopy, c
<1> HIDE DEF sum
<1>4. sum[0] = 0 /\ \A f \in 1 .. 8 : sum[f] = sum[f - 1] + c(f)
  <2>1. \A f \in 0 .. 8 : sum[f] = IF f = 0 THEN 0 ELSE sum[f - 1] + c(f)
    BY <1>2
  <2> HIDE DEF Loop
  <2> QED
    BY <2>1
<1>5. sum[8] = s8
  BY <1>4, SMT
<1> QED
  BY <1>3, <1>5 DEF c

\* As many copies are added as a field has bits.
LEMMA FieldSumsIs ==
  ASSUME NEW t, NEW e \in {2, 3}
  PROVE  FieldSums(t, e)
           = IF e = 2 THEN 0 + MaskedCopy(t, e, 1 - 1) + MaskedCopy(t, e, 2 - 1)
             ELSE 0 + MaskedCopy(t, e, 1 - 1) + MaskedCopy(t, e, 2 - 1)
                       + MaskedCopy(t, e, 3 - 1)
<1> DEFINE c(s) == MaskedCopy(t, e, s - 1)
           eta == e
           Loop(g) == [s \in 0 .. eta |-> IF s = 0 THEN 0 ELSE g[s - 1] + c(s)]
           s1 == 0 + c(1)
           s2 == s1 + c(2)
           s3 == s2 + c(3)
           G == [s \in 0 .. eta |-> IF s = 0 THEN 0 ELSE IF s = 1 THEN s1 ELSE IF s
                     = 2 THEN s2 ELSE s3]
           sum == CHOOSE g : g = Loop(g)
<1>0. FieldSums(t, e) = sum[eta]
  BY Zenon DEF FieldSums
<1> HIDE DEF c, eta
<1>1. eta \in {2, 3}
  BY DEF eta
<1>2. G = Loop(G)
  <2>1. ASSUME NEW k \in 0 .. eta PROVE G[k] = Loop(G)[k]
    <3>1. (k = 0 \/ k = 1 \/ k = 2 \/ k = 3) /\ (k # 0 => k - 1 \in 0 .. eta)
      BY <1>1, SMT
    <3>2. /\ s1 = 0 + c(1) /\ s2 = s1 + c(2) /\ s3 = s2 + c(3)
          /\ 1 - 1 = 0 /\ 2 - 1 = 1 /\ 3 - 1 = 2
      BY SMT
    <3> HIDE DEF s1, s2, s3
    <3>3. G[k] = IF k = 0 THEN 0 ELSE IF k = 1 THEN s1 ELSE IF k = 2 THEN s2 ELSE s3
      OBVIOUS
    <3>4. k # 0 => G[k - 1] = IF k - 1 = 0 THEN 0 ELSE IF k - 1 = 1 THEN s1 ELSE IF k - 1
              = 2 THEN s2 ELSE s3
      BY <3>1
    <3>5. Loop(G)[k] = IF k = 0 THEN 0 ELSE G[k - 1] + c(k)
      OBVIOUS
    <3> HIDE DEF G, Loop
    <3>6. CASE k = 0
      BY <3>3, <3>5, <3>6
    <3>7. CASE k = 1
      BY <3>2, <3>3, <3>4, <3>5, <3>7
    <3>8. CASE k = 2
      BY <3>2, <3>3, <3>4, <3>5, <3>8
    <3>9. CASE k = 3
      BY <3>2, <3>3, <3>4, <3>5, <3>9
    <3> QED
      BY <3>1, <3>6, <3>7, <3>8, <3>9
  <2> HIDE DEF s1, s2, s3
  <2> QED
    BY <2>1
<1>3. sum = Loop(sum)
  <2> HIDE DEF G, Loop
  <2> QED
    BY <1>2
<1> HIDE DEF sum
<1>4. \A k \in 0 .. eta : sum[k] = IF k = 0 THEN 0 ELSE sum[k - 1] + c(k)
  BY <1>3
<1>5. sum[0] = 0 /\ sum[1] = sum[0] + c(1) /\ sum[2] = sum[1] + c(2) /\ (eta = 3 => sum[3]
          = sum[2] + c(3))
  BY <1>1, <1>4, SMT
<1>6. sum[eta] = IF eta = 2 THEN s2 ELSE s3
  BY <1>1, <1>5
<1> QED
  BY <1>0, <1>6 DEF c, eta

\* A count of eta bits.
LEMMA BitCountIs ==
  ASSUME NEW lane, lane.eta \in {2, 3}, NEW n
  PROVE  BitCount(lane, n)
           = IF lane.eta = 2 THEN 0 + PrfBit(lane, n + 1 - 1) + PrfBit(lane, n + 2 - 1)
             ELSE 0 + PrfBit(lane, n + 1 - 1) + PrfBit(lane, n + 2 - 1) + PrfBit(lane, n
                       + 3 - 1)
<1> DEFINE c(m) == PrfBit(lane, n + m - 1)
           eta == lane.eta
           Loop(g) == [m \in 0 .. eta |-> IF m = 0 THEN 0 ELSE g[m - 1] + c(m)]
           s1 == 0 + c(1)
           s2 == s1 + c(2)
           s3 == s2 + c(3)
           G == [m \in 0 .. eta |-> IF m = 0 THEN 0 ELSE IF m = 1 THEN s1 ELSE IF m
                     = 2 THEN s2 ELSE s3]
           sum == CHOOSE g : g = Loop(g)
<1>0. BitCount(lane, n) = sum[eta]
  BY Zenon DEF BitCount
<1> HIDE DEF c, eta
<1>1. eta \in {2, 3}
  BY DEF eta
<1>2. G = Loop(G)
  <2>1. ASSUME NEW k \in 0 .. eta PROVE G[k] = Loop(G)[k]
    <3>1. (k = 0 \/ k = 1 \/ k = 2 \/ k = 3) /\ (k # 0 => k - 1 \in 0 .. eta)
      BY <1>1, SMT
    <3>2. /\ s1 = 0 + c(1) /\ s2 = s1 + c(2) /\ s3 = s2 + c(3)
          /\ 1 - 1 = 0 /\ 2 - 1 = 1 /\ 3 - 1 = 2
      BY SMT
    <3> HIDE DEF s1, s2, s3
    <3>3. G[k] = IF k = 0 THEN 0 ELSE IF k = 1 THEN s1 ELSE IF k = 2 THEN s2 ELSE s3
      OBVIOUS
    <3>4. k # 0 => G[k - 1] = IF k - 1 = 0 THEN 0 ELSE IF k - 1 = 1 THEN s1 ELSE IF k - 1
              = 2 THEN s2 ELSE s3
      BY <3>1
    <3>5. Loop(G)[k] = IF k = 0 THEN 0 ELSE G[k - 1] + c(k)
      OBVIOUS
    <3> HIDE DEF G, Loop
    <3>6. CASE k = 0
      BY <3>3, <3>5, <3>6
    <3>7. CASE k = 1
      BY <3>2, <3>3, <3>4, <3>5, <3>7
    <3>8. CASE k = 2
      BY <3>2, <3>3, <3>4, <3>5, <3>8
    <3>9. CASE k = 3
      BY <3>2, <3>3, <3>4, <3>5, <3>9
    <3> QED
      BY <3>1, <3>6, <3>7, <3>8, <3>9
  <2> HIDE DEF s1, s2, s3
  <2> QED
    BY <2>1
<1>3. sum = Loop(sum)
  <2> HIDE DEF G, Loop
  <2> QED
    BY <1>2
<1> HIDE DEF sum
<1>4. \A k \in 0 .. eta : sum[k] = IF k = 0 THEN 0 ELSE sum[k - 1] + c(k)
  BY <1>3
<1>5. sum[0] = 0 /\ sum[1] = sum[0] + c(1) /\ sum[2] = sum[1] + c(2) /\ (eta = 3 => sum[3]
          = sum[2] + c(3))
  BY <1>1, <1>4, SMT
<1>6. sum[eta] = IF eta = 2 THEN s2 ELSE s3
  BY <1>1, <1>5
<1> QED
  BY <1>0, <1>6 DEF c, eta

\* The copies of a 16-bit word of four coefficients of eta 2 ...
LEMMA CopyOf2 ==
  ASSUME NEW t, \A i \in 0 .. 15 : t[i] \in 0 .. 1, NEW s \in 0 .. 1
  PROVE  MaskedCopy(t, 2, s) = t[s] + 4 * t[2 + s] + 16 * t[4 + s] + 64 * t[6 + s]
            + 256 * t[8 + s] + 1024 * t[10 + s] + 4096 * t[12 + s] + 16384 * t[14 + s]
<1> DEFINE m1 == t[2 * (1 - 1) + s] * 2^(2 * (1 - 1))
           m2 == t[2 * (2 - 1) + s] * 2^(2 * (2 - 1))
           m3 == t[2 * (3 - 1) + s] * 2^(2 * (3 - 1))
           m4 == t[2 * (4 - 1) + s] * 2^(2 * (4 - 1))
           m5 == t[2 * (5 - 1) + s] * 2^(2 * (5 - 1))
           m6 == t[2 * (6 - 1) + s] * 2^(2 * (6 - 1))
           m7 == t[2 * (7 - 1) + s] * 2^(2 * (7 - 1))
           m8 == t[2 * (8 - 1) + s] * 2^(2 * (8 - 1))
<1>1. MaskedCopy(t, 2, s) = 0 + m1 + m2 + m3 + m4 + m5 + m6 + m7 + m8
  BY MaskedCopyIs, Zenon
<1>2. t[s] \in Int /\ t[2 + s] \in Int /\ t[4 + s] \in Int /\ t[6 + s] \in Int /\ t[8 + s]
          \in Int /\ t[10 + s] \in Int /\ t[12 + s] \in Int /\ t[14 + s] \in Int
  BY SMT
<1>3. m1 \in Int /\ m1 = 1 * t[s]
  <2>1. 2 * (1 - 1) + s = s /\ 2^(2 * (1 - 1)) = 1
    BY SMT
  <2> QED
    BY <1>2, <2>1, SMT
<1>4. m2 \in Int /\ m2 = 4 * t[2 + s]
  <2>1. 2 * (2 - 1) + s = 2 + s /\ 2^(2 * (2 - 1)) = 4
    BY SMT
  <2> QED
    BY <1>2, <2>1, SMT
<1>5. m3 \in Int /\ m3 = 16 * t[4 + s]
  <2>1. 2 * (3 - 1) + s = 4 + s /\ 2^(2 * (3 - 1)) = 16
    BY SMT
  <2> QED
    BY <1>2, <2>1, SMT
<1>6. m4 \in Int /\ m4 = 64 * t[6 + s]
  <2>1. 2 * (4 - 1) + s = 6 + s /\ 2^(2 * (4 - 1)) = 64
    BY SMT
  <2> QED
    BY <1>2, <2>1, SMT
<1>7. m5 \in Int /\ m5 = 256 * t[8 + s]
  <2>1. 2 * (5 - 1) + s = 8 + s /\ 2^(2 * (5 - 1)) = 256
    BY SMT
  <2> QED
    BY <1>2, <2>1, SMT
<1>8. m6 \in Int /\ m6 = 1024 * t[10 + s]
  <2>1. 2 * (6 - 1) + s = 10 + s /\ 2^(2 * (6 - 1)) = 1024
    BY SMT
  <2> QED
    BY <1>2, <2>1, SMT
<1>9. m7 \in Int /\ m7 = 4096 * t[12 + s]
  <2>1. 2 * (7 - 1) + s = 12 + s /\ 2^(2 * (7 - 1)) = 4096
    BY SMT
  <2> QED
    BY <1>2, <2>1, SMT
<1>10. m8 \in Int /\ m8 = 16384 * t[14 + s]
  <2>1. 2 * (8 - 1) + s = 14 + s /\ 2^(2 * (8 - 1)) = 16384
    BY SMT
  <2> QED
    BY <1>2, <2>1, SMT
<1> HIDE DEF m1, m2, m3, m4, m5, m6, m7, m8
<1> QED
  BY <1>1, <1>2, <1>3, <1>4, <1>5, <1>6, <1>7, <1>8, <1>9, <1>10, SMT

\* ... and of the 24-bit word of eta 3.
LEMMA CopyOf3 ==
  ASSUME NEW t, \A i \in 0 .. 23 : t[i] \in 0 .. 1, NEW s \in 0 .. 2
  PROVE  MaskedCopy(t, 3, s) = t[s] + 8 * t[3 + s] + 64 * t[6 + s] + 512 * t[9 + s]
            + 4096 * t[12 + s] + 32768 * t[15 + s] + 262144 * t[18 + s] + 2097152 * t[21
            + s]
<1> DEFINE m1 == t[3 * (1 - 1) + s] * 2^(3 * (1 - 1))
           m2 == t[3 * (2 - 1) + s] * 2^(3 * (2 - 1))
           m3 == t[3 * (3 - 1) + s] * 2^(3 * (3 - 1))
           m4 == t[3 * (4 - 1) + s] * 2^(3 * (4 - 1))
           m5 == t[3 * (5 - 1) + s] * 2^(3 * (5 - 1))
           m6 == t[3 * (6 - 1) + s] * 2^(3 * (6 - 1))
           m7 == t[3 * (7 - 1) + s] * 2^(3 * (7 - 1))
           m8 == t[3 * (8 - 1) + s] * 2^(3 * (8 - 1))
<1>1. MaskedCopy(t, 3, s) = 0 + m1 + m2 + m3 + m4 + m5 + m6 + m7 + m8
  BY MaskedCopyIs, Zenon
<1>2. t[s] \in Int /\ t[3 + s] \in Int /\ t[6 + s] \in Int /\ t[9 + s] \in Int /\ t[12 + s]
          \in Int /\ t[15 + s] \in Int /\ t[18 + s] \in Int /\ t[21 + s] \in Int
  BY SMT
<1>3. m1 \in Int /\ m1 = 1 * t[s]
  <2>1. 3 * (1 - 1) + s = s /\ 2^(3 * (1 - 1)) = 1
    BY SMT
  <2> QED
    BY <1>2, <2>1, SMT
<1>4. m2 \in Int /\ m2 = 8 * t[3 + s]
  <2>1. 3 * (2 - 1) + s = 3 + s /\ 2^(3 * (2 - 1)) = 8
    BY SMT
  <2> QED
    BY <1>2, <2>1, SMT
<1>5. m3 \in Int /\ m3 = 64 * t[6 + s]
  <2>1. 3 * (3 - 1) + s = 6 + s /\ 2^(3 * (3 - 1)) = 64
    BY SMT
  <2> QED
    BY <1>2, <2>1, SMT
<1>6. m4 \in Int /\ m4 = 512 * t[9 + s]
  <2>1. 3 * (4 - 1) + s = 9 + s /\ 2^(3 * (4 - 1)) = 512
    BY SMT
  <2> QED
    BY <1>2, <2>1, SMT
<1>7. m5 \in Int /\ m5 = 4096 * t[12 + s]
  <2>1. 3 * (5 - 1) + s = 12 + s /\ 2^(3 * (5 - 1)) = 4096
    BY SMT
  <2> QED
    BY <1>2, <2>1, SMT
<1>8. m6 \in Int /\ m6 = 32768 * t[15 + s]
  <2>1. 3 * (6 - 1) + s = 15 + s /\ 2^(3 * (6 - 1)) = 32768
    BY SMT
  <2> QED
    BY <1>2, <2>1, SMT
<1>9. m7 \in Int /\ m7 = 262144 * t[18 + s]
  <2>1. 3 * (7 - 1) + s = 18 + s /\ 2^(3 * (7 - 1)) = 262144
    BY SMT
  <2> QED
    BY <1>2, <2>1, SMT
<1>10. m8 \in Int /\ m8 = 2097152 * t[21 + s]
  <2>1. 3 * (8 - 1) + s = 21 + s /\ 2^(3 * (8 - 1)) = 2097152
    BY SMT
  <2> QED
    BY <1>2, <2>1, SMT
<1> HIDE DEF m1, m2, m3, m4, m5, m6, m7, m8
<1> QED
  BY <1>1, <1>2, <1>3, <1>4, <1>5, <1>6, <1>7, <1>8, <1>9, <1>10, SMT

\* Four coefficients of a word of 8 * 2 bits are those of its bits.
LEMMA CbdOf2 ==
  ASSUME NEW lane, lane.eta = 2, NEW i \in 0 .. 255, \A n
            \in StreamBits(2) : PrfBit(lane, n) \in 0 .. 1
  PROVE  SampleCbd(lane, i) = BitCount(lane, 4 * i) - BitCount(lane, 4 * i + 2)
<1> DEFINE base == 8 * 2 * (i \div 4)
           t == [o \in 0 .. 8 * 2 - 1 |-> PrfBit(lane, base + o)]
           sums == FieldSums(t, 2)
           at == 2 * 2 * (i % 4)
<1>1. SampleCbd(lane, i) = Field(sums, 2, at) - Field(sums, 2, at + 2)
  BY DEF SampleCbd
<1>2. ASSUME NEW o \in 0 .. 15 PROVE t[o] = PrfBit(lane, base + o) /\ t[o] \in 0 .. 1
  <2>1. base + o \in StreamBits(2) /\ o \in 0 .. 8 * 2 - 1
    BY SMT DEF StreamBits
  <2>2. t[o] = PrfBit(lane, base + o)
    BY <2>1, SMT
  <2>3. PrfBit(lane, base + o) \in 0 .. 1
    <3> HIDE DEF base
    <3> QED
      BY <2>1
  <2> QED
    BY <2>2, <2>3, SMT
<1> HIDE DEF t
<1> DEFINE u0 == t[0]  u1 == t[1]  u2 == t[2]  u3 == t[3]
           u4 == t[4]  u5 == t[5]  u6 == t[6]  u7 == t[7]
           u8 == t[8]  u9 == t[9]  u10 == t[10]  u11 == t[11]
           u12 == t[12]  u13 == t[13]  u14 == t[14]  u15 == t[15]
<1> DEFINE c0 == u0 + u1
           c1 == u2 + u3
           c2 == u4 + u5
           c3 == u6 + u7
           c4 == u8 + u9
           c5 == u10 + u11
           c6 == u12 + u13
           c7 == u14 + u15
<1>3. /\ u0 \in 0 .. 1 /\ u1 \in 0 .. 1 /\ u2 \in 0 .. 1 /\ u3 \in 0 .. 1
      /\ u4 \in 0 .. 1 /\ u5 \in 0 .. 1 /\ u6 \in 0 .. 1 /\ u7 \in 0 .. 1
      /\ u8 \in 0 .. 1 /\ u9 \in 0 .. 1 /\ u10 \in 0 .. 1 /\ u11 \in 0 .. 1
      /\ u12 \in 0 .. 1 /\ u13 \in 0 .. 1 /\ u14 \in 0 .. 1 /\ u15 \in 0 .. 1
  BY <1>2, SMT
<1>4. sums \in Nat /\ sums = c0 + 4 * c1 + 16 * c2 + 64 * c3 + 256 * c4 + 1024 * c5
          + 4096 * c6 + 16384 * c7
  <2>1. \A o \in 0 .. 15 : t[o] \in 0 .. 1
    BY <1>2
  <2>2. MaskedCopy(t, 2, 1 - 1) = u0 + 4 * u2 + 16 * u4 + 64 * u6 + 256 * u8 + 1024 * u10
            + 4096 * u12 + 16384 * u14
    BY <2>1, CopyOf2, SMT
  <2>3. MaskedCopy(t, 2, 2 - 1) = u1 + 4 * u3 + 16 * u5 + 64 * u7 + 256 * u9 + 1024 * u11
            + 4096 * u13 + 16384 * u15
    BY <2>1, CopyOf2, SMT
  <2>4. sums = 0 + MaskedCopy(t, 2, 1 - 1) + MaskedCopy(t, 2, 2 - 1)
    BY FieldSumsIs, SMT
  <2> HIDE DEF sums, u0, u1, u2, u3, u4, u5, u6, u7,
            u8, u9, u10, u11, u12, u13, u14, u15
  <2> QED
    BY <1>3, <2>2, <2>3, <2>4, SMT
<1> HIDE DEF sums
<1>5. /\ c0 \in 0 .. 2 /\ c1 \in 0 .. 2 /\ c2 \in 0 .. 2 /\ c3 \in 0 .. 2
      /\ c4 \in 0 .. 2 /\ c5 \in 0 .. 2 /\ c6 \in 0 .. 2 /\ c7 \in 0 .. 2
  <2> HIDE DEF u0, u1, u2, u3, u4, u5, u6, u7,
            u8, u9, u10, u11, u12, u13, u14, u15
  <2> QED
    BY <1>3, SMT
<1>6. /\ Field(sums, 2, 0) = c0 /\ Field(sums, 2, 2) = c1 /\ Field(sums, 2, 4) = c2
          /\ Field(sums, 2, 6) = c3
      /\ Field(sums, 2, 8) = c4 /\ Field(sums, 2, 10) = c5 /\ Field(sums, 2, 12) = c6
                /\ Field(sums, 2, 14) = c7
  <2> HIDE DEF c0, c1, c2, c3, c4, c5, c6, c7
  <2>1. Field(sums, 2, 0) = c0
    <3>1. sums \div 1 = c0 + 4 * c1 + 16 * c2 + 64 * c3 + 256 * c4 + 1024 * c5 + 4096 * c6
              + 16384 * c7
      BY <1>4, <1>5, SMT
    <3>2. (c0 + 4 * c1 + 16 * c2 + 64 * c3 + 256 * c4 + 1024 * c5 + 4096 * c6
              + 16384 * c7) % 4 = c0
      BY <1>5, SMT
    <3> QED
      BY <3>1, <3>2, SMT DEF Field
  <2>2. Field(sums, 2, 2) = c1
    <3>1. sums \div 4 = c1 + 4 * c2 + 16 * c3 + 64 * c4 + 256 * c5 + 1024 * c6 + 4096 * c7
      BY <1>4, <1>5, SMT
    <3>2. (c1 + 4 * c2 + 16 * c3 + 64 * c4 + 256 * c5 + 1024 * c6 + 4096 * c7) % 4 = c1
      BY <1>5, SMT
    <3> QED
      BY <3>1, <3>2, SMT DEF Field
  <2>3. Field(sums, 2, 4) = c2
    <3>1. sums \div 16 = c2 + 4 * c3 + 16 * c4 + 64 * c5 + 256 * c6 + 1024 * c7
      BY <1>4, <1>5, SMT
    <3>2. (c2 + 4 * c3 + 16 * c4 + 64 * c5 + 256 * c6 + 1024 * c7) % 4 = c2
      BY <1>5, SMT
    <3> QED
      BY <3>1, <3>2, SMT DEF Field
  <2>4. Field(sums, 2, 6) = c3
    <3>1. sums \div 64 = c3 + 4 * c4 + 16 * c5 + 64 * c6 + 256 * c7
      BY <1>4, <1>5, SMT
    <3>2. (c3 + 4 * c4 + 16 * c5 + 64 * c6 + 256 * c7) % 4 = c3
      BY <1>5, SMT
    <3> QED
      BY <3>1, <3>2, SMT DEF Field
  <2>5. Field(sums, 2, 8) = c4
    <3>1. sums \div 256 = c4 + 4 * c5 + 16 * c6 + 64 * c7
      BY <1>4, <1>5, SMT
    <3>2. (c4 + 4 * c5 + 16 * c6 + 64 * c7) % 4 = c4
      BY <1>5, SMT
    <3> QED
      BY <3>1, <3>2, SMT DEF Field
  <2>6. Field(sums, 2, 10) = c5
    <3>1. sums \div 1024 = c5 + 4 * c6 + 16 * c7
      BY <1>4, <1>5, SMT
    <3>2. (c5 + 4 * c6 + 16 * c7) % 4 = c5
      BY <1>5, SMT
    <3> QED
      BY <3>1, <3>2, SMT DEF Field
  <2>7. Field(sums, 2, 12) = c6
    <3>1. sums \div 4096 = c6 + 4 * c7
      BY <1>4, <1>5, SMT
    <3>2. (c6 + 4 * c7) % 4 = c6
      BY <1>5, SMT
    <3> QED
      BY <3>1, <3>2, SMT DEF Field
  <2>8. Field(sums, 2, 14) = c7
    <3>1. sums \div 16384 = c7
      BY <1>4, <1>5, SMT
    <3>2. (c7) % 4 = c7
      BY <1>5, SMT
    <3> QED
      BY <3>1, <3>2, SMT DEF Field
  <2> QED
    BY <2>1, <2>2, <2>3, <2>4, <2>5, <2>6, <2>7, <2>8
<1>7. /\ BitCount(lane, 4 * i) = 0 + PrfBit(lane, 4 * i + 1 - 1) + PrfBit(lane, 4 * i
          + 2 - 1)
      /\ BitCount(lane, 4 * i + 2) = 0 + PrfBit(lane, 4 * i + 2 + 1 - 1)
                + PrfBit(lane, 4 * i + 2 + 2 - 1)
  BY BitCountIs, SMT
<1>8. CASE i % 4 = 0
  <2>1. at = 0 /\ at + 2 = 2
    BY <1>8, SMT
  <2>2. /\ 4 * i + 1 - 1 = base + 0 /\ 4 * i + 2 - 1 = base + 1
        /\ 4 * i + 2 + 1 - 1 = base + 2 /\ 4 * i + 2 + 2 - 1 = base + 3
    BY <1>8, SMT
  <2>3. BitCount(lane, 4 * i) = c0 /\ BitCount(lane, 4 * i + 2) = c1
    BY <1>2, <1>3, <1>7, <2>2, SMT
  <2> QED
    BY <1>1, <1>6, <2>1, <2>3
<1>9. CASE i % 4 = 1
  <2>1. at = 4 /\ at + 2 = 6
    BY <1>9, SMT
  <2>2. /\ 4 * i + 1 - 1 = base + 4 /\ 4 * i + 2 - 1 = base + 5
        /\ 4 * i + 2 + 1 - 1 = base + 6 /\ 4 * i + 2 + 2 - 1 = base + 7
    BY <1>9, SMT
  <2>3. BitCount(lane, 4 * i) = c2 /\ BitCount(lane, 4 * i + 2) = c3
    BY <1>2, <1>3, <1>7, <2>2, SMT
  <2> QED
    BY <1>1, <1>6, <2>1, <2>3
<1>10. CASE i % 4 = 2
  <2>1. at = 8 /\ at + 2 = 10
    BY <1>10, SMT
  <2>2. /\ 4 * i + 1 - 1 = base + 8 /\ 4 * i + 2 - 1 = base + 9
        /\ 4 * i + 2 + 1 - 1 = base + 10 /\ 4 * i + 2 + 2 - 1 = base + 11
    BY <1>10, SMT
  <2>3. BitCount(lane, 4 * i) = c4 /\ BitCount(lane, 4 * i + 2) = c5
    BY <1>2, <1>3, <1>7, <2>2, SMT
  <2> QED
    BY <1>1, <1>6, <2>1, <2>3
<1>11. CASE i % 4 = 3
  <2>1. at = 12 /\ at + 2 = 14
    BY <1>11, SMT
  <2>2. /\ 4 * i + 1 - 1 = base + 12 /\ 4 * i + 2 - 1 = base + 13
        /\ 4 * i + 2 + 1 - 1 = base + 14 /\ 4 * i + 2 + 2 - 1 = base + 15
    BY <1>11, SMT
  <2>3. BitCount(lane, 4 * i) = c6 /\ BitCount(lane, 4 * i + 2) = c7
    BY <1>2, <1>3, <1>7, <2>2, SMT
  <2> QED
    BY <1>1, <1>6, <2>1, <2>3
<1>12. i % 4 = 0 \/ i % 4 = 1 \/ i % 4 = 2 \/ i % 4 = 3
  BY SMT
<1> QED
  BY <1>8, <1>9, <1>10, <1>11, <1>12

\* Four coefficients of a word of 8 * 3 bits are those of its bits.
LEMMA CbdOf3 ==
  ASSUME NEW lane, lane.eta = 3, NEW i \in 0 .. 255, \A n
            \in StreamBits(3) : PrfBit(lane, n) \in 0 .. 1
  PROVE  SampleCbd(lane, i) = BitCount(lane, 6 * i) - BitCount(lane, 6 * i + 3)
<1> DEFINE base == 8 * 3 * (i \div 4)
           t == [o \in 0 .. 8 * 3 - 1 |-> PrfBit(lane, base + o)]
           sums == FieldSums(t, 3)
           at == 2 * 3 * (i % 4)
<1>1. SampleCbd(lane, i) = Field(sums, 3, at) - Field(sums, 3, at + 3)
  BY DEF SampleCbd
<1>2. ASSUME NEW o \in 0 .. 23 PROVE t[o] = PrfBit(lane, base + o) /\ t[o] \in 0 .. 1
  <2>1. base + o \in StreamBits(3) /\ o \in 0 .. 8 * 3 - 1
    BY SMT DEF StreamBits
  <2>2. t[o] = PrfBit(lane, base + o)
    BY <2>1, SMT
  <2>3. PrfBit(lane, base + o) \in 0 .. 1
    <3> HIDE DEF base
    <3> QED
      BY <2>1
  <2> QED
    BY <2>2, <2>3, SMT
<1> HIDE DEF t
<1> DEFINE u0 == t[0]  u1 == t[1]  u2 == t[2]  u3 == t[3]
           u4 == t[4]  u5 == t[5]  u6 == t[6]  u7 == t[7]
           u8 == t[8]  u9 == t[9]  u10 == t[10]  u11 == t[11]
           u12 == t[12]  u13 == t[13]  u14 == t[14]  u15 == t[15]
           u16 == t[16]  u17 == t[17]  u18 == t[18]  u19 == t[19]
           u20 == t[20]  u21 == t[21]  u22 == t[22]  u23 == t[23]
<1> DEFINE c0 == u0 + u1 + u2
           c1 == u3 + u4 + u5
           c2 == u6 + u7 + u8
           c3 == u9 + u10 + u11
           c4 == u12 + u13 + u14
           c5 == u15 + u16 + u17
           c6 == u18 + u19 + u20
           c7 == u21 + u22 + u23
<1>3. /\ u0 \in 0 .. 1 /\ u1 \in 0 .. 1 /\ u2 \in 0 .. 1 /\ u3 \in 0 .. 1
      /\ u4 \in 0 .. 1 /\ u5 \in 0 .. 1 /\ u6 \in 0 .. 1 /\ u7 \in 0 .. 1
      /\ u8 \in 0 .. 1 /\ u9 \in 0 .. 1 /\ u10 \in 0 .. 1 /\ u11 \in 0 .. 1
      /\ u12 \in 0 .. 1 /\ u13 \in 0 .. 1 /\ u14 \in 0 .. 1 /\ u15 \in 0 .. 1
      /\ u16 \in 0 .. 1 /\ u17 \in 0 .. 1 /\ u18 \in 0 .. 1 /\ u19 \in 0 .. 1
      /\ u20 \in 0 .. 1 /\ u21 \in 0 .. 1 /\ u22 \in 0 .. 1 /\ u23 \in 0 .. 1
  BY <1>2, SMT
<1>4. sums \in Nat /\ sums = c0 + 8 * c1 + 64 * c2 + 512 * c3 + 4096 * c4 + 32768 * c5
          + 262144 * c6 + 2097152 * c7
  <2>1. \A o \in 0 .. 23 : t[o] \in 0 .. 1
    BY <1>2
  <2>2. MaskedCopy(t, 3, 1 - 1) = u0 + 8 * u3 + 64 * u6 + 512 * u9 + 4096 * u12
            + 32768 * u15 + 262144 * u18 + 2097152 * u21
    BY <2>1, CopyOf3, SMT
  <2>3. MaskedCopy(t, 3, 2 - 1) = u1 + 8 * u4 + 64 * u7 + 512 * u10 + 4096 * u13
            + 32768 * u16 + 262144 * u19 + 2097152 * u22
    BY <2>1, CopyOf3, SMT
  <2>4. MaskedCopy(t, 3, 3 - 1) = u2 + 8 * u5 + 64 * u8 + 512 * u11 + 4096 * u14
            + 32768 * u17 + 262144 * u20 + 2097152 * u23
    BY <2>1, CopyOf3, SMT
  <2>5. sums = 0 + MaskedCopy(t, 3, 1 - 1) + MaskedCopy(t, 3, 2 - 1)
            + MaskedCopy(t, 3, 3 - 1)
    BY FieldSumsIs, SMT
  <2> HIDE DEF sums, u0, u1, u2, u3, u4, u5, u6, u7,
            u8, u9, u10, u11, u12, u13, u14, u15,
            u16, u17, u18, u19, u20, u21, u22, u23
  <2> QED
    BY <1>3, <2>2, <2>3, <2>4, <2>5, SMT
<1> HIDE DEF sums
<1>5. /\ c0 \in 0 .. 3 /\ c1 \in 0 .. 3 /\ c2 \in 0 .. 3 /\ c3 \in 0 .. 3
      /\ c4 \in 0 .. 3 /\ c5 \in 0 .. 3 /\ c6 \in 0 .. 3 /\ c7 \in 0 .. 3
  <2> HIDE DEF u0, u1, u2, u3, u4, u5, u6, u7,
            u8, u9, u10, u11, u12, u13, u14, u15,
            u16, u17, u18, u19, u20, u21, u22, u23
  <2> QED
    BY <1>3, SMT
<1>6. /\ Field(sums, 3, 0) = c0 /\ Field(sums, 3, 3) = c1 /\ Field(sums, 3, 6) = c2
          /\ Field(sums, 3, 9) = c3
      /\ Field(sums, 3, 12) = c4 /\ Field(sums, 3, 15) = c5 /\ Field(sums, 3, 18) = c6
                /\ Field(sums, 3, 21) = c7
  <2> HIDE DEF c0, c1, c2, c3, c4, c5, c6, c7
  <2>1. Field(sums, 3, 0) = c0
    <3>1. sums \div 1 = c0 + 8 * c1 + 64 * c2 + 512 * c3 + 4096 * c4 + 32768 * c5
              + 262144 * c6 + 2097152 * c7
      BY <1>4, <1>5, SMT
    <3>2. (c0 + 8 * c1 + 64 * c2 + 512 * c3 + 4096 * c4 + 32768 * c5 + 262144 * c6
              + 2097152 * c7) % 8 = c0
      BY <1>5, SMT
    <3> QED
      BY <3>1, <3>2, SMT DEF Field
  <2>2. Field(sums, 3, 3) = c1
    <3>1. sums \div 8 = c1 + 8 * c2 + 64 * c3 + 512 * c4 + 4096 * c5 + 32768 * c6
              + 262144 * c7
      BY <1>4, <1>5, SMT
    <3>2. (c1 + 8 * c2 + 64 * c3 + 512 * c4 + 4096 * c5 + 32768 * c6 + 262144 * c7) % 8 = c1
      BY <1>5, SMT
    <3> QED
      BY <3>1, <3>2, SMT DEF Field
  <2>3. Field(sums, 3, 6) = c2
    <3>1. sums \div 64 = c2 + 8 * c3 + 64 * c4 + 512 * c5 + 4096 * c6 + 32768 * c7
      BY <1>4, <1>5, SMT
    <3>2. (c2 + 8 * c3 + 64 * c4 + 512 * c5 + 4096 * c6 + 32768 * c7) % 8 = c2
      BY <1>5, SMT
    <3> QED
      BY <3>1, <3>2, SMT DEF Field
  <2>4. Field(sums, 3, 9) = c3
    <3>1. sums \div 512 = c3 + 8 * c4 + 64 * c5 + 512 * c6 + 4096 * c7
      BY <1>4, <1>5, SMT
    <3>2. (c3 + 8 * c4 + 64 * c5 + 512 * c6 + 4096 * c7) % 8 = c3
      BY <1>5, SMT
    <3> QED
      BY <3>1, <3>2, SMT DEF Field
  <2>5. Field(sums, 3, 12) = c4
    <3>1. sums \div 4096 = c4 + 8 * c5 + 64 * c6 + 512 * c7
      BY <1>4, <1>5, SMT
    <3>2. (c4 + 8 * c5 + 64 * c6 + 512 * c7) % 8 = c4
      BY <1>5, SMT
    <3> QED
      BY <3>1, <3>2, SMT DEF Field
  <2>6. Field(sums, 3, 15) = c5
    <3>1. sums \div 32768 = c5 + 8 * c6 + 64 * c7
      BY <1>4, <1>5, SMT
    <3>2. (c5 + 8 * c6 + 64 * c7) % 8 = c5
      BY <1>5, SMT
    <3> QED
      BY <3>1, <3>2, SMT DEF Field
  <2>7. Field(sums, 3, 18) = c6
    <3>1. sums \div 262144 = c6 + 8 * c7
      BY <1>4, <1>5, SMT
    <3>2. (c6 + 8 * c7) % 8 = c6
      BY <1>5, SMT
    <3> QED
      BY <3>1, <3>2, SMT DEF Field
  <2>8. Field(sums, 3, 21) = c7
    <3>1. sums \div 2097152 = c7
      BY <1>4, <1>5, SMT
    <3>2. (c7) % 8 = c7
      BY <1>5, SMT
    <3> QED
      BY <3>1, <3>2, SMT DEF Field
  <2> QED
    BY <2>1, <2>2, <2>3, <2>4, <2>5, <2>6, <2>7, <2>8
<1>7. /\ BitCount(lane, 6 * i) = 0 + PrfBit(lane, 6 * i + 1 - 1) + PrfBit(lane, 6 * i
          + 2 - 1) + PrfBit(lane, 6 * i + 3 - 1)
      /\ BitCount(lane, 6 * i + 3) = 0 + PrfBit(lane, 6 * i + 3 + 1 - 1)
                + PrfBit(lane, 6 * i + 3 + 2 - 1) + PrfBit(lane, 6 * i + 3 + 3 - 1)
  BY BitCountIs, SMT
<1>8. CASE i % 4 = 0
  <2>1. at = 0 /\ at + 3 = 3
    BY <1>8, SMT
  <2>2. /\ 6 * i + 1 - 1 = base + 0 /\ 6 * i + 2 - 1 = base + 1 /\ 6 * i + 3 - 1 = base + 2
        /\ 6 * i + 3 + 1 - 1 = base + 3 /\ 6 * i + 3 + 2 - 1 = base + 4 /\ 6 * i + 3 + 3 - 1
                  = base + 5
    BY <1>8, SMT
  <2>3. BitCount(lane, 6 * i) = c0 /\ BitCount(lane, 6 * i + 3) = c1
    BY <1>2, <1>3, <1>7, <2>2, SMT
  <2> QED
    BY <1>1, <1>6, <2>1, <2>3
<1>9. CASE i % 4 = 1
  <2>1. at = 6 /\ at + 3 = 9
    BY <1>9, SMT
  <2>2. /\ 6 * i + 1 - 1 = base + 6 /\ 6 * i + 2 - 1 = base + 7 /\ 6 * i + 3 - 1 = base + 8
        /\ 6 * i + 3 + 1 - 1 = base + 9 /\ 6 * i + 3 + 2 - 1 = base + 10 /\ 6 * i + 3
                  + 3 - 1 = base + 11
    BY <1>9, SMT
  <2>3. BitCount(lane, 6 * i) = c2 /\ BitCount(lane, 6 * i + 3) = c3
    BY <1>2, <1>3, <1>7, <2>2, SMT
  <2> QED
    BY <1>1, <1>6, <2>1, <2>3
<1>10. CASE i % 4 = 2
  <2>1. at = 12 /\ at + 3 = 15
    BY <1>10, SMT
  <2>2. /\ 6 * i + 1 - 1 = base + 12 /\ 6 * i + 2 - 1 = base + 13 /\ 6 * i + 3 - 1 = base
            + 14
        /\ 6 * i + 3 + 1 - 1 = base + 15 /\ 6 * i + 3 + 2 - 1 = base + 16 /\ 6 * i + 3
                  + 3 - 1 = base + 17
    BY <1>10, SMT
  <2>3. BitCount(lane, 6 * i) = c4 /\ BitCount(lane, 6 * i + 3) = c5
    BY <1>2, <1>3, <1>7, <2>2, SMT
  <2> QED
    BY <1>1, <1>6, <2>1, <2>3
<1>11. CASE i % 4 = 3
  <2>1. at = 18 /\ at + 3 = 21
    BY <1>11, SMT
  <2>2. /\ 6 * i + 1 - 1 = base + 18 /\ 6 * i + 2 - 1 = base + 19 /\ 6 * i + 3 - 1 = base
            + 20
        /\ 6 * i + 3 + 1 - 1 = base + 21 /\ 6 * i + 3 + 2 - 1 = base + 22 /\ 6 * i + 3
                  + 3 - 1 = base + 23
    BY <1>11, SMT
  <2>3. BitCount(lane, 6 * i) = c6 /\ BitCount(lane, 6 * i + 3) = c7
    BY <1>2, <1>3, <1>7, <2>2, SMT
  <2> QED
    BY <1>1, <1>6, <2>1, <2>3
<1>12. i % 4 = 0 \/ i % 4 = 1 \/ i % 4 = 2 \/ i % 4 = 3
  BY SMT
<1> QED
  BY <1>8, <1>9, <1>10, <1>11, <1>12

\* The last element drawn is SamplePolyCBD of its own stream: each coefficient
\* is the difference of the counts of its own two groups of eta adjacent bits,
\* and no field of the word-parallel sums carries into the next
\* (src/src/sampling.rs:122-197, FIPS 203 Algorithm 8).
THEOREM OwnBitsDrawn == Spec => []DrawsOwnBits
<1>1. IInv => DrawsOwnBits
  <2> DEFINE last == Len(yielded)
             stream == PRF(sampler.eta, sampler.seed, (first + last - 1) % 256)
  <2> SUFFICES ASSUME IInv, yielded # <<>>, NEW k \in 0 .. 255
               PROVE  SampleCbd(yielded[last], k)
                        = BitCount(stream, 2 * sampler.eta * k)
                            - BitCount(stream, 2 * sampler.eta * k + sampler.eta)
    BY DEF DrawsOwnBits
  <2>1. yielded \in Seq(Prfs) /\ sampler.eta \in Etas
    BY DEF IInv, TypeOK, Samplers
  <2>2. last \in 1 .. Len(yielded)
    BY <2>1
  <2>3. yielded[last] = stream /\ yielded[last] \in Prfs
    BY <2>1, <2>2 DEF IInv, NthStream
  <2>4. stream.eta = sampler.eta
    BY DEF PRF
  <2> HIDE DEF stream, last
  <2>5. sampler.eta \in {2, 3} /\ \A n \in StreamBits(sampler.eta) : PrfBit(stream, n) \in {0, 1}
    BY <2>1, <2>3, <2>4, BitsAssumption
  <2>6. \A n \in StreamBits(sampler.eta) : PrfBit(stream, n) \in 0 .. 1
    <3>1. \A b \in {0, 1} : b \in 0 .. 1
      BY SMT
    <3> QED
      BY <2>5, <3>1
  <2>7. CASE sampler.eta = 2
    <3>1. SampleCbd(stream, k) = BitCount(stream, 4 * k) - BitCount(stream, 4 * k + 2)
      BY <2>4, <2>6, <2>7, CbdOf2
    <3>2. 2 * 2 = 4
      BY SMT
    <3> QED
      BY <2>3, <2>7, <3>1, <3>2
  <2>8. CASE sampler.eta = 3
    <3>1. SampleCbd(stream, k) = BitCount(stream, 6 * k) - BitCount(stream, 6 * k + 3)
      BY <2>4, <2>6, <2>8, CbdOf3
    <3>2. 2 * 3 = 6
      BY SMT
    <3> QED
      BY <2>3, <2>8, <3>1, <3>2
  <2> QED
    BY <2>5, <2>7, <2>8
<1> QED
  BY <1>1, IndInvCorrect, PTL

-----------------------------------------------------------------------------
(***************************************************************************)
(* K-PKE.  The polynomials of a run have every coefficient 1, and products *)
(* are only ever taken with atoms that no monomial has: so a polynomial is *)
(* the set of its monomials, a sum a union, and what decrypt computes the  *)
(* difference of two such sets.                                            *)
(***************************************************************************)
\* The polynomial whose monomials are the given sets of atoms, each once.
OncePoly(sets, e) == [m \in {[atoms |-> s, r |-> e] : s \in sets} |-> 1]

\* A polynomial that is one atom.
LEMMA AtomPoly ==
  ASSUME NEW a, NEW bound
  PROVE  Atom(a, bound).f = OncePoly({{a}}, 0)
BY DEF Atom, OncePoly, Monomial

\* Polynomials without a monomial in common are added by union.
LEMMA PlusOnce ==
  ASSUME NEW S, NEW T, NEW e, S \cap T = {}
  PROVE  Plus(OncePoly(S, e), OncePoly(T, e)) = OncePoly(S \cup T, e)
<1> DEFINE mono(X) == {[atoms |-> s, r |-> e] : s \in X}
           f == OncePoly(S, e)
           g == OncePoly(T, e)
           sum == [m \in DOMAIN f \cup DOMAIN g |-> Coefficient(f, m) + Coefficient(g, m)]
<1>1. mono(S) \cap mono(T) = {}
  <2> SUFFICES ASSUME NEW m, m \in mono(S), m \in mono(T) PROVE FALSE
    OBVIOUS
  <2>1. m.atoms \in S /\ m.atoms \in T
    OBVIOUS
  <2> QED
    BY <2>1
<1>2. DOMAIN f = mono(S) /\ DOMAIN g = mono(T) /\ mono(S) \cup mono(T) = mono(S \cup T)
  BY DEF OncePoly
<1>3. ASSUME NEW m \in mono(S \cup T) PROVE Coefficient(f, m) + Coefficient(g, m) = 1
  <2>1. m \in mono(S) => (m \notin mono(T) /\ f[m] = 1)
    BY <1>1 DEF OncePoly
  <2>2. m \in mono(T) => (m \notin mono(S) /\ g[m] = 1)
    BY <1>1 DEF OncePoly
  <2>3. m \in mono(S) \/ m \in mono(T)
    BY <1>2
  <2> HIDE DEF mono, f, g
  <2> QED
    BY <1>2, <2>1, <2>2, <2>3 DEF Coefficient
<1>4. sum = [m \in mono(S \cup T) |-> 1]
  <2> HIDE DEF mono, f, g
  <2> QED
    BY <1>2, <1>3
<1>5. Plus(f, g) = Restrict(sum, {m \in DOMAIN sum : sum[m] # 0})
  BY DEF Plus
<1>6. {m \in DOMAIN sum : sum[m] # 0} = mono(S \cup T)
  <2> HIDE DEF mono, sum
  <2> QED
    BY <1>4
<1>7. Restrict(sum, mono(S \cup T)) = [m \in mono(S \cup T) |-> 1]
  <2> HIDE DEF mono, sum
  <2> QED
    BY <1>4 DEF Restrict
<1>8. [m \in mono(S \cup T) |-> 1] = OncePoly(S \cup T, e)
  BY DEF OncePoly
<1> HIDE DEF mono, sum
<1> QED
  BY <1>5, <1>6, <1>7, <1>8 DEF f, g

\* The sum over one pair.
LEMMA SumOfOne ==
  ASSUME NEW f, NEW g, NEW mn, f[mn[1]] * g[mn[2]] \in Int
  PROVE  ProductsOf(f, g, {mn}) = f[mn[1]] * g[mn[2]]
<1> DEFINE c(x) == f[x[1]] * g[x[2]]
           F(h) == [s \in SUBSET {mn} |->
                      IF s = {} THEN 0
                      ELSE c(CHOOSE x \in s : TRUE) + h[s \ {CHOOSE x \in s : TRUE}]]
           h == CHOOSE h : h = F(h)
           H == [s \in SUBSET {mn} |-> IF s = {} THEN 0 ELSE c(mn)]
<1>1. \A s \in SUBSET {mn} : s = {} \/ s = {mn}
  OBVIOUS
<1>2. (CHOOSE x \in {mn} : TRUE) = mn
  OBVIOUS
<1>3. F(H) = H
  <2>1. ASSUME NEW s \in SUBSET {mn} PROVE F(H)[s] = H[s]
    <3>1. CASE s = {}
      BY <3>1
    <3>2. CASE s = {mn}
      <4>1. (CHOOSE x \in s : TRUE) = mn /\ s \ {mn} = {}
        BY <3>2
      <4>2. H[{}] = 0 /\ H[s] = c(mn) /\ c(mn) \in Int /\ s # {}
        BY <3>2
      <4>3. F(H)[s] = c(mn) + H[{}]
        <5> HIDE DEF H, c
        <5> QED
          BY <4>1, <3>2
      <4> HIDE DEF F, H, c
      <4> QED
        BY <4>2, <4>3
    <3> QED
      BY <1>1, <3>1, <3>2
  <2>2. F(H) = [s \in SUBSET {mn} |-> F(H)[s]]
    OBVIOUS
  <2>3. H = [s \in SUBSET {mn} |-> H[s]]
    OBVIOUS
  <2> HIDE DEF F, H
  <2> QED
    BY <2>1, <2>2, <2>3
<1>4. h = F(h)
  <2> HIDE DEF F, H
  <2> QED
    BY <1>3
<1>5. h[{}] = 0
  <2> HIDE DEF h, c
  <2> QED
    BY <1>4
<1>6. h[{mn}] = c(mn) + h[{}]
  <2> HIDE DEF h, c
  <2>1. {mn} # {} /\ {mn} \ {mn} = {} /\ {mn} \in SUBSET {mn}
    OBVIOUS
  <2>2. F(h)[{mn}] = c(CHOOSE x \in {mn} : TRUE) + h[{mn} \ {CHOOSE x \in {mn} : TRUE}]
    BY <2>1
  <2> HIDE DEF F
  <2> QED
    BY <1>4, <2>1, <2>2, <1>2
<1>7. ProductsOf(f, g, {mn}) = h[{mn}]
  BY DEF ProductsOf, MapThenSumSet, MapThenFoldSet
<1>8. c(mn) \in Int /\ c(mn) = f[mn[1]] * g[mn[2]]
  OBVIOUS
<1> HIDE DEF h, c
<1> QED
  BY <1>5, <1>6, <1>7, <1>8

Extended(S, a) == {s \cup {a} : s \in S}

\* Multiplying by an atom that is in none of the monomials adds it to each.
LEMMA TimesAtom ==
  ASSUME NEW S, NEW a, \A s \in S : a \notin s
  PROVE  Times(OncePoly(S, 0), OncePoly({{a}}, 0)) = OncePoly(Extended(S, a), -1)
<1> DEFINE f == OncePoly(S, 0)
           g == OncePoly({{a}}, 0)
           n == [atoms |-> {a}, r |-> 0]
           pairs == (DOMAIN f) \X (DOMAIN g)
           like(x) == {mn \in pairs : Joined(mn[1], mn[2]) = x}
           old(s) == [atoms |-> s, r |-> 0]
           new(s) == [atoms |-> s \cup {a}, r |-> -1]
<1>1. DOMAIN f = {old(s) : s \in S} /\ DOMAIN g = {n} /\ g[n] = 1
  BY DEF OncePoly
<1>2. \A s \in S : f[old(s)] = 1
  BY DEF OncePoly
<1>3. pairs = {<<old(s), n>> : s \in S}
  <2> HIDE DEF f, g, old, n
  <2> QED
    BY <1>1
<1>4. ASSUME NEW s \in S PROVE Joined(old(s), n) = new(s)
  BY DEF Joined
<1>5. {Joined(mn[1], mn[2]) : mn \in pairs} = {new(s) : s \in S}
  <2>1. ASSUME NEW s \in S
        PROVE  LET mn == <<old(s), n>>
               IN mn \in pairs /\ Joined(mn[1], mn[2]) = new(s)
    <3>1. <<old(s), n>> \in pairs
      <4> HIDE DEF pairs, old, n, new
      <4> QED
        BY <1>3
    <3>2. Joined(old(s), n) = new(s)
      BY <1>4
    <3> HIDE DEF pairs, old, n, new
    <3> QED
      BY <3>1, <3>2
  <2>2. ASSUME NEW mn \in pairs PROVE \E s \in S : mn = <<old(s), n>>
    <3> HIDE DEF pairs, old, n, new
    <3> QED
      BY <1>3
  <2> HIDE DEF pairs, old, n, new
  <2> QED
    BY <2>1, <2>2, Zenon
<1>6. ASSUME NEW s \in S, NEW t \in S, new(s) = new(t) PROVE s = t
  <2>1. s \cup {a} = t \cup {a}
    BY <1>6
  <2>2. a \notin s /\ a \notin t
    OBVIOUS
  <2> QED
    BY <2>1, <2>2
<1>7. ASSUME NEW s \in S PROVE like(new(s)) = {<<old(s), n>>}
  <2>1. <<old(s), n>> \in like(new(s))
    <3> HIDE DEF old, n, new, pairs
    <3> QED
      BY <1>3, <1>4
  <2>2. ASSUME NEW mn \in like(new(s)) PROVE mn = <<old(s), n>>
    <3>1. PICK t \in S : mn = <<old(t), n>>
      <4> HIDE DEF old, n, new, pairs
      <4> QED
        BY <1>3
    <3>2. new(t) = new(s)
      <4>1. Joined(mn[1], mn[2]) = new(s)
        OBVIOUS
      <4> HIDE DEF old, n, new, pairs
      <4> QED
        BY <4>1, <3>1, <1>4
    <3>3. t = s
      <4> HIDE DEF new
      <4> QED
        BY <3>2, <1>6
    <3> QED
      BY <3>1, <3>3
  <2> HIDE DEF like
  <2> QED
    BY <2>1, <2>2
<1>8. ASSUME NEW s \in S PROVE ProductsOf(f, g, like(new(s))) = 1
  <2> DEFINE mn == <<old(s), n>>
  <2>1. mn[1] = old(s) /\ mn[2] = n
    OBVIOUS
  <2>2. f[mn[1]] * g[mn[2]] = 1
    <3> HIDE DEF f, g, old, n, mn
    <3> QED
      BY <1>1, <1>2, <2>1
  <2>3. ProductsOf(f, g, {mn}) = f[mn[1]] * g[mn[2]]
    <3>1. f[mn[1]] * g[mn[2]] \in Int
      BY <2>2
    <3> HIDE DEF f, g, mn
    <3> QED
      BY <3>1, SumOfOne
  <2> HIDE DEF f, g, like, old, n, new
  <2> QED
    BY <1>7, <2>2, <2>3
<1>9. Times(f, g) = [x \in {Joined(mn[1], mn[2]) : mn \in pairs} |-> ProductsOf(f, g, like(x))]
  BY DEF Times
<1>10. Times(f, g) = [x \in {new(s) : s \in S} |-> 1]
  <2> HIDE DEF f, g, like, pairs, new
  <2> QED
    BY <1>5, <1>8, <1>9
<1>11. [x \in {new(s) : s \in S} |-> 1] = OncePoly(Extended(S, a), -1)
  <2>1. {new(s) : s \in S} = {[atoms |-> t, r |-> -1] : t \in {s \cup {a} : s \in S}}
    OBVIOUS
  <2> QED
    BY <2>1 DEF OncePoly, Extended
<1> QED
  BY <1>10, <1>11

\* A factor R more.
LEMMA ShiftedOnce ==
  ASSUME NEW S, NEW e \in Int
  PROVE  Shifted(OncePoly(S, e)) = OncePoly(S, e + 1)
<1> DEFINE f == OncePoly(S, e)
           old(s) == [atoms |-> s, r |-> e]
           new(s) == [atoms |-> s, r |-> e + 1]
<1>1. DOMAIN f = {old(s) : s \in S}
  BY DEF OncePoly
<1>2. \A s \in S : f[old(s)] = 1
  BY DEF OncePoly
<1>3. \A s \in S : Raised(old(s), 1) = new(s) /\ Raised(new(s), -1) = old(s)
  BY DEF Raised
<1>4. {Raised(n, 1) : n \in DOMAIN f} = {new(s) : s \in S}
  <2> HIDE DEF f, old, new
  <2> QED
    BY <1>1, <1>3
<1>5. Shifted(f) = [m \in {new(s) : s \in S} |-> f[Raised(m, -1)]]
  <2> HIDE DEF f, new
  <2> QED
    BY <1>4 DEF Shifted
<1>6. \A m \in {new(s) : s \in S} : f[Raised(m, -1)] = 1
  <2> HIDE DEF f, old, new
  <2> QED
    BY <1>2, <1>3
<1>7. Shifted(f) = [m \in {new(s) : s \in S} |-> 1]
  <2> HIDE DEF f, new
  <2> QED
    BY <1>5, <1>6
<1>8. [m \in {new(s) : s \in S} |-> 1] = OncePoly(S, e + 1)
  BY DEF OncePoly
<1> QED
  BY <1>7, <1>8

\* What is left of a difference: what only one side has.
LEMMA Difference ==
  ASSUME NEW S, NEW T
  PROVE  Plus(OncePoly(S, 0), Minus(OncePoly(T, 0)))
           = [m \in {Monomial(s) : s \in (S \ T) \cup (T \ S)} |-> IF m.atoms \in S THEN 1 ELSE -1]
<1> DEFINE f == OncePoly(S, 0)
           g == Minus(OncePoly(T, 0))
           mono(X) == {Monomial(s) : s \in X}
           sum == [m \in DOMAIN f \cup DOMAIN g |-> Coefficient(f, m) + Coefficient(g, m)]
           left == mono((S \ T) \cup (T \ S))
<1>1. DOMAIN f = mono(S) /\ \A m \in mono(S) : f[m] = 1
  BY DEF OncePoly, Monomial
<1>2. DOMAIN g = mono(T) /\ \A m \in mono(T) : g[m] = -1
  BY DEF OncePoly, Monomial, Minus
<1>3. \A X : \A m \in mono(X) : m.atoms \in X /\ m = Monomial(m.atoms)
  BY DEF Monomial
<1>4. \A X : \A s : Monomial(s) \in mono(X) <=> s \in X
  <2> SUFFICES ASSUME NEW X, NEW s PROVE Monomial(s) \in mono(X) <=> s \in X
    OBVIOUS
  <2>1. Monomial(s).atoms = s
    BY DEF Monomial
  <2> QED
    BY <2>1, <1>3
<1>5. mono(S) \cup mono(T) = mono(S \cup T)
  OBVIOUS
<1>6. \A m \in mono(S \cup T) : sum[m] # 0 <=> m \in left
  <2> SUFFICES ASSUME NEW m \in mono(S \cup T) PROVE sum[m] # 0 <=> m \in left
    OBVIOUS
  <2>1. PICK s \in S \cup T : m = Monomial(s)
    OBVIOUS
  <2>2. /\ m \in mono(S) <=> s \in S
        /\ m \in mono(T) <=> s \in T
        /\ m \in left <=> s \in (S \ T) \cup (T \ S)
    <3> HIDE DEF mono
    <3> QED
      BY <1>4, <2>1
  <2>3. sum[m] = Coefficient(f, m) + Coefficient(g, m)
    <3> HIDE DEF f, g
    <3> QED
      BY <1>1, <1>2, <1>5
  <2> HIDE DEF mono, f, g, sum, left
  <2> QED
    BY <1>1, <1>2, <2>2, <2>3 DEF Coefficient
<1>7. \A m \in left : sum[m] = IF m.atoms \in S THEN 1 ELSE -1
  <2> SUFFICES ASSUME NEW m \in left PROVE sum[m] = IF m.atoms \in S THEN 1 ELSE -1
    OBVIOUS
  <2>1. m.atoms \in (S \ T) \cup (T \ S) /\ m = Monomial(m.atoms)
    <3> HIDE DEF mono
    <3> QED
      BY <1>3
  <2>2. /\ m \in mono(S) <=> m.atoms \in S
        /\ m \in mono(T) <=> m.atoms \in T
    <3> HIDE DEF mono
    <3> QED
      BY <1>4, <2>1
  <2>3. sum[m] = Coefficient(f, m) + Coefficient(g, m)
    <3>1. m \in mono(S) \/ m \in mono(T)
      BY <2>1, <2>2
    <3> HIDE DEF f, g, mono
    <3> QED
      BY <1>1, <1>2, <3>1
  <2> HIDE DEF mono, f, g, sum, left
  <2> QED
    BY <1>1, <1>2, <2>1, <2>2, <2>3 DEF Coefficient
<1>8. DOMAIN sum = mono(S \cup T)
  <2> HIDE DEF f, g, mono
  <2> QED
    BY <1>1, <1>2, <1>5
<1>9. left \subseteq mono(S \cup T)
  OBVIOUS
<1>10. {m \in DOMAIN sum : sum[m] # 0} = left
  <2> HIDE DEF sum, mono, left
  <2> QED
    BY <1>6, <1>8, <1>9
<1>11. Plus(f, g) = Restrict(sum, left)
  <2>1. Plus(f, g) = Restrict(sum, {m \in DOMAIN sum : sum[m] # 0})
    BY DEF Plus
  <2> HIDE DEF sum, left, f, g
  <2> QED
    BY <1>10, <2>1
<1>12. Restrict(sum, left) = [m \in left |-> IF m.atoms \in S THEN 1 ELSE -1]
  <2> HIDE DEF sum, left
  <2> QED
    BY <1>7 DEF Restrict
<1> QED
  BY <1>11, <1>12

\* The parameter sets have two to four components.
LEMMA Ranks ==
  ASSUME p \in ParameterSets
  PROVE  /\ p.k \in {2, 3, 4} /\ p.eta1 \in {2, 3} /\ p.eta2 = 2
         /\ p.du \in {10, 11} /\ p.dv \in {4, 5}
BY PkeAssumption DEF MLKEM512, MLKEM768, MLKEM1024

IsRawDot(dot, xs, ys) ==
  /\ dot[0] = Zero
  /\ \A n \in 0 .. p.k - 1 :
       dot[n + 1] = Plus(dot[n], Times(xs[n].f, ys[n].f))
  /\ RawDot(xs, ys) = dot[p.k]

\* The products are added one after the other.
LEMMA RawDotSteps ==
  ASSUME NEW xs, NEW ys, p.k \in {2, 3, 4}
  PROVE  \E dot : IsRawDot(dot, xs, ys)
<1> DEFINE t(n) == Times(xs[n].f, ys[n].f)
           F(h) == [n \in 0 .. p.k |-> IF n = 0 THEN Zero ELSE Plus(h[n - 1], t(n - 1))]
           v1 == Plus(Zero, t(0))
           v2 == Plus(v1, t(1))
           v3 == Plus(v2, t(2))
           v4 == Plus(v3, t(3))
           H == [n \in 0 .. p.k |-> IF n = 0 THEN Zero ELSE IF n = 1 THEN v1
                                    ELSE IF n = 2 THEN v2 ELSE IF n = 3 THEN v3 ELSE v4]
           h == CHOOSE h : h = F(h)
<1>1. ASSUME NEW n \in 0 .. p.k
      PROVE  (IF n = 0 THEN Zero ELSE Plus(H[n - 1], t(n - 1))) = H[n]
  <2>1. n \in {0, 1, 2, 3, 4} /\ n <= p.k
    OBVIOUS
  <2>2. CASE n = 0
    BY <2>2
  <2>3. CASE n = 1
    <3>1. H[0] = Zero /\ H[1] = v1
      BY <2>3
    <3> HIDE DEF H, t
    <3> QED
      BY <3>1, <2>3
  <2>4. CASE n = 2
    <3>1. H[1] = v1 /\ H[2] = v2
      BY <2>4
    <3> HIDE DEF H, t, v1
    <3> QED
      BY <3>1, <2>4
  <2>5. CASE n = 3
    <3>1. H[2] = v2 /\ H[3] = v3
      BY <2>5
    <3> HIDE DEF H, t, v2
    <3> QED
      BY <3>1, <2>5
  <2>6. CASE n = 4
    <3>1. H[3] = v3 /\ H[4] = v4
      BY <2>6
    <3> HIDE DEF H, t, v3
    <3> QED
      BY <3>1, <2>6
  <2> QED
    BY <2>1, <2>2, <2>3, <2>4, <2>5, <2>6
<1>2. F(H) = H
  <2>1. H = [n \in 0 .. p.k |-> H[n]]
    OBVIOUS
  <2> HIDE DEF H, t
  <2> QED
    BY <1>1, <2>1
<1>3. h = F(h)
  <2> HIDE DEF F, H
  <2> QED
    BY <1>2
<1>4. RawDot(xs, ys) = h[p.k]
  BY DEF RawDot
<1>5. h[0] = Zero
  <2> HIDE DEF h, t
  <2> QED
    BY <1>3
<1>6. ASSUME NEW n \in 0 .. p.k - 1 PROVE h[n + 1] = Plus(h[n], t(n))
  <2> HIDE DEF h, t
  <2>1. n + 1 \in 0 .. p.k /\ n + 1 # 0 /\ (n + 1) - 1 = n
    OBVIOUS
  <2> QED
    BY <1>3, <2>1
<1> HIDE DEF h
<1> QED
  BY <1>4, <1>5, <1>6 DEF IsRawDot

IsRawSum(sum, xs, ys) ==
  /\ sum[0] = 0
  /\ \A n \in 0 .. p.k - 1 : sum[n + 1] = sum[n] + DotSum(xs[n], ys[n])
  /\ RawSum(xs, ys) = sum[p.k]

\* Their bounds likewise.
LEMMA RawSumSteps ==
  ASSUME NEW xs, NEW ys, p.k \in {2, 3, 4}
  PROVE  \E sum : IsRawSum(sum, xs, ys)
<1> DEFINE t(n) == DotSum(xs[n], ys[n])
           F(h) == [n \in 0 .. p.k |-> IF n = 0 THEN 0 ELSE h[n - 1] + t(n - 1)]
           v1 == 0 + t(0)
           v2 == v1 + t(1)
           v3 == v2 + t(2)
           v4 == v3 + t(3)
           H == [n \in 0 .. p.k |-> IF n = 0 THEN 0 ELSE IF n = 1 THEN v1
                                    ELSE IF n = 2 THEN v2 ELSE IF n = 3 THEN v3 ELSE v4]
           h == CHOOSE h : h = F(h)
<1>1. ASSUME NEW n \in 0 .. p.k
      PROVE  (IF n = 0 THEN 0 ELSE H[n - 1] + t(n - 1)) = H[n]
  <2>1. n \in {0, 1, 2, 3, 4} /\ n <= p.k
    OBVIOUS
  <2>2. CASE n = 0
    BY <2>2
  <2>3. CASE n = 1
    <3>1. H[0] = 0 /\ H[1] = v1
      BY <2>3
    <3> HIDE DEF H, t
    <3> QED
      BY <3>1, <2>3
  <2>4. CASE n = 2
    <3>1. H[1] = v1 /\ H[2] = v2
      BY <2>4
    <3> HIDE DEF H, t, v1
    <3> QED
      BY <3>1, <2>4
  <2>5. CASE n = 3
    <3>1. H[2] = v2 /\ H[3] = v3
      BY <2>5
    <3> HIDE DEF H, t, v2
    <3> QED
      BY <3>1, <2>5
  <2>6. CASE n = 4
    <3>1. H[3] = v3 /\ H[4] = v4
      BY <2>6
    <3> HIDE DEF H, t, v3
    <3> QED
      BY <3>1, <2>6
  <2> QED
    BY <2>1, <2>2, <2>3, <2>4, <2>5, <2>6
<1>2. F(H) = H
  <2>1. H = [n \in 0 .. p.k |-> H[n]]
    OBVIOUS
  <2> HIDE DEF H, t
  <2> QED
    BY <1>1, <2>1
<1>3. h = F(h)
  <2> HIDE DEF F, H
  <2> QED
    BY <1>2
<1>4. RawSum(xs, ys) = h[p.k]
  BY DEF RawSum
<1>5. h[0] = 0
  <2> HIDE DEF h, t
  <2> QED
    BY <1>3
<1>6. ASSUME NEW n \in 0 .. p.k - 1 PROVE h[n + 1] = h[n] + t(n)
  <2> HIDE DEF h, t
  <2>1. n + 1 \in 0 .. p.k /\ n + 1 # 0 /\ (n + 1) - 1 = n
    OBVIOUS
  <2> QED
    BY <1>3, <2>1
<1> HIDE DEF h
<1> QED
  BY <1>4, <1>5, <1>6 DEF IsRawSum

\* Atoms that differ from each other and are in none of the monomials.
Fresh(a, sets) ==
  /\ \A i \in Indices, j \in Indices : \A s \in sets[j] : a[i] \notin s
  /\ \A i \in Indices, j \in Indices : a[i] = a[j] => i = j

\* The operands of a product sum: polynomials, and atoms.
OnceBy(xs, ys, sets, a) ==
  \A j \in Indices : xs[j].f = OncePoly(sets[j], 0) /\ ys[j].f = OncePoly({{a[j]}}, 0)

\* A product sum with atoms of which none is in a monomial: each monomial gets
\* the atom of its component, and no two become the same.
LEMMA DotOnce ==
  ASSUME p \in ParameterSets, NEW xs, NEW ys, NEW sets, NEW a,
         OnceBy(xs, ys, sets, a), Fresh(a, sets)
  PROVE  RawDot(xs, ys) = OncePoly(UNION {Extended(sets[j], a[j]) : j \in Indices}, -1)
<1> DEFINE part(j) == Extended(sets[j], a[j])
           upTo(n) == UNION {part(j) : j \in 0 .. n - 1}
<1>0. p.k \in {2, 3, 4}
  BY Ranks
<1>1. PICK dot : IsRawDot(dot, xs, ys)
  BY <1>0, RawDotSteps
<1>2. ASSUME NEW n \in Indices, NEW j \in 0 .. n - 1, NEW x, x \in part(j), x \in part(n)
      PROVE  FALSE
  <2>1. j \in Indices /\ j # n
    BY <1>0 DEF Indices
  <2>2. PICK s \in sets[j] : x = s \cup {a[j]}
    BY <1>2 DEF Extended
  <2>3. PICK t \in sets[n] : x = t \cup {a[n]}
    BY <1>2 DEF Extended
  <2>4. a[n] \notin s /\ a[n] # a[j]
    BY <2>1 DEF Fresh
  <2>5. a[n] \in x
    BY <2>3
  <2> QED
    BY <2>2, <2>4, <2>5
<1>3. ASSUME NEW n \in 0 .. p.k - 1, dot[n] = OncePoly(upTo(n), -1)
      PROVE  dot[n + 1] = OncePoly(upTo(n + 1), -1)
  <2>1. n \in Indices
    BY DEF Indices
  <2>2. Times(xs[n].f, ys[n].f) = OncePoly(part(n), -1)
    <3>1. \A s \in sets[n] : a[n] \notin s
      BY <2>1 DEF Fresh
    <3>2. Times(OncePoly(sets[n], 0), OncePoly({{a[n]}}, 0)) = OncePoly(part(n), -1)
      BY <3>1, TimesAtom
    <3>3. xs[n].f = OncePoly(sets[n], 0) /\ ys[n].f = OncePoly({{a[n]}}, 0)
      BY <2>1 DEF OnceBy
    <3> QED
      BY <3>2, <3>3
  <2>3. upTo(n) \cap part(n) = {}
    <3> SUFFICES ASSUME NEW x \in upTo(n), x \in part(n) PROVE FALSE
      OBVIOUS
    <3>1. PICK j \in 0 .. n - 1 : x \in part(j)
      OBVIOUS
    <3> HIDE DEF part
    <3> QED
      BY <1>2, <2>1, <3>1
  <2>4. upTo(n + 1) = upTo(n) \cup part(n)
    <3>1. 0 .. (n + 1) - 1 = (0 .. n - 1) \cup {n}
      OBVIOUS
    <3> HIDE DEF part
    <3> QED
      BY <3>1
  <2>5. dot[n + 1] = Plus(OncePoly(upTo(n), -1), OncePoly(part(n), -1))
    BY <1>1, <1>3, <2>2 DEF IsRawDot
  <2> HIDE DEF upTo, part
  <2> QED
    BY <2>3, <2>4, <2>5, PlusOnce
<1>4. dot[0] = OncePoly(upTo(0), -1)
  <2>1. 0 .. 0 - 1 = {}
    OBVIOUS
  <2>2. upTo(0) = {}
    <3> HIDE DEF part
    <3> QED
      BY <2>1
  <2>3. Zero = OncePoly({}, -1)
    BY DEF Zero, OncePoly
  <2> HIDE DEF upTo
  <2> QED
    BY <1>1, <2>2, <2>3 DEF IsRawDot
<1>5. dot[p.k] = OncePoly(upTo(p.k), -1)
  <2> HIDE DEF upTo
  <2>1. dot[1] = OncePoly(upTo(1), -1)
    BY <1>0, <1>3, <1>4
  <2>2. dot[2] = OncePoly(upTo(2), -1)
    BY <1>0, <1>3, <2>1
  <2>3. p.k > 2 => dot[3] = OncePoly(upTo(3), -1)
    BY <1>0, <1>3, <2>2
  <2>4. p.k > 3 => dot[4] = OncePoly(upTo(4), -1)
    BY <1>0, <1>3, <2>3
  <2> QED
    BY <1>0, <2>2, <2>3, <2>4
<1>6. upTo(p.k) = UNION {part(j) : j \in Indices}
  <2> HIDE DEF part
  <2> QED
    BY DEF Indices
<1> QED
  BY <1>1, <1>5, <1>6 DEF IsRawDot

\* The operands of every product sum of K-PKE, and what they sum to.
Multiplicable(x, y) ==
  /\ x.fits /\ y.fits /\ x.b \in Nat /\ y.b \in Nat
  /\ \/ x.b <= 4993 /\ y.b <= 1664
     \/ x.b <= 1664 /\ y.b <= 3328

AtMost(v, bound) == v \in Nat /\ v <= bound

AllMultiplicable(xs, ys) == \A j \in Indices : Multiplicable(xs[j], ys[j])

\* One component's share of the sum.
LEMMA DotSumBound ==
  ASSUME NEW x, NEW y, Multiplicable(x, y)
  PROVE  AtMost(DotSum(x, y), 17056088)
<1> DEFINE n == x.b
           m == y.b
           c == IF m < Reach(m * 1733) THEN Reach(m * 1733) ELSE m
<1>1. GAMMA_BOUND = 1733
  BY SMT DEF GAMMA_BOUND, Reach, Q
<1>2. DotSum(x, y) = 2 * n * c
  BY SMT, <1>1 DEF DotSum, AtMost
<1>3. n \in Nat /\ m \in Nat /\ ((n <= 4993 /\ m <= 1664) \/ (n <= 1664 /\ m <= 3328))
  BY SMT DEF Multiplicable
<1> HIDE DEF n, m
<1>4. c \in Nat /\ (m <= 1664 => c <= 1708) /\ (m <= 3328 => c <= 3328)
  BY SMT, <1>3 DEF Reach, Q, AtMost
<1> HIDE DEF c
<1>5. \A u, v, s, t \in Nat : u <= s /\ v <= t => u * v <= s * t /\ u * v \in Nat
  BY SMT
<1>6. CASE n <= 4993 /\ m <= 1664
  <2>1. n * c <= 4993 * 1708 /\ n * c \in Nat
    BY SMT, <1>3, <1>4, <1>5, <1>6 DEF AtMost
  <2>2. 2 * n * c = 2 * (n * c)
    BY SMT, <1>3, <1>4
  <2> QED
    BY SMT, <1>2, <2>1, <2>2 DEF AtMost
<1>7. CASE n <= 1664 /\ m <= 3328
  <2>1. n * c <= 1664 * 3328 /\ n * c \in Nat
    BY SMT, <1>3, <1>4, <1>5, <1>7 DEF AtMost
  <2>2. 2 * n * c = 2 * (n * c)
    BY SMT, <1>3, <1>4
  <2> QED
    BY SMT, <1>2, <2>1, <2>2 DEF AtMost
<1> QED
  BY SMT, <1>3, <1>6, <1>7 DEF AtMost

Reduced(x) == x.fits = TRUE /\ AtMost(x.b, 2705)

\* A product sum of such operands fits, and so does its reduction.
LEMMA DotFits ==
  ASSUME p \in ParameterSets, NEW xs, NEW ys, AllMultiplicable(xs, ys)
  PROVE  Reduced(AccumulatedDot(xs, ys))
<1>0. p.k \in {2, 3, 4}
  BY Ranks
<1>1. PICK sum : IsRawSum(sum, xs, ys)
  BY <1>0, RawSumSteps
<1>2. \A n \in 0 .. p.k - 1 : AtMost(DotSum(xs[n], ys[n]), 17056088)
  BY DotSumBound DEF Indices, AllMultiplicable
<1>3. ASSUME NEW n \in 0 .. p.k - 1, NEW c \in Nat, AtMost(sum[n], c)
      PROVE  AtMost(sum[n + 1], c + 17056088)
  <2>1. sum[n + 1] = sum[n] + DotSum(xs[n], ys[n]) /\ AtMost(DotSum(xs[n], ys[n]), 17056088)
    BY SMT, <1>1, <1>2 DEF IsRawSum
  <2> QED
    BY SMT, <1>3, <2>1 DEF AtMost
<1>4. AtMost(sum[p.k], 68224352)
  <2>1. AtMost(sum[1], 17056088)
    BY SMT, <1>0, <1>1, <1>3 DEF AtMost, IsRawSum
  <2>2. AtMost(sum[2], 34112176)
    BY SMT, <1>0, <1>3, <2>1 DEF AtMost
  <2>3. p.k > 2 => AtMost(sum[3], 51168264)
    BY SMT, <1>0, <1>3, <2>2 DEF AtMost
  <2>4. p.k > 3 => AtMost(sum[4], 68224352)
    BY SMT, <1>0, <1>3, <2>3 DEF AtMost
  <2> QED
    BY SMT, <1>0, <2>2, <2>3, <2>4 DEF AtMost
<1>5. AtMost(RawSum(xs, ys), 68224352)
  BY SMT, <1>1, <1>4 DEF IsRawSum
<1>6. AtMost(Reach(RawSum(xs, ys)), 2705) /\ RawSum(xs, ys) <= 12 * Q * Q
  BY SMT, <1>5 DEF Reach, Q, AtMost
<1>7. \A j \in Indices : /\ xs[j].fits /\ ys[j].fits
                         /\ 2 * xs[j].b <= 3 * Q /\ 2 * ys[j].b <= 3 * Q
  BY SMT DEF AllMultiplicable, Multiplicable, Q
<1> QED
  BY SMT, <1>6, <1>7 DEF AccumulatedDot, Reduced

(***************************************************************************)
(* The atoms of a key and of a ciphertext.                                 *)
(***************************************************************************)
Entry(d, i, j) == <<"A", d, i, j>>
NoiseAtom(seed, n, eta) == <<"noise", seed, n, eta>>
Secret(d, j) == NoiseAtom(d, j, p.eta1)
Error(d, i) == NoiseAtom(d, p.k + i, p.eta1)
Ephemeral(r, j) == NoiseAtom(r, j, p.eta1)
Error1(r, i) == NoiseAtom(r, p.k + i, p.eta2)
Error2(r) == NoiseAtom(r, 2 * p.k, p.eta2)
Rounding(part, m, r) == <<"round", part, m, r>>
Mu(m) == <<"mu", m>>

\* The monomials of a component of t_hat, of u, and of v.
KeySets(d, i) == {{Entry(d, i, j), Secret(d, j)} : j \in Indices} \cup {{Error(d, i)}}
USets(d, i, m, r) ==
  {{Entry(d, j, i), Ephemeral(r, j)} : j \in Indices} \cup {{Error1(r, i)}} \cup {{Rounding(i, m, r)}}
VProducts(d, r) == UNION {Extended(KeySets(d, i), Ephemeral(r, i)) : i \in Indices}
VSets(d, m, r) ==
  VProducts(d, r)
    \cup {{Error2(r)}} \cup {{Mu(m)}} \cup {{Rounding(p.k, m, r)}}
\* Those of the product of u with a secret.
TakenSets(d, by, m, r) ==
  UNION {Extended(USets(d, i, m, r), Secret(by, i)) : i \in Indices}

\* Atoms of different sorts, and of different places, differ.
LEMMA AtomsDiffer ==
  ASSUME NEW d, NEW i, NEW j, NEW seed, NEW n, NEW eta, NEW seed2, NEW n2, NEW eta2,
         NEW part, NEW m, NEW r
  PROVE  /\ Entry(d, i, j) # NoiseAtom(seed, n, eta)
         /\ Entry(d, i, j) # Rounding(part, m, r)
         /\ Entry(d, i, j) # Mu(m)
         /\ NoiseAtom(seed, n, eta) # Rounding(part, m, r)
         /\ NoiseAtom(seed, n, eta) # Mu(m)
         /\ Rounding(part, m, r) # Mu(m)
         /\ NoiseAtom(seed, n, eta) = NoiseAtom(seed2, n2, eta2)
              => (seed = seed2 /\ n = n2 /\ eta = eta2)
BY DEF Entry, NoiseAtom, Rounding, Mu

\* A matrix entry stands for one place of one matrix.
LEMMA EntriesDiffer ==
  ASSUME NEW d, NEW i, NEW j, NEW d2, NEW i2, NEW j2, Entry(d, i, j) = Entry(d2, i2, j2)
  PROVE  d = d2 /\ i = i2 /\ j = j2
BY DEF Entry

\* Rounding errors of different parts differ.
LEMMA RoundingsDiffer ==
  ASSUME NEW part, NEW part2, NEW m, NEW r, Rounding(part, m, r) = Rounding(part2, m, r)
  PROVE  part = part2
BY DEF Rounding

\* A ciphertext's ephemeral noise is in no monomial of a key, and a secret in
\* no monomial of u.
LEMMA FreshAtoms ==
  ASSUME p \in ParameterSets, NEW d \in KeySeeds, NEW by \in KeySeeds, NEW r \in Coins, NEW m,
         NEW i \in Indices, NEW j \in Indices
  PROVE  /\ \A s \in KeySets(d, j) : Ephemeral(r, i) \notin s
         /\ \A s \in USets(d, j, m, r) : Secret(by, i) \notin s
         /\ Ephemeral(r, i) = Ephemeral(r, j) => i = j
         /\ Secret(by, i) = Secret(by, j) => i = j
<1>1. d # r /\ by # r
  BY PkeAssumption
<1>2. ASSUME NEW s \in KeySets(d, j) PROVE Ephemeral(r, i) \notin s
  <2>1. CASE s = {Error(d, j)}
    BY <1>1, <2>1, AtomsDiffer DEF Ephemeral, Error
  <2>2. CASE \E l \in Indices : s = {Entry(d, j, l), Secret(d, l)}
    <3>1. PICK l \in Indices : s = {Entry(d, j, l), Secret(d, l)}
      BY <2>2
    <3>2. Ephemeral(r, i) # Entry(d, j, l)
      BY AtomsDiffer DEF Ephemeral
    <3>3. Ephemeral(r, i) # Secret(d, l)
      BY <1>1, AtomsDiffer DEF Ephemeral, Secret
    <3> QED
      BY <3>1, <3>2, <3>3
  <2> QED
    BY <2>1, <2>2 DEF KeySets
<1>3. ASSUME NEW s \in USets(d, j, m, r) PROVE Secret(by, i) \notin s
  <2>1. CASE s = {Error1(r, j)}
    BY <1>1, <2>1, AtomsDiffer DEF Secret, Error1
  <2>2. CASE s = {Rounding(j, m, r)}
    BY <2>2, AtomsDiffer DEF Secret
  <2>3. CASE \E l \in Indices : s = {Entry(d, l, j), Ephemeral(r, l)}
    <3>1. PICK l \in Indices : s = {Entry(d, l, j), Ephemeral(r, l)}
      BY <2>3
    <3>2. Secret(by, i) # Entry(d, l, j)
      BY AtomsDiffer DEF Secret
    <3>3. Secret(by, i) # Ephemeral(r, l)
      BY <1>1, AtomsDiffer DEF Ephemeral, Secret
    <3> QED
      BY <3>1, <3>2, <3>3
  <2> QED
    BY <2>1, <2>2, <2>3 DEF USets
<1>4. Ephemeral(r, i) = Ephemeral(r, j) => i = j
  BY AtomsDiffer DEF Ephemeral
<1>5. Secret(by, i) = Secret(by, j) => i = j
  BY AtomsDiffer DEF Secret
<1> QED
  BY <1>2, <1>3, <1>4, <1>5

(***************************************************************************)
(* Elements, and what the operations make of them.                         *)
(***************************************************************************)
IsElement(x, sets, bound) ==
  /\ x = [f |-> x.f, b |-> x.b, fits |-> x.fits]
  /\ x.f = OncePoly(sets, 0)
  /\ AtMost(x.b, bound)
  /\ x.fits = TRUE

Single(a) == {{a}}
\* Bounds that the operands of a product may have.
BoundsFit(B, C) == (B <= 4993 /\ C <= 1664) \/ (B <= 1664 /\ C <= 3328)
\* An atom is an element.
LEMMA AtomElement ==
  ASSUME NEW a, NEW bound \in Nat
  PROVE  IsElement(Atom(a, bound), Single(a), bound)
<1>1. Atom(a, bound).f = OncePoly({{a}}, 0)
  BY AtomPoly
<1>2. /\ Atom(a, bound) = [f |-> Atom(a, bound).f, b |-> Atom(a, bound).b, fits |-> Atom(a, bound).fits]
      /\ Atom(a, bound).b = bound /\ Atom(a, bound).fits = TRUE
  BY DEF Atom
<1> QED
  BY <1>1, <1>2 DEF IsElement, Single, AtMost

Apart(S, T) == S \cap T = {}

\* A sum.
LEMMA AddElement ==
  ASSUME NEW x, NEW y, NEW S, NEW T, NEW B \in Nat, NEW C \in Nat, B + C <= 32767,
         IsElement(x, S, B), IsElement(y, T, C), Apart(S, T)
  PROVE  IsElement(Add(x, y), S \cup T, B + C)
<1>1. Plus(x.f, y.f) = OncePoly(S \cup T, 0)
  BY PlusOnce DEF IsElement, Apart
<1>2. AtMost(x.b + y.b, B + C) /\ x.fits = TRUE /\ y.fits = TRUE
  <2>1. AtMost(x.b, B) /\ AtMost(y.b, C) /\ x.fits = TRUE /\ y.fits = TRUE
    BY DEF IsElement
  <2> QED
    BY <2>1 DEF AtMost
<1> DEFINE ok == x.fits /\ y.fits /\ x.b + y.b <= 32767
<1>3. ok = TRUE
  <2>1. x.b + y.b <= 32767
    BY <1>2 DEF AtMost
  <2>2. ok \in BOOLEAN
    OBVIOUS
  <2>3. ok
    BY <1>2, <2>1
  <2> HIDE DEF ok
  <2> QED
    BY <2>2, <2>3
<1>4. Add(x, y) = [f |-> Plus(x.f, y.f), b |-> x.b + y.b, fits |-> ok]
  BY DEF Add
<1> HIDE DEF ok
<1>5. Add(x, y) = [f |-> OncePoly(S \cup T, 0), b |-> x.b + y.b, fits |-> TRUE]
  BY <1>1, <1>3, <1>4
<1> QED
  BY <1>2, <1>5 DEF IsElement

\* A transform.
LEMMA NttElement ==
  ASSUME NEW x, NEW S, IsElement(x, S, 3328)
  PROVE  IsElement(Ntt(x), S, 1664)
<1> DEFINE ok == x.fits /\ x.b < Q
<1>1. ok = TRUE
  <2>1. AtMost(x.b, 3328) /\ x.fits = TRUE
    BY DEF IsElement
  <2>2. x.b < Q
    BY <2>1 DEF Q, AtMost
  <2>3. ok \in BOOLEAN
    OBVIOUS
  <2>4. ok
    BY <2>1, <2>2
  <2> HIDE DEF ok
  <2> QED
    BY <2>3, <2>4
<1>2. Ntt(x) = [f |-> x.f, b |-> 1664, fits |-> ok]
  BY DEF Ntt, NttBound
<1>3. x.f = OncePoly(S, 0)
  BY DEF IsElement
<1> HIDE DEF ok
<1> QED
  BY <1>1, <1>2, <1>3 DEF IsElement, AtMost

\* What came through bytes.
LEMMA CanonicalElement ==
  ASSUME NEW x, NEW S, NEW B, IsElement(x, S, B)
  PROVE  IsElement(Canonical(x), S, 3328)
<1>1. x = [f |-> x.f, b |-> x.b, fits |-> x.fits] /\ x.f = OncePoly(S, 0) /\ x.fits = TRUE
  BY DEF IsElement
<1>2. Canonical(x) = [f |-> x.f, b |-> 3328, fits |-> x.fits]
  BY <1>1 DEF Canonical, Q
<1> QED
  BY <1>1, <1>2 DEF IsElement, AtMost

Operands(xs, ys, sets, a, B, C) ==
  \A j \in Indices : IsElement(xs[j], sets[j], B) /\ IsElement(ys[j], Single(a[j]), C)

Dotted(sets, a) == UNION {Extended(sets[j], a[j]) : j \in Indices}

IsDot(dot, S) == IsElement(ToMontgomery(dot), S, 1720) /\ IsElement(NttInverse(dot), S, 3328)

\* A product sum, transformed back or made plain.
LEMMA DotElement ==
  ASSUME p \in ParameterSets, NEW xs, NEW ys, NEW sets, NEW a, NEW B \in Nat, NEW C \in Nat,
         BoundsFit(B, C), Fresh(a, sets), Operands(xs, ys, sets, a, B, C)
  PROVE  IsDot(AccumulatedDot(xs, ys), Dotted(sets, a))
<1> DEFINE S == Dotted(sets, a)
           dot == AccumulatedDot(xs, ys)
<1>2. ASSUME NEW j \in Indices
      PROVE  /\ Multiplicable(xs[j], ys[j])
             /\ xs[j].f = OncePoly(sets[j], 0) /\ ys[j].f = OncePoly({{a[j]}}, 0)
  <2> DEFINE x == xs[j]
             y == ys[j]
  <2>1. IsElement(x, sets[j], B) /\ IsElement(y, Single(a[j]), C)
    BY DEF Operands
  <2> HIDE DEF x, y
  <2>2. x.fits /\ y.fits /\ AtMost(x.b, B) /\ AtMost(y.b, C)
    BY <2>1 DEF IsElement
  <2>3. Multiplicable(x, y)
    BY <2>2 DEF Multiplicable, BoundsFit, AtMost
  <2>4. x.f = OncePoly(sets[j], 0) /\ y.f = OncePoly({{a[j]}}, 0)
    BY <2>1 DEF IsElement, Single
  <2> QED
    BY <2>3, <2>4 DEF x, y
<1>3. dot.fits = TRUE /\ AtMost(dot.b, 2705)
  <2>1. AllMultiplicable(xs, ys)
    BY <1>2 DEF AllMultiplicable
  <2>2. Reduced(dot)
    BY <2>1, DotFits
  <2> QED
    BY <2>2 DEF Reduced
<1>4. RawDot(xs, ys) = OncePoly(S, -1)
  <2>1. OnceBy(xs, ys, sets, a)
    BY <1>2 DEF OnceBy
  <2> QED
    BY <2>1, DotOnce DEF Dotted
<1>5. dot.f = OncePoly(S, -1)
  BY <1>4 DEF AccumulatedDot
<1>6. Shifted(dot.f) = OncePoly(S, 0)
  <2> HIDE DEF S, dot
  <2>1. Shifted(OncePoly(S, -1)) = OncePoly(S, -1 + 1)
    BY ShiftedOnce
  <2>2. -1 + 1 = 0
    OBVIOUS
  <2> QED
    BY <1>5, <2>1, <2>2
<1> DEFINE made == Reach(1353 * dot.b)
           ok == dot.fits /\ dot.b <= 16383
<1> HIDE DEF S, dot
<1>7. AtMost(made, 1720)
  <2> DEFINE n == dot.b
  <2>1. AtMost(n, 2705)
    BY <1>3
  <2> HIDE DEF n
  <2>2. AtMost((1353 * n + 3329 * 32768) \div 65536, 1720)
    BY SMT, <2>1 DEF AtMost
  <2> QED
    BY <2>2 DEF Reach, Q, n
<1>8. ok = TRUE
  <2>1. dot.b <= 16383
    BY <1>3 DEF AtMost
  <2>2. ok \in BOOLEAN
    OBVIOUS
  <2>3. ok
    BY <1>3, <2>1
  <2> HIDE DEF ok
  <2> QED
    BY <2>2, <2>3
<1>9. ToMontgomery(dot) = [f |-> Shifted(dot.f), b |-> made, fits |-> dot.fits]
  BY DEF ToMontgomery
<1>10. NttInverse(dot) = [f |-> Shifted(dot.f), b |-> 3328, fits |-> ok]
  BY SMT DEF NttInverse, Q
<1> HIDE DEF made, ok
<1>11. IsElement(ToMontgomery(dot), S, 1720)
  BY <1>3, <1>6, <1>7, <1>9 DEF IsElement
<1>12. IsElement(NttInverse(dot), S, 3328)
  BY <1>6, <1>8, <1>10 DEF IsElement, AtMost
<1> QED
  BY <1>11, <1>12 DEF S, dot, IsDot

(***************************************************************************)
(* Bytes.                                                                  *)
(***************************************************************************)
IsList(s, n) == s = [o \in 1 .. n |-> s[o]]

\* A concatenation, unit by unit.
LEMMA Joint ==
  ASSUME NEW n \in Nat, NEW l \in Nat, NEW s, NEW t, IsList(s, n), IsList(t, l)
  PROVE  /\ \A o \in 1 .. n : (s \o t)[o] = s[o]
         /\ \A o \in 1 .. l : (s \o t)[n + o] = t[o]
         /\ DOMAIN (s \o t) = 1 .. n + l
         /\ \E T : s \o t \in Seq(T) /\ Len(s \o t) = n + l
<1> DEFINE T == {s[o] : o \in 1 .. n} \cup {t[o] : o \in 1 .. l}
<1>1. s \in [1 .. n -> T] /\ t \in [1 .. l -> T]
  BY DEF IsList
<1>2. s \in Seq(T) /\ t \in Seq(T) /\ Len(s) = n /\ Len(t) = l
  <2> HIDE DEF T
  <2>1. s \in Seq(T) /\ t \in Seq(T)
    BY <1>1, SeqDef
  <2>2. DOMAIN s = 1 .. n /\ DOMAIN t = 1 .. l
    BY <1>1
  <2> QED
    BY <2>1, <2>2, LenProperties
<1> HIDE DEF T
<1>3. /\ Len(s \o t) = n + l
      /\ \A i \in 1 .. n + l : (s \o t)[i] = IF i <= n THEN s[i] ELSE t[i - n]
      /\ s \o t \in Seq(T)
  BY <1>2, ConcatProperties
<1>4. DOMAIN (s \o t) = 1 .. n + l
  BY <1>3, LenProperties
<1>5. ASSUME NEW o \in 1 .. l PROVE (s \o t)[n + o] = t[o]
  <2>1. n + o \in 1 .. n + l /\ ~(n + o <= n) /\ (n + o) - n = o
    OBVIOUS
  <2> QED
    BY <1>3, <2>1
<1>6. ASSUME NEW o \in 1 .. n PROVE (s \o t)[o] = s[o]
  <2>1. o \in 1 .. n + l /\ o <= n
    OBVIOUS
  <2> QED
    BY <1>3, <2>1
<1> QED
  BY <1>3, <1>4, <1>5, <1>6

\* The packing of a value is read back as the value.
LEMMA UnpacksUnits ==
  ASSUME NEW T, NEW bytes \in Seq(T), NEW at \in Nat, NEW size \in Nat \ {0}, NEW v,
         at + size <= Len(bytes),
         \A o \in 1 .. size : bytes[at + o] = <<v, o>>
  PROVE  Unpacked(bytes, at, size) = v
<1> DEFINE units == SubSeq(bytes, at + 1, at + size)
<1>1. units = Units(v, size)
  <2>1. at + 1 \in 1 .. Len(bytes) + 1 /\ at + size \in (at + 1) - 1 .. Len(bytes)
    BY LenProperties
  <2>2. (at + size) - (at + 1) + 1 = size
    OBVIOUS
  <2>3. /\ units \in Seq(T) /\ Len(units) = (at + size) - (at + 1) + 1
        /\ \A i \in 1 .. (at + size) - (at + 1) + 1 : units[i] = bytes[(at + 1) + i - 1]
    BY <2>1, SubSeqProperties
  <2>4. ASSUME NEW i \in 1 .. size PROVE units[i] = <<v, i>>
    <3>1. (at + 1) + i - 1 = at + i
      OBVIOUS
    <3> HIDE DEF units
    <3> QED
      BY <2>2, <2>3, <3>1
  <2> HIDE DEF units
  <2>5. units = [i \in 1 .. size |-> units[i]]
    BY <2>2, <2>3, LenProperties
  <2> QED
    BY <2>4, <2>5 DEF Units
<1>2. units[1][1] = v
  <2>1. Units(v, size)[1] = <<v, 1>>
    BY DEF Units
  <2> HIDE DEF units
  <2> QED
    BY <1>1, <2>1
<1> HIDE DEF units
<1> QED
  BY <1>1, <1>2 DEF Unpacked, units

\* The bytes of a packed value, in units of 32.
PartSizes == {4, 5, 10, 11, 12}

\* Where a component is in the packing of a vector.
LEMMA VectorUnits ==
  ASSUME p \in ParameterSets, NEW size \in PartSizes, NEW v,
         NEW j \in Indices, NEW o \in 1 .. size
  PROVE  Vector(v, size)[size * j + o] = <<v[j], o>> /\ size * j + o \in 1 .. p.k * size
<1>1. p.k \in {2, 3, 4} /\ j \in 0 .. 3 /\ j < p.k /\ size \in {4, 5, 10, 11, 12}
  BY Ranks DEF Indices, PartSizes
<1>2. size * j + o \in 1 .. p.k * size
  <2>1. CASE p.k = 2
    BY <1>1, <2>1
  <2>2. CASE p.k = 3
    BY <1>1, <2>2
  <2>3. CASE p.k = 4
    BY <1>1, <2>3
  <2> QED
    BY <1>1, <2>1, <2>2, <2>3
<1> DEFINE n == size * j + o
           place == (n - 1) \div size
           rest == (n - 1) % size
<1>3. place = j /\ rest = o - 1
  <2>1. CASE size = 4
    BY <1>1, <2>1
  <2>2. CASE size = 5
    BY <1>1, <2>2
  <2>3. CASE size = 10
    BY <1>1, <2>3
  <2>4. CASE size = 11
    BY <1>1, <2>4
  <2>5. CASE size = 12
    BY <1>1, <2>5
  <2> QED
    BY <1>1, <2>1, <2>2, <2>3, <2>4, <2>5
<1> HIDE DEF place, rest
<1>4. n \in 1 .. p.k * size /\ place = j /\ rest + 1 = o
  <2>1. o \in Int
    BY <1>1
  <2>2. rest + 1 = o
    BY <1>3, <2>1
  <2> QED
    BY <1>2, <1>3, <2>2
<1> USE DEF place, rest
<1> HIDE DEF n
<1>5. Vector(v, size)[n] = <<v[j], o>>
  BY <1>4 DEF Vector
<1> QED
  BY <1>4, <1>5 DEF n

\* Its length, and the values in it.
LEMMA VectorList ==
  ASSUME p \in ParameterSets, NEW size \in PartSizes, NEW v
  PROVE  /\ p.k * size \in Nat
         /\ IsList(Vector(v, size), p.k * size)
         /\ \A o \in 1 .. p.k * size : \E j \in Indices : Vector(v, size)[o][1] = v[j]
<1>1. p.k \in {2, 3, 4} /\ size \in {4, 5, 10, 11, 12}
  BY Ranks DEF PartSizes
<1>2. p.k * size \in Nat
  BY <1>1
<1> DEFINE total == p.k * size
<1>3. ASSUME NEW o \in 1 .. total PROVE (o - 1) \div size \in Indices
  <2>1. o \in Nat /\ 1 <= o /\ o <= p.k * size /\ size \in {4, 5, 10, 11, 12}
    BY <1>1
  <2>2. CASE p.k = 2
    BY <2>1, <2>2 DEF Indices
  <2>3. CASE p.k = 3
    BY <2>1, <2>3 DEF Indices
  <2>4. CASE p.k = 4
    BY <2>1, <2>4 DEF Indices
  <2> QED
    BY <1>1, <2>2, <2>3, <2>4
<1>4. Vector(v, size) = [o \in 1 .. total |-> <<v[(o - 1) \div size], ((o - 1) % size) + 1>>]
  BY DEF Vector
<1> HIDE DEF total
<1>5. IsList(Vector(v, size), total)
  BY <1>4 DEF IsList
<1>6. ASSUME NEW o \in 1 .. total PROVE \E j \in Indices : Vector(v, size)[o][1] = v[j]
  <2>1. Vector(v, size)[o][1] = v[(o - 1) \div size]
    BY <1>4
  <2> QED
    BY <1>3, <2>1
<1> QED
  BY <1>2, <1>5, <1>6 DEF total

\* A component of a vector is read back from the front of some bytes.
LEMMA VectorReadBack ==
  ASSUME p \in ParameterSets, NEW size \in PartSizes, NEW v, NEW j \in Indices,
         NEW T, NEW bytes \in Seq(T), p.k * size <= Len(bytes),
         \A o \in 1 .. p.k * size : bytes[o] = Vector(v, size)[o]
  PROVE  Unpacked(bytes, size * j, size) = v[j]
<1> DEFINE at == size * j
<1>1. p.k \in {2, 3, 4} /\ j \in Nat /\ size \in {4, 5, 10, 11, 12}
  BY Ranks DEF Indices, PartSizes
<1>2. at \in Nat /\ size \in Nat \ {0}
  BY <1>1
<1>3. ASSUME NEW o \in 1 .. size PROVE bytes[at + o] = <<v[j], o>> /\ at + o \in 1 .. p.k * size
  <2>1. Vector(v, size)[at + o] = <<v[j], o>> /\ at + o \in 1 .. p.k * size
    BY VectorUnits
  <2> HIDE DEF at
  <2> QED
    BY <2>1
<1>4. at + size <= Len(bytes)
  <2>1. size \in 1 .. size
    BY <1>2
  <2>2. at + size \in 1 .. p.k * size
    BY <1>3, <2>1
  <2>3. p.k * size \in Nat
    BY <1>1
  <2> DEFINE total == p.k * size
  <2>4. total \in Nat /\ total <= Len(bytes) /\ at + size \in 1 .. total /\ Len(bytes) \in Nat
    BY <2>2, <2>3, LenProperties
  <2> HIDE DEF total, at
  <2> QED
    BY <2>4
<1> HIDE DEF at
<1>5. Unpacked(bytes, at, size) = v[j]
  BY <1>2, <1>3, <1>4, UnpacksUnits
<1> QED
  BY <1>5 DEF at

\* A list is a sequence of its length.
LEMMA ListSeq ==
  ASSUME NEW n \in Nat, NEW s, IsList(s, n)
  PROVE  \E T : s \in Seq(T) /\ Len(s) = n
<1> DEFINE T == {s[o] : o \in 1 .. n}
<1>1. s \in [1 .. n -> T]
  BY DEF IsList
<1> HIDE DEF T
<1>2. s \in Seq(T) /\ DOMAIN s = 1 .. n
  BY <1>1, SeqDef
<1>3. Len(s) = n
  BY <1>2, LenProperties
<1> QED
  BY <1>2, <1>3

\* A vector that goes through bytes comes back canonical.
LEMMA VectorReloads ==
  ASSUME p \in ParameterSets, NEW v, NEW j \in Indices
  PROVE  VectorFromBytes(VectorToBytes(v))[j] = Canonical(v[j])
<1> DEFINE c == [i \in Indices |-> Canonical(v[i])]
           bytes == Vector(c, 12)
<1>0. 12 \in PartSizes
  BY DEF PartSizes
<1>1. IsList(bytes, p.k * 12) /\ p.k * 12 \in Nat
  BY <1>0, VectorList
<1>2. PICK T : bytes \in Seq(T) /\ Len(bytes) = p.k * 12
  BY <1>1, ListSeq
<1>3. Unpacked(bytes, 12 * j, 12) = c[j]
  <2>1. p.k * 12 <= Len(bytes)
    BY <1>1, <1>2
  <2>2. \A o \in 1 .. p.k * 12 : bytes[o] = Vector(c, 12)[o]
    OBVIOUS
  <2> HIDE DEF bytes, c
  <2> QED
    BY <1>0, <1>2, <2>1, <2>2, VectorReadBack
<1>4. VectorFromBytes(bytes)[j] = Unpacked(bytes, 12 * j, 12)
  BY DEF VectorFromBytes
<1>5. VectorToBytes(v) = bytes
  BY DEF VectorToBytes
<1> HIDE DEF bytes
<1> QED
  BY <1>3, <1>4, <1>5

\* An encryption key that goes through bytes.
LEMMA KeyReloads ==
  ASSUME p \in ParameterSets, NEW key
  PROVE  LET loaded == EncryptionKeyFromBytes(EncryptionKeyToBytes(key))
         IN /\ loaded.rho = key.rho
            /\ \A j \in Indices : loaded.t_hat[j] = Canonical(key.t_hat[j])
            /\ loaded.a_hat_transpose = Transpose(Expand(key.rho))
<1> DEFINE c == [i \in Indices |-> Canonical(key.t_hat[i])]
           front == Vector(c, 12)
           back == Units(key.rho, 1)
           bytes == front \o back
           n == p.k * 12
<1>0. 12 \in PartSizes
  BY DEF PartSizes
<1>1. IsList(front, n) /\ n \in Nat
  BY <1>0, VectorList
<1>2. IsList(back, 1) /\ back[1] = <<key.rho, 1>>
  BY DEF IsList, Units
<1>3. VectorToBytes(key.t_hat) = front
  BY DEF VectorToBytes
<1>4. EncryptionKeyToBytes(key) = bytes
  BY <1>3 DEF EncryptionKeyToBytes
<1>5. 12 * p.k = n
  BY Ranks
<1> HIDE DEF front, back, n
<1>6. /\ \A o \in 1 .. n : bytes[o] = front[o]
      /\ \A o \in 1 .. 1 : bytes[n + o] = back[o]
      /\ \E T : bytes \in Seq(T) /\ Len(bytes) = n + 1
  BY <1>1, <1>2, Joint
<1>7. bytes[12 * p.k + 1][1] = key.rho
  <2>1. 1 \in 1 .. 1
    OBVIOUS
  <2>2. bytes[n + 1] = back[1]
    BY <1>6, <2>1
  <2> HIDE DEF bytes
  <2> QED
    BY <1>2, <1>5, <2>2
<1>8. PICK T : bytes \in Seq(T) /\ Len(bytes) = n + 1
  BY <1>6
<1> HIDE DEF bytes
<1>9. ASSUME NEW j \in Indices PROVE VectorFromBytes(bytes)[j] = Canonical(key.t_hat[j])
  <2>1. p.k * 12 <= Len(bytes)
    BY <1>1, <1>8 DEF n
  <2>2. \A o \in 1 .. p.k * 12 : bytes[o] = Vector(c, 12)[o]
    BY <1>6 DEF n, front
  <2> HIDE DEF c
  <2>3. Unpacked(bytes, 12 * j, 12) = c[j]
    BY <1>0, <1>8, <2>1, <2>2, VectorReadBack
  <2>4. VectorFromBytes(bytes)[j] = Unpacked(bytes, 12 * j, 12)
    BY DEF VectorFromBytes
  <2> QED
    BY <2>3, <2>4 DEF c
<1>10. EncryptionKeyFromBytes(bytes) =
         [t_hat |-> VectorFromBytes(bytes), rho |-> key.rho,
          a_hat_transpose |-> Transpose(Expand(key.rho))]
  BY <1>7 DEF EncryptionKeyFromBytes
<1> QED
  BY <1>4, <1>9, <1>10

\* What decrypt reads from a ciphertext.
LEMMA CiphertextReadBack ==
  ASSUME p \in ParameterSets, NEW u, NEW v
  PROVE  LET bytes == Vector(u, p.du) \o Units(v, p.dv)
         IN /\ \A j \in Indices : Unpacked(bytes, p.du * j, p.du) = u[j]
            /\ Unpacked(bytes, p.du * p.k, p.dv) = v
            /\ \A n \in DOMAIN bytes : bytes[n][1] = v \/ \E j \in Indices : bytes[n][1] = u[j]
<1> DEFINE front == Vector(u, p.du)
           back == Units(v, p.dv)
           bytes == front \o back
           n == p.k * p.du
           l == p.dv
<1>1. p.k \in {2, 3, 4} /\ p.du \in {10, 11} /\ l \in {4, 5}
  BY Ranks
<1>2. p.du \in PartSizes /\ l \in Nat /\ l \in Nat \ {0} /\ p.du * p.k = n /\ n \in Nat
  BY <1>1 DEF PartSizes
<1>3. IsList(front, n) /\ \A o \in 1 .. n : \E j \in Indices : front[o][1] = u[j]
  BY <1>2, VectorList
<1>4. IsList(back, l) /\ \A o \in 1 .. l : back[o] = <<v, o>>
  BY DEF IsList, Units
<1> HIDE DEF front, back, n, l
<1>5. /\ \A o \in 1 .. n : bytes[o] = front[o]
      /\ \A o \in 1 .. l : bytes[n + o] = back[o]
      /\ DOMAIN bytes = 1 .. n + l
      /\ \E T : bytes \in Seq(T) /\ Len(bytes) = n + l
  <2>1. IsList(front, n) /\ IsList(back, l) /\ n \in Nat /\ l \in Nat
    BY <1>2, <1>3, <1>4
  <2> QED
    BY <2>1, Joint
<1> HIDE DEF bytes
<1>6. PICK T : bytes \in Seq(T) /\ Len(bytes) = n + l
  BY <1>5
<1>7. ASSUME NEW j \in Indices PROVE Unpacked(bytes, p.du * j, p.du) = u[j]
  <2>1. p.k * p.du <= Len(bytes)
    BY <1>2, <1>6 DEF n
  <2>2. \A o \in 1 .. p.k * p.du : bytes[o] = Vector(u, p.du)[o]
    BY <1>5 DEF n, front
  <2> QED
    BY <1>2, <1>6, <2>1, <2>2, VectorReadBack
<1>8. Unpacked(bytes, n, l) = v
  <2>1. n + l <= Len(bytes)
    BY <1>2, <1>6
  <2>2. \A o \in 1 .. l : bytes[n + o] = <<v, o>>
    BY <1>4, <1>5
  <2> QED
    BY <1>2, <1>6, <2>1, <2>2, UnpacksUnits
<1>9. ASSUME NEW i \in DOMAIN bytes PROVE bytes[i][1] = v \/ \E j \in Indices : bytes[i][1] = u[j]
  <2>1. CASE i <= n
    <3>1. i \in 1 .. n
      BY <1>2, <1>5, <2>1
    <3> QED
      BY <1>3, <1>5, <3>1
  <2>2. CASE ~(i <= n)
    <3>1. i - n \in 1 .. l /\ n + (i - n) = i
      BY <1>2, <1>5, <2>2
    <3>2. bytes[i] = <<v, i - n>>
      BY <1>4, <1>5, <3>1
    <3> QED
      BY <3>2
  <2> QED
    BY <2>1, <2>2
<1> QED
  BY <1>2, <1>7, <1>8, <1>9 DEF bytes, front, back, l

(***************************************************************************)
(* What key generation, encryption and decryption compute.                 *)
(***************************************************************************)
IsSecret(s, d) == \A j \in Indices : IsElement(s[j], Single(Secret(d, j)), 3328)

IsKey(key) ==
  /\ key.rho \in KeySeeds
  /\ \A i \in Indices : IsElement(key.t_hat[i], KeySets(key.rho, i), 3384)
  /\ \A i \in Indices, j \in Indices : key.a_hat_transpose[i][j] = MatrixEntry(key.rho, j, i)

\* A noise polynomial, and its transform.
LEMMA NoiseElement ==
  ASSUME p \in ParameterSets, NEW seed, NEW n, NEW eta \in {p.eta1, p.eta2}
  PROVE  /\ IsElement(Noise(seed, n, eta), Single(NoiseAtom(seed, n, eta)), 3)
         /\ IsElement(Ntt(Noise(seed, n, eta)), Single(NoiseAtom(seed, n, eta)), 1664)
<1>1. eta \in Nat /\ eta <= 3
  BY Ranks
<1>2. Noise(seed, n, eta) = Atom(NoiseAtom(seed, n, eta), eta)
  BY DEF Noise, NoiseAtom
<1> DEFINE x == Noise(seed, n, eta)
           S == Single(NoiseAtom(seed, n, eta))
<1>3. IsElement(x, S, eta)
  BY <1>1, <1>2, AtomElement
<1> HIDE DEF x, S
<1>4. IsElement(x, S, 3) /\ IsElement(x, S, 3328)
  BY <1>1, <1>3 DEF IsElement, AtMost
<1>5. IsElement(Ntt(x), S, 1664)
  BY <1>4, NttElement
<1> QED
  BY <1>4, <1>5 DEF x, S

\* An entry of the matrix.
LEMMA EntryElement ==
  ASSUME NEW d, NEW i, NEW j
  PROVE  IsElement(MatrixEntry(d, i, j), Single(Entry(d, i, j)), 3328)
<1>1. MatrixEntry(d, i, j) = Atom(Entry(d, i, j), 3328)
  BY DEF MatrixEntry, Entry, Q
<1>2. 3328 \in Nat
  OBVIOUS
<1> QED
  BY <1>1, <1>2, AtomElement

\* A component of t_hat.
LEMMA KeyComponent ==
  ASSUME p \in ParameterSets, NEW d \in KeySeeds, NEW i \in Indices,
         NEW row, \A j \in Indices : row[j] = MatrixEntry(d, i, j),
         NEW s_hat, \A j \in Indices : s_hat[j] = Ntt(Noise(d, j, p.eta1)),
         NEW e_hat, e_hat = Ntt(Noise(d, p.k + i, p.eta1))
  PROVE  IsElement(Add(ToMontgomery(AccumulatedDot(row, s_hat)), e_hat), KeySets(d, i), 3384)
<1> DEFINE sets == [j \in Indices |-> Single(Entry(d, i, j))]
           a == [j \in Indices |-> Secret(d, j)]
           S == Dotted(sets, a)
<1>1. Fresh(a, sets)
  <2>1. ASSUME NEW l \in Indices, NEW j \in Indices, NEW s \in sets[j] PROVE a[l] \notin s
    <3>1. s = {Entry(d, i, j)}
      BY DEF Single
    <3>2. Entry(d, i, j) # Secret(d, l)
      BY AtomsDiffer DEF Secret
    <3> QED
      BY <3>1, <3>2
  <2>2. ASSUME NEW l \in Indices, NEW j \in Indices, a[l] = a[j] PROVE l = j
    <3>1. Secret(d, l) = Secret(d, j)
      BY <2>2
    <3> QED
      BY <3>1, AtomsDiffer DEF Secret
  <2> QED
    BY <2>1, <2>2 DEF Fresh
<1>2. ASSUME NEW j \in Indices
      PROVE  IsElement(row[j], sets[j], 3328) /\ IsElement(s_hat[j], Single(a[j]), 1664)
  <2>1. IsElement(row[j], Single(Entry(d, i, j)), 3328)
    BY EntryElement
  <2>2. IsElement(s_hat[j], Single(NoiseAtom(d, j, p.eta1)), 1664)
    BY NoiseElement
  <2> QED
    BY <2>1, <2>2 DEF Secret
<1>3. BoundsFit(3328, 1664)
  BY DEF BoundsFit
<1>4. IsElement(ToMontgomery(AccumulatedDot(row, s_hat)), S, 1720)
  <2> HIDE DEF sets, a
  <2>1. Operands(row, s_hat, sets, a, 3328, 1664)
    BY <1>2 DEF Operands
  <2>2. IsDot(AccumulatedDot(row, s_hat), Dotted(sets, a))
    BY <1>1, <1>3, <2>1, DotElement
  <2> QED
    BY <2>2 DEF IsDot
<1>5. IsElement(e_hat, Single(Error(d, i)), 1664)
  BY NoiseElement DEF Error
<1>6. S = {{Entry(d, i, j), Secret(d, j)} : j \in Indices}
  <2>1. ASSUME NEW j \in Indices PROVE Extended(sets[j], a[j]) = {{Entry(d, i, j), Secret(d, j)}}
    BY DEF Extended, Single
  <2> HIDE DEF sets, a
  <2> QED
    BY <2>1 DEF Dotted
<1>7. Apart(S, Single(Error(d, i)))
  <2> SUFFICES ASSUME NEW j \in Indices, {Entry(d, i, j), Secret(d, j)} = {Error(d, i)} PROVE FALSE
    BY <1>6 DEF Single, Apart
  <2>1. Entry(d, i, j) # Error(d, i)
    BY AtomsDiffer DEF Error
  <2> QED
    BY <2>1
<1>8. S \cup Single(Error(d, i)) = KeySets(d, i)
  BY <1>6 DEF KeySets, Single
<1> DEFINE x == ToMontgomery(AccumulatedDot(row, s_hat))
           T == Single(Error(d, i))
<1> HIDE DEF S, T, x
<1>9. IsElement(Add(x, e_hat), S \cup T, 3384)
  <2>1. PICK B \in Nat, C \in Nat : B = 1720 /\ C = 1664
    OBVIOUS
  <2>2. B + C <= 32767 /\ B + C = 3384
    BY <2>1
  <2>3. IsElement(x, S, B) /\ IsElement(e_hat, T, C) /\ Apart(S, T)
    BY <1>4, <1>5, <1>7, <2>1 DEF x, T
  <2>4. IsElement(Add(x, e_hat), S \cup T, B + C)
    BY <2>2, <2>3, AddElement
  <2> QED
    BY <2>2, <2>4
<1> QED
  BY <1>8, <1>9 DEF x, T

\* new_derand makes a secret and a key that belong together.
LEMMA KeyPairHolds ==
  ASSUME p \in ParameterSets, NEW d \in KeySeeds
  PROVE  /\ IsSecret(KeyPair(d).dk_pke, d)
         /\ IsKey(KeyPair(d).ek_pke)
<1> DEFINE a_hat == Expand(d)
           s_hat == [j \in Indices |-> Ntt(NoiseVector(d, 0, p.eta1)[j])]
           e_hat == [j \in Indices |-> Ntt(NoiseVector(d, p.k, p.eta1)[j])]
           t_hat == [i \in Indices |-> Add(ToMontgomery(AccumulatedDot(a_hat[i], s_hat)), e_hat[i])]
<1>1. /\ KeyPair(d).dk_pke = s_hat
      /\ KeyPair(d).ek_pke.t_hat = t_hat /\ KeyPair(d).ek_pke.rho = d
      /\ KeyPair(d).ek_pke.a_hat_transpose = Transpose(a_hat)
  BY DEF KeyPair, CachedMatrix
<1>2. \A i \in Indices, j \in Indices : a_hat[i][j] = MatrixEntry(d, i, j)
  BY DEF Expand
<1>3. ASSUME NEW j \in Indices
      PROVE  /\ s_hat[j] = Ntt(Noise(d, j, p.eta1))
             /\ e_hat[j] = Ntt(Noise(d, p.k + j, p.eta1))
  <2>1. 0 + j = j
    BY Ranks DEF Indices
  <2> QED
    BY <2>1 DEF NoiseVector
<1> HIDE DEF a_hat, s_hat, e_hat
<1>4. ASSUME NEW i \in Indices PROVE IsElement(t_hat[i], KeySets(d, i), 3384)
  <2>1. t_hat[i] = Add(ToMontgomery(AccumulatedDot(a_hat[i], s_hat)), e_hat[i])
    OBVIOUS
  <2> HIDE DEF t_hat
  <2>2. \A j \in Indices : a_hat[i][j] = MatrixEntry(d, i, j)
    BY <1>2
  <2>3. \A j \in Indices : s_hat[j] = Ntt(Noise(d, j, p.eta1))
    BY <1>3
  <2>4. e_hat[i] = Ntt(Noise(d, p.k + i, p.eta1))
    BY <1>3
  <2>5. IsElement(Add(ToMontgomery(AccumulatedDot(a_hat[i], s_hat)), e_hat[i]), KeySets(d, i), 3384)
    BY <2>2, <2>3, <2>4, KeyComponent
  <2> QED
    BY <2>1, <2>5
<1> HIDE DEF t_hat
<1>5. \A i \in Indices, j \in Indices : Transpose(a_hat)[i][j] = MatrixEntry(d, j, i)
  BY <1>2 DEF Transpose
<1>6. IsKey(KeyPair(d).ek_pke)
  BY <1>1, <1>4, <1>5 DEF IsKey
<1>7. ASSUME NEW j \in Indices PROVE IsElement(s_hat[j], Single(Secret(d, j)), 3328)
  <2>1. IsElement(s_hat[j], Single(Secret(d, j)), 1664)
    BY <1>3, NoiseElement DEF Secret
  <2> QED
    BY <2>1 DEF IsElement, AtMost
<1> QED
  BY <1>1, <1>6, <1>7 DEF IsSecret

\* Keys stay what they are through bytes.
LEMMA ReloadedHold ==
  ASSUME p \in ParameterSets
  PROVE  /\ \A s, d : IsSecret(s, d) => IsSecret(VectorFromBytes(VectorToBytes(s)), d)
         /\ \A key : IsKey(key) => IsKey(EncryptionKeyFromBytes(EncryptionKeyToBytes(key)))
<1>1. ASSUME NEW s, NEW d, IsSecret(s, d) PROVE IsSecret(VectorFromBytes(VectorToBytes(s)), d)
  <2>1. ASSUME NEW j \in Indices
        PROVE  IsElement(VectorFromBytes(VectorToBytes(s))[j], Single(Secret(d, j)), 3328)
    <3>1. IsElement(s[j], Single(Secret(d, j)), 3328)
      BY <1>1 DEF IsSecret
    <3> QED
      BY <3>1, VectorReloads, CanonicalElement
  <2> QED
    BY <2>1 DEF IsSecret
<1>2. ASSUME NEW key, IsKey(key) PROVE IsKey(EncryptionKeyFromBytes(EncryptionKeyToBytes(key)))
  <2> DEFINE loaded == EncryptionKeyFromBytes(EncryptionKeyToBytes(key))
  <2>1. /\ loaded.rho = key.rho
        /\ \A j \in Indices : loaded.t_hat[j] = Canonical(key.t_hat[j])
        /\ loaded.a_hat_transpose = Transpose(Expand(key.rho))
    BY KeyReloads
  <2> HIDE DEF loaded
  <2>2. ASSUME NEW i \in Indices PROVE IsElement(loaded.t_hat[i], KeySets(loaded.rho, i), 3384)
    <3>1. IsElement(key.t_hat[i], KeySets(key.rho, i), 3384)
      BY <1>2 DEF IsKey
    <3>2. IsElement(loaded.t_hat[i], KeySets(loaded.rho, i), 3328)
      BY <2>1, <3>1, CanonicalElement
    <3> QED
      BY <3>2 DEF IsElement, AtMost
  <2>3. \A i \in Indices, j \in Indices :
          loaded.a_hat_transpose[i][j] = MatrixEntry(loaded.rho, j, i)
    BY <2>1 DEF Transpose, Expand
  <2> QED
    BY <1>2, <2>1, <2>2, <2>3 DEF IsKey, loaded
<1> QED
  BY <1>1, <1>2

\* A sum, within a bound.
LEMMA SumElement ==
  ASSUME NEW x, NEW y, NEW S, NEW T, NEW B \in Nat, NEW C \in Nat, NEW D \in Nat,
         B + C <= D, D <= 32767, IsElement(x, S, B), IsElement(y, T, C), Apart(S, T)
  PROVE  IsElement(Add(x, y), S \cup T, D)
<1>1. IsElement(Add(x, y), S \cup T, B + C)
  BY AddElement
<1> QED
  BY <1>1 DEF IsElement, AtMost

\* A wider bound.
LEMMA WiderElement ==
  ASSUME NEW x, NEW S, NEW B \in Nat, NEW C \in Nat, B <= C, IsElement(x, S, B)
  PROVE  IsElement(x, S, C)
BY DEF IsElement, AtMost

\* What is decompressed from what was compressed.
LEMMA RoundedElement ==
  ASSUME NEW x, NEW S, NEW part, NEW m, NEW r, IsElement(x, S, 5000),
         Apart(S, Single(Rounding(part, m, r)))
  PROVE  IsElement(Rounded(x, part, m, r), S \cup Single(Rounding(part, m, r)), 3328)
<1> DEFINE y == Atom(Rounding(part, m, r), 0)
           T == Single(Rounding(part, m, r))
<1>1. IsElement(y, T, 0)
  BY AtomElement
<1>2. Rounded(x, part, m, r) = Canonical(Add(x, y))
  BY DEF Rounded, Canonical, Rounding
<1> HIDE DEF y, T
<1>3. IsElement(Add(x, y), S \cup T, 5000)
  <2>1. Apart(S, T)
    BY DEF T
  <2>2. PICK B \in Nat, C \in Nat : B = 5000 /\ C = 0
    OBVIOUS
  <2>3. B + C <= B /\ B <= 32767 /\ IsElement(x, S, B) /\ IsElement(y, T, C)
    BY <1>1, <2>2
  <2>4. IsElement(Add(x, y), S \cup T, B)
    BY <2>1, <2>3, SumElement
  <2> QED
    BY <2>2, <2>4
<1>4. IsElement(Canonical(Add(x, y)), S \cup T, 3328)
  BY <1>3, CanonicalElement
<1> QED
  BY <1>2, <1>4 DEF T

Elements(xs, sets, B) == \A j \in Indices : IsElement(xs[j], sets[j], B)
\* The transforms of the ephemeral noise, and monomials without it.
IsEphemeral(y_hat, r) == \A j \in Indices : y_hat[j] = Ntt(Noise(r, j, p.eta1))
WithoutEphemeral(sets, r) ==
  \A i \in Indices, j \in Indices : \A s \in sets[j] : Ephemeral(r, i) \notin s

\* The products of a row of keys or of the matrix with the ephemeral noise.
LEMMA EphemeralDot ==
  ASSUME p \in ParameterSets, NEW r, NEW xs, NEW sets, NEW y_hat,
         Elements(xs, sets, 3384), IsEphemeral(y_hat, r), WithoutEphemeral(sets, r)
  PROVE  IsElement(NttInverse(AccumulatedDot(xs, y_hat)),
                   UNION {Extended(sets[j], Ephemeral(r, j)) : j \in Indices}, 3328)
<1> DEFINE a == [j \in Indices |-> Ephemeral(r, j)]
           S == Dotted(sets, a)
<1>1. Fresh(a, sets)
  <2>1. ASSUME NEW l \in Indices, NEW j \in Indices, a[l] = a[j] PROVE l = j
    <3>1. Ephemeral(r, l) = Ephemeral(r, j)
      BY <2>1
    <3> QED
      BY <3>1, AtomsDiffer DEF Ephemeral
  <2>2. ASSUME NEW i \in Indices, NEW j \in Indices, NEW s \in sets[j] PROVE a[i] \notin s
    BY DEF WithoutEphemeral
  <2> QED
    BY <2>1, <2>2 DEF Fresh
<1>2. ASSUME NEW j \in Indices
      PROVE  IsElement(xs[j], sets[j], 3384) /\ IsElement(y_hat[j], Single(a[j]), 1664)
  <2>1. IsElement(y_hat[j], Single(NoiseAtom(r, j, p.eta1)), 1664)
    BY NoiseElement DEF IsEphemeral
  <2> QED
    BY <2>1 DEF Ephemeral, Elements
<1>3. BoundsFit(3384, 1664)
  BY DEF BoundsFit
<1>4. IsElement(NttInverse(AccumulatedDot(xs, y_hat)), S, 3328)
  <2> HIDE DEF a
  <2>1. Operands(xs, y_hat, sets, a, 3384, 1664)
    BY <1>2 DEF Operands
  <2>2. PICK B \in Nat, C \in Nat : B = 3384 /\ C = 1664
    OBVIOUS
  <2>3. Operands(xs, y_hat, sets, a, B, C) /\ BoundsFit(B, C)
    BY <1>3, <2>1, <2>2
  <2>4. IsDot(AccumulatedDot(xs, y_hat), Dotted(sets, a))
    BY <1>1, <2>3, DotElement
  <2> QED
    BY <2>4 DEF IsDot
<1>5. S = UNION {Extended(sets[j], Ephemeral(r, j)) : j \in Indices}
  BY DEF Dotted
<1> HIDE DEF S
<1> QED
  BY <1>4, <1>5

\* A component of u, as the receiver reads it.
LEMMA UComponent ==
  ASSUME p \in ParameterSets, NEW d \in KeySeeds, NEW r \in Coins, NEW m, NEW i \in Indices,
         NEW row, \A j \in Indices : row[j] = MatrixEntry(d, j, i),
         NEW y_hat, IsEphemeral(y_hat, r),
         NEW e1, e1 = Noise(r, p.k + i, p.eta2)
  PROVE  IsElement(Rounded(Add(NttInverse(AccumulatedDot(row, y_hat)), e1), i, m, r),
                   USets(d, i, m, r), 3328)
<1> DEFINE sets == [j \in Indices |-> Single(Entry(d, j, i))]
           S == UNION {Extended(sets[j], Ephemeral(r, j)) : j \in Indices}
           T == Single(Error1(r, i))
           R == Single(Rounding(i, m, r))
           x == NttInverse(AccumulatedDot(row, y_hat))
<1>1. ASSUME NEW j \in Indices PROVE IsElement(row[j], sets[j], 3384)
  <2>1. IsElement(row[j], Single(Entry(d, j, i)), 3328)
    BY EntryElement
  <2> QED
    BY <2>1 DEF IsElement, AtMost
<1>2. ASSUME NEW l \in Indices, NEW j \in Indices, NEW s \in sets[j] PROVE Ephemeral(r, l) \notin s
  <2>1. s = {Entry(d, j, i)}
    BY DEF Single
  <2>2. Entry(d, j, i) # Ephemeral(r, l)
    BY AtomsDiffer DEF Ephemeral
  <2> QED
    BY <2>1, <2>2
<1>3. IsElement(x, S, 3328)
  <2> HIDE DEF sets
  <2>1. Elements(row, sets, 3384)
    BY <1>1 DEF Elements
  <2>2. WithoutEphemeral(sets, r)
    BY <1>2 DEF WithoutEphemeral
  <2> QED
    BY <2>1, <2>2, EphemeralDot
<1>4. S = {{Entry(d, j, i), Ephemeral(r, j)} : j \in Indices}
  <2>1. ASSUME NEW j \in Indices
        PROVE  Extended(sets[j], Ephemeral(r, j)) = {{Entry(d, j, i), Ephemeral(r, j)}}
    BY DEF Extended, Single
  <2> HIDE DEF sets
  <2> QED
    BY <2>1
<1>5. IsElement(e1, T, 3)
  BY NoiseElement DEF Error1
<1>6. Apart(S, T)
  <2> SUFFICES ASSUME NEW j \in Indices, {Entry(d, j, i), Ephemeral(r, j)} = {Error1(r, i)} PROVE FALSE
    BY <1>4 DEF Single, Apart
  <2>1. Entry(d, j, i) # Error1(r, i)
    BY AtomsDiffer DEF Error1
  <2> QED
    BY <2>1
<1>7. Apart(S \cup T, R)
  <2>1. ASSUME NEW j \in Indices, {Entry(d, j, i), Ephemeral(r, j)} = {Rounding(i, m, r)} PROVE FALSE
    <3>1. Entry(d, j, i) # Rounding(i, m, r)
      BY AtomsDiffer
    <3> QED
      BY <2>1, <3>1
  <2>2. ASSUME {Error1(r, i)} = {Rounding(i, m, r)} PROVE FALSE
    <3>1. Error1(r, i) # Rounding(i, m, r)
      BY AtomsDiffer DEF Error1
    <3> QED
      BY <2>2, <3>1
  <2> QED
    BY <1>4, <2>1, <2>2 DEF Single, Apart
<1>8. S \cup T \cup R = USets(d, i, m, r)
  BY <1>4 DEF USets, Single
<1> HIDE DEF S, T, x
<1>9. IsElement(Add(x, e1), S \cup T, 5000)
  <2>1. PICK B \in Nat, C \in Nat, D \in Nat : B = 3328 /\ C = 3 /\ D = 5000
    OBVIOUS
  <2>2. B + C <= D /\ D <= 32767 /\ IsElement(x, S, B) /\ IsElement(e1, T, C)
    BY <1>3, <1>5, <2>1
  <2>3. IsElement(Add(x, e1), S \cup T, D)
    BY <1>6, <2>2, SumElement
  <2> QED
    BY <2>1, <2>3
<1> DEFINE ST == S \cup T
           Z == ST \cup Single(Rounding(i, m, r))
<1>10. Z = USets(d, i, m, r)
  BY <1>8
<1> HIDE DEF ST
<1>11. IsElement(Rounded(Add(x, e1), i, m, r), Z, 3328)
  <2>1. IsElement(Add(x, e1), ST, 5000) /\ Apart(ST, Single(Rounding(i, m, r)))
    BY <1>7, <1>9 DEF ST
  <2> QED
    BY <2>1, RoundedElement
<1> HIDE DEF Z
<1>12. IsElement(Rounded(Add(x, e1), i, m, r), USets(d, i, m, r), 3328)
  BY <1>10, <1>11
<1> QED
  BY <1>12 DEF x

\* What one place of v has that another has not.
LEMMA VApart ==
  ASSUME p \in ParameterSets, NEW d \in KeySeeds, NEW r \in Coins, NEW m
  PROVE  /\ Apart(VProducts(d, r), Single(Error2(r)))
         /\ Apart(VProducts(d, r) \cup Single(Error2(r)), Single(Mu(m)))
         /\ Apart(VProducts(d, r) \cup Single(Error2(r)) \cup Single(Mu(m)),
                  Single(Rounding(p.k, m, r)))
<1> DEFINE S == VProducts(d, r)
<1>1. ASSUME NEW s \in S PROVE \E i \in Indices : Ephemeral(r, i) \in s
  BY DEF Extended, VProducts
<1> HIDE DEF S
<1>2. ASSUME NEW i \in Indices
      PROVE  /\ Ephemeral(r, i) # Error2(r)
             /\ Ephemeral(r, i) # Mu(m)
             /\ Ephemeral(r, i) # Rounding(p.k, m, r)
  <2>1. i # 2 * p.k
    BY Ranks DEF Indices
  <2> QED
    BY <2>1, AtomsDiffer DEF Ephemeral, Error2
<1>3. Apart(S, Single(Error2(r)))
  BY <1>1, <1>2 DEF Apart, Single
<1>4. Error2(r) # Mu(m) /\ Error2(r) # Rounding(p.k, m, r) /\ Mu(m) # Rounding(p.k, m, r)
  BY AtomsDiffer DEF Error2
<1>5. Apart(S \cup Single(Error2(r)), Single(Mu(m)))
  BY <1>1, <1>2, <1>4 DEF Apart, Single
<1>6. Apart(S \cup Single(Error2(r)) \cup Single(Mu(m)), Single(Rounding(p.k, m, r)))
  BY <1>1, <1>2, <1>4 DEF Apart, Single
<1> QED
  BY <1>3, <1>5, <1>6 DEF S

\* v, as the receiver reads it.
LEMMA VComponent ==
  ASSUME p \in ParameterSets, NEW d \in KeySeeds, NEW r \in Coins, NEW m,
         NEW t_hat, \A j \in Indices : IsElement(t_hat[j], KeySets(d, j), 3384),
         NEW y_hat, IsEphemeral(y_hat, r),
         NEW e2, e2 = Noise(r, 2 * p.k, p.eta2),
         NEW mu, mu = Atom(Mu(m), 1665)
  PROVE  IsElement(Rounded(Add(Add(NttInverse(AccumulatedDot(t_hat, y_hat)), e2), mu), p.k, m, r),
                   VSets(d, m, r), 3328)
<1> DEFINE sets == [j \in Indices |-> KeySets(d, j)]
           S == VProducts(d, r)
           E == Single(Error2(r))
           M == Single(Mu(m))
           R == Single(Rounding(p.k, m, r))
           x == NttInverse(AccumulatedDot(t_hat, y_hat))
<1>1. IsElement(x, S, 3328)
  <2>1. Elements(t_hat, sets, 3384)
    BY DEF Elements
  <2>2. WithoutEphemeral(sets, r)
    BY FreshAtoms DEF WithoutEphemeral
  <2>3. S = UNION {Extended(sets[j], Ephemeral(r, j)) : j \in Indices}
    BY DEF VProducts
  <2> HIDE DEF sets, S
  <2> QED
    BY <2>1, <2>2, <2>3, EphemeralDot
<1>2. IsElement(e2, E, 3)
  BY NoiseElement DEF Error2
<1>3. IsElement(mu, M, 1665)
  BY AtomElement
<1>4. Apart(S, E) /\ Apart(S \cup E, M) /\ Apart(S \cup E \cup M, R)
  BY VApart
<1>5. S \cup E \cup M \cup R = VSets(d, m, r)
  BY DEF VSets, Single
<1> HIDE DEF S, E, M, R, x
<1>6. PICK B \in Nat, C \in Nat, D \in Nat, F \in Nat, G \in Nat :
        B = 3328 /\ C = 3 /\ D = 3331 /\ F = 1665 /\ G = 5000
  OBVIOUS
<1>7. IsElement(Add(x, e2), S \cup E, D)
  <2>1. B + C <= D /\ D <= 32767 /\ IsElement(x, S, B) /\ IsElement(e2, E, C)
    BY <1>1, <1>2, <1>6
  <2> QED
    BY <1>4, <2>1, SumElement
<1>8. IsElement(Add(Add(x, e2), mu), S \cup E \cup M, G)
  <2>1. D + F <= G /\ G <= 32767 /\ IsElement(mu, M, F)
    BY <1>3, <1>6
  <2> QED
    BY <1>4, <1>7, <2>1, SumElement
<1> DEFINE y == Add(Add(x, e2), mu)
           U == S \cup E \cup M
<1>9. IsElement(y, U, 5000) /\ Apart(U, Single(Rounding(p.k, m, r)))
  BY <1>4, <1>6, <1>8 DEF R
<1> DEFINE Z == U \cup Single(Rounding(p.k, m, r))
<1>10. Z = VSets(d, m, r)
  BY <1>5 DEF R
<1> HIDE DEF y, U
<1>11. IsElement(Rounded(y, p.k, m, r), Z, 3328)
  BY <1>9, RoundedElement
<1> HIDE DEF Z
<1>12. IsElement(Rounded(y, p.k, m, r), VSets(d, m, r), 3328)
  BY <1>10, <1>11
<1> QED
  BY <1>12 DEF y, x

\* A ciphertext's bytes hold u and v, with what FIPS 203 puts in them.
Carries(bytes, u, v, d, m, r) ==
  /\ bytes = Vector(u, p.du) \o Units(v, p.dv)
  /\ \A j \in Indices : IsElement(u[j], USets(d, j, m, r), 3328)
  /\ IsElement(v, VSets(d, m, r), 3328)
IsCiphertext(bytes, d, m, r) == \E u, v : Carries(bytes, u, v, d, m, r)

\* encrypt makes such a ciphertext of the key it is given.
LEMMA EncryptedHolds ==
  ASSUME p \in ParameterSets, NEW key, IsKey(key), NEW m, NEW r \in Coins
  PROVE  IsCiphertext(Encrypted(key, m, r), key.rho, m, r)
<1> DEFINE d == key.rho
           y_hat == [j \in Indices |-> Ntt(Noise(r, j, p.eta1))]
           e1 == NoiseVector(r, ErrorStream, p.eta2)
           e2 == Noise(r, 2 * p.k, p.eta2)
           mu == Atom(<<"mu", m>>, (Q + 1) \div 2)
           u == [i \in Indices |-> Add(NttInverse(AccumulatedDot(key.a_hat_transpose[i], y_hat)), e1[i])]
           v == Add(Add(NttInverse(AccumulatedDot(key.t_hat, y_hat)), e2), mu)
           sent == [j \in Indices |-> Rounded(u[j], j, m, r)]
           last == Rounded(v, p.k, m, r)
<1>1. Encrypted(key, m, r) = Vector(sent, p.du) \o Units(last, p.dv)
  BY DEF Encrypted
<1>2. /\ d \in KeySeeds
      /\ \A j \in Indices : IsElement(key.t_hat[j], KeySets(d, j), 3384)
      /\ \A i \in Indices, j \in Indices : key.a_hat_transpose[i][j] = MatrixEntry(d, j, i)
  BY DEF IsKey
<1> HIDE DEF d
<1>3. IsEphemeral(y_hat, r)
  BY DEF IsEphemeral
<1>4. ASSUME NEW i \in Indices PROVE e1[i] = Noise(r, p.k + i, p.eta2)
  BY DEF NoiseVector, ErrorStream
<1>5. mu = Atom(Mu(m), 1665)
  <2>1. (Q + 1) \div 2 = 1665
    BY DEF Q
  <2> QED
    BY <2>1 DEF Mu
<1> HIDE DEF y_hat, e1, mu
<1>6. ASSUME NEW i \in Indices PROVE IsElement(sent[i], USets(d, i, m, r), 3328)
  <2> DEFINE row == key.a_hat_transpose[i]
             e == e1[i]
  <2>1. (\A j \in Indices : row[j] = MatrixEntry(d, j, i)) /\ e = Noise(r, p.k + i, p.eta2)
    BY <1>2, <1>4
  <2>2. sent[i] = Rounded(Add(NttInverse(AccumulatedDot(row, y_hat)), e), i, m, r)
    OBVIOUS
  <2> HIDE DEF row, e, sent
  <2>3. IsElement(Rounded(Add(NttInverse(AccumulatedDot(row, y_hat)), e), i, m, r),
                  USets(d, i, m, r), 3328)
    BY <1>2, <1>3, <2>1, UComponent
  <2> QED
    BY <2>2, <2>3
<1>7. IsElement(last, VSets(d, m, r), 3328)
  <2> DEFINE t_hat == key.t_hat
  <2>1. \A j \in Indices : IsElement(t_hat[j], KeySets(d, j), 3384)
    BY <1>2
  <2> HIDE DEF t_hat
  <2>2. IsElement(Rounded(Add(Add(NttInverse(AccumulatedDot(t_hat, y_hat)), e2), mu), p.k, m, r),
                  VSets(d, m, r), 3328)
    BY <1>2, <1>3, <1>5, <2>1, VComponent
  <2> QED
    BY <2>2 DEF t_hat
<1> HIDE DEF sent, last
<1>8. Carries(Encrypted(key, m, r), sent, last, d, m, r)
  BY <1>1, <1>6, <1>7 DEF Carries
<1> QED
  BY <1>8 DEF IsCiphertext, d

\* The operands of everything behind a ciphertext fit.
LEMMA CiphertextFits ==
  ASSUME p \in ParameterSets, NEW d, NEW m, NEW r, NEW bytes, IsCiphertext(bytes, d, m, r)
  PROVE  \A n \in DOMAIN bytes : bytes[n][1].fits = TRUE
<1>1. PICK u, v : Carries(bytes, u, v, d, m, r)
  BY DEF IsCiphertext
<1>2. \A n \in DOMAIN bytes : bytes[n][1] = v \/ \E j \in Indices : bytes[n][1] = u[j]
  BY <1>1, CiphertextReadBack DEF Carries
<1>3. v.fits = TRUE
  BY <1>1 DEF Carries, IsElement
<1>4. ASSUME NEW j \in Indices PROVE u[j].fits = TRUE
  <2>1. IsElement(u[j], USets(d, j, m, r), 3328)
    BY <1>1 DEF Carries
  <2> QED
    BY <2>1 DEF IsElement
<1> QED
  BY <1>2, <1>3, <1>4

\* What decryption with the secret of by computes of a ciphertext for d.
DecryptedPoly(d, by, m, r) ==
  LET V == VSets(d, m, r)
      T == TakenSets(d, by, m, r)
  IN [x \in {Monomial(s) : s \in (V \ T) \cup (T \ V)} |-> IF x.atoms \in V THEN 1 ELSE -1]

\* Decryption computes that, and its operands fit.
LEMMA DecryptedHolds ==
  ASSUME p \in ParameterSets, NEW d \in KeySeeds, NEW by \in KeySeeds, NEW m, NEW r \in Coins,
         NEW s_hat, IsSecret(s_hat, by), NEW bytes, IsCiphertext(bytes, d, m, r)
  PROVE  /\ Decrypted(s_hat, bytes).f = DecryptedPoly(d, by, m, r)
         /\ Decrypted(s_hat, bytes).fits = TRUE
<1>1. PICK u, v : Carries(bytes, u, v, d, m, r)
  BY DEF IsCiphertext
<1>2. /\ \A j \in Indices : Unpacked(bytes, p.du * j, p.du) = u[j]
      /\ Unpacked(bytes, p.du * p.k, p.dv) = v
      /\ \A n \in DOMAIN bytes : bytes[n][1] = v \/ \E j \in Indices : bytes[n][1] = u[j]
  BY <1>1, CiphertextReadBack DEF Carries
<1> DEFINE read == [j \in Indices |-> Unpacked(bytes, p.du * j, p.du)]
           u_hat == [j \in Indices |-> Ntt(read[j])]
           sets == [j \in Indices |-> USets(d, j, m, r)]
           a == [j \in Indices |-> Secret(by, j)]
           x == NttInverse(AccumulatedDot(u_hat, s_hat))
           V == VSets(d, m, r)
           T == TakenSets(d, by, m, r)
<1>3. ASSUME NEW j \in Indices PROVE IsElement(u_hat[j], sets[j], 1664)
  <2>1. IsElement(u[j], USets(d, j, m, r), 3328)
    BY <1>1 DEF Carries
  <2>2. IsElement(Ntt(u[j]), USets(d, j, m, r), 1664)
    BY <2>1, NttElement
  <2>3. u_hat[j] = Ntt(u[j])
    BY <1>2
  <2> HIDE DEF u_hat
  <2> QED
    BY <2>2, <2>3
<1>4. IsElement(x, Dotted(sets, a), 3328)
  <2>1. ASSUME NEW j \in Indices PROVE IsElement(s_hat[j], Single(a[j]), 3328)
    BY DEF IsSecret
  <2>2. Fresh(a, sets)
    <3>1. ASSUME NEW i \in Indices, NEW j \in Indices, NEW s \in sets[j] PROVE a[i] \notin s
      BY FreshAtoms
    <3>2. ASSUME NEW i \in Indices, NEW j \in Indices, a[i] = a[j] PROVE i = j
      <4>1. Secret(by, i) = Secret(by, j)
        BY <3>2
      <4> QED
        BY <4>1, AtomsDiffer DEF Secret
    <3> QED
      BY <3>1, <3>2 DEF Fresh
  <2> HIDE DEF sets, a, u_hat
  <2>3. PICK B \in Nat, C \in Nat : B = 1664 /\ C = 3328
    OBVIOUS
  <2>4. Operands(u_hat, s_hat, sets, a, B, C)
    BY <1>3, <2>1, <2>3 DEF Operands
  <2>5. BoundsFit(B, C)
    BY <2>3 DEF BoundsFit
  <2>6. IsDot(AccumulatedDot(u_hat, s_hat), Dotted(sets, a))
    BY <2>2, <2>4, <2>5, DotElement
  <2> QED
    BY <2>6 DEF IsDot
<1>5. Dotted(sets, a) = T
  BY DEF Dotted, TakenSets
<1>6. IsElement(v, V, 3328)
  BY <1>1 DEF Carries
<1>7. Decrypted(s_hat, bytes) = Sub(v, x)
  BY <1>2 DEF Decrypted
<1> HIDE DEF x, V, T, sets, a
<1>8. v.f = OncePoly(V, 0) /\ x.f = OncePoly(T, 0)
  BY <1>4, <1>5, <1>6 DEF IsElement
<1>9. /\ Sub(v, x).f = Plus(v.f, Minus(x.f))
      /\ Sub(v, x).fits = (v.fits /\ x.fits /\ v.b + x.b <= 32767)
  BY DEF Sub
<1>10. Sub(v, x).f = DecryptedPoly(d, by, m, r)
  <2>1. Plus(OncePoly(V, 0), Minus(OncePoly(T, 0)))
          = [y \in {Monomial(s) : s \in (V \ T) \cup (T \ V)} |-> IF y.atoms \in V THEN 1 ELSE -1]
    BY Difference
  <2> QED
    BY <1>8, <1>9, <2>1 DEF DecryptedPoly, V, T
<1>11. Sub(v, x).fits = TRUE
  <2> DEFINE ok == v.fits /\ x.fits /\ v.b + x.b <= 32767
  <2>1. v.fits = TRUE /\ x.fits = TRUE /\ AtMost(v.b, 3328) /\ AtMost(x.b, 3328)
    BY <1>4, <1>6 DEF IsElement
  <2>2. v.b + x.b <= 32767
    BY <2>1 DEF AtMost
  <2>3. ok \in BOOLEAN
    OBVIOUS
  <2>4. ok
    BY <2>1, <2>2
  <2>5. Sub(v, x).fits = ok
    BY <1>9
  <2> HIDE DEF ok
  <2> QED
    BY <2>3, <2>4, <2>5
<1> QED
  BY <1>7, <1>10, <1>11

(***************************************************************************)
(* What is left of a ciphertext when it is decrypted.                      *)
(***************************************************************************)
\* The products of the matrix with the secret and the ephemeral noise.
Triples(d, by, r) ==
  UNION {{{Entry(d, i, j), Secret(by, j), Ephemeral(r, i)} : j \in Indices} : i \in Indices}
\* What only v has, and what only the product of u with the secret has.
AddedSets(d, m, r) ==
  {{Error(d, j), Ephemeral(r, j)} : j \in Indices}
    \cup {{Error2(r)}} \cup {{Mu(m)}} \cup {{Rounding(p.k, m, r)}}
OnlyTaken(by, m, r) ==
  {{Secret(by, j), Error1(r, j)} : j \in Indices} \cup {{Secret(by, j), Rounding(j, m, r)} : j \in Indices}

\* Adding an atom to monomials of two kinds, and to one.
LEMMA ExtendedUnion ==
  ASSUME NEW S, NEW T, NEW U, NEW a, U = S \cup T
  PROVE  Extended(U, a) = Extended(S, a) \cup Extended(T, a)
BY DEF Extended
\* Adding an atom to one atom.
LEMMA ExtendedSingle ==
  ASSUME NEW a, NEW b
  PROVE  Extended(Single(b), a) = {{b, a}}
<1>1. {b} \cup {a} = {b, a}
  OBVIOUS
<1> QED
  BY <1>1 DEF Extended, Single

\* The monomials of v.
LEMMA VSetsSplit ==
  ASSUME NEW d, NEW m, NEW r
  PROVE  VSets(d, m, r) = Triples(d, d, r) \cup AddedSets(d, m, r)
<1>1. ASSUME NEW i \in Indices
      PROVE  Extended(KeySets(d, i), Ephemeral(r, i))
               = {{Entry(d, i, j), Secret(d, j), Ephemeral(r, i)} : j \in Indices}
                   \cup {{Error(d, i), Ephemeral(r, i)}}
  <2> DEFINE P == {{Entry(d, i, j), Secret(d, j)} : j \in Indices}
  <2>1. ASSUME NEW j \in Indices
        PROVE  {Entry(d, i, j), Secret(d, j)} \cup {Ephemeral(r, i)}
                 = {Entry(d, i, j), Secret(d, j), Ephemeral(r, i)}
    OBVIOUS
  <2>2. Extended(P, Ephemeral(r, i)) = {{Entry(d, i, j), Secret(d, j), Ephemeral(r, i)} : j \in Indices}
    <3>1. Extended(P, Ephemeral(r, i))
            = {{Entry(d, i, j), Secret(d, j)} \cup {Ephemeral(r, i)} : j \in Indices}
      BY DEF Extended
    <3> HIDE DEF P
    <3> QED
      BY <2>1, <3>1
  <2>3. KeySets(d, i) = P \cup Single(Error(d, i))
    BY DEF KeySets, Single
  <2> HIDE DEF P
  <2>4. Extended(KeySets(d, i), Ephemeral(r, i))
          = Extended(P, Ephemeral(r, i)) \cup Extended(Single(Error(d, i)), Ephemeral(r, i))
    BY <2>3, ExtendedUnion
  <2> QED
    BY <2>2, <2>4, ExtendedSingle
<1>2. VProducts(d, r) = Triples(d, d, r) \cup {{Error(d, j), Ephemeral(r, j)} : j \in Indices}
  BY <1>1 DEF VProducts, Triples
<1> QED
  BY <1>2 DEF VSets, AddedSets

\* Those of the product of u with a secret.
LEMMA TakenSetsSplit ==
  ASSUME NEW d, NEW by, NEW m, NEW r
  PROVE  TakenSets(d, by, m, r) = Triples(d, by, r) \cup OnlyTaken(by, m, r)
<1>1. ASSUME NEW i \in Indices
      PROVE  Extended(USets(d, i, m, r), Secret(by, i))
               = {{Entry(d, j, i), Secret(by, i), Ephemeral(r, j)} : j \in Indices}
                   \cup {{Secret(by, i), Error1(r, i)}} \cup {{Secret(by, i), Rounding(i, m, r)}}
  <2> DEFINE P == {{Entry(d, j, i), Ephemeral(r, j)} : j \in Indices}
             a == Secret(by, i)
             W == P \cup Single(Error1(r, i))
  <2>1. ASSUME NEW j \in Indices
        PROVE  {Entry(d, j, i), Ephemeral(r, j)} \cup {a} = {Entry(d, j, i), a, Ephemeral(r, j)}
    OBVIOUS
  <2>2. Extended(P, a) = {{Entry(d, j, i), a, Ephemeral(r, j)} : j \in Indices}
    <3>1. Extended(P, a) = {{Entry(d, j, i), Ephemeral(r, j)} \cup {a} : j \in Indices}
      BY DEF Extended
    <3> HIDE DEF P
    <3> QED
      BY <2>1, <3>1
  <2>3. USets(d, i, m, r) = W \cup Single(Rounding(i, m, r))
    BY DEF USets, Single
  <2>4. /\ Extended(Single(Error1(r, i)), a) = {{Error1(r, i), a}}
        /\ Extended(Single(Rounding(i, m, r)), a) = {{Rounding(i, m, r), a}}
    BY ExtendedSingle
  <2> HIDE DEF P, a
  <2>5. Extended(W, a) = Extended(P, a) \cup Extended(Single(Error1(r, i)), a)
    BY ExtendedUnion
  <2> HIDE DEF W
  <2>6. Extended(USets(d, i, m, r), a)
          = Extended(W, a) \cup Extended(Single(Rounding(i, m, r)), a)
    BY <2>3, ExtendedUnion
  <2>7. {Error1(r, i), a} = {a, Error1(r, i)} /\ {Rounding(i, m, r), a} = {a, Rounding(i, m, r)}
    OBVIOUS
  <2> QED
    BY <2>2, <2>4, <2>5, <2>6, <2>7 DEF a
<1>2. Triples(d, by, r)
        = UNION {{{Entry(d, j, i), Secret(by, i), Ephemeral(r, j)} : j \in Indices} : i \in Indices}
  BY DEF Triples
<1> QED
  BY <1>1, <1>2 DEF TakenSets, OnlyTaken

\* Which noise is in which monomial.
LEMMA Markers ==
  ASSUME p \in ParameterSets, NEW d \in KeySeeds, NEW m, NEW r \in Coins, NEW i \in Indices
  PROVE  /\ \A s \in AddedSets(d, m, r) : Secret(d, i) \notin s
         /\ \A s \in OnlyTaken(d, m, r) : Ephemeral(r, i) \notin s
<1>1. d # r
  BY PkeAssumption
<1>2. ASSUME NEW j \in Indices PROVE i # p.k + j /\ i # 2 * p.k
  BY Ranks DEF Indices
<1>3. ASSUME NEW s \in AddedSets(d, m, r) PROVE Secret(d, i) \notin s
  <2>1. CASE \E j \in Indices : s = {Error(d, j), Ephemeral(r, j)}
    <3>1. PICK j \in Indices : s = {Error(d, j), Ephemeral(r, j)}
      BY <2>1
    <3>2. Secret(d, i) # Error(d, j) /\ Secret(d, i) # Ephemeral(r, j)
      BY <1>1, <1>2, AtomsDiffer DEF Secret, Error, Ephemeral
    <3> QED
      BY <3>1, <3>2
  <2>2. Secret(d, i) # Error2(r) /\ Secret(d, i) # Mu(m) /\ Secret(d, i) # Rounding(p.k, m, r)
    BY <1>1, AtomsDiffer DEF Secret, Error2
  <2> QED
    BY <2>1, <2>2 DEF AddedSets
<1>4. ASSUME NEW s \in OnlyTaken(d, m, r) PROVE Ephemeral(r, i) \notin s
  <2>1. PICK j \in Indices : s = {Secret(d, j), Error1(r, j)} \/ s = {Secret(d, j), Rounding(j, m, r)}
    BY DEF OnlyTaken
  <2>2. Ephemeral(r, i) # Secret(d, j) /\ Ephemeral(r, i) # Rounding(j, m, r)
    BY <1>1, AtomsDiffer DEF Secret, Ephemeral
  <2>3. Ephemeral(r, i) # Error1(r, j)
    BY <1>2, AtomsDiffer DEF Error1, Ephemeral
  <2> QED
    BY <2>1, <2>2, <2>3
<1> QED
  BY <1>3, <1>4

\* With the ciphertext's own key the products of the matrix cancel.
LEMMA OwnKeyCancels ==
  ASSUME p \in ParameterSets, NEW d \in KeySeeds, NEW m, NEW r \in Coins
  PROVE  DecryptedPoly(d, d, m, r) = ExpectedNoise(d, m, r)
<1> DEFINE V == VSets(d, m, r)
           T == TakenSets(d, d, m, r)
           A == AddedSets(d, m, r)
           O == OnlyTaken(d, m, r)
           Both == Triples(d, d, r)
           mono(X) == {Monomial(s) : s \in X}
<1>1. V = Both \cup A /\ T = Both \cup O
  BY VSetsSplit, TakenSetsSplit
<1>2. ASSUME NEW s \in T PROVE \E i \in Indices : Secret(d, i) \in s
  BY <1>1 DEF Triples, OnlyTaken
<1>3. A \cap T = {}
  BY <1>2, Markers
<1>4. O \cap V = {}
  <2>1. ASSUME NEW s \in Both PROVE \E i \in Indices : Ephemeral(r, i) \in s
    BY DEF Triples
  <2>2. O \cap Both = {}
    BY <2>1, Markers
  <2> QED
    BY <1>1, <1>3, <2>2
<1>5. (V \ T) \cup (T \ V) = A \cup O
  BY <1>1, <1>3, <1>4
<1>6. DecryptedPoly(d, d, m, r)
        = [x \in mono((V \ T) \cup (T \ V)) |-> IF x.atoms \in V THEN 1 ELSE -1]
  BY DEF DecryptedPoly
<1>7. ExpectedNoise(d, m, r) = [x \in mono(A) \cup mono(O) |-> IF x \in mono(A) THEN 1 ELSE -1]
  <2> DEFINE noise(seed, n, eta) == <<"noise", seed, n, eta>>
             round(part) == <<"round", part, m, r>>
             added == {Monomial({<<"mu", m>>}), Monomial({noise(r, 2 * p.k, p.eta2)}), Monomial({round(p.k)})}
               \cup {Monomial({noise(d, p.k + j, p.eta1), noise(r, j, p.eta1)}) : j \in Indices}
             taken == {Monomial({noise(d, j, p.eta1), noise(r, p.k + j, p.eta2)}) : j \in Indices}
               \cup {Monomial({noise(d, j, p.eta1), round(j)}) : j \in Indices}
  <2>1. ExpectedNoise(d, m, r) = [x \in added \cup taken |-> IF x \in added THEN 1 ELSE -1]
    BY DEF ExpectedNoise
  <2>2. added = mono(A)
    BY DEF AddedSets, Error, Ephemeral, Error2, Mu, Rounding, NoiseAtom
  <2>3. taken = mono(O)
    BY DEF OnlyTaken, Secret, Error1, Rounding, NoiseAtom
  <2> HIDE DEF added, taken, A, O, mono
  <2> QED
    BY <2>1, <2>2, <2>3
<1>8. mono(A) \cup mono(O) = mono(A \cup O)
  OBVIOUS
<1>9. ASSUME NEW x \in mono(A \cup O) PROVE x.atoms \in V <=> x \in mono(A)
  <2>1. PICK s \in A \cup O : x = Monomial(s)
    OBVIOUS
  <2>2. x.atoms = s
    BY <2>1 DEF Monomial
  <2>3. s \in V <=> s \in A
    <3> HIDE DEF V, T, A, O, Both
    <3> QED
      BY <1>1, <1>4
  <2>4. s \in A => x \in mono(A)
    BY <2>1
  <2>5. ASSUME x \in mono(A) PROVE s \in A
    <3>1. PICK t \in A : x = Monomial(t)
      BY <2>5
    <3>2. x.atoms = t
      BY <3>1 DEF Monomial
    <3> QED
      BY <2>2, <3>2
  <2> HIDE DEF V, A, mono
  <2> QED
    BY <2>2, <2>3, <2>4, <2>5
<1> HIDE DEF V, T, A, O, Both, mono
<1> QED
  BY <1>5, <1>6, <1>7, <1>8, <1>9

\* With another key an entry of the matrix stays.
LEMMA OtherKeyKeeps ==
  ASSUME p \in ParameterSets, NEW d \in KeySeeds, NEW by \in KeySeeds, by # d, NEW m, NEW r \in Coins
  PROVE  \E t \in DOMAIN DecryptedPoly(d, by, m, r) : \E a \in t.atoms : a[1] = "A"
<1> DEFINE V == VSets(d, m, r)
           T == TakenSets(d, by, m, r)
           s == {Entry(d, 0, 0), Secret(by, 0), Ephemeral(r, 0)}
<1>0. 0 \in Indices
  BY Ranks DEF Indices
<1>1. s \in T
  BY <1>0, TakenSetsSplit DEF Triples
<1>2. by # r /\ d # r
  BY PkeAssumption
<1>3. ASSUME NEW v \in V PROVE Secret(by, 0) \notin v
  <2>1. CASE v \in Triples(d, d, r)
    <3>1. PICK i \in Indices, j \in Indices : v = {Entry(d, i, j), Secret(d, j), Ephemeral(r, i)}
      BY <2>1 DEF Triples
    <3>2. /\ Secret(by, 0) # Entry(d, i, j)
          /\ Secret(by, 0) # Secret(d, j)
          /\ Secret(by, 0) # Ephemeral(r, i)
      BY <1>2, AtomsDiffer DEF Secret, Ephemeral
    <3> QED
      BY <3>1, <3>2
  <2>2. CASE v \in AddedSets(d, m, r)
    <3>1. CASE \E j \in Indices : v = {Error(d, j), Ephemeral(r, j)}
      <4>1. PICK j \in Indices : v = {Error(d, j), Ephemeral(r, j)}
        BY <3>1
      <4>2. Secret(by, 0) # Error(d, j) /\ Secret(by, 0) # Ephemeral(r, j)
        BY <1>2, AtomsDiffer DEF Secret, Error, Ephemeral
      <4> QED
        BY <4>1, <4>2
    <3>2. Secret(by, 0) # Error2(r) /\ Secret(by, 0) # Mu(m) /\ Secret(by, 0) # Rounding(p.k, m, r)
      BY <1>2, AtomsDiffer DEF Secret, Error2
    <3> QED
      BY <2>2, <3>1, <3>2 DEF AddedSets
  <2> QED
    BY <2>1, <2>2, VSetsSplit
<1>4. s \in T \ V
  BY <1>1, <1>3
<1>5. Monomial(s) \in DOMAIN DecryptedPoly(d, by, m, r)
  <2> HIDE DEF s
  <2> QED
    BY <1>4 DEF DecryptedPoly
<1>6. Monomial(s).atoms = s
  BY DEF Monomial
<1>7. Entry(d, 0, 0)[1] = "A"
  BY DEF Entry
<1>8. Entry(d, 0, 0) \in s
  OBVIOUS
<1> HIDE DEF s
<1> QED
  BY <1>5, <1>6, <1>7, <1>8

(***************************************************************************)
(* The noise streams.                                                      *)
(***************************************************************************)
KeyDraws(d) == Drawn(d, 0, p.k, p.eta1, "s") \cup Drawn(d, p.k, p.k, p.eta1, "e")
CoinDraws(r) ==
  Drawn(r, 0, p.k, p.eta1, "y") \cup Drawn(r, ErrorStream, p.k, p.eta2, "e1")
    \cup Drawn(r, 2 * p.k, 1, p.eta2, "e2")

\* What is drawn from which stream, in one list of streams.
LEMMA DrawsOfOneSeed ==
  ASSUME p \in ParameterSets, NEW seed, NEW x, NEW y, x.stream = y.stream
  PROVE  /\ x \in KeyDraws(seed) /\ y \in KeyDraws(seed) => x = y
         /\ x \in CoinDraws(seed) /\ y \in CoinDraws(seed) => x = y
<1> DEFINE k == p.k
<1>1. k \in {2, 3, 4}
  BY Ranks
<1> HIDE DEF k
<1> DEFINE draw(stream, eta, use, j) == [seed |-> seed, stream |-> stream, eta |-> eta, use |-> <<use, j>>]
           S == {draw(j, p.eta1, "s", j) : j \in 0 .. k - 1}
           E == {draw(k + j, p.eta1, "e", j) : j \in 0 .. k - 1}
           Y == {draw(j, p.eta1, "y", j) : j \in 0 .. k - 1}
           F == {draw(k + j, p.eta2, "e1", j) : j \in 0 .. k - 1}
           G == {draw(2 * k, p.eta2, "e2", 0)}
<1>2. KeyDraws(seed) = S \cup E
  <2>1. \A j \in 0 .. k - 1 : 0 + j = j
    BY <1>1
  <2> QED
    BY <2>1 DEF KeyDraws, Drawn, k
<1>3. CoinDraws(seed) = Y \cup F \cup G
  <2>1. \A j \in 0 .. k - 1 : 0 + j = j
    BY <1>1
  <2>2. Drawn(seed, 0, p.k, p.eta1, "y") = Y
    BY <2>1 DEF Drawn, k
  <2>3. Drawn(seed, ErrorStream, p.k, p.eta2, "e1") = F
    BY DEF Drawn, k, ErrorStream
  <2>4. Drawn(seed, 2 * p.k, 1, p.eta2, "e2") = G
    <3>1. 0 .. 1 - 1 = {0} /\ 2 * k + 0 = 2 * k
      BY <1>1
    <3> QED
      BY <3>1 DEF Drawn, k
  <2> HIDE DEF Y, F, G
  <2> QED
    BY <2>2, <2>3, <2>4 DEF CoinDraws
<1>4. ASSUME x \in S \cup E, y \in S \cup E PROVE x = y
  <2>1. /\ \A z \in S : z.stream \in 0 .. k - 1 /\ z = draw(z.stream, p.eta1, "s", z.stream)
        /\ \A z \in E : z.stream - k \in 0 .. k - 1 /\ z = draw(z.stream, p.eta1, "e", z.stream - k)
    BY <1>1
  <2>2. \A n : ~(n \in 0 .. k - 1 /\ n - k \in 0 .. k - 1)
    BY <1>1
  <2> HIDE DEF S, E, draw
  <2> QED
    BY <1>4, <2>1, <2>2
<1>5. ASSUME x \in Y \cup F \cup G, y \in Y \cup F \cup G PROVE x = y
  <2>1. /\ \A z \in Y : z.stream \in 0 .. k - 1 /\ z = draw(z.stream, p.eta1, "y", z.stream)
        /\ \A z \in F : z.stream - k \in 0 .. k - 1 /\ z = draw(z.stream, p.eta2, "e1", z.stream - k)
        /\ \A z \in G : z.stream = 2 * k /\ z = draw(2 * k, p.eta2, "e2", 0)
    BY <1>1
  <2>2. \A n : /\ ~(n \in 0 .. k - 1 /\ n - k \in 0 .. k - 1)
               /\ ~(n \in 0 .. k - 1 /\ n = 2 * k)
               /\ ~(n - k \in 0 .. k - 1 /\ n = 2 * k)
    BY <1>1
  <2> HIDE DEF Y, F, G, draw
  <2> QED
    BY <1>5, <2>1, <2>2
<1> QED
  BY <1>2, <1>3, <1>4, <1>5

(***************************************************************************)
(* The invariant.                                                          *)
(***************************************************************************)
SecretHolds == dk # None => owner \in KeySeeds /\ IsSecret(dk, owner)
KeysHold == (published # None => IsKey(published)) /\ (ek # None => IsKey(ek))
CiphertextHolds ==
  ct # None => ct.of \in KeySeeds /\ ct.r \in Coins /\ IsCiphertext(ct.bytes, ct.of, ct.m, ct.r)
PlaintextHolds ==
  w # None => /\ w.of \in KeySeeds /\ w.by \in KeySeeds /\ w.r \in Coins
              /\ w.value.f = DecryptedPoly(w.of, w.by, w.m, w.r)
              /\ w.value.fits = TRUE
DrawsOfKeys == UNION {KeyDraws(d) : d \in KeySeeds}
DrawsOfCoins == UNION {CoinDraws(r) : r \in Coins}
AllDraws == DrawsOfKeys \cup DrawsOfCoins
StreamsHold == drawn \subseteq AllDraws

PkeInv ==
  /\ p \in ParameterSets
  /\ SecretHolds /\ KeysHold /\ CiphertextHolds /\ PlaintextHolds /\ StreamsHold

\* The secret, when no step touches it.
LEMMA SecretStays ==
  ASSUME SecretHolds, UNCHANGED <<p, dk, owner>>
  PROVE  SecretHolds'
BY DEF SecretHolds, IsSecret, Indices, Secret

\* A key stays one.
LEMMA KeyStays ==
  ASSUME NEW key, p' = p, IsKey(key)
  PROVE  IsKey(key)'
<1>1. \A i, d : KeySets(d, i)' = KeySets(d, i)
  BY DEF KeySets, Secret, Error, Indices
<1>2. Indices' = Indices
  BY DEF Indices
<1> QED
  BY <1>1, <1>2 DEF IsKey

\* The keys, when no step touches them.
LEMMA KeysStay ==
  ASSUME KeysHold, UNCHANGED <<p, published, ek>>
  PROVE  KeysHold'
<1>1. \A i, d : KeySets(d, i)' = KeySets(d, i)
  BY DEF KeySets, Secret, Error, Indices
<1>2. Indices' = Indices
  BY DEF Indices
<1>3. ASSUME published # None PROVE IsKey(published)'
  <2>1. IsKey(published)
    BY <1>3 DEF KeysHold
  <2> QED
    BY <1>1, <1>2, <2>1 DEF IsKey
<1>4. ASSUME ek # None PROVE IsKey(ek)'
  <2>1. IsKey(ek)
    BY <1>4 DEF KeysHold
  <2> QED
    BY <1>1, <1>2, <2>1 DEF IsKey
<1> QED
  BY <1>3, <1>4 DEF KeysHold

\* The ciphertext likewise.
LEMMA CiphertextStays ==
  ASSUME CiphertextHolds, UNCHANGED <<p, ct>>
  PROVE  CiphertextHolds'
<1> SUFFICES ASSUME ct # None
             PROVE  ct.of \in KeySeeds /\ ct.r \in Coins /\ IsCiphertext(ct.bytes, ct.of, ct.m, ct.r)'
  BY DEF CiphertextHolds
<1>1. PICK u, v : Carries(ct.bytes, u, v, ct.of, ct.m, ct.r)
  BY DEF CiphertextHolds, IsCiphertext
<1>2. Carries(ct.bytes, u, v, ct.of, ct.m, ct.r)'
  <2>1. \A d, i, m, r : USets(d, i, m, r)' = USets(d, i, m, r)
    BY DEF USets, Ephemeral, Error1, Indices
  <2>2. \A d, m, r : VSets(d, m, r)' = VSets(d, m, r)
    BY DEF VSets, VProducts, KeySets, Secret, Error, Ephemeral, Error2, Indices
  <2>3. Vector(u, p.du)' = Vector(u, p.du) /\ Indices' = Indices /\ ct' = ct /\ p' = p
    BY DEF Vector, Indices
  <2> QED
    BY <1>1, <2>1, <2>2, <2>3 DEF Carries
<1>3. IsCiphertext(ct.bytes, ct.of, ct.m, ct.r)'
  BY <1>2 DEF IsCiphertext
<1> QED
  BY <1>3 DEF CiphertextHolds

\* What was decrypted likewise.
LEMMA PlaintextStays ==
  ASSUME PlaintextHolds, UNCHANGED <<p, w>>
  PROVE  PlaintextHolds'
BY DEF PlaintextHolds, DecryptedPoly, TakenSets, Indices, USets, VSets, VProducts, KeySets,
       Secret, Error, Ephemeral, Error1, Error2

\* What may be drawn depends on the parameter set alone.
LEMMA DrawsStay ==
  ASSUME p' = p
  PROVE  AllDraws' = AllDraws
<1>1. \A d : KeyDraws(d)' = KeyDraws(d) /\ CoinDraws(d)' = CoinDraws(d)
  BY DEF KeyDraws, CoinDraws, ErrorStream
<1> QED
  BY <1>1 DEF AllDraws, DrawsOfKeys, DrawsOfCoins

\* What was drawn.
LEMMA StreamsStay ==
  ASSUME StreamsHold, UNCHANGED <<p, drawn>>
  PROVE  StreamsHold'
BY DrawsStay DEF StreamsHold

\* The keys that are generated, and what is drawn for them.
LEMMA GeneratePreserves ==
  ASSUME PkeInv, NEW d \in KeySeeds, Generate(d)
  PROVE  PkeInv'
<1>1. /\ p \in ParameterSets /\ p' = p
      /\ published' = KeyPair(d).ek_pke /\ dk' = KeyPair(d).dk_pke /\ owner' = d
      /\ drawn' = drawn \cup KeyDraws(d)
      /\ UNCHANGED <<ek, ct, w>>
  BY DEF PkeInv, Generate, KeyDraws
<1>2. IsSecret(KeyPair(d).dk_pke, d) /\ IsKey(KeyPair(d).ek_pke)
  BY <1>1, KeyPairHolds
<1>3. SecretHolds'
  BY <1>1, <1>2 DEF SecretHolds, IsSecret, Indices, Secret
<1>4. KeysHold'
  <2> DEFINE key == KeyPair(d).ek_pke
  <2>1. IsKey(key) /\ published' = key
    BY <1>1, <1>2
  <2> HIDE DEF key
  <2> QED
    BY <1>1, <2>1, KeyStays, KeysStay DEF PkeInv, KeysHold
<1>5. CiphertextHolds' /\ PlaintextHolds'
  BY <1>1, CiphertextStays, PlaintextStays DEF PkeInv
<1>6. StreamsHold'
  <2>1. KeyDraws(d) \subseteq DrawsOfKeys
    BY DEF DrawsOfKeys
  <2>2. KeyDraws(d) \subseteq AllDraws
    BY <2>1 DEF AllDraws
  <2> QED
    BY <1>1, <2>2, DrawsStay DEF PkeInv, StreamsHold
<1> QED
  BY <1>1, <1>3, <1>4, <1>5, <1>6 DEF PkeInv

\* The key that the sender takes.
LEMMA SharePreserves ==
  ASSUME PkeInv, Share
  PROVE  PkeInv'
<1> DEFINE key == EncryptionKeyFromBytes(EncryptionKeyToBytes(published))
<1>1. /\ p \in ParameterSets /\ UNCHANGED <<p, published, dk, owner, ct, w, drawn>>
      /\ published # None /\ ek' \in {published, key}
  BY DEF PkeInv, Share
<1>2. IsKey(published) /\ IsKey(key)
  BY <1>1, ReloadedHold DEF PkeInv, KeysHold
<1> HIDE DEF key
<1>3. KeysHold'
  <2>1. p' = p /\ published' = published /\ (ek' = published \/ ek' = key)
    BY <1>1
  <2> QED
    BY <1>2, <2>1, KeyStays DEF KeysHold
<1>4. SecretHolds' /\ CiphertextHolds' /\ PlaintextHolds' /\ StreamsHold'
  BY <1>1, SecretStays, CiphertextStays, PlaintextStays, StreamsStay DEF PkeInv
<1> QED
  BY <1>1, <1>3, <1>4 DEF PkeInv

\* The decryption key that goes through bytes.
LEMMA ReloadPreserves ==
  ASSUME PkeInv, ReloadDk
  PROVE  PkeInv'
<1> DEFINE s == VectorFromBytes(VectorToBytes(dk))
<1>1. /\ p \in ParameterSets /\ UNCHANGED <<p, published, ek, owner, ct, w, drawn>>
      /\ dk # None /\ dk' = s
  BY DEF PkeInv, ReloadDk
<1>2. owner \in KeySeeds /\ IsSecret(s, owner)
  BY <1>1, ReloadedHold DEF PkeInv, SecretHolds
<1> HIDE DEF s
<1>3. SecretHolds'
  BY <1>1, <1>2 DEF SecretHolds, IsSecret, Indices, Secret
<1>4. KeysHold' /\ CiphertextHolds' /\ PlaintextHolds' /\ StreamsHold'
  BY <1>1, KeysStay, CiphertextStays, PlaintextStays, StreamsStay DEF PkeInv
<1> QED
  BY <1>1, <1>3, <1>4 DEF PkeInv

\* The ciphertext, and what is drawn for it.
LEMMA EncryptPreserves ==
  ASSUME PkeInv, NEW m, NEW r \in Coins, Encrypt(m, r)
  PROVE  PkeInv'
<1> DEFINE bytes == Encrypted(ek, m, r)
<1>1. /\ p \in ParameterSets /\ UNCHANGED <<p, published, ek, dk, owner, w>>
      /\ ek # None /\ ct' = [bytes |-> bytes, of |-> ek.rho, m |-> m, r |-> r]
      /\ drawn' = drawn \cup CoinDraws(r)
  BY DEF PkeInv, Encrypt, CoinDraws
<1>2. ek.rho \in KeySeeds /\ IsCiphertext(bytes, ek.rho, m, r)
  BY <1>1, EncryptedHolds DEF PkeInv, KeysHold, IsKey
<1> HIDE DEF bytes
<1>3. CiphertextHolds'
  <2>1. PICK u, v : Carries(bytes, u, v, ek.rho, m, r)
    BY <1>2 DEF IsCiphertext
  <2>2. ct'.bytes = bytes /\ ct'.of = ek.rho /\ ct'.m = m /\ ct'.r = r
    BY <1>1
  <2>3. \A c, i, n, o : USets(c, i, n, o)' = USets(c, i, n, o)
    BY <1>1 DEF USets, Ephemeral, Error1, Indices
  <2>4. \A c, n, o : VSets(c, n, o)' = VSets(c, n, o)
    BY <1>1 DEF VSets, VProducts, KeySets, Secret, Error, Ephemeral, Error2, Indices
  <2>5. Vector(u, p.du)' = Vector(u, p.du) /\ Indices' = Indices /\ p' = p
    BY <1>1 DEF Vector, Indices
  <2>6. Carries(ct.bytes, u, v, ct.of, ct.m, ct.r)'
    BY <2>1, <2>2, <2>3, <2>4, <2>5 DEF Carries
  <2>7. IsCiphertext(ct.bytes, ct.of, ct.m, ct.r)'
    BY <2>6 DEF IsCiphertext
  <2> QED
    BY <1>2, <2>2, <2>7 DEF CiphertextHolds
<1>4. SecretHolds' /\ KeysHold' /\ PlaintextHolds'
  BY <1>1, SecretStays, KeysStay, PlaintextStays DEF PkeInv
<1>5. StreamsHold'
  <2>1. CoinDraws(r) \subseteq DrawsOfCoins
    BY DEF DrawsOfCoins
  <2>2. CoinDraws(r) \subseteq AllDraws
    BY <2>1 DEF AllDraws
  <2> QED
    BY <1>1, <2>2, DrawsStay DEF PkeInv, StreamsHold
<1> QED
  BY <1>1, <1>3, <1>4, <1>5 DEF PkeInv

\* What decrypt computes.
LEMMA DecryptPreserves ==
  ASSUME PkeInv, Decrypt
  PROVE  PkeInv'
<1> DEFINE value == Decrypted(dk, ct.bytes)
<1>1. /\ p \in ParameterSets /\ UNCHANGED <<p, published, ek, dk, owner, ct, drawn>>
      /\ ct # None /\ dk # None
      /\ w' = [value |-> value, by |-> owner, of |-> ct.of, m |-> ct.m, r |-> ct.r]
  BY DEF PkeInv, Decrypt
<1>2. /\ owner \in KeySeeds /\ IsSecret(dk, owner)
      /\ ct.of \in KeySeeds /\ ct.r \in Coins /\ IsCiphertext(ct.bytes, ct.of, ct.m, ct.r)
  BY <1>1 DEF PkeInv, SecretHolds, CiphertextHolds
<1>3. value.f = DecryptedPoly(ct.of, owner, ct.m, ct.r) /\ value.fits = TRUE
  BY <1>1, <1>2, DecryptedHolds
<1> HIDE DEF value
<1>4. PlaintextHolds'
  <2>1. /\ w'.value = value /\ w'.by = owner /\ w'.of = ct.of /\ w'.m = ct.m /\ w'.r = ct.r
    BY <1>1
  <2>2. DecryptedPoly(ct.of, owner, ct.m, ct.r)' = DecryptedPoly(ct.of, owner, ct.m, ct.r)
    BY <1>1 DEF DecryptedPoly, TakenSets, Indices, USets, VSets, VProducts, KeySets,
                Secret, Error, Ephemeral, Error1, Error2
  <2> QED
    BY <1>1, <1>2, <1>3, <2>1, <2>2 DEF PlaintextHolds
<1>5. SecretHolds' /\ KeysHold' /\ CiphertextHolds' /\ StreamsHold'
  BY <1>1, SecretStays, KeysStay, CiphertextStays, StreamsStay DEF PkeInv
<1> QED
  BY <1>1, <1>4, <1>5 DEF PkeInv

\* K-PKE keeps the invariant.
LEMMA PkeInvariant == PkeSpec => []PkeInv
<1>1. PkeInit => PkeInv
  BY DEF PkeInit, PkeInv, SecretHolds, KeysHold, CiphertextHolds, PlaintextHolds, StreamsHold
<1>2. PkeInv /\ [PkeNext]_pkeVars => PkeInv'
  <2> SUFFICES ASSUME PkeInv, [PkeNext]_pkeVars PROVE PkeInv'
    OBVIOUS
  <2>1. CASE \E d \in KeySeeds : Generate(d)
    BY <2>1, GeneratePreserves
  <2>2. CASE Share
    BY <2>2, SharePreserves
  <2>3. CASE ReloadDk
    BY <2>3, ReloadPreserves
  <2>4. CASE \E m \in Messages, r \in Coins : Encrypt(m, r)
    BY <2>4, EncryptPreserves
  <2>5. CASE Decrypt
    BY <2>5, DecryptPreserves
  <2>6. CASE UNCHANGED pkeVars
    BY <2>6, SecretStays, KeysStay, CiphertextStays, PlaintextStays, StreamsStay DEF PkeInv, pkeVars
  <2> QED
    BY <2>1, <2>2, <2>3, <2>4, <2>5, <2>6 DEF PkeNext
<1> QED
  BY <1>1, <1>2, PTL DEF PkeSpec

\* Every matrix entry cancels when a ciphertext is decrypted with its own key
\* (src/src/PKE.rs:130-154, 200-210, 310-357).
THEOREM MatrixAlwaysCancels == PkeSpec => []MatrixCancels
<1>1. PkeInv => MatrixCancels
  BY OwnKeyCancels DEF PkeInv, PlaintextHolds, MatrixCancels
<1> QED
  BY <1>1, PkeInvariant, PTL

\* With another key a matrix entry stays in what is decrypted
\* (src/src/PKE.rs:200-210).
THEOREM ForeignKeysGarble == PkeSpec => []ForeignKeyGarbles
<1>1. PkeInv => ForeignKeyGarbles
  BY OtherKeyKeeps DEF PkeInv, PlaintextHolds, ForeignKeyGarbles
<1> QED
  BY <1>1, PkeInvariant, PTL

\* No noise stream of a seed gives two polynomials
\* (src/src/PKE.rs:131-136, 330-335).
THEOREM StreamsStaySeparate == PkeSpec => []StreamsAreSeparate
<1>1. PkeInv => StreamsAreSeparate
  <2> SUFFICES ASSUME PkeInv, NEW x \in drawn, NEW y \in drawn, x.seed = y.seed, x.stream = y.stream
               PROVE  x = y
    BY DEF StreamsAreSeparate
  <2>1. \A z \in drawn : \/ z.seed \in KeySeeds /\ z \in KeyDraws(z.seed)
                         \/ z.seed \in Coins /\ z \in CoinDraws(z.seed)
    <3>1. \A d, from, n, eta, use : \A z \in Drawn(d, from, n, eta, use) : z.seed = d
      BY DEF Drawn
    <3>2. \A d : \A z : z \in KeyDraws(d) \/ z \in CoinDraws(d) => z.seed = d
      BY <3>1 DEF KeyDraws, CoinDraws
    <3> SUFFICES ASSUME NEW z \in drawn
                 PROVE  \/ z.seed \in KeySeeds /\ z \in KeyDraws(z.seed)
                        \/ z.seed \in Coins /\ z \in CoinDraws(z.seed)
      OBVIOUS
    <3>3. z \in AllDraws
      BY DEF PkeInv, StreamsHold
    <3>4. CASE z \in DrawsOfKeys
      <4>1. PICK d \in KeySeeds : z \in KeyDraws(d)
        BY <3>4 DEF DrawsOfKeys
      <4> QED
        BY <3>2, <4>1
    <3>5. CASE z \in DrawsOfCoins
      <4>1. PICK r \in Coins : z \in CoinDraws(r)
        BY <3>5 DEF DrawsOfCoins
      <4> QED
        BY <3>2, <4>1
    <3> QED
      BY <3>3, <3>4, <3>5 DEF AllDraws
  <2>2. \A z : ~(z \in KeySeeds /\ z \in Coins)
    BY PkeAssumption
  <2> QED
    BY <2>1, <2>2, DrawsOfOneSeed DEF PkeInv
<1> QED
  BY <1>1, PkeInvariant, PTL

\* The operands of every transform, product and sum are within what it accepts
\* (src/src/algebraic/poly.rs:246-249, 284-289).
THEOREM OperandsAlwaysFit == PkeSpec => []OperandsFit
<1>1. PkeInv => OperandsFit
  <2> SUFFICES ASSUME PkeInv PROVE OperandsFit
    OBVIOUS
  <2>1. \A x, S, B : IsElement(x, S, B) => x.fits = TRUE
    BY DEF IsElement
  <2>2. dk # None => \A j \in Indices : dk[j].fits
    BY <2>1 DEF PkeInv, SecretHolds, IsSecret
  <2>3. ek # None => \A j \in Indices : ek.t_hat[j].fits
    BY <2>1 DEF PkeInv, KeysHold, IsKey
  <2>4. ct # None => \A n \in DOMAIN ct.bytes : ct.bytes[n][1].fits
    BY CiphertextFits DEF PkeInv, CiphertextHolds
  <2>5. w # None => w.value.fits
    BY DEF PkeInv, PlaintextHolds
  <2> QED
    BY <2>2, <2>3, <2>4, <2>5 DEF OperandsFit
<1> QED
  BY <1>1, PkeInvariant, PTL
=============================================================================
