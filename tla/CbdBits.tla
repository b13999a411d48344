------------------------------- MODULE CbdBits ------------------------------
(***************************************************************************)
(* The bit counting of sample_cbd in src/src/sampling.rs: what a run of a  *)
(* sampler draws from its lanes. It counts in the fields of a word: four   *)
(* coefficients take 8 * eta bits, which are a 24-bit word of eta 3, and a *)
(* half of a 32-bit word of eta 2, whose sums stay below 2^16.             *)
(***************************************************************************)
EXTENDS CbdRun

CONSTANT PrfBit(_, _) \* the n-th bit of a lane

\* A lane is 64 * eta bytes.
StreamBits(eta) == 0 .. 512 * eta - 1

ASSUME BitsAssumption ==
  /\ Etas \in SUBSET {2, 3}
  /\ \A lane \in Prfs : \A n \in StreamBits(lane.eta) : PrfBit(lane, n) \in {0, 1}

\* (t >> shift) & MASK: every eta-th bit.
MaskedCopy(t, eta, shift) ==
  LET sum[f \in 0 .. 8] ==
        IF f = 0 THEN 0 ELSE sum[f - 1] + t[eta * (f - 1) + shift] * 2^(eta * (f - 1))
  IN sum[8]

\* Mutant: eta 3 adds two copies, as eta 2 does.
FieldSumsOfTwo(t, eta) == MaskedCopy(t, eta, 0) + MaskedCopy(t, eta, 1)

FieldSums(t, eta) ==
  LET sum[s \in 0 .. eta] == IF s = 0 THEN 0 ELSE sum[s - 1] + MaskedCopy(t, eta, s - 1)
  IN sum[eta]

Field(sums, eta, at) == (sums \div 2^at) % 2^eta

\* The i-th coefficient of sample_cbd of a lane.
SampleCbd(lane, i) ==
  LET eta == lane.eta
      t == [p \in 0 .. 8 * eta - 1 |-> PrfBit(lane, 8 * eta * (i \div 4) + p)]
      at == 2 * eta * (i % 4)
  IN Field(FieldSums(t, eta), eta, at) - Field(FieldSums(t, eta), eta, at + eta)
-----------------------------------------------------------------------------
\* The eta bits of a lane from the n-th on.
BitCount(lane, n) ==
  LET sum[m \in 0 .. lane.eta] == IF m = 0 THEN 0 ELSE sum[m - 1] + PrfBit(lane, n + m - 1)
  IN sum[lane.eta]

\* The n-th element drawn is SamplePolyCBD of PRF's stream first + n: whichever
\* batch it came from, each coefficient is the difference of the counts of its
\* own two groups of eta adjacent bits, and no field of the word-parallel sums
\* carries into the next (src/src/sampling.rs:122-197, FIPS 203 Algorithm 8).
DrawsOwnBits ==
  yielded # <<>> =>
    LET stream == PRF(sampler.eta, sampler.seed, (first + Len(yielded) - 1) % 256)
        bits == 2 * sampler.eta
    IN \A i \in 0 .. 255 :
         SampleCbd(yielded[Len(yielded)], i) =
           BitCount(stream, bits * i) - BitCount(stream, bits * i + sampler.eta)
=============================================================================
