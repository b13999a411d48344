------------------------------- MODULE CbdRun -------------------------------
(***************************************************************************)
(* One run of a noise sampler: created for count streams from first on and *)
(* sampled once for each of them.                                          *)
(***************************************************************************)
EXTENDS CbdSampler

CONSTANTS Etas, Seeds, Firsts, Counts

ASSUME RunAssumption ==
  Firsts \in SUBSET Byte /\ Counts \in SUBSET (Nat \ {0})

VARIABLES
  first, count, \* the arguments of CbdSampler::new
  sampler,
  yielded,      \* the lanes read so far (history)
  squeezed      \* how many lanes were squeezed (history)

vars == <<first, count, sampler, yielded, squeezed>>

Prfs == [eta : Etas, seed : Seeds, b : Byte]

Samplers ==
  [eta : Etas, seed : Seeds, next : Byte, remaining : Nat,
   batch : Seq(Prfs), taken : Nat]

\* The types; a batch is never read past its end.
TypeOK ==
  /\ first \in Byte /\ count \in Nat \ {0}
  /\ sampler \in Samplers
  /\ sampler.taken <= Len(sampler.batch)
  /\ yielded \in Seq(Prfs) /\ squeezed \in Nat

Init ==
  \E eta \in Etas, seed \in Seeds :
    /\ first \in Firsts
    /\ count \in Counts
    /\ sampler = New(eta, seed, first, count)
    /\ yielded = <<>>
    /\ squeezed = Len(sampler.batch)

\* sample_element, within the declared count.
SampleElement ==
  /\ sampler.remaining > 0
  /\ sampler' = Sampled(sampler)
  /\ yielded' = Append(yielded, Lane(sampler))
  /\ squeezed' = squeezed + (IF sampler.taken = Len(sampler.batch)
                             THEN Len(sampler'.batch) ELSE 0)
  /\ UNCHANGED <<first, count>>

Next == SampleElement

Spec == Init /\ [][Next]_vars

-----------------------------------------------------------------------------
\* Whatever widths the batches have, the n-th sample is PRF's stream first + n,
\* modulo 256, of the one seed (src/src/sampling.rs:238).
NthStream ==
  \A n \in 1 .. Len(yielded) :
    yielded[n] = PRF(sampler.eta, sampler.seed, (first + n - 1) % 256)

\* A whole run squeezes at most one lane that nobody reads, the fourth of a
\* batch for three (src/src/sampling.rs:289).
OneLaneInVain ==
  sampler.remaining = 0 =>
    squeezed = count + (IF count % 4 = 3 THEN 1 ELSE 0)

-----------------------------------------------------------------------------
\* Towards the proofs. The samples read before the current batch.
Before == Len(yielded) - sampler.taken

\* The batch of s covers the streams after the run's first y, and the next
\* refill goes on where it ends.
Covers(s, y) ==
  /\ s.next = (first + y + Len(s.batch)) % 256
  /\ \A l \in 1 .. Len(s.batch) :
       s.batch[l] = PRF(s.eta, s.seed, (first + y + l - 1) % 256)

\* Only the last batch of a run is not a full four.
Aligned ==
  /\ Before \in Nat /\ Before % 4 = 0
  /\ Len(sampler.batch) = Width(sampler.remaining + sampler.taken)
  /\ squeezed = Before + Len(sampler.batch)
  /\ sampler.remaining = 0 => sampler.taken > 0

IInv ==
  /\ TypeOK
  /\ sampler.remaining + Len(yielded) = count
  /\ Covers(sampler, Before)
  /\ Aligned
  /\ NthStream
=============================================================================
