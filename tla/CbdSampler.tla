----------------------------- MODULE CbdSampler -----------------------------
(***************************************************************************)
(* The batched noise sampler, struct CbdSampler of src/src/sampling.rs, as *)
(* operators on its value, with the batched PRF of src/src/functions.rs it *)
(* refills itself from. A lane of PRF output is the term of the call that  *)
(* squeezes the same bytes on its own: PRF(eta, seed, b).                  *)
(***************************************************************************)
EXTENDS Integers, Sequences

Byte == 0 .. 255

PRF(eta, seed, b) == [eta |-> eta, seed |-> seed, b |-> b]

\* PRF, PRF_x2 and PRF_x4: width lanes on consecutive domain separators, which
\* wrap as a byte does.
PrfBatch(eta, seed, b, width) ==
  [lane \in 1 .. width |-> PRF(eta, seed, (b + lane - 1) % 256)]

\* The width of the batch for the streams still to come: three take four.
Width(remaining) ==
  IF remaining <= 1 THEN 1 ELSE IF remaining = 2 THEN 2 ELSE 4

Squeeze(eta, seed, b, remaining) == PrfBatch(eta, seed, b, Width(remaining))

\* CbdSampler::new squeezes the first batch.
New(eta, seed, first, count) ==
  LET batch == Squeeze(eta, seed, first, count)
  IN [eta |-> eta, seed |-> seed, next |-> (first + Len(batch)) % 256,
      remaining |-> count, batch |-> batch, taken |-> 0]

\* Mutant: a refill leaves the next domain separator where it was.
RefilledStale(s) ==
  IF s.taken = Len(s.batch)
  THEN [s EXCEPT !.batch = Squeeze(s.eta, s.seed, s.next, s.remaining), !.taken = 0]
  ELSE s

\* sample_element refills a batch that has been read to its end.
Refilled(s) ==
  LET batch == Squeeze(s.eta, s.seed, s.next, s.remaining)
  IN IF s.taken = Len(s.batch)
     THEN [s EXCEPT !.batch = batch, !.next = (s.next + Len(batch)) % 256, !.taken = 0]
     ELSE s

\* The lane sample_element reads, and the sampler it leaves.
Lane(s) == Refilled(s).batch[Refilled(s).taken + 1]

Sampled(s) ==
  [Refilled(s) EXCEPT !.taken = @ + 1,
                      !.remaining = IF @ > 0 THEN @ - 1 ELSE 0]
=============================================================================
