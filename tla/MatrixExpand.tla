---------------------------- MODULE MatrixExpand ----------------------------
(***************************************************************************)
(* TqMatrix::expand (src/src/PKE.rs) over TqElement::sample_ntt_x4         *)
(* (src/src/sampling.rs): a lazy iterator refills itself four XOF streams  *)
(* at a time, each refill squeezing all four lanes until the slowest is    *)
(* full, and the matrix is built and transposed from what it yields.       *)
(*                                                                         *)
(* A ring element is the pair of domain bytes of the XOF stream it comes   *)
(* from and how many of its coefficients that stream has filled; the       *)
(* kernel that fills them is module RejectKernels.                         *)
(***************************************************************************)
EXTENDS Integers, Sequences

CONSTANTS
  Ranks,       \* the values of ParameterSet::K to expand for
  ElementSize, \* coefficients per ring element (256)
  PerBlock,    \* most candidates one block can have accepted
  FirstBlocks  \* blocks of the first squeeze (THREE_BLOCKS)

ASSUME ExpandAssumption ==
  /\ Ranks \in SUBSET (Nat \ {0})
  /\ ElementSize \in Nat \ {0} /\ PerBlock \in Nat \ {0} /\ FirstBlocks \in Nat \ {0}

Lanes == 0 .. 3

VARIABLES
  rank,       \* P::K of this expansion
  next,       \* flat index of the first entry not yet sampled
  taken,      \* elements of the batch already yielded
  batch,      \* the four elements of the last refill
  sampler,    \* sample_ntt_x4: [busy, indices, counts, lane, blocks]
  entries,    \* the elements yielded so far, row by row
  transposed, \* the transposed rows, or <<>> before that
  refills     \* how often XOF_x4 was called (history)

expandVars == <<rank, next, taken, batch, sampler, entries, transposed, refills>>

Streams == Nat \X Nat
Elements == [stream : Streams, filled : 0 .. ElementSize]

\* sample_ntt_x4's state. lane is the one reject_into is about to serve, 4 when
\* it has served all; blocks is the size of the last squeeze, 0 before any.
Samplers ==
  [busy : BOOLEAN, indices : [Lanes -> Streams], counts : [Lanes -> 0 .. ElementSize],
   lane : 0 .. 4, blocks : {0, 1, FirstBlocks}]

\* XOF's two domain bytes of flat entry n: column first, then row.
Indices(n) == <<n % rank, n \div rank>>

Full(n) == [stream |-> Indices(n), filled |-> ElementSize]

\* A kernel stops, or clamps its count, at the size.
AtMost(n) == IF n < ElementSize THEN n ELSE ElementSize

\* The types, and that a batch in the making leaves no yielded one unread.
ExpandTypeOK ==
  /\ rank \in Ranks
  /\ next \in Nat /\ refills \in Nat /\ taken \in 0 .. 4
  /\ batch \in [Lanes -> Elements]
  /\ sampler \in Samplers
  /\ entries \in Seq(Elements)
  /\ sampler.busy => taken = 4

IdleSampler ==
  [busy |-> FALSE, indices |-> [l \in Lanes |-> <<0, 0>>],
   counts |-> [l \in Lanes |-> 0], lane |-> 4, blocks |-> 0]

ExpandInit ==
  /\ rank \in Ranks
  /\ next = 0
  /\ taken = 4
  /\ batch = [l \in Lanes |-> [stream |-> <<0, 0>>, filled |-> 0]]
  /\ sampler = IdleSampler
  /\ entries = <<>>
  /\ transposed = <<>>
  /\ refills = 0

-----------------------------------------------------------------------------
\* The iterator has nothing left to yield: it starts sampling four more.
StartBatch ==
  /\ ~sampler.busy /\ taken = 4 /\ Len(entries) < rank * rank
  /\ sampler' = [IdleSampler EXCEPT !.busy = TRUE,
                             !.indices = [l \in Lanes |-> Indices(next + l)]]
  /\ refills' = refills + 1
  /\ UNCHANGED <<rank, next, taken, batch, entries, transposed>>

AllFull == \A l \in Lanes : sampler.counts[l] >= ElementSize

\* Mutant: the top-up loop is missing.
SqueezeOnce ==
  /\ sampler.busy /\ sampler.lane = 4 /\ sampler.blocks = 0
  /\ sampler' = [sampler EXCEPT !.lane = 0, !.blocks = FirstBlocks]
  /\ UNCHANGED <<rank, next, taken, batch, entries, transposed, refills>>

\* Every lane squeezes: three blocks first, then one more per round.
SqueezeLanes ==
  /\ sampler.busy /\ sampler.lane = 4 /\ (sampler.blocks = 0 \/ ~AllFull)
  /\ sampler' = [sampler EXCEPT
       !.lane = 0, !.blocks = IF @ = 0 THEN FirstBlocks ELSE 1]
  /\ UNCHANGED <<rank, next, taken, batch, entries, transposed, refills>>

\* reject_into serves lane l: its block has a accepted candidates, of which the
\* kernel keeps those the buffer has room for.
RejectLane(l, a) ==
  /\ sampler.busy /\ sampler.lane = l /\ a <= PerBlock * sampler.blocks
  /\ sampler' = [sampler EXCEPT !.counts[l] = AtMost(@ + a), !.lane = l + 1]
  /\ UNCHANGED <<rank, next, taken, batch, entries, transposed, refills>>

\* Mutant: the loop ends as soon as some lane is full.
FinishBatchAny ==
  /\ sampler.busy /\ sampler.lane = 4 /\ sampler.blocks # 0
  /\ \E l \in Lanes : sampler.counts[l] >= ElementSize
  /\ batch' = [l \in Lanes |-> [stream |-> sampler.indices[l],
                                filled |-> sampler.counts[l]]]
  /\ sampler' = IdleSampler
  /\ taken' = 0
  /\ next' = next + 4
  /\ UNCHANGED <<rank, entries, transposed, refills>>

\* All lanes are full: the buffers become the batch.
FinishBatch ==
  /\ sampler.busy /\ sampler.lane = 4 /\ sampler.blocks # 0 /\ AllFull
  /\ batch' = [l \in Lanes |-> [stream |-> sampler.indices[l],
                                filled |-> sampler.counts[l]]]
  /\ sampler' = IdleSampler
  /\ taken' = 0
  /\ next' = next + 4
  /\ UNCHANGED <<rank, entries, transposed, refills>>

\* The matrix takes the iterator's next element.
Yield ==
  /\ ~sampler.busy /\ taken < 4 /\ Len(entries) < rank * rank
  /\ entries' = Append(entries, batch[taken])
  /\ taken' = taken + 1
  /\ UNCHANGED <<rank, next, batch, sampler, transposed, refills>>

\* A_hat[i][j] of the rows built by from_fn.
Entry(i, j) == entries[i * rank + j + 1]

\* Mutant: the matrix is cached as it is.
TransposeNot ==
  /\ Len(entries) = rank * rank /\ transposed = <<>>
  /\ transposed' = [i \in 0 .. rank - 1 |-> [j \in 0 .. rank - 1 |-> Entry(i, j)]]
  /\ UNCHANGED <<rank, next, taken, batch, sampler, entries, refills>>

\* TqMatrix::transpose, for the matrix K-PKE.Encrypt multiplies by.
Transpose ==
  /\ Len(entries) = rank * rank /\ transposed = <<>>
  /\ transposed' = [i \in 0 .. rank - 1 |-> [j \in 0 .. rank - 1 |-> Entry(j, i)]]
  /\ UNCHANGED <<rank, next, taken, batch, sampler, entries, refills>>

ExpandNext ==
  \/ StartBatch
  \/ SqueezeLanes
  \/ \E l \in Lanes, a \in 0 .. PerBlock * FirstBlocks : RejectLane(l, a)
  \/ FinishBatch
  \/ Yield
  \/ Transpose

\* The code runs on; and SHAKE128 does not withhold an acceptable candidate
\* from one lane for ever, the only thing the loop's end rests on.
Fairness ==
  /\ WF_expandVars(ExpandNext)
  /\ \A l \in Lanes : SF_expandVars(\E a \in 1 .. PerBlock * FirstBlocks : RejectLane(l, a))

ExpandSpec == ExpandInit /\ [][ExpandNext]_expandVars
ExpandFairSpec == ExpandSpec /\ Fairness

-----------------------------------------------------------------------------
\* A_hat[i][j] = SampleNTT(XOF(rho, j, i)), whole, although a batch straddles
\* rows and its lanes fill at different rounds (src/src/PKE.rs:371).
EntriesOfTheirStreams ==
  \A n \in 1 .. Len(entries) : entries[n] = Full(n - 1)

\* The cached matrix is the transpose: row i, column j is the stream with the
\* domain bytes i, j that FIPS 203 gives A_hat[j][i] (src/src/PKE.rs:343).
TransposedIsTranspose ==
  transposed # <<>> =>
    \A i, j \in 0 .. rank - 1 :
      transposed[i][j] = [stream |-> <<i, j>>, filled |-> ElementSize]

\* Batches run across the flat entry list, not per row: K = 2 and K = 4 waste
\* no lane and K = 3 only those past the ninth (src/src/PKE.rs:379).
NoLaneInVain ==
  LET waste == (4 - ((rank * rank) % 4)) % 4
  IN 4 * refills <= rank * rank + waste

\* The expansion ends with the transposed matrix (src/src/sampling.rs:90).
Expands == <>(transposed # <<>>)

-----------------------------------------------------------------------------
\* Towards the proofs: what is sampled and what is yielded are aligned.
ExpandIInv ==
  /\ ExpandTypeOK
  /\ next + taken = Len(entries) + 4
  /\ 4 * refills = next + (IF sampler.busy THEN 4 ELSE 0)
  /\ 4 * refills <= rank * rank + 3
  /\ TransposedIsTranspose
  /\ EntriesOfTheirStreams
  /\ sampler.busy => \A l \in Lanes : sampler.indices[l] = Indices(next + l)
  /\ taken < 4 => \A l \in Lanes : batch[l] = Full(next - 4 + l)
=============================================================================
