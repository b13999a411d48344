--------------------------- MODULE RejectKernels ---------------------------
(***************************************************************************)
(* SampleNTT's rejection kernels (src/src/sampling/arch): the scalar one   *)
(* and the vectorized one, each called once per squeezed block on the same *)
(* XOF stream with its own output buffer.                                  *)
(*                                                                         *)
(* A 12-bit candidate is its position 1, 2, ... in the stream: all that    *)
(* matters of its value is whether it is below q, which the XOF decides.   *)
(* 0 is the zero every buffer and every padded vector lane starts as.      *)
(***************************************************************************)
EXTENDS Integers, FiniteSets

CONSTANTS
  N,              \* coefficients per ring element (256)
  Width,          \* candidates per vector store (8)
  Slack,          \* REJECT_SLACK (8)
  GroupsPerBlock, \* vector groups per squeezed block (14)
  MaxBlocks       \* bound on the blocks squeezed

ASSUME SizesAssumption ==
  /\ N \in Nat \ {0} /\ Width \in Nat \ {0} /\ Width % 2 = 0
  /\ Slack \in Nat /\ Width <= Slack + 1
  /\ GroupsPerBlock \in Nat \ {0} /\ MaxBlocks \in Nat

Block == Width * GroupsPerBlock
Slots == 0 .. N + Slack - 1

VARIABLES
  squeezed, \* candidates squeezed so far
  accepted, \* those below q
  scalar,   \* the scalar kernel: [busy, pos, count, out]
  vector    \* the vector kernel: [busy, pos, count, out]

vars == <<squeezed, accepted, scalar, vector>>

Kernel ==
  [busy : BOOLEAN, pos : Nat, count : 0 .. N + Width - 1, out : [Slots -> Nat]]

\* The variables' types: a kernel's count passes N by a vector's width at most,
\* and only until its call returns.
TypeOK ==
  /\ squeezed \in Nat
  /\ accepted \in SUBSET (1 .. squeezed)
  /\ scalar \in Kernel /\ vector \in Kernel
  /\ \A k \in {scalar, vector} : ~k.busy => k.count <= N

\* EMPTY_REJECT_BUFFER and a zero count.
Idle == [busy |-> FALSE, pos |-> 0, count |-> 0, out |-> [i \in Slots |-> 0]]

Init ==
  /\ squeezed = 0
  /\ accepted = {}
  /\ scalar = Idle
  /\ vector = Idle

\* The driver squeezes one more block and calls the kernel on it, also for a
\* lane that is already full while another lane is not.
Squeeze ==
  /\ ~scalar.busy /\ ~vector.busy
  /\ squeezed < Block * MaxBlocks
  /\ squeezed' = squeezed + Block
  /\ \E mask \in SUBSET (squeezed + 1 .. squeezed + Block) :
       accepted' = accepted \cup mask
  /\ scalar' = [scalar EXCEPT !.busy = TRUE, !.pos = squeezed]
  /\ vector' = [vector EXCEPT !.busy = TRUE, !.pos = squeezed]

-----------------------------------------------------------------------------
\* One candidate of the scalar kernel: kept unless rejected or already full.
Keep(k, c) ==
  IF c \in accepted /\ k.count < N
  THEN [k EXCEPT !.out[k.count] = c, !.count = @ + 1]
  ELSE k

\* generic::reject, one 3-byte chunk: two candidates in stream order.
ScalarChunk ==
  /\ scalar.busy /\ scalar.pos < squeezed /\ scalar.count < N
  /\ scalar' = [Keep(Keep(scalar, scalar.pos + 1), scalar.pos + 2)
                  EXCEPT !.pos = scalar.pos + 2]
  /\ UNCHANGED <<squeezed, accepted, vector>>

ScalarReturn ==
  /\ scalar.busy /\ (scalar.pos = squeezed \/ scalar.count >= N)
  /\ scalar' = [scalar EXCEPT !.busy = FALSE]
  /\ UNCHANGED <<squeezed, accepted, vector>>

-----------------------------------------------------------------------------
\* The members of S between two places of the stream, those before c, and how
\* many the latter are.
Between(S, p, e) == {x \in S : p < x /\ x < e}
Below(S, c) == {x \in S : x < c}
Rank(S, c) == Cardinality(Below(S, c))

\* The accepted candidates of the group starting after pos.
GroupHits(pos) == Between(accepted, pos, pos + Width + 1)

\* Mutant: the packing table lists the lanes from the last to the first.
PackedReversed(pos, r) ==
  LET hits == GroupHits(pos)
      nth == {c \in hits : Cardinality({h \in hits : h > c}) = r}
  IN IF nth = {} THEN 0 ELSE CHOOSE c \in nth : TRUE

\* COMPACT[mask] shuffles the accepted lanes to the front, in lane order, and
\* fills the rest with zero.
Packed(pos, r) ==
  LET nth == {c \in GroupHits(pos) : Rank(GroupHits(pos), c) = r}
  IN IF nth = {} THEN 0 ELSE CHOOSE c \in nth : TRUE

\* Mutant: the loop runs on when the buffer is full.
VectorGroupNoGuard ==
  /\ vector.busy /\ vector.pos < squeezed
  /\ vector' = [vector EXCEPT
       !.pos = @ + Width,
       !.count = @ + Cardinality(GroupHits(vector.pos)),
       !.out = [i \in Slots |-> IF i \in vector.count .. vector.count + Width - 1
                                THEN Packed(vector.pos, i - vector.count)
                                ELSE vector.out[i]]]
  /\ UNCHANGED <<squeezed, accepted, scalar>>

\* neon/avx2 reject, one group: an unconditional store of Width lanes at
\* out[count], then count grows by the number accepted.
VectorGroup ==
  /\ vector.busy /\ vector.pos < squeezed /\ vector.count < N
  /\ vector' = [vector EXCEPT
       !.pos = @ + Width,
       !.count = @ + Cardinality(GroupHits(vector.pos)),
       !.out = [i \in Slots |-> IF i \in vector.count .. vector.count + Width - 1
                                THEN Packed(vector.pos, i - vector.count)
                                ELSE vector.out[i]]]
  /\ UNCHANGED <<squeezed, accepted, scalar>>

\* The loop ends with the block or with a full buffer; count is clamped to N.
VectorReturn ==
  /\ vector.busy /\ (vector.pos = squeezed \/ vector.count >= N)
  /\ vector' = [vector EXCEPT !.busy = FALSE,
                              !.count = IF @ < N THEN @ ELSE N]
  /\ UNCHANGED <<squeezed, accepted, scalar>>

Next ==
  \/ Squeeze
  \/ ScalarChunk \/ ScalarReturn
  \/ VectorGroup \/ VectorReturn

Spec == Init /\ [][Next]_vars

-----------------------------------------------------------------------------
\* The slots of a buffer whose contents the caller may use.
Kept(k) == 0 .. (IF k.count < N THEN k.count ELSE N) - 1

\* An unchecked store never leaves the buffer: whenever the vector kernel takes
\* a group, the Width lanes it stores at its count end inside N + Slack
\* (src/src/sampling/arch.rs:26, src/src/sampling/arch/avx2.rs:60).
StoresStayInside ==
  [][vector.busy /\ vector'.pos > vector.pos
       => vector.count + Width - 1 \in Slots]_vars

\* A buffer holds the stream's accepted candidates in stream order with none
\* missing or repeated: slot i holds the one with i accepted before it, also
\* while stores of later groups overrun the count with padding
\* (src/src/sampling/arch/generic.rs:9, src/src/sampling/arch/avx2.rs:43).
FirstAcceptedInOrder ==
  \A k \in {scalar, vector} : \A i \in Kept(k) :
    k.out[i] \in accepted /\ Rank(accepted, k.out[i]) = i

\* The vectorized kernel matches the scalar one on the first N slots and on
\* the count after every block, although the two stop at different places of
\* it (src/src/sampling/arch/avx2.rs:49).
KernelsAgree ==
  ~scalar.busy /\ ~vector.busy =>
    /\ scalar.count = vector.count
    /\ scalar.count < N => scalar.count = Cardinality(accepted)
    /\ \A i \in Kept(scalar) : scalar.out[i] = vector.out[i]

\* A coefficient once kept is never dropped or rewritten, neither by a later
\* store of this block nor by a later call on an already full buffer.
KeptStaysKept ==
  [][/\ \A i \in Kept(scalar) : i \in Kept(scalar') /\ scalar'.out[i] = scalar.out[i]
     /\ \A i \in Kept(vector) : i \in Kept(vector') /\ vector'.out[i] = vector.out[i]]_vars

-----------------------------------------------------------------------------
\* Towards the proofs. The kernel has dealt with the stream up to p: while its
\* buffer has room it has kept every accepted candidate there.
StandsAt(k, p) ==
  /\ \A i \in Kept(k) : /\ k.out[i] \in accepted
                        /\ k.out[i] <= p
                        /\ Rank(accepted, k.out[i]) = i
  /\ k.count < N => Rank(accepted, p + 1) = k.count
  /\ k.count >= N => Rank(accepted, p + 1) >= N

\* The inductive invariant: both kernels stand at their positions, a call that
\* returned with room left has read its whole block, and the scalar kernel
\* never counts past N.
IInv ==
  /\ TypeOK
  /\ scalar.count <= N
  /\ \A k \in {scalar, vector} :
       StandsAt(k, k.pos) /\ (~k.busy /\ k.count < N => k.pos = squeezed)
=============================================================================
