--------------------------- MODULE SamplingProofs ---------------------------
(***************************************************************************)
(* SampleNTT, in its two halves.  For every buffer size, vector width and  *)
(* slack: the unchecked vector store stays inside the buffer, and the      *)
(* vectorized kernel computes what the scalar one does.  For every rank,   *)
(* ring size and squeeze size: the batched expansion puts each stream      *)
(* where it belongs, whole, wastes no batch, and caches the transpose.     *)
(***************************************************************************)
EXTENDS RejectKernels, MatrixExpand, SequenceTheorems, FiniteSetTheorems, FunctionTheorems, TLAPS

-----------------------------------------------------------------------------
\* The rejection kernels.

\* Ranks are natural numbers below the size of the set.
LEMMA RankType ==
  ASSUME NEW n \in Nat, NEW S \in SUBSET (1 .. n), NEW c \in Nat
  PROVE  /\ IsFiniteSet(S) /\ Cardinality(S) \in Nat
         /\ Rank(S, c) \in Nat /\ Rank(S, c) <= Cardinality(S)
         /\ c \in S => Rank(S, c) < Cardinality(S)
<1>1. IsFiniteSet(1 .. n)
  BY FS_Interval
<1>2. IsFiniteSet(S) /\ Cardinality(S) \in Nat
  BY <1>1, FS_Subset, FS_CardinalityType
<1>3. Below(S, c) \in SUBSET S
  BY DEF Below
<1>4. IsFiniteSet(Below(S, c)) /\ Rank(S, c) <= Cardinality(S)
      /\ (Cardinality(S) = Rank(S, c) => S = Below(S, c))
  BY <1>2, <1>3, FS_Subset DEF Rank
<1>5. Rank(S, c) \in Nat
  BY <1>4, FS_CardinalityType DEF Rank
<1>6. c \in S => S # Below(S, c)
  BY DEF Below
<1> QED
  BY <1>2, <1>4, <1>5, <1>6

\* The members of S before e are those up to p and those between p and e.
LEMMA RankSplit ==
  ASSUME NEW n \in Nat, NEW S \in SUBSET (1 .. n),
         NEW p \in Nat, NEW e \in Nat, p < e
  PROVE  /\ Cardinality(Between(S, p, e)) \in Nat
         /\ Rank(S, e) = Rank(S, p + 1) + Cardinality(Between(S, p, e))
<1>1. \A x \in S : x \in Int
  OBVIOUS
<1>2. PICK C : C = Between(S, p, e)
  OBVIOUS
<1>3. Below(S, p + 1) \in SUBSET S /\ C \in SUBSET S
  BY <1>2 DEF Below, Between
<1>4. IsFiniteSet(S)
  BY RankType, 0 \in Nat
<1>5. IsFiniteSet(Below(S, p + 1)) /\ IsFiniteSet(C)
  BY <1>3, <1>4, FS_Subset
<1>6. Rank(S, p + 1) \in Nat /\ Cardinality(C) \in Nat
  BY <1>5, FS_CardinalityType DEF Rank
<1>7. \A x \in S : /\ x < e <=> (x < p + 1 \/ (p < x /\ x < e))
                   /\ ~(x < p + 1 /\ p < x)
  BY <1>1
<1>8. Below(S, e) = Below(S, p + 1) \cup C
  BY <1>2, <1>7 DEF Below, Between
<1>9. Below(S, p + 1) \cap C = {}
  BY <1>2, <1>7 DEF Below, Between
<1>10. Cardinality(Below(S, p + 1) \cap C) = 0
  BY <1>9, FS_EmptySet
<1>11. Cardinality(Below(S, p + 1) \cup C)
         = Cardinality(Below(S, p + 1)) + Cardinality(C)
             - Cardinality(Below(S, p + 1) \cap C)
  BY <1>5, FS_Union
<1>12. Rank(S, e) = Rank(S, p + 1) + Cardinality(C)
  BY <1>6, <1>8, <1>10, <1>11 DEF Rank
<1> QED
  BY <1>2, <1>6, <1>12

\* Ranks follow the order of the stream.
LEMMA RankMonotone ==
  ASSUME NEW n \in Nat, NEW S \in SUBSET (1 .. n),
         NEW a \in Nat, NEW b \in Nat, a < b
  PROVE  /\ Rank(S, a) <= Rank(S, b)
         /\ a \in S => Rank(S, a) < Rank(S, b)
<1>1. \A x \in S : x \in Int
  OBVIOUS
<1>2. PICK B : B = Below(S, b)
  OBVIOUS
<1>3. B \in SUBSET (1 .. n) /\ (a \in S => a \in B)
  BY <1>2 DEF Below
<1>4. /\ Rank(B, a) <= Cardinality(B)
      /\ a \in B => Rank(B, a) < Cardinality(B)
  BY <1>3, RankType
<1>5. \A x \in S : x < a => x < b
  BY <1>1
<1>6. Below(B, a) = Below(S, a)
  BY <1>2, <1>5 DEF Below
<1>7. Rank(B, a) = Rank(S, a) /\ Cardinality(B) = Rank(S, b)
  BY <1>2, <1>6 DEF Rank
<1> QED
  BY <1>3, <1>4, <1>7

\* Two candidates of one rank are one candidate.
LEMMA RankInjective ==
  ASSUME NEW n \in Nat, NEW S \in SUBSET (1 .. n),
         NEW a \in S, NEW b \in S, Rank(S, a) = Rank(S, b)
  PROVE  a = b
<1>1. a \in Nat /\ b \in Nat
  OBVIOUS
<1>2. Rank(S, a) \in Nat
  BY <1>1, RankType
<1>3. ASSUME a < b PROVE FALSE
  <2>1. Rank(S, a) < Rank(S, b)
    BY <1>1, <1>3, RankMonotone
  <2> QED
    BY <2>1, <1>2
<1>4. ASSUME b < a PROVE FALSE
  <2>1. Rank(S, b) < Rank(S, a)
    BY <1>1, <1>4, RankMonotone
  <2> QED
    BY <2>1, <1>2
<1> QED
  BY <1>1, <1>3, <1>4

\* Every number below the size of the set is some candidate's rank.
LEMMA RankOnto ==
  ASSUME NEW n \in Nat, NEW S \in SUBSET (1 .. n),
         NEW r \in Nat, r < Cardinality(S)
  PROVE  \E c \in S : Rank(S, c) = r
<1>1. IsFiniteSet(S) /\ Cardinality(S) \in Nat
  BY RankType, 0 \in Nat
<1>2. PICK T : T = 0 .. Cardinality(S) - 1
  OBVIOUS
<1>3. IsFiniteSet(T) /\ Cardinality(T) = Cardinality(S)
  BY <1>1, <1>2, FS_Interval
<1>4. ASSUME NEW c \in S PROVE Rank(S, c) \in T
  <2>1. c \in Nat
    OBVIOUS
  <2>2. Rank(S, c) \in Nat /\ Rank(S, c) < Cardinality(S)
    BY <2>1, RankType
  <2> QED
    BY <1>1, <1>2, <2>2
<1>5. PICK f : f = [c \in S |-> Rank(S, c)]
  OBVIOUS
<1>6. f \in [S -> T]
  BY <1>4, <1>5
<1>7. \A a, b \in S : f[a] = f[b] => a = b
  BY <1>5, RankInjective
<1>8. f \in Injection(S, T)
  BY <1>6, <1>7, Fun_IsInj
<1>9. f \in Surjection(S, T)
  BY <1>3, <1>8, FS_Injection
<1>10. \E c \in S : f[c] = r
  <2>1. \A t \in T : \E c \in S : f[c] = t
    BY <1>9, Fun_SurjectionProperties
  <2>2. r \in T
    BY <1>1, <1>2
  <2> QED
    BY <2>1, <2>2
<1> QED
  BY <1>5, <1>10

\* A candidate's rank in the stream is the number accepted up to p plus its
\* rank among those between p and e.
LEMMA RankInGroup ==
  ASSUME NEW n \in Nat, NEW S \in SUBSET (1 .. n),
         NEW p \in Nat, NEW e \in Nat, NEW c \in Between(S, p, e)
  PROVE  Rank(S, c) = Rank(S, p + 1) + Rank(Between(S, p, e), c)
<1>1. c \in Nat /\ p < c /\ c < e /\ \A x \in S : x \in Int
  BY DEF Between
<1>2. Rank(S, c) = Rank(S, p + 1) + Cardinality(Between(S, p, c))
  BY <1>1, RankSplit
<1>3. \A x \in S : (p < x /\ x < c) <=> ((p < x /\ x < e) /\ x < c)
  BY <1>1
<1>4. Between(S, p, c) = Below(Between(S, p, e), c)
  BY <1>3 DEF Below, Between
<1> QED
  BY <1>2, <1>4 DEF Rank

\* Passing one candidate counts it if it is a member.
LEMMA RankNext ==
  ASSUME NEW n \in Nat, NEW S \in SUBSET (1 .. n), NEW p \in Nat
  PROVE  Rank(S, p + 2) = IF p + 1 \in S THEN Rank(S, p + 1) + 1 ELSE Rank(S, p + 1)
<1>1. \A x \in S : x \in Int
  OBVIOUS
<1>2. Below(S, p + 1) \in SUBSET S
  BY DEF Below
<1>3. IsFiniteSet(Below(S, p + 1))
  BY <1>2, RankType, FS_Subset, 0 \in Nat
<1>4. \A x \in S : x < p + 2 <=> (x < p + 1 \/ x = p + 1)
  BY <1>1
<1>5. p + 1 \notin Below(S, p + 1)
  BY DEF Below
<1>6. CASE p + 1 \in S
  <2>1. Below(S, p + 2) = Below(S, p + 1) \cup {p + 1}
    BY <1>4, <1>6 DEF Below
  <2> QED
    BY <1>3, <1>5, <1>6, <2>1, FS_AddElement DEF Rank
<1>7. CASE p + 1 \notin S
  <2>1. Below(S, p + 2) = Below(S, p + 1)
    BY <1>4, <1>7 DEF Below
  <2> QED
    BY <1>7, <2>1 DEF Rank
<1> QED
  BY <1>6, <1>7

-----------------------------------------------------------------------------
\* The sizes are natural numbers and the kept slots are slots.
LEMMA Sizes ==
  /\ N \in Nat /\ N > 0 /\ Width \in Nat /\ Width > 0 /\ Slack \in Nat
  /\ Width <= Slack + 1
  /\ Block \in Nat
BY SizesAssumption DEF Block

\* One candidate of the scalar kernel: it goes on standing in the stream.
LEMMA KeepStep ==
  ASSUME TypeOK, NEW k \in Kernel, k.count <= N,
         NEW p \in Nat, StandsAt(k, p)
  PROVE  /\ Keep(k, p + 1) \in Kernel
         /\ Keep(k, p + 1).count <= N
         /\ Keep(k, p + 1).pos = k.pos /\ Keep(k, p + 1).busy = k.busy
         /\ StandsAt(Keep(k, p + 1), p + 1)
         /\ \A i \in Kept(k) : /\ i \in Kept(Keep(k, p + 1))
                               /\ Keep(k, p + 1).out[i] = k.out[i]
<1>1. /\ squeezed \in Nat /\ accepted \in SUBSET (1 .. squeezed)
      /\ k.count \in Nat /\ k.pos \in Nat /\ k.out \in [Slots -> Nat]
  BY DEF TypeOK, Kernel
<1>2. Rank(accepted, p + 1) \in Nat
  BY <1>1, p + 1 \in Nat, RankType
<1>3. Rank(accepted, p + 2) = IF p + 1 \in accepted THEN Rank(accepted, p + 1) + 1
                                                    ELSE Rank(accepted, p + 1)
  BY <1>1, RankNext
<1>4. CASE p + 1 \in accepted /\ k.count < N
  <2>1. PICK K : K = Keep(k, p + 1)
    OBVIOUS
  <2>2. K = [k EXCEPT !.out[k.count] = p + 1, !.count = k.count + 1]
    BY <1>4, <2>1 DEF Keep
  <2>3. k.count \in Slots
    BY <1>1, <1>4, Sizes DEF Slots
  <2>4. k.count + 1 \in 0 .. N + Width - 1 /\ k.count + 1 <= N
    BY <1>1, <1>4, Sizes
  <2>5. K = [busy |-> k.busy, pos |-> k.pos, count |-> k.count + 1,
             out |-> [k.out EXCEPT ![k.count] = p + 1]]
    BY <2>2 DEF Kernel
  <2>6. K \in Kernel
    <3>1. [k.out EXCEPT ![k.count] = p + 1] \in [Slots -> Nat]
      <4>1. p + 1 \in Nat
        OBVIOUS
      <4> QED
        BY <1>1, <4>1
    <3>2. k.busy \in BOOLEAN
      BY DEF Kernel
    <3> QED
      BY <1>1, <2>4, <2>5, <3>1, <3>2 DEF Kernel
  <2>7. Rank(accepted, p + 1) = k.count
    BY <1>4 DEF StandsAt
  <2>8. Kept(K) = Kept(k) \cup {k.count}
    BY <1>1, <1>4, <2>4, <2>5, Sizes DEF Kept
  <2>9. \A i \in Kept(k) : i # k.count /\ i \in Slots
    BY <1>1, Sizes DEF Kept, Slots
  <2>10. \A i \in Kept(k) : K.out[i] = k.out[i]
    BY <1>1, <2>5, <2>9
  <2>11. K.out[k.count] = p + 1
    BY <1>1, <2>3, <2>5
  <2>12. \A i \in Kept(K) : /\ K.out[i] \in accepted
                            /\ K.out[i] <= p + 1
                            /\ Rank(accepted, K.out[i]) = i
    <3> TAKE i \in Kept(K)
    <3>1. CASE i \in Kept(k)
      <4>1. k.out[i] \in accepted /\ k.out[i] <= p /\ Rank(accepted, k.out[i]) = i
        BY <3>1 DEF StandsAt
      <4>2. k.out[i] \in Nat
        BY <1>1, <2>9, <3>1
      <4>3. k.out[i] <= p + 1
        BY <4>1, <4>2
      <4> QED
        BY <2>10, <3>1, <4>1, <4>3
    <3>2. CASE i = k.count
      BY <1>4, <2>7, <2>11, <3>2
    <3> QED
      BY <2>8, <3>1, <3>2
  <2>13. StandsAt(K, p + 1)
    BY <1>1, <1>3, <1>4, <2>4, <2>5, <2>7, <2>12, Sizes DEF StandsAt
  <2> QED
    BY <2>1, <2>4, <2>5, <2>6, <2>8, <2>10, <2>13
<1>5. CASE ~(p + 1 \in accepted /\ k.count < N)
  <2>1. Keep(k, p + 1) = k
    BY <1>5 DEF Keep
  <2>2. ASSUME NEW i \in Kept(k) PROVE k.out[i] <= p + 1
    <3>1. k.out[i] <= p /\ k.out[i] \in accepted
      BY DEF StandsAt
    <3>2. k.out[i] \in Nat
      BY <1>1, <3>1
    <3> QED
      BY <3>1, <3>2
  <2>3. StandsAt(k, p + 1)
    BY <1>1, <1>2, <1>3, <1>5, <2>2, Sizes DEF StandsAt
  <2> QED
    BY <2>1, <2>3
<1> QED
  BY <1>4, <1>5

\* The packing table lists the accepted candidates of a group in stream order.
LEMMA PackedStep ==
  ASSUME TypeOK, NEW p \in Nat, NEW r \in Nat
  PROVE  /\ Packed(p, r) \in Nat
         /\ r < Cardinality(GroupHits(p))
              => /\ Packed(p, r) \in GroupHits(p)
                 /\ Rank(accepted, Packed(p, r)) = Rank(accepted, p + 1) + r
<1>1. /\ squeezed \in Nat /\ accepted \in SUBSET (1 .. squeezed)
      /\ p + Width + 1 \in Nat
  BY Sizes DEF TypeOK
<1>2. GroupHits(p) \in SUBSET accepted /\ GroupHits(p) \in SUBSET (1 .. squeezed)
  BY <1>1 DEF GroupHits, Between
<1>3. PICK nth : nth = {c \in GroupHits(p) : Rank(GroupHits(p), c) = r}
  OBVIOUS
<1>4. Packed(p, r) = IF nth = {} THEN 0 ELSE CHOOSE c \in nth : TRUE
  BY <1>3 DEF Packed
<1>5. Packed(p, r) \in Nat
  BY <1>1, <1>2, <1>3, <1>4
<1>6. ASSUME r < Cardinality(GroupHits(p))
      PROVE  /\ Packed(p, r) \in GroupHits(p)
             /\ Rank(accepted, Packed(p, r)) = Rank(accepted, p + 1) + r
  <2>1. \E c \in GroupHits(p) : Rank(GroupHits(p), c) = r
    BY <1>1, <1>2, <1>6, RankOnto
  <2>2. Packed(p, r) \in nth
    BY <1>3, <1>4, <2>1
  <2>3. Packed(p, r) \in GroupHits(p) /\ Rank(GroupHits(p), Packed(p, r)) = r
    BY <1>3, <2>2
  <2>4. Packed(p, r) \in Between(accepted, p, p + Width + 1)
        /\ Rank(Between(accepted, p, p + Width + 1), Packed(p, r)) = r
    BY <2>3 DEF GroupHits
  <2> QED
    BY <1>1, <2>3, <2>4, RankInGroup
<1> QED
  BY <1>5, <1>6

\* A group has at most Width accepted candidates.
LEMMA HitsStep ==
  ASSUME TypeOK, NEW p \in Nat
  PROVE  /\ Cardinality(GroupHits(p)) \in Nat
         /\ Cardinality(GroupHits(p)) <= Width
         /\ Rank(accepted, p + Width + 1)
              = Rank(accepted, p + 1) + Cardinality(GroupHits(p))
<1>1. /\ squeezed \in Nat /\ accepted \in SUBSET (1 .. squeezed)
      /\ p + Width + 1 \in Nat /\ p < p + Width + 1
  BY Sizes DEF TypeOK
<1>2. GroupHits(p) \in SUBSET (p + 1 .. p + Width)
  <2>1. ASSUME NEW c \in GroupHits(p) PROVE c \in p + 1 .. p + Width
    <3>1. c \in accepted /\ p < c /\ c < p + Width + 1
      BY DEF GroupHits, Between
    <3>2. c \in Nat
      BY <1>1, <3>1
    <3> QED
      BY <3>1, <3>2, Sizes
  <2> QED
    BY <2>1
<1>3. /\ IsFiniteSet(p + 1 .. p + Width)
      /\ Cardinality(p + 1 .. p + Width) = Width
  BY Sizes, FS_Interval
<1>4. Cardinality(GroupHits(p)) <= Width
  BY <1>2, <1>3, FS_Subset
<1> QED
  BY <1>1, <1>4, RankSplit DEF GroupHits

\* One group of the vector kernel: it goes on standing in the stream.
LEMMA GroupStep ==
  ASSUME IInv, VectorGroup
  PROVE  /\ vector' \in Kernel
         /\ vector'.busy
         /\ StandsAt(vector, vector.pos)'
         /\ \A i \in Kept(vector) : /\ i \in Kept(vector')
                                    /\ vector'.out[i] = vector.out[i]
<1> DEFINE p == vector.pos
           n == vector.count
           hits == Cardinality(GroupHits(p))
<1>1. /\ squeezed \in Nat /\ accepted \in SUBSET (1 .. squeezed)
      /\ vector \in Kernel /\ TypeOK
  BY DEF IInv, TypeOK
<1>2. /\ p \in Nat /\ n \in Nat /\ n < N /\ vector.out \in [Slots -> Nat]
      /\ vector.busy /\ accepted' = accepted
  BY <1>1 DEF Kernel, VectorGroup
<1>3. PICK out : out = [i \in Slots |-> IF i \in n .. n + Width - 1
                                        THEN Packed(p, i - n) ELSE vector.out[i]]
  OBVIOUS
<1>4. vector' = [vector EXCEPT !.pos = p + Width, !.count = n + hits, !.out = out]
  BY <1>3 DEF VectorGroup
<1>5. vector' = [busy |-> vector.busy, pos |-> p + Width, count |-> n + hits,
                 out |-> out]
  BY <1>1, <1>4 DEF Kernel
<1>6. /\ hits \in Nat /\ hits <= Width
      /\ Rank(accepted, p + Width + 1) = Rank(accepted, p + 1) + hits
  BY <1>1, <1>2, HitsStep
<1>7. StandsAt(vector, p)
  BY DEF IInv
<1>8. Rank(accepted, p + 1) = n
  BY <1>2, <1>7 DEF StandsAt
<1>9. out \in [Slots -> Nat]
  <2>1. ASSUME NEW i \in Slots, i \in n .. n + Width - 1 PROVE Packed(p, i - n) \in Nat
    <3>1. i - n \in Nat
      BY <1>2, <2>1, Sizes
    <3> QED
      BY <1>1, <1>2, <3>1, PackedStep
  <2> QED
    BY <1>2, <1>3, <2>1
<1>10. vector' \in Kernel /\ vector'.busy
  <2>1. n + hits \in 0 .. N + Width - 1 /\ p + Width \in Nat
    BY <1>2, <1>6, Sizes
  <2>2. vector.busy \in BOOLEAN
    BY <1>1 DEF Kernel
  <2> QED
    BY <1>2, <1>5, <1>9, <2>1, <2>2 DEF Kernel
<1>11. ASSUME NEW i \in Kept(vector)
       PROVE  /\ i \in Slots /\ out[i] = vector.out[i]
              /\ i \in Kept(vector')
              /\ vector.out[i] \in accepted /\ vector.out[i] <= p
              /\ Rank(accepted, vector.out[i]) = i
  <2>1. i \in 0 .. n - 1
    BY <1>2 DEF Kept
  <2>2. i \in Slots /\ i \notin n .. n + Width - 1
    BY <1>2, <2>1, Sizes DEF Slots
  <2>3. i \in Kept(vector')
    BY <1>2, <1>5, <1>6, <2>1, Sizes DEF Kept
  <2> QED
    BY <1>3, <1>7, <2>2, <2>3 DEF StandsAt
<1>12. ASSUME NEW i \in Kept(vector')
       PROVE  /\ out[i] \in accepted
              /\ out[i] <= p + Width
              /\ Rank(accepted, out[i]) = i
  <2>1. i \in Nat /\ i < N /\ i < n + hits /\ i \in Slots
    BY <1>2, <1>5, <1>6, Sizes DEF Kept, Slots
  <2>2. CASE i < n
    <3>1. i \in Kept(vector)
      BY <1>2, <2>1, <2>2 DEF Kept
    <3>2. /\ out[i] = vector.out[i]
          /\ vector.out[i] \in accepted /\ vector.out[i] <= p
          /\ Rank(accepted, vector.out[i]) = i
      BY <1>11, <3>1
    <3>3. vector.out[i] \in Nat
      BY <1>2, <2>1
    <3>4. vector.out[i] <= p + Width
      BY <1>2, <3>2, <3>3, Sizes
    <3> QED
      BY <3>2, <3>4
  <2>3. CASE i >= n
    <3>1. /\ i \in n .. n + Width - 1 /\ i - n \in Nat /\ i - n < hits
          /\ n + (i - n) = i
      BY <1>2, <1>6, <2>1, <2>3, Sizes
    <3>2. out[i] = Packed(p, i - n)
      BY <1>3, <2>1, <3>1
    <3>3. /\ out[i] \in GroupHits(p)
          /\ Rank(accepted, out[i]) = Rank(accepted, p + 1) + (i - n)
      BY <1>1, <1>2, <3>1, <3>2, PackedStep
    <3>4. out[i] \in accepted /\ out[i] < p + Width + 1
      BY <3>3 DEF GroupHits, Between
    <3>5. out[i] <= p + Width
      <4>1. out[i] \in Nat
        BY <1>9, <2>1
      <4> QED
        BY <1>2, <3>4, <4>1, Sizes
    <3> QED
      BY <1>8, <3>1, <3>3, <3>4, <3>5
  <2> QED
    BY <1>2, <2>1, <2>2, <2>3
<1>13. Rank(accepted, p + Width + 1) = n + hits
  BY <1>6, <1>8
<1>14. StandsAt(vector, vector.pos)'
  BY <1>2, <1>5, <1>6, <1>12, <1>13, Sizes DEF StandsAt
<1> QED
  BY <1>5, <1>10, <1>11, <1>14

\* Squeezing further adds accepted candidates after all those dealt with.
LEMMA SqueezeStep ==
  ASSUME IInv, Squeeze
  PROVE  /\ accepted' \in SUBSET (1 .. squeezed') /\ squeezed' \in Nat
         /\ accepted \in SUBSET accepted'
         /\ \A c \in 0 .. squeezed + 1 : Rank(accepted', c) = Rank(accepted, c)
         /\ \A c \in Nat : Rank(accepted, c) <= Rank(accepted', c)
<1>1. /\ squeezed \in Nat /\ accepted \in SUBSET (1 .. squeezed)
      /\ squeezed' = squeezed + Block /\ Block \in Nat
  BY Sizes DEF IInv, TypeOK, Squeeze
<1>2. PICK mask \in SUBSET (squeezed + 1 .. squeezed + Block) :
        accepted' = accepted \cup mask
  BY DEF Squeeze
<1>3. accepted' \in SUBSET (1 .. squeezed') /\ squeezed' \in Nat
  BY <1>1, <1>2
<1>4. ASSUME NEW c \in 0 .. squeezed + 1
      PROVE  Rank(accepted', c) = Rank(accepted, c)
  <2>1. \A x \in mask : ~(x < c)
    BY <1>1
  <2>2. Below(accepted', c) = Below(accepted, c)
    BY <1>2, <2>1 DEF Below
  <2> QED
    BY <2>2 DEF Rank
<1>5. ASSUME NEW c \in Nat
      PROVE  Rank(accepted, c) <= Rank(accepted', c)
  <2>1. Below(accepted, c) \in SUBSET Below(accepted', c)
    BY <1>2 DEF Below
  <2>2. IsFiniteSet(accepted')
    BY <1>3, RankType, 0 \in Nat
  <2>3. Below(accepted', c) \in SUBSET accepted'
    BY DEF Below
  <2>4. IsFiniteSet(Below(accepted', c))
    BY <2>2, <2>3, FS_Subset
  <2> QED
    BY <2>1, <2>4, FS_Subset DEF Rank
<1> QED
  BY <1>2, <1>3, <1>4, <1>5

\* A kernel that is called on the squeezed block still stands in the stream.
LEMMA CallStep ==
  ASSUME IInv, Squeeze, NEW k \in {scalar, vector},
         NEW K, K = [k EXCEPT !.busy = TRUE, !.pos = squeezed]
  PROVE  /\ K \in Kernel /\ K.busy /\ K.count = k.count /\ K.out = k.out
         /\ \A i \in Kept(K) : /\ K.out[i] \in accepted'
                               /\ K.out[i] <= squeezed
                               /\ Rank(accepted', K.out[i]) = i
         /\ K.pos = squeezed
         /\ K.count < N => Rank(accepted', squeezed + 1) = K.count
         /\ K.count >= N => Rank(accepted', squeezed + 1) >= N
<1>1. /\ squeezed \in Nat /\ accepted \in SUBSET (1 .. squeezed)
      /\ k \in Kernel /\ ~k.busy /\ StandsAt(k, k.pos)
      /\ k.count < N => k.pos = squeezed
  BY DEF IInv, TypeOK, Squeeze
<1>2. K = [busy |-> TRUE, pos |-> squeezed, count |-> k.count, out |-> k.out]
  BY <1>1 DEF Kernel
<1>3. K \in Kernel
  BY <1>1, <1>2 DEF Kernel
<1>4. k.count \in Nat /\ k.pos \in Nat
  BY <1>1 DEF Kernel
<1>5. squeezed + 1 \in 0 .. squeezed + 1 /\ squeezed + 1 \in Nat
  BY <1>1
<1>6. Kept(K) = Kept(k)
  BY <1>2 DEF Kept
<1>7. ASSUME NEW i \in Kept(K)
      PROVE  /\ K.out[i] \in accepted'
             /\ K.out[i] <= squeezed
             /\ Rank(accepted', K.out[i]) = i
  <2>1. K.out[i] \in accepted /\ Rank(accepted, K.out[i]) = i
    BY <1>1, <1>2, <1>6 DEF StandsAt
  <2>2. K.out[i] \in 0 .. squeezed + 1 /\ K.out[i] <= squeezed
    BY <1>1, <2>1
  <2> QED
    BY <2>1, <2>2, SqueezeStep
<1>8. k.count < N => Rank(accepted', squeezed + 1) = k.count
  <2>1. Rank(accepted', squeezed + 1) = Rank(accepted, squeezed + 1)
    BY <1>5, SqueezeStep
  <2> QED
    BY <1>1, <2>1 DEF StandsAt
<1>9. k.count >= N => Rank(accepted', squeezed + 1) >= N
  <2>1. SUFFICES ASSUME k.count >= N PROVE Rank(accepted', squeezed + 1) >= N
    OBVIOUS
  <2>2. Rank(accepted, k.pos + 1) >= N /\ k.pos + 1 \in Nat
    BY <1>1, <1>4, <2>1 DEF StandsAt
  <2>3. Rank(accepted, squeezed + 1) >= Rank(accepted, k.pos + 1)
    <3>1. Rank(accepted, squeezed + 1) = Cardinality(accepted)
      <4>1. \A x \in accepted : x < squeezed + 1
        BY <1>1
      <4>2. Below(accepted, squeezed + 1) = accepted
        BY <4>1 DEF Below
      <4> QED
        BY <4>2 DEF Rank
    <3>2. /\ Rank(accepted, k.pos + 1) <= Cardinality(accepted)
          /\ Cardinality(accepted) \in Nat /\ Rank(accepted, k.pos + 1) \in Nat
      BY <1>1, <2>2, RankType
    <3> QED
      BY <3>1, <3>2
  <2>4. Rank(accepted', squeezed + 1) = Rank(accepted, squeezed + 1)
    BY <1>5, SqueezeStep
  <2>5. Rank(accepted, k.pos + 1) \in Nat /\ Rank(accepted, squeezed + 1) \in Nat
    BY <1>1, <1>5, <2>2, RankType
  <2> QED
    BY <2>2, <2>3, <2>4, <2>5, Sizes
<1> QED
  BY <1>2, <1>3, <1>7, <1>8, <1>9

-----------------------------------------------------------------------------
\* The scalar kernel's chunk is two candidates.
LEMMA ChunkStep ==
  ASSUME IInv, ScalarChunk
  PROVE  /\ scalar' \in Kernel /\ scalar'.count <= N /\ scalar'.busy
         /\ StandsAt(scalar, scalar.pos)'
         /\ \A i \in Kept(scalar) : /\ i \in Kept(scalar')
                                    /\ scalar'.out[i] = scalar.out[i]
<1> DEFINE p == scalar.pos
           A == Keep(scalar, p + 1)
           B == Keep(A, p + 2)
<1>1. /\ TypeOK /\ scalar \in Kernel /\ scalar.busy /\ scalar.count <= N
      /\ accepted' = accepted /\ StandsAt(scalar, p)
  BY DEF IInv, TypeOK, ScalarChunk
<1>2. p \in Nat
  BY <1>1 DEF Kernel
<1>3. /\ A \in Kernel /\ A.count <= N /\ A.busy /\ StandsAt(A, p + 1)
      /\ \A i \in Kept(scalar) : i \in Kept(A) /\ A.out[i] = scalar.out[i]
  BY <1>1, <1>2, KeepStep
<1>4. p + 1 \in Nat /\ p + 1 + 1 = p + 2 /\ p + 2 \in Nat
  BY <1>2
<1> HIDE DEF A
<1>5. /\ B \in Kernel /\ B.count <= N /\ B.busy /\ StandsAt(B, p + 2)
      /\ \A i \in Kept(A) : i \in Kept(B) /\ B.out[i] = A.out[i]
  <2>1. /\ Keep(A, p + 1 + 1) \in Kernel
        /\ Keep(A, p + 1 + 1).count <= N
        /\ Keep(A, p + 1 + 1).busy = A.busy
        /\ StandsAt(Keep(A, p + 1 + 1), p + 1 + 1)
        /\ \A i \in Kept(A) : /\ i \in Kept(Keep(A, p + 1 + 1))
                              /\ Keep(A, p + 1 + 1).out[i] = A.out[i]
    BY <1>1, <1>3, <1>4, KeepStep
  <2> QED
    BY <1>3, <1>4, <2>1
<1>6. scalar' = [B EXCEPT !.pos = p + 2]
  BY DEF ScalarChunk, A
<1> HIDE DEF B, p
<1>7. scalar' = [busy |-> B.busy, pos |-> p + 2, count |-> B.count, out |-> B.out]
  BY <1>5, <1>6 DEF Kernel
<1>8. scalar' \in Kernel
  BY <1>4, <1>5, <1>7 DEF Kernel
<1>9. Kept(scalar') = Kept(B)
  BY <1>7 DEF Kept
<1>10. StandsAt(scalar, scalar.pos)'
  BY <1>1, <1>5, <1>7, <1>9 DEF StandsAt
<1> QED
  BY <1>3, <1>5, <1>7, <1>8, <1>9, <1>10

-----------------------------------------------------------------------------
\* The initial buffers are empty and stand at the start of the stream.
LEMMA InitStep ==
  ASSUME Init
  PROVE  IInv
<1>1. /\ squeezed = 0 /\ accepted = {} /\ scalar = Idle /\ vector = Idle
  BY DEF Init
<1>2. Idle \in Kernel /\ Idle.count = 0 /\ Idle.pos = 0 /\ Idle.busy = FALSE
  BY Sizes DEF Idle, Kernel
<1>3. TypeOK
  BY <1>1, <1>2, Sizes DEF TypeOK
<1>4. Below(accepted, 1) = {}
  BY <1>1 DEF Below
<1>5. Rank(accepted, 0 + 1) = 0
  BY <1>4, FS_EmptySet DEF Rank
<1>6. Kept(Idle) = {}
  BY <1>2, Sizes DEF Kept
<1>7. StandsAt(Idle, 0)
  BY <1>2, <1>5, <1>6, Sizes DEF StandsAt
<1> QED
  BY <1>1, <1>2, <1>3, <1>7, Sizes DEF IInv

\* What every step of the system does to the invariant and to the slots in use.
LEMMA NextStep ==
  ASSUME IInv, [Next]_vars
  PROVE  /\ IInv'
         /\ \A i \in Kept(scalar) : i \in Kept(scalar') /\ scalar'.out[i] = scalar.out[i]
         /\ \A i \in Kept(vector) : i \in Kept(vector') /\ vector'.out[i] = vector.out[i]
<1>1. /\ squeezed \in Nat /\ accepted \in SUBSET (1 .. squeezed)
      /\ scalar \in Kernel /\ vector \in Kernel
      /\ scalar.count <= N /\ (~vector.busy => vector.count <= N)
      /\ StandsAt(scalar, scalar.pos) /\ StandsAt(vector, vector.pos)
      /\ ~scalar.busy /\ scalar.count < N => scalar.pos = squeezed
      /\ ~vector.busy /\ vector.count < N => vector.pos = squeezed
  BY DEF IInv, TypeOK
<1>2. CASE Squeeze
  <2>1. /\ accepted' \in SUBSET (1 .. squeezed') /\ squeezed' \in Nat
    BY <1>2, SqueezeStep
  <2>2. /\ scalar' = [scalar EXCEPT !.busy = TRUE, !.pos = squeezed]
        /\ vector' = [vector EXCEPT !.busy = TRUE, !.pos = squeezed]
        /\ ~scalar.busy /\ ~vector.busy
    BY <1>2 DEF Squeeze
  <2>3. /\ scalar' \in Kernel /\ scalar'.busy
        /\ scalar'.count = scalar.count /\ scalar'.out = scalar.out
    BY <1>2, <2>2, CallStep
  <2>4. /\ vector' \in Kernel /\ vector'.busy
        /\ vector'.count = vector.count /\ vector'.out = vector.out
    BY <1>2, <2>2, CallStep
  <2>5. StandsAt(scalar, scalar.pos)'
    BY <1>2, <2>2, CallStep DEF StandsAt
  <2>6. StandsAt(vector, vector.pos)'
    BY <1>2, <2>2, CallStep DEF StandsAt
  <2>7. IInv'
    BY <1>1, <2>1, <2>3, <2>4, <2>5, <2>6 DEF IInv, TypeOK
  <2>8. Kept(scalar') = Kept(scalar) /\ Kept(vector') = Kept(vector)
    BY <2>3, <2>4 DEF Kept
  <2> QED
    BY <2>3, <2>4, <2>7, <2>8
<1>3. CASE ScalarChunk
  <2>1. UNCHANGED <<squeezed, accepted, vector>>
    BY <1>3 DEF ScalarChunk
  <2>2. /\ scalar' \in Kernel /\ scalar'.count <= N /\ scalar'.busy
        /\ StandsAt(scalar, scalar.pos)'
        /\ \A i \in Kept(scalar) : /\ i \in Kept(scalar')
                                   /\ scalar'.out[i] = scalar.out[i]
    BY <1>3, ChunkStep
  <2>3. StandsAt(vector, vector.pos)'
    BY <1>1, <2>1 DEF StandsAt
  <2>4. IInv'
    BY <1>1, <2>1, <2>2, <2>3 DEF IInv, TypeOK
  <2> QED
    BY <2>1, <2>2, <2>4
<1>4. CASE ScalarReturn
  <2>1. /\ UNCHANGED <<squeezed, accepted, vector>>
        /\ scalar' = [scalar EXCEPT !.busy = FALSE]
        /\ scalar.pos = squeezed \/ scalar.count >= N
    BY <1>4 DEF ScalarReturn
  <2>2. scalar' = [busy |-> FALSE, pos |-> scalar.pos, count |-> scalar.count,
                   out |-> scalar.out]
    BY <1>1, <2>1 DEF Kernel
  <2>3. scalar' \in Kernel /\ scalar.count \in Nat
    BY <1>1, <2>2 DEF Kernel
  <2>4. Kept(scalar') = Kept(scalar)
    BY <2>2 DEF Kept
  <2>5. StandsAt(scalar, scalar.pos)' /\ StandsAt(vector, vector.pos)'
    BY <1>1, <2>1, <2>2, <2>4 DEF StandsAt
  <2>6. ~scalar'.busy /\ scalar'.count < N => scalar'.pos = squeezed'
    BY <2>1, <2>2, <2>3, Sizes
  <2>7. IInv'
    BY <1>1, <2>1, <2>2, <2>3, <2>5, <2>6 DEF IInv, TypeOK
  <2> QED
    BY <2>1, <2>2, <2>4, <2>7
<1>5. CASE VectorGroup
  <2>1. UNCHANGED <<squeezed, accepted, scalar>>
    BY <1>5 DEF VectorGroup
  <2>2. /\ vector' \in Kernel /\ vector'.busy
        /\ StandsAt(vector, vector.pos)'
        /\ \A i \in Kept(vector) : /\ i \in Kept(vector')
                                   /\ vector'.out[i] = vector.out[i]
    BY <1>5, GroupStep
  <2>3. StandsAt(scalar, scalar.pos)'
    BY <1>1, <2>1 DEF StandsAt
  <2>4. IInv'
    BY <1>1, <2>1, <2>2, <2>3 DEF IInv, TypeOK
  <2> QED
    BY <2>1, <2>2, <2>4
<1>6. CASE VectorReturn
  <2>1. /\ UNCHANGED <<squeezed, accepted, scalar>>
        /\ vector' = [vector EXCEPT !.busy = FALSE,
                                    !.count = IF @ < N THEN @ ELSE N]
        /\ vector.pos = squeezed \/ vector.count >= N
    BY <1>6 DEF VectorReturn
  <2>2. PICK n : n = IF vector.count < N THEN vector.count ELSE N
    OBVIOUS
  <2>3. vector.count \in Nat
    BY <1>1 DEF Kernel
  <2>4. n \in 0 .. N + Width - 1 /\ n <= N /\ (n < N <=> vector.count < N)
        /\ (vector.count < N => n = vector.count)
    BY <2>2, <2>3, Sizes
  <2>5. vector' = [busy |-> FALSE, pos |-> vector.pos, count |-> n, out |-> vector.out]
    BY <1>1, <2>1, <2>2 DEF Kernel
  <2>6. vector' \in Kernel
    BY <1>1, <2>4, <2>5 DEF Kernel
  <2>7. Kept(vector') = Kept(vector)
    BY <2>2, <2>3, <2>4, <2>5, Sizes DEF Kept
  <2>8. vector'.count >= N => vector.count >= N
    BY <2>3, <2>4, <2>5, Sizes
  <2>9. StandsAt(vector, vector.pos)'
    <3>1. /\ vector'.pos = vector.pos /\ vector'.out = vector.out
          /\ accepted' = accepted
      BY <2>1, <2>5
    <3>2. vector'.count < N => vector.count < N /\ vector'.count = vector.count
      BY <2>4, <2>5
    <3>3. \A i \in Kept(vector') : /\ vector'.out[i] \in accepted'
                                   /\ vector'.out[i] <= vector'.pos
                                   /\ Rank(accepted', vector'.out[i]) = i
      BY <1>1, <2>7, <3>1 DEF StandsAt
    <3>4. vector'.count < N => Rank(accepted', vector'.pos + 1) = vector'.count
      BY <1>1, <3>1, <3>2 DEF StandsAt
    <3>5. vector'.count >= N => Rank(accepted', vector'.pos + 1) >= N
      BY <1>1, <2>8, <3>1 DEF StandsAt
    <3> QED
      BY <3>3, <3>4, <3>5 DEF StandsAt
  <2>10. StandsAt(scalar, scalar.pos)'
    BY <1>1, <2>1 DEF StandsAt
  <2>11. ~vector'.busy /\ vector'.count < N => vector'.pos = squeezed'
    BY <2>1, <2>3, <2>4, <2>5, Sizes
  <2>12. vector'.count <= N
    BY <2>4, <2>5
  <2>13. TypeOK'
    BY <1>1, <2>1, <2>6, <2>12 DEF TypeOK
  <2>14. IInv'
    BY <1>1, <2>1, <2>9, <2>10, <2>11, <2>13 DEF IInv
  <2> QED
    BY <2>1, <2>5, <2>7, <2>14
<1>7. CASE UNCHANGED vars
  <2>1. UNCHANGED <<squeezed, accepted, scalar, vector>>
    BY <1>7 DEF vars
  <2>2. IInv'
    BY <1>1, <2>1 DEF IInv, TypeOK, StandsAt
  <2> QED
    BY <2>1, <2>2
<1> QED
  BY <1>2, <1>3, <1>4, <1>5, <1>6, <1>7 DEF Next

\* The inductive invariant: after every step both kernels have dealt with the
\* stream up to their positions.
THEOREM IndInvCorrect == Spec => []IInv
<1>1. Init => IInv
  BY InitStep
<1>2. IInv /\ [Next]_vars => IInv'
  BY NextStep
<1> QED
  BY <1>1, <1>2, PTL DEF Spec

\* Counts and slots stay in their ranges (src/src/sampling/arch.rs:29).
THEOREM TypeCorrect == Spec => []TypeOK
<1>1. IInv => TypeOK
  BY DEF IInv
<1> QED
  BY <1>1, IndInvCorrect, PTL

\* Every unchecked vector store ends inside the buffer: the SAFETY comment of
\* the kernels (src/src/sampling/arch/avx2.rs:60).
THEOREM StoresInside == Spec => StoresStayInside
<1>1. ASSUME IInv, [Next]_vars
      PROVE  [vector.busy /\ vector'.pos > vector.pos
                => vector.count + Width - 1 \in Slots]_vars
  <2>1. /\ squeezed \in Nat /\ vector \in Kernel
    BY <1>1 DEF IInv, TypeOK
  <2>2. vector.count \in Nat /\ vector.pos \in Nat
    BY <2>1 DEF Kernel
  <2>3. CASE Squeeze
    BY <2>3 DEF Squeeze
  <2>4. CASE ScalarChunk \/ ScalarReturn
    BY <2>2, <2>4 DEF ScalarChunk, ScalarReturn
  <2>5. CASE VectorGroup
    <3>1. vector.count < N
      BY <2>5 DEF VectorGroup
    <3> QED
      BY <2>2, <3>1, Sizes DEF Slots
  <2>6. CASE VectorReturn
    <3>1. vector'.pos = vector.pos
      BY <2>1, <2>6 DEF VectorReturn, Kernel
    <3> QED
      BY <2>2, <3>1
  <2> QED
    BY <1>1, <2>3, <2>4, <2>5, <2>6 DEF Next
<1> QED
  BY <1>1, IndInvCorrect, PTL DEF Spec, StoresStayInside

\* Each buffer holds the first accepted candidates of its stream, in order
\* (src/src/sampling/arch/generic.rs:9).
THEOREM FirstAcceptedHolds == Spec => []FirstAcceptedInOrder
<1>1. IInv => FirstAcceptedInOrder
  BY DEF IInv, StandsAt, FirstAcceptedInOrder
<1> QED
  BY <1>1, IndInvCorrect, PTL

\* The vectorized kernel computes what the scalar one does
\* (src/src/sampling/arch/avx2.rs:49).
THEOREM KernelsAgreeAlways == Spec => []KernelsAgree
<1>1. ASSUME IInv PROVE KernelsAgree
  <2> SUFFICES ASSUME ~scalar.busy, ~vector.busy
               PROVE  /\ scalar.count = vector.count
                      /\ scalar.count < N => scalar.count = Cardinality(accepted)
                      /\ \A i \in Kept(scalar) : scalar.out[i] = vector.out[i]
    BY DEF KernelsAgree
  <2>1. /\ squeezed \in Nat /\ accepted \in SUBSET (1 .. squeezed)
        /\ scalar \in Kernel /\ vector \in Kernel
        /\ scalar.count <= N /\ vector.count <= N
        /\ StandsAt(scalar, scalar.pos) /\ StandsAt(vector, vector.pos)
        /\ scalar.count < N => scalar.pos = squeezed
        /\ vector.count < N => vector.pos = squeezed
    BY <1>1 DEF IInv, TypeOK
  <2>2. /\ scalar.count \in Nat /\ vector.count \in Nat
        /\ scalar.pos \in Nat /\ vector.pos \in Nat
    BY <2>1 DEF Kernel
  <2>3. Rank(accepted, squeezed + 1) = Cardinality(accepted)
    <3>1. \A x \in accepted : x < squeezed + 1
      BY <2>1
    <3>2. Below(accepted, squeezed + 1) = accepted
      BY <3>1 DEF Below
    <3> QED
      BY <3>2 DEF Rank
  <2>4. ASSUME NEW k \in {scalar, vector}
        PROVE  /\ k.count < N => Cardinality(accepted) = k.count
               /\ k.count = N => Cardinality(accepted) >= N
    <3>1. k.count < N => Cardinality(accepted) = k.count
      BY <2>1, <2>3 DEF StandsAt
    <3>2. k.pos + 1 \in Nat
      BY <2>2
    <3>3. /\ Rank(accepted, k.pos + 1) <= Cardinality(accepted)
          /\ Rank(accepted, k.pos + 1) \in Nat /\ Cardinality(accepted) \in Nat
      BY <2>1, <3>2, RankType
    <3>4. k.count = N => Rank(accepted, k.pos + 1) >= N
      BY <2>1, Sizes DEF StandsAt
    <3> QED
      BY <3>1, <3>3, <3>4, Sizes
  <2>5. scalar.count = vector.count
    BY <2>1, <2>2, <2>4, Sizes
  <2>6. ASSUME NEW i \in Kept(scalar) PROVE scalar.out[i] = vector.out[i]
    <3>1. i \in Kept(vector)
      BY <2>5 DEF Kept
    <3>2. /\ scalar.out[i] \in accepted /\ vector.out[i] \in accepted
          /\ Rank(accepted, scalar.out[i]) = Rank(accepted, vector.out[i])
      BY <2>1, <3>1 DEF StandsAt
    <3> QED
      BY <2>1, <3>2, RankInjective
  <2> QED
    BY <2>4, <2>5, <2>6
<1> QED
  BY <1>1, IndInvCorrect, PTL

\* No later store or call drops or rewrites a kept coefficient.
THEOREM KeptHolds == Spec => KeptStaysKept
<1>1. ASSUME IInv, [Next]_vars
      PROVE  [/\ \A i \in Kept(scalar) : i \in Kept(scalar') /\ scalar'.out[i] = scalar.out[i]
              /\ \A i \in Kept(vector) : i \in Kept(vector') /\ vector'.out[i] = vector.out[i]]_vars
  BY <1>1, NextStep
<1> QED
  BY <1>1, IndInvCorrect, PTL DEF Spec, KeptStaysKept

-----------------------------------------------------------------------------
\* The expansion of the matrix.

\* Row and column of a flat index are natural numbers.
LEMMA IndexType ==
  ASSUME NEW n \in Nat, rank \in Nat, rank > 0
  PROVE  n % rank \in Nat /\ n \div rank \in Nat /\ Indices(n) \in Streams
<1>1. n % rank \in Nat /\ n \div rank \in Nat
  OBVIOUS
<1> QED
  BY <1>1 DEF Indices, Streams

\* The flat index of row i, column j is taken apart into j and i again.
LEMMA IndexSplit ==
  ASSUME rank \in Nat, rank > 0, NEW i \in 0 .. rank - 1, NEW j \in 0 .. rank - 1
  PROVE  i * rank + j \in 0 .. rank * rank - 1 /\ Indices(i * rank + j) = <<j, i>>
<1>1. i * rank + j \in Nat
  OBVIOUS
<1>2. i * rank <= (rank - 1) * rank
  OBVIOUS
<1>3. i * rank + j <= rank * rank - 1
  BY <1>2
<1>4. (i * rank + j) % rank = j /\ (i * rank + j) \div rank = i
  OBVIOUS
<1> QED
  BY <1>1, <1>3, <1>4 DEF Indices

\* What a positive rank gives to the arithmetic.
LEMMA Positive ==
  ASSUME ExpandAssumption, rank \in Ranks
  PROVE  rank \in Nat /\ rank > 0 /\ rank * rank \in Nat /\ ElementSize \in Nat /\ ElementSize > 0
BY DEF ExpandAssumption

\* An idle sampler is a sampler.
LEMMA IdleType ==
  ASSUME ExpandAssumption
  PROVE  IdleSampler \in Samplers
<1>1. 0 \in 0 .. ElementSize
  BY DEF ExpandAssumption
<1>2. <<0, 0>> \in Streams
  BY DEF Streams
<1> QED
  BY <1>1, <1>2 DEF IdleSampler, Samplers, Lanes

\* The invariant of an expansion holds before its first refill.
LEMMA ExpandInitStep ==
  ASSUME ExpandAssumption, ExpandInit
  PROVE  ExpandIInv
<1>1. rank \in Nat /\ rank > 0 /\ rank * rank \in Nat /\ ElementSize \in Nat /\ ElementSize > 0
  BY Positive DEF ExpandInit
<1>2. sampler \in Samplers
  BY IdleType DEF ExpandInit
<1>3. batch \in [Lanes -> Elements]
  BY <1>1 DEF ExpandInit, Elements, Streams
<1>4. entries = <<>> /\ entries \in Seq(Elements) /\ Len(entries) = 0
  BY DEF ExpandInit
<1>5. ~sampler.busy
  BY DEF ExpandInit, IdleSampler
<1>6. ExpandTypeOK
  BY <1>2, <1>3, <1>4, <1>5 DEF ExpandInit, ExpandTypeOK
<1>7. EntriesOfTheirStreams /\ TransposedIsTranspose
  BY <1>4 DEF ExpandInit, EntriesOfTheirStreams, TransposedIsTranspose
<1>8. 4 * refills <= rank * rank + 3
  BY <1>1 DEF ExpandInit
<1> QED
  BY <1>4, <1>5, <1>6, <1>7, <1>8 DEF ExpandInit, ExpandIInv

\* A refill starts with the next four flat indices.
LEMMA StartStep ==
  ASSUME ExpandAssumption, ExpandIInv, StartBatch
  PROVE  ExpandIInv'
<1>1. rank \in Nat /\ rank > 0 /\ rank * rank \in Nat /\ next \in Nat /\ refills \in Nat
  BY Positive DEF ExpandIInv, ExpandTypeOK
<1>2. \A l \in Lanes : next + l \in Nat /\ Indices(next + l) \in Streams
  <2> TAKE l \in Lanes
  <2>1. next + l \in Nat
    BY <1>1 DEF Lanes
  <2> QED
    BY <1>1, <2>1, IndexType
<1>3. PICK idx : idx = [l \in Lanes |-> Indices(next + l)]
  OBVIOUS
<1>4. idx \in [Lanes -> Streams] /\ \A l \in Lanes : idx[l] = Indices(next + l)
  BY <1>2, <1>3
<1>5. sampler' = [busy |-> TRUE, indices |-> idx,
                  counts |-> [l \in Lanes |-> 0], lane |-> 4, blocks |-> 0]
  BY <1>3 DEF StartBatch, IdleSampler
<1>6. sampler' \in Samplers
  <2>1. 0 \in 0 .. ElementSize
    BY DEF ExpandAssumption
  <2>2. [l \in Lanes |-> 0] \in [Lanes -> 0 .. ElementSize]
    BY <2>1
  <2> QED
    BY <1>4, <1>5, <2>2 DEF Samplers
<1>7. Len(entries) \in Nat /\ Len(entries) < rank * rank /\ taken = 4 /\ next = Len(entries)
  BY <1>1, SMTT(40) DEF StartBatch, ExpandIInv, ExpandTypeOK
<1>8. 4 * refills = next
  BY <1>1, SMTT(40) DEF StartBatch, ExpandIInv
<1>9. refills' = refills + 1 /\ 4 * refills' = next' + 4 /\ 4 * refills' <= rank * rank + 3
  BY <1>1, <1>7, <1>8, SMTT(40) DEF StartBatch
<1>10. ExpandTypeOK'
  BY <1>1, <1>6, <1>9, <1>7, SMTT(40) DEF StartBatch, ExpandIInv, ExpandTypeOK
<1>12. EntriesOfTheirStreams'
  BY DEF StartBatch, ExpandIInv, EntriesOfTheirStreams, Full, Indices
<1>13. TransposedIsTranspose'
  BY DEF StartBatch, ExpandIInv, TransposedIsTranspose
<1>14. sampler'.busy /\ \A l \in Lanes : (sampler.indices[l] = Indices(next + l))'
  <2>1. sampler'.busy /\ sampler'.indices = idx
    BY <1>5
  <2>2. rank' = rank /\ next' = next
    BY DEF StartBatch
  <2>3. \A l \in Lanes : sampler'.indices[l] = <<(next + l) % rank, (next + l) \div rank>>
    BY <1>4, <2>1 DEF Indices
  <2> QED
    BY <2>1, <2>2, <2>3 DEF Indices
<1>15. ~(taken < 4)'
  BY <1>7 DEF StartBatch
<1>16. (next + taken = Len(entries) + 4)'
  BY <1>1, <1>7 DEF StartBatch
<1> QED
  BY <1>9, <1>10, <1>12, <1>13, <1>14, <1>15, <1>16 DEF StartBatch, ExpandIInv

\* A squeeze or a rejected lane changes the sampler's progress only.
LEMMA ProgressStep ==
  ASSUME ExpandAssumption, ExpandIInv, sampler' \in Samplers,
         sampler'.busy = sampler.busy, sampler'.indices = sampler.indices,
         UNCHANGED <<rank, next, taken, batch, entries, transposed, refills>>
  PROVE  ExpandIInv'
<1>1. ExpandTypeOK'
  BY DEF ExpandIInv, ExpandTypeOK
<1>2. EntriesOfTheirStreams' /\ TransposedIsTranspose'
  BY DEF ExpandIInv, EntriesOfTheirStreams, TransposedIsTranspose, Full, Indices
<1>3. (sampler.busy => \A l \in Lanes : sampler.indices[l] = Indices(next + l))'
  BY DEF ExpandIInv, Indices
<1>4. (taken < 4 => \A l \in Lanes : batch[l] = Full(next - 4 + l))'
  BY DEF ExpandIInv, Full, Indices
<1> QED
  BY <1>1, <1>2, <1>3, <1>4 DEF ExpandIInv

\* Every lane squeezes: nothing is accepted yet.
LEMMA SqueezeLanesStep ==
  ASSUME ExpandAssumption, ExpandIInv, SqueezeLanes
  PROVE  ExpandIInv'
<1>1. PICK b \in {0, 1, FirstBlocks} :
        sampler' = [sampler EXCEPT !.lane = 0, !.blocks = b]
  BY DEF SqueezeLanes
<1>2. sampler \in Samplers
  BY DEF ExpandIInv, ExpandTypeOK
<1>3. sampler' = [busy |-> sampler.busy, indices |-> sampler.indices,
                  counts |-> sampler.counts, lane |-> 0, blocks |-> b]
  BY <1>1, <1>2 DEF Samplers
<1>4. sampler' \in Samplers
  BY <1>2, <1>3 DEF Samplers
<1> QED
  BY <1>3, <1>4, ProgressStep DEF SqueezeLanes

\* A lane keeps what its buffer has room for.
LEMMA RejectStep ==
  ASSUME ExpandAssumption, ExpandIInv, NEW l \in Lanes,
         NEW a \in 0 .. PerBlock * FirstBlocks, RejectLane(l, a)
  PROVE  ExpandIInv'
<1>1. sampler \in Samplers /\ sampler.counts \in [Lanes -> 0 .. ElementSize]
  BY DEF ExpandIInv, ExpandTypeOK, Samplers
<1>2. a \in Nat /\ ElementSize \in Nat /\ l \in Nat /\ l + 1 \in 0 .. 4
  BY DEF Lanes, ExpandAssumption
<1>3. sampler.counts[l] \in 0 .. ElementSize
  BY <1>1
<1>4. sampler.counts[l] + a \in Nat
  BY <1>2, <1>3
<1>5. AtMost(sampler.counts[l] + a) \in 0 .. ElementSize
  BY <1>2, <1>4 DEF AtMost
<1>6. PICK cs : cs = [sampler.counts EXCEPT ![l] = AtMost(sampler.counts[l] + a)]
  OBVIOUS
<1>7. cs \in [Lanes -> 0 .. ElementSize]
  BY <1>1, <1>5, <1>6
<1>8. sampler' = [busy |-> sampler.busy, indices |-> sampler.indices,
                  counts |-> cs, lane |-> l + 1, blocks |-> sampler.blocks]
  BY <1>1, <1>6 DEF RejectLane, Samplers
<1>9. sampler' \in Samplers
  BY <1>1, <1>2, <1>7, <1>8 DEF Samplers
<1> QED
  BY <1>8, <1>9, ProgressStep DEF RejectLane

\* Four full lanes become the batch the next four elements are taken from.
LEMMA FinishStep ==
  ASSUME ExpandAssumption, ExpandIInv, FinishBatch
  PROVE  ExpandIInv'
<1>1. /\ rank \in Nat /\ rank > 0 /\ rank * rank \in Nat /\ ElementSize \in Nat
      /\ next \in Nat /\ refills \in Nat /\ Len(entries) \in Nat
  BY Positive DEF ExpandIInv, ExpandTypeOK
<1>2. sampler \in Samplers /\ sampler.busy /\ taken = 4
  BY DEF FinishBatch, ExpandIInv, ExpandTypeOK
<1>3. \A l \in Lanes : sampler.counts[l] = ElementSize
  <2> TAKE l \in Lanes
  <2>1. sampler.counts[l] \in 0 .. ElementSize /\ sampler.counts[l] >= ElementSize
    BY <1>2 DEF FinishBatch, AllFull, Samplers
  <2> QED
    BY <1>1, <2>1
<1>4. \A l \in Lanes : batch'[l] = [stream |-> Indices(next + l), filled |-> ElementSize]
  BY <1>2, <1>3 DEF FinishBatch, ExpandIInv
<1>5. \A l \in Lanes : next + l \in Nat /\ next' - 4 + l = next + l
  BY <1>1 DEF FinishBatch, Lanes
<1>6. \A l \in Lanes : Indices(next + l) \in Streams
  BY <1>1, <1>5, IndexType
<1>7. batch' \in [Lanes -> Elements]
  <2>1. ElementSize \in 0 .. ElementSize
    BY <1>1
  <2>2. ASSUME NEW l \in Lanes PROVE batch'[l] \in Elements
    <3>1. PICK st \in Streams : st = Indices(next + l)
      BY <1>6
    <3>2. batch'[l] = [stream |-> st, filled |-> ElementSize]
      BY <1>4, <3>1
    <3> QED
      BY <2>1, <3>2 DEF Elements
  <2>3. batch' = [l \in Lanes |-> batch'[l]]
    BY DEF FinishBatch
  <2> QED
    BY <2>2, <2>3
<1>8. sampler' \in Samplers /\ ~sampler'.busy
  BY IdleType DEF FinishBatch, IdleSampler
<1>9. ExpandTypeOK'
  BY <1>1, <1>7, <1>8 DEF FinishBatch, ExpandIInv, ExpandTypeOK
<1>10. EntriesOfTheirStreams' /\ TransposedIsTranspose'
  BY DEF FinishBatch, ExpandIInv, EntriesOfTheirStreams, TransposedIsTranspose, Full, Indices
<1>11. (\A l \in Lanes : batch[l] = Full(next - 4 + l))'
  BY <1>4, <1>5 DEF FinishBatch, Full, Indices
<1>12. (next + taken = Len(entries) + 4)'
  BY <1>1, <1>2 DEF FinishBatch, ExpandIInv
<1>13. (4 * refills = next + (IF sampler.busy THEN 4 ELSE 0))' /\ (4 * refills <= rank * rank + 3)'
  BY <1>1, <1>2, <1>8 DEF FinishBatch, ExpandIInv
<1> QED
  BY <1>8, <1>9, <1>10, <1>11, <1>12, <1>13 DEF ExpandIInv

\* The next element of a batch is the next entry of the matrix.
LEMMA YieldStep ==
  ASSUME ExpandAssumption, ExpandIInv, Yield
  PROVE  ExpandIInv'
<1>1. /\ rank \in Nat /\ rank > 0 /\ rank * rank \in Nat /\ ElementSize \in Nat
      /\ next \in Nat /\ refills \in Nat /\ Len(entries) \in Nat
  BY Positive DEF ExpandIInv, ExpandTypeOK
<1>1a. taken \in Nat /\ taken < 4 /\ taken \in Lanes /\ ~sampler.busy
  <2>1. taken \in 0 .. 4
    BY DEF ExpandIInv, ExpandTypeOK
  <2>2. taken < 4 /\ ~sampler.busy
    BY DEF Yield
  <2>3. taken \in 0 .. 3
    BY <2>1, <2>2
  <2> QED
    BY <2>1, <2>2, <2>3 DEF Lanes
<1>2. next - 4 + taken = Len(entries)
  BY <1>1a, <1>1 DEF ExpandIInv
<1>3. batch[taken] = Full(Len(entries)) /\ batch[taken] \in Elements
  BY <1>1a, <1>1, <1>2 DEF ExpandIInv, ExpandTypeOK
<1>4. /\ entries' \in Seq(Elements)
      /\ Len(entries') = Len(entries) + 1
      /\ \A n \in 1 .. Len(entries) : entries'[n] = entries[n]
      /\ entries'[Len(entries) + 1] = batch[taken]
  BY <1>3, AppendProperties DEF Yield, ExpandIInv, ExpandTypeOK
<1>5. ExpandTypeOK'
  BY <1>1a, <1>1, <1>4 DEF Yield, ExpandIInv, ExpandTypeOK
<1>6. \A n \in 1 .. Len(entries') : entries'[n] = Full(n - 1)
  <2> TAKE n \in 1 .. Len(entries')
  <2>1. CASE n \in 1 .. Len(entries)
    BY <1>4, <2>1 DEF ExpandIInv, EntriesOfTheirStreams
  <2>2. CASE n = Len(entries) + 1
    <3>1. n - 1 = Len(entries)
      BY <1>1, <2>2
    <3> QED
      BY <1>3, <1>4, <2>2, <3>1
  <2> QED
    BY <1>1, <1>4, <2>1, <2>2
<1>7. EntriesOfTheirStreams'
  BY <1>6 DEF Yield, EntriesOfTheirStreams, Full, Indices
<1>8. TransposedIsTranspose'
  BY DEF Yield, ExpandIInv, TransposedIsTranspose
<1>9. (taken < 4 => \A l \in Lanes : batch[l] = Full(next - 4 + l))'
  BY <1>1a, <1>1 DEF Yield, ExpandIInv, Full, Indices
<1>10. (next + taken = Len(entries) + 4)'
  BY <1>1a, <1>1, <1>2, <1>4 DEF Yield
<1>11. (4 * refills = next + (IF sampler.busy THEN 4 ELSE 0))' /\ (4 * refills <= rank * rank + 3)'
  BY DEF Yield, ExpandIInv
<1>12. ~sampler'.busy
  BY <1>1a, <1>1 DEF Yield
<1> QED
  BY <1>5, <1>7, <1>8, <1>9, <1>10, <1>11, <1>12 DEF ExpandIInv

\* A whole matrix is transposed entry by entry.
LEMMA TransposeStep ==
  ASSUME ExpandAssumption, ExpandIInv, Transpose
  PROVE  ExpandIInv'
<1>1. rank \in Nat /\ rank > 0 /\ rank * rank \in Nat /\ Len(entries) = rank * rank
  BY Positive DEF ExpandIInv, ExpandTypeOK, Transpose
<1>2. ExpandTypeOK'
  BY DEF Transpose, ExpandIInv, ExpandTypeOK
<1>3. EntriesOfTheirStreams'
  BY DEF Transpose, ExpandIInv, EntriesOfTheirStreams, Full, Indices
<1>4. ASSUME NEW i \in 0 .. rank - 1, NEW j \in 0 .. rank - 1
      PROVE  transposed'[i][j] = [stream |-> <<i, j>>, filled |-> ElementSize]
  <2>1. j * rank + i \in 0 .. rank * rank - 1 /\ Indices(j * rank + i) = <<i, j>>
    BY <1>1, IndexSplit
  <2>2. j * rank + i + 1 \in 1 .. Len(entries) /\ (j * rank + i + 1) - 1 = j * rank + i
    BY <1>1, <2>1
  <2>3. Entry(j, i) = Full(j * rank + i)
    BY <2>2 DEF Entry, ExpandIInv, EntriesOfTheirStreams
  <2>4. transposed'[i][j] = Entry(j, i)
    BY DEF Transpose
  <2> QED
    BY <2>1, <2>3, <2>4 DEF Full
<1>5. TransposedIsTranspose'
  BY <1>4 DEF Transpose, TransposedIsTranspose
<1>6. (sampler.busy => \A l \in Lanes : sampler.indices[l] = Indices(next + l))'
  BY DEF Transpose, ExpandIInv, Indices
<1>7. (taken < 4 => \A l \in Lanes : batch[l] = Full(next - 4 + l))'
  BY DEF Transpose, ExpandIInv, Full, Indices
<1>8. /\ (next + taken = Len(entries) + 4)'
      /\ (4 * refills = next + (IF sampler.busy THEN 4 ELSE 0))'
      /\ (4 * refills <= rank * rank + 3)'
  BY DEF Transpose, ExpandIInv
<1> QED
  BY <1>2, <1>3, <1>5, <1>6, <1>7, <1>8 DEF ExpandIInv

\* Every step of an expansion keeps the invariant.
LEMMA ExpandNextStep ==
  ASSUME ExpandAssumption, ExpandIInv, [ExpandNext]_expandVars
  PROVE  ExpandIInv'
<1>1. CASE StartBatch
  BY <1>1, StartStep
<1>2. CASE SqueezeLanes
  BY <1>2, SqueezeLanesStep
<1>3. CASE \E l \in Lanes, a \in 0 .. PerBlock * FirstBlocks : RejectLane(l, a)
  BY <1>3, RejectStep
<1>4. CASE FinishBatch
  BY <1>4, FinishStep
<1>5. CASE Yield
  BY <1>5, YieldStep
<1>6. CASE Transpose
  BY <1>6, TransposeStep
<1>7. CASE UNCHANGED expandVars
  <2>1. ExpandTypeOK'
    BY <1>7 DEF expandVars, ExpandIInv, ExpandTypeOK
  <2>2. sampler' \in Samplers
    BY <2>1 DEF ExpandTypeOK
  <2> QED
    BY <1>7, <2>2, ProgressStep DEF expandVars
<1> QED
  BY <1>1, <1>2, <1>3, <1>4, <1>5, <1>6, <1>7 DEF ExpandNext

-----------------------------------------------------------------------------
\* What is sampled, what is yielded and what is cached stay aligned in every
\* expansion (TqMatrix::expand).
THEOREM ExpandIndInv == ExpandSpec => []ExpandIInv
<1>1. ExpandInit => ExpandIInv
  BY ExpandInitStep, ExpandAssumption
<1>2. ExpandIInv /\ [ExpandNext]_expandVars => ExpandIInv'
  BY ExpandNextStep, ExpandAssumption
<1> QED
  BY <1>1, <1>2, PTL DEF ExpandSpec

\* The expansion's state stays in its types, and no refill overwrites an
\* element that was not yielded.
THEOREM ExpandTypeCorrect == ExpandSpec => []ExpandTypeOK
<1>1. ExpandIInv => ExpandTypeOK
  BY DEF ExpandIInv
<1> QED
  BY <1>1, ExpandIndInv, PTL

\* Entry i, j of the matrix is the whole SampleNTT of the stream with domain
\* bytes j, i, for every rank and however many blocks each lane takes.
THEOREM EntriesHold == ExpandSpec => []EntriesOfTheirStreams
<1>1. ExpandIInv => EntriesOfTheirStreams
  BY DEF ExpandIInv
<1> QED
  BY <1>1, ExpandIndInv, PTL

\* The cached matrix is the transpose of the expanded one.
THEOREM TransposeHolds == ExpandSpec => []TransposedIsTranspose
<1>1. ExpandIInv => TransposedIsTranspose
  BY DEF ExpandIInv
<1> QED
  BY <1>1, ExpandIndInv, PTL

\* An expansion refills as often as its entries need and no more.
THEOREM NoLaneWasted == ExpandSpec => []NoLaneInVain
<1>1. ASSUME ExpandIInv PROVE NoLaneInVain
  <2>1. rank * rank \in Nat /\ refills \in Nat /\ 4 * refills <= rank * rank + 3
    BY <1>1, Positive, ExpandAssumption DEF ExpandIInv, ExpandTypeOK
  <2>2. \A m, r \in Nat : 4 * r <= m + 3 => 4 * r <= m + ((4 - (m % 4)) % 4)
    OBVIOUS
  <2> QED
    BY <2>1, <2>2 DEF NoLaneInVain
<1> QED
  BY <1>1, ExpandIndInv, PTL
=============================================================================
