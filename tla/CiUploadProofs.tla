--------------------------- MODULE CiUploadProofs ---------------------------
(***************************************************************************)
(* Proofs about CiUpload, for any kinds, jobs and commits, any limits, and *)
(* any number of starts, failed calls and killed runners.                  *)
(***************************************************************************)
EXTENDS CiUpload, SequenceTheorems, WellFoundedInduction, TLAPS

-----------------------------------------------------------------------------
(* Indexes.                                                                *)

Distinct(seq) == \A i, m \in DOMAIN seq : seq[i] = seq[m] => i = m

LEMMA LeastExists ==
  ASSUME NEW T \in SUBSET Nat, T # {}
  PROVE  \E t \in T : \A u \in T : t <= u
<1>1. \E t \in T : \A u \in T : ~ (<<u, t>> \in OpToRel(<, Nat))
  BY WFMin, NatLessThanWellFounded, Zenon
<1>2. PICK t \in T : \A u \in T : ~ (<<u, t>> \in OpToRel(<, Nat))
  BY <1>1
<1>3. \A u \in T : u < t => <<u, t>> \in OpToRel(<, Nat)
  BY Zenon DEF OpToRel
<1>4. \A u \in T : ~ (u < t)
  BY <1>2, <1>3
<1>5. \A u \in T : t <= u
  BY <1>4
<1> QED BY <1>5

\* What build_index makes of an index that has the commit at most once: its
\* entry is taken from where it was, and put first.
LEMMA NewerIs ==
  ASSUME NEW S, NEW c \in S, NEW seq \in Seq(S), NEW p \in 1 .. Len(seq) + 1,
         \A i \in 1 .. Len(seq) : seq[i] = c <=> i = p
  PROVE  Newer(c, seq) = [i \in 1 .. (IF Len(seq) < p THEN Len(seq) + 1 ELSE Len(seq)) |->
                            IF i = 1 THEN c ELSE IF i <= p THEN seq[i - 1] ELSE seq[i]]
<1> DEFINE len == Len(seq)
           size(m) == IF m < p THEN m + 1 ELSE m
           at(i) == IF i = 1 THEN c ELSE IF i <= p THEN seq[i - 1] ELSE seq[i]
           G == [m \in 0 .. len |-> [i \in 1 .. size(m) |-> at(i)]]
           Loop(g) == [m \in 0 .. len |->
                         IF m = 0 THEN <<c>>
                         ELSE IF seq[m] = c THEN g[m - 1] ELSE Append(g[m - 1], seq[m])]
           entries == CHOOSE g : g = Loop(g)
<1>1. len \in Nat /\ p \in 1 .. len + 1
  OBVIOUS
<1>2. \A m \in 0 .. len : size(m) \in Nat
  BY <1>1
<1>3. ASSUME NEW m \in 0 .. len, NEW i \in 1 .. size(m)
      PROVE  at(i) \in S
  <2>1. i = 1 \/ (i <= p /\ i - 1 \in 1 .. len) \/ (i > p /\ i \in 1 .. len)
    BY <1>1
  <2> QED BY <2>1
<1>4. \A m \in 0 .. len : G[m] \in Seq(S) /\ Len(G[m]) = size(m) /\ \A i \in 1 .. size(m) : G[m][i] = at(i)
  <2> HIDE DEF at, size
  <2> QED BY <1>2, <1>3
<1>5. ASSUME NEW m \in 0 .. len
      PROVE  G[m] = Loop(G)[m]
  <2>1. CASE m = 0
    <3>1. Len(G[m]) = 1 /\ G[m][1] = c /\ G[m] \in Seq(S)
      BY <1>1, <1>4, <2>1
    <3>2. G[m] = <<c>>
      <4> HIDE DEF G
      <4> QED BY <3>1
    <3> QED BY <2>1, <3>2
  <2>2. CASE m # 0 /\ seq[m] = c
    <3>1. m = p
      BY <2>2
    <3>2. size(m) = size(m - 1) /\ m - 1 \in 0 .. len
      BY <1>1, <3>1
    <3>3. G[m] = G[m - 1]
      <4> HIDE DEF size, at
      <4> QED BY <3>2
    <3> HIDE DEF G
    <3> QED BY <2>2, <3>3
  <2>3. CASE m # 0 /\ seq[m] # c
    <3>1. m # p /\ m - 1 \in 0 .. len /\ m \in 1 .. len
      BY <2>3
    <3>2. size(m) = size(m - 1) + 1 /\ at(size(m)) = seq[m]
      BY <1>1, <3>1
    <3>3. /\ G[m] \in Seq(S) /\ G[m - 1] \in Seq(S) /\ Len(G[m]) = size(m) /\ Len(G[m - 1]) = size(m - 1)
          /\ \A i \in 1 .. size(m) : G[m][i] = at(i)
          /\ \A i \in 1 .. size(m - 1) : G[m - 1][i] = at(i)
      BY <1>4, <3>1
    <3>4. size(m - 1) \in Nat /\ seq[m] \in S
      BY <1>2, <3>1
    <3>5. G[m] = Append(G[m - 1], seq[m])
      <4> HIDE DEF G, size, at
      <4>1. /\ Append(G[m - 1], seq[m]) \in Seq(S)
            /\ Len(Append(G[m - 1], seq[m])) = size(m)
            /\ \A i \in 1 .. size(m) : Append(G[m - 1], seq[m])[i] = at(i)
        BY <3>2, <3>3, <3>4
      <4>2. PICK x \in Seq(S) : x = G[m]
        BY <3>3
      <4>3. PICK y \in Seq(S) : y = Append(G[m - 1], seq[m])
        BY <4>1
      <4>4. Len(x) = Len(y) /\ \A i \in 1 .. Len(x) : x[i] = y[i]
        BY <3>3, <4>1, <4>2, <4>3
      <4>5. x = y
        BY <4>4, SeqEqual
      <4> QED BY <4>2, <4>3, <4>5
    <3> HIDE DEF G
    <3> QED BY <2>3, <3>5
  <2> QED BY <2>1, <2>2, <2>3
<1>6. G = Loop(G)
  <2>1. G = [m \in 0 .. len |-> G[m]] /\ Loop(G) = [m \in 0 .. len |-> Loop(G)[m]]
    OBVIOUS
  <2> HIDE DEF G, Loop
  <2> QED BY <1>5, <2>1
<1>7. entries = Loop(entries)
  <2> HIDE DEF G, Loop
  <2> QED BY <1>6
<1>8. ASSUME NEW m \in 0 .. len
      PROVE  entries[m] = G[m]
  <2> DEFINE T == {k \in 0 .. len : entries[k] # G[k]}
  <2> HIDE DEF G, entries
  <2>1. SUFFICES ASSUME T # {} PROVE FALSE
    OBVIOUS
  <2>2. T \in SUBSET Nat
    BY <1>1
  <2>3. PICK t \in T : \A u \in T : t <= u
    BY <2>1, <2>2, LeastExists
  <2>4. entries[t] = Loop(entries)[t] /\ G[t] = Loop(G)[t] /\ t \in 0 .. len
    BY <1>6, <1>7, <2>3
  <2>5. t # 0 => t - 1 \in 0 .. len /\ t - 1 \notin T
    BY <1>1, <2>3
  <2>6. t # 0 => entries[t - 1] = G[t - 1]
    BY <2>5
  <2>7. entries[t] = G[t]
    BY <2>4, <2>6
  <2> QED BY <2>3, <2>7
<1>9. Newer(c, seq) = entries[len]
  BY DEF Newer
<1>10. Newer(c, seq) = G[len]
  <2> HIDE DEF G, entries
  <2> QED BY <1>1, <1>8, <1>9
<1> HIDE DEF Loop, entries
<1> QED BY <1>1, <1>10

LEMMA SameSeq ==
  ASSUME NEW S, NEW x, NEW y, x \in Seq(S), y \in Seq(S), Len(x) = Len(y),
         \A i \in 1 .. Len(x) : x[i] = y[i]
  PROVE  x = y
<1>1. PICK v \in Seq(S) : v = x
  OBVIOUS
<1>2. PICK w \in Seq(S) : w = y
  OBVIOUS
<1>3. v = w
  BY <1>1, <1>2, SeqEqual
<1> QED BY <1>1, <1>2, <1>3

Members(seq) == {seq[i] : i \in DOMAIN seq}
Least(a, b) == IF a <= b THEN a ELSE b

LEMMA CutIs ==
  ASSUME NEW S, NEW seq \in Seq(S), NEW max \in Nat
  PROVE  /\ Cut(seq, max) \in Seq(S)
         /\ Len(Cut(seq, max)) = Least(Len(seq), max)
         /\ DOMAIN Cut(seq, max) = 1 .. Least(Len(seq), max)
         /\ \A i \in 1 .. Least(Len(seq), max) : Cut(seq, max)[i] = seq[i]
<1> DEFINE n == Least(Len(seq), max)
<1>1. n \in Nat /\ n <= Len(seq) /\ Len(seq) \in Nat
  BY DEF Least
<1>2. Cut(seq, max) = SubSeq(seq, 1, n)
  BY DEF Cut, Least
<1>3. n = Least(Len(seq), max)
  OBVIOUS
<1> HIDE DEF n
<1>4. SubSeq(seq, 1, n) \in Seq(S) /\ Len(SubSeq(seq, 1, n)) = n
  BY <1>1
<1>5. \A i \in 1 .. n : SubSeq(seq, 1, n)[i] = seq[i]
  BY <1>1
<1>6. DOMAIN SubSeq(seq, 1, n) = 1 .. n
  BY <1>4
<1> QED BY <1>2, <1>3, <1>4, <1>5, <1>6

LEMMA CutTwice ==
  ASSUME NEW seq \in Seq(Commits)
  PROVE  Cut(Cut(seq, MaxIndex), MaxFiles) = Cut(seq, MaxFiles)
<1> DEFINE once == Cut(seq, MaxIndex)
           twice == Cut(once, MaxFiles)
           files == Cut(seq, MaxFiles)
<1>1. MaxIndex \in Nat /\ MaxFiles \in Nat /\ MaxFiles <= MaxIndex
  BY UploadAssumption
<1>2. /\ once \in Seq(Commits) /\ Len(once) = Least(Len(seq), MaxIndex)
      /\ \A i \in 1 .. Least(Len(seq), MaxIndex) : once[i] = seq[i]
  BY <1>1, CutIs
<1>3. /\ files \in Seq(Commits) /\ Len(files) = Least(Len(seq), MaxFiles)
      /\ \A i \in 1 .. Least(Len(seq), MaxFiles) : files[i] = seq[i]
  BY <1>1, CutIs
<1> HIDE DEF once, files
<1>4. /\ twice \in Seq(Commits) /\ Len(twice) = Least(Len(once), MaxFiles)
      /\ \A i \in 1 .. Least(Len(once), MaxFiles) : twice[i] = once[i]
  BY <1>1, <1>2, CutIs
<1> HIDE DEF twice
<1>5. Len(twice) = Len(files) /\ \A i \in 1 .. Len(twice) : twice[i] = files[i]
  BY <1>1, <1>2, <1>3, <1>4 DEF Least
<1>6. twice = files
  BY <1>3, <1>4, <1>5, SameSeq
<1> QED BY <1>6 DEF once, twice, files

\* Where a commit's entry is in an index, or where it would be.
LEMMA PositionExists ==
  ASSUME NEW c \in Commits, NEW seq \in Seq(Commits), Distinct(seq)
  PROVE  \E p \in 1 .. Len(seq) + 1 : \A i \in 1 .. Len(seq) : seq[i] = c <=> i = p
<1>1. Len(seq) \in Nat /\ DOMAIN seq = 1 .. Len(seq)
  OBVIOUS
<1>2. CASE \E p \in 1 .. Len(seq) : seq[p] = c
  <2>1. PICK p \in 1 .. Len(seq) : seq[p] = c
    BY <1>2
  <2>2. \A i \in 1 .. Len(seq) : seq[i] = c <=> i = p
    BY <1>1, <2>1 DEF Distinct
  <2>3. p \in 1 .. Len(seq) + 1
    BY <1>1
  <2> QED BY <2>2, <2>3
<1>3. CASE \A p \in 1 .. Len(seq) : seq[p] # c
  <2>1. Len(seq) + 1 \in 1 .. Len(seq) + 1
    BY <1>1
  <2>2. \A i \in 1 .. Len(seq) : seq[i] = c <=> i = Len(seq) + 1
    BY <1>1, <1>3
  <2> QED BY <2>1, <2>2
<1> QED BY <1>2, <1>3

LEMMA NewerShape ==
  ASSUME NEW c \in Commits, NEW seq \in Seq(Commits), NEW p \in 1 .. Len(seq) + 1,
         \A i \in 1 .. Len(seq) : seq[i] = c <=> i = p
  PROVE  /\ Newer(c, seq) \in Seq(Commits)
         /\ Len(Newer(c, seq)) = IF Len(seq) < p THEN Len(seq) + 1 ELSE Len(seq)
         /\ \A i \in 1 .. Len(Newer(c, seq)) :
              Newer(c, seq)[i] = IF i = 1 THEN c ELSE IF i <= p THEN seq[i - 1] ELSE seq[i]
<1> DEFINE len == Len(seq)
           n == IF len < p THEN len + 1 ELSE len
           at(i) == IF i = 1 THEN c ELSE IF i <= p THEN seq[i - 1] ELSE seq[i]
<1>1. len \in Nat /\ n \in Nat /\ p \in 1 .. len + 1
  OBVIOUS
<1>2. Newer(c, seq) = [i \in 1 .. n |-> at(i)]
  BY NewerIs
<1>3. ASSUME NEW i \in 1 .. n
      PROVE  at(i) \in Commits
  <2>1. i = 1 \/ (i <= p /\ i - 1 \in 1 .. len) \/ (i > p /\ i \in 1 .. len)
    BY <1>1
  <2> QED BY <2>1
<1> HIDE DEF at, n
<1>4. Newer(c, seq) \in Seq(Commits) /\ Len(Newer(c, seq)) = n
  BY <1>1, <1>2, <1>3
<1>5. \A i \in 1 .. n : Newer(c, seq)[i] = at(i)
  BY <1>2
<1> QED BY <1>4, <1>5 DEF at, n

\* An index that has every commit once has so again, and loses none.
LEMMA NewerOnce ==
  ASSUME NEW c \in Commits, NEW seq \in Seq(Commits), Distinct(seq)
  PROVE  /\ Newer(c, seq) \in Seq(Commits) /\ Newer(c, seq) # <<>> /\ Newer(c, seq)[1] = c
         /\ Distinct(Newer(c, seq))
         /\ c \in Members(Newer(c, seq)) /\ Members(seq) \subseteq Members(Newer(c, seq))
<1> DEFINE len == Len(seq)
           new == Newer(c, seq)
<1>1. PICK p \in 1 .. len + 1 : \A i \in 1 .. len : seq[i] = c <=> i = p
  BY PositionExists
<1>2. /\ new \in Seq(Commits) /\ Len(new) = IF len < p THEN len + 1 ELSE len
      /\ \A i \in 1 .. Len(new) : new[i] = IF i = 1 THEN c ELSE IF i <= p THEN seq[i - 1] ELSE seq[i]
  BY <1>1, NewerShape
<1>3. len \in Nat /\ DOMAIN seq = 1 .. len /\ DOMAIN new = 1 .. Len(new)
  BY <1>2
<1> HIDE DEF new
<1>4. Len(new) >= 1 /\ new # <<>> /\ new[1] = c
  BY <1>1, <1>2, <1>3
<1>5. Distinct(new)
  <2>1. ASSUME NEW i \in 1 .. Len(new), NEW m \in 1 .. Len(new), i < m
        PROVE  new[i] # new[m]
    <3> DEFINE from(k) == IF k <= p THEN k - 1 ELSE k
    <3>1. from(m) \in 1 .. len /\ from(m) # p /\ new[m] = seq[from(m)]
      BY <1>1, <1>2, <1>3, <2>1
    <3>2. i = 1 \/ (from(i) \in 1 .. len /\ from(i) < from(m) /\ new[i] = seq[from(i)])
      BY <1>1, <1>2, <1>3, <2>1
    <3>3. seq[from(m)] # c
      BY <1>1, <3>1
    <3>4. i = 1 => new[i] = c
      BY <1>4
    <3> HIDE DEF from
    <3>5. from(i) \in 1 .. len /\ from(i) < from(m) => seq[from(i)] # seq[from(m)]
      BY <1>3, <3>1 DEF Distinct
    <3> QED BY <3>1, <3>2, <3>3, <3>4, <3>5
  <2> QED BY <1>3, <2>1 DEF Distinct
<1>6. ASSUME NEW i \in 1 .. len
      PROVE  seq[i] \in Members(new)
  <2>1. CASE i < p
    <3>1. i + 1 \in 1 .. Len(new) /\ new[i + 1] = seq[i]
      BY <1>1, <1>2, <1>3, <2>1
    <3> QED BY <1>3, <3>1 DEF Members
  <2>2. CASE i = p
    <3>1. seq[i] = new[1] /\ 1 \in 1 .. Len(new)
      BY <1>1, <1>3, <1>4, <2>2
    <3> QED BY <1>3, <3>1 DEF Members
  <2>3. CASE i > p
    <3>1. i \in 1 .. Len(new) /\ new[i] = seq[i]
      BY <1>1, <1>2, <1>3, <2>3
    <3> QED BY <1>3, <3>1 DEF Members
  <2> QED BY <1>1, <1>3, <2>1, <2>2, <2>3
<1>7. c \in Members(new)
  BY <1>3, <1>4 DEF Members
<1> QED BY <1>2, <1>3, <1>4, <1>5, <1>6, <1>7 DEF new, Members

\* Whether entries beyond the limit are cut before or after makes no difference.
LEMMA NewerOfCut ==
  ASSUME NEW c \in Commits, NEW seq \in Seq(Commits), Distinct(seq)
  PROVE  Cut(Newer(c, Cut(seq, MaxIndex)), MaxIndex) = Cut(Newer(c, seq), MaxIndex)
<1> DEFINE len == Len(seq)
           cut == Cut(seq, MaxIndex)
           new == Newer(c, seq)
           newcut == Newer(c, cut)
           left == Cut(newcut, MaxIndex)
           right == Cut(new, MaxIndex)
<1>1. MaxIndex \in Nat /\ MaxIndex >= 1
  BY UploadAssumption
<1>2. PICK p \in 1 .. len + 1 : \A i \in 1 .. len : seq[i] = c <=> i = p
  BY PositionExists
<1>3. /\ cut \in Seq(Commits) /\ Len(cut) = Least(len, MaxIndex)
      /\ \A i \in 1 .. Len(cut) : cut[i] = seq[i]
  BY <1>1, CutIs
<1>4. /\ new \in Seq(Commits) /\ Len(new) = IF len < p THEN len + 1 ELSE len
      /\ \A i \in 1 .. Len(new) : new[i] = IF i = 1 THEN c ELSE IF i <= p THEN seq[i - 1] ELSE seq[i]
  BY <1>2, NewerShape
<1>5. len \in Nat
  OBVIOUS
<1> HIDE DEF cut, new, len
<1> DEFINE q == Least(p, Len(cut) + 1)
<1>6. q \in 1 .. Len(cut) + 1 /\ \A i \in 1 .. Len(cut) : cut[i] = c <=> i = q
  BY <1>1, <1>2, <1>3, <1>5 DEF Least
<1> HIDE DEF q
<1>7. /\ newcut \in Seq(Commits) /\ Len(newcut) = IF Len(cut) < q THEN Len(cut) + 1 ELSE Len(cut)
      /\ \A i \in 1 .. Len(newcut) :
           newcut[i] = IF i = 1 THEN c ELSE IF i <= q THEN cut[i - 1] ELSE cut[i]
  BY <1>3, <1>6, NewerShape
<1> HIDE DEF newcut
<1>8. /\ left \in Seq(Commits) /\ Len(left) = Least(Len(newcut), MaxIndex)
      /\ \A i \in 1 .. Len(left) : left[i] = newcut[i]
  <2>1. newcut \in Seq(Commits)
    BY <1>7
  <2> QED BY <1>1, <2>1, CutIs
<1>9. /\ right \in Seq(Commits) /\ Len(right) = Least(Len(new), MaxIndex)
      /\ \A i \in 1 .. Len(right) : right[i] = new[i]
  <2>1. new \in Seq(Commits)
    BY <1>4
  <2> QED BY <1>1, <2>1, CutIs
<1> HIDE DEF left, right
<1>10. Len(left) = Len(right)
  BY <1>1, <1>2, <1>3, <1>4, <1>5, <1>7, <1>8, <1>9 DEF Least, q
<1>11. ASSUME NEW i \in 1 .. Len(left)
       PROVE  left[i] = right[i]
  <2>1. i \in 1 .. Len(newcut) /\ i \in 1 .. Len(new) /\ i <= MaxIndex
    BY <1>1, <1>3, <1>4, <1>5, <1>7, <1>8, <1>9, <1>10 DEF Least
  <2>2. left[i] = newcut[i] /\ right[i] = new[i]
    BY <1>8, <1>9, <1>10
  <2>3. CASE i = 1
    BY <1>4, <1>7, <2>1, <2>2, <2>3
  <2>4. CASE i # 1 /\ i <= p
    <3>1. i <= q /\ i - 1 \in 1 .. Len(cut)
      BY <1>1, <1>2, <1>3, <1>5, <2>1, <2>4, <1>6, <1>7 DEF Least, q
    <3> QED BY <1>3, <1>4, <1>7, <2>1, <2>2, <2>4, <3>1
  <2>5. CASE i # 1 /\ i > p
    <3>1. i > q /\ i \in 1 .. Len(cut)
      BY <1>1, <1>2, <1>3, <1>5, <1>6, <1>7, <2>1, <2>5 DEF Least, q
    <3>2. ~(i <= p) /\ ~(i <= q)
      BY <1>2, <1>5, <1>6, <2>1, <2>5, <3>1
    <3> QED BY <1>3, <1>4, <1>7, <2>1, <2>2, <2>5, <3>1, <3>2
  <2> QED BY <1>2, <1>5, <2>3, <2>4, <2>5
<1>12. left = right
  BY <1>8, <1>9, <1>10, <1>11, SameSeq
<1> QED BY <1>12 DEF left, right, newcut, new, cut

\* The newest entries of an index are its own entry and some that were.
LEMMA NewestOfNewer ==
  ASSUME NEW c \in Commits, NEW seq \in Seq(Commits), Distinct(seq)
  PROVE  Members(Cut(Newer(c, seq), MaxFiles)) \subseteq Members(Cut(seq, MaxFiles)) \cup {c}
<1> DEFINE len == Len(seq)
           cut == Cut(seq, MaxFiles)
           new == Newer(c, seq)
           newcut == Cut(new, MaxFiles)
<1>1. MaxFiles \in Nat
  BY UploadAssumption
<1>2. PICK p \in 1 .. len + 1 : \A i \in 1 .. len : seq[i] = c <=> i = p
  BY PositionExists
<1>3. /\ new \in Seq(Commits) /\ Len(new) = IF len < p THEN len + 1 ELSE len
      /\ \A i \in 1 .. Len(new) : new[i] = IF i = 1 THEN c ELSE IF i <= p THEN seq[i - 1] ELSE seq[i]
  BY <1>2, NewerShape
<1>4. len \in Nat
  OBVIOUS
<1>5. DOMAIN cut = 1 .. Least(len, MaxFiles) /\ \A i \in DOMAIN cut : cut[i] = seq[i]
  BY <1>1, CutIs
<1> HIDE DEF new
<1>6. DOMAIN newcut = 1 .. Least(Len(new), MaxFiles) /\ \A i \in DOMAIN newcut : newcut[i] = new[i]
  <2>1. new \in Seq(Commits)
    BY <1>3
  <2> QED BY <1>1, <2>1, CutIs
<1> HIDE DEF cut, newcut, len
<1>7. ASSUME NEW i \in DOMAIN newcut
      PROVE  newcut[i] \in Members(cut) \cup {c}
  <2>1. i \in 1 .. Len(new) /\ i <= MaxFiles
    BY <1>1, <1>3, <1>4, <1>6 DEF Least
  <2>2. CASE i = 1
    BY <1>3, <1>6, <2>1, <2>2
  <2>3. CASE i # 1 /\ i <= p
    <3>1. i - 1 \in DOMAIN cut
      BY <1>1, <1>2, <1>3, <1>4, <1>5, <2>1, <2>3 DEF Least
    <3> QED BY <1>3, <1>5, <1>6, <2>1, <2>3, <3>1 DEF Members
  <2>4. CASE i # 1 /\ i > p
    <3>1. i \in DOMAIN cut
      BY <1>1, <1>2, <1>3, <1>4, <1>5, <2>1, <2>4 DEF Least
    <3> QED BY <1>2, <1>3, <1>5, <1>6, <2>1, <2>4, <3>1 DEF Members
  <2> QED BY <1>2, <1>4, <2>2, <2>3, <2>4
<1> QED BY <1>7 DEF Members, newcut, new, cut

-----------------------------------------------------------------------------
(* The inductive invariant.                                                *)

\* The steps of an upload after its own file, after its index, and the last.
Stored ==
  {"put_latest", "fetch_index", "rm_index", "put_index", "list", "prune", "rm_done", "put_done"}
Listed == {"list", "prune", "rm_done", "put_done"}
Finishing == {"fetch_manifest", "rm_manifest", "put_manifest"}
Validated == Stored \cup Finishing \cup {"rm_pull", "put_pull", "put_running", "rm_own", "put_own"}

Main(job) == job.pc # "idle" /\ job.mode = "main"
Kept(rec) == Members(Cut(rec.history, MaxFiles))

\* What a job under way knows of itself.
WellFormed(job) ==
  /\ job.kind \in Kinds /\ job.sha \in Shas
  /\ job.sha \in Commits <=> job.mode # "pull"
  /\ job.pc \in {"rm_pull", "put_pull"} => job.mode = "pull"
  /\ job.pc \notin {"validate", "rm_pull", "put_pull"} => job.mode = "main"
  /\ job.pc \in Validated => job.payload \in Payload /\ Accepted(job, job.payload)
  /\ job.pc \in {"rm_index", "put_index"} \cup Listed => job.seen # <<>> /\ job.seen[1] = job.sha
  /\ IF job.pc = "prune" THEN job.sha \notin job.todo ELSE job.todo = {}
  /\ Distinct(job.seen)

\* What an upload without a warning, that is alone, has left in the directory.
Sound(job, dir) ==
  /\ job.pc \in Stored => dir.files[job.sha] = job.payload
  /\ job.pc \in Stored \ {"put_latest"} => dir.latest = job.payload
  /\ job.pc \in Listed => dir.index = job.seen
  /\ job.pc \in {"prune", "rm_done", "put_done"} =>
       \A c \in Commits : dir.files[c] # Nothing =>
         c \in KeptShas(job.seen) \/ (job.pc = "prune" /\ c \in job.todo)

\* How an upload is placed in the history of a kind of which nothing was lost.
Accounted(job, dir, rec) ==
  /\ job.pc \in Stored => dir.files[job.sha] # Nothing
  /\ job.pc \in {"rm_index", "put_index"} => job.seen = Cut(Newer(job.sha, rec.history), MaxIndex)
  /\ job.pc \in Listed => job.seen = Cut(rec.history, MaxIndex)
  /\ job.pc \in Listed \cup Finishing => job.sha \in Members(rec.history)
  /\ job.pc = "prune" => job.todo \cap Kept(rec) = {}

\* An upload, its directory and its kind's record.
Fits(job, dir, rec) ==
  /\ WellFormed(job)
  /\ job.sound => Sound(job, dir)
  /\ Distinct(rec.history) /\ Distinct(Entries(dir.index))
  /\ ~rec.lost =>
       /\ Accounted(job, dir, rec)
       /\ job.pc = "put_index" \/ Entries(dir.index) = Cut(rec.history, MaxIndex)
       /\ \A c \in Kept(rec) : dir.files[c] # Nothing \/ (job.pc = "put_own" /\ job.sha = c)

\* A published commit's directory.
Complete(k, dir, rec) ==
  LET c == rec.published
  IN /\ dir.status = <<"done", c>>
     /\ dir.latest # Nothing /\ dir.latest = dir.files[c]
     /\ dir.latest.of = c /\ (k \in Plain \/ dir.latest.measured)
     /\ Entries(dir.index) # <<>> /\ dir.index[1] = c
     /\ ~rec.lost => \A d \in Commits : dir.files[d] # Nothing => d \in Kept(rec)

\* An entry of the manifest.
Named(entry, rec) == entry = "none" \/ rec.lost \/ entry \in Members(rec.history)

JobsFit == \A j \in Jobs : jobs[j].pc # "idle" => WellFormed(jobs[j])
UploadsFit ==
  \A j \in Jobs : Main(jobs[j]) => Fits(jobs[j], site[Kind(j)], record[Kind(j)])
Alone ==
  \A i, j \in Jobs : Main(jobs[i]) /\ Main(jobs[j]) /\ i # j /\ Kind(i) = Kind(j) =>
    ~jobs[i].sound /\ record[Kind(i)].lost
KindsFit ==
  \A k \in Kinds :
    /\ Distinct(record[k].history) /\ Distinct(Entries(site[k].index))
    /\ record[k].published # Nothing =>
         /\ Complete(k, site[k], record[k])
         /\ \A j \in Jobs : Main(jobs[j]) /\ Kind(j) = k => jobs[j].pc \in Finishing
    /\ ~record[k].lost /\ (\A j \in Jobs : ~(Main(jobs[j]) /\ Kind(j) = k)) =>
         /\ Entries(site[k].index) = Cut(record[k].history, MaxIndex)
         /\ \A c \in Kept(record[k]) : site[k].files[c] # Nothing
EntriesFit ==
  /\ \A j \in Jobs : jobs[j].pc \in {"rm_manifest", "put_manifest"} =>
       \A k \in Kinds : Named(jobs[j].entries[k], record[k])
  /\ manifest # Nothing => \A k \in Kinds : Named(manifest[k], record[k])

IInv == TypeOK /\ JobsFit /\ UploadsFit /\ Alone /\ KindsFit /\ EntriesFit

-----------------------------------------------------------------------------
(* Calls of an upload of the default branch.                               *)

\* What holds of an upload and its kind between two of its calls.
LEMMA UnderWay ==
  ASSUME IInv, NEW j \in Jobs, Main(jobs[j])
  PROVE  /\ Kind(j) \in Kinds /\ Sha(j) \in Commits /\ jobs[j] \in Job
         /\ site[Kind(j)] \in Directory /\ record[Kind(j)] \in Record
         /\ WellFormed(jobs[j]) /\ Fits(jobs[j], site[Kind(j)], record[Kind(j)])
         /\ jobs[j].pc \notin Finishing => record[Kind(j)].published = Nothing
<1>1. TypeOK /\ JobsFit /\ UploadsFit /\ KindsFit
  BY DEF IInv
<1>2. jobs[j] \in Job /\ WellFormed(jobs[j]) /\ Fits(jobs[j], site[Kind(j)], record[Kind(j)])
  BY <1>1 DEF TypeOK, JobsFit, UploadsFit, Main
<1>3. Kind(j) \in Kinds /\ Sha(j) \in Commits
  BY <1>2 DEF WellFormed, Kind, Sha, Main
<1>4. site[Kind(j)] \in Directory /\ record[Kind(j)] \in Record
  BY <1>1, <1>3 DEF TypeOK
<1>5. jobs[j].pc \notin Finishing => record[Kind(j)].published = Nothing
  BY <1>1, <1>3 DEF KindsFit
<1> QED BY <1>2, <1>3, <1>4, <1>5

\* A call touches its own kind only; whoever else is at work on that kind made
\* it lost.
LEMMA CallKeeps ==
  ASSUME IInv, NEW j \in Jobs, Main(jobs[j]),
         NEW dir \in Directory, NEW rec \in Record, NEW job \in Job,
         site' = [site EXCEPT ![Kind(j)] = dir],
         record' = [record EXCEPT ![Kind(j)] = rec],
         jobs' = [jobs EXCEPT ![j] = job],
         manifest' \in {Nothing} \cup Manifests, spent' \in [starts : Nat, faults : Nat],
         Main(job), job.kind = Kind(j), job.sound => jobs[j].sound,
         record[Kind(j)].lost => rec.lost,
         Members(record[Kind(j)].history) \subseteq Members(rec.history),
         Fits(job, dir, rec),
         rec.published # Nothing =>
           /\ Complete(Kind(j), dir, rec) /\ job.pc \in Finishing
           /\ jobs[j].sound \/ record[Kind(j)].published # Nothing,
         job.pc \in {"rm_manifest", "put_manifest"} =>
           \A k \in Kinds : Named(job.entries[k], record[k]),
         manifest' # Nothing => \A k \in Kinds : Named(manifest'[k], record[k])
  PROVE  IInv'
<1> DEFINE k == Kind(j)
<1>1. TypeOK /\ JobsFit /\ UploadsFit /\ Alone /\ KindsFit /\ EntriesFit
  BY DEF IInv
<1>2. k \in Kinds /\ WellFormed(jobs[j])
  BY UnderWay
<1>3. /\ jobs'[j] = job /\ \A i \in Jobs \ {j} : jobs'[i] = jobs[i]
      /\ site'[k] = dir /\ \A m \in Kinds \ {k} : site'[m] = site[m]
      /\ record'[k] = rec /\ \A m \in Kinds \ {k} : record'[m] = record[m]
  BY <1>1, <1>2 DEF TypeOK
<1>4. TypeOK'
  BY <1>1, <1>2 DEF TypeOK
<1>5. \A m \in Kinds : /\ record[m].lost => record'[m].lost
                       /\ Members(record[m].history) \subseteq Members(record'[m].history)
  BY <1>3
<1>6. \A i \in Jobs : Main(jobs'[i]) <=> Main(jobs[i])
  BY <1>3
<1>7. \A i \in Jobs : jobs'[i].kind = jobs[i].kind /\ (jobs'[i].sound => jobs[i].sound)
  BY <1>3 DEF Kind
<1>8. \A i \in Jobs : Main(jobs[i]) => jobs[i].kind \in Kinds
  BY <1>1 DEF JobsFit, Main, WellFormed
<1>9. Alone'
  <2> SUFFICES ASSUME NEW i \in Jobs, NEW l \in Jobs, Main(jobs'[i]), Main(jobs'[l]), i # l,
                      jobs'[i].kind = jobs'[l].kind
               PROVE  ~jobs'[i].sound /\ record'[jobs'[i].kind].lost
    BY DEF Alone, Kind
  <2>1. ~jobs[i].sound /\ record[jobs[i].kind].lost
    BY <1>1, <1>6, <1>7 DEF Alone, Kind
  <2> QED BY <1>5, <1>6, <1>7, <1>8, <2>1
<1>10. JobsFit'
  <2> SUFFICES ASSUME NEW i \in Jobs, jobs'[i].pc # "idle"
               PROVE  WellFormed(jobs'[i])
    BY DEF JobsFit
  <2>1. CASE i = j
    BY <1>3, <2>1 DEF Fits
  <2>2. CASE i # j
    BY <1>1, <1>3, <2>2 DEF JobsFit
  <2> QED BY <2>1, <2>2
<1>11. UploadsFit'
  <2> SUFFICES ASSUME NEW i \in Jobs, Main(jobs'[i])
               PROVE  Fits(jobs'[i], site'[jobs'[i].kind], record'[jobs'[i].kind])
    BY DEF UploadsFit, Kind
  <2>1. CASE i = j
    BY <1>3, <2>1
  <2>2. CASE i # j /\ jobs[i].kind # k
    <3>1. site'[jobs[i].kind] = site[jobs[i].kind] /\ record'[jobs[i].kind] = record[jobs[i].kind]
      BY <1>3, <1>6, <1>8, <2>2
    <3> QED BY <1>1, <1>3, <1>6, <2>2, <3>1 DEF UploadsFit, Kind
  <2>3. CASE i # j /\ jobs[i].kind = k
    <3>1. Main(jobs[i]) /\ jobs'[i] = jobs[i] /\ WellFormed(jobs[i])
      BY <1>1, <1>3, <1>6, <2>3 DEF JobsFit, Main
    <3>2. ~jobs[i].sound /\ record[k].lost
      BY <1>1, <2>3, <3>1 DEF Alone, Kind
    <3>3. rec.lost /\ Distinct(rec.history) /\ Distinct(Entries(dir.index))
      BY <3>2 DEF Fits
    <3>4. Fits(jobs[i], dir, rec)
      BY <3>1, <3>2, <3>3 DEF Fits
    <3> QED BY <1>3, <2>3, <3>1, <3>4
  <2> QED BY <2>1, <2>2, <2>3
<1>12. KindsFit'
  <2> SUFFICES ASSUME NEW m \in Kinds
               PROVE  /\ Distinct(record'[m].history) /\ Distinct(Entries(site'[m].index))
                      /\ record'[m].published # Nothing =>
                           /\ Complete(m, site'[m], record'[m])
                           /\ \A i \in Jobs : Main(jobs'[i]) /\ jobs'[i].kind = m => jobs'[i].pc \in Finishing
                      /\ ~record'[m].lost /\ (\A i \in Jobs : ~(Main(jobs'[i]) /\ jobs'[i].kind = m)) =>
                           /\ Entries(site'[m].index) = Cut(record'[m].history, MaxIndex)
                           /\ \A c \in Kept(record'[m]) : site'[m].files[c] # Nothing
    BY DEF KindsFit, Kind
  <2>1. CASE m # k
    <3>1. site'[m] = site[m] /\ record'[m] = record[m]
      BY <1>3, <2>1
    <3>2. \A i \in Jobs : Main(jobs'[i]) /\ jobs'[i].kind = m => jobs'[i] = jobs[i]
      BY <1>3, <2>1
    <3>3. \A i \in Jobs : (Main(jobs'[i]) /\ jobs'[i].kind = m) <=> (Main(jobs[i]) /\ jobs[i].kind = m)
      BY <1>6, <1>7
    <3> QED BY <1>1, <3>1, <3>2, <3>3 DEF KindsFit, Kind
  <2>2. CASE m = k
    <3>1. Main(jobs'[j]) /\ jobs'[j].kind = m
      BY <1>3, <2>2
    <3>2. Distinct(rec.history) /\ Distinct(Entries(dir.index))
      BY DEF Fits
    <3>3. ASSUME rec.published # Nothing, NEW i \in Jobs, Main(jobs'[i]), jobs'[i].kind = m
          PROVE  jobs'[i].pc \in Finishing
      <4>1. CASE i = j
        BY <1>3, <3>3, <4>1
      <4>2. CASE i # j
        <5>1. ~jobs[j].sound
          BY <1>1, <1>6, <1>7, <2>2, <3>3, <4>2 DEF Alone, Kind
        <5>2. record[k].published # Nothing
          BY <3>3, <5>1
        <5> QED BY <1>1, <1>2, <1>3, <1>6, <2>2, <3>3, <4>2, <5>2 DEF KindsFit, Kind
      <4> QED BY <4>1, <4>2
    <3> QED BY <1>3, <2>2, <3>1, <3>2, <3>3
  <2> QED BY <2>1, <2>2
<1>13. EntriesFit'
  <2>1. \A m \in Kinds : \A e : Named(e, record[m]) => Named(e, record'[m])
    BY <1>5 DEF Named
  <2>2. ASSUME NEW i \in Jobs, jobs'[i].pc \in {"rm_manifest", "put_manifest"}, NEW m \in Kinds
        PROVE  Named(jobs'[i].entries[m], record'[m])
    <3>1. CASE i = j
      BY <1>3, <2>1, <2>2, <3>1
    <3>2. CASE i # j
      BY <1>1, <1>3, <2>1, <2>2, <3>2 DEF EntriesFit
    <3> QED BY <3>1, <3>2
  <2>3. manifest' # Nothing => \A m \in Kinds : Named(manifest'[m], record'[m])
    BY <2>1
  <2> QED BY <2>2, <2>3 DEF EntriesFit
<1> QED BY <1>4, <1>9, <1>10, <1>11, <1>12, <1>13 DEF IInv

LEMMA FaultType ==
  ASSUME TypeOK, Fault \/ UNCHANGED spent
  PROVE  spent' \in [starts : Nat, faults : Nat]
BY DEF TypeOK, Fault

\* Calls before the last of an upload.
LEMMA EarlyCall ==
  ASSUME IInv, NEW j \in Jobs, Main(jobs[j]), jobs[j].pc \notin Finishing,
         NEW dir \in Directory, NEW rec \in Record, NEW job \in Job,
         site' = [site EXCEPT ![Kind(j)] = dir],
         record' = [record EXCEPT ![Kind(j)] = rec],
         jobs' = [jobs EXCEPT ![j] = job],
         UNCHANGED manifest, Fault \/ UNCHANGED spent,
         job.pc \notin Finishing \cup {"idle"}, job.mode = jobs[j].mode,
         job.kind = jobs[j].kind, job.sound => jobs[j].sound,
         record[Kind(j)].lost => rec.lost,
         Members(record[Kind(j)].history) \subseteq Members(rec.history),
         rec.published = record[Kind(j)].published,
         Fits(job, dir, rec)
  PROVE  IInv'
<1>1. manifest' \in {Nothing} \cup Manifests /\ spent' \in [starts : Nat, faults : Nat]
  BY FaultType DEF IInv, TypeOK
<1>2. rec.published = Nothing
  BY UnderWay
<1>3. manifest' # Nothing => \A k \in Kinds : Named(manifest'[k], record[k])
  BY DEF IInv, EntriesFit
<1>4. Main(job) /\ job.kind = Kind(j) /\ job.pc \notin {"rm_manifest", "put_manifest"}
  BY DEF Main, Kind, Finishing
<1> QED BY <1>1, <1>2, <1>3, <1>4, CallKeeps

LEMMA Moved ==
  ASSUME NEW job \in Job, NEW to \in Pcs
  PROVE  /\ [job EXCEPT !.pc = to] \in Job
         /\ [job EXCEPT !.pc = to].pc = to
         /\ [job EXCEPT !.pc = to].kind = job.kind
         /\ [job EXCEPT !.pc = to].sha = job.sha
         /\ [job EXCEPT !.pc = to].mode = job.mode
         /\ [job EXCEPT !.pc = to].payload = job.payload
         /\ [job EXCEPT !.pc = to].seen = job.seen
         /\ [job EXCEPT !.pc = to].todo = job.todo
         /\ [job EXCEPT !.pc = to].entries = job.entries
         /\ [job EXCEPT !.pc = to].sound = job.sound
BY DEF Job

\* A call that has its effect.
LEMMA SucceedsKeeps ==
  ASSUME IInv, NEW j \in Jobs, Main(jobs[j]), jobs[j].pc \notin Finishing,
         NEW to \in Pcs \ (Finishing \cup {"idle"}), NEW after \in Directory, NEW noted \in Record,
         Succeeds(j, to, after, noted),
         noted.lost = record[Kind(j)].lost, noted.published = record[Kind(j)].published,
         Members(record[Kind(j)].history) \subseteq Members(noted.history),
         \A job \in Job :
           /\ job.pc = to /\ job.kind = jobs[j].kind /\ job.sha = jobs[j].sha
           /\ job.mode = jobs[j].mode /\ job.payload = jobs[j].payload /\ job.seen = jobs[j].seen
           /\ job.todo = jobs[j].todo /\ job.sound = jobs[j].sound
           => Fits(job, after, noted)
  PROVE  IInv'
<1> DEFINE job == [jobs[j] EXCEPT !.pc = to]
<1>1. /\ job \in Job /\ job.pc = to /\ job.kind = jobs[j].kind /\ job.sha = jobs[j].sha
      /\ job.mode = jobs[j].mode /\ job.payload = jobs[j].payload /\ job.seen = jobs[j].seen
      /\ job.todo = jobs[j].todo /\ job.sound = jobs[j].sound
  BY UnderWay, Moved
<1>2. jobs' = [jobs EXCEPT ![j] = job]
  BY DEF Succeeds, Goto
<1> HIDE DEF job
<1>3. Fits(job, after, noted)
  BY <1>1
<1> QED BY <1>1, <1>2, <1>3, EarlyCall DEF Succeeds

\* A call that has none: nothing is certain of the upload any more.
LEMMA WarnsKeeps ==
  ASSUME IInv, NEW j \in Jobs, Main(jobs[j]), jobs[j].pc \notin Finishing,
         NEW to \in Pcs \ (Finishing \cup {"idle"}), NEW hurts \in BOOLEAN,
         Warns(j, to, hurts), Fault \/ UNCHANGED spent,
         \A job \in Job :
           /\ job.pc = to /\ job.kind = jobs[j].kind /\ job.sha = jobs[j].sha
           /\ job.mode = jobs[j].mode /\ job.payload = jobs[j].payload /\ job.seen = jobs[j].seen
           /\ job.todo = jobs[j].todo /\ ~job.sound
           => /\ WellFormed(job)
              /\ ~hurts /\ ~record[Kind(j)].lost => Fits(job, site[Kind(j)], record[Kind(j)])
  PROVE  IInv'
<1> DEFINE job == [jobs[j] EXCEPT !.pc = to, !.sound = FALSE]
           old == record[Kind(j)]
           rec == [old EXCEPT !.lost = old.lost \/ hurts]
<1>1. /\ job \in Job /\ job.pc = to /\ job.kind = jobs[j].kind /\ job.sha = jobs[j].sha
      /\ job.mode = jobs[j].mode /\ job.payload = jobs[j].payload /\ job.seen = jobs[j].seen
      /\ job.todo = jobs[j].todo /\ ~job.sound
  BY UnderWay DEF Job
<1>2. jobs' = [jobs EXCEPT ![j] = job] /\ UNCHANGED <<site, manifest>>
  BY DEF Warns
<1>3. record' = [record EXCEPT ![Kind(j)] = rec]
  BY DEF Warns
<1>4. old \in Record /\ site[Kind(j)] \in Directory /\ Fits(jobs[j], site[Kind(j)], old)
  BY UnderWay
<1>5. rec \in Record /\ rec.history = old.history /\ rec.published = old.published
      /\ (rec.lost <=> old.lost \/ hurts)
  BY <1>4 DEF Record
<1>6. ~hurts /\ ~old.lost => rec = old
  BY <1>4 DEF Record
<1>7. site' = [site EXCEPT ![Kind(j)] = site[Kind(j)]]
  BY <1>2 DEF IInv, TypeOK
<1> HIDE DEF job, rec
<1>8. Fits(job, site[Kind(j)], rec)
  <2>1. WellFormed(job) /\ Distinct(rec.history) /\ Distinct(Entries(site[Kind(j)].index))
    BY <1>1, <1>4, <1>5 DEF Fits
  <2>2. CASE rec.lost
    BY <1>1, <2>1, <2>2 DEF Fits
  <2>3. CASE ~rec.lost
    BY <1>1, <1>5, <1>6, <2>3
  <2> QED BY <2>2, <2>3
<1> QED BY <1>1, <1>2, <1>3, <1>4, <1>5, <1>7, <1>8, EarlyCall

\* The status says nothing of an upload under way.
LEMMA StatusKeeps ==
  ASSUME IInv, NEW j \in Jobs, Main(jobs[j]), jobs[j].pc \notin Finishing,
         NEW to \in Pcs \ (Finishing \cup {"idle"}),
         NEW status \in {Nothing} \cup ({"running", "done"} \X Commits),
         Succeeds(j, to, [site[Kind(j)] EXCEPT !.status = status], record[Kind(j)]),
         \A job \in Job :
           /\ job.pc = to /\ job.kind = jobs[j].kind /\ job.sha = jobs[j].sha
           /\ job.mode = jobs[j].mode /\ job.payload = jobs[j].payload /\ job.seen = jobs[j].seen
           /\ job.todo = jobs[j].todo /\ job.sound = jobs[j].sound
           => Fits(job, site[Kind(j)], record[Kind(j)])
  PROVE  IInv'
<1> DEFINE dir == site[Kind(j)]
           after == [dir EXCEPT !.status = status]
<1>1. dir \in Directory /\ record[Kind(j)] \in Record
  BY UnderWay
<1>2. after \in Directory /\ after.latest = dir.latest /\ after.index = dir.index /\ after.files = dir.files
  BY <1>1 DEF Directory
<1> HIDE DEF after
<1>3. \A job, rec : Fits(job, dir, rec) => Fits(job, after, rec)
  BY <1>2 DEF Fits, Sound, Accounted
<1>4. Succeeds(j, to, after, record[Kind(j)])
  BY DEF after
<1>5. \A job \in Job :
           /\ job.pc = to /\ job.kind = jobs[j].kind /\ job.sha = jobs[j].sha
           /\ job.mode = jobs[j].mode /\ job.payload = jobs[j].payload /\ job.seen = jobs[j].seen
           /\ job.todo = jobs[j].todo /\ job.sound = jobs[j].sound
           => Fits(job, after, record[Kind(j)])
  BY <1>3
<1> QED BY <1>1, <1>2, <1>4, <1>5, SucceedsKeeps

\* A call that leaves everything as it was.
LEMMA MovesOn ==
  ASSUME IInv, NEW j \in Jobs, Main(jobs[j]), jobs[j].pc \notin Finishing,
         NEW to \in Pcs \ (Finishing \cup {"idle"}),
         Succeeds(j, to, site[Kind(j)], record[Kind(j)]),
         \A job \in Job :
           /\ job.pc = to /\ job.kind = jobs[j].kind /\ job.sha = jobs[j].sha
           /\ job.mode = jobs[j].mode /\ job.payload = jobs[j].payload /\ job.seen = jobs[j].seen
           /\ job.todo = jobs[j].todo /\ job.sound = jobs[j].sound
           => Fits(job, site[Kind(j)], record[Kind(j)])
  PROVE  IInv'
BY UnderWay, SucceedsKeeps

LEMMA SignalKeeps ==
  ASSUME IInv, NEW j \in Jobs, RemoveSignal(j) \/ PutSignal(j) \/ PutRunning(j)
  PROVE  IInv'
<1>0. jobs[j].pc \in {"rm_signal", "put_signal", "put_running"}
  BY DEF RemoveSignal, PutSignal, PutRunning
<1>1. Main(jobs[j]) /\ jobs[j].pc \notin Finishing
  BY <1>0 DEF IInv, JobsFit, WellFormed, Main, Finishing
<1>2. /\ Sha(j) \in Commits /\ Fits(jobs[j], site[Kind(j)], record[Kind(j)])
      /\ site[Kind(j)] \in Directory
  BY <1>1, UnderWay
<1> DEFINE next == CASE jobs[j].pc = "rm_signal" -> "put_signal"
                     [] jobs[j].pc = "put_signal" -> "validate"
                     [] jobs[j].pc = "put_running" -> "rm_own"
           Puts(status) == [site[Kind(j)] EXCEPT !.status = status]
<1>3. /\ next \in {"put_signal", "validate", "rm_own"} /\ next \in Pcs \ (Finishing \cup {"idle"})
      /\ next = "rm_own" => jobs[j].pc = "put_running"
  BY <1>0 DEF Pcs, Finishing
<1>4. \E status \in {Nothing} \cup ({"running", "done"} \X Commits) :
        \/ Succeeds(j, next, site[Kind(j)], record[Kind(j)])
        \/ Succeeds(j, next, Puts(status), record[Kind(j)])
  BY <1>2 DEF RemoveSignal, PutSignal, PutRunning, Tries, Here
<1> HIDE DEF next
<1>5. \A job \in Job :
           /\ job.pc = next /\ job.kind = jobs[j].kind /\ job.sha = jobs[j].sha
           /\ job.mode = jobs[j].mode /\ job.payload = jobs[j].payload /\ job.seen = jobs[j].seen
           /\ job.todo = jobs[j].todo /\ job.sound = jobs[j].sound
           => Fits(job, site[Kind(j)], record[Kind(j)])
  <2> SUFFICES ASSUME NEW job \in Job, job.pc = next, job.kind = jobs[j].kind, job.sha = jobs[j].sha,
                      job.mode = jobs[j].mode, job.payload = jobs[j].payload, job.seen = jobs[j].seen,
                      job.todo = jobs[j].todo
               PROVE  Fits(job, site[Kind(j)], record[Kind(j)])
    OBVIOUS
  <2>1. WellFormed(job)
    BY <1>0, <1>1, <1>2, <1>3 DEF Fits, WellFormed, Validated, Listed, Stored, Finishing, Accepted, Main
  <2>2. Sound(job, site[Kind(j)]) /\ Accounted(job, site[Kind(j)], record[Kind(j)])
    BY <1>3 DEF Sound, Accounted, Stored, Listed, Finishing
  <2> QED BY <1>0, <1>2, <2>1, <2>2 DEF Fits
<1> QED BY <1>1, <1>3, <1>4, <1>5, MovesOn, StatusKeeps

LEMMA RemoveOwnKeeps ==
  ASSUME IInv, NEW j \in Jobs, RemoveOwn(j)
  PROVE  IInv'
<1>0. jobs[j].pc = "rm_own"
  BY DEF RemoveOwn
<1>1. Main(jobs[j]) /\ jobs[j].pc \notin Finishing
  BY <1>0 DEF IInv, JobsFit, WellFormed, Main, Finishing
<1> DEFINE dir == site[Kind(j)]
           rec == record[Kind(j)]
           after == [dir EXCEPT !.latest = Nothing, !.files[Sha(j)] = Nothing]
<1>2. Sha(j) \in Commits /\ Fits(jobs[j], dir, rec) /\ dir \in Directory /\ rec \in Record
  BY <1>1, UnderWay
<1>3. /\ after \in Directory /\ after.index = dir.index
      /\ \A c \in Shas : c # Sha(j) => after.files[c] = dir.files[c]
  BY <1>2 DEF Directory, Shas
<1>4. Kept(rec) \subseteq Commits
  <2>1. Cut(rec.history, MaxFiles) \in Seq(Commits)
    BY <1>2, CutIs, UploadAssumption DEF Record
  <2> QED BY <2>1 DEF Kept, Members
<1>5. ASSUME NEW job \in Job, job.pc = "put_own", job.kind = jobs[j].kind, job.sha = jobs[j].sha,
             job.mode = jobs[j].mode, job.payload = jobs[j].payload, job.seen = jobs[j].seen,
             job.todo = jobs[j].todo
      PROVE  WellFormed(job) /\ Fits(job, after, rec) /\ Fits(job, dir, rec)
  <2> HIDE DEF after
  <2>1. WellFormed(job)
    BY <1>0, <1>1, <1>2, <1>5 DEF Fits, WellFormed, Validated, Listed, Stored, Finishing, Accepted, Main
  <2>2. \A d : Sound(job, d) /\ Accounted(job, d, rec)
    BY <1>5 DEF Sound, Accounted, Stored, Listed, Finishing
  <2> QED BY <1>0, <1>2, <1>3, <1>4, <1>5, <2>1, <2>2 DEF Fits, Sha, Shas
<1>6. CASE Succeeds(j, "put_own", after, rec)
  <2> HIDE DEF after
  <2> QED BY <1>1, <1>2, <1>3, <1>5, <1>6, SucceedsKeeps DEF Pcs, Finishing
<1>7. CASE Warns(j, "put_own", FALSE) /\ Fault
  <2>1. \A job \in Job :
           /\ job.pc = "put_own" /\ job.kind = jobs[j].kind /\ job.sha = jobs[j].sha
           /\ job.mode = jobs[j].mode /\ job.payload = jobs[j].payload /\ job.seen = jobs[j].seen
           /\ job.todo = jobs[j].todo /\ ~job.sound
           => WellFormed(job) /\ Fits(job, dir, rec)
    BY <1>5
  <2>2. "put_own" \in Pcs \ (Finishing \cup {"idle"}) /\ FALSE \in BOOLEAN
    BY DEF Pcs, Finishing
  <2> QED BY <1>1, <1>7, <2>1, <2>2, WarnsKeeps
<1> QED BY <1>6, <1>7 DEF RemoveOwn, Remove, Here

LEMMA PutOwnKeeps ==
  ASSUME IInv, NEW j \in Jobs, PutOwn(j)
  PROVE  IInv'
<1>0. jobs[j].pc = "put_own"
  BY DEF PutOwn
<1>1. Main(jobs[j]) /\ jobs[j].pc \notin Finishing
  BY <1>0 DEF IInv, JobsFit, WellFormed, Main, Finishing
<1> DEFINE dir == site[Kind(j)]
           rec == record[Kind(j)]
           after == [dir EXCEPT !.files[Sha(j)] = jobs[j].payload]
<1>2. /\ Sha(j) \in Commits /\ Fits(jobs[j], dir, rec) /\ dir \in Directory /\ rec \in Record
      /\ WellFormed(jobs[j])
  BY <1>1, UnderWay
<1>3. jobs[j].payload \in Payload /\ jobs[j].payload # Nothing
  BY <1>0, <1>2, NothingAssumption DEF WellFormed, Validated
<1>4. /\ after \in Directory /\ after.index = dir.index
      /\ after.files[Sha(j)] = jobs[j].payload
      /\ \A c \in Shas : c # Sha(j) => after.files[c] = dir.files[c]
  BY <1>2, <1>3 DEF Directory, Shas
<1>5. Kept(rec) \subseteq Commits
  <2>1. Cut(rec.history, MaxFiles) \in Seq(Commits)
    BY <1>2, CutIs, UploadAssumption DEF Record
  <2> QED BY <2>1 DEF Kept, Members
<1>6. ASSUME NEW job \in Job, job.pc = "put_latest", job.kind = jobs[j].kind, job.sha = jobs[j].sha,
             job.mode = jobs[j].mode, job.payload = jobs[j].payload, job.seen = jobs[j].seen,
             job.todo = jobs[j].todo
      PROVE  WellFormed(job) /\ Fits(job, after, rec)
  <2> HIDE DEF after
  <2>1. WellFormed(job)
    BY <1>0, <1>1, <1>2, <1>6 DEF Fits, WellFormed, Validated, Listed, Stored, Finishing, Accepted, Main
  <2>2. Sound(job, after) /\ Accounted(job, after, rec)
    BY <1>3, <1>4, <1>6 DEF Sound, Accounted, Stored, Listed, Finishing, Sha
  <2> QED BY <1>0, <1>2, <1>3, <1>4, <1>5, <1>6, <2>1, <2>2 DEF Fits, Sha, Shas
<1>7. CASE Succeeds(j, "put_latest", after, rec)
  <2> HIDE DEF after
  <2> QED BY <1>1, <1>2, <1>4, <1>6, <1>7, SucceedsKeeps DEF Pcs, Finishing
<1>8. CASE Warns(j, "put_latest", TRUE) /\ (Fault \/ UNCHANGED spent)
  BY <1>1, <1>6, <1>8, WarnsKeeps DEF Pcs, Finishing
<1> QED BY <1>7, <1>8 DEF PutOwn, Put, Here

LEMMA PutLatestKeeps ==
  ASSUME IInv, NEW j \in Jobs, PutLatest(j)
  PROVE  IInv'
<1>0. jobs[j].pc = "put_latest"
  BY DEF PutLatest
<1>1. Main(jobs[j]) /\ jobs[j].pc \notin Finishing
  BY <1>0 DEF IInv, JobsFit, WellFormed, Main, Finishing
<1> DEFINE dir == site[Kind(j)]
           rec == record[Kind(j)]
           after == [dir EXCEPT !.latest = jobs[j].payload]
<1>2. /\ Sha(j) \in Commits /\ Fits(jobs[j], dir, rec) /\ dir \in Directory /\ rec \in Record
      /\ WellFormed(jobs[j])
  BY <1>1, UnderWay
<1>3. jobs[j].payload \in Payload
  BY <1>0, <1>2 DEF WellFormed, Validated, Stored
<1>4. /\ after \in Directory /\ after.index = dir.index /\ after.files = dir.files
      /\ after.latest = jobs[j].payload
  BY <1>2, <1>3 DEF Directory
<1>5. ASSUME NEW job \in Job, job.pc = "fetch_index", job.kind = jobs[j].kind, job.sha = jobs[j].sha,
             job.mode = jobs[j].mode, job.payload = jobs[j].payload, job.seen = jobs[j].seen,
             job.todo = jobs[j].todo
      PROVE  /\ WellFormed(job)
             /\ job.sound = jobs[j].sound => Fits(job, after, rec)
             /\ ~job.sound => Fits(job, dir, rec)
  <2> HIDE DEF after
  <2>1. WellFormed(job)
    BY <1>0, <1>1, <1>2, <1>5 DEF Fits, WellFormed, Validated, Listed, Stored, Finishing, Accepted, Main
  <2>2. jobs[j].sound => Sound(job, after)
    BY <1>0, <1>2, <1>4, <1>5 DEF Fits, Sound, Stored, Listed
  <2>3. ~rec.lost => Accounted(job, after, rec) /\ Accounted(job, dir, rec)
    BY <1>0, <1>2, <1>4, <1>5 DEF Fits, Accounted, Stored, Listed, Finishing
  <2> QED BY <1>0, <1>2, <1>4, <1>5, <2>1, <2>2, <2>3 DEF Fits
<1>7. CASE Succeeds(j, "fetch_index", after, rec)
  <2> HIDE DEF after
  <2> QED BY <1>1, <1>2, <1>4, <1>5, <1>7, SucceedsKeeps DEF Pcs, Finishing
<1>8. CASE Warns(j, "fetch_index", FALSE) /\ (Fault \/ UNCHANGED spent)
  <2>1. \A job \in Job :
           /\ job.pc = "fetch_index" /\ job.kind = jobs[j].kind /\ job.sha = jobs[j].sha
           /\ job.mode = jobs[j].mode /\ job.payload = jobs[j].payload /\ job.seen = jobs[j].seen
           /\ job.todo = jobs[j].todo /\ ~job.sound
           => WellFormed(job) /\ Fits(job, dir, rec)
    BY <1>5
  <2>2. "fetch_index" \in Pcs \ (Finishing \cup {"idle"}) /\ FALSE \in BOOLEAN
    BY DEF Pcs, Finishing
  <2> QED BY <1>1, <1>8, <2>1, <2>2, WarnsKeeps
<1> QED BY <1>7, <1>8 DEF PutLatest, Put, Here

-----------------------------------------------------------------------------
(* The index, and what is pruned by it.                                    *)

LEMMA BuiltOnce ==
  ASSUME NEW c \in Commits, NEW existing \in Seq(Commits), Distinct(existing)
  PROVE  /\ BuildIndex(c, existing) \in Seq(Commits)
         /\ BuildIndex(c, existing) # <<>> /\ BuildIndex(c, existing)[1] = c
         /\ Distinct(BuildIndex(c, existing))
<1> DEFINE new == Newer(c, existing)
           cut == Cut(new, MaxIndex)
<1>1. new \in Seq(Commits) /\ new # <<>> /\ new[1] = c /\ Distinct(new)
  BY NewerOnce
<1>2. MaxIndex \in Nat /\ MaxIndex >= 1
  BY UploadAssumption
<1> HIDE DEF new
<1>3. /\ cut \in Seq(Commits) /\ Len(cut) = Least(Len(new), MaxIndex)
      /\ DOMAIN cut = 1 .. Least(Len(new), MaxIndex)
      /\ \A i \in 1 .. Least(Len(new), MaxIndex) : cut[i] = new[i]
  BY <1>1, <1>2, CutIs
<1>4. Len(new) \in Nat /\ Len(new) >= 1 /\ DOMAIN new = 1 .. Len(new)
  BY <1>1
<1> HIDE DEF cut
<1>5. 1 \in DOMAIN cut /\ cut[1] = c /\ cut # <<>>
  BY <1>1, <1>2, <1>3, <1>4 DEF Least
<1>6. Distinct(cut)
  BY <1>1, <1>2, <1>3, <1>4 DEF Distinct, Least
<1> QED BY <1>3, <1>5, <1>6 DEF BuildIndex, cut, new

\* Entries of a directory's index.
LEMMA EntriesType ==
  ASSUME NEW dir \in Directory
  PROVE  Entries(dir.index) \in Seq(Commits)
BY DEF Entries, Directory

LEMMA EntriesOfIndex ==
  ASSUME NEW seq \in Seq(Commits)
  PROVE  Entries(seq) = seq
BY NothingAssumption DEF Entries

LEMMA KeptAreCommits ==
  ASSUME NEW rec \in Record
  PROVE  Kept(rec) \subseteq Commits
<1>1. Cut(rec.history, MaxFiles) \in Seq(Commits)
  BY CutIs, UploadAssumption DEF Record
<1> QED BY <1>1 DEF Kept, Members

LEMMA FetchIndexKeeps ==
  ASSUME IInv, NEW j \in Jobs, FetchIndex(j)
  PROVE  IInv'
<1>0. jobs[j].pc = "fetch_index"
  BY DEF FetchIndex
<1>1. Main(jobs[j]) /\ jobs[j].pc \notin Finishing
  BY <1>0 DEF IInv, JobsFit, WellFormed, Main, Finishing
<1> DEFINE dir == site[Kind(j)]
           old == record[Kind(j)]
<1>2. /\ Sha(j) \in Commits /\ Fits(jobs[j], dir, old) /\ dir \in Directory /\ old \in Record
      /\ WellFormed(jobs[j]) /\ jobs[j] \in Job /\ Kind(j) \in Kinds
  BY <1>1, UnderWay
<1>3. ASSUME NEW existing \in Seq(Commits), Distinct(existing), NEW rec \in Record,
             jobs' = [jobs EXCEPT ![j].pc = "rm_index", ![j].seen = BuildIndex(Sha(j), existing)],
             record' = [record EXCEPT ![Kind(j)] = rec],
             rec.history = old.history, rec.published = old.published, old.lost => rec.lost,
             rec.lost \/ (rec = old /\ existing = Entries(dir.index)),
             Fault \/ UNCHANGED spent
      PROVE  IInv'
  <2> DEFINE seen == BuildIndex(Sha(j), existing)
             job == [jobs[j] EXCEPT !.pc = "rm_index", !.seen = seen]
  <2>1. seen \in Seq(Commits) /\ seen # <<>> /\ seen[1] = Sha(j) /\ Distinct(seen)
    BY <1>2, <1>3, BuiltOnce
  <2>2. ~rec.lost => seen = Cut(Newer(Sha(j), rec.history), MaxIndex)
    <3> SUFFICES ASSUME ~rec.lost PROVE seen = Cut(Newer(Sha(j), rec.history), MaxIndex)
      OBVIOUS
    <3>1. rec = old /\ existing = Cut(old.history, MaxIndex)
      BY <1>0, <1>2, <1>3 DEF Fits
    <3>2. Distinct(old.history) /\ old.history \in Seq(Commits)
      BY <1>2 DEF Fits, Record
    <3> QED BY <1>2, <3>1, <3>2, NewerOfCut DEF BuildIndex
  <2> HIDE DEF seen
  <2>3. /\ job \in Job /\ job.pc = "rm_index" /\ job.kind = jobs[j].kind /\ job.sha = jobs[j].sha
        /\ job.mode = jobs[j].mode /\ job.payload = jobs[j].payload /\ job.seen = seen
        /\ job.todo = jobs[j].todo /\ job.sound = jobs[j].sound
    BY <1>2, <2>1 DEF Job, Pcs
  <2>4. jobs' = [jobs EXCEPT ![j] = job]
    BY <1>3 DEF seen
  <2> HIDE DEF job
  <2>5. WellFormed(job)
    BY <1>0, <1>1, <1>2, <2>1, <2>3 DEF WellFormed, Validated, Listed, Stored, Finishing, Accepted, Main, Sha
  <2>6. job.sound => Sound(job, dir)
    BY <1>0, <1>2, <2>3 DEF Fits, Sound, Stored, Listed
  <2>7. ~rec.lost => Accounted(job, dir, rec)
    BY <1>0, <1>2, <1>3, <2>2, <2>3 DEF Fits, Accounted, Stored, Listed, Finishing, Sha
  <2>8. Fits(job, dir, rec)
    BY <1>0, <1>2, <1>3, <2>3, <2>5, <2>6, <2>7 DEF Fits
  <2>9. site' = [site EXCEPT ![Kind(j)] = dir] /\ UNCHANGED manifest
    BY DEF FetchIndex, IInv, TypeOK
  <2>10. Members(old.history) \subseteq Members(rec.history)
    BY <1>3
  <2> QED BY <1>1, <1>2, <1>3, <2>3, <2>4, <2>8, <2>9, <2>10, EarlyCall DEF Finishing
<1>4. Entries(dir.index) \in Seq(Commits) /\ Distinct(Entries(dir.index))
  BY <1>2, EntriesType DEF Fits
<1>5. <<>> \in Seq(Commits) /\ Distinct(<<>>)
  BY DEF Distinct
<1>6. CASE /\ jobs' = [jobs EXCEPT ![j].pc = "rm_index", ![j].seen = BuildIndex(Sha(j), Entries(dir.index))]
           /\ UNCHANGED <<record, spent>>
  <2>1. record' = [record EXCEPT ![Kind(j)] = old]
    BY <1>6 DEF IInv, TypeOK
  <2> QED BY <1>2, <1>3, <1>4, <1>6, <2>1
<1>7. CASE /\ jobs' = [jobs EXCEPT ![j].pc = "rm_index", ![j].seen = BuildIndex(Sha(j), <<>>)]
           /\ record' = [record EXCEPT ![Kind(j)].lost = TRUE] /\ Fault
  <2> DEFINE rec == [old EXCEPT !.lost = TRUE]
  <2>1. rec \in Record /\ rec.history = old.history /\ rec.published = old.published /\ rec.lost
    BY <1>2 DEF Record
  <2>2. record' = [record EXCEPT ![Kind(j)] = rec]
    BY <1>7
  <2> HIDE DEF rec
  <2> QED BY <1>3, <1>5, <1>7, <2>1, <2>2
<1> QED BY <1>6, <1>7 DEF FetchIndex, Here

LEMMA RemoveIndexKeeps ==
  ASSUME IInv, NEW j \in Jobs, RemoveIndex(j)
  PROVE  IInv'
<1>0. jobs[j].pc = "rm_index"
  BY DEF RemoveIndex
<1>1. Main(jobs[j]) /\ jobs[j].pc \notin Finishing
  BY <1>0 DEF IInv, JobsFit, WellFormed, Main, Finishing
<1> DEFINE dir == site[Kind(j)]
           rec == record[Kind(j)]
           after == [dir EXCEPT !.index = Nothing]
<1>2. Sha(j) \in Commits /\ Fits(jobs[j], dir, rec) /\ dir \in Directory /\ rec \in Record
  BY <1>1, UnderWay
<1>3. /\ after \in Directory /\ after.index = Nothing /\ after.latest = dir.latest
      /\ after.files = dir.files
  BY <1>2 DEF Directory
<1>4. Distinct(Entries(after.index))
  BY <1>3 DEF Distinct, Entries
<1>5. ASSUME NEW job \in Job, job.pc = "put_index", job.kind = jobs[j].kind, job.sha = jobs[j].sha,
             job.mode = jobs[j].mode, job.payload = jobs[j].payload, job.seen = jobs[j].seen,
             job.todo = jobs[j].todo
      PROVE  /\ WellFormed(job)
             /\ job.sound = jobs[j].sound => Fits(job, after, rec)
             /\ ~job.sound => Fits(job, dir, rec)
  <2> HIDE DEF after
  <2>1. WellFormed(job)
    BY <1>0, <1>1, <1>2, <1>5 DEF Fits, WellFormed, Validated, Listed, Stored, Finishing, Accepted, Main
  <2>2. jobs[j].sound => Sound(job, after)
    BY <1>0, <1>2, <1>3, <1>5 DEF Fits, Sound, Stored, Listed
  <2>3. ~rec.lost => Accounted(job, after, rec) /\ Accounted(job, dir, rec)
    BY <1>0, <1>2, <1>3, <1>5 DEF Fits, Accounted, Stored, Listed, Finishing
  <2> QED BY <1>0, <1>2, <1>3, <1>4, <1>5, <2>1, <2>2, <2>3 DEF Fits
<1>6. "put_index" \in Pcs \ (Finishing \cup {"idle"}) /\ FALSE \in BOOLEAN
  BY DEF Pcs, Finishing
<1>7. CASE Succeeds(j, "put_index", after, rec)
  <2> HIDE DEF after
  <2> QED BY <1>1, <1>2, <1>3, <1>5, <1>6, <1>7, SucceedsKeeps
<1>8. CASE Warns(j, "put_index", FALSE) /\ Fault
  <2>1. \A job \in Job :
           /\ job.pc = "put_index" /\ job.kind = jobs[j].kind /\ job.sha = jobs[j].sha
           /\ job.mode = jobs[j].mode /\ job.payload = jobs[j].payload /\ job.seen = jobs[j].seen
           /\ job.todo = jobs[j].todo /\ ~job.sound
           => WellFormed(job) /\ Fits(job, dir, rec)
    BY <1>5
  <2> QED BY <1>1, <1>6, <1>8, <2>1, WarnsKeeps
<1> QED BY <1>7, <1>8 DEF RemoveIndex, Remove, Here

LEMMA PutIndexKeeps ==
  ASSUME IInv, NEW j \in Jobs, PutIndex(j)
  PROVE  IInv'
<1>0. jobs[j].pc = "put_index"
  BY DEF PutIndex
<1>1. Main(jobs[j]) /\ jobs[j].pc \notin Finishing
  BY <1>0 DEF IInv, JobsFit, WellFormed, Main, Finishing
<1> DEFINE dir == site[Kind(j)]
           old == record[Kind(j)]
           newer == Newer(Sha(j), old.history)
           rec == [old EXCEPT !.history = newer]
           after == [dir EXCEPT !.index = jobs[j].seen]
<1>2. /\ Sha(j) \in Commits /\ Fits(jobs[j], dir, old) /\ dir \in Directory /\ old \in Record
      /\ jobs[j] \in Job
  BY <1>1, UnderWay
<1>3. jobs[j].seen \in Seq(Commits) /\ old.history \in Seq(Commits) /\ Distinct(old.history)
  BY <1>2 DEF Job, Record, Fits
<1>4. /\ after \in Directory /\ after.index = jobs[j].seen /\ after.latest = dir.latest
      /\ after.files = dir.files /\ Entries(after.index) = jobs[j].seen
  BY <1>2, <1>3, EntriesOfIndex DEF Directory
<1>5. /\ newer \in Seq(Commits) /\ Distinct(newer) /\ Sha(j) \in Members(newer)
      /\ Members(old.history) \subseteq Members(newer)
      /\ Members(Cut(newer, MaxFiles)) \subseteq Members(Cut(old.history, MaxFiles)) \cup {Sha(j)}
  BY <1>2, <1>3, NewerOnce, NewestOfNewer
<1> HIDE DEF newer
<1>6. /\ rec \in Record /\ rec.history = newer /\ rec.published = old.published /\ rec.lost = old.lost
      /\ Kept(rec) \subseteq Kept(old) \cup {Sha(j)}
  BY <1>2, <1>5 DEF Record, Kept
<1>7. ~old.lost => jobs[j].seen = Cut(newer, MaxIndex) /\ dir.files[Sha(j)] # Nothing
  BY <1>0, <1>2 DEF Fits, Accounted, Stored, Sha, newer
<1>8. ASSUME NEW job \in Job, job.pc = "list", job.kind = jobs[j].kind, job.sha = jobs[j].sha,
             job.mode = jobs[j].mode, job.payload = jobs[j].payload, job.seen = jobs[j].seen,
             job.todo = jobs[j].todo
      PROVE  /\ WellFormed(job)
             /\ job.sound = jobs[j].sound => Fits(job, after, rec)
  <2> HIDE DEF after, rec
  <2>1. WellFormed(job)
    BY <1>0, <1>1, <1>2, <1>8 DEF Fits, WellFormed, Validated, Listed, Stored, Finishing, Accepted, Main
  <2>2. jobs[j].sound => Sound(job, after)
    BY <1>0, <1>2, <1>4, <1>8 DEF Fits, Sound, Stored, Listed
  <2>3. ~rec.lost => Accounted(job, after, rec)
    BY <1>0, <1>2, <1>4, <1>5, <1>6, <1>7, <1>8 DEF Fits, Accounted, Stored, Listed, Finishing, Sha
  <2>4. ~rec.lost => \A c \in Kept(rec) : after.files[c] # Nothing
    BY <1>0, <1>2, <1>4, <1>6, <1>7 DEF Fits
  <2>5. Distinct(jobs[j].seen)
    BY <1>2 DEF Fits, WellFormed
  <2> QED BY <1>4, <1>5, <1>6, <1>7, <1>8, <2>1, <2>2, <2>3, <2>4, <2>5 DEF Fits
<1>9. "list" \in Pcs \ (Finishing \cup {"idle"}) /\ TRUE \in BOOLEAN
  BY DEF Pcs, Finishing
<1>10. CASE Succeeds(j, "list", after, rec)
  <2> HIDE DEF after, rec
  <2>1. Members(old.history) \subseteq Members(rec.history)
    BY <1>5, <1>6
  <2> QED BY <1>1, <1>2, <1>4, <1>6, <1>8, <1>9, <1>10, <2>1, SucceedsKeeps
<1>11. CASE Warns(j, "list", TRUE) /\ (Fault \/ UNCHANGED spent)
  BY <1>1, <1>8, <1>9, <1>11, WarnsKeeps
<1>12. Succeeds(j, "list", after, rec) \/ (Warns(j, "list", TRUE) /\ (Fault \/ UNCHANGED spent))
  BY DEF PutIndex, Put, Here, newer
<1> QED BY <1>10, <1>11, <1>12

\* The index that a job built keeps its own file.
LEMMA OwnIsKept ==
  ASSUME NEW seq \in Seq(Commits), seq # <<>>
  PROVE  seq[1] \in KeptShas(seq)
<1> DEFINE kept == Cut(seq, MaxFiles)
<1>1. MaxFiles \in Nat /\ MaxFiles >= 1 /\ Len(seq) \in Nat /\ Len(seq) >= 1
  BY UploadAssumption
<1>2. DOMAIN kept = 1 .. Least(Len(seq), MaxFiles) /\ \A i \in 1 .. Least(Len(seq), MaxFiles) : kept[i] = seq[i]
  BY <1>1, CutIs
<1> HIDE DEF kept
<1>3. 1 \in DOMAIN kept /\ kept[1] = seq[1]
  BY <1>1, <1>2 DEF Least
<1> QED BY <1>3 DEF KeptShas, kept

\* With nothing lost, what a job prunes by is the history.
LEMMA PrunesByHistory ==
  ASSUME NEW rec \in Record
  PROVE  KeptShas(Cut(rec.history, MaxIndex)) = Kept(rec)
BY CutTwice DEF KeptShas, Kept, Members, Record

LEMMA ListFilesKeeps ==
  ASSUME IInv, NEW j \in Jobs, ListFiles(j)
  PROVE  IInv'
<1>0. jobs[j].pc = "list"
  BY DEF ListFiles
<1>1. Main(jobs[j]) /\ jobs[j].pc \notin Finishing
  BY <1>0 DEF IInv, JobsFit, WellFormed, Main, Finishing
<1> DEFINE dir == site[Kind(j)]
           rec == record[Kind(j)]
           there == {c \in Shas : dir.files[c] # Nothing}
           todo == there \ KeptShas(jobs[j].seen)
           job == [jobs[j] EXCEPT !.pc = "prune", !.todo = todo]
<1>2. /\ Sha(j) \in Commits /\ Fits(jobs[j], dir, rec) /\ dir \in Directory /\ rec \in Record
      /\ WellFormed(jobs[j]) /\ jobs[j] \in Job
  BY <1>1, UnderWay
<1>3. jobs[j].sha \in KeptShas(jobs[j].seen)
  BY <1>0, <1>2, OwnIsKept DEF WellFormed, Listed, Job
<1>4. CASE jobs' = [jobs EXCEPT ![j].pc = "prune", ![j].todo = todo] /\ UNCHANGED <<site, manifest, record, spent>>
  <2>1. /\ job \in Job /\ job.pc = "prune" /\ job.kind = jobs[j].kind /\ job.sha = jobs[j].sha
        /\ job.mode = jobs[j].mode /\ job.payload = jobs[j].payload /\ job.seen = jobs[j].seen
        /\ job.todo = todo /\ job.sound = jobs[j].sound
    BY <1>2 DEF Job, Pcs
  <2>2. jobs' = [jobs EXCEPT ![j] = job]
    BY <1>4
  <2> HIDE DEF job
  <2>3. WellFormed(job)
    BY <1>0, <1>1, <1>2, <1>3, <2>1 DEF WellFormed, Validated, Listed, Stored, Finishing, Accepted, Main
  <2>4. job.sound => Sound(job, dir)
    BY <1>0, <1>2, <2>1 DEF Fits, Sound, Stored, Listed, Shas
  <2>5. ~rec.lost => todo \cap Kept(rec) = {}
    BY <1>0, <1>2, PrunesByHistory DEF Fits, Accounted, Listed
  <2> HIDE DEF todo
  <2>6. ~rec.lost => Accounted(job, dir, rec)
    BY <1>0, <1>2, <2>1, <2>5 DEF Fits, Accounted, Stored, Listed, Finishing
  <2>7. Fits(job, dir, rec)
    BY <1>0, <1>2, <2>1, <2>3, <2>4, <2>6 DEF Fits
  <2>8. site' = [site EXCEPT ![Kind(j)] = dir] /\ record' = [record EXCEPT ![Kind(j)] = rec]
    BY <1>4 DEF IInv, TypeOK
  <2>9. job.pc \notin Finishing \cup {"idle"} /\ UNCHANGED <<manifest, spent>>
    BY <1>4, <2>1 DEF Finishing
  <2> HIDE DEF dir, rec
  <2>10. Fits(job, dir, rec) /\ dir \in Directory /\ rec \in Record
    BY <1>2, <2>7
  <2> QED BY <1>1, <2>1, <2>2, <2>8, <2>9, <2>10, EarlyCall DEF rec
<1>5. CASE Warns(j, "prune", FALSE) /\ Fault
  <2>1. ASSUME NEW to \in Job, to.pc = "prune", to.kind = jobs[j].kind, to.sha = jobs[j].sha,
               to.mode = jobs[j].mode, to.payload = jobs[j].payload, to.seen = jobs[j].seen,
               to.todo = jobs[j].todo, ~to.sound
        PROVE  WellFormed(to) /\ Fits(to, dir, rec)
    <3>1. to.todo = {}
      BY <1>0, <1>2, <2>1 DEF WellFormed
    <3>2. WellFormed(to)
      BY <1>0, <1>1, <1>2, <2>1, <3>1 DEF WellFormed, Validated, Listed, Stored, Finishing, Accepted, Main
    <3>3. ~rec.lost => Accounted(to, dir, rec)
      BY <1>0, <1>2, <2>1, <3>1 DEF Fits, Accounted, Stored, Listed, Finishing
    <3> QED BY <1>0, <1>2, <2>1, <3>2, <3>3 DEF Fits
  <2>2. "prune" \in Pcs \ (Finishing \cup {"idle"}) /\ FALSE \in BOOLEAN
    BY DEF Pcs, Finishing
  <2> HIDE DEF dir, rec
  <2>3. \A to \in Job :
           /\ to.pc = "prune" /\ to.kind = jobs[j].kind /\ to.sha = jobs[j].sha
           /\ to.mode = jobs[j].mode /\ to.payload = jobs[j].payload /\ to.seen = jobs[j].seen
           /\ to.todo = jobs[j].todo /\ ~to.sound
           => WellFormed(to) /\ Fits(to, dir, rec)
    BY <2>1
  <2> QED BY <1>1, <1>5, <2>2, <2>3, WarnsKeeps DEF dir, rec
<1> QED BY <1>4, <1>5 DEF ListFiles, Here

\* A file is taken from the list of those to be pruned.
LEMMA PruneStep ==
  ASSUME IInv, NEW j \in Jobs, jobs[j].pc = "prune",
         NEW c \in jobs[j].todo, NEW after \in Directory, NEW job \in Job,
         jobs' = [jobs EXCEPT ![j] = job], site' = [site EXCEPT ![Kind(j)] = after],
         UNCHANGED <<record, manifest>>, Fault \/ UNCHANGED spent,
         job.pc = "prune", job.kind = jobs[j].kind, job.sha = jobs[j].sha,
         job.mode = jobs[j].mode, job.payload = jobs[j].payload, job.seen = jobs[j].seen,
         job.todo = jobs[j].todo \ {c},
         job.sound => jobs[j].sound, job.sound => after.files[c] = Nothing,
         after.index = site[Kind(j)].index, after.latest = site[Kind(j)].latest,
         \A d \in Shas : d # c => after.files[d] = site[Kind(j)].files[d]
  PROVE  IInv'
<1>1. Main(jobs[j]) /\ jobs[j].pc \notin Finishing
  BY DEF IInv, JobsFit, WellFormed, Main, Finishing
<1> DEFINE dir == site[Kind(j)]
           rec == record[Kind(j)]
<1>2. /\ Sha(j) \in Commits /\ Fits(jobs[j], dir, rec) /\ dir \in Directory /\ rec \in Record
      /\ WellFormed(jobs[j]) /\ jobs[j] \in Job
  BY <1>1, UnderWay
<1>3. record' = [record EXCEPT ![Kind(j)] = rec] /\ UNCHANGED manifest
  BY DEF IInv, TypeOK
<1>4. jobs[j].sha # c /\ c \in Shas /\ jobs[j].sha \in Shas
  BY <1>2 DEF WellFormed, Job
<1>5. WellFormed(job)
  BY <1>1, <1>2, <1>4 DEF WellFormed, Validated, Listed, Stored, Finishing, Accepted, Main
<1>6. job.sound => Sound(job, after)
  BY <1>2, <1>4 DEF Fits, Sound, Stored, Listed, Shas
<1>7. ~rec.lost => Accounted(job, after, rec)
  BY <1>2, <1>4 DEF Fits, Accounted, Stored, Listed, Finishing
<1>8. ~rec.lost => \A d \in Kept(rec) : after.files[d] # Nothing
  <2>1. ~rec.lost => c \notin Kept(rec)
    BY <1>2 DEF Fits, Accounted
  <2>2. Kept(rec) \subseteq Shas
    BY <1>2, KeptAreCommits DEF Shas
  <2> QED BY <1>2, <2>1, <2>2 DEF Fits
<1>9. Fits(job, after, rec)
  BY <1>2, <1>5, <1>6, <1>7, <1>8 DEF Fits
<1>10. job.pc \notin Finishing \cup {"idle"}
  BY DEF Finishing
<1> QED BY <1>1, <1>2, <1>3, <1>9, <1>10, EarlyCall

\* It is removed or, when the job can no longer be sound, is not.
LEMMA PruneKeeps ==
  ASSUME IInv, NEW j \in Jobs, Prune(j) \/ PruneFails(j)
  PROVE  IInv'
<1>0. jobs[j].pc = "prune"
  BY DEF Prune, PruneFails
<1>1. Main(jobs[j])
  BY <1>0 DEF IInv, JobsFit, WellFormed, Main
<1> DEFINE dir == site[Kind(j)]
<1>2. dir \in Directory /\ jobs[j] \in Job
  BY <1>1, UnderWay
<1>3. CASE Prune(j)
  <2>1. PICK c \in jobs[j].todo :
          /\ jobs' = [jobs EXCEPT ![j].todo = @ \ {c}]
          /\ site' = [site EXCEPT ![Kind(j)].files[c] = Nothing]
    BY <1>3 DEF Prune
  <2> DEFINE after == [dir EXCEPT !.files[c] = Nothing]
             job == [jobs[j] EXCEPT !.todo = jobs[j].todo \ {c}]
  <2>2. c \in Shas
    BY <1>2, <2>1 DEF Job
  <2>3. /\ after \in Directory /\ after.index = dir.index /\ after.latest = dir.latest
        /\ \A d \in Shas : d # c => after.files[d] = dir.files[d]
        /\ after.files[c] = Nothing
    BY <1>2, <2>2 DEF Directory
  <2>4. /\ job \in Job /\ job.pc = "prune" /\ job.kind = jobs[j].kind /\ job.sha = jobs[j].sha
        /\ job.mode = jobs[j].mode /\ job.payload = jobs[j].payload /\ job.seen = jobs[j].seen
        /\ job.todo = jobs[j].todo \ {c} /\ job.sound = jobs[j].sound
    BY <1>0, <1>2 DEF Job
  <2>5. site' = [site EXCEPT ![Kind(j)] = after] /\ jobs' = [jobs EXCEPT ![j] = job]
    BY <2>1
  <2>6. UNCHANGED <<record, manifest>> /\ (Fault \/ UNCHANGED spent)
    BY <1>3 DEF Prune
  <2> HIDE DEF after, job
  <2>7. (job.sound => jobs[j].sound) /\ (job.sound => after.files[c] = Nothing)
    BY <2>3, <2>4
  <2> QED BY <1>0, <2>3, <2>4, <2>5, <2>6, <2>7, PruneStep
<1>4. CASE PruneFails(j)
  <2>1. PICK c \in jobs[j].todo : jobs' = [jobs EXCEPT ![j].todo = @ \ {c}, ![j].sound = FALSE]
    BY <1>4 DEF PruneFails
  <2> DEFINE job == [jobs[j] EXCEPT !.todo = jobs[j].todo \ {c}, !.sound = FALSE]
  <2>2. site' = [site EXCEPT ![Kind(j)] = dir] /\ Fault /\ UNCHANGED <<record, manifest>>
    BY <1>4 DEF PruneFails, IInv, TypeOK
  <2>3. /\ job \in Job /\ job.pc = "prune" /\ job.kind = jobs[j].kind /\ job.sha = jobs[j].sha
        /\ job.mode = jobs[j].mode /\ job.payload = jobs[j].payload /\ job.seen = jobs[j].seen
        /\ job.todo = jobs[j].todo \ {c} /\ ~job.sound
    BY <1>0, <1>2 DEF Job
  <2>4. jobs' = [jobs EXCEPT ![j] = job]
    BY <2>1
  <2> HIDE DEF job
  <2>5. (job.sound => jobs[j].sound) /\ (job.sound => dir.files[c] = Nothing)
    BY <2>3
  <2>6. \A d \in Shas : d # c => dir.files[d] = dir.files[d]
    OBVIOUS
  <2> HIDE DEF dir
  <2> QED BY <1>0, <1>2, <2>2, <2>3, <2>4, <2>5, <2>6, PruneStep DEF dir
<1> QED BY <1>3, <1>4

LEMMA PrunedKeeps ==
  ASSUME IInv, NEW j \in Jobs, Pruned(j)
  PROVE  IInv'
<1>0. jobs[j].pc = "prune" /\ jobs[j].todo = {}
  BY DEF Pruned
<1>1. Main(jobs[j]) /\ jobs[j].pc \notin Finishing
  BY <1>0 DEF IInv, JobsFit, WellFormed, Main, Finishing
<1> DEFINE dir == site[Kind(j)]
           rec == record[Kind(j)]
<1>2. Fits(jobs[j], dir, rec) /\ dir \in Directory /\ rec \in Record
  BY <1>1, UnderWay
<1>3. ASSUME NEW job \in Job, job.pc = "rm_done", job.kind = jobs[j].kind, job.sha = jobs[j].sha,
             job.mode = jobs[j].mode, job.payload = jobs[j].payload, job.seen = jobs[j].seen,
             job.todo = jobs[j].todo, job.sound = jobs[j].sound
      PROVE  Fits(job, dir, rec)
  <2>1. WellFormed(job)
    BY <1>0, <1>1, <1>2, <1>3 DEF Fits, WellFormed, Validated, Listed, Stored, Finishing, Accepted, Main
  <2>2. job.sound => Sound(job, dir)
    BY <1>0, <1>2, <1>3 DEF Fits, Sound, Stored, Listed
  <2>3. ~rec.lost => Accounted(job, dir, rec)
    BY <1>0, <1>2, <1>3 DEF Fits, Accounted, Stored, Listed, Finishing
  <2> QED BY <1>0, <1>2, <1>3, <2>1, <2>2, <2>3 DEF Fits
<1>4. Succeeds(j, "rm_done", dir, rec)
  BY DEF Pruned, Succeeds, IInv, TypeOK
<1>5. "rm_done" \in Pcs \ (Finishing \cup {"idle"})
  BY DEF Pcs, Finishing
<1> QED BY <1>1, <1>3, <1>4, <1>5, MovesOn

LEMMA RemoveStatusKeeps ==
  ASSUME IInv, NEW j \in Jobs, RemoveStatus(j)
  PROVE  IInv'
<1>0. jobs[j].pc = "rm_done"
  BY DEF RemoveStatus
<1>1. Main(jobs[j]) /\ jobs[j].pc \notin Finishing
  BY <1>0 DEF IInv, JobsFit, WellFormed, Main, Finishing
<1> DEFINE dir == site[Kind(j)]
           rec == record[Kind(j)]
<1>2. Fits(jobs[j], dir, rec)
  BY <1>1, UnderWay
<1>3. ASSUME NEW job \in Job, job.pc = "put_done", job.kind = jobs[j].kind, job.sha = jobs[j].sha,
             job.mode = jobs[j].mode, job.payload = jobs[j].payload, job.seen = jobs[j].seen,
             job.todo = jobs[j].todo, job.sound => jobs[j].sound
      PROVE  WellFormed(job) /\ Fits(job, dir, rec)
  <2>1. WellFormed(job)
    BY <1>0, <1>1, <1>2, <1>3 DEF Fits, WellFormed, Validated, Listed, Stored, Finishing, Accepted, Main
  <2>2. job.sound => Sound(job, dir)
    BY <1>0, <1>2, <1>3 DEF Fits, Sound, Stored, Listed
  <2>3. ~rec.lost => Accounted(job, dir, rec)
    BY <1>0, <1>2, <1>3 DEF Fits, Accounted, Stored, Listed, Finishing
  <2> QED BY <1>0, <1>2, <1>3, <2>1, <2>2, <2>3 DEF Fits
<1>4. "put_done" \in Pcs \ (Finishing \cup {"idle"}) /\ FALSE \in BOOLEAN
  BY DEF Pcs, Finishing
<1>5. CASE Succeeds(j, "put_done", [dir EXCEPT !.status = Nothing], rec)
  BY <1>1, <1>3, <1>4, <1>5, StatusKeeps
<1>6. CASE Warns(j, "put_done", FALSE) /\ Fault
  <2>1. \A job \in Job :
           /\ job.pc = "put_done" /\ job.kind = jobs[j].kind /\ job.sha = jobs[j].sha
           /\ job.mode = jobs[j].mode /\ job.payload = jobs[j].payload /\ job.seen = jobs[j].seen
           /\ job.todo = jobs[j].todo /\ ~job.sound
           => WellFormed(job) /\ Fits(job, dir, rec)
    BY <1>3
  <2> QED BY <1>1, <1>4, <1>6, <2>1, WarnsKeeps
<1> QED BY <1>5, <1>6 DEF RemoveStatus, Remove, Here
-----------------------------------------------------------------------------
(* The end of an upload.                                                   *)

\* The last call on the kind's own directory: what is published is complete.
LEMMA PutDoneKeeps ==
  ASSUME IInv, NEW j \in Jobs, PutDone(j)
  PROVE  IInv'
<1>0. jobs[j].pc = "put_done"
  BY DEF PutDone
<1>1. Main(jobs[j]) /\ jobs[j].pc \notin Finishing
  BY <1>0 DEF IInv, JobsFit, WellFormed, Main, Finishing
<1> DEFINE dir == site[Kind(j)]
           old == record[Kind(j)]
           rec == [old EXCEPT !.published = IF jobs[j].sound THEN Sha(j) ELSE old.published]
           after == [dir EXCEPT !.status = <<"done", Sha(j)>>]
<1>2. /\ Kind(j) \in Kinds /\ Sha(j) \in Commits /\ Fits(jobs[j], dir, old)
      /\ dir \in Directory /\ old \in Record
      /\ WellFormed(jobs[j]) /\ jobs[j] \in Job /\ old.published = Nothing
  BY <1>1, UnderWay
<1>3. /\ after \in Directory /\ after.status = <<"done", Sha(j)>> /\ after.latest = dir.latest
      /\ after.index = dir.index /\ after.files = dir.files
  BY <1>2 DEF Directory
<1>4. /\ rec \in Record /\ rec.history = old.history /\ rec.lost = old.lost
      /\ rec.published = IF jobs[j].sound THEN Sha(j) ELSE Nothing
  BY <1>2 DEF Record
<1> HIDE DEF after, rec
<1>5. ASSUME NEW job \in Job, job.pc = "fetch_manifest", job.kind = jobs[j].kind, job.sha = jobs[j].sha,
             job.mode = jobs[j].mode, job.payload = jobs[j].payload, job.seen = jobs[j].seen,
             job.todo = jobs[j].todo
      PROVE  Fits(job, after, rec) /\ Fits(job, dir, old)
  <2>1. WellFormed(job)
    BY <1>0, <1>1, <1>2, <1>5 DEF WellFormed, Validated, Listed, Stored, Finishing, Accepted, Main
  <2>2. Sound(job, after) /\ Sound(job, dir)
    BY <1>5 DEF Sound, Stored, Listed
  <2>3. ~old.lost => Accounted(job, after, rec) /\ Accounted(job, dir, old)
    BY <1>0, <1>2, <1>4, <1>5 DEF Fits, Accounted, Stored, Listed, Finishing
  <2>4. Kept(rec) = Kept(old)
    BY <1>4 DEF Kept
  <2> QED BY <1>0, <1>2, <1>3, <1>4, <2>1, <2>2, <2>3, <2>4 DEF Fits
<1>6. rec.published # Nothing => Complete(Kind(j), after, rec) /\ jobs[j].sound
  <2> SUFFICES ASSUME jobs[j].sound
               PROVE  Complete(Kind(j), after, rec)
    BY <1>4
  <2>1. jobs[j].payload \in Payload /\ Accepted(jobs[j], jobs[j].payload) /\ jobs[j].seen # <<>>
        /\ jobs[j].seen[1] = Sha(j)
    BY <1>0, <1>2 DEF WellFormed, Validated, Stored, Listed, Sha
  <2>2. jobs[j].payload # Nothing
    BY <2>1, NothingAssumption
  <2>3. Sound(jobs[j], dir)
    BY <1>2 DEF Fits
  <2>4. dir.files[Sha(j)] = jobs[j].payload /\ dir.latest = jobs[j].payload /\ dir.index = jobs[j].seen
    BY <1>0, <2>3 DEF Sound, Stored, Listed, Sha
  <2>5. Entries(dir.index) = jobs[j].seen
    BY <1>2, <2>4, EntriesOfIndex DEF Job
  <2>6. ~old.lost => KeptShas(jobs[j].seen) = Kept(old)
    BY <1>0, <1>2, PrunesByHistory DEF Fits, Accounted, Listed
  <2>7. ~old.lost => \A c \in Commits : dir.files[c] # Nothing => c \in Kept(old)
    BY <1>0, <2>3, <2>6 DEF Sound
  <2>8. Kept(rec) = Kept(old) /\ rec.published = Sha(j)
    BY <1>4 DEF Kept
  <2>9. jobs[j].payload.of = Sha(j) /\ (Kind(j) \in Plain \/ jobs[j].payload.measured)
    BY <2>1 DEF Accepted, Kind, Sha
  <2> QED BY <1>3, <1>4, <2>1, <2>2, <2>4, <2>5, <2>7, <2>8, <2>9 DEF Complete
<1>7. Fault \/ UNCHANGED spent => spent' \in [starts : Nat, faults : Nat]
  BY FaultType DEF IInv
<1>8. /\ manifest \in {Nothing} \cup Manifests
      /\ manifest # Nothing => \A k \in Kinds : Named(manifest[k], record[k])
  BY DEF IInv, TypeOK, EntriesFit
<1>9. CASE Succeeds(j, "fetch_manifest", after, rec)
  <2> DEFINE job == [jobs[j] EXCEPT !.pc = "fetch_manifest"]
  <2>1. "fetch_manifest" \in Pcs
    BY DEF Pcs
  <2>2. /\ job \in Job /\ job.pc = "fetch_manifest" /\ job.kind = jobs[j].kind /\ job.sha = jobs[j].sha
        /\ job.mode = jobs[j].mode /\ job.payload = jobs[j].payload /\ job.seen = jobs[j].seen
        /\ job.todo = jobs[j].todo /\ job.sound = jobs[j].sound
    BY <1>2, <2>1, Moved
  <2>3. /\ jobs' = [jobs EXCEPT ![j] = job] /\ site' = [site EXCEPT ![Kind(j)] = after]
        /\ record' = [record EXCEPT ![Kind(j)] = rec] /\ UNCHANGED <<manifest, spent>>
    BY <1>9 DEF Succeeds, Goto
  <2> HIDE DEF job
  <2>4. Main(job) /\ job.kind = Kind(j) /\ job.pc \notin {"rm_manifest", "put_manifest"}
        /\ job.pc \in Finishing /\ (job.sound => jobs[j].sound)
    BY <1>1, <2>2 DEF Main, Kind, Finishing
  <2>5. Fits(job, after, rec)
    BY <1>5, <2>2
  <2>6. Members(old.history) \subseteq Members(rec.history) /\ (old.lost => rec.lost)
    BY <1>4
  <2>7. /\ manifest' \in {Nothing} \cup Manifests /\ spent' \in [starts : Nat, faults : Nat]
        /\ manifest' # Nothing => \A k \in Kinds : Named(manifest'[k], record[k])
    BY <1>7, <1>8, <2>3
  <2> QED BY <1>1, <1>3, <1>4, <1>6, <2>2, <2>3, <2>4, <2>5, <2>6, <2>7, CallKeeps
<1>10. CASE Warns(j, "fetch_manifest", FALSE) /\ (Fault \/ UNCHANGED spent)
  <2> DEFINE job == [jobs[j] EXCEPT !.pc = "fetch_manifest", !.sound = FALSE]
  <2>2. /\ job \in Job /\ job.pc = "fetch_manifest" /\ job.kind = jobs[j].kind /\ job.sha = jobs[j].sha
        /\ job.mode = jobs[j].mode /\ job.payload = jobs[j].payload /\ job.seen = jobs[j].seen
        /\ job.todo = jobs[j].todo /\ ~job.sound
    BY <1>2 DEF Job, Pcs
  <2>3. /\ jobs' = [jobs EXCEPT ![j] = job] /\ UNCHANGED <<site, manifest>>
        /\ record' = [record EXCEPT ![Kind(j)] = [old EXCEPT !.lost = old.lost \/ FALSE]]
    BY <1>10 DEF Warns
  <2>4. [old EXCEPT !.lost = old.lost \/ FALSE] = old
    BY <1>2 DEF Record
  <2>5. site' = [site EXCEPT ![Kind(j)] = dir] /\ record' = [record EXCEPT ![Kind(j)] = old]
    BY <2>3, <2>4 DEF IInv, TypeOK
  <2> HIDE DEF job
  <2>6. Main(job) /\ job.kind = Kind(j) /\ job.pc \notin {"rm_manifest", "put_manifest"}
    BY <1>1, <2>2 DEF Main, Kind
  <2>7. Fits(job, dir, old)
    BY <1>5, <2>2
  <2>8. /\ manifest' \in {Nothing} \cup Manifests /\ spent' \in [starts : Nat, faults : Nat]
        /\ manifest' # Nothing => \A k \in Kinds : Named(manifest'[k], record[k])
    BY <1>7, <1>8, <1>10, <2>3
  <2>9. job.sound => jobs[j].sound
    BY <2>2
  <2> HIDE DEF dir, old
  <2> QED BY <1>1, <1>2, <2>2, <2>3, <2>5, <2>6, <2>7, <2>8, <2>9, CallKeeps DEF dir, old
<1> QED BY <1>9, <1>10 DEF PutDone, Put, Here, rec, after

-----------------------------------------------------------------------------
(* The manifest, and the end of a job.                                     *)

LEMMA IdleIsJob == Idle \in Job /\ Idle.pc = "idle" /\ ~Main(Idle)
<1>1. "idle" \in Pcs /\ <<>> \in Seq(Commits)
  BY DEF Pcs
<1> QED BY <1>1 DEF Idle, Job, NoEntries, Manifests, Main

\* A call on the manifest is one on no kind's directory.
LEMMA ManifestCall ==
  ASSUME IInv, NEW j \in Jobs, jobs[j].pc \in {"fetch_manifest", "rm_manifest"}, NEW job \in Job,
         jobs' = [jobs EXCEPT ![j] = job], UNCHANGED <<site, record>>, Fault \/ UNCHANGED spent,
         manifest' = Nothing \/ UNCHANGED manifest,
         job.pc \in {"rm_manifest", "put_manifest"}, job.kind = jobs[j].kind, job.sha = jobs[j].sha,
         job.mode = jobs[j].mode, job.payload = jobs[j].payload, job.seen = jobs[j].seen,
         job.todo = jobs[j].todo, job.sound => jobs[j].sound,
         \A k \in Kinds : Named(job.entries[k], record[k])
  PROVE  IInv'
<1>1. Main(jobs[j]) /\ jobs[j].pc \in Finishing
  BY DEF IInv, JobsFit, WellFormed, Main, Finishing
<1> DEFINE dir == site[Kind(j)]
           rec == record[Kind(j)]
<1>2. /\ Kind(j) \in Kinds /\ Fits(jobs[j], dir, rec) /\ dir \in Directory /\ rec \in Record
      /\ WellFormed(jobs[j])
  BY <1>1, UnderWay
<1>3. site' = [site EXCEPT ![Kind(j)] = dir] /\ record' = [record EXCEPT ![Kind(j)] = rec]
  BY DEF IInv, TypeOK
<1>4. /\ manifest' \in {Nothing} \cup Manifests /\ spent' \in [starts : Nat, faults : Nat]
      /\ manifest' # Nothing => \A k \in Kinds : Named(manifest'[k], record[k])
  BY FaultType DEF IInv, TypeOK, EntriesFit
<1>5. Fits(job, dir, rec)
  <2>1. WellFormed(job)
    BY <1>1, <1>2 DEF WellFormed, Validated, Listed, Stored, Finishing, Accepted, Main
  <2>2. Sound(job, dir)
    BY DEF Sound, Stored, Listed
  <2>3. ~rec.lost => Accounted(job, dir, rec)
    BY <1>2 DEF Fits, Accounted, Stored, Listed, Finishing
  <2> QED BY <1>2, <2>1, <2>2, <2>3 DEF Fits
<1>6. Main(job) /\ job.kind = Kind(j) /\ job.pc \in Finishing
  BY <1>1 DEF Main, Kind, Finishing
<1>7. rec.published # Nothing => Complete(Kind(j), dir, rec)
  BY <1>2 DEF IInv, KindsFit
<1> HIDE DEF dir, rec
<1> QED BY <1>1, <1>2, <1>3, <1>4, <1>5, <1>6, <1>7, CallKeeps DEF dir, rec

LEMMA FetchManifestKeeps ==
  ASSUME IInv, NEW j \in Jobs, FetchManifest(j)
  PROVE  IInv'
<1>1. jobs[j].pc = "fetch_manifest"
  BY DEF FetchManifest
<1>2. PICK entries \in {NoEntries, IF manifest = Nothing THEN NoEntries ELSE manifest} :
        /\ jobs' = [jobs EXCEPT ![j].pc = "rm_manifest",
                                ![j].entries = WithEntry(entries, Kind(j), Sha(j))]
        /\ UNCHANGED <<site, record, manifest>> /\ (Fault \/ UNCHANGED spent)
  BY DEF FetchManifest
<1> DEFINE with == WithEntry(entries, Kind(j), Sha(j))
           job == [jobs[j] EXCEPT !.pc = "rm_manifest", !.entries = with]
<1>3. Main(jobs[j])
  BY <1>1 DEF IInv, JobsFit, WellFormed, Main
<1>4. /\ Kind(j) \in Kinds /\ Sha(j) \in Commits /\ jobs[j] \in Job
      /\ Fits(jobs[j], site[Kind(j)], record[Kind(j)])
  BY <1>3, UnderWay
<1>5. entries \in Manifests /\ \A k \in Kinds : Named(entries[k], record[k])
  BY <1>2 DEF IInv, TypeOK, EntriesFit, Manifests, NoEntries, Named
<1>6. with \in Manifests /\ \A k \in Kinds : with[k] = IF k = Kind(j) THEN Sha(j) ELSE entries[k]
  BY <1>4, <1>5 DEF Manifests, WithEntry
<1>7. Named(Sha(j), record[Kind(j)])
  BY <1>1, <1>4 DEF Fits, Accounted, Finishing, Named, Sha
<1> HIDE DEF with
<1>8. /\ job \in Job /\ job.pc = "rm_manifest" /\ job.kind = jobs[j].kind /\ job.sha = jobs[j].sha
      /\ job.mode = jobs[j].mode /\ job.payload = jobs[j].payload /\ job.seen = jobs[j].seen
      /\ job.todo = jobs[j].todo /\ job.sound = jobs[j].sound /\ job.entries = with
  BY <1>4, <1>6 DEF Job, Pcs
<1>9. jobs' = [jobs EXCEPT ![j] = job]
  BY <1>2 DEF with
<1> HIDE DEF job
<1>10. \A k \in Kinds : Named(job.entries[k], record[k])
  BY <1>5, <1>6, <1>7, <1>8
<1> QED BY <1>1, <1>2, <1>8, <1>9, <1>10, ManifestCall

LEMMA RemoveManifestKeeps ==
  ASSUME IInv, NEW j \in Jobs, RemoveManifest(j)
  PROVE  IInv'
<1>1. jobs[j].pc = "rm_manifest"
  BY DEF RemoveManifest
<1> DEFINE job == [jobs[j] EXCEPT !.pc = "put_manifest"]
<1>2. jobs[j] \in Job /\ "put_manifest" \in Pcs
  BY DEF IInv, TypeOK, Pcs
<1>3. /\ job \in Job /\ job.pc = "put_manifest" /\ job.kind = jobs[j].kind /\ job.sha = jobs[j].sha
      /\ job.mode = jobs[j].mode /\ job.payload = jobs[j].payload /\ job.seen = jobs[j].seen
      /\ job.todo = jobs[j].todo /\ job.sound = jobs[j].sound /\ job.entries = jobs[j].entries
  BY <1>2, Moved
<1>4. /\ jobs' = [jobs EXCEPT ![j] = job] /\ UNCHANGED <<site, record>>
      /\ manifest' = Nothing \/ UNCHANGED manifest
      /\ Fault \/ UNCHANGED spent
  BY DEF RemoveManifest, Goto
<1> HIDE DEF job
<1>5. \A k \in Kinds : Named(job.entries[k], record[k])
  BY <1>1, <1>3 DEF IInv, EntriesFit
<1> QED BY <1>1, <1>3, <1>4, <1>5, ManifestCall

\* An upload ends; when it does so in the middle of a replacement, its kind
\* is lost.
LEMMA EndKeeps ==
  ASSUME IInv, NEW j \in Jobs, Main(jobs[j]), NEW rec \in Record,
         jobs' = [jobs EXCEPT ![j] = Idle], UNCHANGED site,
         record' = [record EXCEPT ![Kind(j)] = rec],
         rec.history = record[Kind(j)].history, rec.published = record[Kind(j)].published,
         rec.lost <=> record[Kind(j)].lost \/ Torn(j),
         Fault \/ UNCHANGED spent, manifest' \in {Nothing} \cup Manifests,
         manifest' # Nothing => \A k \in Kinds : Named(manifest'[k], record[k])
  PROVE  IInv'
<1> DEFINE k == Kind(j)
           old == record[k]
<1>1. TypeOK /\ JobsFit /\ UploadsFit /\ Alone /\ KindsFit /\ EntriesFit
  BY DEF IInv
<1>2. k \in Kinds /\ Fits(jobs[j], site[k], old) /\ old \in Record
  BY UnderWay
<1>3. /\ jobs'[j] = Idle /\ \A i \in Jobs \ {j} : jobs'[i] = jobs[i]
      /\ record'[k] = rec /\ \A m \in Kinds \ {k} : record'[m] = record[m]
  BY <1>1, <1>2 DEF TypeOK
<1>4. TypeOK'
  BY <1>1, <1>2, IdleIsJob, FaultType DEF TypeOK
<1>5. \A i \in Jobs : Main(jobs'[i]) <=> i # j /\ Main(jobs[i])
  BY <1>3, IdleIsJob
<1>6. \A m \in Kinds : /\ record[m].lost => record'[m].lost
                       /\ Members(record[m].history) \subseteq Members(record'[m].history)
                       /\ record'[m].history = record[m].history
                       /\ record'[m].published = record[m].published
  BY <1>3
<1>7. \A i \in Jobs : Main(jobs[i]) => jobs[i].kind \in Kinds
  BY <1>1 DEF JobsFit, Main, WellFormed
<1>8. JobsFit'
  BY <1>1, <1>3, IdleIsJob DEF JobsFit
<1>9. old.lost => rec = old
  BY <1>2 DEF Record
<1>10. ASSUME NEW i \in Jobs, i # j, Main(jobs[i]), jobs[i].kind = k
       PROVE  old.lost
  BY <1>1, <1>10 DEF Alone, Kind
<1>11. UploadsFit'
  <2> SUFFICES ASSUME NEW i \in Jobs, Main(jobs'[i])
               PROVE  Fits(jobs'[i], site'[jobs'[i].kind], record'[jobs'[i].kind])
    BY DEF UploadsFit, Kind
  <2>1. i # j /\ Main(jobs[i]) /\ jobs'[i] = jobs[i] /\ jobs[i].kind \in Kinds
    BY <1>3, <1>5, <1>7
  <2>2. record'[jobs[i].kind] = record[jobs[i].kind]
    <3>1. CASE jobs[i].kind # k
      BY <1>3, <2>1, <3>1
    <3>2. CASE jobs[i].kind = k
      BY <1>3, <1>9, <1>10, <2>1, <3>2
    <3> QED BY <3>1, <3>2
  <2> QED BY <1>1, <2>1, <2>2 DEF UploadsFit, Kind
<1>12. Alone'
  <2> SUFFICES ASSUME NEW i \in Jobs, NEW l \in Jobs, Main(jobs'[i]), Main(jobs'[l]), i # l,
                      jobs'[i].kind = jobs'[l].kind
               PROVE  ~jobs'[i].sound /\ record'[jobs'[i].kind].lost
    BY DEF Alone, Kind
  <2>1. Main(jobs[i]) /\ Main(jobs[l]) /\ jobs'[i] = jobs[i] /\ jobs'[l] = jobs[l]
    BY <1>3, <1>5
  <2>2. ~jobs[i].sound /\ record[jobs[i].kind].lost
    BY <1>1, <2>1 DEF Alone, Kind
  <2> QED BY <1>6, <1>7, <2>1, <2>2
<1>13. KindsFit'
  <2> SUFFICES ASSUME NEW m \in Kinds
               PROVE  /\ Distinct(record'[m].history) /\ Distinct(Entries(site'[m].index))
                      /\ record'[m].published # Nothing =>
                           /\ Complete(m, site'[m], record'[m])
                           /\ \A i \in Jobs : Main(jobs'[i]) /\ jobs'[i].kind = m => jobs'[i].pc \in Finishing
                      /\ ~record'[m].lost /\ (\A i \in Jobs : ~(Main(jobs'[i]) /\ jobs'[i].kind = m)) =>
                           /\ Entries(site'[m].index) = Cut(record'[m].history, MaxIndex)
                           /\ \A c \in Kept(record'[m]) : site'[m].files[c] # Nothing
    BY DEF KindsFit, Kind
  <2>1. Distinct(record'[m].history) /\ Distinct(Entries(site'[m].index))
    BY <1>1, <1>6 DEF KindsFit
  <2>2. record'[m].published # Nothing => Complete(m, site'[m], record'[m])
    BY <1>1, <1>6 DEF KindsFit, Complete, Kept
  <2>3. ASSUME record'[m].published # Nothing, NEW i \in Jobs, Main(jobs'[i]), jobs'[i].kind = m
        PROVE  jobs'[i].pc \in Finishing
    BY <1>1, <1>3, <1>5, <1>6, <2>3 DEF KindsFit, Kind
  <2>4. ASSUME ~record'[m].lost, \A i \in Jobs : ~(Main(jobs'[i]) /\ jobs'[i].kind = m)
        PROVE  /\ Entries(site'[m].index) = Cut(record'[m].history, MaxIndex)
               /\ \A c \in Kept(record'[m]) : site'[m].files[c] # Nothing
    <3>1. CASE m = k
      <4>1. ~old.lost /\ jobs[j].pc \notin {"put_own", "put_index"}
        BY <1>3, <2>4, <3>1 DEF Torn
      <4>2. /\ Entries(site[k].index) = Cut(old.history, MaxIndex)
            /\ \A c \in Kept(old) : site[k].files[c] # Nothing
        BY <1>2, <4>1 DEF Fits
      <4> QED BY <1>6, <3>1, <4>2 DEF Kept
    <3>2. CASE m # k
      <4>1. \A i \in Jobs : ~(Main(jobs[i]) /\ jobs[i].kind = m)
        BY <1>3, <2>4, <3>2 DEF Kind
      <4> QED BY <1>1, <1>3, <2>4, <3>2, <4>1 DEF KindsFit, Kind
    <3> QED BY <3>1, <3>2
  <2> QED BY <2>1, <2>2, <2>3, <2>4
<1>14. EntriesFit'
  <2>1. \A m \in Kinds : \A e : Named(e, record[m]) => Named(e, record'[m])
    BY <1>6 DEF Named
  <2>2. ASSUME NEW i \in Jobs, jobs'[i].pc \in {"rm_manifest", "put_manifest"}, NEW m \in Kinds
        PROVE  Named(jobs'[i].entries[m], record'[m])
    BY <1>1, <1>3, <2>1, <2>2, IdleIsJob DEF EntriesFit
  <2>3. manifest' # Nothing => \A m \in Kinds : Named(manifest'[m], record'[m])
    BY <2>1
  <2> QED BY <2>2, <2>3 DEF EntriesFit
<1> QED BY <1>4, <1>8, <1>11, <1>12, <1>13, <1>14 DEF IInv

\* What is not an upload of the default branch touches no more of a kind than
\* the files of pull requests' commits.
LEMMA OutsideKeeps ==
  ASSUME IInv, NEW j \in Jobs, ~Main(jobs[j]), NEW job \in Job, ~Main(job),
         NEW k \in Kinds, NEW dir \in Directory,
         jobs' = [jobs EXCEPT ![j] = job], site' = [site EXCEPT ![k] = dir],
         UNCHANGED <<record, manifest>>, spent' \in [starts : Nat, faults : Nat],
         job.pc # "idle" => WellFormed(job), job.pc \notin {"rm_manifest", "put_manifest"},
         dir.status = site[k].status, dir.latest = site[k].latest, dir.index = site[k].index,
         \A c \in Commits : dir.files[c] = site[k].files[c]
  PROVE  IInv'
<1>1. TypeOK /\ JobsFit /\ UploadsFit /\ Alone /\ KindsFit /\ EntriesFit
  BY DEF IInv
<1>2. /\ jobs'[j] = job /\ \A i \in Jobs \ {j} : jobs'[i] = jobs[i]
      /\ site'[k] = dir /\ \A m \in Kinds \ {k} : site'[m] = site[m]
  BY <1>1 DEF TypeOK
<1>3. \A m \in Kinds : /\ site'[m].status = site[m].status /\ site'[m].latest = site[m].latest
                       /\ site'[m].index = site[m].index
                       /\ \A c \in Commits : site'[m].files[c] = site[m].files[c]
  BY <1>2
<1>4. \A i \in Jobs : (Main(jobs'[i]) <=> Main(jobs[i])) /\ (Main(jobs[i]) => jobs'[i] = jobs[i])
  BY <1>2
<1>5. \A i \in Jobs : Main(jobs[i]) => jobs[i].kind \in Kinds /\ jobs[i].sha \in Commits
  BY <1>1 DEF JobsFit, Main, WellFormed
<1>6. \A m \in Kinds : record[m] \in Record /\ Kept(record[m]) \subseteq Commits
  BY <1>1, KeptAreCommits DEF TypeOK
<1>7. TypeOK'
  BY <1>1 DEF TypeOK
<1>8. JobsFit'
  BY <1>1, <1>2 DEF JobsFit
<1>9. UploadsFit'
  <2> SUFFICES ASSUME NEW i \in Jobs, Main(jobs'[i])
               PROVE  Fits(jobs'[i], site'[jobs'[i].kind], record[jobs'[i].kind])
    BY DEF UploadsFit, Kind
  <2> DEFINE upload == jobs[i]
             m == jobs[i].kind
  <2>1. jobs'[i] = upload /\ m \in Kinds /\ upload.sha \in Commits /\ Fits(upload, site[m], record[m])
    BY <1>1, <1>4, <1>5 DEF UploadsFit, Kind
  <2>2. /\ site'[m].latest = site[m].latest /\ site'[m].index = site[m].index
        /\ \A c \in Commits : site'[m].files[c] = site[m].files[c]
        /\ Kept(record[m]) \subseteq Commits
    BY <1>3, <1>6, <2>1
  <2> HIDE DEF upload, m
  <2>3. Sound(upload, site[m]) => Sound(upload, site'[m])
    BY <2>1, <2>2 DEF Sound
  <2>4. Accounted(upload, site[m], record[m]) => Accounted(upload, site'[m], record[m])
    BY <2>1, <2>2 DEF Accounted
  <2>5. \A c \in Kept(record[m]) : site'[m].files[c] = site[m].files[c]
    BY <2>2
  <2>6. Fits(upload, site'[m], record[m])
    BY <2>1, <2>2, <2>3, <2>4, <2>5 DEF Fits
  <2> QED BY <2>1, <2>6 DEF m
<1>10. Alone'
  BY <1>1, <1>4 DEF Alone, Kind
<1>11. KindsFit'
  <2> SUFFICES ASSUME NEW m \in Kinds
               PROVE  /\ Distinct(record[m].history) /\ Distinct(Entries(site'[m].index))
                      /\ record[m].published # Nothing =>
                           /\ Complete(m, site'[m], record[m])
                           /\ \A i \in Jobs : Main(jobs'[i]) /\ jobs'[i].kind = m => jobs'[i].pc \in Finishing
                      /\ ~record[m].lost /\ (\A i \in Jobs : ~(Main(jobs'[i]) /\ jobs'[i].kind = m)) =>
                           /\ Entries(site'[m].index) = Cut(record[m].history, MaxIndex)
                           /\ \A c \in Kept(record[m]) : site'[m].files[c] # Nothing
    BY DEF KindsFit, Kind
  <2>1. Distinct(record[m].history) /\ Distinct(Entries(site'[m].index))
    BY <1>1, <1>3 DEF KindsFit
  <2>2. record[m].published # Nothing => Complete(m, site'[m], record[m])
    <3>1. record[m].published # Nothing => record[m].published \in Commits
      BY <1>6 DEF Record
    <3> QED BY <1>1, <1>3, <3>1 DEF KindsFit, Complete
  <2>3. record[m].published # Nothing =>
          \A i \in Jobs : Main(jobs'[i]) /\ jobs'[i].kind = m => jobs'[i].pc \in Finishing
    BY <1>1, <1>4 DEF KindsFit, Kind
  <2>4. (\A i \in Jobs : ~(Main(jobs'[i]) /\ jobs'[i].kind = m)) =>
          \A i \in Jobs : ~(Main(jobs[i]) /\ jobs[i].kind = m)
    BY <1>4
  <2>5. \A c \in Kept(record[m]) : site'[m].files[c] = site[m].files[c]
    BY <1>3, <1>6
  <2> QED BY <1>1, <1>3, <2>1, <2>2, <2>3, <2>4, <2>5 DEF KindsFit, Kind
<1>12. EntriesFit'
  BY <1>1, <1>2 DEF EntriesFit
<1> QED BY <1>7, <1>8, <1>9, <1>10, <1>11, <1>12 DEF IInv

\* The directories stay as they are.
LEMMA OutsideStays ==
  ASSUME IInv, NEW j \in Jobs, ~Main(jobs[j]), NEW job \in Job, ~Main(job),
         jobs' = [jobs EXCEPT ![j] = job],
         UNCHANGED <<site, record, manifest>>, spent' \in [starts : Nat, faults : Nat],
         job.pc # "idle" => WellFormed(job), job.pc \notin {"rm_manifest", "put_manifest"}
  PROVE  IInv'
<1>1. PICK k \in Kinds : TRUE
  BY UploadAssumption
<1>2. site[k] \in Directory /\ site' = [site EXCEPT ![k] = site[k]]
  BY <1>1 DEF IInv, TypeOK
<1> QED BY <1>1, <1>2, OutsideKeeps

LEMMA PutManifestKeeps ==
  ASSUME IInv, NEW j \in Jobs, PutManifest(j)
  PROVE  IInv'
<1>1. jobs[j].pc = "put_manifest"
  BY DEF PutManifest
<1>2. Main(jobs[j]) /\ ~Torn(j)
  BY <1>1 DEF IInv, JobsFit, WellFormed, Main, Torn
<1> DEFINE rec == record[Kind(j)]
<1>3. rec \in Record
  BY <1>2, UnderWay
<1>4. /\ jobs' = [jobs EXCEPT ![j] = Idle] /\ UNCHANGED <<site, record>>
      /\ record' = [record EXCEPT ![Kind(j)] = rec]
      /\ Fault \/ UNCHANGED spent
      /\ manifest' = jobs[j].entries \/ UNCHANGED manifest
  BY DEF PutManifest, IInv, TypeOK
<1>5. /\ jobs[j].entries \in Manifests /\ manifest \in {Nothing} \cup Manifests
      /\ \A k \in Kinds : Named(jobs[j].entries[k], record[k])
      /\ manifest # Nothing => \A k \in Kinds : Named(manifest[k], record[k])
  BY <1>1 DEF IInv, TypeOK, Job, EntriesFit
<1>6. /\ manifest' \in {Nothing} \cup Manifests
      /\ manifest' # Nothing => \A k \in Kinds : Named(manifest'[k], record[k])
  BY <1>4, <1>5
<1> HIDE DEF rec
<1> QED BY <1>2, <1>3, <1>4, <1>6, EndKeeps DEF rec

LEMMA KilledKeeps ==
  ASSUME IInv, NEW j \in Jobs, Killed(j)
  PROVE  IInv'
<1> DEFINE old == record[Kind(j)]
           rec == [old EXCEPT !.lost = old.lost \/ Torn(j)]
<1>1. /\ jobs[j].pc # "idle" /\ Fault /\ jobs' = [jobs EXCEPT ![j] = Idle]
      /\ record' = [record EXCEPT ![Kind(j)] = rec] /\ UNCHANGED <<site, manifest>>
  BY DEF Killed
<1>2. Kind(j) \in Kinds /\ WellFormed(jobs[j])
  BY <1>1 DEF IInv, JobsFit, WellFormed, Kind
<1>3. old \in Record /\ record' = [record EXCEPT ![Kind(j)] = rec]
  BY <1>1, <1>2 DEF IInv, TypeOK
<1>4. /\ rec \in Record /\ rec.history = old.history /\ rec.published = old.published
      /\ (rec.lost <=> old.lost \/ Torn(j))
  BY <1>3 DEF Record, Torn
<1>5. CASE Main(jobs[j])
  <2>1. /\ manifest' \in {Nothing} \cup Manifests
        /\ manifest' # Nothing => \A k \in Kinds : Named(manifest'[k], record[k])
    BY <1>1 DEF IInv, TypeOK, EntriesFit
  <2> HIDE DEF rec
  <2> QED BY <1>1, <1>3, <1>4, <1>5, <2>1, EndKeeps
<1>6. CASE ~Main(jobs[j])
  <2>1. ~Torn(j)
    BY <1>1, <1>2, <1>6 DEF WellFormed, Main, Torn
  <2>2. rec = old
    BY <1>3, <2>1 DEF Record
  <2>3. UNCHANGED record
    BY <1>2, <1>3, <2>2 DEF IInv, TypeOK
  <2>4. spent' \in [starts : Nat, faults : Nat]
    BY <1>1, FaultType DEF IInv
  <2> QED BY <1>1, <1>6, <2>3, <2>4, IdleIsJob, OutsideStays
<1> QED BY <1>5, <1>6

LEMMA PullKeeps ==
  ASSUME IInv, NEW j \in Jobs, RemovePull(j) \/ PutPull(j)
  PROVE  IInv'
<1> DEFINE dir == site[Kind(j)]
<1>1. jobs[j].pc \in {"rm_pull", "put_pull"}
  BY DEF RemovePull, PutPull
<1>2. /\ jobs[j] \in Job /\ WellFormed(jobs[j]) /\ Kind(j) \in Kinds /\ Sha(j) \in PullCommits
      /\ ~Main(jobs[j]) /\ jobs[j].mode = "pull" /\ jobs[j].payload \in Payload
  BY <1>1 DEF IInv, JobsFit, TypeOK, WellFormed, Kind, Sha, Main, Shas, Validated
<1>3. dir \in Directory
  BY <1>2 DEF IInv, TypeOK
<1>4. ASSUME NEW file \in {Nothing} \cup Payload
      PROVE  /\ [dir EXCEPT !.files[Sha(j)] = file] \in Directory
             /\ [dir EXCEPT !.files[Sha(j)] = file].status = dir.status
             /\ [dir EXCEPT !.files[Sha(j)] = file].latest = dir.latest
             /\ [dir EXCEPT !.files[Sha(j)] = file].index = dir.index
             /\ \A c \in Commits : [dir EXCEPT !.files[Sha(j)] = file].files[c] = dir.files[c]
  <2>1. \A c \in Commits : c # Sha(j) /\ c \in Shas
    BY <1>2, UploadAssumption DEF Shas
  <2> QED BY <1>3, <2>1 DEF Directory
<1>5. dir \in Directory /\ \A c \in Commits : dir.files[c] = dir.files[c]
  BY <1>3
<1>6. spent' \in [starts : Nat, faults : Nat]
  BY FaultType DEF IInv, RemovePull, PutPull, Remove, Succeeds
<1>7. site = [site EXCEPT ![Kind(j)] = dir] /\ record = [record EXCEPT ![Kind(j)] = record[Kind(j)]]
  BY DEF IInv, TypeOK
<1>8. UNCHANGED <<record, manifest>>
  <2>1. [record[Kind(j)] EXCEPT !.lost = @ \/ FALSE] = record[Kind(j)]
    BY <1>2 DEF IInv, TypeOK, Record
  <2>2. RemovePull(j) => \/ record' = [record EXCEPT ![Kind(j)] = record[Kind(j)]]
                         \/ record' = [record EXCEPT ![Kind(j)] = [record[Kind(j)] EXCEPT !.lost = @ \/ FALSE]]
    BY DEF RemovePull, Remove, Succeeds, Warns
  <2>3. UNCHANGED manifest
    BY DEF RemovePull, PutPull, Remove, Succeeds, Warns
  <2> QED BY <1>7, <2>1, <2>2, <2>3 DEF PutPull
<1>9. \E after \in {dir, [dir EXCEPT !.files[Sha(j)] = Nothing], [dir EXCEPT !.files[Sha(j)] = jobs[j].payload]} :
        site' = [site EXCEPT ![Kind(j)] = after]
  BY <1>7 DEF RemovePull, PutPull, Remove, Succeeds, Warns, Here
<1>10. PICK after \in Directory :
         /\ site' = [site EXCEPT ![Kind(j)] = after]
         /\ after.status = dir.status /\ after.latest = dir.latest /\ after.index = dir.index
         /\ \A c \in Commits : after.files[c] = dir.files[c]
  <2>1. Nothing \in {Nothing} \cup Payload /\ jobs[j].payload \in {Nothing} \cup Payload
    BY <1>2
  <2> DEFINE fits(after) == /\ after \in Directory
                            /\ after.status = dir.status /\ after.latest = dir.latest
                            /\ after.index = dir.index
                            /\ \A c \in Commits : after.files[c] = dir.files[c]
  <2>2. fits(dir)
    BY <1>5
  <2>3. fits([dir EXCEPT !.files[Sha(j)] = Nothing])
    BY <1>4, <2>1
  <2>4. fits([dir EXCEPT !.files[Sha(j)] = jobs[j].payload])
    BY <1>4, <2>1
  <2> HIDE DEF dir, fits
  <2>5. \E after : fits(after) /\ site' = [site EXCEPT ![Kind(j)] = after]
    BY <1>9, <2>2, <2>3, <2>4
  <2> QED BY <2>5 DEF fits
<1>11. \E job \in Job : /\ jobs' = [jobs EXCEPT ![j] = job] /\ ~Main(job)
                        /\ job.pc \notin {"rm_manifest", "put_manifest"}
                        /\ job.pc # "idle" => WellFormed(job)
  <2>1. CASE PutPull(j)
    BY <2>1, IdleIsJob DEF PutPull
  <2>2. CASE RemovePull(j)
    <3>1. PICK job \in {[jobs[j] EXCEPT !.pc = "put_pull"], [jobs[j] EXCEPT !.pc = "put_pull", !.sound = FALSE]} :
            jobs' = [jobs EXCEPT ![j] = job]
      BY <2>2 DEF RemovePull, Remove, Succeeds, Warns, Goto
    <3>2. /\ job \in Job /\ job.pc = "put_pull" /\ job.kind = jobs[j].kind /\ job.sha = jobs[j].sha
          /\ job.mode = "pull" /\ job.payload = jobs[j].payload /\ job.seen = jobs[j].seen
          /\ job.todo = jobs[j].todo
      BY <1>2 DEF Job, Pcs
    <3>3. jobs[j].pc = "rm_pull"
      BY <2>2 DEF RemovePull
    <3>4. WellFormed(job) /\ ~Main(job)
      BY <1>2, <3>2, <3>3 DEF WellFormed, Validated, Listed, Stored, Finishing, Accepted, Main
    <3> QED BY <3>1, <3>2, <3>4
  <2> QED BY <2>1, <2>2
<1>12. PICK job \in Job : /\ jobs' = [jobs EXCEPT ![j] = job] /\ ~Main(job)
                          /\ job.pc \notin {"rm_manifest", "put_manifest"}
                          /\ job.pc # "idle" => WellFormed(job)
  BY <1>11
<1> HIDE DEF dir
<1> QED BY <1>2, <1>6, <1>8, <1>10, <1>12, OutsideKeeps DEF dir

LEMMA ValidateKeeps ==
  ASSUME IInv, NEW j \in Jobs, Validate(j)
  PROVE  IInv'
<1> DEFINE next == AfterValidation(jobs[j].mode)
           Let(payload) == [jobs[j] EXCEPT !.pc = next, !.payload = payload]
<1>1. /\ jobs[j].pc = "validate" /\ UNCHANGED <<site, manifest, record, spent>>
      /\ \E payload \in Payload :
           jobs' = [jobs EXCEPT ![j] = IF next # "idle" /\ Accepted(jobs[j], payload)
                                         THEN Let(payload) ELSE Idle]
  BY DEF Validate
<1>2. /\ jobs[j] \in Job /\ WellFormed(jobs[j]) /\ spent' \in [starts : Nat, faults : Nat]
      /\ jobs[j].mode \in {"main", "pull", "dry"}
  BY <1>1 DEF IInv, TypeOK, JobsFit, Job
<1>3. CASE jobs' = [jobs EXCEPT ![j] = Idle]
  <2>1. CASE ~Main(jobs[j])
    BY <1>1, <1>2, <1>3, <2>1, IdleIsJob, OutsideStays
  <2>2. CASE Main(jobs[j])
    <3> DEFINE rec == record[Kind(j)]
    <3>1. rec \in Record /\ ~Torn(j)
      BY <1>1, <2>2, UnderWay DEF Torn
    <3>2. record' = [record EXCEPT ![Kind(j)] = rec] /\ UNCHANGED site /\ (Fault \/ UNCHANGED spent)
      BY <1>1 DEF IInv, TypeOK
    <3>3. /\ manifest' \in {Nothing} \cup Manifests
          /\ manifest' # Nothing => \A k \in Kinds : Named(manifest'[k], record[k])
      BY <1>1 DEF IInv, TypeOK, EntriesFit
    <3> HIDE DEF rec
    <3> QED BY <1>3, <2>2, <3>1, <3>2, <3>3, EndKeeps DEF rec
  <2> QED BY <2>1, <2>2
<1>4. CASE jobs' # [jobs EXCEPT ![j] = Idle]
  <2>1. PICK payload \in Payload :
          next # "idle" /\ Accepted(jobs[j], payload) /\ jobs' = [jobs EXCEPT ![j] = Let(payload)]
    BY <1>1, <1>4
  <2>2. \/ jobs[j].mode = "main" /\ next = "put_running"
        \/ jobs[j].mode = "pull" /\ next = "rm_pull"
    BY <1>2, <2>1 DEF AfterValidation
  <2> DEFINE job == Let(payload)
  <2>3. /\ job \in Job /\ job.pc = next /\ job.kind = jobs[j].kind /\ job.sha = jobs[j].sha
        /\ job.mode = jobs[j].mode /\ job.payload = payload /\ job.seen = jobs[j].seen
        /\ job.todo = jobs[j].todo /\ job.sound = jobs[j].sound
    BY <1>2, <2>1, <2>2 DEF Job, Pcs
  <2>4. jobs' = [jobs EXCEPT ![j] = job]
    BY <2>1
  <2> HIDE DEF job, Let, next
  <2>5. Accepted(job, payload)
    BY <2>1, <2>3 DEF Accepted
  <2>6. WellFormed(job)
    BY <1>1, <1>2, <2>2, <2>3, <2>5 DEF WellFormed, Listed
  <2>7. CASE jobs[j].mode = "pull"
    <3>1. ~Main(jobs[j]) /\ ~Main(job) /\ job.pc \notin {"rm_manifest", "put_manifest"}
      BY <2>2, <2>3, <2>7 DEF Main
    <3> QED BY <1>1, <1>2, <2>3, <2>4, <2>6, <3>1, OutsideStays
  <2>8. CASE jobs[j].mode = "main"
    <3> DEFINE dir == site[Kind(j)]
               rec == record[Kind(j)]
    <3>1. Main(jobs[j]) /\ jobs[j].pc \notin Finishing
      BY <1>1, <2>8 DEF Main, Finishing
    <3>2. dir \in Directory /\ rec \in Record /\ Fits(jobs[j], dir, rec)
      BY <3>1, UnderWay
    <3>3. job.pc = "put_running" /\ job.pc \notin Finishing \cup {"idle"}
      BY <2>2, <2>3, <2>8 DEF Finishing
    <3>4. Sound(job, dir) /\ Accounted(job, dir, rec)
      BY <3>3 DEF Sound, Accounted, Stored, Listed, Finishing
    <3>5. Fits(job, dir, rec)
      BY <1>1, <2>6, <3>2, <3>4 DEF Fits
    <3>6. site' = [site EXCEPT ![Kind(j)] = dir] /\ record' = [record EXCEPT ![Kind(j)] = rec]
      BY <1>1 DEF IInv, TypeOK
    <3>7. UNCHANGED manifest /\ (Fault \/ UNCHANGED spent)
      BY <1>1
    <3> HIDE DEF dir, rec
    <3> QED BY <2>3, <2>4, <3>1, <3>2, <3>3, <3>5, <3>6, <3>7, EarlyCall DEF dir, rec
  <2> QED BY <2>2, <2>7, <2>8
<1> QED BY <1>3, <1>4

-----------------------------------------------------------------------------
(* Jobs begin.                                                             *)

\* An upload begins: of a serial kind it stops the one under way, of another
\* kind it makes both uncertain.
LEMMA UploadStarts ==
  ASSUME IInv, NEW j \in Jobs, NEW k \in Kinds, NEW c \in Shas, Start(j, k, c, "main")
  PROVE  IInv'
<1> DEFINE before == {i \in Jobs : Active(i, k)}
           alone == before = {} \/ k \in Serial
           new == [Idle EXCEPT !.pc = IF Signals(k, "main") THEN "rm_signal" ELSE "validate",
                               !.kind = k, !.sha = c, !.mode = "main", !.sound = alone]
           old == record[k]
           rec == [old EXCEPT !.published = Nothing,
                              !.lost = old.lost \/ ~alone \/ (\E i \in before : Torn(i))]
<1>1. TypeOK /\ JobsFit /\ UploadsFit /\ Alone /\ KindsFit /\ EntriesFit
  BY DEF IInv
<1>2. /\ jobs[j].pc = "idle" /\ c \in Commits /\ UNCHANGED <<site, manifest>>
      /\ spent' = [spent EXCEPT !.starts = @ + 1]
      /\ jobs' = [i \in Jobs |-> IF i = j THEN new ELSE IF i \notin before THEN jobs[i]
                                 ELSE IF k \in Serial THEN Idle ELSE [jobs[i] EXCEPT !.sound = FALSE]]
      /\ record' = [record EXCEPT ![k].published = Nothing,
                                  ![k].lost = @ \/ ~alone \/ (\E i \in before : Torn(i))]
  BY DEF Start
<1>3. old \in Record
  BY <1>1 DEF TypeOK
<1>4. /\ rec \in Record /\ rec.history = old.history /\ rec.published = Nothing
      /\ (rec.lost <=> old.lost \/ ~alone \/ (\E i \in before : Torn(i)))
  BY <1>3 DEF Record, Torn
<1>5. record' = [record EXCEPT ![k] = rec]
  BY <1>2
<1>6. \A i \in Jobs : i \in before <=> Main(jobs[i]) /\ jobs[i].kind = k
  BY DEF Active, Main
<1>7. /\ new \in Job /\ new.pc \in {"rm_signal", "validate"} /\ new.kind = k /\ new.sha = c
      /\ new.mode = "main" /\ new.seen = <<>> /\ new.todo = {} /\ (new.sound <=> alone)
  <2>1. {"rm_signal", "validate"} \subseteq Pcs /\ c \in Shas
    BY DEF Pcs
  <2> HIDE DEF alone
  <2> QED BY <2>1, IdleIsJob DEF Job, Idle, alone
<1> HIDE DEF new, rec
<1>8. WellFormed(new) /\ Main(new)
  BY <1>2, <1>7 DEF WellFormed, Validated, Stored, Listed, Finishing, Distinct, Main
<1>9. \A i \in Jobs \ {j} :
        /\ i \notin before => jobs'[i] = jobs[i]
        /\ i \in before => jobs'[i] = IF k \in Serial THEN Idle ELSE [jobs[i] EXCEPT !.sound = FALSE]
  BY <1>2
<1>10. jobs'[j] = new /\ j \notin before
  BY <1>2, <1>6 DEF Main
<1>11. /\ record'[k] = rec /\ \A m \in Kinds \ {k} : record'[m] = record[m]
  BY <1>1, <1>5 DEF TypeOK
<1>12. ASSUME NEW i \in Jobs
       PROVE  LET stopped == [jobs[i] EXCEPT !.sound = FALSE]
              IN /\ stopped \in Job /\ stopped.pc = jobs[i].pc /\ stopped.kind = jobs[i].kind
                 /\ stopped.sha = jobs[i].sha /\ stopped.mode = jobs[i].mode
                 /\ stopped.payload = jobs[i].payload /\ stopped.seen = jobs[i].seen
                 /\ stopped.todo = jobs[i].todo /\ stopped.entries = jobs[i].entries /\ ~stopped.sound
  BY <1>1 DEF TypeOK, Job
<1> HIDE DEF before, alone
<1>13. ASSUME NEW i \in Jobs, i # j
       PROVE  \/ jobs'[i] = Idle
              \/ /\ jobs'[i] \in Job /\ jobs'[i].pc = jobs[i].pc /\ jobs'[i].kind = jobs[i].kind
                 /\ jobs'[i].sha = jobs[i].sha /\ jobs'[i].mode = jobs[i].mode
                 /\ jobs'[i].payload = jobs[i].payload /\ jobs'[i].seen = jobs[i].seen
                 /\ jobs'[i].todo = jobs[i].todo /\ jobs'[i].entries = jobs[i].entries
                 /\ IF i \in before THEN k \notin Serial /\ ~jobs'[i].sound ELSE jobs'[i] = jobs[i]
  <2>1. jobs[i] \in Job
    BY <1>1 DEF TypeOK
  <2> QED BY <1>9, <1>12, <1>13, <2>1
<1>14. \A i \in Jobs : jobs'[i] \in Job
  BY <1>7, <1>10, <1>13, IdleIsJob
<1>15. TypeOK'
  <2>1. record' \in [Kinds -> Record] /\ spent' \in [starts : Nat, faults : Nat]
    <3>1. record \in [Kinds -> Record] /\ spent \in [starts : Nat, faults : Nat]
      BY <1>1 DEF TypeOK
    <3>2. spent' \in [starts : Nat, faults : Nat]
      BY <1>2, <3>1
    <3> QED BY <1>4, <1>5, <3>1, <3>2
  <2>2. jobs' \in [Jobs -> Job]
    <3>1. jobs' = [i \in Jobs |-> jobs'[i]]
      BY <1>2
    <3> QED BY <1>14, <3>1
  <2> QED BY <1>1, <1>2, <2>1, <2>2 DEF TypeOK
<1>16. JobsFit'
  <2> SUFFICES ASSUME NEW i \in Jobs, jobs'[i].pc # "idle"
               PROVE  WellFormed(jobs'[i])
    BY DEF JobsFit
  <2>1. CASE i = j
    BY <1>8, <1>10, <2>1
  <2>2. CASE i # j
    <3>1. /\ jobs[i].pc # "idle" /\ jobs'[i].pc = jobs[i].pc /\ jobs'[i].kind = jobs[i].kind
          /\ jobs'[i].sha = jobs[i].sha /\ jobs'[i].mode = jobs[i].mode
          /\ jobs'[i].payload = jobs[i].payload /\ jobs'[i].seen = jobs[i].seen
          /\ jobs'[i].todo = jobs[i].todo
      BY <1>13, <2>2, IdleIsJob
    <3>2. WellFormed(jobs[i])
      BY <1>1, <3>1 DEF JobsFit
    <3> QED BY <3>1, <3>2 DEF WellFormed, Accepted
  <2> QED BY <2>1, <2>2
\* The others that are under way were so before.
<1>17. ASSUME NEW i \in Jobs, i # j, Main(jobs'[i])
       PROVE  /\ Main(jobs[i]) /\ jobs'[i].kind = jobs[i].kind /\ jobs[i].kind \in Kinds
              /\ jobs[i].kind # k => jobs'[i] = jobs[i]
              /\ jobs[i].kind = k => rec.lost /\ ~jobs'[i].sound /\ ~alone
  <2>1. Main(jobs[i]) /\ jobs'[i].kind = jobs[i].kind
    BY <1>13, <1>17, IdleIsJob DEF Main
  <2>2. jobs[i].kind \in Kinds
    BY <1>1, <2>1 DEF JobsFit, Main, WellFormed
  <2>3. ASSUME jobs[i].kind = k
        PROVE  rec.lost /\ ~jobs'[i].sound /\ ~alone
    <3>1. i \in before
      BY <1>6, <2>1, <2>3
    <3>2. k \notin Serial /\ ~jobs'[i].sound
      BY <1>13, <1>17, <3>1, IdleIsJob
    <3> QED BY <1>4, <3>1, <3>2 DEF alone
  <2>4. jobs[i].kind # k => jobs'[i] = jobs[i]
    BY <1>6, <1>9, <1>17
  <2> QED BY <2>1, <2>2, <2>3, <2>4
<1>18. Alone'
  <2> SUFFICES ASSUME NEW i \in Jobs, NEW l \in Jobs, Main(jobs'[i]), Main(jobs'[l]), i # l,
                      jobs'[i].kind = jobs'[l].kind
               PROVE  ~jobs'[i].sound /\ record'[jobs'[i].kind].lost
    BY DEF Alone, Kind
  <2>1. CASE i = j
    BY <1>7, <1>10, <1>11, <1>17, <2>1
  <2>2. CASE i # j /\ jobs[i].kind = k
    BY <1>11, <1>17, <2>2
  <2>3. CASE i # j /\ jobs[i].kind # k
    <3>1. l # j
      BY <1>7, <1>10, <1>17, <2>3
    <3>2. /\ jobs'[i] = jobs[i] /\ jobs'[l] = jobs[l] /\ Main(jobs[i]) /\ Main(jobs[l])
          /\ jobs[i].kind \in Kinds
      BY <1>17, <2>3, <3>1
    <3> QED BY <1>1, <1>11, <2>3, <3>2 DEF Alone, Kind
  <2> QED BY <2>1, <2>2, <2>3
<1>19. Distinct(old.history) /\ Distinct(Entries(site[k].index))
  BY <1>1 DEF KindsFit
\* Without a loss the directory is as the history says.
<1>20. ASSUME ~rec.lost
       PROVE  /\ Entries(site[k].index) = Cut(old.history, MaxIndex)
              /\ \A d \in Kept(old) : site[k].files[d] # Nothing
  <2>1. ~old.lost /\ \A i \in before : ~Torn(i)
    BY <1>4, <1>20
  <2>2. CASE before = {}
    <3>1. \A i \in Jobs : ~(Main(jobs[i]) /\ jobs[i].kind = k)
      BY <1>6, <2>2
    <3> QED BY <1>1, <2>1, <3>1 DEF KindsFit, Kind
  <2>3. CASE before # {}
    <3>1. PICK i \in Jobs : Main(jobs[i]) /\ jobs[i].kind = k /\ ~Torn(i)
      BY <1>6, <2>1, <2>3 DEF before
    <3>2. Fits(jobs[i], site[k], old)
      BY <1>1, <3>1 DEF UploadsFit, Kind
    <3> QED BY <2>1, <3>1, <3>2 DEF Fits, Torn
  <2> QED BY <2>2, <2>3
<1>21. UploadsFit'
  <2> SUFFICES ASSUME NEW i \in Jobs, Main(jobs'[i])
               PROVE  Fits(jobs'[i], site[jobs'[i].kind], record'[jobs'[i].kind])
    BY <1>2 DEF UploadsFit, Kind
  <2>1. CASE i = j
    <3>1. Sound(new, site[k]) /\ Accounted(new, site[k], rec)
      BY <1>7 DEF Sound, Accounted, Stored, Listed, Finishing
    <3>2. Kept(rec) = Kept(old)
      BY <1>4 DEF Kept
    <3>3. Fits(new, site[k], rec)
      BY <1>4, <1>8, <1>19, <1>20, <3>1, <3>2 DEF Fits
    <3> QED BY <1>7, <1>10, <1>11, <2>1, <3>3
  <2>2. CASE i # j /\ jobs[i].kind = k
    <3>1. rec.lost /\ ~jobs'[i].sound /\ jobs'[i].kind = k
      BY <1>17, <2>2
    <3>2. WellFormed(jobs'[i])
      BY <1>16 DEF JobsFit, Main
    <3>3. Fits(jobs'[i], site[k], rec)
      BY <1>4, <1>19, <3>1, <3>2 DEF Fits
    <3> QED BY <1>11, <3>1, <3>3
  <2>3. CASE i # j /\ jobs[i].kind # k
    BY <1>1, <1>11, <1>17, <2>3 DEF UploadsFit, Kind
  <2> QED BY <2>1, <2>2, <2>3
<1>22. KindsFit'
  <2> SUFFICES ASSUME NEW m \in Kinds
               PROVE  /\ Distinct(record'[m].history) /\ Distinct(Entries(site[m].index))
                      /\ record'[m].published # Nothing =>
                           /\ Complete(m, site[m], record'[m])
                           /\ \A i \in Jobs : Main(jobs'[i]) /\ jobs'[i].kind = m => jobs'[i].pc \in Finishing
                      /\ ~record'[m].lost /\ (\A i \in Jobs : ~(Main(jobs'[i]) /\ jobs'[i].kind = m)) =>
                           /\ Entries(site[m].index) = Cut(record'[m].history, MaxIndex)
                           /\ \A d \in Kept(record'[m]) : site[m].files[d] # Nothing
    BY <1>2 DEF KindsFit, Kind
  <2>1. CASE m = k
    BY <1>4, <1>7, <1>8, <1>10, <1>11, <1>19, <2>1
  <2>2. CASE m # k
    <3>1. \A i \in Jobs : Main(jobs'[i]) /\ jobs'[i].kind = m => jobs'[i] = jobs[i]
      BY <1>7, <1>10, <1>17, <2>2
    <3>2. \A i \in Jobs : Main(jobs[i]) /\ jobs[i].kind = m => jobs'[i] = jobs[i]
      BY <1>2, <1>6, <1>9, <2>2 DEF Main
    <3> QED BY <1>1, <1>11, <2>2, <3>1, <3>2 DEF KindsFit, Kind
  <2> QED BY <2>1, <2>2
<1>23. EntriesFit'
  <2>1. \A m \in Kinds : \A e : Named(e, record[m]) => Named(e, record'[m])
    BY <1>4, <1>11 DEF Named
  <2>2. ASSUME NEW i \in Jobs, jobs'[i].pc \in {"rm_manifest", "put_manifest"}, NEW m \in Kinds
        PROVE  Named(jobs'[i].entries[m], record'[m])
    <3>1. i # j
      BY <1>7, <1>10, <2>2
    <3>2. jobs'[i].pc = jobs[i].pc /\ jobs'[i].entries = jobs[i].entries
      BY <1>13, <2>2, <3>1, IdleIsJob
    <3> QED BY <1>1, <2>1, <2>2, <3>2 DEF EntriesFit
  <2>3. manifest' # Nothing => \A m \in Kinds : Named(manifest'[m], record'[m])
    BY <1>1, <1>2, <2>1 DEF EntriesFit
  <2> QED BY <2>2, <2>3 DEF EntriesFit
<1> QED BY <1>15, <1>16, <1>18, <1>21, <1>22, <1>23 DEF IInv

LEMMA StartKeeps ==
  ASSUME IInv, NEW j \in Jobs, NEW k \in Kinds, NEW c \in Shas, NEW mode \in {"main", "pull", "dry"},
         Start(j, k, c, mode)
  PROVE  IInv'
<1>1. CASE mode = "main"
  BY <1>1, UploadStarts
<1>2. CASE mode # "main"
  <2>1. PICK alone \in BOOLEAN :
          jobs' = [jobs EXCEPT ![j] = [Idle EXCEPT !.pc = "validate", !.kind = k, !.sha = c,
                                                   !.mode = mode, !.sound = alone]]
    BY <1>2 DEF Start, Signals
  <2> DEFINE job == [Idle EXCEPT !.pc = "validate", !.kind = k, !.sha = c,
                                 !.mode = mode, !.sound = alone]
  <2>2. /\ job \in Job /\ job.pc = "validate" /\ job.kind = k /\ job.sha = c /\ job.mode = mode
        /\ job.seen = <<>> /\ job.todo = {}
    BY IdleIsJob DEF Job, Idle, Pcs
  <2>3. /\ jobs[j].pc = "idle" /\ ((c \in Commits) <=> (mode # "pull"))
        /\ UNCHANGED <<site, record, manifest>> /\ spent' = [spent EXCEPT !.starts = @ + 1]
    BY <1>2 DEF Start
  <2>4. spent' \in [starts : Nat, faults : Nat]
    BY <2>3 DEF IInv, TypeOK
  <2> HIDE DEF job
  <2>5. ~Main(jobs[j]) /\ ~Main(job)
    BY <1>2, <2>2, <2>3 DEF Main
  <2>6. WellFormed(job) /\ job.pc \notin {"rm_manifest", "put_manifest"}
    BY <2>2, <2>3 DEF WellFormed, Validated, Stored, Listed, Finishing, Distinct
  <2>7. jobs' = [jobs EXCEPT ![j] = job]
    BY <2>1 DEF job
  <2> QED BY <2>2, <2>3, <2>4, <2>5, <2>6, <2>7, OutsideStays
<1> QED BY <1>1, <1>2

-----------------------------------------------------------------------------
(* The theorems.                                                           *)

LEMMA InitIInv == Init => IInv
<1> SUFFICES ASSUME Init
             PROVE  IInv
  OBVIOUS
<1>1. TypeOK
  <2>1. <<>> \in Seq(Commits) /\ Nothing \in {Nothing} \cup Payload
    OBVIOUS
  <2> QED BY <2>1, IdleIsJob DEF Init, TypeOK, Directory, Record
<1>2. \A j \in Jobs : jobs[j] = Idle /\ Idle.pc = "idle" /\ ~Main(jobs[j])
  BY IdleIsJob DEF Init
<1>3. JobsFit /\ UploadsFit /\ Alone
  BY <1>2 DEF JobsFit, UploadsFit, Alone
<1>4. KindsFit
  <2> DEFINE none == [k \in Kinds |-> [history |-> <<>>, published |-> Nothing, lost |-> FALSE]]
  <2>1. ASSUME NEW k \in Kinds
        PROVE  /\ record[k].history = <<>> /\ record[k].published = Nothing
               /\ site[k].index = Nothing
    BY DEF Init
  <2>2. Entries(Nothing) = <<>> /\ Distinct(<<>>)
    BY DEF Entries, Distinct
  <2>3. \A max \in Nat : Cut(<<>>, max) = <<>>
    <3> TAKE max \in Nat
    <3>1. SubSeq(<<>>, 1, 0) = <<>>
      OBVIOUS
    <3> QED BY <3>1 DEF Cut
  <2>4. MaxIndex \in Nat /\ MaxFiles \in Nat
    BY UploadAssumption
  <2>5. \A k \in Kinds : Kept(record[k]) = {}
    BY <2>1, <2>3, <2>4 DEF Kept, Members
  <2> QED BY <2>1, <2>2, <2>3, <2>4, <2>5 DEF KindsFit
<1>5. EntriesFit
  BY <1>2 DEF EntriesFit, Init
<1> QED BY <1>1, <1>3, <1>4, <1>5 DEF IInv

LEMMA StepIInv == IInv /\ [Next]_vars => IInv'
<1> SUFFICES ASSUME IInv, [Next]_vars
             PROVE  IInv'
  OBVIOUS
<1>1. CASE UNCHANGED vars
  <2>1. UNCHANGED <<site, manifest, jobs, record, spent>>
    BY <1>1 DEF vars
  <2> QED BY <2>1 DEF IInv, TypeOK, JobsFit, UploadsFit, Alone, KindsFit, EntriesFit, Kind
<1>2. CASE \E j \in Jobs, k \in Kinds, c \in Shas, mode \in {"main", "pull", "dry"} : Start(j, k, c, mode)
  BY <1>2, StartKeeps
<1>3. CASE \E j \in Jobs : Killed(j)
  BY <1>3, KilledKeeps
<1>4. ASSUME NEW j \in Jobs, Step(j)
      PROVE  IInv'
  <2>1. CASE RemoveSignal(j) \/ PutSignal(j) \/ PutRunning(j)
    BY <2>1, SignalKeeps
  <2>2. CASE Validate(j)
    BY <2>2, ValidateKeeps
  <2>3. CASE RemovePull(j) \/ PutPull(j)
    BY <2>3, PullKeeps
  <2>4. CASE RemoveOwn(j)
    BY <2>4, RemoveOwnKeeps
  <2>5. CASE PutOwn(j)
    BY <2>5, PutOwnKeeps
  <2>6. CASE PutLatest(j)
    BY <2>6, PutLatestKeeps
  <2>7. CASE FetchIndex(j)
    BY <2>7, FetchIndexKeeps
  <2>8. CASE RemoveIndex(j)
    BY <2>8, RemoveIndexKeeps
  <2>9. CASE PutIndex(j)
    BY <2>9, PutIndexKeeps
  <2>10. CASE ListFiles(j)
    BY <2>10, ListFilesKeeps
  <2>11. CASE Prune(j) \/ PruneFails(j)
    BY <2>11, PruneKeeps
  <2>12. CASE Pruned(j)
    BY <2>12, PrunedKeeps
  <2>13. CASE RemoveStatus(j)
    BY <2>13, RemoveStatusKeeps
  <2>14. CASE PutDone(j)
    BY <2>14, PutDoneKeeps
  <2>15. CASE FetchManifest(j)
    BY <2>15, FetchManifestKeeps
  <2>16. CASE RemoveManifest(j)
    BY <2>16, RemoveManifestKeeps
  <2>17. CASE PutManifest(j)
    BY <2>17, PutManifestKeeps
  <2> QED BY <1>4, <2>1, <2>2, <2>3, <2>4, <2>5, <2>6, <2>7, <2>8, <2>9, <2>10, <2>11, <2>12,
             <2>13, <2>14, <2>15, <2>16, <2>17 DEF Step
<1> QED BY <1>1, <1>2, <1>3, <1>4 DEF Next

\* In every reachable state each upload, directory, record and manifest entry
\* is as the invariant says.
THEOREM Invariance == Spec => []IInv
BY InitIInv, StepIInv, PTL DEF Spec

\* The directories, the manifest, the jobs and the records stay of their types,
\* however many jobs run, fail or are killed.
THEOREM TypeCorrect == Spec => []TypeOK
<1>1. IInv => TypeOK
  BY DEF IInv
<1> QED BY <1>1, Invariance, PTL

\* An upload without a warning, that ran alone, leaves its kind's directory
\* telling of its commit in every file, with that commit's own data, whatever
\* it found there (src/.github/scripts/ci-upload.rs:131-175).
THEOREM UploadsComplete == Spec => []CompletedIsPublished
<1>1. IInv => CompletedIsPublished
  BY DEF IInv, KindsFit, Complete, CompletedIsPublished
<1> QED BY <1>1, Invariance, PTL

\* Unless an upload was torn, could not read the index or ran beside another,
\* the index is the last MAX_INDEX commits in the order of their latest uploads
\* (src/.github/scripts/ci-upload.rs:144-149,309-362).
THEOREM IndexIsHistory == Spec => []HistoryKept
<1>1. IInv => HistoryKept
  <2> SUFFICES ASSUME IInv, NEW k \in Kinds, ~record[k].lost, ~Replacing(k)
               PROVE  Entries(site[k].index) = Cut(record[k].history, MaxIndex)
    BY DEF HistoryKept
  <2>1. CASE \E j \in Jobs : Main(jobs[j]) /\ Kind(j) = k
    <3>1. PICK j \in Jobs : Main(jobs[j]) /\ Kind(j) = k
      BY <2>1
    <3>2. Fits(jobs[j], site[k], record[k])
      BY <3>1, UnderWay
    <3>3. jobs[j].pc # "put_index"
      BY <3>1 DEF Replacing, Active, Main, Kind
    <3> QED BY <3>2, <3>3 DEF Fits
  <2>2. CASE ~ \E j \in Jobs : Main(jobs[j]) /\ Kind(j) = k
    BY <2>2 DEF IInv, KindsFit
  <2> QED BY <2>1, <2>2
<1> QED BY <1>1, Invariance, PTL

\* In the same cases none of the last MAX_FILES commits is without its file,
\* and after an upload without a warning no older one has one
\* (src/.github/scripts/ci-upload.rs:151-167).
THEOREM OnlyOlderPruned == Spec => []PrunesOnlyOlder
<1>1. IInv => PrunesOnlyOlder
  <2>0. IInv => \A k \in Kinds :
          LET seq == Cut(record[k].history, MaxFiles)
          IN {seq[i] : i \in 1 .. Len(seq)} = Kept(record[k])
    <3>1. ASSUME IInv, NEW k \in Kinds
          PROVE  Cut(record[k].history, MaxFiles) \in Seq(Commits)
      <4>1. record[k].history \in Seq(Commits) /\ MaxFiles \in Nat
        BY <3>1, UploadAssumption DEF IInv, TypeOK, Record
      <4> QED BY <4>1, CutIs
    <3> QED BY <3>1 DEF Kept, Members
  <2> SUFFICES ASSUME IInv, NEW k \in Kinds, ~record[k].lost
               PROVE  /\ \A c \in Kept(record[k]) : site[k].files[c] # Nothing \/ Renewing(k, c)
                      /\ record[k].published # Nothing =>
                           \A c \in Commits : site[k].files[c] # Nothing => c \in Kept(record[k])
    BY <2>0 DEF PrunesOnlyOlder
  <2>1. ASSUME NEW c \in Kept(record[k]), site[k].files[c] = Nothing
        PROVE  Renewing(k, c)
    <3>1. PICK j \in Jobs : Main(jobs[j]) /\ Kind(j) = k
      BY <2>1 DEF IInv, KindsFit
    <3>2. Fits(jobs[j], site[k], record[k])
      BY <3>1, UnderWay
    <3>3. jobs[j].pc = "put_own" /\ Sha(j) = c
      BY <2>1, <3>2 DEF Fits, Sha
    <3> QED BY <3>1, <3>3 DEF Renewing, Active, Main, Kind
  <2>2. record[k].published # Nothing =>
          \A c \in Commits : site[k].files[c] # Nothing => c \in Kept(record[k])
    BY DEF IInv, KindsFit, Complete
  <2> QED BY <2>1, <2>2
<1> QED BY <1>1, Invariance, PTL

\* The manifest names commits that were indexed for their kind, whichever jobs
\* read and wrote it in between (src/.github/scripts/ci-upload.rs:177-208).
THEOREM ManifestIsOfIndexed == Spec => []ManifestNamesIndexed
<1>1. IInv => ManifestNamesIndexed
  BY DEF IInv, EntriesFit, Named, Members, ManifestNamesIndexed
<1> QED BY <1>1, Invariance, PTL
=============================================================================
