-------------------------- MODULE TrackIssueProofs --------------------------
(***************************************************************************)
(* Proofs about TrackIssue, for any trackers, legs, numbers of runs and    *)
(* issues, and any number of faults and of things that others do.          *)
(***************************************************************************)
EXTENDS TrackIssue, WellFoundedInduction, TLAPS

-----------------------------------------------------------------------------
(* The inductive invariant.                                                *)

\* One reporter at a time.
Slot == \A r, s \in Runs : Reporter(r) /\ Reporter(s) => r = s

\* What a reporter knows about its key while it goes from call to call.
Grounded ==
  \A r \in Runs : Reporter(r) =>
    /\ runs[r].default
    /\ runs[r].pc # "find" => ~Missing(Report(r))
    /\ runs[r].pc \in {"label", "create", "list", "update"} => Failed(Report(r))
    /\ runs[r].pc \in {"note", "close"} => ~Failed(Report(r))
    /\ runs[r].pc \in {"label", "create"} => Own(Key(r)) = {}
    /\ runs[r].pc \in {"list", "update", "note", "close"} =>
         /\ runs[r].mine \in Numbers
         /\ issues[runs[r].mine].by = Bot
         /\ issues[runs[r].mine].state # "absent"
         /\ issues[runs[r].mine].key = Key(r)
         /\ Key(r) \notin touched => runs[r].mine \in Own(Key(r))

IInv == TypeOK /\ Slot /\ Grounded /\ OneOpenIssue /\ ReportedIsShown

-----------------------------------------------------------------------------
(* The parts of a state.                                                   *)

LEMMA KeyType ==
  ASSUME TypeOK, NEW r \in Runs
  PROVE  Key(r) \in Keys /\ Report(r) \in [Legs -> LegResult]
<1>1. runs[r] \in RunType
  BY DEF TypeOK
<1>2. runs[r].at \in DOMAIN Trackers /\ runs[r].results \in [Keys -> [Legs -> LegResult]]
  BY <1>1 DEF RunType
<1> QED BY <1>2 DEF Key, Report, Keys

LEMMA IdleType == Idle \in RunType /\ Idle.pc = "idle" /\ ~Idle.default
<1>1. (CHOOSE r \in Reports : TRUE) \in [Legs -> LegResult]
  BY TrackerAssumption
<1>2. 1 \in DOMAIN Trackers
  BY TrackerAssumption
<1> QED BY <1>1, <1>2 DEF Idle, RunType

LEMMA FingerprintType ==
  ASSUME NEW report \in [Legs -> LegResult]
  PROVE  Fingerprint(report) \in Hashes /\ Fingerprint(report) # None
<1>1. Fingerprint(report) \in Hashes
  BY DEF Fingerprint, Hashes, LegResult
<1> QED BY <1>1, TrackerAssumption

LEMMA VerdictType ==
  ASSUME NEW report \in [Legs -> LegResult]
  PROVE  Verdict(report) \in Hashes \cup {None, Unknown} /\ Verdict(report) # Unknown
BY FingerprintType, TrackerAssumption DEF Verdict

LEMMA FirstOfOne ==
  ASSUME NEW n \in Nat
  PROVE  First({n}) = n
BY DEF First

LEMMA OwnAreNumbers ==
  ASSUME NEW key
  PROVE  Own(key) \subseteq Numbers
BY DEF Own, Matching

\* With one own issue open, it is the one that is shown.
LEMMA ShownIsOwn ==
  ASSUME OneOpenIssue, NEW key \in Keys, NEW n \in Own(key)
  PROVE  Own(key) = {n} /\ First(Own(key)) = n /\ Shown(key) = LastHash(issues[n])
<1>1. Own(key) = {n}
  BY DEF OneOpenIssue
<1>2. n \in Nat
  BY OwnAreNumbers, TrackerAssumption
<1> QED BY <1>1, <1>2, FirstOfOne DEF Shown

\* A set of positions has a newest one.
LEMMA NewestExists ==
  ASSUME NEW len \in Nat, NEW S \in SUBSET (1 .. len), S # {}
  PROVE  Newest(S) \in S
<1> DEFINE T == {len - i : i \in S}
<1>1. T \subseteq Nat /\ T # {}
  <2>1. \A i \in S : len - i \in Nat
    OBVIOUS
  <2> QED BY <2>1
<1>2. \E t \in T : \A u \in T : ~ (<<u, t>> \in OpToRel(<, Nat))
  <2> HIDE DEF T
  <2> QED BY <1>1, WFMin, NatLessThanWellFounded, Zenon
<1>3. PICK t \in T : \A u \in T : ~ (u < t)
  <2> HIDE DEF T
  <2>1. PICK t \in T : \A u \in T : ~ (<<u, t>> \in OpToRel(<, Nat))
    BY <1>2
  <2>2. \A u \in T : u < t => <<u, t>> \in OpToRel(<, Nat)
    BY <1>1, Zenon DEF OpToRel
  <2> QED BY <2>1, <2>2
<1>4. PICK i \in S : t = len - i
  BY <1>3
<1>5. ASSUME NEW j \in S
      PROVE  j <= i
  <2>1. len - j \in T
    OBVIOUS
  <2>2. ~ (len - j < len - i)
    BY <1>3, <1>4, <2>1
  <2>3. i \in Nat /\ j \in Nat
    OBVIOUS
  <2> QED BY <2>2, <2>3
<1>6. \E m \in S : \A j \in S : j <= m
  BY <1>5
<1> HIDE DEF T
<1> QED BY <1>6, Zenon DEF Newest

-----------------------------------------------------------------------------
(* What the writes change of the own issues.                               *)

LEMMA Unchanged ==
  ASSUME UNCHANGED issues
  PROVE  \A key : Own(key)' = Own(key) /\ Shown(key)' = Shown(key)
BY DEF Own, Matching, Shown, LastHash, Marked

\* An issue is opened at a number that was not in use.
LEMMA OpenedOwn ==
  ASSUME TypeOK, NEW n \in Numbers, issues[n].state = "absent",
         NEW key \in Keys, NEW by \in {Bot, Other}, NEW hash \in Hashes,
         issues' = [issues EXCEPT ![n] = Opened(key, by, hash)]
  PROVE  /\ issues' \in [Numbers -> Issue]
         /\ \A m \in Numbers \ {n} : issues'[m] = issues[m]
         /\ by = Other => \A k : Own(k)' = Own(k)
         /\ by = Bot => \A k : Own(k)' = IF k = key THEN Own(k) \cup {n} ELSE Own(k)
         /\ \A k : n \notin Own(k)
         /\ LastHash(issues'[n]) = hash
<1> DEFINE new == Opened(key, by, hash)
<1>1. /\ new \in Issue /\ new.key = key /\ new.by = by /\ new.state = "open" /\ new.marked
      /\ new.comments = <<>> /\ new.body = hash
  <2>1. Absent \in Issue
    BY TrackerAssumption, Trackers[1] \in Keys DEF Absent, Issue, Keys
  <2> QED BY <2>1 DEF Opened, Absent, Issue
<1>2. issues \in [Numbers -> Issue]
  BY DEF TypeOK
<1>3. issues'[n] = new /\ \A m \in Numbers \ {n} : issues'[m] = issues[m]
  BY <1>2
<1>4. issues' \in [Numbers -> Issue]
  BY <1>1, <1>2
<1>5. \A k : n \notin Own(k)
  BY DEF Own, Matching
<1>6. by = Other => \A k : Own(k)' = Own(k)
  BY <1>1, <1>3, <1>5, TrackerAssumption DEF Own, Matching
<1>7. by = Bot => \A k : Own(k)' = IF k = key THEN Own(k) \cup {n} ELSE Own(k)
  BY <1>1, <1>3, <1>5 DEF Own, Matching
<1>8. Marked(new) = {}
  BY <1>1 DEF Marked
<1>9. LastHash(issues'[n]) = hash
  BY <1>1, <1>3, <1>8 DEF LastHash
<1> QED BY <1>3, <1>4, <1>5, <1>6, <1>7, <1>9

\* A comment leaves every issue in its place, and only an own marker counts.
LEMMA CommentedOwn ==
  ASSUME TypeOK, NEW n \in Numbers, NEW by \in {Bot, Other}, NEW hash \in Hashes \cup {None},
         issues' = Commented(n, by, hash)
  PROVE  /\ issues' \in [Numbers -> Issue]
         /\ \A k : Own(k)' = Own(k)
         /\ \A m \in Numbers : issues'[m].key = issues[m].key /\ issues'[m].by = issues[m].by
         /\ \A m \in Numbers : issues[m].state # "absent" => issues'[m].state # "absent"
         /\ \A m \in Numbers \ {n} : issues'[m] = issues[m]
         /\ LastHash(issues'[n]) = IF by = Bot /\ hash # None THEN hash ELSE LastHash(issues[n])
<1> DEFINE old == issues[n]
           comment == [by |-> by, hash |-> hash]
           new == [old EXCEPT !.comments = Append(@, comment)]
<1>1. issues \in [Numbers -> Issue] /\ old \in Issue
  BY DEF TypeOK
<1>2. issues' = [issues EXCEPT ![n] = new]
  BY DEF Commented
<1>3. issues'[n] = new /\ \A m \in Numbers \ {n} : issues'[m] = issues[m]
  BY <1>1, <1>2
<1>4. old.comments \in Seq(Comment) /\ comment \in Comment
  BY <1>1 DEF Issue, Comment
<1>5. /\ new \in Issue /\ new.key = old.key /\ new.by = old.by /\ new.state = old.state
      /\ new.marked = old.marked /\ new.body = old.body
      /\ new.comments = Append(old.comments, comment)
  <2>1. Append(old.comments, comment) \in Seq(Comment)
    BY <1>4
  <2> HIDE DEF old, comment
  <2> QED BY <1>1, <2>1 DEF Issue
<1>6. issues' \in [Numbers -> Issue]
  BY <1>1, <1>2, <1>5
<1>7. \A k : Own(k)' = Own(k)
  <2>1. \A m \in Numbers :
          /\ issues'[m].key = issues[m].key /\ issues'[m].by = issues[m].by
          /\ issues'[m].state = issues[m].state /\ issues'[m].marked = issues[m].marked
    <3> HIDE DEF new
    <3> QED BY <1>3, <1>5
  <2> QED BY <2>1 DEF Own, Matching
<1>9. \A m \in Numbers : issues[m].state # "absent" => issues'[m].state # "absent"
  BY <1>3, <1>5
<1>8. LastHash(new) = IF by = Bot /\ hash # None THEN hash ELSE LastHash(old)
  <2> DEFINE len == Len(old.comments)
  <2>1. /\ len \in Nat /\ Len(new.comments) = len + 1
        /\ \A i \in 1 .. len : new.comments[i] = old.comments[i]
        /\ new.comments[len + 1] = comment
        /\ DOMAIN old.comments = 1 .. len /\ DOMAIN new.comments = 1 .. len + 1
    BY <1>4, <1>5
  <2> HIDE DEF new, old, comment, len
  <2>2. Marked(new) = IF by = Bot /\ hash # None THEN Marked(old) \cup {len + 1} ELSE Marked(old)
    <3>1. comment.by = by /\ comment.hash = hash
      BY DEF comment
    <3> QED BY <2>1, <3>1 DEF Marked
  <2>3. Marked(old) \subseteq 1 .. len
    BY <2>1 DEF Marked
  <2>4. CASE by = Bot /\ hash # None
    <3>1. Newest(Marked(new)) = len + 1
      BY <2>1, <2>2, <2>3, <2>4 DEF Newest
    <3>2. new.comments[len + 1].hash = hash
      BY <2>1 DEF comment
    <3> QED BY <2>2, <2>4, <3>1, <3>2 DEF LastHash
  <2>5. CASE ~(by = Bot /\ hash # None)
    <3>1. Marked(new) = Marked(old)
      BY <2>2, <2>5
    <3>2. CASE Marked(old) = {}
      BY <1>5, <2>5, <3>1, <3>2 DEF LastHash
    <3>3. CASE Marked(old) # {}
      <4>1. Newest(Marked(old)) \in Marked(old)
        BY <2>1, <2>3, <3>3, NewestExists
      <4> QED BY <2>1, <2>3, <2>5, <3>1, <3>3, <4>1 DEF LastHash
    <3> QED BY <3>2, <3>3
  <2> QED BY <2>4, <2>5
<1> QED BY <1>3, <1>5, <1>6, <1>7, <1>8, <1>9

\* Closing an issue, or taking its label or marker away.
LEMMA PutAwayOwn ==
  ASSUME TypeOK, NEW n \in Numbers,
         \/ issues' = [issues EXCEPT ![n].state = "closed"]
         \/ issues' = [issues EXCEPT ![n].marked = FALSE]
  PROVE  /\ issues' \in [Numbers -> Issue]
         /\ \A k : Own(k)' = Own(k) \ {n}
         /\ \A m \in Numbers : issues'[m].key = issues[m].key /\ issues'[m].by = issues[m].by
         /\ \A m \in Numbers : issues[m].state # "absent" => issues'[m].state # "absent"
         /\ \A m \in Numbers \ {n} : issues'[m] = issues[m]
<1>1. issues \in [Numbers -> Issue] /\ issues[n] \in Issue
  BY DEF TypeOK
<1>2. /\ issues' \in [Numbers -> Issue]
      /\ issues'[n].key = issues[n].key /\ issues'[n].by = issues[n].by
      /\ issues'[n].state = "closed" \/ ~issues'[n].marked
      /\ issues[n].state # "absent" => issues'[n].state # "absent"
      /\ \A m \in Numbers \ {n} : issues'[m] = issues[m]
  <2>1. CASE issues' = [issues EXCEPT ![n].state = "closed"]
    <3>1. [issues[n] EXCEPT !.state = "closed"] \in Issue
      BY <1>1 DEF Issue
    <3> QED BY <1>1, <2>1, <3>1 DEF Issue
  <2>2. CASE issues' = [issues EXCEPT ![n].marked = FALSE]
    <3>1. [issues[n] EXCEPT !.marked = FALSE] \in Issue
      BY <1>1 DEF Issue
    <3> QED BY <1>1, <2>2, <3>1 DEF Issue
  <2> QED BY <2>1, <2>2
<1>3. \A k : Own(k)' = Own(k) \ {n}
  BY <1>2 DEF Own, Matching
<1> QED BY <1>2, <1>3

\* A key is shown as before if its own issues are, and their hashes.
LEMMA ShownStays ==
  ASSUME OneOpenIssue, NEW key \in Keys, Own(key)' = Own(key),
         \A n \in Own(key) : LastHash(issues'[n]) = LastHash(issues[n])
  PROVE  Shown(key)' = Shown(key)
<1>1. CASE Own(key) = {}
  BY <1>1 DEF Shown
<1>2. CASE Own(key) # {}
  <2>1. PICK n : n \in Own(key)
    BY <1>2
  <2>2. First(Own(key)) = n
    BY <2>1, ShownIsOwn
  <2> QED BY <1>2, <2>1, <2>2 DEF Shown
<1> QED BY <1>1, <1>2

-----------------------------------------------------------------------------
(* The ways in which a tracker goes on.                                    *)

LEMMA Steps ==
  ASSUME TypeOK, NEW r \in Runs, NEW pc \in {"idle", "produced", "waiting"} \cup Reporting,
         Goto(r, pc)
  PROVE  /\ runs' \in [Runs -> RunType]
         /\ \A s \in Runs \ {r} : runs'[s] = runs[s]
         /\ runs'[r] = [runs[r] EXCEPT !.pc = pc]
         /\ Key(r)' = Key(r) /\ Report(r)' = Report(r)
<1>1. runs \in [Runs -> RunType] /\ runs[r] \in RunType
  BY DEF TypeOK
<1>2. [runs[r] EXCEPT !.pc = pc] \in RunType
  BY <1>1 DEF RunType
<1>3. runs' = [runs EXCEPT ![r] = [runs[r] EXCEPT !.pc = pc]]
  BY DEF Goto
<1>4. runs'[r] = [runs[r] EXCEPT !.pc = pc] /\ \A s \in Runs \ {r} : runs'[s] = runs[s]
  BY <1>1, <1>3
<1>5. runs'[r].at = runs[r].at /\ runs'[r].results = runs[r].results
  BY <1>1, <1>4 DEF RunType
<1> QED BY <1>1, <1>2, <1>3, <1>4, <1>5 DEF Key, Report

LEMMA NextTrackerEffect ==
  ASSUME TypeOK, NEW r \in Runs, NextTracker(r)
  PROVE  /\ runs' \in [Runs -> RunType]
         /\ \A s \in Runs \ {r} : runs'[s] = runs[s]
         /\ \/ runs'[r] = Idle
            \/ /\ runs'[r].pc = "find" /\ runs'[r].default = runs[r].default
               /\ runs'[r].results = runs[r].results
<1> DEFINE next == [runs[r] EXCEPT !.pc = "find", !.at = runs[r].at + 1, !.mine = 0]
<1>1. runs \in [Runs -> RunType] /\ runs[r] \in RunType
  BY DEF TypeOK
<1>2. runs' = [runs EXCEPT ![r] = IF runs[r].at = Len(Trackers) THEN Idle ELSE next]
  BY DEF NextTracker, AfterTracker
<1>3. CASE runs[r].at = Len(Trackers)
  BY <1>1, <1>2, <1>3, IdleType
<1>4. CASE runs[r].at # Len(Trackers)
  <2>1. runs[r].at + 1 \in DOMAIN Trackers
    BY <1>1, <1>4, TrackerAssumption DEF RunType
  <2>2. next \in RunType
    BY <1>1, <2>1 DEF RunType, Reporting
  <2>3. next.pc = "find" /\ next.default = runs[r].default /\ next.results = runs[r].results
    BY <1>1 DEF RunType
  <2> HIDE DEF next
  <2> QED BY <1>1, <1>2, <1>4, <2>2, <2>3
<1> QED BY <1>3, <1>4

\* What is reported of a key whose tracker ends.
LEMMA EndEffect ==
  ASSUME TypeOK, NEW r \in Runs, Synced(r) \/ GivenUp(r)
  PROVE  /\ NextTracker(r)
         /\ reported' \in [Keys -> Hashes \cup {None, Unknown}]
         /\ \A k \in Keys \ {Key(r)} : reported'[k] = reported[k]
         /\ GivenUp(r) => reported'[Key(r)] = Unknown
         /\ reported'[Key(r)] # Unknown =>
              Key(r) \notin touched /\ reported'[Key(r)] = Verdict(Report(r))
<1>1. Key(r) \in Keys /\ Report(r) \in [Legs -> LegResult]
  BY KeyType
<1>2. Verdict(Report(r)) \in Hashes \cup {None, Unknown}
  BY <1>1, VerdictType
<1>3. reported \in [Keys -> Hashes \cup {None, Unknown}]
  BY DEF TypeOK
<1>4. CASE Synced(r)
  BY <1>1, <1>2, <1>3, <1>4 DEF Synced, GivenUp
<1>5. CASE GivenUp(r)
  BY <1>1, <1>3, <1>5 DEF GivenUp
<1> QED BY <1>4, <1>5

LEMMA FaultType ==
  ASSUME TypeOK, Fault \/ UNCHANGED spent
  PROVE  spent' \in [changes : Nat, faults : Nat, meddling : Nat]
BY DEF TypeOK, Fault

\* A step of the one reporter lets no other in.
LEMMA SlotKept ==
  ASSUME TypeOK, Slot, NEW r \in Runs, Reporter(r), runs' \in [Runs -> RunType],
         \A s \in Runs \ {r} : runs'[s] = runs[s]
  PROVE  Slot' /\ \A s \in Runs \ {r} : ~Reporter(s)'
BY DEF Slot, Reporter

\* A tracker that ended knows nothing of the next key yet.
LEMMA GroundedAtEnd ==
  ASSUME TypeOK, Slot, Grounded, NEW r \in Runs, Reporter(r), NextTracker(r)
  PROVE  Grounded'
<1>1. /\ runs' \in [Runs -> RunType]
      /\ \A s \in Runs \ {r} : runs'[s] = runs[s]
      /\ \/ runs'[r] = Idle
         \/ runs'[r].pc = "find" /\ runs'[r].default = runs[r].default
  BY NextTrackerEffect
<1>2. \A s \in Runs \ {r} : ~Reporter(s)'
  BY <1>1, SlotKept
<1>3. runs[r].default
  BY DEF Grounded
<1>4. Reporter(r)' => runs'[r].pc = "find" /\ runs'[r].default
  BY <1>1, <1>3, IdleType DEF Reporter, Reporting
<1> QED BY <1>2, <1>4 DEF Grounded

-----------------------------------------------------------------------------
(* Steps that write no issue.                                              *)

LEMMA GroundedQuiet ==
  ASSUME Grounded, UNCHANGED <<issues, touched>>,
         \A s \in Runs : Reporter(s)' => \/ runs'[s] = runs[s]
                                         \/ runs'[s].pc = "find" /\ runs'[s].default
  PROVE  Grounded'
<1> SUFFICES ASSUME NEW s \in Runs, Reporter(s)'
             PROVE  /\ runs[s]'.default
                    /\ runs[s]'.pc # "find" => ~Missing(Report(s)')
                    /\ runs[s]'.pc \in {"label", "create", "list", "update"} => Failed(Report(s)')
                    /\ runs[s]'.pc \in {"note", "close"} => ~Failed(Report(s)')
                    /\ runs[s]'.pc \in {"label", "create"} => Own(Key(s))' = {}
                    /\ runs[s]'.pc \in {"list", "update", "note", "close"} =>
                         /\ runs[s]'.mine \in Numbers
                         /\ issues'[runs[s]'.mine].by = Bot
                         /\ issues'[runs[s]'.mine].state # "absent"
                         /\ issues'[runs[s]'.mine].key = Key(s)'
                         /\ Key(s)' \notin touched' => runs[s]'.mine \in Own(Key(s))'
  BY DEF Grounded, Missing, Failed
<1>1. CASE runs'[s] = runs[s]
  <2>1. Reporter(s) /\ Key(s)' = Key(s) /\ Report(s)' = Report(s)
    BY <1>1 DEF Reporter, Key, Report
  <2>2. Own(Key(s))' = Own(Key(s))
    BY <2>1 DEF Own, Matching
  <2> QED BY <1>1, <2>1, <2>2 DEF Grounded
<1>2. CASE runs'[s].pc = "find" /\ runs'[s].default
  BY <1>2
<1> QED BY <1>1, <1>2

LEMMA QuietStep ==
  ASSUME IInv, UNCHANGED <<issues, reported, touched>>,
         world' \in [Keys -> Reports], runs' \in [Runs -> RunType],
         spent' \in [changes : Nat, faults : Nat, meddling : Nat],
         Slot', Grounded'
  PROVE  IInv'
<1>1. TypeOK'
  BY DEF IInv, TypeOK
<1>2. \A key : Own(key)' = Own(key) /\ Shown(key)' = Shown(key)
  BY Unchanged
<1>3. OneOpenIssue'
  BY <1>2 DEF IInv, OneOpenIssue
<1>4. ReportedIsShown'
  BY <1>2 DEF IInv, ReportedIsShown
<1> QED BY <1>1, <1>3, <1>4 DEF IInv

LEMMA ProduceKeeps ==
  ASSUME IInv, NEW r \in Runs, Produce(r)
  PROVE  IInv'
<1>1. TypeOK /\ Slot /\ Grounded
  BY DEF IInv
<1>2. PICK default \in BOOLEAN :
        runs' = [runs EXCEPT ![r] = [Idle EXCEPT !.pc = "produced", !.default = default, !.results = world]]
  BY DEF Produce
<1>3. [Idle EXCEPT !.pc = "produced", !.default = default, !.results = world] \in RunType
  <2>1. world \in [Keys -> [Legs -> LegResult]]
    BY <1>1, TrackerAssumption DEF TypeOK
  <2> QED BY <2>1, IdleType DEF RunType
<1>4. /\ runs' \in [Runs -> RunType] /\ runs'[r].pc = "produced"
      /\ \A s \in Runs \ {r} : runs'[s] = runs[s]
  BY <1>1, <1>2, <1>3, IdleType DEF TypeOK, RunType
<1>5. ~Reporter(r)'
  BY <1>4 DEF Reporter, Reporting
<1>6. Slot'
  BY <1>1, <1>4, <1>5 DEF Slot, Reporter
<1>7. Grounded'
  BY <1>1, <1>4, <1>5, GroundedQuiet DEF Produce
<1> QED BY <1>1, <1>4, <1>6, <1>7, QuietStep DEF Produce, TypeOK

LEMMA LoseLegKeeps ==
  ASSUME IInv, NEW r \in Runs, LoseLeg(r)
  PROVE  IInv'
<1>1. TypeOK /\ Slot /\ Grounded
  BY DEF IInv
<1>2. PICK key \in Keys, leg \in Legs :
        runs' = [runs EXCEPT ![r].results =
                   [runs[r].results EXCEPT ![key] = Dropped(runs[r].results[key], leg)]]
  BY DEF LoseLeg
<1>3. runs \in [Runs -> RunType] /\ runs[r] \in RunType
  BY <1>1 DEF TypeOK
<1> DEFINE results == [runs[r].results EXCEPT ![key] = Dropped(runs[r].results[key], leg)]
<1>4. results \in [Keys -> [Legs -> LegResult]]
  <2>1. runs[r].results \in [Keys -> [Legs -> LegResult]]
    BY <1>3 DEF RunType
  <2>2. Dropped(runs[r].results[key], leg) \in [Legs -> LegResult]
    BY <2>1 DEF Dropped, LegResult
  <2> QED BY <2>1, <2>2
<1>5. [runs[r] EXCEPT !.results = results] \in RunType
  <2> HIDE DEF results
  <2> QED BY <1>3, <1>4 DEF RunType
<1>6. /\ runs' \in [Runs -> RunType] /\ runs'[r].pc = runs[r].pc
      /\ \A s \in Runs \ {r} : runs'[s] = runs[s]
  <2>1. runs' = [runs EXCEPT ![r] = [runs[r] EXCEPT !.results = results]]
    BY <1>2
  <2> HIDE DEF results
  <2> QED BY <1>3, <1>5, <2>1 DEF RunType
<1>7. ~Reporter(r)'
  BY <1>6 DEF Reporter, Reporting, LoseLeg
<1>8. Slot'
  BY <1>1, <1>6, <1>7 DEF Slot, Reporter
<1>9. Grounded'
  BY <1>1, <1>6, <1>7, GroundedQuiet DEF LoseLeg
<1> QED BY <1>1, <1>6, <1>8, <1>9, QuietStep, FaultType DEF LoseLeg, TypeOK

LEMMA WaitKeeps ==
  ASSUME IInv, NEW r \in Runs, Wait(r)
  PROVE  IInv'
<1>1. TypeOK /\ Slot /\ Grounded
  BY DEF IInv
<1>2. runs \in [Runs -> RunType]
  BY <1>1 DEF TypeOK
<1>3. [runs[r] EXCEPT !.pc = "waiting"] \in RunType
  BY <1>2 DEF RunType
<1>4. /\ runs' \in [Runs -> RunType]
      /\ \A s \in Runs : runs'[s] = runs[s] \/ runs'[s].pc \in {"idle", "waiting"}
  BY <1>2, <1>3, IdleType DEF Wait, RunType
<1>5. \A s \in Runs : Reporter(s)' => runs'[s] = runs[s] /\ Reporter(s)
  BY <1>4 DEF Reporter, Reporting
<1>6. Slot'
  BY <1>1, <1>5 DEF Slot
<1>7. Grounded'
  BY <1>1, <1>5, GroundedQuiet DEF Wait
<1> QED BY <1>1, <1>4, <1>6, <1>7, QuietStep DEF Wait, TypeOK

LEMMA EnterKeeps ==
  ASSUME IInv, NEW r \in Runs, Enter(r)
  PROVE  IInv'
<1>1. TypeOK /\ Slot /\ Grounded
  BY DEF IInv
<1>2. runs \in [Runs -> RunType] /\ runs[r] \in RunType
  BY <1>1 DEF TypeOK
<1>3. /\ Entered(runs[r]) \in RunType
      /\ \/ Entered(runs[r]).pc = "idle"
         \/ Entered(runs[r]).pc = "find" /\ Entered(runs[r]).default
  BY <1>2, IdleType DEF Entered, RunType, Reporting
<1>4. /\ runs' \in [Runs -> RunType] /\ runs'[r] = Entered(runs[r])
      /\ \A s \in Runs \ {r} : runs'[s] = runs[s]
  BY <1>2, <1>3 DEF Enter
<1>5. \A s \in Runs : ~Reporter(s)
  BY DEF Enter, MayReport
<1>6. \A s \in Runs : Reporter(s)' => s = r /\ runs'[s].pc = "find" /\ runs'[s].default
  BY <1>3, <1>4, <1>5 DEF Reporter, Reporting
<1>7. Slot'
  BY <1>6 DEF Slot
<1>8. Grounded'
  BY <1>1, <1>6, GroundedQuiet DEF Enter
<1> QED BY <1>1, <1>4, <1>7, <1>8, QuietStep DEF Enter, TypeOK

LEMMA ChangeKeeps ==
  ASSUME IInv, NEW key \in Keys, Change(key)
  PROVE  IInv'
<1>1. TypeOK /\ Slot /\ Grounded
  BY DEF IInv
<1>2. Slot'
  BY <1>1 DEF Slot, Reporter, Change
<1>3. Grounded'
  BY <1>1, GroundedQuiet DEF Change
<1>4. world' \in [Keys -> Reports]
  BY <1>1 DEF Change, TypeOK
<1>5. spent' \in [changes : Nat, faults : Nat, meddling : Nat]
  BY <1>1 DEF Change, TypeOK
<1> QED BY <1>1, <1>2, <1>3, <1>4, <1>5, QuietStep DEF Change, TypeOK

-----------------------------------------------------------------------------
(* The end of a tracker.                                                   *)

\* A tracker ends: nothing else but the issues has to be looked at.
LEMMA EndKeeps ==
  ASSUME IInv, NEW r \in Runs, Reporter(r), Synced(r) \/ GivenUp(r),
         UNCHANGED world, Fault \/ UNCHANGED spent,
         issues' \in [Numbers -> Issue], touched' \in SUBSET Keys,
         OneOpenIssue',
         \A k \in Keys \ {Key(r)} : Shown(k)' = Shown(k),
         \A k \in Keys : k = Key(r) /\ k \notin touched /\ Synced(r) =>
           Shown(k)' = Verdict(Report(r))
  PROVE  IInv'
<1>1. TypeOK /\ Slot /\ Grounded /\ ReportedIsShown
  BY DEF IInv
<1>2. /\ NextTracker(r)
      /\ reported' \in [Keys -> Hashes \cup {None, Unknown}]
      /\ \A k \in Keys \ {Key(r)} : reported'[k] = reported[k]
      /\ GivenUp(r) => reported'[Key(r)] = Unknown
      /\ reported'[Key(r)] # Unknown =>
           Key(r) \notin touched /\ reported'[Key(r)] = Verdict(Report(r))
  BY <1>1, EndEffect
<1>3. /\ runs' \in [Runs -> RunType]
      /\ \A s \in Runs \ {r} : runs'[s] = runs[s]
  BY <1>1, <1>2, NextTrackerEffect
<1>4. TypeOK'
  <2>1. spent' \in [changes : Nat, faults : Nat, meddling : Nat]
    BY <1>1, FaultType
  <2> QED BY <1>1, <1>2, <1>3, <2>1 DEF TypeOK
<1>5. Slot'
  BY <1>1, <1>3, SlotKept
<1>6. Grounded'
  BY <1>1, <1>2, GroundedAtEnd
<1>7. ReportedIsShown'
  <2> SUFFICES ASSUME NEW k \in Keys, reported'[k] # Unknown
               PROVE  Shown(k)' = reported'[k]
    BY DEF ReportedIsShown
  <2>1. CASE k # Key(r)
    <3>1. reported'[k] = reported[k] /\ Shown(k)' = Shown(k)
      BY <1>2, <2>1
    <3> QED BY <1>1, <3>1 DEF ReportedIsShown
  <2>2. CASE k = Key(r)
    <3>1. Shown(k)' = Verdict(Report(r)) /\ reported'[k] = Verdict(Report(r))
      BY <1>2, <2>2
    <3> QED BY <3>1
  <2> QED BY <2>1, <2>2
<1> QED BY <1>4, <1>5, <1>6, <1>7 DEF IInv

LEMMA SkipMissingKeeps ==
  ASSUME IInv, NEW r \in Runs, SkipMissing(r)
  PROVE  IInv'
<1>1. TypeOK /\ Slot /\ Grounded /\ Reporter(r)
  BY DEF IInv, SkipMissing, Reporter, Reporting
<1>2. NextTracker(r)
  BY DEF SkipMissing
<1>3. /\ runs' \in [Runs -> RunType]
      /\ \A s \in Runs \ {r} : runs'[s] = runs[s]
  BY <1>1, <1>2, NextTrackerEffect
<1>4. Slot'
  BY <1>1, <1>3, SlotKept
<1>5. Grounded'
  BY <1>1, <1>2, GroundedAtEnd
<1> QED BY <1>1, <1>3, <1>4, <1>5, QuietStep DEF SkipMissing, TypeOK

\* A call that fails without effect, and the end of the job.
LEMMA CallFailsKeeps ==
  ASSUME IInv, NEW r \in Runs, CallFails(r)
  PROVE  IInv'
<1>1. TypeOK
  BY DEF IInv
<1>2. \A k : Own(k)' = Own(k) /\ Shown(k)' = Shown(k)
  BY Unchanged DEF CallFails
<1>3. OneOpenIssue'
  BY <1>2 DEF IInv, OneOpenIssue
<1>4. reported'[Key(r)] = Unknown
  BY <1>1, EndEffect DEF CallFails
<1>5. ~Synced(r) \/ Key(r) \in touched
  BY <1>1, <1>4, KeyType, VerdictType DEF Synced, TypeOK
<1> QED BY <1>1, <1>2, <1>3, <1>5, EndKeeps DEF CallFails, TypeOK

LEMMA StoppedKeeps ==
  ASSUME IInv, NEW r \in Runs, Stopped(r)
  PROVE  IInv'
<1>1. TypeOK /\ Slot /\ Grounded /\ ReportedIsShown /\ OneOpenIssue
  BY DEF IInv
<1>2. /\ runs' \in [Runs -> RunType] /\ ~Reporter(r)'
      /\ \A s \in Runs \ {r} : runs'[s] = runs[s]
  BY <1>1, IdleType DEF Stopped, TypeOK, Reporter, Reporting
<1>3. /\ reported' \in [Keys -> Hashes \cup {None, Unknown}]
      /\ \A k \in Keys : reported'[k] = reported[k] \/ reported'[k] = Unknown
  BY <1>1, KeyType DEF Stopped, TypeOK
<1>4. \A k : Own(k)' = Own(k) /\ Shown(k)' = Shown(k)
  BY Unchanged DEF Stopped
<1>5. TypeOK'
  BY <1>1, <1>2, <1>3, FaultType DEF Stopped, TypeOK
<1>6. Slot'
  BY <1>1, <1>2 DEF Slot, Reporter
<1>7. Grounded'
  BY <1>1, <1>2, GroundedQuiet DEF Stopped
<1>8. OneOpenIssue' /\ ReportedIsShown'
  BY <1>1, <1>3, <1>4 DEF OneOpenIssue, ReportedIsShown
<1> QED BY <1>5, <1>6, <1>7, <1>8 DEF IInv
LEMMA FindKeeps ==
  ASSUME IInv, NEW r \in Runs, Find(r)
  PROVE  IInv'
<1>1. /\ TypeOK /\ Slot /\ Grounded /\ OneOpenIssue /\ ReportedIsShown
      /\ Reporter(r) /\ runs[r].default /\ ~Missing(Report(r))
  BY DEF IInv, Find, Reporter, Reporting, Grounded
<1>2. runs \in [Runs -> RunType] /\ runs[r] \in RunType
  BY <1>1 DEF TypeOK
<1>3. UNCHANGED <<world, issues, spent>> /\ touched' = touched \ {Key(r)}
  BY DEF Find
<1>4. \A k : Own(k)' = Own(k) /\ Shown(k)' = Shown(k)
  BY <1>3, Unchanged
<1>5. OneOpenIssue' /\ touched' \in SUBSET Keys /\ issues' \in [Numbers -> Issue]
  BY <1>1, <1>3, <1>4 DEF OneOpenIssue, TypeOK
<1> DEFINE found == IF Own(Key(r)) = {} THEN 0 ELSE First(Own(Key(r)))
           goto(pc) == runs' = [runs EXCEPT ![r].pc = pc, ![r].mine = found] /\ UNCHANGED reported
<1>6. /\ found \in Nat
      /\ Own(Key(r)) # {} => found \in Own(Key(r)) /\ found \in Numbers
  <2>1. CASE Own(Key(r)) = {}
    BY <2>1
  <2>2. CASE Own(Key(r)) # {}
    <3>1. PICK n : n \in Own(Key(r))
      BY <2>2
    <3>2. First(Own(Key(r))) = n
      BY <1>1, <3>1, ShownIsOwn, KeyType
    <3> QED BY <2>2, <3>1, <3>2, OwnAreNumbers, TrackerAssumption
  <2> QED BY <2>1, <2>2
\* The tracker goes on to its next call.
<1>7. ASSUME NEW pc \in {"list", "note", "label"}, goto(pc),
             pc \in {"label", "list"} => Failed(Report(r)),
             pc = "note" => ~Failed(Report(r)),
             pc = "label" => Own(Key(r)) = {},
             pc # "label" => Own(Key(r)) # {}
      PROVE  IInv'
  <2> HIDE DEF found
  <2>1. [runs[r] EXCEPT !.pc = pc, !.mine = found] \in RunType
    BY <1>2, <1>6 DEF RunType, Reporting
  <2>2. /\ runs' \in [Runs -> RunType]
        /\ \A s \in Runs \ {r} : runs'[s] = runs[s]
        /\ runs'[r].pc = pc /\ runs'[r].mine = found /\ runs'[r].at = runs[r].at
        /\ runs'[r].results = runs[r].results /\ runs'[r].default
    <3>1. runs' = [runs EXCEPT ![r] = [runs[r] EXCEPT !.pc = pc, !.mine = found]]
      BY <1>7
    <3> QED BY <1>1, <1>2, <2>1, <3>1 DEF RunType
  <2>3. Slot' /\ \A s \in Runs \ {r} : ~Reporter(s)'
    BY <1>1, <2>2, SlotKept
  <2>4. Key(r)' = Key(r) /\ Report(r)' = Report(r)
    BY <2>2 DEF Key, Report
  <2>5. Own(Key(r))' = Own(Key(r))
    BY <1>3, <2>4 DEF Own, Matching
  <2>6. pc # "label" => /\ found \in Numbers
                        /\ issues'[found].by = Bot
                        /\ issues'[found].state # "absent"
                        /\ issues'[found].key = Key(r)'
                        /\ found \in Own(Key(r))'
    BY <1>3, <1>6, <1>7, <2>4, <2>5 DEF Own, Matching
  <2>7. Grounded'
    <3>1. Missing(Report(r)') = Missing(Report(r)) /\ Failed(Report(r)') = Failed(Report(r))
      BY <2>4
    <3>2. \A s \in Runs : Reporter(s)' => s = r
      BY <2>3
    <3>3. runs[r]'.pc = pc /\ runs[r]'.mine = found /\ runs[r]'.default
      BY <2>2
    <3>4. ~Missing(Report(r))'
      BY <1>1, <2>4 DEF Missing
    <3>5. Failed(Report(r))' = Failed(Report(r))
      BY <2>4 DEF Failed
    <3> QED BY <1>7, <2>5, <2>6, <3>2, <3>3, <3>4, <3>5 DEF Grounded
  <2>8. TypeOK'
    BY <1>1, <1>3, <1>5, <1>7, <2>2 DEF TypeOK
  <2>9. ReportedIsShown'
    BY <1>1, <1>4, <1>7 DEF ReportedIsShown
  <2> QED BY <1>5, <2>3, <2>7, <2>8, <2>9 DEF IInv
<1>8. CASE Own(Key(r)) # {} /\ Failed(Report(r)) /\ goto("list")
  <2> HIDE DEF goto
  <2> QED BY <1>7, <1>8
<1>9. CASE Own(Key(r)) # {} /\ ~Failed(Report(r)) /\ goto("note")
  <2> HIDE DEF goto
  <2> QED BY <1>7, <1>9
<1>10. CASE Own(Key(r)) = {} /\ Failed(Report(r)) /\ goto("label")
  <2> HIDE DEF goto
  <2> QED BY <1>7, <1>10
\* Nothing is open, and nothing is to be.
<1>11. CASE Own(Key(r)) = {} /\ ~Failed(Report(r)) /\ NextTracker(r)
            /\ reported' = [reported EXCEPT ![Key(r)] = None]
  <2>1. /\ runs' \in [Runs -> RunType]
        /\ \A s \in Runs \ {r} : runs'[s] = runs[s]
    BY <1>1, <1>11, NextTrackerEffect
  <2>2. reported' \in [Keys -> Hashes \cup {None, Unknown}]
    BY <1>1, <1>11 DEF TypeOK
  <2>3. TypeOK'
    BY <1>1, <1>3, <1>5, <2>1, <2>2 DEF TypeOK
  <2>4. Slot' /\ Grounded'
    BY <1>1, <1>11, <2>1, SlotKept, GroundedAtEnd
  <2>5. ReportedIsShown'
    <3> SUFFICES ASSUME NEW k \in Keys, reported'[k] # Unknown
                 PROVE  Shown(k)' = reported'[k]
      BY DEF ReportedIsShown
    <3>1. CASE k # Key(r)
      BY <1>1, <1>4, <1>11, <3>1 DEF ReportedIsShown, TypeOK
    <3>2. CASE k = Key(r)
      BY <1>1, <1>4, <1>11, <3>2 DEF Shown, TypeOK
    <3> QED BY <3>1, <3>2
  <2> QED BY <1>5, <2>3, <2>4, <2>5 DEF IInv
<1>12. CASE GivenUp(r)
  <2>1. ~Synced(r) \/ Key(r) \in touched
    <3>1. reported'[Key(r)] = Unknown
      BY <1>1, <1>12, EndEffect
    <3> QED BY <1>1, <3>1, KeyType, VerdictType DEF Synced, TypeOK
  <2> QED BY <1>1, <1>3, <1>4, <1>5, <1>12, <2>1, EndKeeps
<1> QED
  <2> HIDE DEF goto, found
  <2>1. \/ Own(Key(r)) # {} /\ Failed(Report(r)) /\ goto("list")
        \/ Own(Key(r)) # {} /\ ~Failed(Report(r)) /\ goto("note")
        \/ /\ Own(Key(r)) = {} /\ ~Failed(Report(r)) /\ NextTracker(r)
           /\ reported' = [reported EXCEPT ![Key(r)] = None]
        \/ Own(Key(r)) = {} /\ Failed(Report(r)) /\ goto("label")
        \/ GivenUp(r)
    BY DEF Find, goto, found
  <2> QED BY <1>8, <1>9, <1>10, <1>11, <1>12, <2>1
LEMMA EnsureLabelKeeps ==
  ASSUME IInv, NEW r \in Runs, EnsureLabel(r)
  PROVE  IInv'
<1>1. TypeOK /\ Slot /\ Grounded /\ Reporter(r)
  BY DEF IInv, EnsureLabel, Reporter, Reporting
<1>2. runs \in [Runs -> RunType] /\ runs[r] \in RunType
  BY <1>1 DEF TypeOK
<1>3. /\ runs' \in [Runs -> RunType]
      /\ \A s \in Runs \ {r} : runs'[s] = runs[s]
      /\ runs'[r] = [runs[r] EXCEPT !.pc = "create"]
      /\ Key(r)' = Key(r) /\ Report(r)' = Report(r)
  BY <1>1, Steps DEF EnsureLabel, Reporting
<1>4. Slot' /\ \A s \in Runs \ {r} : ~Reporter(s)'
  BY <1>1, <1>3, SlotKept
<1>5. Own(Key(r))' = {}
  BY <1>1, <1>3 DEF Grounded, EnsureLabel, Own, Matching
<1>6. Grounded'
  <2>1. \A s \in Runs : Reporter(s)' => s = r
    BY <1>4
  <2>2. runs'[r].pc = "create" /\ runs'[r].default
    BY <1>1, <1>2, <1>3 DEF RunType, Grounded
  <2>3. ~Missing(Report(r))' /\ Failed(Report(r))'
    BY <1>1, <1>3 DEF Grounded, EnsureLabel, Missing, Failed
  <2> QED BY <1>5, <2>1, <2>2, <2>3 DEF Grounded
<1> QED BY <1>1, <1>3, <1>4, <1>6, QuietStep DEF EnsureLabel, TypeOK

\* A failure that is reported is shown as it is.
LEMMA FailureShown ==
  ASSUME NEW report \in [Legs -> LegResult], Failed(report)
  PROVE  Verdict(report) = Fingerprint(report)
BY DEF Verdict

\* The last call of a tracker, whatever becomes of its response.
LEMMA LastCallEnds ==
  ASSUME NEW r \in Runs, LastCall(r)
  PROVE  (Synced(r) \/ GivenUp(r)) /\ (Fault \/ UNCHANGED spent)
BY DEF LastCall

\* What an opened issue shows, of its key and of the others.
LEMMA CreateEffect ==
  ASSUME IInv, NEW r \in Runs, Create(r)
  PROVE  /\ Reporter(r) /\ runs[r].default /\ ~Missing(Report(r)) /\ Key(r) \in Keys
         /\ issues' \in [Numbers -> Issue] /\ OneOpenIssue'
         /\ \A k \in Keys : k # Key(r) => Shown(k)' = Shown(k)
         /\ \A k \in Keys : k = Key(r) => Shown(k)' = Verdict(Report(r))
<1>1. /\ TypeOK /\ Grounded /\ OneOpenIssue /\ Reporter(r)
      /\ Failed(Report(r)) /\ ~Missing(Report(r)) /\ runs[r].default /\ Own(Key(r)) = {}
  BY DEF IInv, Create, Reporter, Reporting, Grounded
<1>2. Key(r) \in Keys /\ Report(r) \in [Legs -> LegResult]
  BY <1>1, KeyType
<1>3. PICK n \in Numbers :
        IsNext(n) /\ issues' = [issues EXCEPT ![n] = Opened(Key(r), Bot, Fingerprint(Report(r)))]
  BY DEF Create
<1> DEFINE key == Key(r)
           hash == Fingerprint(Report(r))
<1>4. key \in Keys /\ hash \in Hashes
  BY <1>2, FingerprintType
<1>5. /\ issues' \in [Numbers -> Issue]
      /\ \A m \in Numbers \ {n} : issues'[m] = issues[m]
      /\ \A k : Own(k)' = IF k = key THEN Own(k) \cup {n} ELSE Own(k)
      /\ \A k : n \notin Own(k)
      /\ LastHash(issues'[n]) = hash
  BY <1>1, <1>3, <1>4, OpenedOwn DEF IsNext
<1>6. OneOpenIssue'
  BY <1>1, <1>5 DEF OneOpenIssue
<1>7. ASSUME NEW k \in Keys, k # key
      PROVE  Shown(k)' = Shown(k)
  <2>1. Own(k)' = Own(k)
    BY <1>5, <1>7
  <2>2. \A m \in Own(k) : LastHash(issues'[m]) = LastHash(issues[m])
    BY <1>5, OwnAreNumbers
  <2> QED BY <1>1, <2>1, <2>2, ShownStays
<1>8. ASSUME NEW k \in Keys, k = key
      PROVE  Shown(k)' = Verdict(Report(r))
  <2>1. Own(k)' = {n}
    BY <1>1, <1>5, <1>8
  <2>2. First({n}) = n
    BY FirstOfOne, TrackerAssumption
  <2>3. Shown(k)' = LastHash(issues'[n])
    BY <2>1, <2>2 DEF Shown, LastHash, Marked
  <2> QED BY <1>1, <1>2, <1>5, <2>3, FailureShown
<1> HIDE DEF hash
<1> QED BY <1>1, <1>2, <1>5, <1>6, <1>7, <1>8

LEMMA CreateKeeps ==
  ASSUME IInv, NEW r \in Runs, Create(r)
  PROVE  IInv'
<1>1. touched' \in SUBSET Keys /\ UNCHANGED world
  BY DEF IInv, TypeOK, Create
<1>2. (Synced(r) \/ GivenUp(r)) /\ (Fault \/ UNCHANGED spent)
  BY LastCallEnds DEF Create
<1> QED BY <1>1, <1>2, CreateEffect, EndKeeps

LEMMA ListKeeps ==
  ASSUME IInv, NEW r \in Runs, List(r)
  PROVE  IInv'
<1>1. /\ TypeOK /\ Slot /\ Grounded /\ OneOpenIssue /\ ReportedIsShown
      /\ Reporter(r) /\ Failed(Report(r)) /\ ~Missing(Report(r)) /\ runs[r].default
      /\ runs[r].mine \in Numbers
      /\ issues[runs[r].mine].by = Bot
      /\ issues[runs[r].mine].state # "absent"
      /\ issues[runs[r].mine].key = Key(r)
      /\ Key(r) \notin touched => runs[r].mine \in Own(Key(r))
  BY DEF IInv, List, Reporter, Reporting, Grounded
<1>2. UNCHANGED <<world, issues, touched, spent>>
  BY DEF List
<1>3. \A k : Own(k)' = Own(k) /\ Shown(k)' = Shown(k)
  BY <1>2, Unchanged
<1>4. OneOpenIssue' /\ touched' \in SUBSET Keys /\ issues' \in [Numbers -> Issue]
  BY <1>1, <1>2, <1>3 DEF OneOpenIssue, TypeOK
<1>5. Key(r) \in Keys /\ Report(r) \in [Legs -> LegResult]
  BY <1>1, KeyType
<1>6. CASE LastHash(issues[runs[r].mine]) = Fingerprint(Report(r)) /\ Synced(r)
  <2>1. ASSUME NEW k \in Keys, k = Key(r), k \notin touched
        PROVE  Shown(k)' = Verdict(Report(r))
    BY <1>1, <1>3, <1>5, <1>6, <2>1, ShownIsOwn, FailureShown
  <2> QED BY <1>1, <1>2, <1>3, <1>4, <1>6, <2>1, EndKeeps
<1>7. CASE Goto(r, "update") /\ UNCHANGED reported
  <2>1. /\ runs' \in [Runs -> RunType]
        /\ \A s \in Runs \ {r} : runs'[s] = runs[s]
        /\ runs'[r] = [runs[r] EXCEPT !.pc = "update"]
        /\ Key(r)' = Key(r) /\ Report(r)' = Report(r)
    BY <1>1, <1>7, Steps DEF Reporting
  <2>2. Slot' /\ \A s \in Runs \ {r} : ~Reporter(s)'
    BY <1>1, <2>1, SlotKept
  <2>3. runs'[r].pc = "update" /\ runs'[r].default /\ runs'[r].mine = runs[r].mine
    BY <1>1, <2>1 DEF TypeOK, RunType
  <2>4. ~Missing(Report(r))' /\ Failed(Report(r))' /\ Own(Key(r))' = Own(Key(r))
    BY <1>1, <1>2, <2>1 DEF Missing, Failed, Own, Matching
  <2>5. \A s \in Runs : Reporter(s)' => s = r
    BY <2>2
  <2>6. Grounded'
    <3>1. /\ runs'[r].mine \in Numbers
          /\ issues'[runs'[r].mine].by = Bot
          /\ issues'[runs'[r].mine].state # "absent"
          /\ issues'[runs'[r].mine].key = Key(r)'
      BY <1>1, <1>2, <2>1, <2>3
    <3>2. Key(r)' \notin touched' => runs'[r].mine \in Own(Key(r))'
      BY <1>1, <1>2, <2>1, <2>3, <2>4
    <3> QED BY <2>3, <2>4, <2>5, <3>1, <3>2 DEF Grounded
  <2> QED BY <1>1, <1>2, <1>7, <2>1, <2>2, <2>6, QuietStep DEF TypeOK
<1> QED BY <1>6, <1>7 DEF List

\* What a comment with a hash shows: its key has changed, unless somebody has
\* put the issue away meanwhile.
LEMMA UpdateEffect ==
  ASSUME IInv, NEW r \in Runs, Update(r)
  PROVE  /\ Reporter(r) /\ runs[r].default /\ ~Missing(Report(r)) /\ Key(r) \in Keys
         /\ issues' \in [Numbers -> Issue] /\ OneOpenIssue'
         /\ Key(r) \notin touched => runs[r].mine \in Own(Key(r))
         /\ \A k \in Keys : k # Key(r) \/ runs[r].mine \notin Own(k) => Shown(k)' = Shown(k)
         /\ \A k \in Keys : runs[r].mine \in Own(k) => Shown(k)' = Verdict(Report(r))
<1>1. /\ TypeOK /\ Grounded /\ OneOpenIssue /\ Reporter(r)
      /\ Failed(Report(r)) /\ ~Missing(Report(r)) /\ runs[r].default
      /\ runs[r].mine \in Numbers
      /\ issues[runs[r].mine].key = Key(r)
      /\ Key(r) \notin touched => runs[r].mine \in Own(Key(r))
  BY DEF IInv, Update, Reporter, Reporting, Grounded
<1>2. Key(r) \in Keys /\ Report(r) \in [Legs -> LegResult]
  BY <1>1, KeyType
<1> DEFINE n == runs[r].mine
           hash == Fingerprint(Report(r))
<1>3. hash \in Hashes /\ hash # None
  BY <1>2, FingerprintType
<1>4. issues' = Commented(n, Bot, hash)
  BY DEF Update
<1>5. /\ issues' \in [Numbers -> Issue]
      /\ \A k : Own(k)' = Own(k)
      /\ \A m \in Numbers \ {n} : issues'[m] = issues[m]
      /\ LastHash(issues'[n]) = hash
  BY <1>1, <1>3, <1>4, CommentedOwn
<1>6. OneOpenIssue'
  BY <1>1, <1>5 DEF OneOpenIssue
<1>7. ASSUME NEW k \in Keys, n \notin Own(k)
      PROVE  Shown(k)' = Shown(k)
  <2>1. \A m \in Own(k) : LastHash(issues'[m]) = LastHash(issues[m])
    BY <1>5, <1>7, OwnAreNumbers
  <2> QED BY <1>1, <1>5, <2>1, ShownStays
<1>8. \A k \in Keys : k # Key(r) => n \notin Own(k)
  BY <1>1 DEF Own, Matching
<1>9. ASSUME NEW k \in Keys, n \in Own(k)
      PROVE  Shown(k)' = Verdict(Report(r))
  <2>1. Own(k)' = {n} /\ First({n}) = n
    BY <1>1, <1>5, <1>9, ShownIsOwn
  <2>2. Shown(k)' = LastHash(issues'[n])
    BY <2>1 DEF Shown, LastHash, Marked
  <2> QED BY <1>1, <1>2, <1>5, <2>2, FailureShown
<1> HIDE DEF hash
<1> QED BY <1>1, <1>2, <1>5, <1>6, <1>7, <1>8, <1>9

LEMMA UpdateKeeps ==
  ASSUME IInv, NEW r \in Runs, Update(r)
  PROVE  IInv'
<1>1. touched' \in SUBSET Keys /\ UNCHANGED world
  BY DEF IInv, TypeOK, Update
<1>2. (Synced(r) \/ GivenUp(r)) /\ (Fault \/ UNCHANGED spent)
  BY LastCallEnds DEF Update
<1> QED BY <1>1, <1>2, UpdateEffect, EndKeeps

\* What a comment without a marker, or one by somebody else, leaves as it is.
LEMMA SilentComment ==
  ASSUME IInv, NEW n \in Numbers, NEW by \in {Bot, Other}, NEW hash \in Hashes \cup {None},
         by = Bot => hash = None,
         issues' = Commented(n, by, hash)
  PROVE  /\ issues' \in [Numbers -> Issue]
         /\ \A k : Own(k)' = Own(k)
         /\ \A m \in Numbers : issues'[m].key = issues[m].key /\ issues'[m].by = issues[m].by
         /\ \A m \in Numbers : issues[m].state # "absent" => issues'[m].state # "absent"
         /\ \A k \in Keys : Shown(k)' = Shown(k)
         /\ OneOpenIssue'
<1>1. TypeOK /\ OneOpenIssue
  BY DEF IInv
<1>2. /\ issues' \in [Numbers -> Issue]
      /\ \A k : Own(k)' = Own(k)
      /\ \A m \in Numbers : issues'[m].key = issues[m].key /\ issues'[m].by = issues[m].by
      /\ \A m \in Numbers : issues[m].state # "absent" => issues'[m].state # "absent"
      /\ \A m \in Numbers \ {n} : issues'[m] = issues[m]
      /\ LastHash(issues'[n]) = LastHash(issues[n])
  BY <1>1, CommentedOwn, TrackerAssumption
<1>3. \A m \in Numbers : LastHash(issues'[m]) = LastHash(issues[m])
  BY <1>2
<1>4. ASSUME NEW k \in Keys
      PROVE  Shown(k)' = Shown(k)
  BY <1>1, <1>2, <1>3, ShownStays, OwnAreNumbers
<1>5. OneOpenIssue'
  BY <1>1, <1>2 DEF OneOpenIssue
<1> QED BY <1>2, <1>4, <1>5

LEMMA NoteKeeps ==
  ASSUME IInv, NEW r \in Runs, Note(r)
  PROVE  IInv'
<1>1. /\ TypeOK /\ Slot /\ Grounded /\ OneOpenIssue /\ ReportedIsShown
      /\ Reporter(r) /\ ~Failed(Report(r)) /\ ~Missing(Report(r)) /\ runs[r].default
      /\ runs[r].mine \in Numbers
      /\ issues[runs[r].mine].by = Bot
      /\ issues[runs[r].mine].state # "absent"
      /\ issues[runs[r].mine].key = Key(r)
      /\ Key(r) \notin touched => runs[r].mine \in Own(Key(r))
  BY DEF IInv, Note, Reporter, Reporting, Grounded
<1>2. UNCHANGED <<world, touched>> /\ issues' = Commented(runs[r].mine, Bot, None)
  BY DEF Note
<1>3. /\ issues' \in [Numbers -> Issue]
      /\ \A k : Own(k)' = Own(k)
      /\ \A m \in Numbers : issues'[m].key = issues[m].key /\ issues'[m].by = issues[m].by
      /\ \A m \in Numbers : issues[m].state # "absent" => issues'[m].state # "absent"
      /\ \A k \in Keys : Shown(k)' = Shown(k)
      /\ OneOpenIssue'
  BY <1>1, <1>2, SilentComment
<1>4. CASE Goto(r, "close") /\ UNCHANGED <<reported, spent>>
  <2>1. /\ runs' \in [Runs -> RunType]
        /\ \A s \in Runs \ {r} : runs'[s] = runs[s]
        /\ runs'[r] = [runs[r] EXCEPT !.pc = "close"]
        /\ Key(r)' = Key(r) /\ Report(r)' = Report(r)
    BY <1>1, <1>4, Steps DEF Reporting
  <2>2. Slot' /\ \A s \in Runs \ {r} : ~Reporter(s)'
    BY <1>1, <2>1, SlotKept
  <2>3. runs'[r].pc = "close" /\ runs'[r].default /\ runs'[r].mine = runs[r].mine
    BY <1>1, <2>1 DEF TypeOK, RunType
  <2>4. ~Missing(Report(r))' /\ ~Failed(Report(r))'
    BY <1>1, <2>1 DEF Missing, Failed
  <2>5. \A s \in Runs : Reporter(s)' => s = r
    BY <2>2
  <2>6. \A k : k = Key(r) => Own(k)' = Own(k)
    BY <1>3
  <2>7. Key(r)' \notin touched' => runs[r]'.mine \in Own(Key(r))'
    <3> DEFINE k == Key(r)
    <3>1. k' = k
      BY <2>1
    <3>2. Own(Key(r))' = Own(Key(r))
      <4>1. \A j \in Keys : j = Key(r)' => Own(Key(r))' = Own(j)'
        OBVIOUS
      <4>2. Key(r) \in Keys
        BY <1>1, KeyType
      <4> QED BY <1>3, <2>1, <4>1, <4>2
    <3> QED BY <1>1, <1>2, <2>1, <2>3, <3>2
  <2>8. Grounded'
    <3> DEFINE n == runs[r].mine
    <3>1. issues'[n].by = Bot /\ issues'[n].state # "absent" /\ issues'[n].key = Key(r)'
      BY <1>1, <1>3, <2>1
    <3> QED BY <1>1, <2>3, <2>4, <2>5, <2>7, <3>1 DEF Grounded
  <2>9. TypeOK' /\ ReportedIsShown'
    BY <1>1, <1>2, <1>3, <1>4, <2>1 DEF TypeOK, ReportedIsShown
  <2> QED BY <1>3, <2>2, <2>8, <2>9 DEF IInv
<1>5. CASE GivenUp(r) /\ Fault
  <2>1. ~Synced(r) \/ Key(r) \in touched
    <3>1. reported'[Key(r)] = Unknown
      BY <1>1, <1>5, EndEffect
    <3> QED BY <1>1, <3>1, KeyType, VerdictType DEF Synced, TypeOK
  <2>2. touched' \in SUBSET Keys
    BY <1>1, <1>2 DEF TypeOK
  <2> QED BY <1>1, <1>2, <1>3, <1>5, <2>1, <2>2, EndKeeps
<1> QED BY <1>4, <1>5 DEF Note

\* What closing shows: nothing of its key, unless that was so before.
LEMMA CloseEffect ==
  ASSUME IInv, NEW r \in Runs, Close(r)
  PROVE  /\ Reporter(r) /\ runs[r].default /\ ~Missing(Report(r)) /\ Key(r) \in Keys
         /\ issues' \in [Numbers -> Issue] /\ OneOpenIssue'
         /\ Key(r) \notin touched => runs[r].mine \in Own(Key(r))
         /\ \A k \in Keys : k # Key(r) \/ runs[r].mine \notin Own(k) => Shown(k)' = Shown(k)
         /\ \A k \in Keys : runs[r].mine \in Own(k) => Shown(k)' = Verdict(Report(r))
<1>1. /\ TypeOK /\ OneOpenIssue /\ Reporter(r)
      /\ ~Failed(Report(r)) /\ ~Missing(Report(r)) /\ runs[r].default
      /\ runs[r].mine \in Numbers
      /\ issues[runs[r].mine].key = Key(r)
      /\ Key(r) \notin touched => runs[r].mine \in Own(Key(r))
  BY DEF IInv, Close, Reporter, Reporting, Grounded
<1> DEFINE n == runs[r].mine
<1>2. issues' = [issues EXCEPT ![n].state = "closed"]
  BY DEF Close
<1>3. /\ issues' \in [Numbers -> Issue]
      /\ \A k : Own(k)' = Own(k) \ {n}
      /\ \A m \in Numbers \ {n} : issues'[m] = issues[m]
  BY <1>1, <1>2, PutAwayOwn
<1>4. OneOpenIssue'
  BY <1>1, <1>3 DEF OneOpenIssue
<1>5. ASSUME NEW k \in Keys, n \notin Own(k)
      PROVE  Shown(k)' = Shown(k)
  <2>1. Own(k)' = Own(k) /\ \A m \in Own(k) : LastHash(issues'[m]) = LastHash(issues[m])
    BY <1>3, <1>5, OwnAreNumbers
  <2> QED BY <1>1, <2>1, ShownStays
<1>6. \A k \in Keys : k # Key(r) => n \notin Own(k)
  BY <1>1 DEF Own, Matching
<1>7. ASSUME NEW k \in Keys, n \in Own(k)
      PROVE  Shown(k)' = Verdict(Report(r))
  <2>1. Own(k)' = {}
    BY <1>1, <1>3, <1>7, ShownIsOwn
  <2> QED BY <1>1, <2>1 DEF Shown, Verdict
<1>8. Key(r) \in Keys
  BY <1>1, KeyType
<1> QED BY <1>1, <1>3, <1>4, <1>5, <1>6, <1>7, <1>8

LEMMA CloseKeeps ==
  ASSUME IInv, NEW r \in Runs, Close(r)
  PROVE  IInv'
<1>1. touched' \in SUBSET Keys /\ UNCHANGED world
  BY DEF IInv, TypeOK, Close
<1>2. (Synced(r) \/ GivenUp(r)) /\ (Fault \/ UNCHANGED spent)
  BY LastCallEnds DEF Close
<1> QED BY <1>1, <1>2, CloseEffect, EndKeeps

-----------------------------------------------------------------------------
(* What others do to the issues.                                           *)

LEMMA PutAwayKeeps ==
  ASSUME IInv, NEW n \in Numbers, PutAway(n)
  PROVE  IInv'
<1>1. TypeOK /\ Slot /\ Grounded /\ OneOpenIssue /\ ReportedIsShown
  BY DEF IInv
<1> DEFINE key == issues[n].key
<1>2. /\ UNCHANGED <<world, runs>> /\ touched' = touched \cup {key}
      /\ reported' = [reported EXCEPT ![key] = Unknown]
      /\ \/ issues' = [issues EXCEPT ![n].state = "closed"]
         \/ issues' = [issues EXCEPT ![n].marked = FALSE]
      /\ spent' \in [changes : Nat, faults : Nat, meddling : Nat]
  BY <1>1 DEF PutAway, Meddling, TypeOK
<1>3. /\ issues' \in [Numbers -> Issue]
      /\ \A k : Own(k)' = Own(k) \ {n}
      /\ \A m \in Numbers : issues'[m].key = issues[m].key /\ issues'[m].by = issues[m].by
      /\ \A m \in Numbers : issues[m].state # "absent" => issues'[m].state # "absent"
      /\ \A m \in Numbers \ {n} : issues'[m] = issues[m]
  BY <1>1, <1>2, PutAwayOwn
<1>4. key \in Keys
  BY <1>1 DEF TypeOK, Issue
<1>5. OneOpenIssue'
  BY <1>1, <1>3 DEF OneOpenIssue
<1>6. TypeOK'
  BY <1>1, <1>2, <1>3, <1>4 DEF TypeOK
<1>7. Slot'
  BY <1>1, <1>2 DEF Slot, Reporter
<1>8. \A k \in Keys : k # key => n \notin Own(k)
  BY DEF Own, Matching
<1>9. ReportedIsShown'
  <2> SUFFICES ASSUME NEW k \in Keys, reported'[k] # Unknown
               PROVE  Shown(k)' = reported'[k]
    BY DEF ReportedIsShown
  <2>1. k # key /\ reported'[k] = reported[k]
    BY <1>1, <1>2, <1>4 DEF TypeOK
  <2>2. Own(k)' = Own(k) /\ \A m \in Own(k) : LastHash(issues'[m]) = LastHash(issues[m])
    BY <1>3, <1>8, <2>1, OwnAreNumbers
  <2>3. Shown(k)' = Shown(k)
    BY <1>1, <2>2, ShownStays
  <2> QED BY <1>1, <2>1, <2>3 DEF ReportedIsShown
<1>10. Grounded'
  <2> SUFFICES ASSUME NEW s \in Runs, Reporter(s)
               PROVE  /\ runs[s].pc \in {"label", "create"} => Own(Key(s))' = {}
                      /\ runs[s].pc \in {"list", "update", "note", "close"} =>
                           (Key(s) \notin touched' => runs[s].mine \in Own(Key(s))')
    <3>1. \A m \in Numbers : issues[m].by = Bot /\ issues[m].state # "absent" =>
            issues'[m].by = Bot /\ issues'[m].state # "absent" /\ issues'[m].key = issues[m].key
      BY <1>3
    <3>2. \A t \in Runs : /\ runs'[t] = runs[t] /\ (Reporter(t)' <=> Reporter(t))
                         /\ Key(t)' = Key(t) /\ Report(t)' = Report(t)
      BY <1>2 DEF Reporter, Key, Report
    <3>3. \A t \in Runs : (Missing(Report(t))' <=> Missing(Report(t)))
                         /\ (Failed(Report(t))' <=> Failed(Report(t)))
      BY <3>2 DEF Missing, Failed
    <3> QED BY <1>1, <3>1, <3>2, <3>3 DEF Grounded
  <2>1. Key(s)' = Key(s) /\ Key(s) \in Keys
    BY <1>1, <1>2, KeyType DEF Key
  <2>2. Own(Key(s))' = Own(Key(s)) \ {n}
    BY <1>3, <2>1
  <2>3. Key(s) \notin touched' => n \notin Own(Key(s)) /\ Key(s) \notin touched
    BY <1>2, <1>8, <2>1
  <2> QED BY <1>1, <2>2, <2>3 DEF Grounded
<1> QED BY <1>5, <1>6, <1>7, <1>9, <1>10 DEF IInv

\* Issues that others write to or open are none of the reporter's.
LEMMA ForeignWriteKeeps ==
  ASSUME IInv, UNCHANGED <<world, runs, reported, touched>>, Meddling,
         issues' \in [Numbers -> Issue], \A k : Own(k)' = Own(k),
         \A m \in Numbers : issues[m].state # "absent" =>
           /\ issues'[m].key = issues[m].key /\ issues'[m].by = issues[m].by
           /\ issues'[m].state # "absent",
         \A k \in Keys : Shown(k)' = Shown(k)
  PROVE  IInv'
<1>1. TypeOK /\ Slot /\ Grounded /\ OneOpenIssue /\ ReportedIsShown
  BY DEF IInv
<1>2. TypeOK'
  BY <1>1 DEF TypeOK, Meddling
<1>3. Slot'
  BY <1>1 DEF Slot, Reporter
<1>4. OneOpenIssue' /\ ReportedIsShown'
  BY <1>1 DEF OneOpenIssue, ReportedIsShown
<1>5. Grounded'
  <2> SUFFICES ASSUME NEW s \in Runs, Reporter(s)
               PROVE  /\ runs[s].pc \in {"label", "create"} => Own(Key(s))' = {}
                      /\ runs[s].pc \in {"list", "update", "note", "close"} =>
                           /\ issues'[runs[s].mine].by = Bot
                           /\ issues'[runs[s].mine].state # "absent"
                           /\ issues'[runs[s].mine].key = Key(s)
                           /\ Key(s) \notin touched => runs[s].mine \in Own(Key(s))'
    BY <1>1 DEF Grounded, Reporter, Key, Report, Missing, Failed
  <2>1. Key(s)' = Key(s)
    BY DEF Key
  <2>2. Own(Key(s))' = Own(Key(s))
    BY <2>1
  <2> QED BY <1>1, <2>2 DEF Grounded
<1> QED BY <1>2, <1>3, <1>4, <1>5 DEF IInv

LEMMA ReplyKeeps ==
  ASSUME IInv, NEW n \in Numbers, Reply(n)
  PROVE  IInv'
<1>1. PICK hash \in Copyable \cup {None} : issues' = Commented(n, Other, hash)
  BY DEF Reply
<1>2. hash \in Hashes \cup {None}
  BY FingerprintType, TrackerAssumption DEF Copyable
<1>3. /\ issues' \in [Numbers -> Issue]
      /\ \A k : Own(k)' = Own(k)
      /\ \A m \in Numbers : issues'[m].key = issues[m].key /\ issues'[m].by = issues[m].by
      /\ \A m \in Numbers : issues[m].state # "absent" => issues'[m].state # "absent"
      /\ \A k \in Keys : Shown(k)' = Shown(k)
  BY <1>1, <1>2, SilentComment, TrackerAssumption
<1> QED BY <1>3, ForeignWriteKeeps DEF Reply

\* Another's issue, whatever marker it carries, changes nothing that is shown.
LEMMA CopyEffect ==
  ASSUME IInv, NEW key \in Keys, Copy(key)
  PROVE  /\ issues' \in [Numbers -> Issue]
         /\ \A k : Own(k)' = Own(k)
         /\ \A m \in Numbers : issues[m].state # "absent" => issues'[m] = issues[m]
         /\ \A k \in Keys : Shown(k)' = Shown(k)
<1>1. TypeOK /\ OneOpenIssue
  BY DEF IInv
<1>2. PICK n \in Numbers, hash \in Copyable :
        IsNext(n) /\ issues' = [issues EXCEPT ![n] = Opened(key, Other, hash)]
  BY DEF Copy
<1>3. hash \in Hashes
  BY FingerprintType, TrackerAssumption DEF Copyable
<1>4. issues[n].state = "absent"
  BY <1>2 DEF IsNext
<1>5. /\ issues' \in [Numbers -> Issue]
      /\ \A m \in Numbers \ {n} : issues'[m] = issues[m]
      /\ \A k : Own(k)' = Own(k)
      /\ \A k : n \notin Own(k)
  BY <1>1, <1>2, <1>3, <1>4, OpenedOwn
<1>6. ASSUME NEW k \in Keys
      PROVE  Shown(k)' = Shown(k)
  <2>1. Own(k)' = Own(k) /\ \A m \in Own(k) : LastHash(issues'[m]) = LastHash(issues[m])
    BY <1>5, OwnAreNumbers
  <2> QED BY <1>1, <2>1, ShownStays
<1> QED BY <1>4, <1>5, <1>6

LEMMA CopyKeeps ==
  ASSUME IInv, NEW key \in Keys, Copy(key)
  PROVE  IInv'
BY CopyEffect, ForeignWriteKeeps DEF Copy

-----------------------------------------------------------------------------
(* The theorems.                                                           *)

LEMMA InitIInv == Init => IInv
<1> SUFFICES ASSUME Init PROVE IInv
  OBVIOUS
<1>1. Absent \in Issue
  BY TrackerAssumption, Trackers[1] \in Keys DEF Absent, Issue, Keys
<1>2. TypeOK
  BY <1>1, IdleType, TrackerAssumption DEF Init, TypeOK
<1>3. \A r \in Runs : ~Reporter(r)
  BY IdleType DEF Init, Reporter, Reporting
<1>4. \A key : Own(key) = {}
  BY DEF Init, Own, Matching, Absent
<1> QED BY <1>2, <1>3, <1>4 DEF IInv, Slot, Grounded, OneOpenIssue, ReportedIsShown, Init

LEMMA NextIInv == IInv /\ [Next]_vars => IInv'
<1> SUFFICES ASSUME IInv, [Next]_vars PROVE IInv'
  OBVIOUS
<1>1. ASSUME NEW r \in Runs, RunStep(r) PROVE IInv'
  <2>1. CASE Produce(r)     BY <2>1, ProduceKeeps
  <2>2. CASE LoseLeg(r)     BY <2>2, LoseLegKeeps
  <2>3. CASE Wait(r)        BY <2>3, WaitKeeps
  <2>4. CASE Enter(r)       BY <2>4, EnterKeeps
  <2>5. CASE SkipMissing(r) BY <2>5, SkipMissingKeeps
  <2>6. CASE Find(r)        BY <2>6, FindKeeps
  <2>7. CASE EnsureLabel(r) BY <2>7, EnsureLabelKeeps
  <2>8. CASE Create(r)      BY <2>8, CreateKeeps
  <2>9. CASE List(r)        BY <2>9, ListKeeps
  <2>10. CASE Update(r)     BY <2>10, UpdateKeeps
  <2>11. CASE Note(r)       BY <2>11, NoteKeeps
  <2>12. CASE Close(r)      BY <2>12, CloseKeeps
  <2>13. CASE CallFails(r)  BY <2>13, CallFailsKeeps
  <2>14. CASE Stopped(r)    BY <2>14, StoppedKeeps
  <2> QED BY <1>1, <2>1, <2>2, <2>3, <2>4, <2>5, <2>6, <2>7, <2>8, <2>9, <2>10, <2>11,
             <2>12, <2>13, <2>14 DEF RunStep, Advance
<1>2. ASSUME NEW key \in Keys, Change(key) \/ Copy(key) PROVE IInv'
  BY <1>2, ChangeKeeps, CopyKeeps
<1>3. ASSUME NEW n \in Numbers, PutAway(n) \/ Reply(n) PROVE IInv'
  BY <1>3, PutAwayKeeps, ReplyKeeps
<1>4. CASE UNCHANGED vars
  <2>1. UNCHANGED <<issues, reported, touched, world, runs, spent>>
    BY <1>4 DEF vars
  <2>2. Slot'
    BY <2>1 DEF IInv, Slot, Reporter
  <2>3. Grounded'
    BY <2>1, GroundedQuiet DEF IInv
  <2> QED BY <2>1, <2>2, <2>3, QuietStep DEF IInv, TypeOK
<1> QED BY <1>1, <1>2, <1>3, <1>4 DEF Next

LEMMA IInvHolds == Spec => []IInv
BY InitIInv, NextIInv, PTL DEF Spec

\* The variables keep their types: in particular a reporter's number is always
\* an issue's, and no hash comes from nowhere
\* (src/.github/scripts/track-issue.js:259-332).
THEOREM TypeCorrect == Spec => []TypeOK
<1>1. IInv => TypeOK
  BY DEF IInv
<1> QED BY <1>1, IInvHolds, PTL

\* One reporter at a time, and every one of them on the default branch: what
\* the other theorems rest on (src/.github/workflows/toolchain-canary.yml:131).
THEOREM OneReporter ==
  Spec => [](\A r, s \in Runs : Reporter(r) => runs[r].default /\ (Reporter(s) => r = s))
<1>1. IInv => \A r, s \in Runs : Reporter(r) => runs[r].default /\ (Reporter(s) => r = s)
  BY DEF IInv, Slot, Grounded
<1> QED BY <1>1, IInvHolds, PTL

\* The reporter never has two issues open for one check, however many calls
\* fail and wherever it is stopped (src/.github/scripts/track-issue.js:190-209,296-315).
THEOREM NoSecondIssue == Spec => []OneOpenIssue
<1>1. IInv => OneOpenIssue
  BY DEF IInv
<1> QED BY <1>1, IInvHolds, PTL

\* What an undisturbed report said is what the issues show, until the next
\* one ends (src/.github/scripts/track-issue.js:259-332).
THEOREM ReportsStayShown == Spec => []ReportedIsShown
<1>1. IInv => ReportedIsShown
  BY DEF IInv
<1> QED BY <1>1, IInvHolds, PTL
-----------------------------------------------------------------------------
(* Comments.                                                               *)

\* An own marker on an issue says something else than the one before it.
Changes(issue) ==
  \A i \in Marked(issue) : issue.comments[i].hash # HashBefore(issue, i)

\* A reporter that is about to comment has news.
HasNews ==
  \A r \in Runs : runs[r].pc = "update" =>
    LastHash(issues[runs[r].mine]) # Fingerprint(Report(r))

\* A comment keeps the order of the markers before it.
LEMMA AppendChanges ==
  ASSUME NEW old \in Issue, NEW comment \in Comment, NEW new \in Issue,
         new.body = old.body, new.comments = Append(old.comments, comment),
         Changes(old),
         comment.by = Bot /\ comment.hash # None => comment.hash # LastHash(old)
  PROVE  Changes(new)
<1> DEFINE len == Len(old.comments)
           own == comment.by = Bot /\ comment.hash # None
<1>1. /\ len \in Nat /\ Len(new.comments) = len + 1
      /\ \A i \in 1 .. len : new.comments[i] = old.comments[i]
      /\ new.comments[len + 1] = comment
      /\ DOMAIN old.comments = 1 .. len /\ DOMAIN new.comments = 1 .. len + 1
  <2>1. old.comments \in Seq(Comment)
    BY DEF Issue
  <2> QED BY <2>1
<1> HIDE DEF len
<1>2. Marked(new) = IF own THEN Marked(old) \cup {len + 1} ELSE Marked(old)
  BY <1>1 DEF Marked
<1>3. Marked(old) \subseteq 1 .. len
  BY <1>1 DEF Marked
<1>4. ASSUME NEW i \in Marked(old)
      PROVE  new.comments[i].hash # HashBefore(new, i)
  <2> DEFINE earlier == {j \in Marked(old) : j < i}
  <2>1. {j \in Marked(new) : j < i} = earlier
    BY <1>1, <1>2, <1>3
  <2>2. earlier # {} => Newest(earlier) \in 1 .. len
    <3>1. earlier \in SUBSET (1 .. len)
      BY <1>3
    <3> HIDE DEF earlier
    <3> QED BY <1>1, <3>1, NewestExists
  <2>3. HashBefore(new, i) = HashBefore(old, i)
    BY <1>1, <2>1, <2>2 DEF HashBefore
  <2> QED BY <1>1, <1>3, <2>3 DEF Changes
<1>5. ASSUME own
      PROVE  new.comments[len + 1].hash # HashBefore(new, len + 1)
  <2>1. {j \in Marked(new) : j < len + 1} = Marked(old)
    BY <1>1, <1>2, <1>3
  <2>2. Marked(old) # {} => Newest(Marked(old)) \in 1 .. len
    BY <1>1, <1>3, NewestExists
  <2>3. HashBefore(new, len + 1) = LastHash(old)
    BY <1>1, <2>1, <2>2 DEF HashBefore, LastHash
  <2> QED BY <1>1, <1>5, <2>3
<1> QED BY <1>2, <1>4, <1>5 DEF Changes

LEMMA CommentsKept ==
  ASSUME TypeOK, CommentsOnChange,
         NEW n \in Numbers, NEW by \in {Bot, Other}, NEW hash \in Hashes \cup {None},
         issues' = Commented(n, by, hash),
         by = Bot /\ hash # None => hash # LastHash(issues[n])
  PROVE  CommentsOnChange'
<1> DEFINE old == issues[n]
           comment == [by |-> by, hash |-> hash]
           new == [old EXCEPT !.comments = Append(@, comment)]
<1>1. issues \in [Numbers -> Issue] /\ old \in Issue /\ comment \in Comment
  BY DEF TypeOK, Comment
<1>2. issues' = [issues EXCEPT ![n] = new]
  BY DEF Commented
<1>3. issues'[n] = new /\ \A m \in Numbers \ {n} : issues'[m] = issues[m]
  BY <1>1, <1>2
<1>4. issues' \in [Numbers -> Issue]
  BY <1>1, CommentedOwn
<1>5. new \in Issue /\ new.body = old.body /\ new.comments = Append(old.comments, comment)
  <2>1. new \in Issue
    BY <1>3, <1>4
  <2> HIDE DEF old, comment
  <2> QED BY <1>1, <2>1 DEF Issue
<1>6. \A m \in Numbers : Changes(issues[m])
  BY DEF CommentsOnChange, Changes
<1>7. comment.by = by /\ comment.hash = hash
  OBVIOUS
<1>8. Changes(new)
  <2> HIDE DEF new, comment
  <2> QED BY <1>1, <1>5, <1>6, <1>7, AppendChanges
<1>9. \A m \in Numbers : Changes(issues'[m])
  <2> HIDE DEF new
  <2> QED BY <1>3, <1>6, <1>8
<1> QED BY <1>9 DEF CommentsOnChange, Changes

LEMMA SaysSame ==
  ASSUME NEW old, NEW new, new.comments = old.comments, new.body = old.body
  PROVE  LastHash(new) = LastHash(old) /\ (Changes(old) => Changes(new))
<1>1. Marked(new) = Marked(old)
  BY DEF Marked
<1>2. \A i : HashBefore(new, i) = HashBefore(old, i)
  BY <1>1 DEF HashBefore
<1> QED BY <1>1, <1>2 DEF Changes, LastHash

\* Issues that are opened, closed or relabelled say what they said.
LEMMA CommentsSame ==
  ASSUME CommentsOnChange,
         \A m \in Numbers :
           \/ issues'[m].comments = <<>>
           \/ issues'[m].comments = issues[m].comments /\ issues'[m].body = issues[m].body
  PROVE  CommentsOnChange'
<1> SUFFICES ASSUME NEW m \in Numbers
             PROVE  Changes(issues'[m])
  BY DEF CommentsOnChange, Changes
<1>1. Changes(issues[m])
  BY DEF CommentsOnChange, Changes
<1>2. CASE issues'[m].comments = <<>>
  BY <1>2 DEF Changes, Marked
<1>3. CASE issues'[m].comments = issues[m].comments /\ issues'[m].body = issues[m].body
  BY <1>1, <1>3, SaysSame
<1> QED BY <1>2, <1>3

\* Only the one reporter can be about to comment.
LEMMA NoNews ==
  ASSUME Slot, NEW r \in Runs, Reporter(r), runs'[r].pc # "update",
         \A s \in Runs \ {r} : runs'[s] = runs[s]
  PROVE  HasNews'
BY DEF Slot, Reporter, Reporting, HasNews

LEMMA NoNewsAtEnd ==
  ASSUME TypeOK, Slot, NEW r \in Runs, Reporter(r), NextTracker(r)
  PROVE  HasNews'
BY NextTrackerEffect, NoNews, IdleType

LEMMA NewsStays ==
  ASSUME HasNews,
         \A s \in Runs : runs'[s].pc = "update" =>
           /\ runs'[s] = runs[s]
           /\ LastHash(issues'[runs[s].mine]) = LastHash(issues[runs[s].mine])
  PROVE  HasNews'
<1> SUFFICES ASSUME NEW s \in Runs, runs'[s].pc = "update"
             PROVE  LastHash(issues'[runs'[s].mine]) # Fingerprint(Report(s)')
  BY DEF HasNews, LastHash, Marked, Fingerprint
<1>1. Report(s)' = Report(s) /\ runs'[s] = runs[s]
  BY DEF Report, Key
<1> QED BY <1>1 DEF HasNews

LEMMA ReporterComments ==
  ASSUME IInv, CommentsOnChange, HasNews, NEW r \in Runs, Advance(r)
  PROVE  CommentsOnChange' /\ HasNews'
<1>1. /\ TypeOK /\ Slot /\ Grounded /\ Reporter(r)
      /\ Report(r) \in [Legs -> LegResult]
  BY KeyType DEF IInv, Advance, Reporter, Reporting,
     SkipMissing, Find, EnsureLabel, Create, List, Update, Note, Close
<1>2. ASSUME UNCHANGED issues
      PROVE  CommentsOnChange'
  BY <1>2, CommentsSame
<1>3. ASSUME LastCall(r)
      PROVE  HasNews'
  BY <1>1, <1>3, NoNewsAtEnd DEF LastCall, Synced, GivenUp
<1>4. ASSUME NEW pc \in Reporting \ {"update"}, Goto(r, pc)
      PROVE  HasNews'
  <2>1. /\ \A s \in Runs \ {r} : runs'[s] = runs[s]
        /\ runs'[r] = [runs[r] EXCEPT !.pc = pc]
    BY <1>1, <1>4, Steps
  <2>2. runs'[r].pc = pc
    BY <1>1, <2>1 DEF TypeOK, RunType
  <2> QED BY <1>1, <1>4, <2>1, <2>2, NoNews
<1>5. CASE SkipMissing(r)
  BY <1>1, <1>2, <1>5, NoNewsAtEnd DEF SkipMissing
<1>6. CASE Find(r)
  <2>1. \/ NextTracker(r)
        \/ \E pc \in {"list", "note", "label"} : \E n :
             runs' = [runs EXCEPT ![r].pc = pc, ![r].mine = n]
    BY <1>6 DEF Find, GivenUp
  <2>2. ASSUME \E pc \in {"list", "note", "label"} : \E n :
                 runs' = [runs EXCEPT ![r].pc = pc, ![r].mine = n]
        PROVE  HasNews'
    <3>1. runs'[r].pc # "update" /\ \A s \in Runs \ {r} : runs'[s] = runs[s]
      BY <1>1, <2>2 DEF TypeOK, RunType
    <3> QED BY <1>1, <3>1, NoNews
  <2>3. HasNews'
    BY <1>1, <2>1, <2>2, NoNewsAtEnd
  <2> QED BY <1>2, <1>6, <2>3 DEF Find
<1>7. CASE EnsureLabel(r)
  BY <1>2, <1>4, <1>7 DEF EnsureLabel, Reporting
<1>8. CASE Create(r)
  <2>1. PICK n \in Numbers : issues' = [issues EXCEPT ![n] = Opened(Key(r), Bot, Fingerprint(Report(r)))]
    BY <1>8 DEF Create
  <2>2. Opened(Key(r), Bot, Fingerprint(Report(r))).comments = <<>>
    BY DEF Opened, Absent
  <2>3. \A m \in Numbers : issues'[m] = issues[m] \/ issues'[m].comments = <<>>
    BY <1>1, <2>1, <2>2 DEF TypeOK
  <2> QED BY <1>3, <1>8, <2>3, CommentsSame DEF Create
<1>9. CASE List(r)
  <2>1. CASE Synced(r)
    BY <1>1, <1>2, <1>9, <2>1, NoNewsAtEnd DEF List, Synced
  <2>2. CASE ~Synced(r)
    <3>1. LastHash(issues[runs[r].mine]) # Fingerprint(Report(r)) /\ Goto(r, "update")
      BY <1>9, <2>2 DEF List
    <3>2. /\ \A s \in Runs \ {r} : runs'[s] = runs[s]
          /\ runs'[r] = [runs[r] EXCEPT !.pc = "update"]
          /\ Report(r)' = Report(r)
      BY <1>1, <3>1, Steps DEF Reporting
    <3>3. runs'[r].mine = runs[r].mine
      BY <1>1, <3>2 DEF TypeOK, RunType
    <3>4. \A s \in Runs \ {r} : runs'[s].pc # "update"
      BY <1>1, <3>2 DEF Slot, Reporter, Reporting
    <3>5. LastHash(issues'[runs'[r].mine]) # Fingerprint(Report(r)')
      BY <1>9, <3>1, <3>2, <3>3 DEF List
    <3>6. HasNews'
      <4> SUFFICES ASSUME NEW s \in Runs, runs'[s].pc = "update"
                   PROVE  LastHash(issues'[runs'[s].mine]) # Fingerprint(Report(s)')
        BY DEF HasNews, LastHash, Marked, Fingerprint
      <4> QED BY <3>4, <3>5
    <3> QED BY <1>2, <1>9, <3>6 DEF List
  <2> QED BY <2>1, <2>2
<1>10. CASE Update(r)
  <2>1. runs[r].mine \in Numbers
    BY <1>1, <1>10 DEF Grounded, Update
  <2>2. LastHash(issues[runs[r].mine]) # Fingerprint(Report(r))
    BY <1>10 DEF HasNews, Update
  <2>3. Fingerprint(Report(r)) \in Hashes
    BY <1>1, FingerprintType
  <2>4. CommentsOnChange'
    BY <1>1, <1>10, <2>1, <2>2, <2>3, CommentsKept DEF Update
  <2> QED BY <1>3, <1>10, <2>4 DEF Update
<1>11. CASE Note(r)
  <2>1. runs[r].mine \in Numbers
    BY <1>1, <1>11 DEF Grounded, Note
  <2>2. CommentsOnChange'
    BY <1>1, <1>11, <2>1, CommentsKept DEF Note
  <2>3. HasNews'
    BY <1>1, <1>4, <1>11, NoNewsAtEnd DEF Note, GivenUp, Reporting
  <2> QED BY <2>2, <2>3
<1>12. CASE Close(r)
  <2>1. issues' = [issues EXCEPT ![runs[r].mine].state = "closed"] /\ runs[r].mine \in Numbers
    BY <1>1, <1>12 DEF Close, Grounded
  <2>2. \A m \in Numbers : issues'[m].comments = issues[m].comments /\ issues'[m].body = issues[m].body
    BY <1>1, <2>1 DEF TypeOK, Issue
  <2> QED BY <1>3, <1>12, <2>2, CommentsSame DEF Close
<1> QED BY <1>5, <1>6, <1>7, <1>8, <1>9, <1>10, <1>11, <1>12 DEF Advance

LEMMA StepComments ==
  ASSUME IInv, CommentsOnChange, HasNews, [Next]_vars
  PROVE  CommentsOnChange' /\ HasNews'
<1>1. TypeOK /\ Slot /\ Grounded
  BY DEF IInv
<1>2. ASSUME UNCHANGED issues, \A s \in Runs : runs'[s].pc = "update" => runs'[s] = runs[s]
      PROVE  CommentsOnChange' /\ HasNews'
  BY <1>2, CommentsSame, NewsStays
<1>3. ASSUME NEW r \in Runs, RunStep(r)
      PROVE  CommentsOnChange' /\ HasNews'
  <2>1. CASE Produce(r)
    BY <1>1, <1>2, <2>1, IdleType DEF Produce, TypeOK, RunType
  <2>2. CASE LoseLeg(r)
    BY <1>1, <1>2, <2>2 DEF LoseLeg, TypeOK, RunType
  <2>3. CASE Wait(r)
    BY <1>1, <1>2, <2>3, IdleType DEF Wait, TypeOK, RunType
  <2>4. CASE Enter(r)
    <3>1. runs \in [Runs -> RunType] /\ runs[r] \in RunType
      BY <1>1 DEF TypeOK
    <3>2. Entered(runs[r]).pc \in {"idle", "find"}
      BY <3>1, IdleType DEF Entered, RunType
    <3>3. \A s \in Runs : runs'[s].pc = "update" => runs'[s] = runs[s]
      BY <2>4, <3>1, <3>2 DEF Enter
    <3> QED BY <1>2, <2>4, <3>3 DEF Enter
  <2>5. CASE Advance(r)
    BY <2>5, ReporterComments
  <2>6. CASE CallFails(r)
    BY <1>1, <2>6, CommentsSame, NoNewsAtEnd DEF CallFails, GivenUp
  <2>7. CASE Stopped(r)
    BY <1>1, <1>2, <2>7, IdleType DEF Stopped, TypeOK
  <2> QED BY <1>3, <2>1, <2>2, <2>3, <2>4, <2>5, <2>6, <2>7 DEF RunStep
<1>4. ASSUME NEW key \in Keys, Change(key) \/ Copy(key)
      PROVE  CommentsOnChange' /\ HasNews'
  <2>1. CASE Change(key)
    BY <1>2, <2>1 DEF Change
  <2>2. CASE Copy(key)
    <3>1. PICK n \in Numbers, hash \in Copyable :
            IsNext(n) /\ issues' = [issues EXCEPT ![n] = Opened(key, Other, hash)]
      BY <2>2 DEF Copy
    <3>2. Opened(key, Other, hash).comments = <<>>
      BY DEF Opened, Absent
    <3>3. \A m \in Numbers : issues'[m] = issues[m] \/ issues'[m].comments = <<>>
      BY <1>1, <3>1, <3>2 DEF TypeOK
    <3>4. \A m \in Numbers : issues[m].state # "absent" => issues'[m] = issues[m]
      BY <2>2, CopyEffect
    <3>5. \A s \in Runs : runs[s].pc = "update" =>
            runs[s].mine \in Numbers /\ issues[runs[s].mine].state # "absent"
      BY <1>1 DEF Grounded, Reporter, Reporting
    <3>6. HasNews'
      BY <2>2, <3>4, <3>5, NewsStays DEF Copy
    <3> QED BY <3>3, <3>6, CommentsSame
  <2> QED BY <1>4, <2>1, <2>2
<1>5. ASSUME NEW n \in Numbers, PutAway(n) \/ Reply(n)
      PROVE  CommentsOnChange' /\ HasNews'
  <2>1. CASE PutAway(n)
    <3>1. \A m \in Numbers : issues'[m].comments = issues[m].comments /\ issues'[m].body = issues[m].body
      <4>1. issues \in [Numbers -> Issue]
        BY <1>1 DEF TypeOK
      <4>2. CASE issues' = [issues EXCEPT ![n].state = "closed"]
        BY <4>1, <4>2 DEF Issue
      <4>3. CASE issues' = [issues EXCEPT ![n].marked = FALSE]
        BY <4>1, <4>3 DEF Issue
      <4> QED BY <2>1, <4>2, <4>3 DEF PutAway
    <3>2. \A m \in Numbers : LastHash(issues'[m]) = LastHash(issues[m])
      BY <3>1, SaysSame
    <3>3. \A s \in Runs : runs[s].pc = "update" => runs[s].mine \in Numbers
      BY <1>1 DEF Grounded, Reporter, Reporting
    <3> QED BY <2>1, <3>1, <3>2, <3>3, CommentsSame, NewsStays DEF PutAway
  <2>2. CASE Reply(n)
    <3>1. PICK hash \in Copyable \cup {None} : issues' = Commented(n, Other, hash)
      BY <2>2 DEF Reply
    <3>2. hash \in Hashes \cup {None}
      BY FingerprintType, TrackerAssumption DEF Copyable
    <3>3. \A m \in Numbers : LastHash(issues'[m]) = LastHash(issues[m])
      BY <1>1, <3>1, <3>2, CommentedOwn, TrackerAssumption
    <3>4. \A s \in Runs : runs[s].pc = "update" => runs[s].mine \in Numbers
      BY <1>1 DEF Grounded, Reporter, Reporting
    <3>5. HasNews'
      BY <2>2, <3>3, <3>4, NewsStays DEF Reply
    <3> QED BY <1>1, <3>1, <3>2, <3>5, CommentsKept, TrackerAssumption
  <2> QED BY <1>5, <2>1, <2>2
<1>6. CASE UNCHANGED vars
  BY <1>2, <1>6 DEF vars
<1> QED BY <1>3, <1>4, <1>5, <1>6 DEF Next

\* The reporter comments on an issue only with another hash than the last one
\* it left there, also after an update whose response was lost, among comments
\* with copied markers and for as long as the issue stays
\* (src/.github/scripts/track-issue.js:12-18,216-231).
THEOREM CommentsAreNews == Spec => []CommentsOnChange
<1>1. Init => CommentsOnChange /\ HasNews
  BY IdleType DEF Init, CommentsOnChange, Marked, Absent, HasNews
<1>2. IInv /\ CommentsOnChange /\ HasNews /\ [Next]_vars => CommentsOnChange' /\ HasNews'
  BY StepComments
<1> QED BY <1>1, <1>2, IInvHolds, PTL DEF Spec

-----------------------------------------------------------------------------
(* TrackIssue implements IdealTracker.                                     *)

ShownNow == [key \in Keys |-> Shown(key)]

\* Calls that change nothing of what is shown.
LEMMA QuietStutters ==
  ASSUME \A k \in Keys : Shown(k)' = Shown(k)
  PROVE  Ideal!Next
<1>1. ShownNow' = ShownNow
  BY DEF ShownNow
<1> QED BY <1>1 DEF Ideal!Next, Ideal!Turnover, ShownNow

LEMMA OneChange ==
  ASSUME NEW key \in Keys, NEW verdict, Shown(key)' = verdict,
         \A k \in Keys : k # key => Shown(k)' = Shown(k)
  PROVE  ShownNow' = [ShownNow EXCEPT ![key] = verdict]
<1>1. \A k \in Keys : ShownNow'[k] = IF k = key THEN verdict ELSE ShownNow[k]
  <2> SUFFICES ASSUME NEW k \in Keys
               PROVE  Shown(k)' = IF k = key THEN verdict ELSE Shown(k)
    BY DEF ShownNow
  <2>1. CASE k = key
    BY <2>1
  <2>2. CASE k # key
    BY <2>2
  <2> QED BY <2>1, <2>2
<1> QED BY <1>1 DEF ShownNow

\* A reporter's write that shows what its own report says.
LEMMA WriteRecords ==
  ASSUME NEW r \in Runs, runs[r].default, ~Missing(Report(r)), Key(r) \in Keys,
         \A k \in Keys : k # Key(r) => Shown(k)' = Shown(k),
         \A k \in Keys : k = Key(r) => Shown(k)' = Verdict(Report(r))
  PROVE  Ideal!Next
<1> DEFINE key == Key(r)
           verdict == Verdict(Report(r))
<1>1. verdict \in Due[key]
  BY DEF Due, Report
<1>2. PICK k \in Keys : k = key
  OBVIOUS
<1>3. PICK v : v = verdict
  OBVIOUS
<1>4. Shown(k)' = v /\ \A j \in Keys : j # k => Shown(j)' = Shown(j)
  BY <1>2, <1>3
<1>5. ShownNow' = [ShownNow EXCEPT ![k] = v]
  BY <1>4, OneChange
<1>6. v \in Due[k]
  BY <1>1, <1>2, <1>3
<1>7. Ideal!Record(k, v)
  BY <1>5, <1>6 DEF Ideal!Record, ShownNow
<1> QED BY <1>6, <1>7 DEF Ideal!Next

\* A reporter's write to an issue that somebody may have put away meanwhile.
LEMMA OwnWriteRecords ==
  ASSUME NEW r \in Runs, runs[r].default, ~Missing(Report(r)), Key(r) \in Keys,
         \A k \in Keys : k # Key(r) \/ runs[r].mine \notin Own(k) => Shown(k)' = Shown(k),
         \A k \in Keys : runs[r].mine \in Own(k) => Shown(k)' = Verdict(Report(r))
  PROVE  Ideal!Next
<1>1. CASE runs[r].mine \in Own(Key(r))
  BY <1>1, WriteRecords
<1>2. CASE runs[r].mine \notin Own(Key(r))
  BY <1>2, QuietStutters
<1> QED BY <1>1, <1>2

\* Whoever puts the one open issue of a key away leaves nothing shown of it.
LEMMA PutAwayHides ==
  ASSUME IInv, NEW n \in Numbers, PutAway(n)
  PROVE  Ideal!Next
<1>1. TypeOK /\ OneOpenIssue
  BY DEF IInv
<1>2. \/ issues' = [issues EXCEPT ![n].state = "closed"]
      \/ issues' = [issues EXCEPT ![n].marked = FALSE]
  BY DEF PutAway
<1>3. /\ \A k : Own(k)' = Own(k) \ {n}
      /\ \A m \in Numbers \ {n} : issues'[m] = issues[m]
  BY <1>1, <1>2, PutAwayOwn
<1>4. ASSUME NEW k \in Keys, n \notin Own(k)
      PROVE  Shown(k)' = Shown(k)
  <2>1. Own(k)' = Own(k) /\ \A m \in Own(k) : LastHash(issues'[m]) = LastHash(issues[m])
    BY <1>3, <1>4, OwnAreNumbers
  <2> QED BY <1>1, <2>1, ShownStays
<1>5. CASE \E k \in Keys : n \in Own(k)
  <2>1. PICK key \in Keys : n \in Own(key)
    BY <1>5
  <2>2. \A k \in Keys : k # key => n \notin Own(k)
    BY <2>1 DEF Own, Matching
  <2>3. Own(key)' = {}
    BY <1>1, <1>3, <2>1, ShownIsOwn
  <2>4. Shown(key)' = None
    BY <2>3 DEF Shown
  <2>5. ShownNow' = [ShownNow EXCEPT ![key] = None]
    BY <1>4, <2>2, <2>4, OneChange
  <2>6. Ideal!PutAway(key)
    BY <2>5 DEF Ideal!PutAway, ShownNow
  <2> QED BY <2>6 DEF Ideal!Next
<1>6. CASE \A k \in Keys : n \notin Own(k)
  BY <1>4, <1>6, QuietStutters
<1> QED BY <1>5, <1>6

-----------------------------------------------------------------------------
LEMMA StepRefines == IInv /\ [Next]_vars => Ideal!Next
<1> SUFFICES ASSUME IInv, [Next]_vars PROVE Ideal!Next
  OBVIOUS
<1>1. ASSUME UNCHANGED issues
      PROVE  Ideal!Next
  BY <1>1, Unchanged, QuietStutters
<1>2. ASSUME NEW r \in Runs, RunStep(r) PROVE Ideal!Next
  <2>1. CASE \/ Produce(r) \/ LoseLeg(r) \/ Wait(r) \/ Enter(r)
             \/ SkipMissing(r) \/ Find(r) \/ EnsureLabel(r) \/ List(r)
             \/ CallFails(r) \/ Stopped(r)
    <3>1. UNCHANGED issues
      BY <2>1 DEF Produce, LoseLeg, Wait, Enter, SkipMissing, Find, EnsureLabel, List,
                  CallFails, Stopped
    <3> QED BY <1>1, <3>1
  <2>2. CASE Create(r)
    BY <2>2, CreateEffect, WriteRecords
  <2>3. CASE Update(r)
    BY <2>3, UpdateEffect, OwnWriteRecords
  <2>4. CASE Close(r)
    BY <2>4, CloseEffect, OwnWriteRecords
  <2>5. CASE Note(r)
    <3>1. runs[r].mine \in Numbers /\ issues' = Commented(runs[r].mine, Bot, None)
      BY <2>5 DEF IInv, Grounded, Note, Reporter, Reporting
    <3>2. \A k \in Keys : Shown(k)' = Shown(k)
      BY <3>1, SilentComment
    <3> QED BY <3>2, QuietStutters
  <2> QED BY <1>2, <2>1, <2>2, <2>3, <2>4, <2>5 DEF RunStep, Advance
<1>3. ASSUME NEW key \in Keys, Change(key) \/ Copy(key) PROVE Ideal!Next
  <2>1. CASE Change(key)
    BY <1>1, <2>1 DEF Change
  <2>2. CASE Copy(key)
    BY <2>2, CopyEffect, QuietStutters
  <2> QED BY <1>3, <2>1, <2>2
<1>4. ASSUME NEW n \in Numbers, PutAway(n) \/ Reply(n) PROVE Ideal!Next
  <2>1. CASE PutAway(n)
    BY <2>1, PutAwayHides
  <2>2. CASE Reply(n)
    <3>1. PICK hash \in Copyable \cup {None} : issues' = Commented(n, Other, hash)
      BY <2>2 DEF Reply
    <3>2. hash \in Hashes \cup {None}
      BY FingerprintType, TrackerAssumption DEF Copyable
    <3>3. \A k \in Keys : Shown(k)' = Shown(k)
      BY <3>1, <3>2, SilentComment, TrackerAssumption
    <3> QED BY <3>3, QuietStutters
  <2> QED BY <1>4, <2>1, <2>2
<1>5. CASE UNCHANGED vars
  BY <1>1, <1>5 DEF vars
<1> QED BY <1>2, <1>3, <1>4, <1>5 DEF Next

LEMMA InitRefines == Init => Ideal!Init
<1> SUFFICES ASSUME Init PROVE Ideal!Init
  OBVIOUS
<1>1. \A key : Own(key) = {}
  BY DEF Init, Own, Matching, Absent
<1>2. \A key \in Keys : Shown(key) = None
  BY <1>1 DEF Shown
<1>3. \A r \in Runs : ~runs[r].default
  BY IdleType DEF Init
<1>4. Due = [key \in Keys |-> {}]
  BY <1>3 DEF Due
<1> QED BY <1>2, <1>4 DEF Ideal!Init

\* Whatever calls fail, are lost or cut off, and whatever others do, the issues
\* change only into what a complete report of the default branch says, in one
\* visible step, or when somebody puts one away
\* (src/.github/scripts/track-issue.js:12-14,334-356).
THEOREM Refinement == Spec => ImplementsIdealTracker
<1>1. Init => Ideal!Init
  BY InitRefines
<1>2. IInv /\ [Next]_vars => [Ideal!Next]_(Ideal!vars)
  BY StepRefines
<1> QED BY <1>1, <1>2, IInvHolds, PTL DEF Spec, ImplementsIdealTracker, Ideal!Spec
=============================================================================
