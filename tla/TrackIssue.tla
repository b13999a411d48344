----------------------------- MODULE TrackIssue -----------------------------
(***************************************************************************)
(* .github/scripts/track-issue.js and the workflow job that runs it: one   *)
(* open issue per check, synced with the results of CI runs by calls to    *)
(* the GitHub API.  Every call is a step.  It may fail before or after it  *)
(* took effect, the job may be stopped between two calls, and maintainers  *)
(* work on the same issues.                                                *)
(*                                                                         *)
(* A hash is the value it is computed from, and a report the legs' results *)
(* as the producers left them.                                             *)
(***************************************************************************)
EXTENDS Naturals, Sequences

CONSTANTS
  Trackers,   \* the keys, in the order in which trackAll takes them
  Runs,       \* slots for workflow runs
  Legs, Outputs, \* of a check, normalized
  Reports,    \* what the legs of a check can say
  Numbers,    \* of issues
  Bot, Other, \* the author of the reporter's writes; anybody else
  None,       \* no marker; no issue shown
  Unknown,
  MaxChanges, MaxFaults, MaxMeddling \* bounds of the environment

LegResult == [status : {"pass", "fail", "missing"}, output : Outputs \cup {None}]
Hashes == [Legs -> {"pass", "fail", "missing"} \X (Outputs \cup {None})]

ASSUME TrackerAssumption ==
  /\ Trackers \in Seq({Trackers[i] : i \in DOMAIN Trackers}) /\ Trackers # <<>>
  /\ \A i, j \in DOMAIN Trackers : Trackers[i] = Trackers[j] => i = j
  /\ Reports \in SUBSET [Legs -> LegResult] /\ Reports # {}
  /\ Numbers \in SUBSET (Nat \ {0})
  /\ Bot # Other
  /\ None \notin Hashes /\ Unknown \notin Hashes \cup {None}

Keys == {Trackers[i] : i \in DOMAIN Trackers}

VARIABLES
  world,    \* what the legs of each check would say now
  issues,   \* by number
  runs,     \* the workflow runs
  reported, \* what the last report of a key said that nothing disturbed
  touched,  \* the keys whose issues a maintainer changed since the last listing
  spent     \* how much of the environment's bounds is used up

vars == <<world, issues, runs, reported, touched, spent>>

-----------------------------------------------------------------------------
Missing(report) == \E leg \in Legs : report[leg].status = "missing"
Failed(report) == \E leg \in Legs : report[leg].status = "fail"

\* fingerprint: the status and the normalized output of every leg, in whatever
\* order the legs came.  The version, which is only shown, is left out.
Fingerprint(report) == [leg \in Legs |-> <<report[leg].status, report[leg].output>>]

Verdict(report) == IF Failed(report) THEN Fingerprint(report) ELSE None

\* A result directory that is absent, or a job that was cancelled.
Dropped(report, leg) == [report EXCEPT ![leg] = [status |-> "missing", output |-> None]]

Comment == [by : {Bot, Other}, hash : Hashes \cup {None}]
Issue == [key : Keys, by : {Bot, Other}, state : {"absent", "open", "closed"}, marked : BOOLEAN,
          body : Hashes \cup {None}, comments : Seq(Comment)]
Absent == [key |-> Trackers[1], by |-> Bot, state |-> "absent", marked |-> FALSE,
           body |-> None, comments |-> <<>>]

First(S) == CHOOSE i \in S : \A j \in S : i <= j
Newest(S) == CHOOSE i \in S : \A j \in S : j <= i

\* Mutant: only the body is read.
LastHashOfBody(issue) == issue.body
\* Mutant: every marked comment counts.
LastHashOfAnyone(issue) ==
  LET marked == {i \in DOMAIN issue.comments : issue.comments[i].hash # None}
  IN IF marked = {} THEN issue.body ELSE issue.comments[Newest(marked)].hash

Marked(issue) ==
  {i \in DOMAIN issue.comments : issue.comments[i].by = Bot /\ issue.comments[i].hash # None}
\* lastHash: the newest own comment with a marker, else the body's.
LastHash(issue) ==
  IF Marked(issue) = {} THEN issue.body ELSE issue.comments[Newest(Marked(issue))].hash

\* findOpenIssues: open, labelled, with the key in the body's marker.
Matching(key) ==
  {n \in Numbers : issues[n].state = "open" /\ issues[n].marked /\ issues[n].key = key}
Own(key) == {n \in Matching(key) : issues[n].by = Bot}
Foreign(key) == Matching(key) \ Own(key)

\* What a reader of the issues takes a check's state to be.
Shown(key) == IF Own(key) = {} THEN None ELSE LastHash(issues[First(Own(key))])

-----------------------------------------------------------------------------
Idle == [pc |-> "idle", default |-> FALSE, results |-> [key \in Keys |-> CHOOSE r \in Reports : TRUE],
         at |-> 1, mine |-> 0]

Reporting == {"find", "label", "create", "list", "update", "note", "close"}
Reporter(r) == runs[r].pc \in Reporting

Key(r) == Trackers[runs[r].at]
Report(r) == runs[r].results[Key(r)]

Init ==
  /\ world \in [Keys -> {report \in Reports : ~Missing(report)}]
  /\ issues = [n \in Numbers |-> Absent]
  /\ runs = [r \in Runs |-> Idle]
  /\ reported = [key \in Keys |-> Unknown]
  /\ touched = {}
  /\ spent = [changes |-> 0, faults |-> 0, meddling |-> 0]

RunType ==
  [pc : {"idle", "produced", "waiting"} \cup Reporting, default : BOOLEAN,
   results : [Keys -> [Legs -> LegResult]], at : DOMAIN Trackers, mine : Nat]

TypeOK ==
  /\ world \in [Keys -> Reports]
  /\ issues \in [Numbers -> Issue]
  /\ runs \in [Runs -> RunType]
  /\ reported \in [Keys -> Hashes \cup {None, Unknown}]
  /\ touched \in SUBSET Keys
  /\ spent \in [changes : Nat, faults : Nat, meddling : Nat]

Goto(r, pc) == runs' = [runs EXCEPT ![r].pc = pc]

\* trackAll's loop, after a tracker that was synced or failed.
AfterTracker(run) ==
  IF run.at = Len(Trackers) THEN Idle
  ELSE [run EXCEPT !.pc = "find", !.at = run.at + 1, !.mine = 0]
NextTracker(r) == runs' = [runs EXCEPT ![r] = AfterTracker(runs[r])]

\* The tracker ends and says what its key's issue is to show.
Synced(r) ==
  /\ NextTracker(r)
  /\ reported' = [reported EXCEPT ![Key(r)] =
       IF Key(r) \in touched THEN Unknown ELSE Verdict(Report(r))]

\* The tracker ends with an error; what the issue shows is anybody's guess.
GivenUp(r) ==
  /\ NextTracker(r)
  /\ reported' = [reported EXCEPT ![Key(r)] = Unknown]

Fault == spent.faults < MaxFaults /\ spent' = [spent EXCEPT !.faults = @ + 1]

\* The last call of a tracker; its response may be lost.
LastCall(r) ==
  \/ Synced(r) /\ UNCHANGED spent
  \/ GivenUp(r) /\ Fault

-----------------------------------------------------------------------------
(* The workflow.                                                           *)

\* A run is scheduled or dispatched, and its producers leave their results.
Produce(r) ==
  /\ runs[r].pc = "idle"
  /\ \E default \in BOOLEAN :
       runs' = [runs EXCEPT ![r] = [Idle EXCEPT !.pc = "produced", !.default = default, !.results = world]]
  /\ UNCHANGED <<world, issues, reported, touched, spent>>

\* A producer is cancelled or breaks before it has a result.
LoseLeg(r) ==
  /\ runs[r].pc = "produced" /\ Fault
  /\ \E key \in Keys : \E leg \in Legs :
       LET results == [runs[r].results EXCEPT ![key] = Dropped(@, leg)]
       IN  runs' = [runs EXCEPT ![r].results = results]
  /\ UNCHANGED <<world, issues, reported, touched>>

\* The report job waits for its concurrency group; a run that waited before
\* is cancelled.
Wait(r) ==
  /\ runs[r].pc = "produced"
  /\ runs' = [s \in Runs |-> IF s = r THEN [runs[r] EXCEPT !.pc = "waiting"]
                             ELSE IF runs[s].pc = "waiting" THEN Idle ELSE runs[s]]
  /\ UNCHANGED <<world, issues, reported, touched, spent>>

\* Mutant: the group is left out.
MayReportAlways(r) == TRUE
\* The concurrency group lets one reporter in.
MayReport(r) == \A s \in Runs : ~Reporter(s)

\* Mutant: runs of every branch are reported.
EnteredFromAny(run) == [run EXCEPT !.pc = "find"]
\* Mutant: the ref is compared with the bare name of the branch.
EnteredNever(run) == Idle
\* Off the default branch trackAll only logs.
Entered(run) == IF run.default THEN [run EXCEPT !.pc = "find"] ELSE Idle

Enter(r) ==
  /\ runs[r].pc = "waiting" /\ MayReport(r)
  /\ runs' = [runs EXCEPT ![r] = Entered(@)]
  /\ UNCHANGED <<world, issues, reported, touched, spent>>

-----------------------------------------------------------------------------
(* trackIssue.                                                             *)

\* A leg has no result: the issue is left unchanged and the step fails.
SkipMissing(r) ==
  /\ runs[r].pc = "find" /\ Missing(Report(r))
  /\ NextTracker(r)
  /\ UNCHANGED <<world, issues, reported, touched, spent>>

\* The open issues are listed, and decide what is to be done.
Find(r) ==
  /\ runs[r].pc = "find" /\ ~Missing(Report(r))
  /\ touched' = touched \ {Key(r)}
  /\ LET key == Key(r)
         goto(pc) == /\ runs' = [runs EXCEPT ![r].pc = pc,
                                             ![r].mine = IF Own(key) = {} THEN 0 ELSE First(Own(key))]
                     /\ UNCHANGED reported
     IN CASE Own(key) # {} /\ Failed(Report(r)) -> goto("list")
          [] Own(key) # {} /\ ~Failed(Report(r)) -> goto("note")
          [] Own(key) = {} /\ ~Failed(Report(r)) ->
               NextTracker(r) /\ reported' = [reported EXCEPT ![key] = None]
          [] Own(key) = {} /\ Failed(Report(r)) /\ Foreign(key) = {} -> goto("label")
          [] OTHER -> GivenUp(r) \* conflict
  /\ UNCHANGED <<world, issues, spent>>

\* ensureLabel leaves the label in place, whoever created it.
EnsureLabel(r) ==
  /\ runs[r].pc = "label"
  /\ Goto(r, "create")
  /\ UNCHANGED <<world, issues, reported, touched, spent>>

\* GitHub numbers issues in order.
IsNext(n) ==
  /\ issues[n].state = "absent"
  /\ \A m \in Numbers : m < n => issues[m].state # "absent"
Opened(key, by, hash) ==
  [Absent EXCEPT !.key = key, !.by = by, !.state = "open", !.marked = TRUE, !.body = hash]

Create(r) ==
  /\ runs[r].pc = "create"
  /\ \E n \in Numbers :
       IsNext(n) /\ issues' = [issues EXCEPT ![n] = Opened(Key(r), Bot, Fingerprint(Report(r)))]
  /\ LastCall(r)
  /\ UNCHANGED <<world, touched>>

\* The comments are read; an unchanged hash needs no new one.
List(r) ==
  /\ runs[r].pc = "list"
  /\ IF LastHash(issues[runs[r].mine]) = Fingerprint(Report(r))
       THEN Synced(r)
       ELSE Goto(r, "update") /\ UNCHANGED reported
  /\ UNCHANGED <<world, issues, touched, spent>>

Commented(n, by, hash) ==
  [issues EXCEPT ![n].comments = Append(@, [by |-> by, hash |-> hash])]

Update(r) ==
  /\ runs[r].pc = "update"
  /\ issues' = Commented(runs[r].mine, Bot, Fingerprint(Report(r)))
  /\ LastCall(r)
  /\ UNCHANGED <<world, touched>>

\* "Passes. Closing."; the comment has no marker.
Note(r) ==
  /\ runs[r].pc = "note"
  /\ issues' = Commented(runs[r].mine, Bot, None)
  /\ \/ Goto(r, "close") /\ UNCHANGED <<reported, spent>>
     \/ GivenUp(r) /\ Fault
  /\ UNCHANGED <<world, touched>>

Close(r) ==
  /\ runs[r].pc = "close"
  /\ issues' = [issues EXCEPT ![runs[r].mine].state = "closed"]
  /\ LastCall(r)
  /\ UNCHANGED <<world, touched>>

\* A call fails without effect; trackAll goes on with the next tracker.
CallFails(r) ==
  /\ Reporter(r) /\ Fault
  /\ GivenUp(r)
  /\ UNCHANGED <<world, issues, touched>>

\* The job's time is up, or the runner is gone.
Stopped(r) ==
  /\ Reporter(r) /\ Fault
  /\ runs' = [runs EXCEPT ![r] = Idle]
  /\ reported' = [reported EXCEPT ![Key(r)] = Unknown]
  /\ UNCHANGED <<world, issues, touched>>

-----------------------------------------------------------------------------
(* Everybody else.                                                         *)

\* The check's outcome changes: a commit, a new toolchain, an advisory.
Change(key) ==
  /\ spent.changes < MaxChanges /\ spent' = [spent EXCEPT !.changes = @ + 1]
  /\ \E report \in Reports : ~Missing(report) /\ world' = [world EXCEPT ![key] = report]
  /\ UNCHANGED <<issues, runs, reported, touched>>

Meddling == spent.meddling < MaxMeddling /\ spent' = [spent EXCEPT !.meddling = @ + 1]

\* A maintainer closes an issue, or takes its label or its marker away.
PutAway(n) ==
  /\ issues[n].state = "open" /\ Meddling
  /\ \/ issues' = [issues EXCEPT ![n].state = "closed"]
     \/ issues[n].marked /\ issues' = [issues EXCEPT ![n].marked = FALSE]
  /\ touched' = touched \cup {issues[n].key}
  /\ reported' = [reported EXCEPT ![issues[n].key] = Unknown]
  /\ UNCHANGED <<world, runs>>

\* The markers that can be seen on failures of these checks.
Copyable == {Fingerprint(report) : report \in {x \in Reports : Failed(x) /\ ~Missing(x)}}

\* Somebody comments, perhaps with a marker copied from elsewhere.
Reply(n) ==
  /\ issues[n].state # "absent" /\ Meddling
  /\ \E hash \in Copyable \cup {None} : issues' = Commented(n, Other, hash)
  /\ UNCHANGED <<world, runs, reported, touched>>

\* Somebody opens an issue with the label and a copied marker.
Copy(key) ==
  /\ Meddling
  /\ \E n \in Numbers : \E hash \in Copyable :
       IsNext(n) /\ issues' = [issues EXCEPT ![n] = Opened(key, Other, hash)]
  /\ UNCHANGED <<world, runs, reported, touched>>

-----------------------------------------------------------------------------
Advance(r) ==
  \/ SkipMissing(r) \/ Find(r) \/ EnsureLabel(r) \/ Create(r)
  \/ List(r) \/ Update(r) \/ Note(r) \/ Close(r)

RunStep(r) ==
  \/ Produce(r) \/ LoseLeg(r) \/ Wait(r) \/ Enter(r)
  \/ Advance(r)
  \/ CallFails(r) \/ Stopped(r)

Next ==
  \/ \E r \in Runs : RunStep(r)
  \/ \E key \in Keys : Change(key) \/ Copy(key)
  \/ \E n \in Numbers : PutAway(n) \/ Reply(n)

Spec == Init /\ [][Next]_vars

\* The schedule starts runs on the default branch, their jobs end, not every
\* such run is cancelled while it waits, and the reporter goes on from call to
\* call.
ProduceDefault(r) == Produce(r) /\ runs'[r].default
EnterDefault(r) == Enter(r) /\ runs[r].default
Fairness ==
  \A r \in Runs :
    /\ SF_vars(ProduceDefault(r)) /\ WF_vars(Wait(r)) /\ SF_vars(EnterDefault(r))
    /\ WF_vars(Advance(r))
FairSpec == Spec /\ Fairness
-----------------------------------------------------------------------------
\* The reporter never has two issues open for one check, whatever calls fail
\* and wherever it is stopped
\* (src/.github/workflows/toolchain-canary.yml:131,
\* src/.github/scripts/track-issue.js:1).
OneOpenIssue == \A key \in Keys : \A m, n \in Own(key) : m = n

\* A report that ended without an error, and whose issue no maintainer put
\* away, left the issue open with the hash of its failure, or none open after
\* a pass; failures of later runs, of other keys and off the default branch
\* do not undo that (src/.github/scripts/track-issue.js:259-332).
ReportedIsShown ==
  \A key \in Keys : reported[key] # Unknown => Shown(key) = reported[key]

\* The hash that stood on an issue before an own comment.
HashBefore(issue, i) ==
  LET earlier == {j \in Marked(issue) : j < i}
  IN IF earlier = {} THEN issue.body ELSE issue.comments[Newest(earlier)].hash

\* The reporter comments only when the hash changed, also after an update
\* whose response was lost and among comments with copied markers
\* (src/.github/scripts/track-issue.js:12-18,216-231).
CommentsOnChange ==
  \A n \in Numbers : \A i \in Marked(issues[n]) :
    issues[n].comments[i].hash # HashBefore(issues[n], i)

\* What the default branch's reports under way say of each key.
Due == [key \in Keys |->
         {Verdict(runs[r].results[key]) : r \in {s \in Runs : /\ runs[s].default
                                                            /\ ~Missing(runs[s].results[key])}}]
Ideal == INSTANCE IdealTracker WITH
  Checks <- Keys, Nothing <- None, shown <- [key \in Keys |-> Shown(key)], due <- Due

\* The issues change only into what a complete result of the default branch
\* says, in one visible step, or when a maintainer puts one away
\* (src/.github/scripts/track-issue.js:12-14,334-356).
ImplementsIdealTracker == Ideal!Spec

\* Once its outcome has settled, and it changes only so often, a check is in
\* the end shown as it is, unless somebody else's issue stands in the way
\* (src/.github/scripts/track-issue.js:12-18).
EventuallyShown ==
  \A key \in Keys :
    <>[](Foreign(key) = {}) => <>[](Shown(key) = Verdict(world[key]))
=============================================================================
