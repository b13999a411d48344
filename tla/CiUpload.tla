------------------------------ MODULE CiUpload ------------------------------
(***************************************************************************)
(* .github/scripts/ci-upload.rs (and the status part of ci-signal.rs): CI  *)
(* jobs that publish measurements on the site's volume, one call of flyctl *)
(* or curl per step.  A failed call is only a warning, a job may be killed *)
(* between two calls, and jobs run side by side.  A job of a kind whose    *)
(* workflow has a concurrency group cancels the one before it.             *)
(*                                                                         *)
(* A payload is the commit it says it is of and whether anything was       *)
(* measured; an index entry is its commit.                                 *)
(***************************************************************************)
EXTENDS Naturals, Sequences, FiniteSets

CONSTANTS
  Kinds,
  Serial,    \* kinds of which the workflow cancels the run in progress
  Signalled, \* kinds that signal "running" before they measure
  Plain,     \* kinds that are a status and measure nothing
  Jobs, Commits, PullCommits,
  MaxIndex, MaxFiles,
  Nothing,   \* no such file
  MaxStarts, MaxFaults \* bounds of the environment

ASSUME UploadAssumption ==
  /\ {Serial, Signalled, Plain} \subseteq SUBSET Kinds
  /\ Kinds # {} /\ Commits # {} /\ Commits \cap PullCommits = {}
  /\ MaxFiles \in Nat \ {0} /\ MaxIndex \in Nat /\ MaxFiles <= MaxIndex

Shas == Commits \cup PullCommits
Payload == [of : Shas, measured : BOOLEAN]

ASSUME NothingAssumption ==
  Nothing \notin Shas \cup Payload \cup Seq(Commits) \cup ({"running", "done"} \X Commits)
                 \cup [Kinds -> Commits \cup {"none"}]

VARIABLES
  site,     \* /data/<kind>: status.json, latest.json, index.json and the commits' files
  manifest, \* /data/manifest.json
  jobs,
  record,   \* of each kind: what was indexed, what is published, whether any was lost
  spent     \* how much of the environment's bounds is used up

vars == <<site, manifest, jobs, record, spent>>

-----------------------------------------------------------------------------
Pcs ==
  {"idle", "validate", "rm_signal", "put_signal", "put_running", "rm_own", "put_own",
   "put_latest", "fetch_index", "rm_index", "put_index", "list", "prune", "rm_done",
   "put_done", "fetch_manifest", "rm_manifest", "put_manifest", "rm_pull", "put_pull"}

NoEntries == [k \in Kinds |-> "none"]
Idle == [pc |-> "idle", kind |-> Nothing, sha |-> Nothing, mode |-> "main", payload |-> Nothing,
         seen |-> <<>>, todo |-> {}, entries |-> NoEntries, sound |-> FALSE]

Kind(j) == jobs[j].kind
Sha(j) == jobs[j].sha
Active(j, k) == jobs[j].pc # "idle" /\ jobs[j].mode = "main" /\ jobs[j].kind = k

Init ==
  /\ site = [k \in Kinds |-> [status |-> Nothing, latest |-> Nothing, index |-> Nothing,
                              files |-> [c \in Shas |-> Nothing]]]
  /\ manifest = Nothing
  /\ jobs = [j \in Jobs |-> Idle]
  /\ record = [k \in Kinds |-> [history |-> <<>>, published |-> Nothing,
                                lost |-> FALSE]]
  /\ spent = [starts |-> 0, faults |-> 0]

Directory ==
  [status : {Nothing} \cup ({"running", "done"} \X Commits), latest : {Nothing} \cup Payload,
   index : {Nothing} \cup Seq(Commits), files : [Shas -> {Nothing} \cup Payload]]
Manifests == [Kinds -> Commits \cup {"none"}]
Job ==
  [pc : Pcs, kind : Kinds \cup {Nothing}, sha : Shas \cup {Nothing}, mode : {"main", "pull", "dry"},
   payload : Payload \cup {Nothing}, seen : Seq(Commits), todo : SUBSET Shas,
   entries : Manifests, sound : BOOLEAN]
Record == [history : Seq(Commits), published : {Nothing} \cup Commits, lost : BOOLEAN]

TypeOK ==
  /\ site \in [Kinds -> Directory]
  /\ manifest \in {Nothing} \cup Manifests
  /\ jobs \in [Jobs -> Job]
  /\ record \in [Kinds -> Record]
  /\ spent \in [starts : Nat, faults : Nat]

-----------------------------------------------------------------------------
(* What the calls have in common.                                          *)

Here(j) == site[Kind(j)]
Goto(j, pc) == jobs' = [jobs EXCEPT ![j].pc = pc]
Fault == spent.faults < MaxFaults /\ spent' = [spent EXCEPT !.faults = @ + 1]

\* A call has its effect on the kind's directory.
Succeeds(j, to, after, noted) ==
  /\ site' = [site EXCEPT ![Kind(j)] = after]
  /\ record' = [record EXCEPT ![Kind(j)] = noted]
  /\ Goto(j, to)
  /\ UNCHANGED <<manifest, spent>>

\* A call has none, and the job goes on; hurts says that a commit's file or
\* its index entry is missing afterwards.
Warns(j, to, hurts) ==
  /\ jobs' = [jobs EXCEPT ![j].pc = to, ![j].sound = FALSE]
  /\ record' = [record EXCEPT ![Kind(j)].lost = @ \/ hurts]
  /\ UNCHANGED <<site, manifest>>

\* ssh_cmd("rm -f ..").
Remove(j, to, after) ==
  \/ Succeeds(j, to, after, record[Kind(j)])
  \/ Warns(j, to, FALSE) /\ Fault

\* sftp_put; a file that is still there is overwritten, or the put refused.
Put(j, to, there, after, noted, hurts) ==
  \/ Succeeds(j, to, after, noted)
  \/ Warns(j, to, hurts) /\ (Fault \/ (there # Nothing /\ UNCHANGED spent))

\* A call of which nothing depends on the outcome.
Tries(j, to, after) ==
  \E here \in {Here(j), after} : Succeeds(j, to, here, record[Kind(j)])

-----------------------------------------------------------------------------
(* Jobs begin and end.                                                     *)

\* Mutant: the commit in the payload is not looked at.
AcceptedUnread(job, payload) == job.kind \in Plain \/ payload.measured

\* What validate_payload and validate_floor let pass.
Accepted(job, payload) ==
  /\ payload.of = job.sha
  /\ job.kind \in Plain \/ payload.measured

Signals(k, mode) == mode = "main" /\ k \in Signalled

\* The kind's uploads cannot be accounted for when one stops between the
\* removal of a file and its replacement.
Torn(j) == jobs[j].pc \in {"put_own", "put_index"}

\* A workflow run starts a job.  Jobs of a serial kind stop the one before
\* them, others run beside it.
Start(j, k, c, mode) ==
  /\ jobs[j].pc = "idle" /\ spent.starts < MaxStarts
  /\ spent' = [spent EXCEPT !.starts = @ + 1]
  /\ (c \in Commits) <=> (mode # "pull")
  /\ LET before == {i \in Jobs : Active(i, k)}
         alone == before = {} \/ k \in Serial
         job == [Idle EXCEPT !.pc = IF Signals(k, mode) THEN "rm_signal" ELSE "validate",
                             !.kind = k, !.sha = c, !.mode = mode, !.sound = alone]
     IN IF mode # "main"
          THEN jobs' = [jobs EXCEPT ![j] = job] /\ UNCHANGED record
          ELSE /\ jobs' = [i \in Jobs |->
                             IF i = j THEN job
                             ELSE IF i \notin before THEN jobs[i]
                             ELSE IF k \in Serial THEN Idle ELSE [jobs[i] EXCEPT !.sound = FALSE]]
               /\ record' = [record EXCEPT
                    ![k].published = Nothing,
                    ![k].lost = @ \/ ~alone \/ (\E i \in before : Torn(i))]
  /\ UNCHANGED <<site, manifest>>

\* The runner is gone, or somebody cancels the run.
Killed(j) ==
  /\ jobs[j].pc # "idle" /\ Fault
  /\ jobs' = [jobs EXCEPT ![j] = Idle]
  /\ record' = [record EXCEPT ![Kind(j)].lost = @ \/ Torn(j)]
  /\ UNCHANGED <<site, manifest>>

\* ci-signal.rs, at the start of the job.
RemoveSignal(j) ==
  jobs[j].pc = "rm_signal" /\ Tries(j, "put_signal", [Here(j) EXCEPT !.status = Nothing])
PutSignal(j) ==
  jobs[j].pc = "put_signal" /\ Tries(j, "validate", [Here(j) EXCEPT !.status = <<"running", Sha(j)>>])

AfterValidation(mode) ==
  CASE mode = "dry" -> "idle" [] mode = "pull" -> "rm_pull" [] mode = "main" -> "put_running"

\* The measurement has left a payload; it is refused, or its upload begins.
Validate(j) ==
  /\ jobs[j].pc = "validate"
  /\ \E payload \in {x \in Payload : Kind(j) \in Plain => ~x.measured} :
       LET next == AfterValidation(jobs[j].mode)
       IN jobs' = [jobs EXCEPT ![j] =
            IF next # "idle" /\ Accepted(jobs[j], payload)
              THEN [@ EXCEPT !.pc = next, !.payload = payload] ELSE Idle]
  /\ UNCHANGED <<site, manifest, record, spent>>

\* --pr-only: the commit's own file and nothing else.
RemovePull(j) ==
  jobs[j].pc = "rm_pull" /\ Remove(j, "put_pull", [Here(j) EXCEPT !.files[Sha(j)] = Nothing])
PutPull(j) ==
  /\ jobs[j].pc = "put_pull"
  /\ \E here \in {Here(j), [Here(j) EXCEPT !.files[Sha(j)] = jobs[j].payload]} :
       site' = [site EXCEPT ![Kind(j)] = here]
  /\ jobs' = [jobs EXCEPT ![j] = Idle]
  /\ UNCHANGED <<manifest, record, spent>>

-----------------------------------------------------------------------------
(* An upload of the default branch.                                        *)

PutRunning(j) ==
  jobs[j].pc = "put_running" /\ Tries(j, "rm_own", [Here(j) EXCEPT !.status = <<"running", Sha(j)>>])

RemoveOwn(j) ==
  /\ jobs[j].pc = "rm_own"
  /\ Remove(j, "put_own", [Here(j) EXCEPT !.latest = Nothing, !.files[Sha(j)] = Nothing])
PutOwn(j) ==
  /\ jobs[j].pc = "put_own"
  /\ Put(j, "put_latest", Here(j).files[Sha(j)],
         [Here(j) EXCEPT !.files[Sha(j)] = jobs[j].payload], record[Kind(j)], TRUE)
PutLatest(j) ==
  /\ jobs[j].pc = "put_latest"
  /\ Put(j, "fetch_index", Here(j).latest,
         [Here(j) EXCEPT !.latest = jobs[j].payload], record[Kind(j)], FALSE)

Entries(index) == IF index = Nothing THEN <<>> ELSE index
Cut(seq, max) == SubSeq(seq, 1, IF Len(seq) <= max THEN Len(seq) ELSE max)
\* This commit's entry, and behind it those of the others.
Newer(c, existing) ==
  LET entries[n \in 0 .. Len(existing)] ==
        IF n = 0 THEN <<c>>
        ELSE IF existing[n] = c THEN entries[n - 1]
        ELSE Append(entries[n - 1], existing[n])
  IN entries[Len(existing)]

\* Mutant: an entry of the same commit is kept.
BuildIndexTwice(c, existing) == Cut(<<c>> \o existing, MaxIndex)
\* build_index: this commit first, no other entry of it, MAX_INDEX at most.
BuildIndex(c, existing) == Cut(Newer(c, existing), MaxIndex)

\* fetch_url: a failure and a missing file look alike.
FetchIndex(j) ==
  /\ jobs[j].pc = "fetch_index"
  /\ LET seen(index) == jobs' = [jobs EXCEPT ![j].pc = "rm_index", ![j].seen = BuildIndex(Sha(j), index)]
     IN \/ seen(Entries(Here(j).index)) /\ UNCHANGED <<record, spent>>
        \/ /\ seen(<<>>) /\ Fault
           /\ record' = [record EXCEPT ![Kind(j)].lost = TRUE]
  /\ UNCHANGED <<site, manifest>>
RemoveIndex(j) ==
  jobs[j].pc = "rm_index" /\ Remove(j, "put_index", [Here(j) EXCEPT !.index = Nothing])
PutIndex(j) ==
  /\ jobs[j].pc = "put_index"
  /\ Put(j, "list", Here(j).index, [Here(j) EXCEPT !.index = jobs[j].seen],
         [record[Kind(j)] EXCEPT !.history = Newer(Sha(j), @)], TRUE)

\* Mutant: one file too few is kept.
KeptShasLess(index) == LET n == Len(Cut(index, MaxFiles)) IN {index[i] : i \in 1 .. n - 1}
\* extract_index_shas of the index that was just built.
KeptShas(index) == LET kept == Cut(index, MaxFiles) IN {kept[i] : i \in DOMAIN kept}

\* ssh_ls; what it does not list is not pruned.
ListFiles(j) ==
  /\ jobs[j].pc = "list"
  /\ \/ /\ LET there == {c \in Shas : Here(j).files[c] # Nothing}
           IN jobs' = [jobs EXCEPT ![j].pc = "prune", ![j].todo = there \ KeptShas(jobs[j].seen)]
        /\ UNCHANGED <<site, manifest, record, spent>>
     \/ Warns(j, "prune", FALSE) /\ Fault

\* The rest of the files in todo come after this one.
Prune(j) ==
  /\ jobs[j].pc = "prune"
  /\ \E c \in jobs[j].todo :
       /\ jobs' = [jobs EXCEPT ![j].todo = @ \ {c}]
       /\ site' = [site EXCEPT ![Kind(j)].files[c] = Nothing]
       /\ UNCHANGED <<manifest, record, spent>>
PruneFails(j) ==
  /\ jobs[j].pc = "prune" /\ Fault
  /\ \E c \in jobs[j].todo : jobs' = [jobs EXCEPT ![j].todo = @ \ {c}, ![j].sound = FALSE]
  /\ UNCHANGED <<site, manifest, record>>
Pruned(j) ==
  /\ jobs[j].pc = "prune" /\ jobs[j].todo = {}
  /\ Goto(j, "rm_done")
  /\ UNCHANGED <<site, manifest, record, spent>>

RemoveStatus(j) ==
  jobs[j].pc = "rm_done" /\ Remove(j, "put_done", [Here(j) EXCEPT !.status = Nothing])
PutDone(j) ==
  /\ jobs[j].pc = "put_done"
  /\ Put(j, "fetch_manifest", Here(j).status, [Here(j) EXCEPT !.status = <<"done", Sha(j)>>],
         [record[Kind(j)] EXCEPT !.published = IF jobs[j].sound THEN Sha(j) ELSE @], FALSE)

-----------------------------------------------------------------------------
(* update_manifest, of which the jobs of all kinds have one copy.          *)

\* Mutant: the other kinds' entries all get this commit.
WithEntryForAll(entries, k, c) == [i \in Kinds |-> c]
WithEntry(entries, k, c) == [entries EXCEPT ![k] = c]

FetchManifest(j) ==
  /\ jobs[j].pc = "fetch_manifest"
  /\ LET seen(entries) == jobs' = [jobs EXCEPT ![j].pc = "rm_manifest",
                                               ![j].entries = WithEntry(entries, Kind(j), Sha(j))]
     IN \/ seen(IF manifest = Nothing THEN NoEntries ELSE manifest) /\ UNCHANGED spent
        \/ seen(NoEntries) /\ Fault
  /\ UNCHANGED <<site, manifest, record>>
RemoveManifest(j) ==
  /\ jobs[j].pc = "rm_manifest"
  /\ Goto(j, "put_manifest")
  /\ \/ manifest' = Nothing /\ UNCHANGED spent
     \/ UNCHANGED manifest /\ Fault
  /\ UNCHANGED <<site, record>>
PutManifest(j) ==
  /\ jobs[j].pc = "put_manifest"
  /\ jobs' = [jobs EXCEPT ![j] = Idle]
  /\ \/ manifest' = jobs[j].entries /\ UNCHANGED spent
     \/ UNCHANGED manifest /\ (Fault \/ (manifest # Nothing /\ UNCHANGED spent))
  /\ UNCHANGED <<site, record>>

-----------------------------------------------------------------------------
Step(j) ==
  \/ RemoveSignal(j) \/ PutSignal(j) \/ Validate(j) \/ RemovePull(j) \/ PutPull(j)
  \/ PutRunning(j) \/ RemoveOwn(j) \/ PutOwn(j) \/ PutLatest(j)
  \/ FetchIndex(j) \/ RemoveIndex(j) \/ PutIndex(j)
  \/ ListFiles(j) \/ Prune(j) \/ PruneFails(j) \/ Pruned(j)
  \/ RemoveStatus(j) \/ PutDone(j)
  \/ FetchManifest(j) \/ RemoveManifest(j) \/ PutManifest(j)

Next ==
  \E j \in Jobs :
    \/ \E k \in Kinds, c \in Shas, mode \in {"main", "pull", "dry"} : Start(j, k, c, mode)
    \/ Step(j) \/ Killed(j)

Spec == Init /\ [][Next]_vars

-----------------------------------------------------------------------------
\* An upload without a warning, that ran alone, leaves its kind's directory
\* telling of its commit in every file, with that commit's own data, whatever
\* torn or half-done uploads it found there; pull requests' uploads at the
\* same time do not matter (src/.github/scripts/ci-upload.rs:131-175).
CompletedIsPublished ==
  \A k \in Kinds :
    LET c == record[k].published
        dir == site[k]
    IN c # Nothing =>
         /\ dir.status = <<"done", c>>
         /\ dir.latest # Nothing /\ dir.latest = dir.files[c]
         /\ dir.latest.of = c /\ (k \in Plain \/ dir.latest.measured)
         /\ Entries(dir.index) # <<>> /\ dir.index[1] = c

\* The job between whose calls a kind's index is away.
Replacing(k) == \E j \in Jobs : Active(j, k) /\ jobs[j].pc = "put_index"

\* Unless an upload was torn, its reading of the index failed, or another ran
\* beside it, the index holds the last MAX_INDEX commits in the order of their
\* latest uploads, each once; in particular after a run that was cancelled
\* elsewhere (src/.github/scripts/ci-upload.rs:144-149,309-362).
HistoryKept ==
  \A k \in Kinds :
    ~record[k].lost =>
      \/ Replacing(k)
      \/ Entries(site[k].index) = Cut(record[k].history, MaxIndex)

\* The job between whose calls a commit's file is away.
Renewing(k, c) == \E j \in Jobs : Active(j, k) /\ Sha(j) = c /\ jobs[j].pc = "put_own"

\* In the same cases none of the last MAX_FILES commits is without its file,
\* and after an upload without a warning no older one has one
\* (src/.github/scripts/ci-upload.rs:151-167).
PrunesOnlyOlder ==
  \A k \in Kinds :
    LET kept == {Cut(record[k].history, MaxFiles)[i] : i \in 1 .. Len(Cut(record[k].history, MaxFiles))}
    IN ~record[k].lost =>
         /\ \A c \in kept : site[k].files[c] # Nothing \/ Renewing(k, c)
         /\ record[k].published # Nothing =>
              \A c \in Commits : site[k].files[c] # Nothing => c \in kept

\* The manifest names commits that were indexed for their kind: never one of
\* another kind's, of a pull request or of an upload that was refused
\* (src/.github/scripts/ci-upload.rs:177-208).
ManifestNamesIndexed ==
  manifest # Nothing =>
    \A k \in Kinds :
      \/ manifest[k] = "none" \/ record[k].lost
      \/ \E i \in DOMAIN record[k].history : record[k].history[i] = manifest[k]

\* "A single object mapping each data kind to its latest SHA": when no job is
\* under way and none failed, each kind's entry is the commit of its latest
\* data (src/.github/scripts/ci-upload.rs:181-183).
ManifestIsLatest ==
  (\A j \in Jobs : jobs[j].pc = "idle") /\ spent.faults = 0 =>
    \A k \in Kinds : record[k].published # Nothing =>
      manifest # Nothing /\ manifest[k] = record[k].published
=============================================================================
