---------------------------- MODULE IdealTracker ----------------------------
(***************************************************************************)
(* What keeping one issue per check promises, whatever calls it takes: the *)
(* state shown for a check changes only into what a report that is under   *)
(* way says of it, or to nothing when somebody puts the issue away.        *)
(***************************************************************************)
CONSTANTS Checks, Nothing

VARIABLES
  shown, \* the state recorded for each check, Nothing when no issue is open
  due    \* what the reports under way say of each check

vars == <<shown, due>>

Init == shown = [c \in Checks |-> Nothing] /\ due = [c \in Checks |-> {}]

\* Reports begin, end or are given up.
Turnover == UNCHANGED shown

Record(c, verdict) ==
  /\ verdict \in due[c]
  /\ shown' = [shown EXCEPT ![c] = verdict]

PutAway(c) == shown' = [shown EXCEPT ![c] = Nothing]

Next ==
  \/ Turnover
  \/ \E c \in Checks : PutAway(c) \/ \E verdict \in due[c] : Record(c, verdict)

Spec == Init /\ [][Next]_vars
=============================================================================
