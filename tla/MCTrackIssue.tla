---------------------------- MODULE MCTrackIssue ----------------------------
(***************************************************************************)
(* One check with two legs: a pass, a failure, and the same failure with   *)
(* other output of the leg that passes.                                    *)
(***************************************************************************)
EXTENDS TrackIssue, TLC
CONSTANTS clippy, portable, neon, o1, o2

MCLegs == {portable, neon}
MCOutputs == {o1, o2}

MCTrackers == <<clippy>>
Leg(status, output) == [status |-> status, output |-> output]
Says(p, n) == portable :> p @@ neon :> n

MCReports ==
  {Says(Leg("pass", o1), Leg("pass", o1)),
   Says(Leg("fail", o1), Leg("pass", o1)),
   Says(Leg("fail", o1), Leg("pass", o2))}
=============================================================================
