----------------------------- MODULE MCCiUpload -----------------------------
(***************************************************************************)
(* A kind whose workflow cancels the run in progress and one without a     *)
(* concurrency group, three commits of the default branch and a pull       *)
(* request's.  Runners and commits are interchangeable.                    *)
(***************************************************************************)
EXTENDS CiUpload, TLC

MCSymmetry == Permutations(Jobs) \cup Permutations(Commits)
=============================================================================
