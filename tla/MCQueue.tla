------------------------------ MODULE MCQueue -------------------------------
(***************************************************************************)
(* Instance of TestRequestQueue, with the count of RoundRobin, for TLC:    *)
(* two projects, so that the slot, the order and the turn matter, and two  *)
(* commits, so that a target or a prepared merge could be replaced by      *)
(* another.  The commits are interchangeable.  Two requests suffice for    *)
(* the turn, because a claimed request may be put back and claimed again.  *)
(***************************************************************************)
EXTENDS RoundRobin, TLC

CommitSymmetry == Permutations(Commits)
=============================================================================
