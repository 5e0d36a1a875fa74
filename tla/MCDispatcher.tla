----------------------------- MODULE MCDispatcher -----------------------------
(***************************************************************************)
(* Instance of Dispatcher for TLC.  The commits are interchangeable.       *)
(***************************************************************************)
EXTENDS Dispatcher, TLC

CommitSymmetry == Permutations(Commits)
=============================================================================
