----------------------------- MODULE MCArchive ------------------------------
(***************************************************************************)
(* Instances of RunArchive for TLC: two Runs, each result, each way to     *)
(* publish a patch, Runs with and without a report and Issues.             *)
(***************************************************************************)
EXTENDS RunArchive

Found(result, patch, bugs) ==
    [result |-> result, special |-> FALSE, patch |-> patch, bugs |-> bugs]

Special(bugs) == [Found("blocked", "review", bugs) EXCEPT !.special = TRUE]

MCHistories == {
    <<Found("failed", "direct", Bugs \ Linked), Found("passed", "none", {})>>,
    <<Special(Linked), Found("failed", "direct", Bugs \ Linked)>>,
    <<Found("blocked", "none", Bugs \ Linked), Found("failed", "none", Bugs)>>}

\* A patch for review, and a Run that may be archived meanwhile.
MCReviews == {
    <<Found("passed", "review", {}), Found("failed", "none", Bugs)>>,
    <<Found("failed", "direct", Bugs), Special({})>>}
=============================================================================
