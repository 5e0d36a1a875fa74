----------------------------- MODULE RoundRobin -----------------------------
(***************************************************************************)
(* How long the round-robin of the queue coordinator can pass over a       *)
(* project.  The history variable bypassed counts, for each project, the   *)
(* claims other projects won since it last became eligible.                *)
(***************************************************************************)
EXTENDS TestRequestQueue

VARIABLE bypassed

roundRobinVars == <<queueVars, bypassed>>

RoundRobinTypeOK == QueueTypeOK /\ bypassed \in [Projects -> Nat]

\* The projects whose request the current step claims.
ClaimedFrom(p) ==
    \E q \in RowsOf(p, {"queued"}) : rows'[q].status = "running"

CountBypass ==
    bypassed' = [p \in Projects |->
        IF ClaimedFrom(p) \/ p \notin Eligible \/ p \notin Eligible' THEN 0
        ELSE IF \E o \in Projects : ClaimedFrom(o) THEN bypassed[p] + 1
        ELSE bypassed[p]]

RoundRobinInit == QueueInit /\ bypassed = [p \in Projects |-> 0]
RoundRobinNext == QueueNext /\ CountBypass
RoundRobinSpec == RoundRobinInit /\ [][RoundRobinNext]_roundRobinVars

\* A project that stays eligible is passed over by at most one claim of every
\* other project, however many requests they have and however often requests
\* are put back: no project can keep another from the execution slot.
BoundedBypass == \A p \in Projects : bypassed[p] < NumProjects
=============================================================================
