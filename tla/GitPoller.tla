----------------------------- MODULE GitPoller -----------------------------
(***************************************************************************)
(* The Git poller of one project and the part of the scheduler's tick that *)
(* drives it: src/server/automation/poller.ts and processProject and       *)
(* indexProject of src/server/projects/background-scheduler.ts.            *)
(*                                                                         *)
(* A place is the configured (repository, scenario branch) pair.  A commit *)
(* is the sequence of the numbers of its ancestors and itself, so that     *)
(* "is an ancestor of" is "is a prefix of"; <<>> stands for no commit.     *)
(* The poller reads the head, awaits Git twice, submits a request and only *)
(* then records the head: pushes, configuration changes, pauses and        *)
(* crashes fall between any two of these steps.                            *)
(***************************************************************************)
EXTENDS Naturals, FiniteSets, SequencesExt

CONSTANTS Places,            \* the (repository, branch) pairs a project may be given
          MaxPollerCommit,   \* bound on the commits pushed
          Testable,          \* the commits that touch more than scenarios and reports
          MaxPollerFailure,  \* bound on the failures of Git
          MaxPollerChange,   \* bound on the changes of configuration and status
          MaxPollerCrash     \* bound on the restarts of the process

\* A repository has a commit; the bounds are numbers.
ASSUME PollerAssumption ==
  /\ MaxPollerCommit \in Nat \ {0}
  /\ MaxPollerFailure \in Nat /\ MaxPollerChange \in Nat /\ MaxPollerCrash \in Nat

VARIABLES
  pollerHead,      \* the head of each place
  pollerCommits,   \* how many commits exist
  place,           \* the configured place
  onCommit,        \* triggerOnCommit
  pollerActive,    \* the project is not paused
  pollerChanges,   \* how many changes an administrator made
  lastPoll,        \* LAST_POLL: never written, younger, or older than the interval
  minute,          \* the current minute: matched by the Cron expression or not
  lastCron,        \* LAST_CRON is the current minute
  seenPlace,       \* LAST_REPOSITORY_KEY and LAST_BRANCH_KEY
  seen,            \* LAST_SEEN_KEY
  progress,        \* getLastCompletedTarget when the project is first polled
  tick,            \* the running tick
  poll,            \* the running poll
  pollerFailures,  \* how often Git failed
  pollerCrashes,   \* how often the process restarted
  requested,       \* commits covered by a request
  watched,         \* testable commits pushed since their place is observed
  cronPolls        \* polls started by Cron in the current minute

pollerVars == <<pollerHead, pollerCommits, place, onCommit, pollerActive, pollerChanges, lastPoll,
                minute, lastCron, seenPlace, seen, progress, tick, poll, pollerFailures,
                pollerCrashes, requested, watched, cronPolls>>
adminVars == <<place, onCommit, pollerActive, pollerChanges>>
clockVars == <<lastPoll, minute, lastCron, cronPolls>>
gitVars   == <<pollerHead, pollerCommits>>
seenVars  == <<seenPlace, seen>>
pollerCountVars == <<progress, pollerFailures, pollerCrashes>>

NoPlace  == "none"
NoCommit == <<>>
IdleTick     == [at |-> "idle", active |-> FALSE, cron |-> "no"]
NoPoll   == [trigger |-> "none", place |-> NoPlace, head |-> NoCommit, base |-> NoCommit]

GitPollerTypeOK ==
  /\ pollerHead \in [Places -> Seq(1 .. MaxPollerCommit)] /\ pollerCommits \in 0 .. MaxPollerCommit
  /\ place \in Places /\ onCommit \in BOOLEAN /\ pollerActive \in BOOLEAN
  /\ pollerChanges \in 0 .. MaxPollerChange
  /\ lastPoll \in {"never", "young", "due"}
  /\ minute \in {"other", "cron"} /\ lastCron \in BOOLEAN
  /\ seenPlace \in Places \union {NoPlace}
  /\ seen \in Seq(1 .. MaxPollerCommit) /\ progress \in Seq(1 .. MaxPollerCommit)
  /\ tick \in [at : {"idle", "index", "git", "fetch", "compare", "submit", "record",
                     "cron", "drain"},
               active : BOOLEAN, cron : {"no", "this", "past"}]
  /\ poll.trigger \in {"none", "git", "schedule"} /\ poll.place \in Places \union {NoPlace}
  /\ pollerFailures \in 0 .. MaxPollerFailure /\ pollerCrashes \in 0 .. MaxPollerCrash
  /\ requested \subseteq 1 .. MaxPollerCommit /\ watched \subseteq Testable
  /\ cronPolls \in Nat

(* Whether hasTestableChanges holds of a commit after base in target. *)
TestableBetween(base, target) ==
  \E i \in Len(base) + 1 .. Len(target) : target[i] \in Testable

PollerInit ==
  /\ pollerHead = [p \in Places |-> <<1>>] /\ pollerCommits = 1
  /\ place \in Places /\ onCommit = TRUE /\ pollerActive = TRUE /\ pollerChanges = 0
  /\ lastPoll = "never" /\ minute = "other" /\ lastCron = FALSE
  /\ seenPlace = NoPlace /\ seen = NoCommit /\ progress \in {NoCommit, <<1>>}
  /\ tick = IdleTick /\ poll = NoPoll
  /\ pollerFailures = 0 /\ pollerCrashes = 0
  /\ requested = {} /\ watched = {} /\ cronPolls = 0

-----------------------------------------------------------------------------
(* The environment: pushes, administrators, the clock.                     *)

(* A commit is pushed on top of a branch, or, with rewritten, in place of  *)
(* its head (a force push, which the operators are asked to forbid).       *)
PushCommit(p, rewritten) ==
  /\ pollerCommits < MaxPollerCommit
  /\ LET kept == IF rewritten THEN Front(pollerHead[p]) ELSE pollerHead[p]
         lost == Range(pollerHead[p]) \ Range(kept)
     IN  /\ rewritten => Len(pollerHead[p]) > 1
         /\ pollerHead' = [pollerHead EXCEPT ![p] = Append(kept, pollerCommits + 1)]
         /\ watched' = (watched \ lost)
                         \union (IF p = place THEN {pollerCommits + 1} \intersect Testable ELSE {})
  /\ pollerCommits' = pollerCommits + 1
  /\ UNCHANGED <<adminVars, clockVars, seenVars, pollerCountVars, tick, poll, requested>>

(* The administrator gives the project another repository or branch,       *)
(* turns the trigger off or on, or pauses or resumes the project.          *)
Configure(p) ==
  /\ pollerChanges < MaxPollerChange /\ p # place
  /\ place' = p /\ watched' = {} /\ pollerChanges' = pollerChanges + 1
  /\ UNCHANGED <<gitVars, clockVars, seenVars, pollerCountVars, onCommit, pollerActive, tick, poll,
                 requested>>

Toggle ==
  /\ pollerChanges < MaxPollerChange /\ pollerChanges' = pollerChanges + 1
  /\ \/ onCommit' = ~onCommit /\ UNCHANGED pollerActive
     \/ pollerActive' = ~pollerActive /\ UNCHANGED onCommit
  /\ UNCHANGED <<gitVars, clockVars, seenVars, pollerCountVars, place, tick, poll, requested,
                 watched>>

(* The poll interval passes; a minute the Cron expression matches begins,  *)
(* and ends.  A tick keeps the time at which it began.                     *)
IntervalPasses ==
  /\ lastPoll = "young" /\ lastPoll' = "due"
  /\ UNCHANGED <<gitVars, adminVars, seenVars, pollerCountVars, minute, lastCron, cronPolls, tick,
                 poll, requested, watched>>

MinuteBegins ==
  /\ minute = "other" /\ minute' = "cron" /\ lastCron' = FALSE /\ cronPolls' = 0
  /\ UNCHANGED <<gitVars, adminVars, seenVars, pollerCountVars, lastPoll, tick, poll, requested,
                 watched>>

MinuteEnds ==
  /\ minute = "cron" /\ minute' = "other" /\ lastCron' = FALSE /\ cronPolls' = 0
  /\ tick' = [tick EXCEPT !.cron = IF @ = "this" THEN "past" ELSE @]
  /\ UNCHANGED <<gitVars, adminVars, seenVars, pollerCountVars, lastPoll, poll, requested, watched>>

-----------------------------------------------------------------------------
(* The tick.  A second tick joins the running one, so there is one at most.*)

TickStarts ==
  /\ tick.at = "idle"
  /\ tick' = [at |-> "index", active |-> pollerActive,
              cron |-> IF minute = "cron" /\ ~lastCron THEN "this" ELSE "no"]
  /\ UNCHANGED <<gitVars, adminVars, clockVars, seenVars, pollerCountVars, poll, requested,
                 watched>>

(* indexProject records its own failures and never ends the tick. The      *)
(* project's status was read before it.                                    *)
Indexed ==
  /\ tick.at = "index"
  /\ tick' = [tick EXCEPT !.at = IF tick.active THEN "git" ELSE "drain"]
  /\ UNCHANGED <<gitVars, adminVars, clockVars, seenVars, pollerCountVars, poll, requested,
                 watched>>

(* A poll reads the configuration when it begins and keeps what it read.   *)
BeginPoll(trigger) ==
  /\ poll' = [NoPoll EXCEPT !.trigger = trigger, !.place = place]
  /\ tick' = [tick EXCEPT !.at = "fetch"]

(* Mutant: a missing LAST_POLL is not initialised. *)
GitCheckNeverStarted ==
  /\ tick.at = "git"
  /\ lastPoll' = IF lastPoll = "never" THEN "never" ELSE "young"
  /\ IF lastPoll = "due" /\ onCommit
       THEN BeginPoll("git")
       ELSE tick' = [tick EXCEPT !.at = "cron"] /\ UNCHANGED poll
  /\ UNCHANGED <<gitVars, adminVars, seenVars, pollerCountVars, minute, lastCron, cronPolls,
                 requested, watched>>

GitCheck ==
  /\ tick.at = "git"
  /\ lastPoll' = "young"
  /\ IF lastPoll = "due" /\ onCommit
       THEN BeginPoll("git")
       ELSE tick' = [tick EXCEPT !.at = "cron"] /\ UNCHANGED poll
  /\ UNCHANGED <<gitVars, adminVars, seenVars, pollerCountVars, minute, lastCron, cronPolls,
                 requested, watched>>

(* Mutant: LAST_CRON is left to be written after the poll. *)
CronCheckUnmarked ==
  /\ tick.at = "cron"
  /\ IF tick.cron = "no"
       THEN tick' = [tick EXCEPT !.at = "drain"] /\ UNCHANGED <<poll, cronPolls>>
       ELSE BeginPoll("schedule") /\ cronPolls' = cronPolls + 1
  /\ UNCHANGED <<gitVars, adminVars, seenVars, pollerCountVars, lastPoll, lastCron, minute,
                 requested, watched>>

(* LAST_CRON is written before the poll it stands for. *)
CronCheck ==
  /\ tick.at = "cron"
  /\ IF tick.cron = "no"
       THEN /\ tick' = [tick EXCEPT !.at = "drain"]
            /\ UNCHANGED <<poll, lastCron, cronPolls>>
       ELSE /\ BeginPoll("schedule")
            /\ IF tick.cron = "this"
                 THEN lastCron' = TRUE /\ cronPolls' = cronPolls + 1
                 ELSE UNCHANGED <<lastCron, cronPolls>>
  /\ UNCHANGED <<gitVars, adminVars, seenVars, pollerCountVars, lastPoll, minute, requested,
                 watched>>

(* A poll that failed ends processProject: the Cron check is left out.     *)
AfterPoll == IF poll.trigger = "git" THEN "cron" ELSE "drain"

Abandon ==
  /\ tick' = [tick EXCEPT !.at = "drain"] /\ poll' = NoPoll

GitFails ==
  /\ tick.at \in {"fetch", "compare"} /\ pollerFailures < MaxPollerFailure
  /\ pollerFailures' = pollerFailures + 1
  /\ Abandon
  /\ UNCHANGED <<gitVars, adminVars, clockVars, seenVars, progress, pollerCrashes, requested,
                 watched>>

(* Mutant: the head the branch has by now is recorded. *)
RecordCurrentHead(h) ==
  /\ seenPlace' = poll.place /\ seen' = pollerHead[poll.place]
  /\ tick' = [tick EXCEPT !.at = AfterPoll] /\ poll' = NoPoll

(* The recorded head becomes the commit up to which everything was seen.   *)
Record(h) ==
  /\ seenPlace' = poll.place /\ seen' = h
  /\ tick' = [tick EXCEPT !.at = AfterPoll] /\ poll' = NoPoll

MovedPlace == seenPlace # NoPlace /\ seenPlace # poll.place
Base == IF seen # NoCommit THEN seen ELSE progress

(* The head read is a new baseline when the place is new or nothing was    *)
(* seen before; commits below a baseline are not watched.                  *)
NewBaseline ==
  /\ tick.at = "fetch"
  /\ MovedPlace \/ Base = NoCommit
  /\ Record(pollerHead[poll.place])
  /\ watched' = watched \ Range(pollerHead[poll.place])
  /\ UNCHANGED <<gitVars, adminVars, clockVars, pollerCountVars, requested>>

NothingNew ==
  /\ tick.at = "fetch" /\ ~MovedPlace /\ Base # NoCommit
  /\ Base = pollerHead[poll.place]
  /\ Record(pollerHead[poll.place])
  /\ UNCHANGED <<gitVars, adminVars, clockVars, pollerCountVars, requested, watched>>

Fetched ==
  /\ tick.at = "fetch" /\ ~MovedPlace /\ Base # NoCommit
  /\ Base # pollerHead[poll.place]
  /\ poll' = [poll EXCEPT !.head = pollerHead[poll.place], !.base = Base]
  /\ tick' = [tick EXCEPT !.at = "compare"]
  /\ UNCHANGED <<gitVars, adminVars, clockVars, seenVars, pollerCountVars, requested, watched>>

(* commitsBetween refuses a base that is no ancestor of the head. *)
HistoryBroken ==
  /\ tick.at = "compare" /\ ~IsPrefix(poll.base, poll.head)
  /\ Abandon
  /\ UNCHANGED <<gitVars, adminVars, clockVars, seenVars, pollerCountVars, requested, watched>>

OnlyAssets ==
  /\ tick.at = "compare" /\ IsPrefix(poll.base, poll.head)
  /\ ~TestableBetween(poll.base, poll.head)
  /\ Record(poll.head)
  /\ UNCHANGED <<gitVars, adminVars, clockVars, pollerCountVars, requested, watched>>

(* The request tests the head of the place configured when it is taken up, *)
(* whatever the poll found. The queue refuses it while the project is      *)
(* paused, which is a failure of the poll.                                 *)
SubmitCommit ==
  /\ tick.at = "compare" /\ IsPrefix(poll.base, poll.head)
  /\ TestableBetween(poll.base, poll.head)
  /\ IF pollerActive
       THEN /\ requested' = requested \union Range(pollerHead[place])
            /\ tick' = [tick EXCEPT !.at = "record"] /\ UNCHANGED poll
       ELSE Abandon /\ UNCHANGED requested
  /\ UNCHANGED <<gitVars, adminVars, clockVars, seenVars, pollerCountVars, watched>>

RecordSubmitted ==
  /\ tick.at = "record"
  /\ Record(poll.head)
  /\ UNCHANGED <<gitVars, adminVars, clockVars, pollerCountVars, requested, watched>>

(* The tick waits for the drain, during which no tick starts. *)
Drained ==
  /\ tick.at = "drain" /\ tick' = IdleTick
  /\ UNCHANGED <<gitVars, adminVars, clockVars, seenVars, pollerCountVars, poll, requested,
                 watched>>

(* The process ends.  The keys are written one by one: with halfway, the   *)
(* place of a new baseline is stored and its head is not.                  *)
PollerCrash(halfway) ==
  /\ pollerCrashes < MaxPollerCrash /\ tick.at # "idle"
  /\ IF halfway
       THEN tick.at = "fetch" /\ MovedPlace /\ seenPlace' = poll.place
       ELSE UNCHANGED seenPlace
  /\ pollerCrashes' = pollerCrashes + 1 /\ tick' = IdleTick /\ poll' = NoPoll
  /\ UNCHANGED <<gitVars, adminVars, clockVars, seen, progress, pollerFailures, requested, watched>>

PollStep == NewBaseline \/ NothingNew \/ Fetched \/ HistoryBroken \/ OnlyAssets
            \/ SubmitCommit \/ RecordSubmitted

TickStep == TickStarts \/ Indexed \/ GitCheck \/ CronCheck \/ PollStep \/ Drained

PollerNext ==
  \/ \E p \in Places, rewritten \in BOOLEAN : PushCommit(p, rewritten)
  \/ \E p \in Places : Configure(p)
  \/ Toggle \/ IntervalPasses \/ MinuteBegins \/ MinuteEnds
  \/ TickStep \/ GitFails
  \/ \E halfway \in BOOLEAN : PollerCrash(halfway)

(* The timer fires every second, awaited calls answer and drains end.      *)
PollerFairness == WF_pollerVars(TickStep) /\ WF_pollerVars(IntervalPasses)

PollerSpec == PollerInit /\ [][PollerNext]_pollerVars /\ PollerFairness

-----------------------------------------------------------------------------
(* A testable commit pushed while its place is observed is covered by a    *)
(* request before the poller counts it as seen: pollInternal submits       *)
(* before it stores LAST_SEEN_KEY, and stores the head it compared, not    *)
(* the one the branch has by then.                                         *)
NothingSkipped ==
  seenPlace = place => watched \intersect Range(seen) \subseteq requested

(* A minute matched by the Cron expression is polled once, also when the   *)
(* process restarts during it: processProject stores LAST_CRON first.      *)
CronPolledOnce == cronPolls <= 1

PollingOn == pollerActive /\ onCommit
Broken    == Base # NoCommit /\ ~IsPrefix(Base, pollerHead[place])

(* A watched commit is requested in the end, unless polling is turned off  *)
(* or its history was rewritten, when automatic testing stops as           *)
(* docs/PROJECT.md:61 asks.                                                *)
PushRequested ==
  \A c \in Testable :
    c \in watched ~> (c \in requested \/ c \notin watched \/ ~PollingOn \/ Broken)

(* automation/poller.ts: no watched commit is counted as seen without a    *)
(* request, and a minute of the Cron expression is polled once.            *)
PollsMissNothing == NothingSkipped /\ CronPolledOnce
=============================================================================
