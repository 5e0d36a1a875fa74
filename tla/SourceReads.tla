---------------------------- MODULE SourceReads ----------------------------
(***************************************************************************)
(* The receipts of what a Run read of the target source, and the plan that *)
(* refers to them: SourceReadStore and sourceCoverage of                   *)
(* runs/source-reads.ts and the reading tools of runs/change-evidence.ts.  *)
(*                                                                         *)
(* One file of the target is read page by page; a page is a unit of its    *)
(* safe text.  The text that may be shown changes when a secret does, and  *)
(* with it its hash and length.  Calls wait for each other in one chain    *)
(* (pending): a receipt or a plan is written when its turn comes.          *)
(***************************************************************************)
EXTENDS Naturals, Sequences

CONSTANTS Totals,      \* the length of each safe text of the file
          PageSize,    \* the units a page holds
          MaxReceipt,  \* bound on the receipts of the Run
          MaxPending,  \* bound on the calls waiting at once
          MaxFailure   \* bound on failed writes

\* A file has a first text, and each text a length; a page may be of any size, and what is
\* bounded is counted.
ASSUME SourcesAssumption ==
  /\ 1 \in DOMAIN Totals /\ \A t \in DOMAIN Totals : Totals[t] \in Nat
  /\ PageSize \in Nat /\ MaxReceipt \in Nat /\ MaxPending \in Nat /\ MaxFailure \in Nat

VARIABLES
  text,           \* the safe text of the file now
  cursors,        \* the cursors issued: text and offset
  pending,        \* the calls in the chain
  receipts,       \* the receipts of the store
  sourcesStored,  \* the receipts in source-reads.json
  shown,          \* what tools have returned: the receipt and the page
  sourcesPlan,    \* the plan in force: its references, and those said to be full files
  failures

sourceVars == <<text, cursors, pending, receipts, sourcesStored, shown, sourcesPlan, failures>>

Texts   == DOMAIN Totals
SourceStages  == {"main-planning", "runner-execution"}
Allowed == {"main-planning"}
NoPlan  == [refs |-> {}, full |-> {}]

Fact(stage, category, t, start) ==
  [kind |-> "read", stage |-> stage, category |-> category, text |-> t, start |-> start,
   end |-> IF start + PageSize < Totals[t] THEN start + PageSize ELSE Totals[t],
   refs |-> {}, full |-> {}]

\* Type invariant: receipts are facts of pages, a plan's full files are among its references.
SourceTypeOK ==
  /\ text \in Texts /\ failures \in 0 .. MaxFailure
  /\ \A c \in cursors : c.text \in Texts /\ c.offset < Totals[c.text]
  /\ Len(pending) <= MaxPending /\ Len(receipts) <= MaxReceipt
  /\ \A i \in 1 .. Len(receipts) :
       /\ receipts[i].stage \in SourceStages /\ receipts[i].category \in {"file", "list"}
       /\ receipts[i].end <= Totals[receipts[i].text]
  /\ \A s \in shown : s.id \in 1 .. MaxReceipt /\ s.text \in Texts
  /\ sourcesPlan.full \subseteq sourcesPlan.refs /\ sourcesPlan.refs \subseteq 1 .. MaxReceipt

SourceInit ==
  /\ text \in Texts /\ cursors = {} /\ pending = <<>> /\ receipts = <<>> /\ sourcesStored = <<>>
  /\ shown = {} /\ sourcesPlan = NoPlan /\ failures = 0

---------------------------------------------------------------------------
\* A secret is set or removed: another text of the file is safe to show.
SecretChanges ==
  /\ text' \in Texts \ {text}
  /\ UNCHANGED <<cursors, pending, receipts, sourcesStored, shown, sourcesPlan, failures>>

Waits(call) == Len(pending) < MaxPending /\ pending' = Append(pending, call)

\* A page of the file, from the start or from a cursor issued for this very text; the cursor of
\* the next page is issued before the receipt is written.
ReadPage(stage) ==
  \E start \in {0} \cup {c.offset : c \in {d \in cursors : d.text = text}} :
    LET fact == Fact(stage, "file", text, start) IN
    /\ Waits(fact)
    /\ cursors' = IF fact.end < Totals[text]
                    THEN cursors \cup {[text |-> text, offset |-> fact.end]} ELSE cursors
    /\ UNCHANGED <<text, receipts, sourcesStored, shown, sourcesPlan, failures>>

\* Lists, searches and changes are receipts too, but no text of a file.
ReadList(stage) ==
  /\ Waits(Fact(stage, "list", 1, 0))
  /\ UNCHANGED <<text, cursors, receipts, sourcesStored, shown, sourcesPlan, failures>>

\* write_plan with structured references: identifiers are random, one has to be returned first.
WritePlan(refs, full) ==
  /\ Waits([Fact("main-planning", "list", 1, 0) EXCEPT !.kind = "plan", !.refs = refs,
                                                          !.full = full])
  /\ UNCHANGED <<text, cursors, receipts, sourcesStored, shown, sourcesPlan, failures>>

---------------------------------------------------------------------------
\* The head of the chain.

Turn(kind) == pending /= <<>> /\ Head(pending).kind = kind /\ pending' = Tail(pending)
Fails      == failures < MaxFailure /\ failures' = failures + 1
Shown(f, id) == [id |-> id, text |-> f.text, start |-> f.start, end |-> f.end]

\* The receipts with the new one are written, then kept, and only then the page is returned.
ReceiptWritten ==
  /\ Turn("read") /\ Len(receipts) < MaxReceipt
  /\ sourcesStored' = Append(receipts, Head(pending)) /\ receipts' = sourcesStored'
  /\ shown' = shown \cup {Shown(Head(pending), Len(sourcesStored'))}
  /\ UNCHANGED <<text, cursors, sourcesPlan, failures>>

\* Mutant: a page is returned although its receipt could not be written.
PageReturnedAnyway ==
  /\ Turn("read") /\ Fails
  /\ shown' = shown \cup {Shown(Head(pending), Len(receipts) + 1)}
  /\ UNCHANGED <<text, cursors, receipts, sourcesStored, sourcesPlan>>

\* A receipt that cannot be written, or is one too many: no page is returned.
ReceiptFails ==
  /\ Turn("read")
  /\ \/ Fails
     \/ Len(receipts) = MaxReceipt /\ UNCHANGED failures
  /\ UNCHANGED <<text, cursors, receipts, sourcesStored, shown, sourcesPlan>>

\* Mutant: the pages of a path are put together whatever text they were of.
SameFile(a, b) == a.category = b.category

SameObject(a, b) == a.category = b.category /\ a.text = b.text

\* sourceCoverage: the ranges of one object, in order of their start, leave no gap and reach its end.
FullSafeText(facts) ==
  LET total == Totals[(CHOOSE f \in facts : TRUE).text] IN
  /\ \A f \in facts : f.end <= total
  /\ \A f \in facts : f.start = 0 \/ \E g \in facts : g.start < f.start /\ f.start <= g.end
  /\ \E f \in facts : f.end = total

\* References to successful receipts of an allowed stage; a full file needs all its pages.
Accepted(refs, full) ==
  /\ refs \subseteq 1 .. Len(receipts)
  /\ \A i \in refs : receipts[i].stage \in Allowed
  /\ \A i \in full :
       /\ receipts[i].category = "file"
       /\ FullSafeText({receipts[j] : j \in {k \in refs : SameObject(receipts[k], receipts[i])}})

\* One file holds the plan and its references; the plan in force changes once it is written.
PlanWritten ==
  /\ Turn("plan") /\ Accepted(Head(pending).refs, Head(pending).full)
  /\ sourcesPlan' = [refs |-> Head(pending).refs, full |-> Head(pending).full]
  /\ UNCHANGED <<text, cursors, receipts, sourcesStored, shown, failures>>

\* A plan that is refused or cannot be written leaves the one before.
PlanFails ==
  /\ Turn("plan")
  /\ \/ ~Accepted(Head(pending).refs, Head(pending).full) /\ UNCHANGED failures
     \/ Fails
  /\ UNCHANGED <<text, cursors, receipts, sourcesStored, shown, sourcesPlan>>

---------------------------------------------------------------------------
SourceNext ==
  \/ SecretChanges \/ ReceiptWritten \/ ReceiptFails \/ PlanWritten \/ PlanFails
  \/ \E stage \in SourceStages : ReadPage(stage) \/ ReadList(stage)
  \/ \E refs \in SUBSET {s.id : s \in shown} :
       \E full \in {{}} \cup {{i} : i \in refs} : WritePlan(refs, full)

SourceSpec == SourceInit /\ [][SourceNext]_sourceVars

---------------------------------------------------------------------------
\* No page is returned without its receipt in source-reads.json, whatever write fails and
\* whatever calls wait for each other (recordedSourceResult).
ShownHasReceipt ==
  \A s \in shown : s.id \in 1 .. Len(sourcesStored) /\ Shown(sourcesStored[s.id], s.id) = s

\* What the plan in force calls a full file was returned unit by unit, of one and the same text,
\* by pages that the plan itself refers to and an allowed stage read; texts that changed between
\* two pages cannot be put together.
FullFileWasRead ==
  \A i \in sourcesPlan.full :
    \A u \in 1 .. Totals[sourcesStored[i].text] :
      \E j \in sourcesPlan.refs : /\ sourcesStored[j].category = "file"
                                  /\ sourcesStored[j].text = sourcesStored[i].text
                                  /\ sourcesStored[j].stage \in Allowed
                                  /\ sourcesStored[j].start < u /\ u <= sourcesStored[j].end

\* runs/source-reads.ts: no page without its receipt, and a file called fully read was read unit
\* by unit.
ReadsRecorded == ShownHasReceipt /\ FullFileWasRead
=============================================================================
