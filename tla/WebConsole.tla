----------------------------- MODULE WebConsole -----------------------------
(***************************************************************************)
(* The console of several projects in one browser tab (src/web): the       *)
(* router and its session (app/AppRouter.tsx), the resource of a page and  *)
(* its reloads (app/resource.ts), and the project pages that write: test,  *)
(* readiness, settings and onboarding.  A page is a component instance:    *)
(* showing another kind of page unmounts it, showing the same kind for     *)
(* another project keeps the instance and everything it remembers that no  *)
(* effect resets.  The pages in between, which belong to no project or     *)
(* only read one (workspace, project list, overview, Runs, scenarios), are *)
(* one page, "list".  What a page displays is abstracted to the project    *)
(* the data came from.                                                     *)
(***************************************************************************)
EXTENDS Naturals, Sequences, FiniteSets

CONSTANTS
    Projects,      \* the projects of the installation
    ProjectKinds,  \* pages of a project that write: test, readiness, settings
    MaxHistory,    \* pages the tab's history holds in the model
    MaxWrite       \* writes in flight at once

\* A tab shows a page.
ASSUME ConsoleAssumption == MaxHistory \in Nat \ {0}

NoProject == "none"
Anyone == Projects \cup {NoProject}
PageOf(kind, project) == [kind |-> kind, project |-> project]
LoginPage == PageOf("login", NoProject)
ListPage == PageOf("list", NoProject)
Pages == [kind : ProjectKinds, project : Projects]
         \cup [kind : {"onboarding"}, project : Anyone] \cup {ListPage, LoginPage}

VARIABLES
    consoleHistory,  \* the tab's entries up to the page shown, which is the last
    signedIn,        \* what the router believes of the session
    returnTo,        \* the page asked for when the session was missing, if any
    shown,           \* the project whose data the page displays, or none
    loads,           \* project reads in flight: the project, and not superseded
    draft,           \* the project the unsaved configuration was copied from, or none
    dialog,          \* the project on whose page the open confirmation was opened
    writes           \* writes in flight

consoleVars == <<consoleHistory, signedIn, returnTo, shown, loads, draft, dialog, writes>>
instanceVars == <<shown, loads, draft, dialog>>

WriteKinds == {"configuration", "request", "confirmed", "create"}

page == consoleHistory[Len(consoleHistory)]
Load(project, current) == [project |-> project, current |-> current]
Superseded == {Load(l.project, FALSE) : l \in loads}
Reading(project) == IF project = NoProject THEN {} ELSE {Load(project, TRUE)}
Busy == \E w \in writes : w.live

ConsoleTypeOK ==
    /\ consoleHistory \in Seq(Pages) /\ Len(consoleHistory) \in 1..MaxHistory
    /\ signedIn \in BOOLEAN
    /\ returnTo \in Pages
    /\ shown \in Anyone
    /\ loads \subseteq [project : Projects, current : BOOLEAN]
    /\ draft \in Anyone
    /\ dialog \in Anyone
    /\ writes \subseteq [kind : WriteKinds, project : Anyone, from : Anyone, named : Anyone,
                        live : BOOLEAN]

(***************************************************************************)
(* Showing a page.                                                         *)
(***************************************************************************)
\* another kind of page: a new instance, the old one's reads are aborted and
\* its writes go on with nobody listening
Mounts(p) ==
    /\ shown' = NoProject
    /\ loads' = Reading(p.project)
    /\ draft' = NoProject
    /\ dialog' = NoProject
    /\ writes' = {[w EXCEPT !.live = FALSE] : w \in writes}

\* Mutant: the dialog of the test page outlives a change of project
RekeysKeepingDialog(p) ==
    /\ loads' = IF p.project = page.project THEN loads
                ELSE Superseded \cup Reading(p.project)
    /\ shown' = IF p.project = NoProject THEN NoProject ELSE shown
    /\ draft' = IF p.kind = "settings" THEN NoProject ELSE draft
    /\ UNCHANGED <<writes, dialog>>

\* the same kind: the read is started anew when its key changed, and only
\* the effects the page declares on the project reset what it remembers
Rekeys(p) ==
    /\ loads' = IF p.project = page.project THEN loads
                ELSE Superseded \cup Reading(p.project)
    /\ shown' = IF p.project = NoProject THEN NoProject ELSE shown
    /\ draft' = IF p.kind = "settings" THEN NoProject ELSE draft
    /\ dialog' = IF p.kind = "test" /\ p # page THEN NoProject ELSE dialog
    /\ UNCHANGED writes

Shows(p) == IF p.kind = page.kind THEN Rekeys(p) ELSE Mounts(p)

Replaced(entries, p) == [entries EXCEPT ![Len(entries)] = p]

\* the blocker the settings page registers: nothing may interrupt a write,
\* and unsaved values are given up only when the user agrees
MayNavigate ==
    page.kind = "settings" => ~Busy

(***************************************************************************)
(* The user moves.                                                         *)
(***************************************************************************)
\* where the links of the page shown lead
Links ==
    {ListPage, PageOf("onboarding", NoProject)}
    \cup (IF page.kind \in ProjectKinds
          THEN {PageOf(kind, page.project) : kind \in ProjectKinds} ELSE {})
    \cup (IF page.kind = "list"
          THEN {PageOf(kind, p) : kind \in ProjectKinds, p \in Projects} ELSE {})
    \cup (IF page = PageOf("onboarding", NoProject)
          THEN {PageOf("onboarding", p) : p \in Projects} ELSE {})

Follow(p) ==
    /\ signedIn /\ page.kind # "login" /\ MayNavigate
    /\ Len(consoleHistory) < MaxHistory
    /\ p \in Links
    /\ Shows(p)
    /\ consoleHistory' = Append(consoleHistory, p)
    /\ UNCHANGED <<signedIn, returnTo>>

\* back by any number of entries; without a session the page is only noted
\* and the login page takes its place
GoBack(n) ==
    /\ n < Len(consoleHistory) /\ MayNavigate
    /\ LET entries == SubSeq(consoleHistory, 1, n)
           p == entries[n]
           target == IF signedIn THEN p ELSE LoginPage
       IN /\ Shows(target)
          /\ consoleHistory' = Replaced(entries, target)
          /\ returnTo' = IF signedIn \/ p.kind = "login" THEN returnTo ELSE p
          /\ UNCHANGED signedIn

\* any answer 401: the page is gone at once, its address is kept
SessionEnds ==
    /\ signedIn /\ page.kind # "login"
    /\ signedIn' = FALSE
    /\ returnTo' = page
    /\ Mounts(LoginPage)
    /\ consoleHistory' = Replaced(consoleHistory, LoginPage)

LogOut ==
    /\ signedIn /\ page.kind # "login" /\ MayNavigate
    /\ signedIn' = FALSE
    /\ Mounts(LoginPage)
    /\ consoleHistory' = Replaced(consoleHistory, LoginPage)
    /\ UNCHANGED returnTo

\* the project of an onboarding page is a query that the kept route lost
Destination ==
    IF returnTo.kind = "login" THEN ListPage
    ELSE IF returnTo.kind = "onboarding" THEN PageOf("onboarding", NoProject)
    ELSE returnTo

LogIn ==
    /\ page.kind = "login"
    /\ signedIn' = TRUE
    /\ returnTo' = LoginPage
    /\ Mounts(Destination)
    /\ consoleHistory' = Replaced(consoleHistory, Destination)

\* signed in, but the project list could not be read
LogInHalf ==
    /\ page.kind = "login" /\ returnTo.kind # "login"
    /\ signedIn' = TRUE
    /\ UNCHANGED <<consoleHistory, returnTo, shown, loads, draft, dialog, writes>>

(***************************************************************************)
(* Reading.                                                                *)
(***************************************************************************)
\* Mutant: neither the generation nor the abort signal is looked at
LoadRepliesLate(l) ==
    /\ l \in loads
    /\ loads' = loads \ {l}
    /\ shown' = l.project
    /\ UNCHANGED <<consoleHistory, signedIn, returnTo, draft, dialog, writes>>

\* the answer of a read: one that was superseded or aborted is ignored
LoadReplies(l) ==
    /\ l \in loads
    /\ loads' = loads \ {l}
    /\ shown' = IF l.current THEN l.project ELSE shown
    /\ UNCHANGED <<consoleHistory, signedIn, returnTo, draft, dialog, writes>>

\* a failed read keeps the last data
LoadFails(l) ==
    /\ l \in loads
    /\ loads' = loads \ {l}
    /\ UNCHANGED <<consoleHistory, signedIn, returnTo, shown, draft, dialog, writes>>

Reloading == Superseded \cup Reading(page.project)

\* the two-second timer of the test page, or a retry by hand
Reload ==
    /\ page.project # NoProject
    /\ loads' = Reloading
    /\ UNCHANGED <<consoleHistory, signedIn, returnTo, shown, draft, dialog, writes>>

(***************************************************************************)
(* Writing.                                                                *)
(***************************************************************************)
HasForm == page.kind \in {"settings", "onboarding"} /\ page.project # NoProject

\* the configuration draft starts as a copy of what is displayed
EditConfiguration ==
    /\ HasForm /\ shown # NoProject
    /\ page.kind = "settings" => ~Busy
    /\ draft = NoProject
    /\ draft' = shown
    /\ UNCHANGED <<consoleHistory, signedIn, returnTo, shown, loads, dialog, writes>>

\* what a confirmation names to the user: the project of the data displayed,
\* which may still be that of the page before
Named == shown

\* a write goes to the project of the route
Sends(kind, from) ==
    /\ Cardinality(writes) < MaxWrite
    /\ writes' = writes \cup {[kind |-> kind, project |-> page.project, from |-> from,
                               named |-> Named, live |-> TRUE]}

\* a section of the draft, or of the data displayed when nothing was edited
Save ==
    /\ HasForm /\ ~Busy /\ shown # NoProject
    /\ Sends("configuration", IF draft # NoProject THEN draft ELSE shown)
    /\ UNCHANGED <<consoleHistory, signedIn, returnTo, shown, loads, draft, dialog>>

\* asking to confirm a test request, an image build or the removal of a Secret;
\* what is asked keeps no project, it is the page's it was asked on
OpenDialog ==
    /\ page.kind \in {"test", "readiness", "settings"} /\ shown # NoProject
    /\ page.kind # "test" => ~Busy
    /\ dialog = NoProject
    /\ dialog' = page.project
    /\ UNCHANGED <<consoleHistory, signedIn, returnTo, shown, loads, draft, writes>>

CloseDialog ==
    /\ dialog # NoProject
    /\ page.kind = "test" => ~Busy
    /\ dialog' = NoProject
    /\ UNCHANGED <<consoleHistory, signedIn, returnTo, shown, loads, draft, writes>>

\* the dialog of the test page stays open until the answer
Confirm ==
    /\ dialog # NoProject /\ shown # NoProject
    /\ Sends(IF page.kind = "test" THEN "request" ELSE "confirmed", dialog)
    /\ dialog' = IF page.kind = "test" THEN dialog ELSE NoProject
    /\ UNCHANGED <<consoleHistory, signedIn, returnTo, shown, loads, draft>>

CreateProject ==
    /\ page = PageOf("onboarding", NoProject) /\ ~Busy
    /\ Sends("create", NoProject)
    /\ UNCHANGED <<consoleHistory, signedIn, returnTo, shown, loads, draft, dialog>>

\* what the continuation of a write does to the instance that sent it; the
\* onboarding page keeps its configuration draft
Continues(w) ==
    /\ draft' = IF w.kind = "configuration" /\ page.kind = "settings"
                THEN NoProject ELSE draft
    /\ dialog' = IF w.kind = "request" THEN NoProject ELSE dialog
    /\ loads' = Reloading

WriteSucceeds(w) ==
    /\ w \in writes /\ w.kind # "create"
    /\ writes' = writes \ {w}
    /\ IF w.live THEN Continues(w) ELSE UNCHANGED <<draft, dialog, loads>>
    /\ UNCHANGED <<consoleHistory, signedIn, returnTo, shown>>

\* the new project's page is shown from wherever the user is by then
ProjectCreated(w, p) ==
    /\ w \in writes /\ w.kind = "create" /\ MayNavigate
    /\ LET created == PageOf("onboarding", p)
       IN IF signedIn
          THEN /\ IF page.kind = "onboarding"
                  THEN /\ loads' = Superseded \cup {Load(p, TRUE)}
                       /\ writes' = writes \ {w}
                       /\ UNCHANGED <<shown, draft, dialog>>
                  ELSE /\ shown' = NoProject /\ loads' = {Load(p, TRUE)}
                       /\ draft' = NoProject
                       /\ dialog' = NoProject
                       /\ writes' = {[v EXCEPT !.live = FALSE] : v \in writes \ {w}}
               /\ consoleHistory' = Replaced(consoleHistory, created)
               /\ UNCHANGED returnTo
          ELSE /\ writes' = writes \ {w}
               /\ returnTo' = created
               /\ UNCHANGED <<consoleHistory, instanceVars>>
    /\ UNCHANGED signedIn

WriteFails(w) ==
    /\ w \in writes
    /\ writes' = writes \ {w}
    /\ UNCHANGED <<consoleHistory, signedIn, returnTo, instanceVars>>

(***************************************************************************)
(* The specification.                                                      *)
(***************************************************************************)
\* a tab is opened at any address
ConsoleInit ==
    /\ \E p \in Pages \ {LoginPage} :
         /\ consoleHistory = <<p>>
         /\ loads = Reading(p.project)
    /\ signedIn = TRUE
    /\ returnTo = LoginPage
    /\ shown = NoProject
    /\ draft = NoProject
    /\ dialog = NoProject
    /\ writes = {}

Moves ==
    \/ \E p \in Pages : Follow(p)
    \/ \E n \in 1..MaxHistory : GoBack(n)
    \/ SessionEnds \/ LogOut \/ LogIn \/ LogInHalf

PageReads ==
    \/ \E l \in loads : LoadReplies(l) \/ LoadFails(l)
    \/ Reload

Writes ==
    \/ EditConfiguration \/ Save
    \/ OpenDialog \/ CloseDialog \/ Confirm \/ CreateProject
    \/ \E w \in writes : WriteSucceeds(w) \/ WriteFails(w)
    \/ \E w \in writes, p \in Projects : ProjectCreated(w, p)

ConsoleNext == Moves \/ PageReads \/ Writes

ConsoleSpec == ConsoleInit /\ [][ConsoleNext]_consoleVars

(***************************************************************************)
(* Properties.                                                             *)
(***************************************************************************)
\* A page that displays its own project's data goes on displaying it however
\* late the answers to earlier reads arrive.
LateReplyIgnored ==
    [][shown = page.project /\ consoleHistory' = consoleHistory => shown' = shown]_consoleVars

\* A test request is sent to the project on whose page it was asked for,
\* whatever pages were shown before it was confirmed.  What the confirmation
\* named is another matter (ConfirmedAsNamed).
RequestStaysWithPage ==
    \A w \in writes : w.kind = "request" => w.from = w.project

\* A test request goes to the project its confirmation named when the user
\* agreed.
ConfirmedAsNamed ==
    \A w \in writes : w.kind = "request" => w.named = w.project

\* The configuration saved into a project was edited from that project's own.
SavedFromOwnProject ==
    \A w \in writes : w.kind = "configuration" => w.from = w.project

\* What the user confirmed under one project is not carried out on another.
ConfirmedWhereOpened ==
    \A w \in writes : w.kind = "confirmed" => w.from = w.project

\* While a write of the page shown is in flight, the user does not move to
\* another project.
WriteKeepsPage ==
    [][(\E w \in writes : w.live /\ w.kind # "create")
       /\ page.project # NoProject /\ page'.project # NoProject
       => page'.project = page.project]_consoleVars

\* src/web: a test request goes to the project on whose page it was asked for,
\* and a late answer does not change a page that displays its own project.
PageKeepsProject == LateReplyIgnored /\ []RequestStaysWithPage
=============================================================================
