------------------------- MODULE UpdateTransaction -------------------------
(***************************************************************************)
(* The in-place update of internal/update: windows of one installation     *)
(* that settle, apply and certify updates under one advisory lock, with    *)
(* every change of the disk a step of its own, so that a process may die   *)
(* between any two of them.  A bundle on disk is its identity (device and  *)
(* inode) and the build it holds; an identity may be used again once       *)
(* nothing on disk and no journal has it.                                  *)
(***************************************************************************)
EXTENDS Naturals, FiniteSets

CONSTANTS
  Windows,        \* processes, each running the build it was started from
  NoWindow,
  MaxBuild,       \* builds are 0 .. MaxBuild, a later one newer
  Ids,            \* identities a bundle on disk can have
  NoId,           \* the identity of a path with nothing at it
  ReadsVersion,   \* whether the platform can read a bundle's version (macOS)
  MaxLaunches,    \* bound: starts of a window
  MaxReplaced,    \* bound: bundles put at the install path by other hands
  MaxLegacy       \* bound: launch counts written by an old build's reads

ASSUME UpdateAssumptions ==
  /\ MaxBuild \in Nat \ {0}
  /\ NoId \notin Ids
  /\ NoWindow \notin Windows
  /\ ReadsVersion \in BOOLEAN
  /\ MaxLaunches \in Nat /\ MaxReplaced \in Nat /\ MaxLegacy \in Nat

Builds == 0 .. MaxBuild
NoBuild == MaxBuild + 1
NoBundle == [id |-> NoId, build |-> NoBuild]
Bundle == [id : Ids, build : Builds]
NoJournal == [old |-> NoId, new |-> NoId, to |-> NoBuild, attempts |-> 0,
              owner |-> NoBuild, held |-> FALSE]
MaxAttempts == 3    \* the launch that rolls back; the model counts no further
Gone == [at |-> "dead", build |-> NoBuild, target |-> NoBuild, tx |-> NoBuild]

VARIABLES
  \* the disk: what a crash leaves
  install, swap, backup,   \* the bundle at each of the three managed names
  extracts,                \* the extraction directories, by the update's build
  journal,                 \* the transaction journal
  \* the processes
  window,                  \* where each window is, its build and its target
  lock,                    \* the window that holds the update lock
  \* history and bounds
  certified,   \* the pair was certified for this journal
  tries,       \* reconciliations of this journal by the build it installed
  starts,      \* starts of the build this journal installed
  launches, replaced, legacy

disk == <<install, swap, backup, extracts, journal>>
history == <<certified, tries, starts>>
bounds == <<launches, replaced, legacy>>
vars == <<disk, window, lock, history, bounds>>

Journaled == journal # NoJournal

\* The exchange has happened and nobody has settled it.
Exchanged == Journaled /\ install.id = journal.new /\ install.id # journal.old

Unused(i) == i \notin {install.id, swap.id, backup.id}

TypeOK ==
  /\ install \in Bundle \cup {NoBundle}
  /\ swap \in Bundle \cup {NoBundle}
  /\ backup \in Bundle \cup {NoBundle}
  /\ extracts \subseteq Builds
  /\ journal \in [old : Ids \cup {NoId}, new : Ids \cup {NoId},
                  to : Builds \cup {NoBuild}, attempts : 0 .. MaxAttempts,
                  owner : Builds \cup {NoBuild}, held : BOOLEAN]
  /\ window \in [Windows ->
       [at : {"dead", "start", "up", "look", "clean", "cleanExtract",
              "cleanJournal", "debrisSwap", "debrisBackup", "roll", "rolled", "rolledExtract",
              "begin", "extract", "fetch", "stage", "record", "exchange", "tidy",
              "certify", "oldBackup", "retain", "finish"},
        build : Builds \cup {NoBuild}, target : Builds \cup {NoBuild},
        tx : Builds \cup {NoBuild}]]
  /\ lock \in Windows \cup {NoWindow}
  /\ certified \in BOOLEAN
  /\ tries \in 0 .. MaxAttempts /\ starts \in 0 .. MaxLaunches
  /\ launches \in 0 .. MaxLaunches /\ replaced \in 0 .. MaxReplaced
  /\ legacy \in 0 .. MaxLegacy

Init ==
  /\ install \in {NoBundle} \cup [id : Ids, build : {0}]
  /\ swap = NoBundle /\ backup = NoBundle /\ extracts = {}
  /\ journal = NoJournal
  /\ window = [w \in Windows |-> Gone]
  /\ lock = NoWindow
  /\ certified = FALSE /\ tries = 0 /\ starts = 0
  /\ launches = 0 /\ replaced = 0 /\ legacy = 0

-----------------------------------------------------------------------------
(* Moving a window.  Leave releases the lock, with or without an error:    *)
(* the caller only logs it.                                                *)
-----------------------------------------------------------------------------
Goto(w, l) == window' = [window EXCEPT ![w].at = l]

Leave(w) == /\ window' = [window EXCEPT ![w].at = "up", ![w].target = NoBuild, ![w].tx = NoBuild]
            /\ lock' = NoWindow

Take(w, l) == lock = NoWindow /\ lock' = w /\ Goto(w, l)

\* A start settles and is done; an apply goes on to its own transaction.
Reconciled(w) == IF window[w].target = NoBuild
                 THEN Leave(w)
                 ELSE Goto(w, "begin") /\ UNCHANGED lock

OneMore(n) == IF n < MaxAttempts THEN n + 1 ELSE n

Forget == /\ journal' = NoJournal
          /\ certified' = FALSE /\ tries' = 0 /\ starts' = 0

-----------------------------------------------------------------------------
(* The life of a window.                                                   *)
-----------------------------------------------------------------------------
\* A start runs what is installed; before the first installation, the copy
\* the person opened.
Launch(w) ==
  /\ window[w].at = "dead" /\ launches < MaxLaunches
  /\ LET b == IF install = NoBundle THEN 0 ELSE install.build
     IN  /\ window' = [window EXCEPT ![w] = [Gone EXCEPT !.at = "start", !.build = b]]
         /\ starts' = IF Exchanged /\ b = journal.to THEN starts + 1 ELSE starts
  /\ launches' = launches + 1
  /\ UNCHANGED <<disk, lock, certified, tries, replaced, legacy>>

Die(w) ==
  /\ window[w].at # "dead"
  /\ window' = [window EXCEPT ![w] = Gone]
  /\ lock' = IF lock = w THEN NoWindow ELSE lock
  /\ UNCHANGED <<disk, history, bounds>>

\* Another process is updating: this start settles nothing.
SkipReconcile(w) ==
  /\ window[w].at = "start" /\ lock # NoWindow
  /\ Goto(w, "up")
  /\ UNCHANGED <<disk, lock, history, bounds>>

StartReconcile(w) ==
  /\ window[w].at = "start" /\ Take(w, "look")
  /\ UNCHANGED <<disk, history, bounds>>

\* The person presses the button of an offer, which Check made only of a
\* build newer than the running one.  Waiting for the lock reads nothing.
BeginApply(w, b) ==
  /\ window[w].at = "up" /\ b > window[w].build /\ lock = NoWindow
  /\ lock' = w
  /\ window' = [window EXCEPT ![w].at = "look", ![w].target = b]
  /\ UNCHANGED <<disk, history, bounds>>

\* The frontend is up and says so.
BeginReport(w) ==
  /\ window[w].at = "up" /\ Take(w, "certify")
  /\ UNCHANGED <<disk, history, bounds>>

-----------------------------------------------------------------------------
(* Reconciliation, under the lock.                                         *)
-----------------------------------------------------------------------------
RunsInstalledBuild(w) == window[w].build = journal.to

NoTransaction(w) ==
  /\ window[w].at = "look" /\ ~Journaled
  /\ Goto(w, "debrisSwap")
  /\ UNCHANGED <<disk, lock, history, bounds>>

\* Missing, or neither of the two the journal names: the person is asked.
Unexplained(w) ==
  /\ window[w].at = "look" /\ Journaled
  /\ \/ install = NoBundle /\ journal.old # NoId
     \/ install.id \notin {journal.old, journal.new}
  /\ Leave(w)
  /\ UNCHANGED <<disk, history, bounds>>

NotExchangedByBuild(w) ==   \* mutant: asks which build runs, not what is on disk
  /\ window[w].at = "look" /\ Journaled /\ ~RunsInstalledBuild(w)
  /\ Goto(w, "clean")
  /\ UNCHANGED <<disk, lock, history, bounds>>
NotExchanged(w) ==
  /\ window[w].at = "look" /\ Journaled /\ install.id = journal.old
  /\ Goto(w, "clean")
  /\ UNCHANGED <<disk, lock, history, bounds>>

\* A pair held by an older coordinator, or a window of another build: the
\* launch is nobody's to count.
LeavePending(w) ==
  /\ window[w].at = "look" /\ Exchanged
  /\ journal.held \/ ~RunsInstalledBuild(w)
  /\ Reconciled(w)
  /\ UNCHANGED <<disk, history, bounds>>

CountLaunchIgnoringOwner(w) ==   \* mutant: another build's count is continued
  /\ window[w].at = "look" /\ Exchanged /\ ~journal.held /\ RunsInstalledBuild(w)
  /\ LET n == OneMore(journal.attempts)
     IN  /\ journal' = [journal EXCEPT !.attempts = n, !.owner = window[w].build]
         /\ IF n >= MaxAttempts
            THEN Goto(w, "roll") /\ UNCHANGED lock
            ELSE Reconciled(w)
  /\ tries' = OneMore(tries)
  /\ UNCHANGED <<install, swap, backup, extracts, certified, starts, bounds>>
CountLaunch(w) ==
  /\ window[w].at = "look" /\ Exchanged /\ ~journal.held /\ RunsInstalledBuild(w)
  /\ LET n == OneMore(IF journal.owner = window[w].build THEN journal.attempts ELSE 0)
     IN  /\ journal' = [journal EXCEPT !.attempts = n, !.owner = window[w].build]
         /\ IF n >= MaxAttempts
            THEN Goto(w, "roll") /\ UNCHANGED lock
            ELSE Reconciled(w)
  /\ tries' = OneMore(tries)
  /\ UNCHANGED <<install, swap, backup, extracts, certified, starts, bounds>>

CleanSwap(w) ==
  /\ window[w].at = "clean"
  /\ swap' = NoBundle
  /\ Goto(w, "cleanExtract")
  /\ UNCHANGED <<install, backup, extracts, journal, lock, history, bounds>>

CleanExtract(w) ==
  /\ window[w].at = "cleanExtract"
  /\ extracts' = extracts \ {journal.to}
  /\ Goto(w, "cleanJournal")
  /\ UNCHANGED <<install, swap, backup, journal, lock, history, bounds>>

CleanJournal(w) ==
  /\ window[w].at = "cleanJournal"
  /\ Forget
  /\ Reconciled(w)
  /\ UNCHANGED <<install, swap, backup, extracts, bounds>>

\* No journal explains the managed names: what is nocx's own, not the running
\* install and not newer than this window, is removed.
Stale(w, b) == /\ b # NoBundle /\ b.id # install.id
               /\ ~(ReadsVersion /\ b.build > window[w].build)

DebrisSwap(w) ==
  /\ window[w].at = "debrisSwap"
  /\ swap' = IF Stale(w, swap) THEN NoBundle ELSE swap
  /\ Goto(w, "debrisBackup")
  /\ UNCHANGED <<install, backup, extracts, journal, lock, history, bounds>>

DebrisBackup(w) ==
  /\ window[w].at = "debrisBackup"
  /\ backup' = IF Stale(w, backup) THEN NoBundle ELSE backup
  /\ Reconciled(w)
  /\ UNCHANGED <<install, swap, extracts, journal, history, bounds>>

-----------------------------------------------------------------------------
(* Rollback, on the third launch that was never certified.                 *)
-----------------------------------------------------------------------------
CannotRollBack(w) ==
  /\ window[w].at = "roll" /\ (journal.old = NoId \/ swap = NoBundle)
  /\ Leave(w)
  /\ UNCHANGED <<disk, history, bounds>>

RollBack(w) ==
  /\ window[w].at = "roll" /\ journal.old # NoId /\ swap # NoBundle
  /\ install' = swap /\ swap' = install
  /\ window' = [window EXCEPT ![w].at = "rolled", ![w].tx = journal.to]
  /\ UNCHANGED <<backup, extracts, journal, lock, history, bounds>>

RolledBack(w) ==
  /\ window[w].at = "rolled"
  /\ Forget
  /\ Goto(w, "rolledExtract")
  /\ UNCHANGED <<install, swap, backup, extracts, lock, bounds>>

RolledBackExtract(w) ==
  /\ window[w].at = "rolledExtract"
  /\ extracts' = extracts \ {window[w].tx}
  /\ Reconciled(w)
  /\ UNCHANGED <<install, swap, backup, journal, history, bounds>>

-----------------------------------------------------------------------------
(* Apply: any step may fail, and a failure leaves what it found to the     *)
(* next reconciliation.                                                    *)
-----------------------------------------------------------------------------
Fail(w) ==
  /\ window[w].at \in {"clean", "cleanJournal", "rolled", "extract", "fetch", "stage",
                       "record", "exchange", "finish"}
  /\ Leave(w)
  /\ UNCHANGED <<disk, history, bounds>>

RefuseInFlight(w) ==
  /\ window[w].at = "begin" /\ Journaled
  /\ Leave(w)
  /\ UNCHANGED <<disk, history, bounds>>

WriteJournal(w) ==
  /\ window[w].at = "begin" /\ ~Journaled
  /\ journal' = [NoJournal EXCEPT !.old = install.id, !.to = window[w].target]
  /\ Goto(w, "extract")
  /\ UNCHANGED <<install, swap, backup, extracts, lock, history, bounds>>

MakeExtractDir(w) ==
  /\ window[w].at = "extract"
  /\ extracts' = extracts \cup {window[w].target}
  /\ Goto(w, "fetch")
  /\ UNCHANGED <<install, swap, backup, journal, lock, history, bounds>>

\* Downloaded, extracted and verified inside the extraction directory; what
\* an earlier crash left at the swap name is removed.
Fetch(w) ==
  /\ window[w].at = "fetch"
  /\ swap' = NoBundle
  /\ Goto(w, "stage")
  /\ UNCHANGED <<install, backup, extracts, journal, lock, history, bounds>>

Stage(w) ==
  /\ window[w].at = "stage"
  /\ \E i \in Ids : Unused(i) /\ swap' = [id |-> i, build |-> window[w].target]
  /\ Goto(w, "record")
  /\ UNCHANGED <<install, backup, extracts, journal, lock, history, bounds>>

RecordNew(w) ==
  /\ window[w].at = "record"
  /\ journal' = [journal EXCEPT !.new = swap.id]
  /\ Goto(w, "exchange")
  /\ UNCHANGED <<install, swap, backup, extracts, lock, history, bounds>>

\* Somebody replaced the installed bundle while this one was fetched.
RefuseChanged(w) ==
  /\ window[w].at = "exchange" /\ install.id # journal.old
  /\ Leave(w)
  /\ UNCHANGED <<disk, history, bounds>>

Exchange(w) ==
  /\ window[w].at = "exchange" /\ install.id = journal.old
  /\ install' = swap /\ swap' = install
  /\ Goto(w, "tidy")
  /\ UNCHANGED <<backup, extracts, journal, lock, history, bounds>>

Tidy(w) ==
  /\ window[w].at = "tidy"
  /\ extracts' = extracts \ {window[w].target}
  /\ Leave(w)
  /\ UNCHANGED <<install, swap, backup, journal, history, bounds>>

-----------------------------------------------------------------------------
(* The health report: the pair first, and only then the first step that    *)
(* cannot be undone.                                                       *)
-----------------------------------------------------------------------------
\* The bundle at the install path is the one the transaction staged, by the
\* journal's own comparison: nothing at either is also equal.
AtNew == Journaled /\ install.id = journal.new

NothingToReport(w) ==
  /\ window[w].at = "certify" /\ ~AtNew
  /\ Leave(w)
  /\ UNCHANGED <<disk, history, bounds>>

\* The reporting window is not the installed build, or its coordinator is not
\* known or not compatible.
RefusePair(w) ==
  /\ window[w].at = "certify" /\ AtNew
  /\ Leave(w)
  /\ UNCHANGED <<disk, history, bounds>>

HoldPairFinalises(w) ==   \* mutant: an old coordinator is taken for a pair
  /\ window[w].at = "certify" /\ AtNew /\ RunsInstalledBuild(w)
  /\ Goto(w, "oldBackup")
  /\ UNCHANGED <<disk, lock, history, bounds>>
HoldPair(w) ==
  /\ window[w].at = "certify" /\ AtNew /\ RunsInstalledBuild(w)
  /\ journal' = [journal EXCEPT !.held = TRUE, !.attempts = 0, !.owner = window[w].build]
  /\ tries' = 0
  /\ Leave(w)
  /\ UNCHANGED <<install, swap, backup, extracts, certified, starts, bounds>>

Certify(w) ==
  /\ window[w].at = "certify" /\ AtNew /\ RunsInstalledBuild(w)
  /\ certified' = TRUE
  /\ Goto(w, "oldBackup")
  /\ UNCHANGED <<disk, lock, tries, starts, bounds>>

DropOldBackup(w) ==
  /\ window[w].at = "oldBackup"
  /\ backup' = IF backup.id # journal.new THEN NoBundle ELSE backup
  /\ Goto(w, "retain")
  /\ UNCHANGED <<install, swap, extracts, journal, lock, history, bounds>>

\* The bundle just replaced becomes the retained copy.  A rename that fails
\* is logged, and the transaction ends all the same.
Retain(w) ==
  /\ window[w].at = "retain"
  /\ \/ /\ swap # NoBundle
        /\ backup' = swap /\ swap' = NoBundle
     \/ /\ swap # NoBundle
        /\ backup' = NoBundle /\ swap' = swap
     \/ /\ swap = NoBundle
        /\ UNCHANGED <<swap, backup>>
  /\ Goto(w, "finish")
  /\ UNCHANGED <<install, extracts, journal, lock, history, bounds>>

Finish(w) ==
  /\ window[w].at = "finish"
  /\ Forget
  /\ Leave(w)
  /\ UNCHANGED <<install, swap, backup, extracts, bounds>>

-----------------------------------------------------------------------------
(* What is not this code's: another hand at the install path (never in the *)
(* instant between a check of the identity there and the exchange that     *)
(* follows it), and a build of before launch counts had an owner, which    *)
(* counted every read.                                                     *)
-----------------------------------------------------------------------------
ReplacedByHand(i, b) ==
  /\ replaced < MaxReplaced
  /\ Unused(i) /\ i \notin {journal.old, journal.new}
  /\ \A w \in Windows : window[w].at # "roll"
  /\ install' = [id |-> i, build |-> b]
  /\ replaced' = replaced + 1
  /\ UNCHANGED <<swap, backup, extracts, journal, window, lock, history, launches, legacy>>

LegacyRead(w) ==
  /\ window[w].at = "up" /\ window[w].build = 0 /\ lock = NoWindow
  /\ legacy < MaxLegacy /\ Exchanged
  /\ journal.attempts + 1 < MaxAttempts
  /\ journal' = [journal EXCEPT !.attempts = @ + 1, !.owner = NoBuild]
  /\ legacy' = legacy + 1
  /\ UNCHANGED <<install, swap, backup, extracts, window, lock, history, launches, replaced>>

-----------------------------------------------------------------------------
WindowStep(w) ==
  \/ Launch(w) \/ Die(w) \/ SkipReconcile(w) \/ StartReconcile(w)
  \/ (\E b \in Builds : BeginApply(w, b)) \/ BeginReport(w)

ReconcileStep(w) ==
  \/ NoTransaction(w) \/ Unexplained(w) \/ NotExchanged(w) \/ LeavePending(w) \/ CountLaunch(w)
  \/ CleanSwap(w) \/ CleanExtract(w) \/ CleanJournal(w) \/ DebrisSwap(w) \/ DebrisBackup(w)
  \/ CannotRollBack(w) \/ RollBack(w) \/ RolledBack(w) \/ RolledBackExtract(w)

ApplyStep(w) ==
  \/ Fail(w) \/ RefuseInFlight(w) \/ WriteJournal(w) \/ MakeExtractDir(w) \/ Fetch(w)
  \/ Stage(w) \/ RecordNew(w) \/ RefuseChanged(w) \/ Exchange(w) \/ Tidy(w)

ReportStep(w) ==
  \/ NothingToReport(w) \/ RefusePair(w) \/ HoldPair(w) \/ Certify(w)
  \/ DropOldBackup(w) \/ Retain(w) \/ Finish(w)

Next ==
  \/ \E w \in Windows : WindowStep(w) \/ ReconcileStep(w) \/ ApplyStep(w) \/ ReportStep(w)
                        \/ LegacyRead(w)
  \/ \E i \in Ids, b \in Builds : ReplacedByHand(i, b)

Spec == Init /\ [][Next]_vars

(* Properties.                                                             *)

\* Until the installed build is certified with its coordinator, the bundle it
\* replaced is at the swap peer, where the automatic and the documented manual
\* rollback look for it: whatever died in between, and whichever windows of
\* either build settled, applied or reported meanwhile.
RollbackCopyKept ==
  Exchanged /\ ~certified /\ journal.old # NoId => swap.id = journal.old

\* What is on disk can always be settled: a well-formed record, and the copy it
\* would go back to.
Recoverable == TypeOK /\ RollbackCopyKept

\* An update is taken back at the third reconciliation, of a start or an Apply,
\* in which the build it installed found it neither finalised nor held for an
\* older coordinator: a count another build wrote never takes part, and a report
\* that holds the pair starts it over.  A certification whose finalisation died
\* does not (CertifiedStays of UpdateClaims).  And it is taken back once: a
\* journal that a crash left behind its rollback never exchanges again.
RollbackAfterThreeTries ==
  [][/\ Exchanged /\ install'.id = journal.old => tries = MaxAttempts /\ ~journal.held
     /\ Journaled /\ ~Exchanged /\ Exchanged' => tries = 0]_vars

\* Through every crash the update is one atomic replacement on trial: the updater
\* takes an uncertified build back to its fallback and does nothing else with it.
\* It forgets no trial, and puts nothing but the fallback in its place (UpdateTrial).
Trial == INSTANCE UpdateTrial WITH
  installed <- install.build,
  trial <- IF ~Exchanged THEN "none" ELSE IF certified THEN "certified" ELSE "trial",
  fallback <- IF Exchanged THEN swap.build ELSE NoBuild,
  others <- replaced

ImplementsUpdateTrial == Trial!Spec
=============================================================================
