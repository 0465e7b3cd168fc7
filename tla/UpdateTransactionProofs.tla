----------------------- MODULE UpdateTransactionProofs -----------------------
(***************************************************************************)
(* Proofs about UpdateTransaction, for any windows, builds, identities and *)
(* bounds, on a platform that reads a bundle's version or not: what is on  *)
(* disk can always be settled, an update is taken back only on its third   *)
(* try, and the whole implements UpdateTrial.                              *)
(*                                                                         *)
(* A process may die between any two steps, and what it has seen is lost   *)
(* with it; so the invariant is in two halves.  FallbackKept and Counts    *)
(* speak of the disk alone and hold in every state, whoever dies.  Seen    *)
(* says what the holder of the lock has seen and relies on until its next  *)
(* step: nobody else writes while it holds the lock, and another hand at   *)
(* the install path can only make the transaction unexplained.             *)
(***************************************************************************)
EXTENDS UpdateTransaction, TLAPS

\* A window that holds no lock.
Free == {"dead", "start", "up"}

\* Whoever is past the lock holds it, alone.
LockHeld == \A w \in Windows : lock = w <=> window[w].at \notin Free

\* A count the installed build wrote itself is one that it made, and a build is certified
\* for a journal that names it.
Counts ==
  /\ starts <= launches
  /\ journal.owner = journal.to => journal.attempts <= tries
  /\ IF Journaled THEN journal.to \in Builds ELSE ~certified /\ tries = 0

\* The replaced bundle is at the swap peer, until the pair that was certified retires it.
FallbackKept ==
  Exchanged /\ journal.old # NoId =>
    swap.id = journal.old \/ (certified /\ swap = NoBundle)

\* What the holder of the lock has seen, and nobody can have changed since.
Seen(w) ==
  /\ window[w].at \in {"clean", "cleanExtract", "cleanJournal", "rolled"} => ~Exchanged
  /\ window[w].at \in {"debrisSwap", "debrisBackup"} => ~Journaled
  /\ window[w].at = "roll" => Exchanged /\ tries = MaxAttempts /\ ~journal.held
  /\ window[w].at \in {"begin", "extract", "fetch", "stage", "record", "exchange", "tidy"} =>
       window[w].target \in Builds
  /\ window[w].at \in {"extract", "fetch", "stage", "record"} =>
       Journaled /\ ~Exchanged /\ journal.new = NoId /\ ~certified /\ tries = 0
  /\ window[w].at \in {"record", "exchange"} => swap # NoBundle /\ swap.id # install.id
  /\ window[w].at = "exchange" => swap.id = journal.new /\ ~certified /\ tries = 0
  /\ window[w].at \in {"oldBackup", "retain", "finish"} => certified

Holding == \A w \in Windows : Seen(w)

IInv == TypeOK /\ LockHeld /\ Counts /\ FallbackKept /\ Holding

\* The records of the state.
At == {"dead", "start", "up", "look", "clean", "cleanExtract",
       "cleanJournal", "debrisSwap", "debrisBackup", "roll", "rolled", "rolledExtract",
       "begin", "extract", "fetch", "stage", "record", "exchange", "tidy",
       "certify", "oldBackup", "retain", "finish"}
WindowT == [at : At, build : Builds \cup {NoBuild}, target : Builds \cup {NoBuild},
            tx : Builds \cup {NoBuild}]
JournalT == [old : Ids \cup {NoId}, new : Ids \cup {NoId},
             to : Builds \cup {NoBuild}, attempts : 0 .. MaxAttempts,
             owner : Builds \cup {NoBuild}, held : BOOLEAN]
BundleT == Bundle \cup {NoBundle}

-----------------------------------------------------------------------------
\* The type invariant, record by record.
LEMMA TypesAre ==
  TypeOK <=>
    /\ install \in BundleT /\ swap \in BundleT /\ backup \in BundleT
    /\ extracts \subseteq Builds /\ journal \in JournalT
    /\ window \in [Windows -> WindowT] /\ lock \in Windows \cup {NoWindow}
    /\ certified \in BOOLEAN /\ tries \in 0 .. MaxAttempts /\ starts \in 0 .. MaxLaunches
    /\ launches \in 0 .. MaxLaunches /\ replaced \in 0 .. MaxReplaced
    /\ legacy \in 0 .. MaxLegacy
BY DEF TypeOK, WindowT, At, JournalT, BundleT

\* The same of the next state.
LEMMA TypesAreNext ==
  TypeOK' <=>
    /\ install' \in BundleT /\ swap' \in BundleT /\ backup' \in BundleT
    /\ extracts' \subseteq Builds /\ journal' \in JournalT
    /\ window' \in [Windows -> WindowT] /\ lock' \in Windows \cup {NoWindow}
    /\ certified' \in BOOLEAN /\ tries' \in 0 .. MaxAttempts /\ starts' \in 0 .. MaxLaunches
    /\ launches' \in 0 .. MaxLaunches /\ replaced' \in 0 .. MaxReplaced
    /\ legacy' \in 0 .. MaxLegacy
BY DEF TypeOK, WindowT, At, JournalT, BundleT

\* There is a bundle exactly where there is an identity, and then it has a build.
LEMMA BundleIds ==
  ASSUME NEW b \in BundleT
  PROVE  /\ b.id \in Ids \cup {NoId} /\ b.build \in Builds \cup {NoBuild}
         /\ (b.id = NoId <=> b = NoBundle)
         /\ (b # NoBundle => b \in Bundle /\ b.id \in Ids /\ b.build \in Builds)
BY UpdateAssumptions DEF BundleT, Bundle, NoBundle

\* No journal is a journal.
LEMMA NothingJournaled ==
  /\ NoJournal \in JournalT /\ NoJournal.old = NoId /\ NoJournal.new = NoId
  /\ NoJournal.attempts = 0 /\ NoJournal.held = FALSE
BY DEF NoJournal, JournalT, MaxAttempts

\* A window moves on.
LEMMA Moved ==
  ASSUME TypeOK, NEW w \in Windows, NEW l \in At, Goto(w, l)
  PROVE  /\ window' \in [Windows -> WindowT]
         /\ window'[w].at = l /\ window'[w].target = window[w].target
         /\ window'[w].build = window[w].build /\ window'[w].tx = window[w].tx
         /\ \A v \in Windows : v # w => window'[v] = window[v]
<1>1. window \in [Windows -> WindowT]  BY TypesAre
<1>2. PICK r \in WindowT : r = window[w]  BY <1>1
<1>3. PICK s : s = [r EXCEPT !.at = l]  OBVIOUS
<1>4. s \in WindowT /\ s.at = l /\ s.target = r.target /\ s.build = r.build /\ s.tx = r.tx
  BY <1>2, <1>3 DEF WindowT
<1>5. window' = [window EXCEPT ![w] = s]  BY <1>2, <1>3 DEF Goto
<1> QED  BY <1>1, <1>2, <1>4, <1>5

\* A window leaves the lock to others.
LEMMA Left ==
  ASSUME TypeOK, NEW w \in Windows, Leave(w)
  PROVE  /\ window' \in [Windows -> WindowT] /\ window'[w].at = "up" /\ lock' = NoWindow
         /\ \A v \in Windows : v # w => window'[v] = window[v]
<1>1. window \in [Windows -> WindowT]  BY TypesAre
<1>2. PICK r \in WindowT : r = window[w]  BY <1>1
<1>3. PICK s : s = [r EXCEPT !.at = "up", !.target = NoBuild, !.tx = NoBuild]  OBVIOUS
<1>4. s \in WindowT /\ s.at = "up"  BY <1>2, <1>3 DEF WindowT, At
<1>5. window' = [window EXCEPT ![w] = s]  BY <1>2, <1>3 DEF Leave
<1> QED  BY <1>1, <1>2, <1>4, <1>5 DEF Leave

-----------------------------------------------------------------------------
\* Whoever moves past the lock is alone there.
LEMMA HolderMoves ==
  ASSUME IInv, NEW w \in Windows, window[w].at \notin Free, NEW l \in At \ Free,
         Goto(w, l), lock' = lock, Seen(w)'
  PROVE  window' \in [Windows -> WindowT] /\ LockHeld' /\ Holding'
<1>1. TypeOK  BY DEF IInv
<1>2. /\ window' \in [Windows -> WindowT] /\ window'[w].at = l
      /\ \A v \in Windows : v # w => window'[v] = window[v]
  BY <1>1, Moved
<1>3. lock = w /\ \A v \in Windows : v # w => window[v].at \in Free
  BY DEF IInv, LockHeld
<1>4. LockHeld'  BY <1>2, <1>3 DEF LockHeld
<1>5. ASSUME NEW v \in Windows, v # w  PROVE Seen(v)'
  <2>1. window'[v].at \in Free  BY <1>2, <1>3, <1>5
  <2> QED  BY <2>1 DEF Seen, Free
<1> QED  BY <1>2, <1>4, <1>5 DEF Holding

\* Whoever leaves it leaves it to anybody.
LEMMA HolderLeaves ==
  ASSUME IInv, NEW w \in Windows, window[w].at \notin Free, Leave(w)
  PROVE  /\ window' \in [Windows -> WindowT] /\ lock' = NoWindow
         /\ LockHeld' /\ Holding'
<1>1. TypeOK  BY DEF IInv
<1>2. /\ window' \in [Windows -> WindowT] /\ window'[w].at = "up" /\ lock' = NoWindow
      /\ \A v \in Windows : v # w => window'[v] = window[v]
  BY <1>1, Left
<1>3. lock = w /\ \A v \in Windows : v # w => window[v].at \in Free
  BY DEF IInv, LockHeld
<1>4. \A v \in Windows : window'[v].at \in Free  BY <1>2, <1>3 DEF Free
<1>5. LockHeld'  BY <1>2, <1>4, UpdateAssumptions DEF LockHeld
<1>6. Holding'  BY <1>4 DEF Holding, Seen, Free
<1> QED  BY <1>2, <1>5, <1>6

\* A reconciliation is done, or goes on to the transaction it was asked for.
LEMMA HolderIsReconciled ==
  ASSUME IInv, NEW w \in Windows, window[w].at \notin Free, Reconciled(w)
  PROVE  /\ window' \in [Windows -> WindowT] /\ lock' \in Windows \cup {NoWindow}
         /\ LockHeld' /\ Holding'
<1>1. TypeOK  BY DEF IInv
<1>2. CASE window[w].target = NoBuild
  BY <1>2, HolderLeaves DEF Reconciled
<1>3. CASE window[w].target # NoBuild
  <2>1. Goto(w, "begin") /\ lock' = lock  BY <1>3 DEF Reconciled
  <2>2. "begin" \in At \ Free  BY DEF At, Free
  <2>3. window'[w].at = "begin" /\ window'[w].target = window[w].target
    BY <1>1, <2>1, <2>2, Moved
  <2>4. window[w].target \in Builds
    <3>1. window \in [Windows -> WindowT]  BY <1>1, TypesAre
    <3> QED  BY <1>3, <3>1 DEF WindowT
  <2>5. Seen(w)'  BY <2>3, <2>4 DEF Seen
  <2> QED  BY <1>1, <2>1, <2>2, <2>5, HolderMoves, TypesAre
<1> QED  BY <1>2, <1>3

\* What no step of a window's own moves changes.
LEMMA DiskStays ==
  ASSUME IInv, UNCHANGED <<disk, certified, tries>>, starts' <= launches'
  PROVE  Counts' /\ FallbackKept' /\ Exchanged' = Exchanged /\ Journaled' = Journaled
BY DEF IInv, Counts, FallbackKept, Exchanged, Journaled, disk

\* A refusal or a failure leaves the disk as it was found.
LEMMA LeavesAsFound ==
  ASSUME IInv, NEW w \in Windows, window[w].at \notin Free, Leave(w),
         UNCHANGED <<disk, history, bounds>>
  PROVE  IInv'
<1>1. window' \in [Windows -> WindowT] /\ lock' = NoWindow /\ LockHeld' /\ Holding'
  BY HolderLeaves
<1>2. TypeOK'
  BY <1>1, TypesAre, TypesAreNext DEF IInv, disk, history, bounds
<1>3. Counts' /\ FallbackKept'
  BY DiskStays DEF IInv, Counts, history, bounds
<1> QED  BY <1>1, <1>2, <1>3 DEF IInv

\* So does whoever finds nothing of its own to settle.
LEMMA ReconciledAsFound ==
  ASSUME IInv, NEW w \in Windows, window[w].at \notin Free, Reconciled(w),
         UNCHANGED <<disk, history, bounds>>
  PROVE  IInv'
<1>1. window' \in [Windows -> WindowT] /\ lock' \in Windows \cup {NoWindow} /\ LockHeld' /\ Holding'
  BY HolderIsReconciled
<1>2. TypeOK'
  BY <1>1, TypesAre, TypesAreNext DEF IInv, disk, history, bounds
<1>3. Counts' /\ FallbackKept'
  BY DiskStays DEF IInv, Counts, history, bounds
<1> QED  BY <1>1, <1>2, <1>3 DEF IInv

\* The holder has looked, and what it saw is so.
LEMMA MovesAsFound ==
  ASSUME IInv, NEW w \in Windows, window[w].at \notin Free, NEW l \in At \ Free, Goto(w, l),
         lock' = lock, UNCHANGED <<disk, history, bounds>>, Seen(w)'
  PROVE  IInv'
<1>1. window' \in [Windows -> WindowT] /\ LockHeld' /\ Holding'
  BY HolderMoves
<1>2. TypeOK'
  BY <1>1, TypesAre, TypesAreNext DEF IInv, disk, history, bounds
<1>3. Counts' /\ FallbackKept'
  BY DiskStays DEF IInv, Counts, history, bounds
<1> QED  BY <1>1, <1>2, <1>3 DEF IInv

-----------------------------------------------------------------------------
\* A start runs what is installed, and is counted for the transaction that put it there.
LEMMA LaunchKeeps ==
  ASSUME IInv, NEW w \in Windows, Launch(w)
  PROVE  IInv'
<1> PICK b : b = IF install = NoBundle THEN 0 ELSE install.build  OBVIOUS
<1>1. /\ window[w].at = "dead" /\ launches < MaxLaunches /\ launches' = launches + 1
      /\ window' = [window EXCEPT ![w] = [Gone EXCEPT !.at = "start", !.build = b]]
      /\ starts' = IF Exchanged /\ b = journal.to THEN starts + 1 ELSE starts
      /\ UNCHANGED <<disk, lock, certified, tries, replaced, legacy>>
  BY DEF Launch
<1>2. window \in [Windows -> WindowT] /\ install \in BundleT  BY TypesAre DEF IInv
<1>3. b \in Builds  BY <1>2, BundleIds, UpdateAssumptions DEF Builds
<1>4. PICK s : s = [Gone EXCEPT !.at = "start", !.build = b]  OBVIOUS
<1>5. s \in WindowT /\ s.at = "start"  BY <1>3, <1>4 DEF Gone, WindowT, At
<1>6. window' = [window EXCEPT ![w] = s]  BY <1>1, <1>4
<1>7. /\ window' \in [Windows -> WindowT] /\ window'[w].at = "start"
      /\ \A v \in Windows : v # w => window'[v] = window[v]
  BY <1>2, <1>5, <1>6
<1>8. /\ starts' <= launches' /\ launches' \in 0 .. MaxLaunches /\ starts' \in 0 .. MaxLaunches
  <2>1. /\ starts <= launches /\ starts \in 0 .. MaxLaunches /\ launches \in 0 .. MaxLaunches
        /\ MaxLaunches \in Nat
    BY UpdateAssumptions DEF IInv, Counts, TypeOK
  <2> QED  BY <1>1, <2>1
<1>9. TypeOK'  BY <1>1, <1>7, <1>8, TypesAre, TypesAreNext DEF IInv, disk
<1>10. /\ Counts' /\ FallbackKept' /\ Exchanged' = Exchanged /\ Journaled' = Journaled
  BY <1>1, <1>8, DiskStays
<1>11. LockHeld'
  <2>1. lock # w  BY <1>1 DEF IInv, LockHeld, Free
  <2> QED  BY <1>1, <1>7, <2>1 DEF IInv, LockHeld, Free
<1>12. Holding'
  <2> SUFFICES ASSUME NEW v \in Windows  PROVE Seen(v)'
    BY DEF Holding
  <2>1. CASE v = w  BY <1>7, <2>1 DEF Seen
  <2>2. CASE v # w
    <3>1. Seen(v) /\ window'[v] = window[v]  BY <1>7, <2>2 DEF IInv, Holding
    <3> QED  BY <1>1, <1>10, <3>1 DEF Seen, disk
  <2> QED  BY <2>1, <2>2
<1> QED  BY <1>9, <1>10, <1>11, <1>12 DEF IInv

\* A process dies at any point, and the lock with it.
LEMMA DieKeeps ==
  ASSUME IInv, NEW w \in Windows, Die(w)
  PROVE  IInv'
<1>1. /\ window' = [window EXCEPT ![w] = Gone] /\ lock' = IF lock = w THEN NoWindow ELSE lock
      /\ UNCHANGED <<disk, history, bounds>>
  BY DEF Die
<1>2. window \in [Windows -> WindowT] /\ lock \in Windows \cup {NoWindow}  BY TypesAre DEF IInv
<1>3. /\ window' \in [Windows -> WindowT] /\ window'[w].at = "dead"
      /\ \A v \in Windows : v # w => window'[v] = window[v]
  <2>1. Gone \in WindowT /\ Gone.at = "dead"  BY DEF Gone, WindowT, At
  <2> QED  BY <1>1, <1>2, <2>1
<1>4. TypeOK'  BY <1>1, <1>2, <1>3, TypesAre, TypesAreNext DEF IInv, disk, history, bounds
<1>5. /\ Counts' /\ FallbackKept' /\ Exchanged' = Exchanged /\ Journaled' = Journaled
  BY <1>1, DiskStays DEF IInv, Counts, history, bounds
<1>6. LockHeld'
  BY <1>1, <1>2, <1>3, UpdateAssumptions DEF IInv, LockHeld, Free
<1>7. Holding'
  <2> SUFFICES ASSUME NEW v \in Windows  PROVE Seen(v)'
    BY DEF Holding
  <2>1. CASE v = w  BY <1>3, <2>1 DEF Seen
  <2>2. CASE v # w
    <3>1. Seen(v) /\ window'[v] = window[v]  BY <1>3, <2>2 DEF IInv, Holding
    <3> QED  BY <1>1, <1>5, <3>1 DEF Seen, disk, history
  <2> QED  BY <2>1, <2>2
<1> QED  BY <1>4, <1>5, <1>6, <1>7 DEF IInv

\* A window that found the lock taken settles nothing.
LEMMA SkipReconcileKeeps ==
  ASSUME IInv, NEW w \in Windows, SkipReconcile(w)
  PROVE  IInv'
<1>1. /\ window[w].at = "start" /\ Goto(w, "up") /\ lock' = lock
      /\ UNCHANGED <<disk, history, bounds>>
  BY DEF SkipReconcile
<1>2. TypeOK /\ "up" \in At  BY DEF IInv, At
<1>3. /\ window' \in [Windows -> WindowT] /\ window'[w].at = "up"
      /\ \A v \in Windows : v # w => window'[v] = window[v]
  BY <1>1, <1>2, Moved
<1>4. TypeOK'  BY <1>1, <1>2, <1>3, TypesAre, TypesAreNext DEF disk, history, bounds
<1>5. /\ Counts' /\ FallbackKept' /\ Exchanged' = Exchanged /\ Journaled' = Journaled
  BY <1>1, DiskStays DEF IInv, Counts, history, bounds
<1>6. LockHeld'
  <2>1. lock # w  BY <1>1 DEF IInv, LockHeld, Free
  <2> QED  BY <1>1, <1>3, <2>1 DEF IInv, LockHeld, Free
<1>7. Holding'
  <2> SUFFICES ASSUME NEW v \in Windows  PROVE Seen(v)'
    BY DEF Holding
  <2>1. CASE v = w  BY <1>3, <2>1 DEF Seen
  <2>2. CASE v # w
    <3>1. Seen(v) /\ window'[v] = window[v]  BY <1>3, <2>2 DEF IInv, Holding
    <3> QED  BY <1>1, <1>5, <3>1 DEF Seen, disk, history
  <2> QED  BY <2>1, <2>2
<1> QED  BY <1>4, <1>5, <1>6, <1>7 DEF IInv

\* The lock is taken, and nothing has been seen yet.
LEMMA TakenKeeps ==
  ASSUME IInv, NEW w \in Windows, lock = NoWindow, lock' = w,
         window' \in [Windows -> WindowT], window'[w].at \in {"look", "certify"},
         \A v \in Windows : v # w => window'[v] = window[v],
         UNCHANGED <<disk, history, bounds>>
  PROVE  IInv'
<1>1. TypeOK'  BY TypesAre, TypesAreNext DEF IInv, disk, history, bounds
<1>2. Counts' /\ FallbackKept'
  BY DiskStays DEF IInv, Counts, history, bounds
<1>3. \A v \in Windows : window[v].at \in Free
  BY UpdateAssumptions DEF IInv, LockHeld
<1>4. LockHeld'  BY <1>3 DEF LockHeld, Free
<1>5. Holding'
  <2> SUFFICES ASSUME NEW v \in Windows  PROVE Seen(v)'
    BY DEF Holding
  <2>1. window'[v].at \in Free \cup {"look", "certify"}  BY <1>3
  <2> QED  BY <2>1 DEF Seen, Free
<1> QED  BY <1>1, <1>2, <1>4, <1>5 DEF IInv

\* A window starting, dying or waiting for the lock keeps the invariant (updater.go, lock.go).
LEMMA WindowStepKeeps ==
  ASSUME IInv, NEW w \in Windows, WindowStep(w)
  PROVE  IInv'
<1>1. TypeOK  BY DEF IInv
<1>2. ASSUME NEW l \in {"look", "certify"}, Take(w, l), UNCHANGED <<disk, history, bounds>>
      PROVE  IInv'
  <2>1. l \in At /\ Goto(w, l) /\ lock = NoWindow /\ lock' = w  BY <1>2 DEF At, Take
  <2>2. /\ window' \in [Windows -> WindowT] /\ window'[w].at = l
        /\ \A v \in Windows : v # w => window'[v] = window[v]
    BY <1>1, <2>1, Moved
  <2> QED  BY <1>2, <2>1, <2>2, TakenKeeps
<1>3. CASE StartReconcile(w)  BY <1>2, <1>3 DEF StartReconcile
<1>4. CASE BeginReport(w)  BY <1>2, <1>4 DEF BeginReport
<1>5. ASSUME NEW b \in Builds, BeginApply(w, b)  PROVE IInv'
  <2>1. /\ lock = NoWindow /\ lock' = w /\ UNCHANGED <<disk, history, bounds>>
        /\ window' = [window EXCEPT ![w].at = "look", ![w].target = b]
    BY <1>5 DEF BeginApply
  <2>2. window \in [Windows -> WindowT]  BY <1>1, TypesAre
  <2>3. PICK r \in WindowT : r = window[w]  BY <2>2
  <2>4. PICK s : s = [r EXCEPT !.at = "look", !.target = b]  OBVIOUS
  <2>5. s \in WindowT /\ s.at = "look"  BY <2>3, <2>4 DEF WindowT, At
  <2>6. window' = [window EXCEPT ![w] = s]  BY <2>1, <2>3, <2>4
  <2>7. /\ window' \in [Windows -> WindowT] /\ window'[w].at = "look"
        /\ \A v \in Windows : v # w => window'[v] = window[v]
    BY <2>2, <2>5, <2>6
  <2> QED  BY <2>1, <2>7, TakenKeeps
<1> QED
  BY <1>3, <1>4, <1>5, LaunchKeeps, DieKeeps, SkipReconcileKeeps DEF WindowStep

-----------------------------------------------------------------------------
\* What is written under the lock keeps its type.
DiskTyped ==
  /\ install \in BundleT /\ swap \in BundleT /\ backup \in BundleT
  /\ extracts \subseteq Builds /\ journal \in JournalT
  /\ certified \in BOOLEAN /\ tries \in 0 .. MaxAttempts /\ starts \in 0 .. MaxLaunches

\* The holder writes and moves on.
LEMMA HolderWrites ==
  ASSUME IInv, NEW w \in Windows, window[w].at \notin Free, NEW l \in At \ Free, Goto(w, l),
         UNCHANGED <<lock, bounds>>, Seen(w)', DiskTyped', Counts', FallbackKept'
  PROVE  IInv'
<1>1. window' \in [Windows -> WindowT] /\ LockHeld' /\ Holding'
  BY HolderMoves
<1>2. TypeOK'
  BY <1>1, TypesAre, TypesAreNext DEF IInv, DiskTyped, bounds
<1> QED  BY <1>1, <1>2 DEF IInv

\* The holder writes and is done.
LEMMA HolderWritesLast ==
  ASSUME IInv, NEW w \in Windows, window[w].at \notin Free, Leave(w) \/ Reconciled(w),
         UNCHANGED bounds, DiskTyped', Counts', FallbackKept'
  PROVE  IInv'
<1>1. /\ window' \in [Windows -> WindowT] /\ lock' \in Windows \cup {NoWindow}
      /\ LockHeld' /\ Holding'
  BY HolderLeaves, HolderIsReconciled
<1>2. TypeOK'
  BY <1>1, TypesAre, TypesAreNext DEF IInv, DiskTyped, bounds
<1> QED  BY <1>1, <1>2 DEF IInv

\* A launch of the installed build is counted, and the third is taken back.
LEMMA CountLaunchKeeps ==
  ASSUME IInv, NEW w \in Windows, CountLaunch(w)
  PROVE  IInv'
<1> PICK b : b = window[w].build  OBVIOUS
<1> PICK n : n = OneMore(IF journal.owner = b THEN journal.attempts ELSE 0)  OBVIOUS
<1>1. /\ window[w].at = "look" /\ Exchanged /\ ~journal.held /\ b = journal.to
      /\ journal' = [journal EXCEPT !.attempts = n, !.owner = b]
      /\ IF n >= MaxAttempts THEN Goto(w, "roll") /\ UNCHANGED lock ELSE Reconciled(w)
      /\ tries' = OneMore(tries)
      /\ UNCHANGED <<install, swap, backup, extracts, certified, starts, bounds>>
  BY DEF CountLaunch, RunsInstalledBuild
<1>2. /\ journal \in JournalT /\ window \in [Windows -> WindowT] /\ tries \in 0 .. MaxAttempts
      /\ b \in Builds \cup {NoBuild} /\ TypeOK
  <2>1. journal \in JournalT /\ window \in [Windows -> WindowT] /\ tries \in 0 .. MaxAttempts
    BY TypesAre DEF IInv
  <2>2. window[w] \in WindowT  BY <2>1
  <2> QED  BY <2>1, <2>2 DEF WindowT, IInv
<1>3. journal.attempts \in 0 .. MaxAttempts /\ (journal.owner = b => journal.attempts <= tries)
  BY <1>1, <1>2 DEF JournalT, IInv, Counts
<1>4. n \in 0 .. MaxAttempts /\ n <= tries' /\ tries' \in 0 .. MaxAttempts
  BY <1>1, <1>2, <1>3 DEF OneMore, MaxAttempts
<1>5. /\ journal' \in JournalT /\ journal'.old = journal.old /\ journal'.new = journal.new
      /\ journal'.to = journal.to /\ journal'.attempts = n /\ journal'.owner = b
      /\ ~journal'.held
  BY <1>1, <1>2, <1>4 DEF JournalT
<1>6. Exchanged'
  <2>1. journal'.new # journal'.old  BY <1>1, <1>5 DEF Exchanged
  <2>2. Journaled'  BY <2>1, NothingJournaled DEF Journaled
  <2> QED  BY <1>1, <1>5, <2>1, <2>2 DEF Exchanged
<1>7. Counts'
  BY <1>1, <1>4, <1>5, <1>6 DEF IInv, Counts, Exchanged, bounds
<1>8. FallbackKept'  BY <1>1, <1>5 DEF IInv, FallbackKept
<1>9. DiskTyped'  BY <1>1, <1>4, <1>5, TypesAre DEF IInv, DiskTyped
<1>10. CASE n >= MaxAttempts
  <2>1. "roll" \in At \ Free /\ window[w].at \notin Free  BY <1>1 DEF At, Free
  <2>2. window'[w].at = "roll"  BY <1>1, <1>2, <1>10, <2>1, Moved
  <2>3. tries' = MaxAttempts  BY <1>4, <1>10 DEF MaxAttempts
  <2>4. Seen(w)'  BY <1>5, <1>6, <2>2, <2>3 DEF Seen
  <2> QED  BY <1>1, <1>7, <1>8, <1>9, <1>10, <2>1, <2>4, HolderWrites
<1>11. CASE ~(n >= MaxAttempts)
  <2>1. window[w].at \notin Free  BY <1>1 DEF Free
  <2> QED  BY <1>1, <1>7, <1>8, <1>9, <1>11, <2>1, HolderWritesLast
<1> QED  BY <1>10, <1>11

\* With the journal gone nothing is on trial.
LEMMA Forgotten ==
  ASSUME IInv, Forget, UNCHANGED <<install, swap, backup, bounds>>, extracts' \subseteq Builds
  PROVE  DiskTyped' /\ Counts' /\ FallbackKept' /\ ~Exchanged' /\ ~Journaled'
<1>1. ~Journaled' /\ ~Exchanged'  BY DEF Forget, Journaled, Exchanged
<1>2. DiskTyped'
  <2>1. 0 \in 0 .. MaxLaunches /\ 0 \in 0 .. MaxAttempts
    BY UpdateAssumptions DEF MaxAttempts
  <2> QED  BY <2>1, NothingJournaled, TypesAre DEF IInv, DiskTyped, Forget
<1>3. Counts'
  <2>1. launches \in Nat  BY UpdateAssumptions DEF IInv, TypeOK
  <2> QED  BY <1>1, <2>1, NothingJournaled DEF Counts, Forget, bounds
<1>4. FallbackKept'  BY <1>1 DEF FallbackKept
<1> QED  BY <1>1, <1>2, <1>3, <1>4

\* Each step of Reconcile keeps the invariant, the ones that undo an update included.
LEMMA ReconcileStepKeeps ==
  ASSUME IInv, NEW w \in Windows, ReconcileStep(w)
  PROVE  IInv'
<1>1. TypeOK /\ Seen(w) /\ DiskTyped  BY TypesAre DEF IInv, Holding, DiskTyped
<1>2. CASE NoTransaction(w)
  <2>1. /\ window[w].at \notin Free /\ "debrisSwap" \in At \ Free /\ Goto(w, "debrisSwap")
        /\ ~Journaled /\ lock' = lock /\ UNCHANGED <<disk, history, bounds>>
    BY <1>2 DEF NoTransaction, At, Free
  <2>2. window'[w].at = "debrisSwap" /\ ~Journaled'  BY <1>1, <2>1, Moved DEF Journaled, disk
  <2>3. Seen(w)'  BY <2>2 DEF Seen
  <2> QED  BY <2>1, <2>3, MovesAsFound
<1>3. CASE Unexplained(w)  BY <1>3, LeavesAsFound DEF Unexplained, Free
<1>4. CASE NotExchanged(w)
  <2>1. /\ window[w].at \notin Free /\ "clean" \in At \ Free /\ Goto(w, "clean")
        /\ install.id = journal.old /\ lock' = lock /\ UNCHANGED <<disk, history, bounds>>
    BY <1>4 DEF NotExchanged, At, Free
  <2>2. window'[w].at = "clean" /\ ~Exchanged'  BY <1>1, <2>1, Moved DEF Exchanged, disk
  <2>3. Seen(w)'  BY <2>2 DEF Seen
  <2> QED  BY <2>1, <2>3, MovesAsFound
<1>5. CASE LeavePending(w)  BY <1>5, ReconciledAsFound DEF LeavePending, Free
<1>6. CASE CountLaunch(w)  BY <1>6, CountLaunchKeeps
<1>7. CASE CleanSwap(w)
  <2>1. /\ window[w].at \notin Free /\ "cleanExtract" \in At \ Free /\ Goto(w, "cleanExtract")
        /\ swap' = NoBundle /\ ~Exchanged
        /\ UNCHANGED <<install, backup, extracts, journal, lock, history, bounds>>
    BY <1>1, <1>7 DEF CleanSwap, At, Free, Seen
  <2>2. window'[w].at = "cleanExtract" /\ ~Exchanged'
    BY <1>1, <2>1, Moved DEF Exchanged, Journaled
  <2>3. Seen(w)' /\ FallbackKept'  BY <2>2 DEF Seen, FallbackKept
  <2>4. Counts'  BY <2>1 DEF IInv, Counts, Journaled, history, bounds
  <2>5. DiskTyped'  BY <1>1, <2>1 DEF DiskTyped, BundleT, history
  <2> QED  BY <2>1, <2>3, <2>4, <2>5, HolderWrites
<1>8. CASE CleanExtract(w)
  <2>1. /\ window[w].at \notin Free /\ "cleanJournal" \in At \ Free /\ Goto(w, "cleanJournal")
        /\ extracts' \subseteq extracts /\ ~Exchanged
        /\ UNCHANGED <<install, swap, backup, journal, lock, history, bounds>>
    BY <1>1, <1>8 DEF CleanExtract, At, Free, Seen
  <2>2. window'[w].at = "cleanJournal" /\ ~Exchanged'
    BY <1>1, <2>1, Moved DEF Exchanged, Journaled
  <2>3. Seen(w)' /\ FallbackKept'  BY <2>2 DEF Seen, FallbackKept
  <2>4. Counts'  BY <2>1 DEF IInv, Counts, Journaled, history, bounds
  <2>5. DiskTyped'  BY <1>1, <2>1 DEF DiskTyped, history
  <2> QED  BY <2>1, <2>3, <2>4, <2>5, HolderWrites
<1>9. CASE CleanJournal(w)
  <2>1. /\ window[w].at \notin Free /\ Forget /\ Reconciled(w)
        /\ UNCHANGED <<install, swap, backup, extracts, bounds>> /\ extracts' \subseteq Builds
    BY <1>1, <1>9 DEF CleanJournal, Free, DiskTyped
  <2> QED  BY <2>1, Forgotten, HolderWritesLast
<1>10. CASE DebrisSwap(w)
  <2>1. /\ window[w].at \notin Free /\ "debrisBackup" \in At \ Free /\ Goto(w, "debrisBackup")
        /\ swap' \in {swap, NoBundle} /\ ~Journaled
        /\ UNCHANGED <<install, backup, extracts, journal, lock, history, bounds>>
    BY <1>1, <1>10 DEF DebrisSwap, At, Free, Seen
  <2>2. window'[w].at = "debrisBackup" /\ ~Journaled'
    BY <1>1, <2>1, Moved DEF Journaled
  <2>3. Seen(w)' /\ FallbackKept'  BY <2>2 DEF Seen, FallbackKept, Exchanged
  <2>4. Counts'  BY <2>1 DEF IInv, Counts, Journaled, history, bounds
  <2>5. DiskTyped'  BY <1>1, <2>1 DEF DiskTyped, BundleT, history
  <2> QED  BY <2>1, <2>3, <2>4, <2>5, HolderWrites
<1>11. CASE DebrisBackup(w)
  <2>1. /\ window[w].at \notin Free /\ Reconciled(w)
        /\ backup' \in {backup, NoBundle}
        /\ UNCHANGED <<install, swap, extracts, journal, history, bounds>>
    BY <1>11 DEF DebrisBackup, Free
  <2>2. FallbackKept' /\ Counts'
    BY <2>1 DEF IInv, FallbackKept, Counts, Exchanged, Journaled, history, bounds
  <2>3. DiskTyped'  BY <1>1, <2>1 DEF DiskTyped, BundleT, history
  <2> QED  BY <2>1, <2>2, <2>3, HolderWritesLast
<1>12. CASE CannotRollBack(w)  BY <1>12, LeavesAsFound DEF CannotRollBack, Free
<1>13. CASE RollBack(w)
  <2> PICK to : to = journal.to  OBVIOUS
  <2>1. /\ window[w].at = "roll" /\ journal.old # NoId /\ swap # NoBundle
        /\ install' = swap /\ swap' = install
        /\ window' = [window EXCEPT ![w].at = "rolled", ![w].tx = to]
        /\ UNCHANGED <<backup, extracts, journal, lock, history, bounds>>
    BY <1>13 DEF RollBack
  <2>2. Exchanged  BY <1>1, <2>1 DEF Seen
  <2>3. swap.id = journal.old  BY <2>1, <2>2 DEF IInv, FallbackKept
  <2>4. ~Exchanged'  BY <2>1, <2>3 DEF Exchanged
  <2>5. /\ window' \in [Windows -> WindowT] /\ window'[w].at = "rolled"
        /\ \A v \in Windows : v # w => window'[v] = window[v]
    <3>1. window \in [Windows -> WindowT] /\ journal \in JournalT  BY <1>1, TypesAre
    <3>2. PICK r \in WindowT : r = window[w]  BY <3>1
    <3>3. PICK s : s = [r EXCEPT !.at = "rolled", !.tx = to]  OBVIOUS
    <3>4. to \in Builds \cup {NoBuild}  BY <3>1 DEF JournalT
    <3>5. s \in WindowT /\ s.at = "rolled"  BY <3>2, <3>3, <3>4 DEF WindowT, At
    <3>6. window' = [window EXCEPT ![w] = s]  BY <2>1, <3>2, <3>3
    <3> QED  BY <3>1, <3>5, <3>6
  <2>6. lock = w /\ \A v \in Windows : v # w => window[v].at \in Free
    BY <2>1 DEF IInv, LockHeld, Free
  <2>7. LockHeld'  BY <2>1, <2>5, <2>6 DEF LockHeld, Free
  <2>8. Holding'
    <3> SUFFICES ASSUME NEW v \in Windows  PROVE Seen(v)'
      BY DEF Holding
    <3>1. window'[v].at \in Free \cup {"rolled"}  BY <2>5, <2>6
    <3> QED  BY <2>4, <3>1 DEF Seen, Free
  <2>9. TypeOK'
    BY <1>1, <2>1, <2>5, TypesAre, TypesAreNext DEF history, bounds
  <2>10. Counts' /\ FallbackKept'
    BY <2>1, <2>4 DEF IInv, Counts, FallbackKept, Journaled, history, bounds
  <2> QED  BY <2>7, <2>8, <2>9, <2>10 DEF IInv
<1>14. CASE RolledBack(w)
  <2>1. /\ window[w].at \notin Free /\ "rolledExtract" \in At \ Free /\ Forget
        /\ Goto(w, "rolledExtract")
        /\ UNCHANGED <<install, swap, backup, extracts, lock, bounds>> /\ extracts' \subseteq Builds
    BY <1>1, <1>14 DEF RolledBack, At, Free, DiskTyped
  <2>2. window'[w].at = "rolledExtract"  BY <1>1, <2>1, Moved
  <2>3. Seen(w)'  BY <2>2 DEF Seen
  <2> QED  BY <2>1, <2>3, Forgotten, HolderWrites
<1>15. CASE RolledBackExtract(w)
  <2>1. /\ window[w].at \notin Free /\ Reconciled(w)
        /\ extracts' \subseteq extracts
        /\ UNCHANGED <<install, swap, backup, journal, history, bounds>>
    BY <1>15 DEF RolledBackExtract, Free
  <2>2. FallbackKept' /\ Counts'
    BY <2>1 DEF IInv, FallbackKept, Counts, Exchanged, Journaled, history, bounds
  <2>3. DiskTyped'  BY <1>1, <2>1 DEF DiskTyped, history
  <2> QED  BY <2>1, <2>2, <2>3, HolderWritesLast
<1> QED
  BY <1>2, <1>3, <1>4, <1>5, <1>6, <1>7, <1>8, <1>9, <1>10, <1>11, <1>12, <1>13, <1>14, <1>15
  DEF ReconcileStep

-----------------------------------------------------------------------------
\* Each step of Apply keeps it, from the journal entry through the exchange to its tidying.
LEMMA ApplyStepKeeps ==
  ASSUME IInv, NEW w \in Windows, ApplyStep(w)
  PROVE  IInv'
<1>1. TypeOK /\ Seen(w) /\ DiskTyped  BY TypesAre DEF IInv, Holding, DiskTyped
<1>2. window[w].target \in Builds \cup {NoBuild} /\ journal \in JournalT
  <2>1. window \in [Windows -> WindowT] /\ journal \in JournalT  BY <1>1, TypesAre
  <2> QED  BY <2>1 DEF WindowT
<1>3. CASE Fail(w)  BY <1>3, LeavesAsFound DEF Fail, Free
<1>4. CASE RefuseInFlight(w)  BY <1>4, LeavesAsFound DEF RefuseInFlight, Free
<1>5. CASE WriteJournal(w)
  <2> PICK b : b = window[w].target  OBVIOUS
  <2>1. /\ window[w].at \notin Free /\ "extract" \in At \ Free /\ Goto(w, "extract")
        /\ ~Journaled /\ b \in Builds
        /\ journal' = [NoJournal EXCEPT !.old = install.id, !.to = b]
        /\ UNCHANGED <<install, swap, backup, extracts, lock, history, bounds>>
    BY <1>1, <1>5 DEF WriteJournal, At, Free, Seen
  <2>2. install.id \in Ids \cup {NoId}  BY <1>1, BundleIds DEF DiskTyped
  <2>3. /\ journal' \in JournalT /\ journal'.old = install.id /\ journal'.new = NoId
        /\ journal'.to = b /\ journal'.attempts = 0
    BY <2>1, <2>2, NothingJournaled DEF JournalT
  <2>4. ~Exchanged' /\ Journaled'
    <3>1. journal'.to # NoBuild  BY <2>1, <2>3, UpdateAssumptions DEF Builds, NoBuild
    <3>2. Journaled'  BY <3>1 DEF Journaled, NoJournal
    <3> QED  BY <2>1, <2>3, <3>2 DEF Exchanged
  <2>5. ~certified /\ tries = 0  BY <2>1 DEF IInv, Counts
  <2>6. window'[w].at = "extract" /\ window'[w].target \in Builds  BY <1>1, <2>1, Moved
  <2>7. Seen(w)'  BY <2>1, <2>3, <2>4, <2>5, <2>6 DEF Seen, history
  <2>8. Counts'
    BY <1>1, <2>1, <2>3, <2>4 DEF DiskTyped, IInv, Counts, history, bounds
  <2>9. FallbackKept' /\ DiskTyped'
    BY <1>1, <2>1, <2>3, <2>4 DEF FallbackKept, DiskTyped, history
  <2> QED  BY <2>1, <2>7, <2>8, <2>9, HolderWrites
<1>6. CASE MakeExtractDir(w)
  <2>1. /\ window[w].at \notin Free /\ "fetch" \in At \ Free /\ Goto(w, "fetch")
        /\ extracts' = extracts \cup {window[w].target} /\ window[w].target \in Builds
        /\ Journaled /\ ~Exchanged /\ journal.new = NoId /\ ~certified /\ tries = 0
        /\ UNCHANGED <<install, swap, backup, journal, lock, history, bounds>>
    BY <1>1, <1>6 DEF MakeExtractDir, At, Free, Seen
  <2>2. window'[w].at = "fetch" /\ window'[w].target \in Builds /\ ~Exchanged' /\ Journaled'
    BY <1>1, <2>1, Moved DEF Exchanged, Journaled
  <2>3. Seen(w)' /\ FallbackKept'  BY <2>1, <2>2 DEF Seen, FallbackKept, history
  <2>4. Counts' /\ DiskTyped'
    BY <1>1, <2>1 DEF IInv, Counts, DiskTyped, Journaled, history, bounds
  <2> QED  BY <2>1, <2>3, <2>4, HolderWrites
<1>7. CASE Fetch(w)
  <2>1. /\ window[w].at \notin Free /\ "stage" \in At \ Free /\ Goto(w, "stage")
        /\ swap' = NoBundle /\ window[w].target \in Builds
        /\ Journaled /\ ~Exchanged /\ journal.new = NoId /\ ~certified /\ tries = 0
        /\ UNCHANGED <<install, backup, extracts, journal, lock, history, bounds>>
    BY <1>1, <1>7 DEF Fetch, At, Free, Seen
  <2>2. window'[w].at = "stage" /\ window'[w].target \in Builds /\ ~Exchanged' /\ Journaled'
    BY <1>1, <2>1, Moved DEF Exchanged, Journaled
  <2>3. Seen(w)' /\ FallbackKept'  BY <2>1, <2>2 DEF Seen, FallbackKept, history
  <2>4. Counts' /\ DiskTyped'
    BY <1>1, <2>1 DEF IInv, Counts, DiskTyped, Journaled, BundleT, history, bounds
  <2> QED  BY <2>1, <2>3, <2>4, HolderWrites
<1>8. CASE Stage(w)
  <2> PICK b : b = window[w].target  OBVIOUS
  <2>1. /\ window[w].at \notin Free /\ "record" \in At \ Free /\ Goto(w, "record")
        /\ b \in Builds /\ Journaled /\ ~Exchanged /\ journal.new = NoId
        /\ ~certified /\ tries = 0
        /\ UNCHANGED <<install, backup, extracts, journal, lock, history, bounds>>
    BY <1>1, <1>8 DEF Stage, At, Free, Seen
  <2>2. PICK i \in Ids : Unused(i) /\ swap' = [id |-> i, build |-> b]
    BY <1>8 DEF Stage
  <2>3. swap' \in Bundle /\ swap'.id = i /\ swap' # NoBundle /\ i # install.id
    BY <2>1, <2>2, UpdateAssumptions DEF Bundle, NoBundle, Unused
  <2>4. window'[w].at = "record" /\ window'[w].target \in Builds /\ ~Exchanged' /\ Journaled'
    BY <1>1, <2>1, Moved DEF Exchanged, Journaled
  <2>5. Seen(w)' /\ FallbackKept'  BY <2>1, <2>3, <2>4 DEF Seen, FallbackKept, history
  <2>6. Counts' /\ DiskTyped'
    BY <1>1, <2>1, <2>3 DEF IInv, Counts, DiskTyped, Journaled, BundleT, history, bounds
  <2> QED  BY <2>1, <2>5, <2>6, HolderWrites
<1>9. CASE RecordNew(w)
  <2> PICK i : i = swap.id  OBVIOUS
  <2>1. /\ window[w].at \notin Free /\ "exchange" \in At \ Free /\ Goto(w, "exchange")
        /\ window[w].target \in Builds /\ Journaled /\ ~certified /\ tries = 0
        /\ swap # NoBundle /\ i # install.id
        /\ journal' = [journal EXCEPT !.new = i]
        /\ UNCHANGED <<install, swap, backup, extracts, lock, history, bounds>>
    BY <1>1, <1>9 DEF RecordNew, At, Free, Seen
  <2>2. i \in Ids  BY <1>1, <2>1, BundleIds DEF DiskTyped
  <2>3. /\ journal' \in JournalT /\ journal'.new = i /\ journal'.owner = journal.owner
        /\ journal'.to = journal.to /\ journal'.attempts = journal.attempts
    BY <1>2, <2>1, <2>2 DEF JournalT
  <2>4. ~Exchanged' /\ Journaled'
    <3>1. i # NoId  BY <2>2, UpdateAssumptions
    <3>2. Journaled'  BY <2>3, <3>1, NothingJournaled DEF Journaled
    <3> QED  BY <2>1, <2>3, <3>2 DEF Exchanged
  <2>5. window'[w].at = "exchange" /\ window'[w].target \in Builds
    BY <1>1, <2>1, Moved
  <2>6. Seen(w)' /\ FallbackKept'
    BY <2>1, <2>3, <2>4, <2>5 DEF Seen, FallbackKept, history
  <2>7. Counts'  BY <2>1, <2>3, <2>4 DEF IInv, Counts, history, bounds
  <2>8. DiskTyped'  BY <1>1, <2>1, <2>3 DEF DiskTyped, history
  <2> QED  BY <2>1, <2>6, <2>7, <2>8, HolderWrites
<1>10. CASE RefuseChanged(w)  BY <1>10, LeavesAsFound DEF RefuseChanged, Free
<1>11. CASE Exchange(w)
  <2>1. /\ window[w].at \notin Free /\ "tidy" \in At \ Free /\ Goto(w, "tidy")
        /\ window[w].target \in Builds
        /\ install.id = journal.old /\ install' = swap /\ swap' = install
        /\ UNCHANGED <<backup, extracts, journal, lock, history, bounds>>
    BY <1>1, <1>11 DEF Exchange, At, Free, Seen
  <2>2. window'[w].at = "tidy" /\ window'[w].target \in Builds
    BY <1>1, <2>1, Moved
  <2>3. Seen(w)' /\ FallbackKept'  BY <2>1, <2>2 DEF Seen, FallbackKept
  <2>4. Counts' /\ DiskTyped'
    BY <1>1, <2>1 DEF IInv, Counts, DiskTyped, Journaled, history, bounds
  <2> QED  BY <2>1, <2>3, <2>4, HolderWrites
<1>12. CASE Tidy(w)
  <2>1. /\ window[w].at \notin Free /\ Leave(w) /\ extracts' \subseteq extracts
        /\ UNCHANGED <<install, swap, backup, journal, history, bounds>>
    BY <1>12 DEF Tidy, Free
  <2>2. FallbackKept' /\ Counts'
    BY <2>1 DEF IInv, FallbackKept, Counts, Exchanged, Journaled, history, bounds
  <2>3. DiskTyped'  BY <1>1, <2>1 DEF DiskTyped, history
  <2> QED  BY <2>1, <2>2, <2>3, HolderWritesLast
<1> QED
  BY <1>3, <1>4, <1>5, <1>6, <1>7, <1>8, <1>9, <1>10, <1>11, <1>12 DEF ApplyStep

-----------------------------------------------------------------------------
\* Each step of ReportHealthy keeps it: the trial ends before the fallback may go.
LEMMA ReportStepKeeps ==
  ASSUME IInv, NEW w \in Windows, ReportStep(w)
  PROVE  IInv'
<1>1. TypeOK /\ Seen(w) /\ DiskTyped  BY TypesAre DEF IInv, Holding, DiskTyped
<1>2. CASE NothingToReport(w)  BY <1>2, LeavesAsFound DEF NothingToReport, Free
<1>3. CASE RefusePair(w)  BY <1>3, LeavesAsFound DEF RefusePair, Free
<1>4. CASE HoldPair(w)
  <2> PICK b : b = window[w].build  OBVIOUS
  <2>1. /\ window[w].at \notin Free /\ Leave(w) /\ AtNew
        /\ journal' = [journal EXCEPT !.held = TRUE, !.attempts = 0, !.owner = b]
        /\ tries' = 0
        /\ UNCHANGED <<install, swap, backup, extracts, certified, starts, bounds>>
    BY <1>4 DEF HoldPair, Free
  <2>2. b \in Builds \cup {NoBuild} /\ journal \in JournalT
    <3>1. window \in [Windows -> WindowT] /\ journal \in JournalT  BY <1>1, TypesAre
    <3> QED  BY <3>1 DEF WindowT
  <2>3. /\ journal' \in JournalT /\ journal'.attempts = 0 /\ journal'.held = TRUE
        /\ journal'.old = journal.old /\ journal'.new = journal.new
        /\ journal'.to = journal.to
    <3>1. PICK held \in BOOLEAN : held = TRUE  OBVIOUS
    <3>2. PICK none \in 0 .. MaxAttempts : none = 0  BY DEF MaxAttempts
    <3>3. journal' = [journal EXCEPT !.held = held, !.attempts = none, !.owner = b]
      BY <2>1, <3>1, <3>2
    <3>4. /\ journal' \in JournalT /\ journal'.attempts = none /\ journal'.held = held
          /\ journal'.old = journal.old /\ journal'.new = journal.new
          /\ journal'.to = journal.to
      BY <2>2, <3>3 DEF JournalT
    <3> QED  BY <3>1, <3>2, <3>4
  <2>4. Journaled'  BY <2>3, NothingJournaled DEF Journaled
  <2>5. Counts'
    <3>1. /\ tries' = 0 /\ starts' = starts /\ launches' = launches
          /\ starts <= launches /\ journal.to \in Builds
      BY <2>1 DEF IInv, Counts, AtNew, bounds
    <3> QED  BY <2>3, <2>4, <3>1 DEF Counts
  <2>6. FallbackKept'
    BY <2>1, <2>3 DEF IInv, FallbackKept, Exchanged, AtNew
  <2>7. DiskTyped'  BY <1>1, <2>1, <2>3 DEF DiskTyped, MaxAttempts
  <2> QED  BY <2>1, <2>5, <2>6, <2>7, HolderWritesLast
<1>5. CASE Certify(w)
  <2>1. /\ window[w].at \notin Free /\ "oldBackup" \in At \ Free /\ Goto(w, "oldBackup")
        /\ AtNew /\ certified' = TRUE
        /\ UNCHANGED <<disk, lock, tries, starts, bounds>>
    BY <1>5 DEF Certify, At, Free
  <2>2. window'[w].at = "oldBackup"  BY <1>1, <2>1, Moved
  <2>3. Seen(w)'  BY <2>1, <2>2 DEF Seen
  <2>4. Counts' /\ FallbackKept' /\ DiskTyped'
    BY <1>1, <2>1
    DEF IInv, Counts, FallbackKept, DiskTyped, Exchanged, AtNew, Journaled, disk, bounds
  <2> QED  BY <2>1, <2>3, <2>4, HolderWrites DEF disk
<1>6. CASE DropOldBackup(w)
  <2>1. /\ window[w].at \notin Free /\ "retain" \in At \ Free /\ Goto(w, "retain")
        /\ backup' \in {backup, NoBundle} /\ certified
        /\ UNCHANGED <<install, swap, extracts, journal, lock, history, bounds>>
    BY <1>1, <1>6 DEF DropOldBackup, At, Free, Seen
  <2>2. window'[w].at = "retain"  BY <1>1, <2>1, Moved
  <2>3. Seen(w)'  BY <2>1, <2>2 DEF Seen, history
  <2>4. Counts' /\ FallbackKept' /\ DiskTyped'
    BY <1>1, <2>1
    DEF IInv, Counts, FallbackKept, DiskTyped, BundleT, Exchanged, Journaled, history, bounds
  <2> QED  BY <2>1, <2>3, <2>4, HolderWrites
<1>7. CASE Retain(w)
  <2>1. /\ window[w].at \notin Free /\ "finish" \in At \ Free /\ Goto(w, "finish")
        /\ swap' \in {swap, NoBundle} /\ backup' \in {backup, swap, NoBundle} /\ certified
        /\ UNCHANGED <<install, extracts, journal, lock, history, bounds>>
    BY <1>1, <1>7 DEF Retain, At, Free, Seen
  <2>2. window'[w].at = "finish"  BY <1>1, <2>1, Moved
  <2>3. Seen(w)'  BY <2>1, <2>2 DEF Seen, history
  <2>4. Counts' /\ FallbackKept'
    BY <2>1 DEF IInv, Counts, FallbackKept, Exchanged, Journaled, history, bounds
  <2>5. DiskTyped'  BY <1>1, <2>1 DEF DiskTyped, BundleT, history
  <2> QED  BY <2>1, <2>3, <2>4, <2>5, HolderWrites
<1>8. CASE Finish(w)
  <2>1. /\ window[w].at \notin Free /\ Forget /\ Leave(w)
        /\ UNCHANGED <<install, swap, backup, extracts, bounds>> /\ extracts' \subseteq Builds
    BY <1>1, <1>8 DEF Finish, Free, DiskTyped
  <2> QED  BY <2>1, Forgotten, HolderWritesLast
<1> QED
  BY <1>2, <1>3, <1>4, <1>5, <1>6, <1>7, <1>8 DEF ReportStep

-----------------------------------------------------------------------------
\* A build that counted every read gives the count away: whoever counts next starts over.
LEMMA LegacyReadKeeps ==
  ASSUME IInv, NEW w \in Windows, LegacyRead(w)
  PROVE  IInv'
<1>1. /\ lock = NoWindow /\ Exchanged /\ legacy < MaxLegacy /\ legacy' = legacy + 1
      /\ journal.attempts + 1 < MaxAttempts
      /\ UNCHANGED <<install, swap, backup, extracts, window, lock, history, launches, replaced>>
  BY DEF LegacyRead
<1>2. journal \in JournalT /\ window \in [Windows -> WindowT]  BY TypesAre DEF IInv
<1>3. PICK n : n = journal.attempts + 1  OBVIOUS
<1>4. n \in 0 .. MaxAttempts  BY <1>1, <1>2, <1>3 DEF JournalT, MaxAttempts
<1>5. journal' = [journal EXCEPT !.attempts = n, !.owner = NoBuild]  BY <1>2, <1>3 DEF LegacyRead, JournalT
<1>6. /\ journal' \in JournalT /\ journal'.old = journal.old /\ journal'.new = journal.new
      /\ journal'.to = journal.to /\ journal'.owner = NoBuild
  BY <1>2, <1>4, <1>5 DEF JournalT
<1>7. Exchanged' = Exchanged /\ Journaled'
  <2>1. journal'.new # journal'.old  BY <1>1, <1>6 DEF Exchanged
  <2>2. Journaled'  BY <2>1, NothingJournaled DEF Journaled
  <2> QED  BY <1>1, <1>6, <2>2 DEF Exchanged
<1>8. Counts' /\ FallbackKept'
  <2>1. journal.to \in Builds /\ journal.to # NoBuild
    BY <1>1, UpdateAssumptions DEF IInv, Counts, Exchanged, Builds, NoBuild
  <2> QED  BY <1>1, <1>6, <1>7, <2>1 DEF IInv, Counts, FallbackKept, history
<1>9. TypeOK'
  <2>1. legacy' \in 0 .. MaxLegacy  BY <1>1, UpdateAssumptions DEF IInv, TypeOK
  <2> QED  BY <1>1, <1>6, <2>1, TypesAre, TypesAreNext DEF IInv, history
<1>10. \A v \in Windows : window[v].at \in Free
  BY <1>1, UpdateAssumptions DEF IInv, LockHeld
<1>11. LockHeld' /\ Holding'
  BY <1>1, <1>10 DEF IInv, LockHeld, Holding, Seen, Free
<1> QED  BY <1>8, <1>9, <1>11 DEF IInv

\* Another hand puts a bundle of its own at the install path: nothing is on trial there.
LEMMA ReplacedByHandKeeps ==
  ASSUME IInv, NEW i \in Ids, NEW b \in Builds, ReplacedByHand(i, b)
  PROVE  IInv'
<1>1. /\ replaced < MaxReplaced /\ replaced' = replaced + 1
      /\ Unused(i) /\ i \notin {journal.old, journal.new}
      /\ \A w \in Windows : window[w].at # "roll"
      /\ install' = [id |-> i, build |-> b]
      /\ UNCHANGED <<swap, backup, extracts, journal, window, lock, history, launches, legacy>>
  BY DEF ReplacedByHand
<1>2. install' \in Bundle /\ install'.id = i  BY <1>1 DEF Bundle
<1>3. ~Exchanged' /\ Journaled' = Journaled /\ i # swap.id
  BY <1>1, <1>2 DEF Exchanged, Journaled, Unused
<1>4. TypeOK'
  <2>1. replaced' \in 0 .. MaxReplaced  BY <1>1, UpdateAssumptions DEF IInv, TypeOK
  <2> QED  BY <1>1, <1>2, <2>1, TypesAre, TypesAreNext DEF IInv, BundleT, history
<1>5. Counts' /\ FallbackKept'
  BY <1>1, <1>3 DEF IInv, Counts, FallbackKept, history
<1>6. LockHeld'  BY <1>1 DEF IInv, LockHeld
<1>7. Holding'
  <2> SUFFICES ASSUME NEW v \in Windows  PROVE Seen(v)'
    BY DEF Holding
  <2>1. Seen(v) /\ window' = window  BY <1>1 DEF IInv, Holding
  <2> QED  BY <1>1, <1>2, <1>3, <2>1 DEF Seen, history
<1> QED  BY <1>4, <1>5, <1>6, <1>7 DEF IInv

\* At first nothing is journaled, and every window is dead.
LEMMA InitHolds ==
  Init => IInv
<1> SUFFICES ASSUME Init  PROVE IInv
  OBVIOUS
<1>1. /\ 0 \in 0 .. MaxLaunches /\ 0 \in 0 .. MaxReplaced /\ 0 \in 0 .. MaxLegacy
      /\ 0 \in 0 .. MaxAttempts
  BY UpdateAssumptions DEF MaxAttempts
<1>2. /\ Gone \in WindowT /\ Gone.at = "dead" /\ window = [w \in Windows |-> Gone]
      /\ install \in BundleT /\ NoBundle \in BundleT
  BY UpdateAssumptions DEF Init, Gone, WindowT, At, BundleT, Bundle, Builds
<1>3. TypeOK  BY <1>1, <1>2, NothingJournaled, TypesAre DEF Init
<1>4. ~Journaled /\ ~Exchanged  BY DEF Init, Journaled, Exchanged
<1>5. Counts
  <2>1. journal.attempts = 0 /\ tries = 0 /\ starts = 0 /\ launches = 0 /\ ~certified
    BY NothingJournaled DEF Init
  <2> QED  BY <1>4, <2>1 DEF Counts
<1>6. FallbackKept  BY <1>4 DEF FallbackKept
<1>7. LockHeld  BY <1>2, UpdateAssumptions DEF Init, LockHeld, Free
<1>8. Holding  BY <1>2 DEF Holding, Seen
<1> QED  BY <1>3, <1>5, <1>6, <1>7, <1>8 DEF IInv

\* No step of any window, and no hand at the install path, breaks it.
LEMMA StepKeeps ==
  IInv /\ [Next]_vars => IInv'
<1> SUFFICES ASSUME IInv, [Next]_vars  PROVE IInv'
  OBVIOUS
<1>1. ASSUME NEW w \in Windows,
             WindowStep(w) \/ ReconcileStep(w) \/ ApplyStep(w) \/ ReportStep(w) \/ LegacyRead(w)
      PROVE  IInv'
  BY <1>1, WindowStepKeeps, ReconcileStepKeeps, ApplyStepKeeps, ReportStepKeeps, LegacyReadKeeps
<1>2. ASSUME NEW i \in Ids, NEW b \in Builds, ReplacedByHand(i, b)  PROVE IInv'
  BY <1>2, ReplacedByHandKeeps
<1>3. CASE UNCHANGED vars
  BY <1>3 DEF vars, disk, history, bounds, IInv, TypeOK, LockHeld, Counts, FallbackKept, Holding,
     Seen, Exchanged, Journaled
<1> QED  BY <1>1, <1>2, <1>3 DEF Next

\* The invariant of the transaction, for any windows and however often they die.
THEOREM UpdateInvariant == Spec => []IInv
<1> QED  BY InitHolds, StepKeeps, PTL DEF Spec

\* Until the installed build is certified the bundle it replaced is where a rollback looks
\* for it, whatever died in between (Apply, Reconcile, ReportHealthy).
THEOREM AlwaysRecoverable == Spec => []Recoverable
<1>1. IInv => Recoverable
  BY DEF IInv, FallbackKept, Recoverable, RollbackCopyKept
<1> QED  BY <1>1, UpdateInvariant, PTL

-----------------------------------------------------------------------------
\* Only three steps change the install path.
LEMMA InstallChanges ==
  ASSUME [Next]_vars
  PROVE  \/ install' = install
         \/ \E w \in Windows : RollBack(w) \/ Exchange(w)
         \/ \E i \in Ids, b \in Builds : ReplacedByHand(i, b)
<1>1. ASSUME NEW w \in Windows, WindowStep(w)  PROVE install' = install
  BY <1>1 DEF WindowStep, Launch, Die, SkipReconcile, StartReconcile, BeginApply, BeginReport, disk
<1>2. ASSUME NEW w \in Windows, ReconcileStep(w), ~RollBack(w)  PROVE install' = install
  BY <1>2 DEF ReconcileStep, NoTransaction, Unexplained, NotExchanged, LeavePending, CountLaunch,
     CleanSwap, CleanExtract, CleanJournal, DebrisSwap, DebrisBackup, CannotRollBack, RolledBack,
     RolledBackExtract, disk
<1>3. ASSUME NEW w \in Windows, ApplyStep(w), ~Exchange(w)  PROVE install' = install
  BY <1>3 DEF ApplyStep, Fail, RefuseInFlight, WriteJournal, MakeExtractDir, Fetch, Stage,
     RecordNew, RefuseChanged, Tidy, disk
<1>4. ASSUME NEW w \in Windows, ReportStep(w)  PROVE install' = install
  BY <1>4 DEF ReportStep, NothingToReport, RefusePair, HoldPair, Certify, DropOldBackup, Retain,
     Finish, disk
<1>5. ASSUME NEW w \in Windows, LegacyRead(w)  PROVE install' = install
  BY <1>5 DEF LegacyRead
<1>6. CASE UNCHANGED vars  BY <1>6 DEF vars, disk
<1> QED  BY <1>1, <1>2, <1>3, <1>4, <1>5, <1>6 DEF Next

\* What the journal of a transaction names becomes the installed bundle by an exchange
\* only, never because the journal changes.
LEMMA NotByTheJournal ==
  ASSUME IInv, [Next]_vars, Journaled, ~Exchanged, install' = install
  PROVE  ~Exchanged'
<1>0. TypeOK /\ journal \in JournalT  BY TypesAre DEF IInv
<1>1. CASE journal' = journal  BY <1>1 DEF Exchanged, Journaled
<1>2. CASE journal' = NoJournal  BY <1>2 DEF Exchanged, Journaled
<1>3. CASE journal'.old = journal.old /\ journal'.new = journal.new
  BY <1>3 DEF Exchanged
<1>4. ASSUME NEW w \in Windows, WindowStep(w)  PROVE journal' = journal
  BY <1>4 DEF WindowStep, Launch, Die, SkipReconcile, StartReconcile, BeginApply, BeginReport, disk
<1>5. ASSUME NEW w \in Windows, ReconcileStep(w)
      PROVE  journal' = journal \/ journal' = NoJournal
  BY <1>5 DEF ReconcileStep, NoTransaction, Unexplained, NotExchanged, LeavePending, CountLaunch,
     CleanSwap, CleanExtract, CleanJournal, DebrisSwap, DebrisBackup, CannotRollBack, RollBack,
     RolledBack, RolledBackExtract, Forget, disk
<1>6. ASSUME NEW w \in Windows, ApplyStep(w)
      PROVE  journal' = journal \/ ~Exchanged'
  <2>1. CASE RecordNew(w)
    <3>1. swap.id # install.id  BY <2>1 DEF RecordNew, IInv, Holding, Seen
    <3>2. journal'.new = swap.id  BY <1>0, <2>1 DEF RecordNew, JournalT
    <3> QED  BY <3>1, <3>2 DEF Exchanged
  <2>2. CASE ~RecordNew(w)
    BY <1>6, <2>2 DEF ApplyStep, Fail, RefuseInFlight, WriteJournal, MakeExtractDir, Fetch, Stage,
       RefuseChanged, Exchange, Tidy, disk
  <2> QED  BY <2>1, <2>2
<1>7. ASSUME NEW w \in Windows, ReportStep(w)
      PROVE  \/ journal' = journal \/ journal' = NoJournal
             \/ journal'.old = journal.old /\ journal'.new = journal.new
  <2>1. CASE HoldPair(w)
    <3>1. PICK t, n, b : journal' = [journal EXCEPT !.held = t, !.attempts = n, !.owner = b]
      BY <2>1 DEF HoldPair
    <3> QED  BY <1>0, <3>1 DEF JournalT
  <2>2. CASE ~HoldPair(w)
    BY <1>7, <2>2 DEF ReportStep, NothingToReport, RefusePair, Certify, DropOldBackup, Retain,
       Finish, Forget, disk
  <2> QED  BY <2>1, <2>2
<1>8. ASSUME NEW w \in Windows, LegacyRead(w)  PROVE FALSE
  BY <1>8 DEF LegacyRead
<1>9. ASSUME NEW i \in Ids, NEW b \in Builds, ReplacedByHand(i, b)  PROVE journal' = journal
  BY <1>9 DEF ReplacedByHand
<1>10. CASE UNCHANGED vars  BY <1>10, <1>1 DEF vars, disk
<1> QED  BY <1>1, <1>2, <1>3, <1>4, <1>5, <1>6, <1>7, <1>8, <1>9, <1>10 DEF Next

\* An update is taken back at the third reconciliation in which the build it installed
\* found it neither finalised nor held (reconcileLocked, rollback): a count another build
\* wrote takes no part in it.  What was taken back is not exchanged in again.
THEOREM TakenBackOnTheThird == Spec => RollbackAfterThreeTries
<1>1. IInv /\ [Next]_vars =>
        /\ Exchanged /\ install'.id = journal.old => tries = MaxAttempts /\ ~journal.held
        /\ Journaled /\ ~Exchanged /\ Exchanged' => tries = 0
  <2>1. ASSUME IInv, [Next]_vars, Exchanged, install'.id = journal.old
        PROVE  tries = MaxAttempts /\ ~journal.held
    <3>1. install' # install  BY <2>1 DEF Exchanged
    <3>2. ASSUME NEW w \in Windows, RollBack(w)  PROVE tries = MaxAttempts /\ ~journal.held
      BY <2>1, <3>2 DEF RollBack, IInv, Holding, Seen
    <3>3. ASSUME NEW w \in Windows, Exchange(w)  PROVE FALSE
      BY <2>1, <3>3 DEF Exchange, Exchanged
    <3>4. ASSUME NEW i \in Ids, NEW b \in Builds, ReplacedByHand(i, b)  PROVE FALSE
      BY <2>1, <3>4 DEF ReplacedByHand
    <3> QED  BY <2>1, <3>1, <3>2, <3>3, <3>4, InstallChanges
  <2>2. ASSUME IInv, [Next]_vars, Journaled, ~Exchanged, Exchanged'
        PROVE  tries = 0
    <3>1. CASE install' = install
      BY <2>2, <3>1, NotByTheJournal
    <3>2. ASSUME NEW w \in Windows, RollBack(w)  PROVE tries = 0
      BY <2>2, <3>2 DEF RollBack, IInv, Holding, Seen
    <3>3. ASSUME NEW w \in Windows, Exchange(w)  PROVE tries = 0
      BY <2>2, <3>3 DEF Exchange, IInv, Holding, Seen
    <3>4. ASSUME NEW i \in Ids, NEW b \in Builds, ReplacedByHand(i, b)  PROVE FALSE
      BY <2>2, <3>4 DEF ReplacedByHand, Exchanged
    <3> QED  BY <2>2, <3>1, <3>2, <3>3, <3>4, InstallChanges
  <2> QED  BY <2>1, <2>2
<1> QED  BY <1>1, UpdateInvariant, PTL DEF Spec, RollbackAfterThreeTries

-----------------------------------------------------------------------------
\* A step that leaves what is installed, whether it is on trial and its fallback alone.
LEMMA TrialStutters ==
  ASSUME install' = install, (Exchanged' <=> Exchanged), Exchanged => certified' = certified,
         Exchanged => swap' = swap, replaced' = replaced
  PROVE  UNCHANGED Trial!vars
<1>1. CASE Exchanged  BY <1>1 DEF Trial!vars
<1>2. CASE ~Exchanged  BY <1>2 DEF Trial!vars
<1> QED  BY <1>1, <1>2

\* A window's life and death change nothing a trial speaks of.
LEMMA WindowStepIsTrial ==
  ASSUME IInv, NEW w \in Windows, WindowStep(w)
  PROVE  UNCHANGED Trial!vars
<1>1. UNCHANGED <<disk, certified, replaced>>
  BY DEF WindowStep, Launch, Die, SkipReconcile, StartReconcile, BeginApply, BeginReport,
     history, bounds
<1> QED  BY <1>1, TrialStutters DEF disk, Exchanged, Journaled

\* A step of Reconcile is a rollback of the trial, or nothing the trial speaks of.
LEMMA ReconcileStepIsTrial ==
  ASSUME IInv, NEW w \in Windows, ReconcileStep(w)
  PROVE  [Trial!Next]_Trial!vars
<1>1. TypeOK /\ Seen(w)  BY DEF IInv, Holding
<1>0. replaced' = replaced
  BY DEF ReconcileStep, NoTransaction, Unexplained, NotExchanged, LeavePending, CountLaunch,
     CleanSwap, CleanExtract, CleanJournal, DebrisSwap, DebrisBackup, CannotRollBack, RollBack,
     RolledBack, RolledBackExtract, bounds
<1>2. CASE NoTransaction(w) \/ Unexplained(w) \/ NotExchanged(w) \/ LeavePending(w)
             \/ CleanExtract(w) \/ DebrisBackup(w) \/ CannotRollBack(w) \/ RolledBackExtract(w)
  <2>1. UNCHANGED <<install, swap, journal, certified>>
    BY <1>2 DEF NoTransaction, Unexplained, NotExchanged, LeavePending, CleanExtract,
       DebrisBackup, CannotRollBack, RolledBackExtract, disk, history
  <2> QED  BY <2>1, <1>0, TrialStutters DEF Exchanged, Journaled
<1>3. CASE CountLaunch(w)
  <2>1. /\ UNCHANGED <<install, swap, certified>> /\ Exchanged
        /\ journal'.old = journal.old /\ journal'.new = journal.new
    <3>1. journal \in JournalT  BY <1>1, TypesAre
    <3>2. PICK n, b : journal' = [journal EXCEPT !.attempts = n, !.owner = b]
      BY <1>3 DEF CountLaunch
    <3> QED  BY <1>3, <3>1, <3>2 DEF CountLaunch, JournalT
  <2>2. Exchanged'
    <3>1. journal'.new # journal'.old  BY <2>1 DEF Exchanged
    <3>2. Journaled'  BY <3>1, NothingJournaled DEF Journaled
    <3> QED  BY <2>1, <3>1, <3>2 DEF Exchanged
  <2> QED  BY <2>1, <2>2, <1>0, TrialStutters
<1>4. CASE CleanSwap(w)
  <2>1. ~Exchanged /\ UNCHANGED <<install, journal>>  BY <1>1, <1>4 DEF CleanSwap, Seen
  <2> QED  BY <2>1, <1>0, TrialStutters DEF Exchanged, Journaled
<1>5. CASE CleanJournal(w) \/ RolledBack(w)
  <2>1. ~Exchanged /\ install' = install /\ Forget
    BY <1>1, <1>5 DEF CleanJournal, RolledBack, Seen
  <2>2. ~Exchanged'  BY <2>1 DEF Forget, Exchanged, Journaled
  <2> QED  BY <2>1, <2>2, <1>0, TrialStutters
<1>6. CASE DebrisSwap(w)
  <2>1. ~Exchanged /\ UNCHANGED <<install, journal>>
    BY <1>1, <1>6 DEF DebrisSwap, Seen, Exchanged
  <2> QED  BY <2>1, <1>0, TrialStutters DEF Exchanged, Journaled
<1>7. CASE RollBack(w)
  <2>1. /\ install' = swap /\ swap # NoBundle /\ journal' = journal /\ journal.old # NoId
        /\ Exchanged
    BY <1>1, <1>7 DEF RollBack, Seen
  <2>2. swap.id = journal.old  BY <2>1 DEF IInv, FallbackKept
  <2>3. ~Exchanged'  BY <2>1, <2>2 DEF Exchanged
  <2>4. swap.build # NoBuild
    <3>1. swap.build \in Builds  BY <1>1, <2>1, BundleIds, TypesAre
    <3> QED  BY <3>1, UpdateAssumptions DEF Builds, NoBuild
  <2>5. Trial!RollBack  BY <1>0, <2>1, <2>3, <2>4 DEF Trial!RollBack
  <2> QED  BY <2>5 DEF Trial!Next
<1> QED
  BY <1>2, <1>3, <1>4, <1>5, <1>6, <1>7 DEF ReconcileStep

\* A step of Apply is the installation of a new build, or nothing: only the exchange counts.
LEMMA ApplyStepIsTrial ==
  ASSUME IInv, NEW w \in Windows, ApplyStep(w)
  PROVE  [Trial!Next]_Trial!vars
<1>1. TypeOK /\ Seen(w)  BY DEF IInv, Holding
<1>0. replaced' = replaced
  BY DEF ApplyStep, Fail, RefuseInFlight, WriteJournal, MakeExtractDir, Fetch, Stage,
     RecordNew, RefuseChanged, Exchange, Tidy, bounds
<1>2. CASE Fail(w) \/ RefuseInFlight(w) \/ MakeExtractDir(w) \/ RefuseChanged(w) \/ Tidy(w)
  <2>1. UNCHANGED <<install, swap, journal, certified>>
    BY <1>2 DEF Fail, RefuseInFlight, MakeExtractDir, RefuseChanged, Tidy, disk, history
  <2> QED  BY <2>1, <1>0, TrialStutters DEF Exchanged, Journaled
<1>3. CASE WriteJournal(w)
  <2>1. ~Exchanged /\ install' = install  BY <1>3 DEF WriteJournal, Exchanged
  <2>2. PICK t : journal' = [NoJournal EXCEPT !.old = install.id, !.to = t]
    BY <1>3 DEF WriteJournal
  <2>3. journal'.old = install.id  BY <2>2 DEF NoJournal
  <2>4. ~Exchanged'  BY <2>1, <2>3 DEF Exchanged
  <2> QED  BY <2>1, <2>4, <1>0, TrialStutters
<1>4. CASE Fetch(w) \/ Stage(w)
  <2>1. ~Exchanged /\ UNCHANGED <<install, journal>>
    BY <1>1, <1>4 DEF Fetch, Stage, Seen
  <2> QED  BY <2>1, <1>0, TrialStutters DEF Exchanged, Journaled
<1>5. CASE RecordNew(w)
  <2>1. ~Exchanged /\ install' = install /\ swap.id # install.id
    BY <1>1, <1>5 DEF RecordNew, Seen
  <2>2. journal \in JournalT /\ journal' = [journal EXCEPT !.new = swap.id]
    BY <1>1, <1>5, TypesAre DEF RecordNew
  <2>3. journal'.new = swap.id  BY <2>2 DEF JournalT
  <2>4. ~Exchanged'  BY <2>1, <2>3 DEF Exchanged
  <2> QED  BY <2>1, <2>4, <1>0, TrialStutters
<1>6. CASE Exchange(w)
  <2>1. /\ install.id = journal.old /\ install' = swap /\ swap' = install
        /\ journal' = journal /\ certified' = certified /\ ~certified
        /\ swap # NoBundle /\ swap.id = journal.new /\ swap.id # install.id
    BY <1>1, <1>6 DEF Exchange, Seen, history
  <2>2. swap.build \in Builds  BY <1>1, <2>1, BundleIds, TypesAre
  <2>3. ~Exchanged /\ Exchanged'
    <3>1. journal.new # journal.old  BY <2>1
    <3>2. Journaled  BY <3>1, NothingJournaled DEF Journaled
    <3> QED  BY <2>1, <3>1, <3>2 DEF Exchanged, Journaled
  <2>4. Trial!Install(swap.build)  BY <1>0, <2>1, <2>3 DEF Trial!Install
  <2> QED  BY <2>2, <2>4 DEF Trial!Next
<1> QED  BY <1>2, <1>3, <1>4, <1>5, <1>6 DEF ApplyStep

\* A step of ReportHealthy certifies the trial, retires its fallback, ends it, or is nothing.
LEMMA ReportStepIsTrial ==
  ASSUME IInv, NEW w \in Windows, ReportStep(w)
  PROVE  [Trial!Next]_Trial!vars
<1>1. TypeOK /\ Seen(w)  BY DEF IInv, Holding
<1>0. replaced' = replaced
  BY DEF ReportStep, NothingToReport, RefusePair, HoldPair, Certify, DropOldBackup, Retain,
     Finish, bounds
<1>2. CASE NothingToReport(w) \/ RefusePair(w) \/ DropOldBackup(w)
  <2>1. UNCHANGED <<install, swap, journal, certified>>
    BY <1>2 DEF NothingToReport, RefusePair, DropOldBackup, disk, history
  <2> QED  BY <2>1, <1>0, TrialStutters DEF Exchanged, Journaled
<1>3. CASE HoldPair(w)
  <2>1. /\ UNCHANGED <<install, swap, certified>> /\ Journaled
        /\ journal'.old = journal.old /\ journal'.new = journal.new /\ journal'.held = TRUE
    <3>1. journal \in JournalT  BY <1>1, TypesAre
    <3>2. PICK b, none, held :
            /\ journal' = [journal EXCEPT !.held = held, !.attempts = none, !.owner = b]
            /\ held = TRUE
      BY <1>3 DEF HoldPair
    <3>3. /\ journal'.old = journal.old /\ journal'.new = journal.new /\ journal'.held = held
      BY <3>1, <3>2 DEF JournalT
    <3> QED  BY <1>3, <3>2, <3>3 DEF HoldPair, AtNew
  <2>2. Journaled'  BY <2>1, NothingJournaled DEF Journaled
  <2>3. (Exchanged' <=> Exchanged)  BY <2>1, <2>2 DEF Exchanged
  <2> QED  BY <2>1, <2>3, <1>0, TrialStutters
<1>4. CASE Certify(w)
  <2>1. UNCHANGED <<install, swap, journal>> /\ certified' = TRUE
    BY <1>4 DEF Certify, disk
  <2>2. (Exchanged' <=> Exchanged)  BY <2>1 DEF Exchanged, Journaled
  <2>3. CASE Exchanged /\ ~certified
    <3>1. Trial!Certify  BY <1>0, <2>1, <2>2, <2>3 DEF Trial!Certify
    <3> QED  BY <3>1 DEF Trial!Next
  <2>4. CASE ~Exchanged \/ certified
    <3>1. certified \in BOOLEAN  BY <1>1 DEF TypeOK
    <3>2. Exchanged => certified' = certified  BY <2>1, <2>4, <3>1
    <3> QED  BY <2>1, <2>2, <3>2, <1>0, TrialStutters
  <2> QED  BY <2>3, <2>4
<1>5. CASE Retain(w)
  <2>1. /\ UNCHANGED <<install, journal, certified>> /\ certified
        /\ swap' = swap \/ swap' = NoBundle
    BY <1>1, <1>5 DEF Retain, Seen, history
  <2>2. (Exchanged' <=> Exchanged)  BY <2>1 DEF Exchanged, Journaled
  <2>3. CASE ~Exchanged \/ swap' = swap  BY <2>1, <2>2, <2>3, <1>0, TrialStutters
  <2>4. CASE Exchanged /\ swap' = NoBundle
    <3>1. Trial!Retire  BY <1>0, <2>1, <2>2, <2>4 DEF Trial!Retire, NoBundle
    <3> QED  BY <3>1 DEF Trial!Next
  <2> QED  BY <2>1, <2>3, <2>4
<1>6. CASE Finish(w)
  <2>1. install' = install /\ Forget /\ certified  BY <1>1, <1>6 DEF Finish, Seen
  <2>2. ~Exchanged'  BY <2>1 DEF Forget, Exchanged, Journaled
  <2>3. CASE Exchanged
    <3>1. Trial!End  BY <1>0, <2>1, <2>2, <2>3 DEF Trial!End
    <3> QED  BY <3>1 DEF Trial!Next
  <2>4. CASE ~Exchanged  BY <2>1, <2>2, <2>4, <1>0, TrialStutters
  <2> QED  BY <2>3, <2>4
<1> QED  BY <1>2, <1>3, <1>4, <1>5, <1>6 DEF ReportStep

\* An older release's read of the journal is nothing; a bundle put down by hand is a Replace,
\* which counts it.
LEMMA OthersAreTrial ==
  ASSUME IInv,
         \/ \E w \in Windows : LegacyRead(w)
         \/ \E i \in Ids, b \in Builds : ReplacedByHand(i, b)
  PROVE  [Trial!Next]_Trial!vars
<1>1. ASSUME NEW w \in Windows, LegacyRead(w)  PROVE UNCHANGED Trial!vars
  <2>1. Exchanged /\ UNCHANGED <<install, swap, certified, replaced>>
    BY <1>1 DEF LegacyRead, history
  <2>2. journal \in JournalT  BY TypesAre DEF IInv
  <2>3. journal'.old = journal.old /\ journal'.new = journal.new
    BY <1>1, <2>2 DEF LegacyRead, JournalT
  <2>4. Exchanged'
    <3>1. journal'.new # journal'.old  BY <2>1, <2>3 DEF Exchanged
    <3>2. Journaled'  BY <3>1, NothingJournaled DEF Journaled
    <3> QED  BY <2>1, <2>3, <3>1, <3>2 DEF Exchanged
  <2> QED  BY <2>1, <2>4, TrialStutters
<1>2. ASSUME NEW i \in Ids, NEW b \in Builds, ReplacedByHand(i, b)
      PROVE  Trial!Next
  <2>1. install' = [id |-> i, build |-> b] /\ journal' = journal /\ i # journal.new
        /\ replaced' = replaced + 1
    BY <1>2 DEF ReplacedByHand
  <2>2. install'.id = i /\ install'.build = b  BY <2>1
  <2>3. ~Exchanged'  BY <2>1, <2>2 DEF Exchanged
  <2>4. Trial!Replace(b)  BY <2>1, <2>2, <2>3 DEF Trial!Replace
  <2> QED  BY <2>4 DEF Trial!Next
<1> QED  BY <1>1, <1>2

\* Through every crash the update is one atomic replacement on trial, whose build the
\* updater certifies or takes back to its fallback, once, and does nothing else with; only
\* other hands may replace it, and every step of theirs is counted (UpdateTrial).
THEOREM RefinesUpdateTrial == Spec => ImplementsUpdateTrial
<1>1. Init => Trial!Init
  <2> SUFFICES ASSUME Init  PROVE Trial!Init
    OBVIOUS
  <2>1. ~Exchanged /\ replaced = 0  BY DEF Init, Exchanged, Journaled
  <2>2. install.build \in Builds \cup {NoBuild}
    BY UpdateAssumptions DEF Init, NoBundle, Builds
  <2> QED  BY <2>1, <2>2 DEF Trial!Init
<1>2. IInv /\ [Next]_vars => [Trial!Next]_Trial!vars
  <2> SUFFICES ASSUME IInv, [Next]_vars  PROVE [Trial!Next]_Trial!vars
    OBVIOUS
  <2>1. ASSUME NEW w \in Windows, WindowStep(w)  PROVE [Trial!Next]_Trial!vars
    BY <2>1, WindowStepIsTrial
  <2>2. ASSUME NEW w \in Windows, ReconcileStep(w) \/ ApplyStep(w) \/ ReportStep(w)
        PROVE  [Trial!Next]_Trial!vars
    BY <2>2, ReconcileStepIsTrial, ApplyStepIsTrial, ReportStepIsTrial
  <2>3. ASSUME \/ \E w \in Windows : LegacyRead(w)
               \/ \E i \in Ids, b \in Builds : ReplacedByHand(i, b)
        PROVE  [Trial!Next]_Trial!vars
    BY <2>3, OthersAreTrial
  <2>4. CASE UNCHANGED vars
    BY <2>4, TrialStutters DEF vars, disk, history, bounds, Exchanged, Journaled
  <2> QED  BY <2>1, <2>2, <2>3, <2>4 DEF Next
<1> QED  BY <1>1, <1>2, UpdateInvariant, PTL DEF Spec, ImplementsUpdateTrial, Trial!Spec

=============================================================================
