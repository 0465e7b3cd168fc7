--------------------------- MODULE LifecycleFrame ---------------------------
(***************************************************************************)
(* One lifecycle frame, one transaction                                    *)
(* (internal/content/lifecycle_frame.go, with the scope the coordinator    *)
(* applies it in, internal/app/lifecycle_cursor.go, and the queue of what  *)
(* it tells others, internal/lifecyclecommit).                             *)
(*                                                                         *)
(* A coordinator applies the frames of a shell's lifecycle stream one      *)
(* after another.  The projection of a frame writes rows to the store; the *)
(* rows and the cursor past the frame are committed together.  The         *)
(* transaction holds the store's only connection, for a bounded time: the  *)
(* bound's callback rolls it back under the frame.  A transaction that     *)
(* failed is begun again after a pause and the frame's writes are replayed *)
(* into it, a few times at most.  The coordinator may stop or die at any   *)
(* point and the next one resumes at the cursor.                           *)
(*                                                                         *)
(* What is abstracted.  The stream is the frames 1, 2, 3, ...; a frame's   *)
(* writes are numbered, the cursor's is its last one.  What a write is     *)
(* answered depends on what others keep in the store; they may change it   *)
(* whenever the frame does not hold the connection, so each transaction    *)
(* answers a write anew, and may refuse it.  The code runs a write at most *)
(* once in a transaction that lives on.  Nested writes are part of the     *)
(* outermost one.                                                          *)
(* A statement, a savepoint, a BEGIN and a COMMIT may each fail, whatever  *)
(* the cause.  The clock is not modelled: the bound may fire at any time.  *)
(***************************************************************************)
EXTENDS Naturals, Sequences

CONSTANTS
    MaxFrames,      \* bound on the frames of the stream
    MaxWrites,      \* bound on the writes of a frame's projection
    MaxEffects,     \* bound on what a frame has to tell others
    MaxAttempts,    \* lifecycleFrameAttempts: transactions a frame may begin
    Answer          \* what the store may answer to a write of the projection

ASSUME BoundsAssumption ==
    /\ MaxFrames \in Nat /\ MaxWrites \in Nat /\ MaxEffects \in Nat
    /\ MaxAttempts \in Nat \ {0}

ASSUME AnswerAssumption ==
    {"none", "stored", "refused", "diverged", "failed"} \cap Answer = {}

CursorWrite == MaxWrites + 1    \* recordLifecycleApplied

VARIABLES
    \* the database file, and what the world has been told
    rows,       \* what each frame has stored
    cursor,     \* the frames applied, by the session's binding
    told,       \* the last effect that went out: <<frame, number>>
    \* the coordinator
    pc,
    stopping,
    frame,      \* the frame in hand, or the last one it dealt with
    \* the frame's unit of work
    tx,         \* its transaction: "none", "live", or "over", rolled back
    log,        \* what the transaction holds
    failed,     \* the transaction's failure
    dead,       \* the frame's end in failure
    attempts,   \* the transactions it began
    bound,      \* the callback that bounds the transaction's hold
    writes,     \* the writes it made, as answered
    current,    \* the last write it was asked for
    settled,    \* each write's first answer, as its closure keeps it
    resume,     \* where it was when its transaction had to be begun again
    answers,    \* what its projection was answered
    effects     \* what waits for its end

fileVars == <<rows, cursor>>
coordinatorVars == <<stopping, frame>>
memoryVars == <<writes, current, settled, answers>>
vars == <<fileVars, told, pc, coordinatorVars, tx, log, failed, dead, attempts,
          bound, memoryVars, resume, effects>>

Frame == 1 .. MaxFrames
Write == 1 .. CursorWrite
Row(w, a) == [write |-> w, answer |-> a]
RowRecord == [write : Write, answer : Answer \cup {"stored"}]
\* What the store may answer to a write it accepts.
Accepts(w) == IF w = CursorWrite THEN {"stored"} ELSE Answer
Applied(l) == \E i \in DOMAIN l : l[i].write = CursorWrite

\* No frame's unit of work, or one before its first store call.
Blank ==
    /\ tx' = "none" /\ log' = <<>>
    /\ failed' = FALSE /\ dead' = FALSE
    /\ attempts' = 0 /\ bound' = "off"
    /\ writes' = <<>> /\ current' = 0
    /\ settled' = [w \in Write |-> "none"]
    /\ answers' = [w \in Write |-> "none"]
    /\ resume' = "applying" /\ effects' = 0

-----------------------------------------------------------------------------
(* The coordinator: lifecycleCursor.applyFrame and the adapter's pump.     *)

\* A coordinator starts, and resumes the stream at the cursor.
Start ==
    /\ pc = "down"
    /\ pc' = "idle"
    /\ frame' = cursor
    /\ stopping' = FALSE
    /\ UNCHANGED <<fileVars, told, tx, log, failed, dead, attempts, bound,
                   memoryVars, resume, effects>>

\* Its death, at any point, or its exit.  The database rolls back what was
\* not committed; the connection dies with the process.
Die ==
    /\ pc # "down"
    /\ pc' = "down"
    /\ frame' = 0
    /\ stopping' = FALSE
    /\ Blank
    /\ UNCHANGED <<fileVars, told>>

BeginStopping ==
    /\ pc # "down"
    /\ ~stopping
    /\ stopping' = TRUE
    /\ UNCHANGED <<fileVars, told, pc, frame, tx, log, failed, dead, attempts,
                   bound, memoryVars, resume, effects>>

BeginFrame ==
    /\ pc = "idle"
    /\ ~stopping
    /\ frame < MaxFrames
    /\ frame' = frame + 1
    /\ pc' = "applying"
    /\ UNCHANGED <<fileVars, told, stopping, tx, log, failed, dead, attempts,
                   bound, memoryVars, resume, effects>>

\* A frame that arrives after the stop began is left for the next coordinator,
\* and everything behind it.
LeaveFrame ==
    /\ pc = "idle"
    /\ stopping
    /\ pc' = "halted"
    /\ UNCHANGED <<fileVars, told, coordinatorVars, tx, log, failed, dead,
                   attempts, bound, memoryVars, resume, effects>>

-----------------------------------------------------------------------------
(* The frame's projection (apply).                                         *)

\* The projection asks for a write: sqliteContent.run, lifecycleFrame.write.
AskWrite ==
    /\ pc = "applying"
    /\ current < MaxWrites
    /\ current' = current + 1
    /\ pc' = "writing"
    /\ UNCHANGED <<fileVars, told, coordinatorVars, tx, log, failed, dead,
                   attempts, bound, writes, settled, answers, resume, effects>>

\* A read finds the transaction failed and begins it again first (readTx).
Read ==
    /\ pc = "applying"
    /\ failed /\ ~dead
    /\ pc' = "recovering"
    /\ resume' = "applying"
    /\ UNCHANGED <<fileVars, told, coordinatorVars, tx, log, failed, dead,
                   attempts, bound, memoryVars, effects>>

\* lifecyclecommit.After: what the frame tells others waits for its end.
QueueEffectAtOnce ==   \* mutant: sent before the frame is stored
    /\ pc = "applying"
    /\ effects < MaxEffects
    /\ effects' = effects + 1
    /\ told' = <<frame, effects'>>
    /\ UNCHANGED <<fileVars, pc, coordinatorVars, tx, log, failed, dead,
                   attempts, bound, memoryVars, resume>>
QueueEffect ==
    /\ pc = "applying"
    /\ effects < MaxEffects
    /\ effects' = effects + 1
    /\ UNCHANGED <<fileVars, told, pc, coordinatorVars, tx, log, failed, dead,
                   attempts, bound, memoryVars, resume>>

EndProjectionUncursored ==   \* mutant: the cursor is left to be written later
    /\ pc = "applying"
    /\ ~stopping
    /\ pc' = "committing"
    /\ UNCHANGED <<fileVars, told, coordinatorVars, tx, log, failed, dead,
                   attempts, bound, memoryVars, resume, effects>>
\* The projection is done and the cursor is the frame's last write ...
EndProjection ==
    /\ pc = "applying"
    /\ ~stopping
    /\ current' = CursorWrite
    /\ pc' = "writing"
    /\ UNCHANGED <<fileVars, told, coordinatorVars, tx, log, failed, dead,
                   attempts, bound, writes, settled, answers, resume, effects>>

\* ... unless the coordinator began to stop meanwhile: ErrFrameAbandoned.
AbandonFrame ==
    /\ pc = "applying"
    /\ stopping
    /\ dead' = TRUE
    /\ tx' = "none" /\ bound' = "off"
    /\ pc' = "committing"
    /\ UNCHANGED <<fileVars, told, coordinatorVars, log, failed, attempts,
                   memoryVars, resume, effects>>

-----------------------------------------------------------------------------
(* lifecycleFrame.write: one write, in as many runs as it takes.           *)

AfterWrite == IF current = CursorWrite THEN "committing" ELSE "applying"

\* frameAnswer.settle: the closure's answer is its first, or the same again.
Settles(w, a) == settled[w] \in {"none", a}

WriteToDead ==
    /\ pc = "writing"
    /\ dead
    /\ answers' = [answers EXCEPT ![current] = "failed"]
    /\ pc' = AfterWrite
    /\ UNCHANGED <<fileVars, told, coordinatorVars, tx, log, failed, dead,
                   attempts, bound, writes, current, settled, resume, effects>>

WriteBeginsAgain ==
    /\ pc = "writing"
    /\ ~dead
    /\ tx = "none" \/ failed
    /\ pc' = "recovering"
    /\ resume' = "writing"
    /\ UNCHANGED <<fileVars, told, coordinatorVars, tx, log, failed, dead,
                   attempts, bound, memoryVars, effects>>

WriteReady ==
    /\ pc = "writing"
    /\ ~dead /\ ~failed /\ tx # "none"
    /\ pc' = "running"
    /\ UNCHANGED <<fileVars, told, coordinatorVars, tx, log, failed, dead,
                   attempts, bound, memoryVars, resume, effects>>

\* The write's statements run and its answer is settled, its savepoint open.
RunWrite ==
    /\ pc = "running"
    /\ tx = "live"
    /\ \E a \in Accepts(current) :
          /\ Settles(current, a)
          /\ settled' = [settled EXCEPT ![current] = a]
    /\ pc' = "releasing"
    /\ UNCHANGED <<fileVars, told, coordinatorVars, tx, log, failed, dead,
                   attempts, bound, writes, current, answers, resume, effects>>

\* What the store refuses is the write's answer, in a transaction that has not
\* failed, and so is what settles no more.  A refused cursor ends the frame
\* (ErrLifecycleCursorMissing).
WriteRefused ==
    /\ pc = "running"
    /\ tx = "live" /\ ~failed
    /\ \/ answers' = [answers EXCEPT ![current] = "refused"]
       \/ /\ \E a \in Accepts(current) : ~Settles(current, a)
          /\ answers' = [answers EXCEPT ![current] = "diverged"]
    /\ pc' = AfterWrite
    /\ IF current = CursorWrite
       THEN dead' = TRUE /\ tx' = "none" /\ bound' = "off"
       ELSE UNCHANGED <<dead, tx, bound>>
    /\ UNCHANGED <<fileVars, told, coordinatorVars, log, failed, attempts,
                   writes, current, settled, resume, effects>>

\* A statement or a savepoint fails, or finds its transaction rolled back: the
\* write's next run is in a transaction begun again.
WriteFails ==
    /\ pc \in {"running", "releasing"}
    /\ failed' = TRUE
    /\ pc' = "writing"
    /\ UNCHANGED <<fileVars, told, coordinatorVars, tx, log, dead, attempts,
                   bound, memoryVars, resume, effects>>

\* The savepoint is released: the write is stored, or will be by the replay if
\* the bound has fired under it.
WriteStored ==
    /\ pc = "releasing"
    /\ tx = "live"
    /\ log' = Append(log, Row(current, settled[current]))
    /\ writes' = Append(writes, Row(current, settled[current]))
    /\ answers' = [answers EXCEPT ![current] = settled[current]]
    /\ pc' = AfterWrite
    /\ UNCHANGED <<fileVars, told, coordinatorVars, tx, failed, dead, attempts,
                   bound, current, settled, resume, effects>>

-----------------------------------------------------------------------------
(* lifecycleFrame.recover: the transaction is begun, or begun again.       *)

RecoverDies ==
    /\ pc = "recovering"
    /\ attempts >= MaxAttempts
    /\ dead' = TRUE
    /\ tx' = "none" /\ bound' = "off"
    /\ pc' = resume
    /\ UNCHANGED <<fileVars, told, coordinatorVars, log, failed, attempts,
                   memoryVars, resume, effects>>

RecoverOnceMore ==   \* mutant: one attempt too many
    /\ pc = "recovering"
    /\ attempts <= MaxAttempts
    /\ tx' = "none" /\ bound' = "off"
    /\ pc' = "pausing"
    /\ UNCHANGED <<fileVars, told, coordinatorVars, log, failed, dead, attempts,
                   memoryVars, resume, effects>>
\* The failed transaction is ended and the frame pauses, the connection free.
\* A callback of its bound that comes later finds another transaction.
RecoverRollsBack ==
    /\ pc = "recovering"
    /\ attempts < MaxAttempts
    /\ tx' = "none" /\ bound' = "off"
    /\ pc' = "pausing"
    /\ UNCHANGED <<fileVars, told, coordinatorVars, log, failed, dead, attempts,
                   memoryVars, resume, effects>>

BeginFailsUncounted ==   \* mutant: a BEGIN that fails is not an attempt
    /\ pc = "pausing"
    /\ failed' = TRUE
    /\ pc' = "recovering"
    /\ UNCHANGED <<fileVars, told, coordinatorVars, tx, log, dead, attempts,
                   bound, memoryVars, resume, effects>>
BeginFails ==
    /\ pc = "pausing"
    /\ attempts' = attempts + 1
    /\ failed' = TRUE
    /\ pc' = "recovering"
    /\ UNCHANGED <<fileVars, told, coordinatorVars, tx, log, dead, bound,
                   memoryVars, resume, effects>>

BeginUnbounded ==   \* mutant: the bound is armed for the first transaction only
    /\ pc = "pausing"
    /\ attempts' = attempts + 1
    /\ tx' = "live" /\ log' = <<>> /\ failed' = FALSE
    /\ bound' = IF attempts = 0 THEN "armed" ELSE "off"
    /\ pc' = "replaying"
    /\ UNCHANGED <<fileVars, told, coordinatorVars, dead, memoryVars, resume,
                   effects>>
BeginTransaction ==
    /\ pc = "pausing"
    /\ attempts' = attempts + 1
    /\ tx' = "live" /\ log' = <<>> /\ failed' = FALSE
    /\ bound' = "armed"
    /\ pc' = "replaying"
    /\ UNCHANGED <<fileVars, told, coordinatorVars, dead, memoryVars, resume,
                   effects>>

\* The next of the frame's writes, in their order, answered as before.
NextWrite == writes[Len(log) + 1].write
Replaying == pc = "replaying" /\ Len(log) < Len(writes)
ReplayWithoutSettling ==   \* mutant: the replay's answer is not compared
    /\ Replaying
    /\ tx = "live"
    /\ \E a \in Accepts(NextWrite) : log' = Append(log, Row(NextWrite, a))
    /\ UNCHANGED <<fileVars, told, pc, coordinatorVars, tx, failed, dead,
                   attempts, bound, memoryVars, resume, effects>>
Replay ==
    /\ Replaying
    /\ tx = "live"
    /\ \E a \in Accepts(NextWrite) :
          Settles(NextWrite, a) /\ log' = Append(log, Row(NextWrite, a))
    /\ UNCHANGED <<fileVars, told, pc, coordinatorVars, tx, failed, dead,
                   attempts, bound, memoryVars, resume, effects>>

ReplayFails ==
    /\ Replaying
    /\ failed' = TRUE
    /\ pc' = "recovering"
    /\ UNCHANGED <<fileVars, told, coordinatorVars, tx, log, dead, attempts,
                   bound, memoryVars, resume, effects>>

\* A replayed write refused, or answered otherwise, ends the frame:
\* ErrFrameReplayDiverged.
ReplayDiverges ==
    /\ Replaying
    /\ tx = "live" /\ ~failed
    /\ dead' = TRUE
    /\ tx' = "none" /\ bound' = "off"
    /\ pc' = resume
    /\ UNCHANGED <<fileVars, told, coordinatorVars, log, failed, attempts,
                   memoryVars, resume, effects>>

ReplayEnds ==
    /\ pc = "replaying"
    /\ Len(log) = Len(writes)
    /\ pc' = IF failed THEN "recovering" ELSE resume
    /\ UNCHANGED <<fileVars, told, coordinatorVars, tx, log, failed, dead,
                   attempts, bound, memoryVars, resume, effects>>

-----------------------------------------------------------------------------
(* lifecycleFrame.expire: the bound, on a goroutine of its own.            *)

\* Its timer fires; its callback has the frame's lock to wait for.
BoundFires ==
    /\ bound = "armed"
    /\ bound' = "firing"
    /\ UNCHANGED <<fileVars, told, pc, coordinatorVars, tx, log, failed, dead,
                   attempts, memoryVars, resume, effects>>

BoundFailsTransaction ==
    /\ bound = "firing"
    /\ bound' = "failing"
    /\ failed' = TRUE
    /\ UNCHANGED <<fileVars, told, pc, coordinatorVars, tx, log, dead, attempts,
                   memoryVars, resume, effects>>

\* The rollback itself, outside the lock.
BoundRollsBack ==
    /\ bound = "failing"
    /\ bound' = "fired"
    /\ tx' = "over"
    /\ UNCHANGED <<fileVars, told, pc, coordinatorVars, log, failed, dead,
                   attempts, memoryVars, resume, effects>>

-----------------------------------------------------------------------------
(* lifecycleFrame.commit and finish.                                       *)

CommitBeginsAgain ==
    /\ pc = "committing"
    /\ ~dead
    /\ tx = "none" \/ failed
    /\ pc' = "recovering"
    /\ resume' = "committing"
    /\ UNCHANGED <<fileVars, told, coordinatorVars, tx, log, failed, dead,
                   attempts, bound, memoryVars, effects>>

DisarmUnchecked ==   \* mutant: whether the bound was disarmed in time is not asked
    /\ pc = "committing"
    /\ ~dead /\ ~failed /\ tx # "none"
    /\ bound' = IF bound = "armed" THEN "off" ELSE bound
    /\ pc' = "disarmed"
    /\ UNCHANGED <<fileVars, told, coordinatorVars, tx, log, failed, dead,
                   attempts, memoryVars, resume, effects>>
\* The bound is disarmed, and no longer applies ...
Disarm ==
    /\ pc = "committing"
    /\ ~dead /\ ~failed /\ tx # "none"
    /\ IF bound = "armed"
       THEN bound' = "off" /\ pc' = "disarmed"
       ELSE pc' = "waiting" /\ UNCHANGED bound
    /\ UNCHANGED <<fileVars, told, coordinatorVars, tx, log, failed, dead,
                   attempts, memoryVars, resume, effects>>

\* ... or its callback has begun: the commit waits for it and looks again.
WaitForBound ==
    /\ pc = "waiting"
    /\ bound = "fired"
    /\ failed' = TRUE
    /\ pc' = "committing"
    /\ UNCHANGED <<fileVars, told, coordinatorVars, tx, log, dead, attempts,
                   bound, memoryVars, resume, effects>>

\* COMMIT: the rows and the cursor past the frame, as the transaction has them.
Commit ==
    /\ pc = "disarmed"
    /\ rows' = [rows EXCEPT ![frame] = log]
    /\ cursor' = IF Applied(log) THEN frame ELSE cursor
    /\ tx' = "none"
    /\ pc' = "telling"
    /\ UNCHANGED <<told, coordinatorVars, log, failed, dead, attempts,
                   bound, memoryVars, resume, effects>>

CommitFails ==
    /\ pc = "disarmed"
    /\ failed' = TRUE
    /\ tx' = "over"
    /\ pc' = "committing"
    /\ UNCHANGED <<fileVars, told, coordinatorVars, log, dead, attempts,
                   bound, memoryVars, resume, effects>>

\* finish(true): Queue.End sends what waits, in order.
ToldOfFrame == IF told[1] = frame THEN told[2] ELSE 0
Tell ==
    /\ pc = "telling"
    /\ ToldOfFrame < effects
    /\ told' = <<frame, ToldOfFrame + 1>>
    /\ UNCHANGED <<fileVars, pc, coordinatorVars, tx, log, failed, dead,
                   attempts, bound, memoryVars, resume, effects>>

FrameStored ==
    /\ pc = "telling"
    /\ ToldOfFrame = effects
    /\ pc' = "idle"
    /\ Blank
    /\ UNCHANGED <<fileVars, told, coordinatorVars>>

\* finish(false): what waits is dropped, and the adapter ends the leg.
FrameFailed ==
    /\ pc = "committing"
    /\ dead
    /\ pc' = "halted"
    /\ Blank
    /\ UNCHANGED <<fileVars, told, coordinatorVars>>

-----------------------------------------------------------------------------
Init ==
    /\ rows = [f \in Frame |-> <<>>]
    /\ cursor = 0
    /\ told = <<0, 0>>
    /\ pc = "down" /\ stopping = FALSE /\ frame = 0
    /\ tx = "none" /\ log = <<>>
    /\ failed = FALSE /\ dead = FALSE
    /\ attempts = 0 /\ bound = "off"
    /\ writes = <<>> /\ current = 0
    /\ settled = [w \in Write |-> "none"]
    /\ answers = [w \in Write |-> "none"]
    /\ resume = "applying" /\ effects = 0

Projection == AskWrite \/ Read \/ QueueEffect \/ EndProjection \/ AbandonFrame
WriteStep ==
    \/ WriteToDead \/ WriteBeginsAgain \/ WriteReady
    \/ RunWrite \/ WriteRefused \/ WriteFails \/ WriteStored
RecoverStep ==
    \/ RecoverDies \/ RecoverRollsBack \/ BeginFails \/ BeginTransaction
    \/ Replay \/ ReplayFails \/ ReplayDiverges \/ ReplayEnds
BoundStep == BoundFires \/ BoundFailsTransaction \/ BoundRollsBack
CommitStep ==
    \/ CommitBeginsAgain \/ Disarm \/ WaitForBound \/ Commit \/ CommitFails
    \/ Tell \/ FrameStored \/ FrameFailed
CoordinatorStep == BeginFrame \/ LeaveFrame \/ Projection \/ WriteStep
                   \/ RecoverStep \/ CommitStep

Next ==
    \/ CoordinatorStep \/ BoundStep
    \/ Start \/ Die \/ BeginStopping

Spec == Init /\ [][Next]_vars

\* What the scheduling justifies whatever the frame's own goroutine does: the
\* bound's timer fires and its callback runs, and a COMMIT returns.
FairSpec == Spec /\ WF_vars(BoundStep) /\ WF_vars(Commit \/ CommitFails)

\* The goroutine that applies the frame runs: none of its statements hangs.
FrameRuns == WF_vars(CoordinatorStep)

-----------------------------------------------------------------------------
(* Properties.                                                             *)

PC == {"down", "idle", "halted", "applying", "writing", "running", "releasing",
       "recovering", "pausing", "replaying", "committing", "waiting",
       "disarmed", "telling"}

TypeOK ==
    /\ rows \in [Frame -> Seq(RowRecord)]
    /\ cursor \in 0 .. MaxFrames
    /\ told \in (0 .. MaxFrames) \X (0 .. MaxEffects)
    /\ pc \in PC
    /\ stopping \in BOOLEAN
    /\ frame \in 0 .. MaxFrames
    /\ tx \in {"none", "live", "over"}
    /\ log \in Seq(RowRecord)
    /\ failed \in BOOLEAN /\ dead \in BOOLEAN
    /\ attempts \in 0 .. MaxAttempts
    /\ bound \in {"off", "armed", "firing", "failing", "fired"}
    /\ writes \in Seq(RowRecord)
    /\ current \in 0 .. CursorWrite
    /\ settled \in [Write -> Answer \cup {"none", "stored"}]
    /\ resume \in {"applying", "writing", "committing"}
    /\ answers \in [Write -> Answer \cup {"none", "stored", "refused", "diverged", "failed"}]
    /\ effects \in 0 .. MaxEffects

\* The rows and the cursor together: the frames that have stored anything are
\* those the cursor covers, whenever a coordinator dies.
RowsWithCursor ==
    \A f \in Frame : IF f <= cursor THEN Applied(rows[f]) ELSE rows[f] = <<>>

\* What a frame stores is what its projection was answered: every write the
\* store accepted, once, in order, with the answer its caller acted on.
StoredAsAnswered == [][\A f \in Frame : rows'[f] # rows[f] =>
    LET projected == SubSeq(rows'[f], 1, Len(rows'[f]) - 1) IN
    /\ f = frame
    /\ \A i \in DOMAIN projected : answers[projected[i].write] = projected[i].answer
    /\ \A i, j \in DOMAIN projected : i < j => projected[i].write < projected[j].write
    /\ \A w \in 1 .. MaxWrites : answers[w] \in Answer =>
          \E i \in DOMAIN projected : projected[i].write = w]_vars

\* The bound decides up to the commit and the commit goes by what it decided:
\* COMMIT meets neither a transaction its bound rolled back, or is about to,
\* nor one that failed under the frame.
CommitMeetsLive == pc = "disarmed" => tx = "live" /\ ~failed /\ bound = "off"

\* The ledger is what the frames up to the cursor have stored.
Ledger == INSTANCE FrameLedger WITH
    ledger <- [f \in 1 .. cursor |-> rows[f]]
\* Frames are applied whole and in order and told of once they are stored, at
\* most once, by however many coordinators (ApplyLifecycleFrame,
\* lifecyclecommit's Queue.End).
ImplementsFrameLedger == Ledger!Spec

\* A coordinator has a frame in hand.
Busy == pc \notin {"down", "idle", "halted"}
\* Every frame whose goroutine runs ends: stored, failed, or left to the next
\* coordinator, however often its transactions fail and whatever its bound does
\* meanwhile (lifecycleFrameAttempts).
FrameEnds == FrameRuns => []<>~Busy

\* The hold of the store's only connection is bounded (lifecycleFrame.expire)
\* even when the frame's goroutine hangs.
HoldEnds == []<>(tx # "live")

=============================================================================
