------------------------- MODULE LifecycleFrameProofs -------------------------
(***************************************************************************)
(* Proofs about LifecycleFrame, for any number of frames, writes, effects  *)
(* and attempts: what a frame stores is what its projection was answered,  *)
(* together with its cursor, and the frames and what is told of them       *)
(* implement FrameLedger.                                                  *)
(*                                                                         *)
(* None of that is inductive by itself.  A frame commits whatever its last *)
(* transaction holds, so IInv follows the transaction: while it lives and  *)
(* has not failed it holds the frame's writes, or, while they are          *)
(* replayed, the first of them; the writes are what the projection was     *)
(* answered; and a frame that is not dead commits with the cursor among    *)
(* them.                                                                   *)
(***************************************************************************)
EXTENDS LifecycleFrame, SequenceTheorems, TLAPS

Recovering == {"recovering", "pausing", "replaying"}
Stage ==
    CASE pc \in Recovering -> resume
      [] pc \in {"writing", "running", "releasing"} -> "writing"
      [] pc \in {"committing", "waiting", "disarmed"} -> "committing"
      [] OTHER -> pc

\* The frame in hand is the one the cursor is before, until it is stored.
InHand ==
    /\ Busy => frame = IF pc = "telling" THEN cursor ELSE cursor + 1
    /\ pc = "telling" => frame > 0
    /\ pc = "idle" => frame = cursor
    /\ told[1] <= cursor

\* The transaction's flags, and what they allow.
Flags ==
    /\ tx = "over" => failed
    /\ bound \in {"failing", "fired"} => failed
    /\ dead => tx = "none" /\ bound = "off"
    /\ pc \in Recovering => ~dead
    /\ pc = "pausing" => attempts < MaxAttempts
    /\ CommitMeetsLive

\* The write in hand is not among the writes made.
InStep ==
    /\ ~Busy => current = 0
    /\ Stage = "applying" => current <= MaxWrites
    /\ Stage = "writing" => current > 0
    /\ pc = "releasing" => settled[current] \in Accepts(current)
    /\ \A i \in DOMAIN writes :
          IF Stage = "writing" THEN writes[i].write < current
                               ELSE writes[i].write <= current

\* The writes are what was answered, in order.
WritesAnswered ==
    /\ \A i \in DOMAIN writes :
          /\ settled[writes[i].write] = writes[i].answer
          /\ answers[writes[i].write] = writes[i].answer
    /\ \A i, j \in DOMAIN writes : i < j => writes[i].write < writes[j].write
    /\ \A w \in 1 .. MaxWrites : answers[w] \in Answer =>
          \E i \in DOMAIN writes : writes[i].write = w

\* The transaction holds the frame's writes.
LogIsWrites ==
    IF pc = "replaying"
    THEN Len(log) <= Len(writes) /\ \A i \in DOMAIN log : log[i] = writes[i]
    ELSE tx = "live" /\ ~failed => log = writes

\* A frame that is not dead commits with its cursor.
CursorLast == Stage = "committing" => dead \/ Applied(writes)

IInv ==
    /\ TypeOK /\ RowsWithCursor
    /\ InHand /\ Flags /\ InStep /\ WritesAnswered /\ LogIsWrites /\ CursorLast

-----------------------------------------------------------------------------
(* Types.                                                                  *)

LEMMA Numbers ==
    /\ MaxFrames \in Nat /\ MaxWrites \in Nat /\ MaxEffects \in Nat
    /\ MaxAttempts \in Nat /\ MaxAttempts > 0
    /\ CursorWrite = MaxWrites + 1 /\ CursorWrite \in Write
    /\ Frame = 1 .. MaxFrames /\ Write = 1 .. MaxWrites + 1
BY BoundsAssumption DEF CursorWrite, Frame, Write

LEMMA BlankTypes ==
    ASSUME Blank
    PROVE  /\ tx' = "none" /\ log' \in Seq(RowRecord) /\ log' = <<>>
           /\ failed' = FALSE /\ dead' = FALSE
           /\ attempts' \in 0 .. MaxAttempts /\ bound' = "off"
           /\ writes' \in Seq(RowRecord) /\ writes' = <<>>
           /\ current' \in 0 .. CursorWrite
           /\ settled' \in [Write -> Answer \cup {"none", "stored"}]
           /\ answers' \in
                 [Write -> Answer \cup {"none", "stored", "refused", "diverged", "failed"}]
           /\ resume' \in {"applying", "writing", "committing"}
           /\ effects' \in 0 .. MaxEffects
           /\ settled' = [w \in Write |-> "none"] /\ answers' = [w \in Write |-> "none"]
BY Numbers DEF Blank

\* What a write is stored with is a row, and longer logs are logs.
LEMMA RowTypes ==
    ASSUME NEW w \in Write, NEW a \in Accepts(w), NEW s \in Seq(RowRecord)
    PROVE  Row(w, a) \in RowRecord /\ Append(s, Row(w, a)) \in Seq(RowRecord)
<1>1. Row(w, a) \in RowRecord  BY DEF Row, RowRecord, Accepts
<1> QED  BY <1>1

\* The writes of the frame are writes, and what the replay runs next is one.
LEMMA InHandIsWrite ==
    ASSUME TypeOK, InStep
    PROVE  /\ Stage = "writing" => current \in Write
           /\ Replaying => NextWrite \in Write
<1>1. Stage = "writing" => current \in Write  BY Numbers DEF InStep, TypeOK
<1>2. ASSUME Replaying PROVE NextWrite \in Write
  <2>1. Len(log) + 1 \in 1 .. Len(writes)  BY <1>2 DEF Replaying, TypeOK
  <2>2. writes[Len(log) + 1] \in RowRecord  BY <2>1 DEF TypeOK
  <2> QED  BY <2>2 DEF NextWrite, RowRecord
<1> QED  BY <1>1, <1>2

LEMMA TypesKept == IInv /\ [Next]_vars => TypeOK'
<1> SUFFICES ASSUME IInv, [Next]_vars PROVE TypeOK'
  OBVIOUS
<1> TypeOK /\ InStep /\ Flags /\ InHand /\ RowsWithCursor
  BY DEF IInv
<1> USE Numbers
<1>1. CASE BeginFrame \/ LeaveFrame \/ Start \/ BeginStopping
  <2>1. frame' \in 0 .. MaxFrames
    BY <1>1 DEF BeginFrame, LeaveFrame, Start, BeginStopping, TypeOK,
                coordinatorVars
  <2>2. stopping' \in BOOLEAN /\ pc' \in PC
    BY <1>1 DEF BeginFrame, LeaveFrame, Start, BeginStopping, TypeOK, PC,
                coordinatorVars
  <2>3. UNCHANGED <<rows, cursor, told, tx, log, failed, dead, attempts, bound,
                    writes, current, settled, resume, answers, effects>>
    BY <1>1 DEF BeginFrame, LeaveFrame, Start, BeginStopping, fileVars, memoryVars
  <2> QED  BY <2>1, <2>2, <2>3 DEF TypeOK
<1>2. CASE Die
  <2>1. UNCHANGED <<rows, cursor, told>> /\ frame' = 0 /\ stopping' = FALSE
        /\ pc' = "down" /\ Blank
    BY <1>2 DEF Die, fileVars
  <2>2. frame' \in 0 .. MaxFrames  BY <2>1
  <2> QED  BY <2>1, <2>2, BlankTypes DEF TypeOK, PC
<1>3. CASE Projection
  <2>1. current' \in 0 .. CursorWrite /\ effects' \in 0 .. MaxEffects
    <3>1. current \in 0 .. CursorWrite /\ effects \in 0 .. MaxEffects  BY DEF TypeOK
    <3>2. CASE AskWrite  BY <3>1, <3>2, Numbers DEF AskWrite
    <3>3. CASE QueueEffect  BY <3>1, <3>3, Numbers DEF QueueEffect, memoryVars
    <3>4. CASE EndProjection  BY <3>1, <3>4, Numbers DEF EndProjection
    <3>5. CASE Read \/ AbandonFrame
      BY <3>1, <3>5 DEF Read, AbandonFrame, memoryVars
    <3> QED  BY <1>3, <3>2, <3>3, <3>4, <3>5 DEF Projection
  <2>2. /\ pc' \in PC /\ resume' \in {"applying", "writing", "committing"}
        /\ dead' \in BOOLEAN /\ tx' \in {"none", "live", "over"}
        /\ bound' \in {"off", "armed", "firing", "failing", "fired"}
    BY <1>3 DEF Projection, AskWrite, Read, QueueEffect, EndProjection,
                AbandonFrame, TypeOK, PC, memoryVars
  <2>3. UNCHANGED <<rows, cursor, told, stopping, frame, log, failed, attempts,
                    writes, settled, answers>>
    BY <1>3 DEF Projection, AskWrite, Read, QueueEffect, EndProjection,
                AbandonFrame, fileVars, coordinatorVars, memoryVars
  <2> QED  BY <2>1, <2>2, <2>3 DEF TypeOK
<1>4. CASE WriteStep
  <2>1. CASE WriteToDead \/ WriteRefused
    <3>1. answers' \in
            [Write -> Answer \cup {"none", "stored", "refused", "diverged", "failed"}]
      BY <2>1 DEF WriteToDead, WriteRefused, TypeOK
    <3>2. /\ pc' \in PC /\ dead' \in BOOLEAN /\ tx' \in {"none", "live", "over"}
          /\ bound' \in {"off", "armed", "firing", "failing", "fired"}
      BY <2>1 DEF WriteToDead, WriteRefused, AfterWrite, TypeOK, PC
    <3>3. UNCHANGED <<fileVars, told, coordinatorVars, log, failed, attempts,
                      writes, current, settled, resume, effects>>
      BY <2>1 DEF WriteToDead, WriteRefused, fileVars, coordinatorVars
    <3> QED  BY <3>1, <3>2, <3>3 DEF TypeOK, fileVars, coordinatorVars
  <2>4. CASE WriteBeginsAgain \/ WriteReady \/ WriteFails
    <3>1. /\ pc' \in PC /\ failed' \in BOOLEAN
          /\ resume' \in {"applying", "writing", "committing"}
      BY <2>4 DEF WriteBeginsAgain, WriteReady, WriteFails, TypeOK, PC
    <3>2. UNCHANGED <<fileVars, told, coordinatorVars, tx, log, dead, attempts,
                      bound, memoryVars, effects>>
      BY <2>4 DEF WriteBeginsAgain, WriteReady, WriteFails
    <3> QED  BY <3>1, <3>2 DEF TypeOK, fileVars, coordinatorVars, memoryVars
  <2>2. CASE RunWrite
    BY <2>2 DEF RunWrite, Accepts, TypeOK, PC, fileVars, coordinatorVars, memoryVars
  <2>3. CASE WriteStored
    <3>1. current \in Write /\ settled[current] \in Accepts(current)
      BY <2>3, InHandIsWrite DEF WriteStored, Stage, Recovering, InStep
    <3>2. settled[current] \in Answer \cup {"stored"}  BY <3>1 DEF Accepts
    <3>3. log' \in Seq(RowRecord) /\ writes' \in Seq(RowRecord)
      BY <2>3, <3>1, RowTypes DEF WriteStored, TypeOK
    <3>4. answers' \in
            [Write -> Answer \cup {"none", "stored", "refused", "diverged", "failed"}]
      BY <2>3, <3>2 DEF WriteStored, TypeOK
    <3> QED
      BY <2>3, <3>3, <3>4 DEF WriteStored, AfterWrite, TypeOK, PC, fileVars,
                              coordinatorVars
  <2> QED  BY <1>4, <2>1, <2>2, <2>3, <2>4 DEF WriteStep
<1>5. CASE RecoverStep
  <2>1. CASE RecoverDies \/ RecoverRollsBack \/ ReplayFails \/ ReplayDiverges \/ ReplayEnds
    <3>1. /\ pc' \in PC /\ failed' \in BOOLEAN /\ dead' \in BOOLEAN
          /\ tx' \in {"none", "live", "over"}
          /\ bound' \in {"off", "armed", "firing", "failing", "fired"}
      BY <2>1 DEF RecoverDies, RecoverRollsBack, ReplayFails, ReplayDiverges,
                  ReplayEnds, Replaying, TypeOK, PC
    <3>2. UNCHANGED <<fileVars, told, coordinatorVars, log, attempts, memoryVars,
                      resume, effects>>
      BY <2>1 DEF RecoverDies, RecoverRollsBack, ReplayFails, ReplayDiverges,
                  ReplayEnds
    <3> QED  BY <3>1, <3>2 DEF TypeOK, fileVars, coordinatorVars, memoryVars
  <2>2. CASE BeginFails \/ BeginTransaction
    <3>1. attempts' \in 0 .. MaxAttempts
      BY <2>2 DEF BeginFails, BeginTransaction, TypeOK, Flags
    <3>2. <<>> \in Seq(RowRecord)  OBVIOUS
    <3> QED
      BY <2>2, <3>1, <3>2 DEF BeginFails, BeginTransaction, TypeOK, PC, fileVars,
                              coordinatorVars, memoryVars
  <2>3. CASE Replay
    <3>1. NextWrite \in Write  BY <2>3, InHandIsWrite DEF Replay
    <3>2. log' \in Seq(RowRecord)
      BY <2>3, <3>1, RowTypes DEF Replay, TypeOK
    <3> QED
      BY <2>3, <3>2 DEF Replay, TypeOK, fileVars, coordinatorVars, memoryVars
  <2> QED  BY <1>5, <2>1, <2>2, <2>3 DEF RecoverStep
<1>6. CASE BoundStep
  BY <1>6 DEF BoundStep, BoundFires, BoundFailsTransaction, BoundRollsBack,
              TypeOK, fileVars, coordinatorVars, memoryVars
<1>7. CASE CommitStep
  <2>1. CASE CommitBeginsAgain \/ Disarm \/ WaitForBound \/ CommitFails
    <3>1. /\ pc' \in PC /\ failed' \in BOOLEAN
          /\ tx' \in {"none", "live", "over"}
          /\ bound' \in {"off", "armed", "firing", "failing", "fired"}
          /\ resume' \in {"applying", "writing", "committing"}
      BY <2>1 DEF CommitBeginsAgain, Disarm, WaitForBound, CommitFails, TypeOK, PC
    <3>2. UNCHANGED <<fileVars, told, coordinatorVars, log, dead, attempts,
                      memoryVars, effects>>
      BY <2>1 DEF CommitBeginsAgain, Disarm, WaitForBound, CommitFails
    <3> QED  BY <3>1, <3>2 DEF TypeOK, fileVars, coordinatorVars, memoryVars
  <2>2. CASE Commit
    BY <2>2 DEF Commit, TypeOK, PC, coordinatorVars, memoryVars
  <2>3. CASE Tell
    <3>1. ToldOfFrame \in 0 .. MaxEffects  BY DEF ToldOfFrame, TypeOK
    <3>2. told' \in (0 .. MaxFrames) \X (0 .. MaxEffects)
      BY <2>3, <3>1 DEF Tell, TypeOK
    <3> QED
      BY <2>3, <3>2 DEF Tell, TypeOK, fileVars, coordinatorVars, memoryVars
  <2>4. CASE FrameStored \/ FrameFailed
    BY <2>4, BlankTypes DEF FrameStored, FrameFailed, TypeOK, PC, fileVars,
                            coordinatorVars
  <2> QED  BY <1>7, <2>1, <2>2, <2>3, <2>4 DEF CommitStep
<1>8. CASE UNCHANGED vars
  BY <1>8 DEF vars, TypeOK, fileVars, coordinatorVars, memoryVars
<1> QED
  BY <1>1, <1>2, <1>3, <1>4, <1>5, <1>6, <1>7, <1>8 DEF Next, CoordinatorStep

-----------------------------------------------------------------------------
(* The steps that leave the writes and the stage of the frame alone.       *)

QuietStep ==
    \/ BeginStopping \/ Read \/ QueueEffect
    \/ WriteBeginsAgain \/ WriteReady \/ WriteFails
    \/ RecoverStep \/ BoundStep
    \/ CommitBeginsAgain \/ Disarm \/ WaitForBound \/ CommitFails
    \/ UNCHANGED vars

Quiet ==
    /\ Stage' = Stage
    /\ Busy' = Busy
    /\ pc' = "telling" <=> pc = "telling"
    /\ pc' = "idle" <=> pc = "idle"
    /\ pc' = "releasing" => pc = "releasing"
    /\ dead => dead'
    /\ UNCHANGED <<rows, cursor, told, frame>>
    /\ UNCHANGED <<writes, current, settled, answers>>

\* The steps that are not quiet.
NextSteps ==
    \/ QuietStep
    \/ Start \/ Die \/ BeginFrame \/ LeaveFrame
    \/ AskWrite \/ EndProjection \/ AbandonFrame
    \/ WriteToDead \/ RunWrite \/ WriteRefused \/ WriteStored
    \/ Commit \/ Tell \/ FrameStored \/ FrameFailed

LEMMA StepsOfNext == [Next]_vars => NextSteps
BY DEF Next, CoordinatorStep, Projection, WriteStep, CommitStep, NextSteps, QuietStep

LEMMA QuietSteps ==
    ASSUME TypeOK, InStep, QuietStep
    PROVE  Quiet
<1> USE DEF TypeOK, PC, Stage, Recovering, Busy
<1> USE DEF fileVars, coordinatorVars, memoryVars
<1>1. CASE BeginStopping \/ Read \/ QueueEffect
  BY <1>1 DEF BeginStopping, Read, QueueEffect, Quiet
<1>2. CASE WriteBeginsAgain \/ WriteReady \/ WriteFails
  BY <1>2 DEF WriteBeginsAgain, WriteReady, WriteFails, Quiet
<1>3. CASE RecoverDies \/ RecoverRollsBack \/ BeginFails \/ BeginTransaction
  BY <1>3 DEF RecoverDies, RecoverRollsBack, BeginFails, BeginTransaction, Quiet
<1>4. CASE Replay \/ ReplayFails \/ ReplayDiverges \/ ReplayEnds
  BY <1>4 DEF Replay, ReplayFails, ReplayDiverges, ReplayEnds, Replaying, Quiet
<1>5. CASE BoundStep
  BY <1>5 DEF BoundStep, BoundFires, BoundFailsTransaction, BoundRollsBack, Quiet
<1>6. CASE CommitBeginsAgain \/ Disarm \/ WaitForBound \/ CommitFails
  BY <1>6 DEF CommitBeginsAgain, Disarm, WaitForBound, CommitFails, Quiet
<1>7. CASE UNCHANGED vars
  BY <1>7 DEF vars, Quiet
<1> QED
  BY <1>1, <1>2, <1>3, <1>4, <1>5, <1>6, <1>7 DEF QuietStep, RecoverStep

\* What a COMMIT stores: the frame's writes, its cursor among them.
LEMMA CommitFacts ==
    ASSUME IInv, Commit
    PROVE  /\ log = writes /\ Applied(log) /\ ~dead
           /\ frame = cursor + 1 /\ frame \in Frame
           /\ cursor' = frame /\ rows' = [rows EXCEPT ![frame] = log]
<1>1. pc = "disarmed" /\ tx = "live" /\ ~failed /\ ~dead
  BY DEF IInv, Commit, Flags, CommitMeetsLive
<1>2. log = writes /\ Applied(log)
  BY <1>1 DEF IInv, LogIsWrites, CursorLast, Stage, Recovering
<1>3. frame = cursor + 1  BY <1>1 DEF IInv, InHand, Busy
<1>4. frame \in Frame  BY <1>3, Numbers DEF IInv, TypeOK
<1> QED  BY <1>1, <1>2, <1>3, <1>4 DEF Commit

-----------------------------------------------------------------------------
(* The parts of the invariant.                                             *)

LEMMA InHandKept == IInv /\ [Next]_vars => InHand'
<1> SUFFICES ASSUME IInv, NextSteps PROVE InHand'
  BY StepsOfNext
<1> TypeOK /\ InStep /\ InHand
  BY DEF IInv
<1> USE DEF fileVars, coordinatorVars, memoryVars
<1>1. CASE QuietStep
  BY <1>1, QuietSteps DEF Quiet, InHand
<1>2. CASE Start \/ Die \/ BeginFrame \/ LeaveFrame
  <2>1. UNCHANGED <<cursor, told>>
    BY <1>2 DEF Start, Die, BeginFrame, LeaveFrame
  <2>2. Busy' => frame' = IF pc' = "telling" THEN cursor' ELSE cursor' + 1
    BY <1>2 DEF Start, Die, BeginFrame, LeaveFrame, InHand, Busy
  <2>3. pc' = "idle" => frame' = cursor'
    BY <1>2 DEF Start, Die, BeginFrame, LeaveFrame
  <2>4. pc' # "telling"
    BY <1>2 DEF Start, Die, BeginFrame, LeaveFrame
  <2> QED  BY <2>1, <2>2, <2>3, <2>4 DEF InHand
<1>3. CASE AskWrite \/ EndProjection \/ AbandonFrame \/ RunWrite
  BY <1>3 DEF AskWrite, EndProjection, AbandonFrame, RunWrite, InHand, Busy
<1>4. CASE WriteToDead \/ WriteRefused \/ WriteStored
  BY <1>4 DEF WriteToDead, WriteRefused, WriteStored, AfterWrite, InHand, Busy
<1>5. CASE Commit
  <2>1. cursor' = frame /\ frame' = frame /\ told' = told /\ pc' = "telling"
    BY <1>5, CommitFacts DEF Commit
  <2>2. told[1] <= cursor /\ cursor <= frame /\ frame > 0
    BY <1>5, CommitFacts, Numbers DEF InHand, TypeOK
  <2>3. told[1] <= frame
    BY <2>2, Numbers DEF TypeOK
  <2> QED  BY <2>1, <2>2, <2>3 DEF InHand, Busy
<1>6. CASE Tell
  <2>1. told'[1] = frame /\ frame = cursor  BY <1>6 DEF Tell, InHand, Busy
  <2> QED  BY <1>6, <2>1 DEF Tell, InHand, Busy, TypeOK
<1>7. CASE FrameStored \/ FrameFailed
  BY <1>7 DEF FrameStored, FrameFailed, InHand, Busy
<1> QED
  BY <1>1, <1>2, <1>3, <1>4, <1>5, <1>6, <1>7 DEF NextSteps

LEMMA FlagsKept == IInv /\ [Next]_vars => Flags'
<1> SUFFICES ASSUME IInv, [Next]_vars PROVE Flags'
  OBVIOUS
<1> TypeOK /\ Flags
  BY DEF IInv
<1> USE DEF Flags, Recovering, CommitMeetsLive, fileVars, coordinatorVars, memoryVars
<1>1. CASE BeginFrame \/ LeaveFrame \/ Start \/ Die \/ BeginStopping
  BY <1>1 DEF BeginFrame, LeaveFrame, Start, Die, BeginStopping, Blank
<1>2. CASE Projection
  BY <1>2 DEF Projection, AskWrite, Read, QueueEffect, EndProjection, AbandonFrame
<1>3. CASE WriteToDead \/ WriteBeginsAgain \/ WriteReady \/ RunWrite
  BY <1>3 DEF WriteToDead, WriteBeginsAgain, WriteReady, RunWrite, AfterWrite
<1>4. CASE WriteRefused \/ WriteFails \/ WriteStored
  BY <1>4 DEF WriteRefused, WriteFails, WriteStored, AfterWrite
<1>5. CASE RecoverDies \/ RecoverRollsBack \/ BeginFails \/ BeginTransaction
  <2>1. CASE RecoverDies \/ RecoverRollsBack
    BY <2>1 DEF RecoverDies, RecoverRollsBack, TypeOK
  <2>2. CASE BeginFails \/ BeginTransaction
    BY <2>2 DEF BeginFails, BeginTransaction
  <2> QED  BY <1>5, <2>1, <2>2
<1>6. CASE Replay \/ ReplayFails \/ ReplayDiverges \/ ReplayEnds
  BY <1>6 DEF Replay, ReplayFails, ReplayDiverges, ReplayEnds, Replaying, TypeOK
<1>7. CASE BoundStep
  BY <1>7 DEF BoundStep, BoundFires, BoundFailsTransaction, BoundRollsBack
<1>8. CASE CommitBeginsAgain \/ Disarm \/ WaitForBound \/ CommitFails
  BY <1>8 DEF CommitBeginsAgain, Disarm, WaitForBound, CommitFails, TypeOK
<1>9. CASE Commit \/ Tell \/ FrameStored \/ FrameFailed
  BY <1>9 DEF Commit, Tell, FrameStored, FrameFailed, Blank
<1>10. CASE UNCHANGED vars
  BY <1>10 DEF vars
<1> QED
  BY <1>1, <1>2, <1>3, <1>4, <1>5, <1>6, <1>7, <1>8, <1>9, <1>10
  DEF Next, CoordinatorStep, WriteStep, RecoverStep, CommitStep

LEMMA InStepKept == IInv /\ [Next]_vars => InStep'
<1> SUFFICES ASSUME IInv, NextSteps PROVE InStep'
  BY StepsOfNext
<1> TypeOK /\ InStep
  BY DEF IInv
<1> USE Numbers DEF fileVars, coordinatorVars, memoryVars
<1>s. writes \in Seq(RowRecord)  BY DEF TypeOK
<1>w. \A i \in DOMAIN writes : writes[i].write \in Write
  <2> TAKE i \in DOMAIN writes
  <2>1. writes[i] \in RowRecord  BY <1>s
  <2> QED  BY <2>1 DEF RowRecord
<1>1. CASE QuietStep
  BY <1>1, QuietSteps DEF Quiet, InStep, Accepts
<1>2. CASE Start \/ Die \/ LeaveFrame \/ FrameStored \/ FrameFailed
  BY <1>2 DEF Start, Die, LeaveFrame, FrameStored, FrameFailed, Blank, InStep, Stage,
              Recovering, Busy
<1>3. CASE BeginFrame
  BY <1>3 DEF BeginFrame, InStep, Stage, Recovering, Busy
<1>4. CASE AskWrite \/ EndProjection
  <2>1. Stage = "applying" /\ Stage' = "writing" /\ Busy'
    BY <1>4 DEF AskWrite, EndProjection, Stage, Recovering, Busy
  <2>2. writes' = writes /\ current' > current /\ pc' = "writing" /\ current' > 0
    BY <1>4, <2>1 DEF AskWrite, EndProjection, InStep, TypeOK
  <2>3. \A i \in DOMAIN writes' : writes'[i].write < current'
    BY <2>1, <2>2, <1>w, <1>4 DEF InStep, AskWrite, EndProjection, TypeOK
  <2> QED  BY <2>1, <2>2, <2>3 DEF InStep
<1>5. CASE AbandonFrame
  <2>1. Stage = "applying" /\ Stage' = "committing" /\ Busy' /\ pc' = "committing"
    BY <1>5 DEF AbandonFrame, Stage, Recovering, Busy
  <2> QED  BY <1>5, <2>1 DEF AbandonFrame, InStep
<1>6. CASE RunWrite
  <2>1. Stage = "writing" /\ Stage' = "writing" /\ Busy'
    BY <1>6 DEF RunWrite, Stage, Recovering, Busy
  <2>2. current \in Write  BY <2>1, InHandIsWrite
  <2>3. settled'[current] \in Accepts(current)
    BY <1>6, <2>2 DEF RunWrite, TypeOK
  <2> QED  BY <1>6, <2>1, <2>3 DEF RunWrite, InStep, Accepts
<1>7. CASE WriteToDead \/ WriteRefused \/ WriteStored
  <2>1. Stage = "writing" /\ Busy' /\ current' = current
    BY <1>7 DEF WriteToDead, WriteRefused, WriteStored, AfterWrite, Stage, Recovering,
                Busy
  <2>2. pc' = AfterWrite /\ Stage' = AfterWrite
    BY <1>7 DEF WriteToDead, WriteRefused, WriteStored, AfterWrite, Stage, Recovering
  <2>3. Stage' = "applying" => current' <= MaxWrites
    BY <2>1, <2>2 DEF AfterWrite, TypeOK
  <2>4. \A i \in DOMAIN writes' : writes'[i].write <= current'
    <3>1. CASE WriteToDead \/ WriteRefused
      BY <3>1, <2>1, <1>w DEF WriteToDead, WriteRefused, InStep, TypeOK
    <3>2. CASE WriteStored
      <4>1. writes' = Append(writes, Row(current, settled[current]))
        BY <3>2 DEF WriteStored
      <4>2. Row(current, settled[current]).write = current  BY DEF Row
      <4> QED  BY <4>1, <4>2, <2>1, <1>w DEF InStep, TypeOK
    <3> QED  BY <1>7, <3>1, <3>2
  <2> QED  BY <2>1, <2>2, <2>3, <2>4 DEF InStep, AfterWrite
<1>8. CASE Commit \/ Tell
  <2>1. /\ Stage' = "telling" /\ Stage \notin {"applying", "writing"} /\ Busy'
        /\ pc' = "telling" /\ UNCHANGED <<writes, current>>
    BY <1>8 DEF Commit, Tell, Stage, Recovering, Busy
  <2> QED  BY <2>1 DEF InStep
<1> QED
  BY <1>1, <1>2, <1>3, <1>4, <1>5, <1>6, <1>7, <1>8 DEF NextSteps

LEMMA WritesAnsweredKept == IInv /\ [Next]_vars => WritesAnswered'
<1> SUFFICES ASSUME IInv, NextSteps PROVE WritesAnswered'
  BY StepsOfNext
<1> TypeOK /\ InStep /\ WritesAnswered
  BY DEF IInv
<1> USE Numbers DEF fileVars, coordinatorVars, memoryVars
<1>s. writes \in Seq(RowRecord)  BY DEF TypeOK
<1>w. \A i \in DOMAIN writes : writes[i].write \in Write
  <2> TAKE i \in DOMAIN writes
  <2>1. writes[i] \in RowRecord  BY <1>s
  <2> QED  BY <2>1 DEF RowRecord
<1>1. CASE UNCHANGED <<writes, settled, answers>>
  BY <1>1 DEF WritesAnswered
<1>2. CASE Blank
  <2>1. writes' = <<>> /\ \A w \in 1 .. MaxWrites : answers'[w] = "none"
    BY <1>2, BlankTypes
  <2> QED  BY <2>1, AnswerAssumption DEF WritesAnswered
<1>3. CASE WriteToDead \/ WriteRefused
  <2>1. Stage = "writing" /\ UNCHANGED <<writes, settled>>
    BY <1>3 DEF WriteToDead, WriteRefused, Stage, Recovering
  <2>2. current \in Write  BY <2>1, InHandIsWrite
  <2>3. \E a \in {"failed", "refused", "diverged"} :
           answers' = [answers EXCEPT ![current] = a]
    BY <1>3 DEF WriteToDead, WriteRefused
  <2>4. answers'[current] \notin Answer
    BY <2>2, <2>3, AnswerAssumption DEF TypeOK
  <2>5. \A w \in Write : w # current => answers'[w] = answers[w]
    BY <2>2, <2>3 DEF TypeOK
  <2>6. \A i \in DOMAIN writes : writes[i].write # current
    BY <2>1, <2>2, <1>w DEF InStep
  <2> QED  BY <2>1, <2>4, <2>5, <2>6, <1>w DEF WritesAnswered
<1>4. CASE RunWrite
  <2>1. Stage = "writing" /\ UNCHANGED <<writes, answers>>
    BY <1>4 DEF RunWrite, Stage, Recovering
  <2>2. current \in Write  BY <2>1, InHandIsWrite
  <2>3. \A w \in Write : w # current => settled'[w] = settled[w]
    BY <1>4, <2>2 DEF RunWrite, TypeOK
  <2>4. \A i \in DOMAIN writes : writes[i].write # current
    BY <2>1, <2>2, <1>w DEF InStep
  <2> QED  BY <2>1, <2>3, <2>4, <1>w DEF WritesAnswered
<1>5. CASE WriteStored
  <2> DEFINE r == Row(current, settled[current])
  <2>1. Stage = "writing" /\ settled' = settled /\ writes' = Append(writes, r)
        /\ answers' = [answers EXCEPT ![current] = settled[current]]
    BY <1>5 DEF WriteStored, Stage, Recovering
  <2>2. current \in Write  BY <2>1, InHandIsWrite
  <2>3. r.write = current /\ r.answer = settled[current]  BY DEF Row
  <2>4. \A w \in Write : w # current => answers'[w] = answers[w]
    BY <2>1, <2>2 DEF TypeOK
  <2>5. answers'[current] = settled[current]  BY <2>1, <2>2 DEF TypeOK
  <2>6. \A i \in DOMAIN writes : writes[i].write < current
    BY <2>1 DEF InStep
  <2>7. /\ DOMAIN writes' = 1 .. Len(writes) + 1 /\ DOMAIN writes = 1 .. Len(writes)
        /\ \A i \in DOMAIN writes : writes'[i] = writes[i]
        /\ writes'[Len(writes) + 1] = r /\ Len(writes) \in Nat
    <3> HIDE DEF r
    <3> QED  BY <2>1, <1>s
  <2> HIDE DEF r
  <2>8. ASSUME NEW i \in DOMAIN writes'
        PROVE  /\ settled'[writes'[i].write] = writes'[i].answer
               /\ answers'[writes'[i].write] = writes'[i].answer
    <3>1. CASE i \in DOMAIN writes
      <4>1. writes'[i] = writes[i] /\ writes[i].write \in Write /\ writes[i].write # current
        BY <3>1, <2>2, <2>6, <2>7, <1>w
      <4> QED  BY <3>1, <4>1, <2>1, <2>4 DEF WritesAnswered
    <3>2. CASE i = Len(writes) + 1
      BY <3>2, <2>1, <2>3, <2>5, <2>7
    <3> QED  BY <2>7, <3>1, <3>2
  <2>9. ASSUME NEW i \in DOMAIN writes', NEW j \in DOMAIN writes', i < j
        PROVE  writes'[i].write < writes'[j].write
    <3>1. i \in DOMAIN writes  BY <2>7, <2>9
    <3>2. CASE j \in DOMAIN writes
      BY <3>1, <3>2, <2>7, <2>9 DEF WritesAnswered
    <3>3. CASE j = Len(writes) + 1
      BY <3>1, <3>3, <2>3, <2>6, <2>7
    <3> QED  BY <2>7, <3>2, <3>3
  <2>10. ASSUME NEW w \in 1 .. MaxWrites, answers'[w] \in Answer
         PROVE  \E i \in DOMAIN writes' : writes'[i].write = w
    <3>1. CASE w = current
      BY <3>1, <2>3, <2>7
    <3>2. CASE w # current
      <4>1. answers[w] \in Answer  BY <3>2, <2>4, <2>10
      <4>2. PICK i \in DOMAIN writes : writes[i].write = w
        BY <4>1 DEF WritesAnswered
      <4> QED  BY <4>2, <2>7
    <3> QED  BY <3>1, <3>2
  <2> QED  BY <2>8, <2>9, <2>10 DEF WritesAnswered
<1> QED
  <2>1. CASE QuietStep
    BY <2>1, <1>1, QuietSteps DEF Quiet
  <2>2. CASE Start \/ Die \/ BeginFrame \/ LeaveFrame \/ FrameStored \/ FrameFailed
    BY <2>2, <1>1, <1>2 DEF Start, Die, BeginFrame, LeaveFrame, FrameStored, FrameFailed
  <2>3. CASE AskWrite \/ EndProjection \/ AbandonFrame \/ Commit \/ Tell
    BY <2>3, <1>1 DEF AskWrite, EndProjection, AbandonFrame, Commit, Tell
  <2> QED  BY <2>1, <2>2, <2>3, <1>3, <1>4, <1>5 DEF NextSteps

\* A replay ends with the frame's writes in the transaction.
LEMMA LogIsWritesKept == IInv /\ [Next]_vars => LogIsWrites'
<1> SUFFICES ASSUME IInv, [Next]_vars PROVE LogIsWrites'
  OBVIOUS
<1> TypeOK /\ InStep /\ Flags /\ WritesAnswered /\ LogIsWrites
  BY DEF IInv
<1> USE Numbers DEF fileVars, coordinatorVars, memoryVars
<1>s. writes \in Seq(RowRecord) /\ log \in Seq(RowRecord)  BY DEF TypeOK
<1>1. CASE BeginFrame \/ LeaveFrame \/ Start \/ BeginStopping
  BY <1>1 DEF BeginFrame, LeaveFrame, Start, BeginStopping, LogIsWrites
<1>2. CASE Die \/ FrameStored \/ FrameFailed
  BY <1>2, BlankTypes DEF Die, FrameStored, FrameFailed, LogIsWrites
<1>3. CASE Projection
  BY <1>3 DEF Projection, AskWrite, Read, QueueEffect, EndProjection, AbandonFrame,
              LogIsWrites
<1>4. CASE WriteToDead \/ WriteBeginsAgain \/ WriteReady \/ RunWrite \/ WriteRefused
           \/ WriteFails
  BY <1>4 DEF WriteToDead, WriteBeginsAgain, WriteReady, RunWrite, WriteRefused,
              WriteFails, AfterWrite, LogIsWrites
<1>5. CASE WriteStored
  BY <1>5 DEF WriteStored, AfterWrite, LogIsWrites
<1>6. CASE RecoverDies \/ RecoverRollsBack \/ BeginFails
  BY <1>6 DEF RecoverDies, RecoverRollsBack, BeginFails, LogIsWrites, TypeOK
<1>7. CASE BeginTransaction
  <2>1. pc' = "replaying" /\ log' = <<>> /\ writes' = writes
    BY <1>7 DEF BeginTransaction
  <2> QED  BY <2>1, <1>s DEF LogIsWrites
<1>8. CASE Replay
  <2> DEFINE n == Len(log) + 1
  <2>1. pc = "replaying" /\ pc' = pc /\ writes' = writes /\ Len(log) < Len(writes)
    BY <1>8 DEF Replay, Replaying
  <2>2. PICK a \in Accepts(NextWrite) :
           Settles(NextWrite, a) /\ log' = Append(log, Row(NextWrite, a))
    BY <1>8 DEF Replay
  <2>3. n \in DOMAIN writes /\ writes[n] \in RowRecord  BY <2>1, <1>s
  <2>4. settled[NextWrite] = writes[n].answer /\ writes[n].answer # "none"
    BY <2>3, AnswerAssumption DEF NextWrite, WritesAnswered, RowRecord
  <2>5. Row(NextWrite, a) = writes[n]
    BY <2>2, <2>3, <2>4 DEF Row, NextWrite, Settles, RowRecord
  <2>6. log' = Append(log, writes[n])  BY <2>2, <2>5
  <2>7. Len(log') = n /\ \A i \in DOMAIN log' : log'[i] = writes[i]
    BY <2>1, <2>6, <1>s DEF LogIsWrites
  <2> QED  BY <2>1, <2>7, <1>s DEF LogIsWrites
<1>9. CASE ReplayFails \/ ReplayDiverges
  BY <1>9 DEF ReplayFails, ReplayDiverges, Replaying, LogIsWrites, TypeOK
<1>10. CASE ReplayEnds
  <2>1. pc = "replaying" /\ pc' # "replaying" /\ Len(log) = Len(writes)
        /\ UNCHANGED <<log, writes>>
    BY <1>10 DEF ReplayEnds, TypeOK
  <2>2. log = writes
    BY <2>1, <1>s, SeqEqual DEF LogIsWrites
  <2> QED  BY <2>1, <2>2 DEF LogIsWrites
<1>11. CASE BoundStep
  BY <1>11 DEF BoundStep, BoundFires, BoundFailsTransaction, BoundRollsBack, LogIsWrites
<1>12. CASE CommitBeginsAgain \/ Disarm \/ WaitForBound \/ CommitFails
  BY <1>12 DEF CommitBeginsAgain, Disarm, WaitForBound, CommitFails, LogIsWrites
<1>13. CASE Commit \/ Tell
  BY <1>13 DEF Commit, Tell, LogIsWrites
<1>14. CASE UNCHANGED vars
  BY <1>14 DEF vars, LogIsWrites
<1> QED
  BY <1>1, <1>2, <1>3, <1>4, <1>5, <1>6, <1>7, <1>8, <1>9, <1>10, <1>11, <1>12, <1>13,
     <1>14
  DEF Next, CoordinatorStep, WriteStep, RecoverStep, CommitStep

LEMMA CursorLastKept == IInv /\ [Next]_vars => CursorLast'
<1> SUFFICES ASSUME IInv, NextSteps PROVE CursorLast'
  BY StepsOfNext
<1> TypeOK /\ InStep /\ CursorLast
  BY DEF IInv
<1> USE DEF fileVars, coordinatorVars, memoryVars
<1>1. CASE QuietStep
  BY <1>1, QuietSteps DEF Quiet, CursorLast
<1>2. CASE Start \/ Die \/ BeginFrame \/ LeaveFrame \/ FrameStored \/ FrameFailed
  BY <1>2 DEF Start, Die, BeginFrame, LeaveFrame, FrameStored, FrameFailed, CursorLast,
              Stage, Recovering
<1>3. CASE AskWrite \/ EndProjection \/ RunWrite \/ Commit \/ Tell
  BY <1>3 DEF AskWrite, EndProjection, RunWrite, Commit, Tell, CursorLast, Stage,
              Recovering
<1>4. CASE AbandonFrame \/ WriteToDead
  BY <1>4 DEF AbandonFrame, WriteToDead, CursorLast
<1>5. CASE WriteRefused
  BY <1>5 DEF WriteRefused, AfterWrite, CursorLast, Stage, Recovering
<1>6. CASE WriteStored
  <2>1. pc' = AfterWrite /\ writes' = Append(writes, Row(current, settled[current]))
    BY <1>6 DEF WriteStored
  <2>2. CASE current = CursorWrite
    <3>1. writes'[Len(writes) + 1].write = CursorWrite /\ Len(writes) + 1 \in DOMAIN writes'
      BY <2>1, <2>2 DEF Row, TypeOK
    <3> QED  BY <3>1 DEF CursorLast, Applied
  <2>3. CASE current # CursorWrite
    BY <2>1, <2>3 DEF AfterWrite, CursorLast, Stage, Recovering
  <2> QED  BY <2>2, <2>3
<1> QED
  BY <1>1, <1>2, <1>3, <1>4, <1>5, <1>6 DEF NextSteps

\* Nothing but a COMMIT changes the database.
LEMMA OnlyCommitStores ==
    ASSUME TypeOK, InStep, NextSteps, ~Commit
    PROVE  UNCHANGED <<rows, cursor>>
<1> USE DEF fileVars
<1>1. CASE QuietStep
  BY <1>1, QuietSteps DEF Quiet
<1>2. CASE Start \/ Die \/ BeginFrame \/ LeaveFrame \/ Tell \/ FrameStored \/ FrameFailed
  BY <1>2 DEF Start, Die, BeginFrame, LeaveFrame, Tell, FrameStored, FrameFailed
<1>3. CASE AskWrite \/ EndProjection \/ AbandonFrame \/ WriteToDead \/ RunWrite
           \/ WriteRefused \/ WriteStored
  BY <1>3 DEF AskWrite, EndProjection, AbandonFrame, WriteToDead, RunWrite,
              WriteRefused, WriteStored
<1> QED  BY <1>1, <1>2, <1>3 DEF NextSteps

\* Nothing but Tell tells.
LEMMA OnlyTellTells ==
    ASSUME TypeOK, InStep, NextSteps, ~Tell
    PROVE  UNCHANGED told
<1>1. CASE QuietStep
  BY <1>1, QuietSteps DEF Quiet
<1>2. CASE Start \/ Die \/ BeginFrame \/ LeaveFrame \/ Commit \/ FrameStored \/ FrameFailed
  BY <1>2 DEF Start, Die, BeginFrame, LeaveFrame, Commit, FrameStored, FrameFailed
<1>3. CASE AskWrite \/ EndProjection \/ AbandonFrame \/ WriteToDead \/ RunWrite
           \/ WriteRefused \/ WriteStored
  BY <1>3 DEF AskWrite, EndProjection, AbandonFrame, WriteToDead, RunWrite,
              WriteRefused, WriteStored
<1> QED  BY <1>1, <1>2, <1>3 DEF NextSteps

LEMMA RowsWithCursorKept == IInv /\ [Next]_vars => RowsWithCursor'
<1> SUFFICES ASSUME IInv, NextSteps PROVE RowsWithCursor'
  BY StepsOfNext
<1> TypeOK /\ InStep /\ RowsWithCursor
  BY DEF IInv
<1>1. CASE Commit
  <2>1. /\ Applied(log) /\ frame = cursor + 1 /\ frame \in Frame
        /\ cursor' = frame /\ rows' = [rows EXCEPT ![frame] = log]
    BY <1>1, CommitFacts
  <2> SUFFICES ASSUME NEW f \in Frame
               PROVE  IF f <= cursor' THEN Applied(rows'[f]) ELSE rows'[f] = <<>>
    BY DEF RowsWithCursor
  <2>2. rows'[f] = IF f = frame THEN log ELSE rows[f]  BY <2>1 DEF TypeOK
  <2>3. f <= cursor' <=> f <= cursor \/ f = frame
    BY <2>1, Numbers DEF TypeOK
  <2>4. f = frame => ~(f <= cursor)  BY <2>1, Numbers DEF TypeOK
  <2> QED  BY <2>1, <2>2, <2>3, <2>4 DEF RowsWithCursor
<1>2. CASE ~Commit
  BY <1>2, OnlyCommitStores DEF RowsWithCursor, Applied
<1> QED  BY <1>1, <1>2

-----------------------------------------------------------------------------
(* The invariant.                                                          *)

LEMMA Initially == Init => IInv
<1> SUFFICES ASSUME Init PROVE IInv
  OBVIOUS
<1> USE Numbers DEF Init
<1>1. TypeOK
  <2>1. rows \in [Frame -> Seq(RowRecord)]  OBVIOUS
  <2>2. told \in (0 .. MaxFrames) \X (0 .. MaxEffects)  OBVIOUS
  <2>3. cursor \in 0 .. MaxFrames /\ frame \in 0 .. MaxFrames
        /\ attempts \in 0 .. MaxAttempts /\ current \in 0 .. CursorWrite
        /\ effects \in 0 .. MaxEffects
    OBVIOUS
  <2>4. settled \in [Write -> Answer \cup {"none", "stored"}]  OBVIOUS
  <2>5. answers \in
          [Write -> Answer \cup {"none", "stored", "refused", "diverged", "failed"}]
    OBVIOUS
  <2>6. log \in Seq(RowRecord) /\ writes \in Seq(RowRecord)
    <3>1. <<>> \in Seq(RowRecord)  OBVIOUS
    <3> QED  BY <3>1
  <2>7. /\ pc = "down" /\ tx = "none" /\ bound = "off" /\ resume = "applying"
        /\ stopping = FALSE /\ failed = FALSE /\ dead = FALSE
    OBVIOUS
  <2> HIDE DEF Init
  <2> QED  BY <2>1, <2>2, <2>3, <2>4, <2>5, <2>6, <2>7 DEF TypeOK, PC
<1>2. RowsWithCursor
  BY DEF RowsWithCursor
<1>3. InHand /\ Flags /\ InStep
  BY DEF InHand, Flags, CommitMeetsLive, InStep, Stage, Recovering, Busy
<1>4. WritesAnswered /\ LogIsWrites /\ CursorLast
  BY AnswerAssumption DEF WritesAnswered, LogIsWrites, CursorLast, Stage, Recovering
<1> QED  BY <1>1, <1>2, <1>3, <1>4 DEF IInv

LEMMA Kept == IInv /\ [Next]_vars => IInv'
BY TypesKept, InHandKept, FlagsKept, InStepKept, WritesAnsweredKept, LogIsWritesKept,
   CursorLastKept, RowsWithCursorKept
DEF IInv

\* The inductive invariant.
THEOREM FrameInvariant == Spec => []IInv
<1> QED  BY Initially, Kept, PTL DEF Spec

\* Every variable of the frame keeps its type: the attempts, the counts of effects and the
\* write in hand stay within the frame's bounds, and what is logged are rows.
THEOREM FrameTypeCorrect == Spec => []TypeOK
<1>1. IInv => TypeOK  BY DEF IInv
<1> QED  BY <1>1, FrameInvariant, PTL

\* A frame's rows are in the database exactly when the cursor is past it, with
\* its cursor write among them: lifecycleFrame.commit stores both or neither.
THEOREM FramesAreAtomic == Spec => []RowsWithCursor
<1>1. IInv => RowsWithCursor  BY DEF IInv
<1> QED  BY <1>1, FrameInvariant, PTL

\* COMMIT never meets a transaction its bound has rolled back or will.
THEOREM CommitsAreLive == Spec => []CommitMeetsLive
<1>1. IInv => CommitMeetsLive  BY DEF IInv, Flags
<1> QED  BY <1>1, FrameInvariant, PTL

-----------------------------------------------------------------------------
(* What a frame stores is what its projection was answered.                *)

\* The cursor's write is the last of them, and the only one not projected.
LEMMA CursorIsLast ==
    ASSUME TypeOK, InStep, WritesAnswered, Applied(writes)
    PROVE  /\ Len(writes) \in Nat \ {0}
           /\ writes[Len(writes)].write = CursorWrite
<1>s. writes \in Seq(RowRecord)  BY DEF TypeOK
<1>1. PICK c \in DOMAIN writes : writes[c].write = CursorWrite
  BY DEF Applied
<1>2. c \in 1 .. Len(writes) /\ Len(writes) \in Nat  BY <1>s, <1>1
<1>3. writes[Len(writes)] \in RowRecord /\ writes[c] \in RowRecord  BY <1>s, <1>2
<1>4. writes[Len(writes)].write \in Write  BY <1>3 DEF RowRecord
<1>5. c < Len(writes) => writes[c].write < writes[Len(writes)].write
  BY <1>2, <1>s DEF WritesAnswered
<1> QED  BY <1>1, <1>2, <1>4, <1>5, Numbers

LEMMA StoresAnswers ==
    ASSUME IInv, [Next]_vars, NEW f \in Frame, rows'[f] # rows[f]
    PROVE  LET projected == SubSeq(rows'[f], 1, Len(rows'[f]) - 1) IN
           /\ f = frame
           /\ \A i \in DOMAIN projected :
                 answers[projected[i].write] = projected[i].answer
           /\ \A i, j \in DOMAIN projected :
                 i < j => projected[i].write < projected[j].write
           /\ \A w \in 1 .. MaxWrites : answers[w] \in Answer =>
                 \E i \in DOMAIN projected : projected[i].write = w
<1> TypeOK /\ InStep /\ WritesAnswered
  BY DEF IInv
<1> DEFINE projected == SubSeq(rows'[f], 1, Len(rows'[f]) - 1)
<1>1. Commit
  BY StepsOfNext, OnlyCommitStores
<1>2. /\ log = writes /\ Applied(writes) /\ frame \in Frame
      /\ rows' = [rows EXCEPT ![frame] = log]
  BY <1>1, CommitFacts
<1>3. f = frame /\ rows'[f] = writes  BY <1>2 DEF TypeOK
<1>4. writes \in Seq(RowRecord) /\ Len(writes) \in Nat \ {0}
      /\ writes[Len(writes)].write = CursorWrite
  BY <1>2, CursorIsLast DEF TypeOK
<1>5. /\ DOMAIN projected = 1 .. Len(writes) - 1
      /\ \A i \in DOMAIN projected : projected[i] = writes[i]
  BY <1>3, <1>4
<1>6. DOMAIN writes = 1 .. Len(writes)  BY <1>4
<1>7. DOMAIN projected \subseteq DOMAIN writes  BY <1>4, <1>5, <1>6
<1> HIDE DEF projected
<1>8. \A i \in DOMAIN projected : answers[projected[i].write] = projected[i].answer
  BY <1>5, <1>7 DEF WritesAnswered
<1>9. \A i, j \in DOMAIN projected : i < j => projected[i].write < projected[j].write
  BY <1>5, <1>7 DEF WritesAnswered
<1>10. ASSUME NEW w \in 1 .. MaxWrites, answers[w] \in Answer
       PROVE  \E i \in DOMAIN projected : projected[i].write = w
  <2>1. PICK i \in DOMAIN writes : writes[i].write = w
    BY <1>10 DEF WritesAnswered
  <2>2. i # Len(writes)  BY <2>1, <1>4, Numbers
  <2>3. i \in DOMAIN projected  BY <2>2, <1>4, <1>5, <1>6
  <2> QED  BY <2>1, <2>3, <1>5
<1> QED  BY <1>3, <1>8, <1>9, <1>10 DEF projected

\* However often a frame's transaction failed and its writes were replayed, what
\* lifecycleFrame.commit stores is each write its projection was told is stored,
\* once, in order, with the answer the projection went on.
THEOREM StoredIsAnswered == Spec => StoredAsAnswered
<1> DEFINE Step == \A f \in Frame : rows'[f] # rows[f] =>
      LET projected == SubSeq(rows'[f], 1, Len(rows'[f]) - 1) IN
      /\ f = frame
      /\ \A i \in DOMAIN projected : answers[projected[i].write] = projected[i].answer
      /\ \A i, j \in DOMAIN projected : i < j => projected[i].write < projected[j].write
      /\ \A w \in 1 .. MaxWrites : answers[w] \in Answer =>
            \E i \in DOMAIN projected : projected[i].write = w
<1>1. IInv /\ [Next]_vars => [Step]_vars
  BY StoresAnswers
<1>2. Spec => [][Step]_vars
  <2> HIDE DEF Step
  <2> QED  BY <1>1, FrameInvariant, PTL DEF Spec
<1> QED  BY <1>2 DEF StoredAsAnswered

-----------------------------------------------------------------------------
(* The frames implement the ledger.                                        *)

ledger == [f \in 1 .. cursor |-> rows[f]]

LEMMA LedgerShape ==
    ASSUME NEW n \in Nat, NEW S, NEW r, \A f \in 1 .. n : r[f] \in S
    PROVE  /\ Len([f \in 1 .. n |-> r[f]]) = n
           /\ DOMAIN [f \in 1 .. n |-> r[f]] = 1 .. n
           /\ \A f \in 1 .. n : [g \in 1 .. n |-> r[g]][f] = r[f]
           /\ n > 0 => [f \in 1 .. n |-> r[f]] # <<>>
<1> DEFINE l == [f \in 1 .. n |-> r[f]]
<1>1. l \in Seq(S) /\ Len(l) = n  OBVIOUS
<1>2. n > 0 => l # <<>>  BY <1>1
<1> QED  BY <1>1, <1>2

LEMMA LedgerStep ==
    ASSUME IInv, TypeOK', [Next]_vars
    PROVE  [Ledger!Next]_(Ledger!vars)
<1> TypeOK /\ InStep /\ InHand
  BY DEF IInv
<1>1. CASE Commit
  <2>1. /\ frame = cursor + 1 /\ cursor' = frame
        /\ rows' = [rows EXCEPT ![frame] = log] /\ told' = told
    BY <1>1, CommitFacts DEF Commit
  <2>2. /\ Len(ledger) = cursor /\ DOMAIN ledger = 1 .. cursor
        /\ \A f \in 1 .. cursor : ledger[f] = rows[f]
    <3>1. cursor \in Nat /\ \A f \in 1 .. cursor : rows[f] \in Seq(RowRecord)
      BY Numbers DEF TypeOK
    <3> QED  BY <3>1, LedgerShape DEF ledger
  <2>5. /\ Len(ledger') = cursor + 1
        /\ \A f \in 1 .. cursor : ledger'[f] = rows'[f]
    <3>1. cursor \in Nat /\ cursor' = cursor + 1 /\ cursor' \in Nat
      BY <2>1, Numbers DEF TypeOK
    <3>2. \A f \in 1 .. cursor' : rows'[f] \in Seq(RowRecord)
      BY <3>1, Numbers, SMTT(30) DEF TypeOK
    <3>3. /\ Len(ledger') = cursor'
          /\ \A f \in 1 .. cursor' : ledger'[f] = rows'[f]
      BY <3>1, <3>2, LedgerShape DEF ledger
    <3> QED  BY <3>1, <3>3
  <2>3. \A f \in 1 .. cursor : rows'[f] = rows[f]
    BY <2>1, Numbers DEF TypeOK
  <2>4. Ledger!Apply
    BY <2>1, <2>2, <2>3, <2>5 DEF Ledger!Apply, ledger
  <2> QED  BY <2>4 DEF Ledger!Next
<1>2. CASE Tell
  <2>1. frame = cursor /\ cursor > 0 /\ told[1] <= cursor
    BY <1>2 DEF Tell, InHand, Busy
  <2>2. told' = <<frame, (IF told[1] = frame THEN told[2] ELSE 0) + 1>>
        /\ UNCHANGED <<rows, cursor>>
    BY <1>2 DEF Tell, ToldOfFrame, fileVars
  <2>3. Len(ledger) = cursor /\ ledger # <<>> /\ ledger' = ledger
    <3>1. cursor \in Nat /\ \A f \in 1 .. cursor : rows[f] \in Seq(RowRecord)
      BY Numbers DEF TypeOK
    <3>2. Len(ledger) = cursor /\ ledger # <<>>
      BY <2>1, <3>1, LedgerShape DEF ledger
    <3> QED  BY <2>2, <3>2 DEF ledger
  <2>4. \/ told[1] = Len(ledger) /\ told' = <<told[1], told[2] + 1>>
        \/ told[1] < Len(ledger) /\ told' = <<Len(ledger), 1>>
    <3>1. cursor \in Nat /\ told[1] \in Nat  BY Numbers DEF TypeOK
    <3>2. CASE told[1] = cursor  BY <2>1, <2>2, <2>3, <3>2
    <3>3. CASE told[1] < cursor  BY <2>1, <2>2, <2>3, <3>1, <3>3
    <3> QED  BY <2>1, <3>1, <3>2, <3>3
  <2>5. Ledger!Tell
    BY <2>3, <2>4 DEF Ledger!Tell, ledger
  <2> QED  BY <2>5 DEF Ledger!Next
<1>3. CASE ~Commit /\ ~Tell
  <2>1. UNCHANGED <<rows, cursor, told>>
    BY <1>3, StepsOfNext, OnlyCommitStores, OnlyTellTells
  <2> QED  BY <2>1 DEF Ledger!vars
<1> QED  BY <1>1, <1>2, <1>3

\* Whatever fails, stops or dies, the frames are stored whole and in order, and
\* told of once they are stored, at most once: what Queue.End and the cursor
\* are for.
THEOREM FramesImplementLedger == Spec => ImplementsFrameLedger
<1>1. Init => Ledger!Init
  <2> SUFFICES ASSUME Init PROVE Ledger!Init
    OBVIOUS
  <2>1. cursor = 0 /\ told = <<0, 0>>  BY DEF Init
  <2>2. ledger = <<>>  BY <2>1 DEF ledger
  <2> QED  BY <2>1, <2>2 DEF Ledger!Init, ledger
<1>2. IInv /\ IInv' /\ [Next]_vars => [Ledger!Next]_(Ledger!vars)
  BY LedgerStep DEF IInv
<1> QED
  BY <1>1, <1>2, FrameInvariant, PTL DEF Spec, ImplementsFrameLedger, Ledger!Spec

=============================================================================
