------------------------ MODULE LifecycleFrameClaims ------------------------
(***************************************************************************)
(* What a comment of internal/content/lifecycle_frame.go says of a frame   *)
(* and the code does not do.                                               *)
(***************************************************************************)
EXTENDS LifecycleFrame

\* ErrFrameReplayDiverged: a frame one of whose writes answered differently
\* from the first time fails "rather than store it".  (frameAnswer.settle runs
\* before the write's savepoint is released, so a write that failed after it
\* and answers otherwise on its next run diverges too; write() takes that for
\* the store's answer and the frame commits without the write.)
DivergedFrameFails ==
    [][rows' # rows => \A w \in Write : answers[w] # "diverged"]_vars

=============================================================================
