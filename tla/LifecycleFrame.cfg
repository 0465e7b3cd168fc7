CONSTANTS
    MaxFrames = 2
    MaxWrites = 2
    MaxEffects = 1
    MaxAttempts = 3
    Answer = {a, b}
SPECIFICATION FairSpec
INVARIANTS TypeOK RowsWithCursor CommitMeetsLive
PROPERTIES StoredAsAnswered ImplementsFrameLedger FrameEnds HoldEnds
