CONSTANTS
    MaxFrames = 2
    MaxWrites = 2
    MaxEffects = 2
    MaxAttempts = 3
    Answer = {a, b}
SPECIFICATION Spec
INVARIANTS TypeOK RowsWithCursor CommitMeetsLive
PROPERTIES StoredAsAnswered ImplementsFrameLedger
