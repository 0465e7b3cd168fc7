CONSTANTS
    MaxFrames = 1
    MaxWrites = 1
    MaxEffects = 0
    MaxAttempts = 2
    Answer = {a, b}
SPECIFICATION Spec
PROPERTIES DivergedFrameFails
CHECK_DEADLOCK FALSE
