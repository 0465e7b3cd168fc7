\* The four claims of UpdateClaims have this instance; each is checked alone:
\*   PROPERTY CertifiedStays       PROPERTY FinalisationRepeats
\*   INVARIANT LaunchesAreStarts   INVARIANT ExtractionExplained
SPECIFICATION Spec
CONSTANTS
  Windows = {w1, w2}
  NoWindow = NoWindow
  MaxBuild = 2
  Ids = {i1, i2, i3, i4}
  NoId = NoId
  ReadsVersion = TRUE
  MaxLaunches = 4
  MaxReplaced = 0
  MaxLegacy = 1
PROPERTY CertifiedStays
CHECK_DEADLOCK FALSE
