\* Resets, altered chunks, failed commands, restarts of both sides, overlapping retries.
SPECIFICATION UploaderSpec
CONSTANTS
  Chunks = 2
  MaxConns = 2
  Corruption = TRUE
  Crashes = TRUE
INVARIANTS
  UploaderTypeOK
  NoDataLoss
  OnlyOverlapsDamage
PROPERTY
  ImplementsDelivery
CHECK_DEADLOCK FALSE
