\* The client is restarted and retries while old data is still delivered.
SPECIFICATION UploaderSpec
CONSTANTS
  Chunks = 2
  MaxConns = 2
  Corruption = FALSE
  Crashes = FALSE
INVARIANT
  TarDirComplete
CHECK_DEADLOCK FALSE
