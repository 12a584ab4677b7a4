\* The server is killed while the client waits for its digest.
SPECIFICATION FairUploaderSpec
CONSTANTS
  Chunks = 2
  MaxConns = 2
  Corruption = FALSE
  Crashes = TRUE
PROPERTY
  ScansAgain
CHECK_DEADLOCK FALSE
