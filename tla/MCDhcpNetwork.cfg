\* Two clients, two free addresses, loss, one restart of the server.
SPECIFICATION NetworkSpec
CONSTANTS
  c1 = c1
  c2 = c2
  Client <- MCClient
  Hash <- MCHash
  Foreign <- MCForeign
  Configs <- MCConfigs
  Roamed <- MCRoamed
  Nobody = Nobody
  Reserved = Reserved
  NoEntry = NoEntry
  Broadcast = 7
  Width = 4
  SendErrors = TRUE
  MaxXid <- MCMaxXid
  MaxQueue = 1
  MaxReplies = 2
  MaxRestarts = 1
INVARIANTS
  NetworkTypeOK
  TablesAgree
  LeasesAddressed
  HoldersRegistered
  NoSharedAddress
CHECK_DEADLOCK FALSE
