\* The client alone: every local failure, every interleaving, a fair network.
SPECIFICATION FairClientSpec
CONSTANTS
  l1 = l1
  l2 = l2
  a1 = a1
  a2 = a2
  Lease <- MCLease
  Addr <- MCAddr
  AddrOf <- MCAddrOf
  NoLease = NoLease
  NoAddr = NoAddr
  Xid = {x1, x2, x3}
  NoXid = NoXid
  Faults = {"bind", "io", "time", "send"}
  MaxAttempt = 64
  MinDelay = 5
  MaxDelay = 20
INVARIANTS
  ClientTypeOK
  NeverStranded
  LeaseBacked
  TimersNeedLease
  RequestPrecedesAck
  RenewAtOnce
  NoStaleAck
PROPERTIES
  ImplementsService
  Acquires
