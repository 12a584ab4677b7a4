\* The lease goes while the reply to its address request is under way.
SPECIFICATION ReportSpec
CONSTANTS
  l1 = l1
  l2 = l2
  l3 = l3
  a1 = a1
  a2 = a2
  Lease <- MCLease
  Addr <- MCAddr
  AddrOf <- MCAddrOf
  RoutesOf <- MCRoutesOf
  NoLease = NoLease
  Refusals = FALSE
  Errors = FALSE
  MaxQueue = 3
INVARIANT
  RoutesHaveLease
CHECK_DEADLOCK FALSE
