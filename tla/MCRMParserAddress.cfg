\* A link whose lease changes while it keeps its carrier.
SPECIFICATION ReportSpec
CONSTANTS
  l1 = l1
  l2 = l2
  l3 = l3
  a1 = a1
  a2 = a2
  Lease <- MCLease
  Addr <- MCAddr
  AddrOf <- MCAddrOf
  RoutesOf <- MCRoutesOf
  NoLease = NoLease
  Refusals = TRUE
  Errors = TRUE
  MaxQueue = 4
INVARIANT
  AddressOncePerCarrier
CHECK_DEADLOCK FALSE
