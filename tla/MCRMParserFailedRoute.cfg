\* The kernel refuses the last route of a lease.
SPECIFICATION ReportSpec
CONSTANTS
  l1 = l1
  l2 = l2
  l3 = l3
  a1 = a1
  a2 = a2
  Lease <- MCLease
  Addr <- MCAddr
  AddrOf <- MCAddrOf
  RoutesOf <- MCRoutesOf
  NoLease = NoLease
  Refusals = TRUE
  Errors = FALSE
  MaxQueue = 3
INVARIANT
  ConfiguredFromSettingRoutes
CHECK_DEADLOCK FALSE
