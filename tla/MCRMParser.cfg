\* One link, three leases, a kernel that may refuse requests, the parser of its log.
SPECIFICATION FairReportSpec
CONSTANTS
  l1 = l1
  l2 = l2
  l3 = l3
  a1 = a1
  a2 = a2
  Lease <- MCLease
  Addr <- MCAddr
  AddrOf <- MCAddrOf
  RoutesOf <- MCRoutesOf
  NoLease = NoLease
  Refusals = TRUE
  Errors = TRUE
  MaxQueue = 4
INVARIANTS
  LinkTypeOK
  LeaseInSync
  QuietWithoutCarrier
  RouteRepliesCounted
  AddressesInSync
  PeriodsMatch
PROPERTY
  CarrierLossReleases
CHECK_DEADLOCK FALSE
