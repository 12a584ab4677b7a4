\* Every lease of the sets below, every order of its timers.
SPECIFICATION TimersSpec
CONSTANTS
  Lifetimes <- MCLifetimes
  Rebinds <- MCRebinds
  Elapsed = {0, 20}
  Jitters = {0, 17}
  Infinite = 8191
  Word = 8192
INVARIANTS
  ExpiresInTime
  ResendWithinLease
PROPERTY
  RenewThenRebind
CHECK_DEADLOCK FALSE
