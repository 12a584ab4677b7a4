---------------------------- MODULE MCLeaseTimers ----------------------------
(* Short leases, where the three-second margin and the jitter matter, and  *)
(* longer ones on both sides of the wrap-around of a word of 8192.         *)
EXTENDS LeaseTimers

MCLifetimes == (1 .. 12) \cup {64, 1000, 1170, 1171, 8191}
MCRebinds == (0 .. 12) \cup {31, 32, 33, 56, 57, 63, 128, 500, 585, 875, 1023}
=============================================================================
