---------------------------- MODULE MCDhcpClient ----------------------------
(* Two leases on two addresses, and the transaction ids of the cfg.        *)
EXTENDS DhcpClient, TLC

CONSTANTS l1, l2, a1, a2

MCLease == {l1, l2}
MCAddr == {a1, a2}
MCAddrOf == (l1 :> a1) @@ (l2 :> a2)
=============================================================================
