----------------------------- MODULE MCRMParser ------------------------------
(* l1 and l2 share an address and differ in their router; l3 has another   *)
(* address and no router.                                                  *)
EXTENDS RMParser, TLC

CONSTANTS l1, l2, l3, a1, a2

MCLease == {l1, l2, l3}
MCAddr == {a1, a2}
MCAddrOf == (l1 :> a1) @@ (l2 :> a1) @@ (l3 :> a2)
MCRoutesOf == (l1 :> 2) @@ (l2 :> 2) @@ (l3 :> 0)
=============================================================================
