---------------------------- MODULE MCDhcpNetwork ----------------------------
(* A subnet of 8 addresses; both clients hash to the same offset.          *)
EXTENDS DhcpNetwork, TLC

CONSTANTS c1, c2

MCClient == {c1, c2}
MCHash == (c1 :> 2) @@ (c2 :> 2)
MCForeign == {c1}
MCConfigs == {<<2, 0, 3>>, <<1, 7, 1>>, <<1, 6, 2>>, <<0, 1, 1>>, <<7, 1, 1>>}
MCMaxXid == (c1 :> 2) @@ (c2 :> 1)
MCRoamed == {0, 2}
=============================================================================
