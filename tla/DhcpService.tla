----------------------------- MODULE DhcpService -----------------------------
(***************************************************************************)
(* What the DHCPv4 client promises its owner, and all that roamingd-link.c *)
(* and roamingd-dhcp4.c see of it: how far it got, the lease that          *)
(* sd_dhcp_client_get_lease hands out, and the event each step announces.  *)
(* DhcpClient implements this specification.                               *)
(***************************************************************************)
CONSTANTS Lease, NoLease

VARIABLES
  phase,    \* idle, starting (nothing sent), asking for a lease, or bound
  holding   \* the lease sd_dhcp_client_get_lease returns

serviceVars == <<phase, holding>>

ServiceInit == phase = "idle" /\ holding = NoLease

(* sd_dhcp_client_start; it may fail, which leaves the client idle.        *)
Start(works) ==
  /\ phase' = IF works THEN "starting" ELSE "idle"
  /\ holding' = NoLease

(* sd_dhcp_client_stop announces STOP, an error (client_stop) its code.    *)
Stop == phase' = "idle" /\ holding' = NoLease

(* The first DISCOVER or REQUEST goes out.                                 *)
Ask == phase = "starting" /\ phase' = "asking" /\ UNCHANGED holding

(* A server acknowledges lease l.                                          *)
Grant(l) ==
  /\ phase \in {"asking", "bound"}
  /\ phase' = "bound" /\ holding' = l

(* The event that announces an acknowledged lease.                         *)
GrantEvent(l) == IF phase = "asking" THEN "IP_ACQUIRE"
                 ELSE IF l = holding THEN "RENEW"
                 ELSE "IP_CHANGE"

(* The client starts over: announced as EXPIRED when the lease ran out,    *)
(* not announced after a NAK or when nobody answers for the old address.   *)
StartOver == phase # "idle" /\ phase' = "starting" /\ holding' = NoLease

ServiceNext ==
  \/ phase = "idle" /\ \E works \in BOOLEAN : Start(works)
  \/ Stop
  \/ Ask
  \/ \E l \in Lease : Grant(l)
  \/ StartOver

ServiceSpec == ServiceInit /\ [][ServiceNext]_serviceVars
=============================================================================
