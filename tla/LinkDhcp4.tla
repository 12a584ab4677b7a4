----------------------------- MODULE LinkDhcp4 ------------------------------
(***************************************************************************)
(* A wireless link of roamingd under DHCPv4 (roamingd-link.c,              *)
(* roamingd-dhcp4.c, roamingd-address.c), composed with its DHCP client    *)
(* (DhcpService, which DhcpClient implements) and with the kernel.         *)
(*                                                                         *)
(* roamingd is one event loop: a handler is one action, and the client's   *)
(* callback dhcp4_handler runs inside the client's step.  The kernel acts  *)
(* on a request when it is sent; its replies and its notifications reach   *)
(* roamingd later, in order, through one netlink socket (queue).           *)
(***************************************************************************)
EXTENDS DhcpService, Integers, Sequences, FiniteSets

CONSTANTS
  Addr,       \* IPv4 addresses
  AddrOf,     \* the address of a lease
  RoutesOf,   \* how many routes a lease asks for, 0 if it has no router
  Refusals,   \* TRUE if the kernel may refuse a request
  Errors,     \* TRUE if the client's start or its event sources may fail
  MaxQueue    \* bound: no new event while this many messages are queued

ASSUME LinkAssumption ==
  /\ AddrOf \in [Lease -> Addr]
  /\ RoutesOf \in [Lease -> Nat]
  /\ NoLease \notin Lease
  /\ Refusals \in BOOLEAN /\ Errors \in BOOLEAN
  /\ MaxQueue \in Nat

VARIABLES
  lstate,             \* link->state
  carrier,            \* link_has_carrier(link)
  dhcp_lease,         \* link->dhcp_lease
  dhcp4_messages,     \* link->dhcp4_messages
  dhcp4_configured,   \* link->dhcp4_configured
  static_configured,  \* link->static_configured
  addresses,          \* link->addresses and link->addresses_foreign
  failed_assert,      \* the assertion that ended the daemon, or "none"
  kcarrier,           \* the carrier the kernel sees
  kaddrs,             \* the addresses the kernel has on the link
  queue               \* netlink messages not yet read

configVars == <<dhcp_lease, dhcp4_messages, dhcp4_configured>>
kernelVars == <<kcarrier, kaddrs, queue>>
linkVars == <<lstate, carrier, configVars, static_configured, addresses, failed_assert>>
vars == <<serviceVars, linkVars, kernelVars>>

LinkStates == {"PENDING", "SETTING_ROUTES", "CONFIGURED", "FAILED"}
AddressStates == {"absent", "tentative", "ready", "foreign"}

NewLink(c) == [type |-> "NEWLINK", carrier |-> c]
NewAddr(a) == [type |-> "NEWADDR", addr |-> a]
DelAddr(a) == [type |-> "DELADDR", addr |-> a]
AddrReply(ok) == [type |-> "ADDR_REPLY", ok |-> ok]
RouteReply(ok) == [type |-> "ROUTE_REPLY", ok |-> ok]

Running == failed_assert = "none" /\ lstate # "PENDING"

Received(type) == Running /\ queue # <<>> /\ Head(queue).type = type

-----------------------------------------------------------------------------
(* The kernel.                                                             *)

Answers == IF Refusals THEN BOOLEAN ELSE {TRUE}

(* address_remove(a) as the kernel carries it out: the notification.       *)
Removal(a) == IF a \in kaddrs THEN <<DelAddr(a)>> ELSE <<>>

(* address_configure(a): a notification and the reply to the request.      *)
Addition(a, ok) == IF ok THEN <<NewAddr(a), AddrReply(TRUE)>> ELSE <<AddrReply(FALSE)>>

(* The replies to the n routes of a lease on address a: a route whose      *)
(* preferred source is not on the link is refused.                         *)
RouteReplies(n, a) ==
  [1 .. n -> {RouteReply(ok) : ok \in IF a \in kaddrs THEN Answers ELSE {FALSE}}]

(* The station associates with an access point or leaves it.               *)
CarrierChanges ==
  /\ Running /\ Len(queue) < MaxQueue
  /\ kcarrier' = ~kcarrier
  /\ queue' = Append(queue, NewLink(~kcarrier))
  /\ UNCHANGED <<serviceVars, linkVars, kaddrs>>

(* The valid lifetime of an address ends.  The client gives a lease up     *)
(* before (LeaseTimers), so this is never the address of a lease it holds. *)
AddressExpires(a) ==
  /\ Running /\ Len(queue) < MaxQueue
  /\ a \in kaddrs
  /\ holding # NoLease => AddrOf[holding] # a
  /\ kaddrs' = kaddrs \ {a}
  /\ queue' = Append(queue, DelAddr(a))
  /\ UNCHANGED <<serviceVars, linkVars, kcarrier>>

-----------------------------------------------------------------------------
(* The link.                                                               *)

(* Mutant: a failed link leaves its clients running.                       *)
MutFailedRuns(fails) == UNCHANGED serviceVars

(* link_enter_failed and link_stop_clients: the link is FAILED before the  *)
(* client is stopped, so dhcp4_handler ignores the STOP event.             *)
StopIfFailed(fails) ==
  IF fails /\ lstate # "FAILED" THEN Stop ELSE UNCHANGED serviceVars

(* Whether sd_dhcp_client_start succeeds.                                  *)
Works == IF Errors THEN BOOLEAN ELSE {TRUE}

FailIf(fails) == IF fails THEN "FAILED" ELSE lstate

Ready(configured, addrs) ==
  /\ static_configured
  /\ configured
  /\ \A a \in Addr : addrs[a] # "tentative"

(* link_check_ready of a link in state s, and link_enter_configured, which *)
(* asserts that s is SETTING_ROUTES.                                       *)
link_check_ready(s, configured, addrs) ==
  /\ lstate' = IF Ready(configured, addrs) /\ s = "SETTING_ROUTES" THEN "CONFIGURED" ELSE s
  /\ failed_assert' = IF Ready(configured, addrs) /\ s \notin {"SETTING_ROUTES", "CONFIGURED"}
                      THEN "link_enter_configured" ELSE "none"

(* link_add and link_configure: in one go up to SETTING_ROUTES, since a    *)
(* CarFi network has no static addresses or routes.                        *)
link_configure ==
  /\ failed_assert = "none" /\ lstate = "PENDING"
  /\ \E works \in Works :
       /\ IF carrier THEN Start(works) ELSE works /\ UNCHANGED serviceVars
       /\ lstate' = IF works THEN "SETTING_ROUTES" ELSE "FAILED"
       /\ static_configured' = works
  /\ UNCHANGED <<carrier, configVars, addresses, failed_assert, kernelVars>>

(* dhcp_lease_lost, if lost, with the messages q queued before it.         *)
dhcp_lease_lost(lost, q) ==
  LET a == AddrOf[dhcp_lease]
  IN  /\ dhcp_lease' = IF lost THEN NoLease ELSE dhcp_lease
      /\ dhcp4_configured' = (dhcp4_configured /\ ~lost)
      /\ kaddrs' = IF lost THEN kaddrs \ {a} ELSE kaddrs
      /\ queue' = IF lost THEN q \o Removal(a) ELSE q

(* link_carrier_gained, which a failed link ignores.                       *)
link_carrier_gained ==
  /\ IF lstate = "FAILED"
     THEN UNCHANGED <<lstate, serviceVars>>
     ELSE \E works \in Works : Start(works) /\ lstate' = FailIf(~works)
  /\ queue' = Tail(queue)
  /\ UNCHANGED <<configVars, kaddrs>>

(* Mutant: losing the carrier does not stop the client.                    *)
MutCarrierIgnored ==
  /\ queue' = Tail(queue)
  /\ UNCHANGED <<lstate, serviceVars, configVars, kaddrs>>

(* link_carrier_lost: the client is stopped, and dhcp4_handler hears STOP. *)
link_carrier_lost ==
  /\ Stop
  /\ dhcp_lease_lost(lstate # "FAILED" /\ dhcp_lease # NoLease, Tail(queue))
  /\ UNCHANGED <<lstate, dhcp4_messages>>

(* manager_rtnl_process_link, and link_update as far as the carrier goes:  *)
(* the name, MTU and MAC address of a link do not change here.  (A new MAC *)
(* address restarts the client, and an MTU the client refuses hides the    *)
(* change of the carrier.)                                                 *)
link_update ==
  /\ Received("NEWLINK")
  /\ carrier' = Head(queue).carrier
  /\ \/ ~carrier /\ carrier' /\ link_carrier_gained
     \/ carrier /\ ~carrier' /\ link_carrier_lost
     \/ /\ carrier' = carrier
        /\ queue' = Tail(queue)
        /\ UNCHANGED <<lstate, serviceVars, configVars, kaddrs>>
  /\ UNCHANGED <<static_configured, addresses, failed_assert, kcarrier>>

(* manager_rtnl_process_address: an address the link did not ask for is    *)
(* foreign; one that becomes ready may complete the configuration.         *)
address_update ==
  LET a == Head(queue).addr
      now == IF addresses[a] \in {"absent", "foreign"} THEN "foreign" ELSE "ready"
      new == [addresses EXCEPT ![a] = now]
  IN
  /\ Received("NEWADDR")
  /\ addresses' = new
  /\ IF addresses[a] \in {"absent", "tentative"}
     THEN link_check_ready(lstate, dhcp4_configured, new)
     ELSE UNCHANGED <<lstate, failed_assert>>
  /\ queue' = Tail(queue)
  /\ UNCHANGED <<serviceVars, carrier, configVars, static_configured, kcarrier, kaddrs>>

(* Mutant: a removed address stays on record.                              *)
MutNotDropped ==
  /\ Received("DELADDR")
  /\ queue' = Tail(queue)
  /\ UNCHANGED <<serviceVars, linkVars, kcarrier, kaddrs>>

address_drop ==
  LET a == Head(queue).addr
      new == [addresses EXCEPT ![a] = "absent"]
  IN
  /\ Received("DELADDR")
  /\ addresses' = new
  /\ IF addresses[a] = "tentative"
     THEN link_check_ready(lstate, dhcp4_configured, new)
     ELSE UNCHANGED <<lstate, failed_assert>>
  /\ queue' = Tail(queue)
  /\ UNCHANGED <<serviceVars, carrier, configVars, static_configured, kcarrier, kaddrs>>

-----------------------------------------------------------------------------
(* DHCPv4 on the link.                                                     *)

(* dhcp4_address_handler and link_set_dhcp_routes, which asserts that the  *)
(* lease is still there.                                                   *)
dhcp4_address_handler ==
  /\ Received("ADDR_REPLY")
  /\ lstate' = FailIf(~Head(queue).ok)
  /\ StopIfFailed(~Head(queue).ok)
  /\ \/ /\ dhcp_lease = NoLease
        /\ failed_assert' = "link_set_dhcp_routes"
        /\ queue' = Tail(queue)
        /\ UNCHANGED dhcp4_messages
     \/ /\ dhcp_lease # NoLease
        /\ \E replies \in RouteReplies(RoutesOf[dhcp_lease], AddrOf[dhcp_lease]) :
             queue' = Tail(queue) \o replies
        /\ dhcp4_messages' = dhcp4_messages + RoutesOf[dhcp_lease]
        /\ UNCHANGED failed_assert
  /\ UNCHANGED <<carrier, dhcp_lease, dhcp4_configured, static_configured, addresses,
                 kcarrier, kaddrs>>

(* Mutants: the first reply stands for all routes; a reply counts twice.   *)
MutFirstReply == 0
MutCountedTwice == dhcp4_messages - 2

LessMessages == dhcp4_messages - 1

dhcp4_route_handler ==
  LET fails == ~Head(queue).ok
  IN
  /\ Received("ROUTE_REPLY")
  /\ dhcp4_messages' = LessMessages
  /\ StopIfFailed(fails)
  /\ IF dhcp4_messages' = 0
     THEN /\ dhcp4_configured' = TRUE
          /\ link_check_ready(FailIf(fails), TRUE, addresses)
     ELSE /\ lstate' = FailIf(fails)
          /\ UNCHANGED <<dhcp4_configured, failed_assert>>
  /\ queue' = Tail(queue)
  /\ UNCHANGED <<carrier, dhcp_lease, static_configured, addresses, kcarrier, kaddrs>>

(* address_configure records the address; a foreign one is taken over.     *)
address_add(a) ==
  addresses' = [addresses EXCEPT ![a] = CASE @ = "absent" -> "tentative"
                                          [] @ = "foreign" -> "ready"
                                          [] OTHER -> @]

(* Mutant: a lease that is still configured is kept.                       *)
MutKeptLease(l) == dhcp_lease' = IF dhcp_lease = NoLease THEN l ELSE dhcp_lease

TakeLease(l) == dhcp_lease' = l

(* A lease is acknowledged: dhcp_lease_renew for RENEW, dhcp_lease_acquired *)
(* for IP_ACQUIRE, dhcp_lease_lost before it for IP_CHANGE.                 *)
LeaseGranted(l, ok) ==
  LET a == AddrOf[l]
      lost == GrantEvent(l) = "IP_CHANGE" /\ dhcp_lease # NoLease
      old == IF lost THEN {AddrOf[dhcp_lease]} ELSE {}
  IN
  /\ Running /\ lstate # "FAILED" /\ Len(queue) < MaxQueue
  /\ Grant(l)
  /\ TakeLease(l)
  /\ dhcp4_configured' = (dhcp4_configured /\ GrantEvent(l) # "RENEW" /\ ~lost)
  /\ address_add(a)
  /\ kaddrs' = (kaddrs \ old) \cup (IF ok THEN {a} ELSE {})
  /\ queue' = queue \o (IF lost THEN Removal(AddrOf[dhcp_lease]) ELSE <<>>) \o Addition(a, ok)
  /\ UNCHANGED <<lstate, carrier, dhcp4_messages, static_configured, failed_assert, kcarrier>>

(* The client loses its socket while it announces lease l: there is no     *)
(* lease to read, and the link fails.                                      *)
LeaseUnreadable(l) ==
  /\ Errors /\ Running /\ phase \in {"asking", "bound"} /\ lstate # "FAILED"
  /\ lstate' = "FAILED"
  /\ Stop
  /\ dhcp_lease_lost(GrantEvent(l) = "IP_CHANGE" /\ dhcp_lease # NoLease, queue)
  /\ UNCHANGED <<carrier, dhcp4_messages, static_configured, addresses, failed_assert, kcarrier>>

(* client_timeout_expire: EXPIRED is announced, then the client restarts.  *)
LeaseExpired ==
  /\ Running /\ phase = "bound"
  /\ StartOver \/ Stop
  /\ dhcp_lease_lost(dhcp_lease # NoLease, queue)
  /\ UNCHANGED <<lstate, carrier, dhcp4_messages, static_configured, addresses,
                 failed_assert, kcarrier>>

(* What the client does without the link acting on it: it asks, starts     *)
(* over after a NAK, or stops on an error, which is only logged.           *)
ClientAlone ==
  /\ Running
  /\ Ask \/ StartOver \/ (phase # "idle" /\ Stop)
  /\ UNCHANGED <<linkVars, kernelVars>>

-----------------------------------------------------------------------------

LinkInit ==
  /\ ServiceInit
  /\ kcarrier \in BOOLEAN /\ carrier = kcarrier
  /\ lstate = "PENDING" /\ failed_assert = "none"
  /\ dhcp_lease = NoLease /\ dhcp4_messages = 0
  /\ dhcp4_configured = FALSE /\ static_configured = FALSE
  /\ addresses = [a \in Addr |-> "absent"]
  /\ kaddrs = {} /\ queue = <<>>

(* manager_rtnl: one message of the socket.                                *)
Dispatch ==
  \/ link_update
  \/ address_update
  \/ address_drop
  \/ dhcp4_address_handler
  \/ dhcp4_route_handler

LinkNext ==
  \/ link_configure
  \/ Dispatch
  \/ \E l \in Lease, ok \in Answers : LeaseGranted(l, ok)
  \/ \E l \in Lease : LeaseUnreadable(l)
  \/ LeaseExpired
  \/ ClientAlone
  \/ CarrierChanges
  \/ \E a \in Addr : AddressExpires(a)

LinkSpec == LinkInit /\ [][LinkNext]_vars

-----------------------------------------------------------------------------
(* Properties.                                                             *)

(* The type invariant: the fields of struct Link that DHCPv4 uses.  That   *)
(* the unsigned dhcp4_messages of dhcp4_route_handler never goes below 0   *)
(* is part of it.                                                          *)
LinkTypeOK ==
  /\ lstate \in LinkStates
  /\ carrier \in BOOLEAN /\ kcarrier \in BOOLEAN
  /\ phase \in {"idle", "starting", "asking", "bound"}
  /\ holding \in Lease \cup {NoLease} /\ dhcp_lease \in Lease \cup {NoLease}
  /\ dhcp4_messages \in Nat
  /\ dhcp4_configured \in BOOLEAN /\ static_configured \in BOOLEAN
  /\ addresses \in [Addr -> AddressStates]
  /\ kaddrs \subseteq Addr

(* The link configures the lease its client holds, through renewals,       *)
(* changes, NAKs, expiries and carrier losses.                             *)
LeaseInSync == phase = "bound" /\ lstate # "FAILED" => dhcp_lease = holding

(* Once roamingd has seen the carrier go, neither the lease nor the client *)
(* that might get another is left; a failed link has no client at work.    *)
(* So link_carrier_gained and link_configure start an idle client only.    *)
QuietWithoutCarrier ==
  /\ ~carrier /\ lstate # "FAILED" => phase = "idle" /\ dhcp_lease = NoLease
  /\ lstate \in {"PENDING", "FAILED"} => phase = "idle"

(* The places of the replies to routes among the messages q.               *)
RoutesAwaited(q) == {i \in 1 .. Len(q) : q[i].type = "ROUTE_REPLY"}

(* assert(link->dhcp4_messages > 0) of dhcp4_route_handler (35): exactly   *)
(* the replies to routes still under way are counted, across lost leases.  *)
RouteRepliesCounted == dhcp4_messages = Cardinality(RoutesAwaited(queue))

(* Once the queue is drained, the addresses a link has on record are those *)
(* the kernel has, whatever was added and removed meanwhile.               *)
AddressesInSync ==
  Running /\ lstate # "FAILED" /\ queue = <<>> =>
    \A a \in Addr : a \in kaddrs <=> addresses[a] # "absent"

(* A lost carrier releases the lease, unless it comes back or the link has *)
(* failed.                                                                 *)
CarrierLossReleases ==
  ~kcarrier /\ dhcp_lease # NoLease ~>
    kcarrier \/ dhcp_lease = NoLease \/ lstate = "FAILED" \/ failed_assert # "none"

(* assert(link->dhcp_lease) of link_set_dhcp_routes (roamingd-dhcp4.c:59). *)
RoutesHaveLease == failed_assert # "link_set_dhcp_routes"

(* assert(link->state == LINK_STATE_SETTING_ROUTES) of                     *)
(* link_enter_configured (roamingd-link.c:665).                            *)
ConfiguredFromSettingRoutes == failed_assert # "link_enter_configured"

=============================================================================
