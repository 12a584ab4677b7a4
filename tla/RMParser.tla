------------------------------ MODULE RMParser ------------------------------
(***************************************************************************)
(* The analyzer's parser of roamingd.log, RMParser.parse of                *)
(* server_tools/analyzer/lib/roamingd.py, reading what a link (LinkDhcp4)  *)
(* writes.  Each step of the link is taken together with the parser's step *)
(* on the line it logs: the parser runs later, on the server, but over the *)
(* same lines in the same order, and keeps nothing else per interface.     *)
(***************************************************************************)
EXTENDS LinkDhcp4

VARIABLES
  rm,        \* intf_results[intf]["state"]
  started,   \* "T_dhcp_s" is in intf_results[intf]["info_blk"]
  rm_failed  \* what ended the parser, or "none"

parserVars == <<rm, started, rm_failed>>
reportVars == <<vars, parserVars>>

ParserInit == rm = "LOST_CARRIER" /\ started = FALSE /\ rm_failed = "none"

(* A line that matches none of the patterns used here.                     *)
Skip == UNCHANGED parserVars

(* assert; once it fails no line is read any more.                         *)
Asserts(holds, what) ==
  rm_failed = "none" /\ rm_failed' = IF holds THEN "none" ELSE what

Acquiring ==
  \/ rm_failed # "none" /\ Skip
  \/ /\ Asserts(rm = "LOST_CARRIER", "acquiring")
     /\ rm' = "GAINED_CARRIER" /\ started' = TRUE

AddressVia ==
  \/ rm_failed # "none" /\ Skip
  \/ /\ Asserts(rm = "GAINED_CARRIER", "address")
     /\ rm' = "GET_IP" /\ UNCHANGED started

(* Mutant: the state is not reset.                                         *)
MutLostKept ==
  \/ rm_failed # "none" /\ Skip
  \/ Asserts(started, "info_blk") /\ started' = FALSE /\ UNCHANGED rm

(* The constructor of _InfoBlk raises if nothing was acquired in this period. *)
LostCarrier ==
  \/ rm_failed # "none" /\ Skip
  \/ /\ Asserts(started, "info_blk")
     /\ rm' = "LOST_CARRIER" /\ started' = FALSE

-----------------------------------------------------------------------------
(* The lines the link logs.                                                *)

(* link_acquire_conf.                                                      *)
LogConfigure == IF carrier THEN Acquiring ELSE Skip

(* link_update and, in link_carrier_gained, link_acquire_conf.             *)
LogCarrier ==
  \/ ~carrier /\ carrier' /\ lstate # "FAILED" /\ Acquiring
  \/ carrier /\ ~carrier' /\ LostCarrier
  \/ (carrier' = carrier \/ (carrier' /\ lstate = "FAILED")) /\ Skip

(* dhcp_lease_acquired; the line of a lease without router does not match, *)
(* and dhcp_lease_renew logs none.                                         *)
LogGrant(l) ==
  IF GrantEvent(l) # "RENEW" /\ RoutesOf[l] # 0 THEN AddressVia ELSE Skip

ReportInit == LinkInit /\ ParserInit

ReportDispatch ==
  \/ link_update /\ LogCarrier
  \/ /\ address_update \/ address_drop \/ dhcp4_address_handler \/ dhcp4_route_handler
     /\ Skip

ReportNext ==
  \/ link_configure /\ LogConfigure
  \/ ReportDispatch
  \/ \E l \in Lease, ok \in Answers : LeaseGranted(l, ok) /\ LogGrant(l)
  \/ /\ \/ \E l \in Lease : LeaseUnreadable(l)
        \/ LeaseExpired \/ ClientAlone \/ CarrierChanges
        \/ \E a \in Addr : AddressExpires(a)
     /\ Skip

ReportSpec == ReportInit /\ [][ReportNext]_reportVars

(* sd-event serves the netlink socket as long as messages are queued.      *)
FairReportSpec == ReportSpec /\ WF_reportVars(ReportDispatch)

-----------------------------------------------------------------------------
(* Properties.                                                             *)

(* The connection periods the analyzer reports are those of the link: a    *)
(* period is open exactly while the link has its carrier, and it has an    *)
(* address as soon as the link was granted a lease with a router.  The     *)
(* first assertion of parse (70) never fails.                              *)
PeriodsMatch ==
  /\ rm_failed # "acquiring"
  /\ rm_failed = "none" /\ lstate \notin {"PENDING", "FAILED"} =>
       /\ rm = "LOST_CARRIER" <=> ~carrier
       /\ started <=> carrier
       /\ phase = "bound" /\ RoutesOf[holding] # 0 => rm = "GET_IP"

(* assert intf_results[intf]["state"] == _RMState.GAINED_CARRIER (80): an  *)
(* address is acquired once in a period of carrier.                        *)
AddressOncePerCarrier == rm_failed # "address"

=============================================================================
