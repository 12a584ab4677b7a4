------------------------ MODULE DhcpRefinementProofs ------------------------
(***************************************************************************)
(* DhcpClient implements DhcpService: a step of the client is a step of    *)
(* the service or leaves Phase and Held as they are.  The proof needs the  *)
(* inductive invariant of the client: a lease timer that fires, or an ACK  *)
(* that passes the filter, finds a client that is not idle.                *)
(***************************************************************************)
EXTENDS DhcpClientProofs

(* A step of the service, or none.                                         *)
ServiceStep == Service!ServiceNext \/ UNCHANGED <<Phase, Held>>

LEMMA InitRefines == ClientInit => Service!ServiceInit
  BY DEF ClientInit, Service!ServiceInit, Phase, Held, HasLease

(* What client_initialize, and the restart after it, look like from        *)
(* outside.                                                                *)
LEMMA ResetSeen ==
  ASSUME NEW s \in {"INIT", "INIT_REBOOT", "STOPPED"}, NEW sock, NEW x,
         NEW timer \in BOOLEAN, ResetTo(s, sock, x, timer)
  PROVE  /\ Held' = NoLease
         /\ sock = "none" /\ ~timer => Phase' = "idle"
         /\ (sock # "none" \/ timer) /\ s # "STOPPED" => Phase' = "starting"
  BY DEF ResetTo, Phase, Held, HasLease

LEMMA StopRefines ==
  ASSUME NEW s \in {"INIT", "STOPPED"}, client_initialize(s)
  PROVE  ServiceStep
<1>1. Held' = NoLease /\ Phase' = "idle"
  BY ResetSeen DEF client_initialize
<1> QED
  BY <1>1 DEF ServiceStep, Service!ServiceNext, Service!Stop

LEMMA RestartRefines ==
  ASSUME NEW s \in {"INIT", "INIT_REBOOT"}, NEW r, client_start_delayed(s, r)
  PROVE  ServiceStep
<1>1. CASE r \in {"bind", "time"} /\ client_initialize("INIT")
  BY <1>1, StopRefines
<1>2. CASE r = "io" /\ ResetTo("INIT", "none", NoXid, TRUE)
  <2>1. Held' = NoLease /\ Phase' = "starting"
    BY <1>2, ResetSeen
  <2> QED
    BY <2>1 DEF ServiceStep, Service!ServiceNext, Service!Start, Service!StartOver
<1>3. CASE r = "ok" /\ \E x \in FreshXid : ResetTo(s, "raw", x, TRUE)
  <2>1. Held' = NoLease /\ Phase' = "starting"
    BY <1>3, ResetSeen
  <2> QED
    BY <2>1 DEF ServiceStep, Service!ServiceNext, Service!Start, Service!StartOver
<1> QED
  BY <1>1, <1>2, <1>3 DEF client_start_delayed

(* Sending moves a client on from its start, and nothing else.             *)
LEMMA SendRefines ==
  ASSUME ClientInv, NEW r, resend, SendDiscover(r) \/ SendRequest(r)
  PROVE  ServiceStep
<1>1. CASE client_stop
  BY <1>1, StopRefines DEF client_stop
<1>2. CASE /\ resend' = TRUE /\ fd' = fd /\ lease' = lease
           /\ \/ state' = state
              \/ state \in {"INIT", "SELECTING"} /\ state' = "SELECTING"
              \/ state = "INIT_REBOOT" /\ state' = "REBOOTING"
  <2>1. CASE state' = state
    BY <1>2, <2>1 DEF ServiceStep, Phase, Held
  <2>2. CASE state = "SELECTING" /\ state' = "SELECTING"
    BY <1>2, <2>2 DEF ServiceStep, Phase, Held
  <2>3. CASE \/ state = "INIT" /\ state' = "SELECTING"
             \/ state = "INIT_REBOOT" /\ state' = "REBOOTING"
    <3>1. Phase = "starting" /\ Phase' = "asking" /\ Held = NoLease /\ Held' = NoLease
      BY <1>2, <2>3 DEF Phase, Held, HasLease
    <3> QED
      BY <3>1 DEF ServiceStep, Service!ServiceNext, Service!Ask
  <2> QED
    BY <1>2, <2>1, <2>2, <2>3
<1> QED
  BY <1>1, <1>2 DEF SendDiscover, SendRequest, ResendKeeps

(* A client with a lease is seen as bound.                                 *)
LEMMA BoundSeen ==
  ASSUME ClientInv, state \in HasLease
  PROVE  Phase = "bound" /\ Held = lease
  BY DEF ClientInv, NeverStranded, HasLease, Phase, Held

LEMMA TimeoutRefines ==
  ASSUME ClientInv, ClientInv', Timeouts
  PROVE  ServiceStep
<1>1. CASE \E r \in Outcome(FaultKinds) : client_timeout_resend(r)
  <2>1. PICK r \in Outcome(FaultKinds) : client_timeout_resend(r)
    BY <1>1
  <2>2. CASE client_start("INIT", r)
    BY <2>2, RestartRefines DEF client_start
  <2>3. CASE client_stop
    BY <2>3, StopRefines DEF client_stop
  <2>4. CASE SendDiscover(r) \/ SendRequest(r)
    BY <2>1, <2>4, SendRefines DEF client_timeout_resend
  <2> QED
    BY <2>1, <2>2, <2>3, <2>4 DEF client_timeout_resend
<1>2. CASE \E r \in Restarting, stops \in BOOLEAN : client_timeout_expire(r, stops)
  <2>1. PICK r \in Restarting, stops \in BOOLEAN : client_timeout_expire(r, stops)
    BY <1>2
  <2>2. client_initialize("STOPPED") \/ client_start_delayed("INIT", r)
    BY <2>1 DEF client_timeout_expire, client_start
  <2> QED
    BY <2>2, StopRefines, RestartRefines
<1>3. CASE \E r \in Restarting : client_timeout_t2(r)
  <2>1. PICK r \in Restarting : client_timeout_t2(r)
    BY <1>3
  <2>2. state \in HasLease
    BY <2>1 DEF client_timeout_t2, ClientInv, TimersNeedLease
  <2>3. CASE state' = "REBINDING" /\ lease' = lease
    <3>1. state' \in HasLease
      BY <2>3 DEF HasLease
    <3>2. Phase' = "bound" /\ Held' = lease'
      BY <3>1 DEF ClientInv, NeverStranded, HasLease, Phase, Held
    <3> QED
      BY <2>2, <2>3, <3>2, BoundSeen DEF ServiceStep
  <2>4. CASE client_initialize("INIT")
    BY <2>4, StopRefines
  <2>5. CASE ResetTo("INIT", "none", NoXid, TRUE)
    <3>1. Held' = NoLease /\ Phase' = "starting"
      BY <2>5, ResetSeen
    <3> QED
      BY <3>1 DEF ServiceStep, Service!ServiceNext, Service!Start, Service!StartOver
  <2> QED
    BY <2>1, <2>3, <2>4, <2>5 DEF client_timeout_t2
<1>4. CASE \E r \in Outcome({"time"}) : client_timeout_t1(r)
  <2>1. state \in HasLease
    BY <1>4 DEF client_timeout_t1, ClientInv, TimersNeedLease
  <2>2. PICK r \in Outcome({"time"}) : Renew(FALSE, r)
    BY <1>4 DEF client_timeout_t1
  <2> QED
    BY <2>1, <2>2, StopRefines, BoundSeen
    DEF Renew, client_stop, ServiceStep, HasLease, Phase, Held
<1> QED
  BY <1>1, <1>2, <1>3, <1>4 DEF Timeouts

LEMMA MessageRefines ==
  ASSUME ClientInv, ClientInv', Messages
  PROVE  ServiceStep
<1>1. CASE \E l \in Lease, r \in Outcome({"time"}) : client_handle_offer(l, r)
  <2>1. PICK l \in Lease, r \in Outcome({"time"}) : client_handle_offer(l, r)
    BY <1>1
  <2>2. CASE state' = "REQUESTING" /\ resend' = TRUE /\ fd' = fd
    <3>1. state = "SELECTING" /\ fd # "none"
      BY <2>1 DEF client_handle_offer, Answered
    <3>2. Phase = "asking" /\ Phase' = "asking" /\ Held = NoLease /\ Held' = NoLease
      BY <2>2, <3>1 DEF Phase, Held, HasLease
    <3> QED
      BY <3>2 DEF ServiceStep
  <2>3. CASE client_stop
    BY <2>3, StopRefines DEF client_stop
  <2> QED
    BY <2>1, <2>2, <2>3 DEF client_handle_offer
<1>2. CASE \E l \in Lease, r \in Restarting, stops \in BOOLEAN : client_handle_ack(l, r, stops)
  <2>1. PICK l \in Lease, r \in Restarting, stops \in BOOLEAN : client_handle_ack(l, r, stops)
    BY <1>2
  <2>2. CASE state' = "BOUND" /\ fd' = "udp" /\ lease' = l
    <3>1. Phase \in {"asking", "bound"}
      BY <2>1 DEF client_handle_ack, AwaitsAck, Answered, Phase, HasLease
    <3>2. Phase' = "bound" /\ Held' = l
      BY <2>2 DEF Phase, Held, HasLease
    <3> QED
      BY <3>1, <3>2 DEF ServiceStep, Service!ServiceNext, Service!Grant
  <2>3. CASE client_initialize("INIT") \/ client_initialize("STOPPED")
    BY <2>3, StopRefines
  <2> QED
    BY <2>1, <2>2, <2>3 DEF client_handle_ack
<1>3. CASE \E r \in Restarting : client_handle_nak(r)
  BY <1>3, RestartRefines DEF client_handle_nak
<1>4. CASE \E r \in Outcome({"time"}) : client_handle_forcerenew(r)
  <2>1. state \in HasLease
    BY <1>4 DEF client_handle_forcerenew, HasLease
  <2>2. PICK r \in Outcome({"time"}) : Renew(t1, r)
    BY <1>4 DEF client_handle_forcerenew
  <2> QED
    BY <2>1, <2>2, StopRefines, BoundSeen
    DEF Renew, client_stop, ServiceStep, HasLease, Phase, Held
<1> QED
  BY <1>1, <1>2, <1>3, <1>4 DEF Messages

LEMMA OwnerRefines ==
  ASSUME Owner
  PROVE  ServiceStep
<1>1. CASE \E r \in Restarting : sd_dhcp_client_start(r)
  BY <1>1, RestartRefines DEF sd_dhcp_client_start, client_start
<1>2. CASE sd_dhcp_client_stop
  BY <1>2, StopRefines DEF sd_dhcp_client_stop
<1> QED
  BY <1>1, <1>2 DEF Owner

(* Every step of the client is a step of the service or a stutter.         *)
LEMMA StepRefines ==
  ClientInv /\ ClientInv' /\ [ClientNext]_clientVars
    => [Service!ServiceNext]_<<Phase, Held>>
<1> SUFFICES ASSUME ClientInv, ClientInv', [ClientNext]_clientVars PROVE ServiceStep
  BY DEF ServiceStep
<1>1. CASE \E m \in net : Lose(m)
  BY <1>1 DEF Lose, ServiceStep, Phase, Held
<1>2. CASE UNCHANGED clientVars
  BY <1>2 DEF clientVars, ServiceStep, Phase, Held
<1> QED
  BY <1>1, <1>2, TimeoutRefines, MessageRefines, OwnerRefines DEF ClientNext

(* The client of sd-dhcp-client.c keeps the promise roamingd-dhcp4.c       *)
(* relies on: it is idle from a stop or an error until it is started, and  *)
(* hands a lease out only after it asked for one and got it acknowledged.  *)
THEOREM ClientImplementsService == ClientSpec => ImplementsService
<1>1. Service!serviceVars = <<Phase, Held>>
  BY DEF Service!serviceVars
<1> QED
  BY <1>1, InitRefines, StepRefines, ClientInvariant, PTL
  DEF ClientSpec, ImplementsService, Service!ServiceSpec, Service!serviceVars

=============================================================================
