-------------------------- MODULE DhcpClientProofs --------------------------
(***************************************************************************)
(* The safety properties of DhcpClient, for every set of leases, addresses *)
(* and transaction ids, every set of local failures and every bound.  They *)
(* follow from ClientInv, which is inductive: NeverStranded needs          *)
(* TimersNeedLease (T2 finds a transaction to rebind), LeaseBacked needs   *)
(* TimersNeedLease (T1 and T2 find a lease), RequestPrecedesAck needs      *)
(* RequestsRecorded and the ACK of an earlier transaction to be out.       *)
(***************************************************************************)
EXTENDS DhcpClient, TLAPS

(* The retry counter starts in its range, and doubling keeps it there.     *)
LEMMA AttemptBounds ==
  /\ 1 \in 1 .. 2 * MaxAttempt
  /\ attempt \in 1 .. 2 * MaxAttempt => DoubledAttempt \in 1 .. 2 * MaxAttempt
  BY BoundAssumption DEF DoubledAttempt

(* The clamped back-off stays in its range.                                *)
LEMMA DelayBounds ==
  ASSUME NEW d \in 0 .. MaxDelay
  PROVE  BackedOff(d) \in 0 .. MaxDelay
  BY BoundAssumption DEF BackedOff

(* The initial state of a client satisfies the inductive invariant.        *)
LEMMA InitInv == ClientInit => ClientInv
<1> SUFFICES ASSUME ClientInit PROVE ClientInv
  OBVIOUS
<1>1. ClientTypeOK
  <2>1. attempt \in 1 .. 2 * MaxAttempt /\ start_delay \in 0 .. MaxDelay
    BY BoundAssumption DEF ClientInit
  <2> QED
    BY <2>1 DEF ClientInit, ClientTypeOK, States
<1>2. NeverStranded /\ LeaseBacked /\ TimersNeedLease /\ RenewAtOnce
  BY DEF ClientInit, NeverStranded, LeaseBacked, HasLease, TimersNeedLease, RenewAtOnce
<1>3. NoStaleAck /\ RequestsRecorded
  BY DEF ClientInit, NoStaleAck, RequestsRecorded
<1> QED
  BY <1>1, <1>2, <1>3 DEF ClientInv

(* Whatever a step did before, a client_initialize that ends the step,     *)
(* alone or followed by a successful restart, re-establishes the           *)
(* invariant: this is what every error, stop, NAK and expiry relies on.    *)
LEMMA ResetInv ==
  ASSUME ClientInv, NEW s, NEW sock, NEW x, NEW timer \in BOOLEAN,
         ResetTo(s, sock, x, timer),
         \/ s \in {"INIT", "INIT_REBOOT"} /\ sock = "raw" /\ x \in FreshXid /\ timer = TRUE
         \/ s = "INIT" /\ sock = "none" /\ x = NoXid
         \/ s = "STOPPED" /\ sock = "none" /\ x = NoXid /\ timer = FALSE,
         start_delay' \in 0 .. MaxDelay,
         last_addr' \in Addr \cup {NoAddr},
         UNCHANGED <<request_sent, net>>
  PROVE  ClientInv'
<1>1. ClientTypeOK'
  <2>1. attempt' \in 1 .. 2 * MaxAttempt
    BY AttemptBounds DEF ResetTo
  <2>2. /\ state' \in States /\ fd' \in {"none", "raw", "udp"}
        /\ xid' \in Xid \cup {NoXid} /\ lease' \in Lease \cup {NoLease}
    BY DEF ResetTo, States, FreshXid
  <2>3. /\ resend' \in BOOLEAN /\ t1' \in BOOLEAN /\ t2' \in BOOLEAN /\ expire' \in BOOLEAN
        /\ request_sent' \in BOOLEAN /\ net' \subseteq Message
    BY DEF ClientInv, ClientTypeOK, ResetTo
  <2> QED
    BY <2>1, <2>2, <2>3 DEF ClientTypeOK
<1>2. NeverStranded'
  BY LeaseAssumption DEF NeverStranded, ResetTo, FreshXid
<1>3. LeaseBacked' /\ TimersNeedLease' /\ RenewAtOnce'
  BY DEF LeaseBacked, HasLease, TimersNeedLease, RenewAtOnce, ResetTo
<1>4. NoStaleAck'
  BY LeaseAssumption
  DEF ClientInv, ClientTypeOK, NoStaleAck, ResetTo, FreshXid, Message
<1>5. RequestsRecorded'
  BY DEF ClientInv, RequestsRecorded
<1> QED
  BY <1>1, <1>2, <1>3, <1>4, <1>5 DEF ClientInv


(* client_start_delayed after client_initialize, with every outcome.       *)
LEMMA RestartInv ==
  ASSUME ClientInv, NEW s \in {"INIT", "INIT_REBOOT"}, NEW r,
         client_start_delayed(s, r),
         start_delay' \in 0 .. MaxDelay,
         UNCHANGED <<last_addr, request_sent, net>>
  PROVE  ClientInv'
<1>0. last_addr' \in Addr \cup {NoAddr}
  BY DEF ClientInv, ClientTypeOK
<1>1. CASE r = "ok" /\ \E x \in FreshXid : ResetTo(s, "raw", x, TRUE)
  <2>1. PICK x \in FreshXid : ResetTo(s, "raw", x, TRUE)
    BY <1>1
  <2> QED
    BY <1>0, <2>1, ResetInv
<1>2. CASE client_initialize("INIT")
  BY <1>0, <1>2, ResetInv DEF client_initialize
<1>3. CASE ResetTo("INIT", "none", NoXid, TRUE)
  BY <1>0, <1>3, ResetInv
<1> QED
  BY <1>1, <1>2, <1>3 DEF client_start_delayed

(* client_stop and sd_dhcp_client_stop, from any state.                    *)
LEMMA StopInv ==
  ASSUME ClientInv, client_stop \/ sd_dhcp_client_stop
  PROVE  ClientInv'
<1>1. start_delay' \in 0 .. MaxDelay /\ last_addr' \in Addr \cup {NoAddr}
  BY DEF ClientInv, ClientTypeOK, client_stop, sd_dhcp_client_stop
<1>2. CASE client_stop
  BY <1>1, <1>2, ResetInv DEF client_stop, client_initialize
<1>3. CASE sd_dhcp_client_stop
  BY <1>1, <1>3, ResetInv DEF sd_dhcp_client_stop, client_initialize
<1> QED
  BY <1>2, <1>3

(* client_start as every caller uses it.                                   *)
LEMMA StartInv ==
  ASSUME ClientInv, NEW s \in {"INIT", "INIT_REBOOT"}, NEW r,
         client_start(s, r),
         UNCHANGED <<last_addr, request_sent, net>>
  PROVE  ClientInv'
<1>1. start_delay' \in 0 .. MaxDelay
  BY BoundAssumption DEF client_start
<1> QED
  BY <1>1, RestartInv DEF client_start

(* The timer sends a DISCOVER, or fails to.                                *)
LEMMA SendDiscoverInv ==
  ASSUME ClientInv, NEW r, resend, SendDiscover(r)
  PROVE  ClientInv'
<1>0. DoubledAttempt \in 1 .. 2 * MaxAttempt /\ 1 \in 1 .. 2 * MaxAttempt
  BY AttemptBounds DEF ClientInv, ClientTypeOK
<1>1. CASE client_stop
  BY <1>1, StopInv
<1>2. CASE /\ Sent("DISCOVER") /\ state' = "SELECTING" /\ CanSend
           /\ attempt' = IF state = "INIT" THEN 1 ELSE DoubledAttempt
           /\ ResendKeeps /\ UNCHANGED request_sent
  <2>1. state \in {"INIT", "SELECTING"} /\ fd = "raw" /\ xid \in Xid
    BY <1>2 DEF SendDiscover, CanSend, ClientInv, ClientTypeOK, NeverStranded
  <2>2. ClientTypeOK'
    <3>1. net' \subseteq Message
      BY <1>2, <2>1 DEF Sent, Message, ClientInv, ClientTypeOK
    <3>2. attempt' \in 1 .. 2 * MaxAttempt
      BY <1>0, <1>2
    <3> QED
      BY <1>2, <3>1, <3>2 DEF ClientInv, ClientTypeOK, ResendKeeps, States
  <2>3. NeverStranded' /\ LeaseBacked' /\ TimersNeedLease' /\ RenewAtOnce'
    BY <1>2, <2>1, LeaseAssumption
    DEF ClientInv, NeverStranded, LeaseBacked, TimersNeedLease, RenewAtOnce,
        HasLease, ResendKeeps
  <2>4. NoStaleAck' /\ RequestsRecorded'
    BY <1>2, <2>1
    DEF ClientInv, NoStaleAck, RequestsRecorded, ResendKeeps, Sent
  <2> QED
    BY <2>2, <2>3, <2>4 DEF ClientInv
<1>3. CASE /\ attempt' = DoubledAttempt /\ ResendKeeps
           /\ UNCHANGED <<state, request_sent, net>>
  <2>1. ClientTypeOK'
    BY <1>0, <1>3 DEF ClientInv, ClientTypeOK, ResendKeeps
  <2>2. NeverStranded'
    BY <1>3, resend DEF SendDiscover, ClientInv, NeverStranded, ResendKeeps
  <2>3. LeaseBacked' /\ TimersNeedLease' /\ RenewAtOnce' /\ NoStaleAck' /\ RequestsRecorded'
    BY <1>3 DEF ClientInv, LeaseBacked, TimersNeedLease, RenewAtOnce, HasLease,
                NoStaleAck, RequestsRecorded, ResendKeeps
  <2> QED
    BY <2>1, <2>2, <2>3 DEF ClientInv
<1> QED
  BY <1>1, <1>2, <1>3 DEF SendDiscover

(* The timer sends a REQUEST, or fails to.                                 *)
LEMMA SendRequestInv ==
  ASSUME ClientInv, NEW r, resend, SendRequest(r)
  PROVE  ClientInv'
<1>1. CASE client_stop
  BY <1>1, StopInv
<1>2. CASE ~client_stop
  <2>1. /\ state \in {"INIT_REBOOT", "REQUESTING", "RENEWING", "REBINDING"}
        /\ net' = net \/ Sent("REQUEST")
        /\ state' = IF state = "INIT_REBOOT" THEN "REBOOTING" ELSE state
        /\ attempt' \in {attempt, DoubledAttempt}
        /\ request_sent' = TRUE
        /\ ResendKeeps
    BY <1>2 DEF SendRequest, RecordRequest
  <2>2. fd # "none" /\ xid \in Xid
    BY <2>1 DEF ClientInv, ClientTypeOK, NeverStranded
  <2>3. ClientTypeOK'
    <3>1. net' \subseteq Message
      BY <2>1, <2>2 DEF Sent, Message, ClientInv, ClientTypeOK
    <3>2. attempt' \in 1 .. 2 * MaxAttempt
      BY <2>1, AttemptBounds DEF ClientInv, ClientTypeOK
    <3> QED
      BY <2>1, <3>1, <3>2 DEF ClientInv, ClientTypeOK, ResendKeeps, States
  <2>4. NeverStranded' /\ LeaseBacked' /\ TimersNeedLease' /\ RenewAtOnce'
    BY <2>1
    DEF ClientInv, NeverStranded, LeaseBacked, TimersNeedLease, RenewAtOnce,
        HasLease, ResendKeeps
  <2>5. NoStaleAck' /\ RequestsRecorded'
    BY <2>1 DEF NoStaleAck, RequestsRecorded
  <2> QED
    BY <2>3, <2>4, <2>5 DEF ClientInv
<1> QED
  BY <1>1, <1>2

(* client_timeout_t1 with a lease held.                                    *)
LEMMA RenewInv ==
  ASSUME ClientInv, NEW timer \in BOOLEAN, NEW r, Renew(timer, r), state \in HasLease
  PROVE  ClientInv'
<1>1. CASE client_stop
  BY <1>1, StopInv
<1>2. CASE /\ state' = "RENEWING" /\ attempt' = 1 /\ resend' = TRUE /\ t1' = timer
           /\ UNCHANGED <<fd, xid, lease, last_addr, t2, expire, start_delay,
                          request_sent, net>>
  <2>1. ClientTypeOK'
    BY <1>2, AttemptBounds DEF ClientInv, ClientTypeOK, States
  <2>2. NeverStranded'
    BY <1>2 DEF ClientInv, NeverStranded, HasLease
  <2>3. LeaseBacked' /\ TimersNeedLease' /\ RenewAtOnce' /\ NoStaleAck' /\ RequestsRecorded'
    BY <1>2 DEF ClientInv, LeaseBacked, TimersNeedLease, RenewAtOnce, HasLease,
                NoStaleAck, RequestsRecorded
  <2> QED
    BY <2>1, <2>2, <2>3 DEF ClientInv
<1> QED
  BY <1>1, <1>2 DEF Renew

(* client_timeout_t2 moves a client that holds a lease to the raw socket.  *)
LEMMA RebindInv ==
  ASSUME ClientInv, NEW r, client_timeout_t2(r)
  PROVE  ClientInv'
<1>0. state \in HasLease /\ xid # NoXid
  BY DEF client_timeout_t2, ClientInv, TimersNeedLease, NeverStranded, HasLease
<1>1. /\ start_delay' \in 0 .. MaxDelay /\ last_addr' \in Addr \cup {NoAddr}
      /\ UNCHANGED <<request_sent, net>>
  BY DEF client_timeout_t2, ClientInv, ClientTypeOK
<1>2. CASE client_initialize("INIT")
  BY <1>1, <1>2, ResetInv DEF client_initialize
<1>3. CASE ResetTo("INIT", "none", NoXid, TRUE)
  BY <1>1, <1>3, ResetInv
<1>4. CASE /\ state' = "REBINDING" /\ fd' = "raw" /\ attempt' = 1
           /\ resend' = TRUE /\ t2' = FALSE
           /\ UNCHANGED <<xid, lease, t1, expire>>
  <2> USE <1>4 DEF client_timeout_t2
  <2>1. ClientTypeOK'
    BY AttemptBounds DEF ClientInv, ClientTypeOK, States
  <2>2. NeverStranded'
    BY <1>0 DEF NeverStranded
  <2>3. LeaseBacked' /\ TimersNeedLease' /\ RenewAtOnce' /\ NoStaleAck' /\ RequestsRecorded'
    BY <1>0 DEF ClientInv, LeaseBacked, TimersNeedLease, RenewAtOnce, HasLease,
                NoStaleAck, RequestsRecorded
  <2> QED
    BY <2>1, <2>2, <2>3 DEF ClientInv
<1> QED
  BY <1>2, <1>3, <1>4 DEF client_timeout_t2

(* An OFFER gives REQUESTING the lease that client_send_request reads.     *)
LEMMA OfferInv ==
  ASSUME ClientInv, NEW l \in Lease, NEW r, client_handle_offer(l, r)
  PROVE  ClientInv'
<1>1. CASE client_stop
  BY <1>1, StopInv
<1>2. CASE /\ state' = "REQUESTING" /\ lease' = l /\ attempt' = 1 /\ resend' = TRUE
           /\ UNCHANGED <<fd, xid, last_addr, t1, t2, expire, start_delay,
                          request_sent, net>>
  <2> USE <1>2 DEF client_handle_offer
  <2>1. ClientTypeOK'
    BY AttemptBounds DEF ClientInv, ClientTypeOK, States
  <2>2. NeverStranded'
    BY DEF ClientInv, NeverStranded
  <2>3. LeaseBacked' /\ TimersNeedLease' /\ RenewAtOnce' /\ NoStaleAck' /\ RequestsRecorded'
    BY LeaseAssumption
    DEF ClientInv, LeaseBacked, TimersNeedLease, RenewAtOnce, HasLease,
        NoStaleAck, RequestsRecorded
  <2> QED
    BY <2>1, <2>2, <2>3 DEF ClientInv
<1> QED
  BY <1>1, <1>2 DEF client_handle_offer

(* An ACK binds the client, or ends it when a socket, a timer or the       *)
(* callback fails.                                                         *)
LEMMA AckInv ==
  ASSUME ClientInv, NEW l \in Lease, NEW r, NEW stops, client_handle_ack(l, r, stops)
  PROVE  ClientInv'
<1>1. /\ start_delay' = 0 /\ last_addr' = AddrOf[l]
      /\ UNCHANGED <<request_sent, net>>
  BY DEF client_handle_ack, AckSettles
<1>2. start_delay' \in 0 .. MaxDelay /\ last_addr' \in Addr \cup {NoAddr}
  BY <1>1, LeaseAssumption, BoundAssumption
<1>3. CASE client_initialize("INIT")
  BY <1>1, <1>2, <1>3, ResetInv DEF client_initialize
<1>4. CASE client_initialize("STOPPED")
  BY <1>1, <1>2, <1>4, ResetInv DEF client_initialize
<1>5. CASE /\ state' = "BOUND" /\ fd' = "udp" /\ lease' = l
           /\ attempt' = 1 /\ resend' = FALSE
           /\ client_set_lease_timeouts
           /\ UNCHANGED xid
  <2>1. ClientTypeOK'
    BY <1>1, <1>2, <1>5, AttemptBounds
    DEF ClientInv, ClientTypeOK, States, client_set_lease_timeouts
  <2>2. xid # NoXid
    BY DEF client_handle_ack, AwaitsAck, ClientInv, NeverStranded
  <2>3. NeverStranded'
    BY <1>5, <2>2 DEF NeverStranded
  <2>4. LeaseBacked' /\ TimersNeedLease' /\ RenewAtOnce'
    BY <1>1, <1>5, LeaseAssumption
    DEF LeaseBacked, TimersNeedLease, RenewAtOnce, HasLease
  <2>5. NoStaleAck' /\ RequestsRecorded'
    BY <1>1, <1>5 DEF ClientInv, NoStaleAck, RequestsRecorded
  <2> QED
    BY <2>1, <2>3, <2>4, <2>5 DEF ClientInv
<1> QED
  BY <1>3, <1>4, <1>5 DEF client_handle_ack

(* Every step of the client preserves the inductive invariant.             *)
LEMMA NextInv == ClientInv /\ [ClientNext]_clientVars => ClientInv'
<1> SUFFICES ASSUME ClientInv, [ClientNext]_clientVars PROVE ClientInv'
  OBVIOUS
<1>1. ASSUME NEW r, client_timeout_resend(r) PROVE ClientInv'
  <2>1. CASE /\ client_start("INIT", r)
             /\ UNCHANGED <<last_addr, request_sent, net>>
    BY <2>1, StartInv
  <2>2. CASE client_stop
    BY <2>2, StopInv
  <2>3. CASE SendDiscover(r) \/ SendRequest(r)
    BY <1>1, <2>3, SendDiscoverInv, SendRequestInv DEF client_timeout_resend
  <2> QED
    BY <1>1, <2>1, <2>2, <2>3 DEF client_timeout_resend
<1>2. ASSUME NEW r, NEW stops, client_timeout_expire(r, stops) PROVE ClientInv'
  <2>1. CASE client_initialize("STOPPED") /\ UNCHANGED start_delay
    BY <1>2, <2>1, StopInv DEF client_timeout_expire, sd_dhcp_client_stop
  <2>2. CASE client_start("INIT", r)
    BY <1>2, <2>2, StartInv DEF client_timeout_expire
  <2> QED
    BY <1>2, <2>1, <2>2 DEF client_timeout_expire
<1>3. ASSUME NEW r, client_timeout_t1(r) PROVE ClientInv'
  BY <1>3, RenewInv DEF client_timeout_t1, ClientInv, TimersNeedLease
<1>4. ASSUME NEW r, client_handle_nak(r) PROVE ClientInv'
  <2>1. start_delay' \in 0 .. MaxDelay
    BY <1>4, DelayBounds DEF client_handle_nak, ClientInv, ClientTypeOK
  <2> QED
    BY <1>4, <2>1, RestartInv DEF client_handle_nak
<1>5. ASSUME NEW r, client_handle_forcerenew(r) PROVE ClientInv'
  BY <1>5, RenewInv DEF client_handle_forcerenew, ClientInv, ClientTypeOK, HasLease
<1>6. ASSUME NEW r, sd_dhcp_client_start(r) PROVE ClientInv'
  BY <1>6, StartInv DEF sd_dhcp_client_start
<1>7. ASSUME NEW m \in net, Lose(m) PROVE ClientInv'
  BY <1>7 DEF Lose, ClientInv, ClientTypeOK, NeverStranded, LeaseBacked, TimersNeedLease,
              RenewAtOnce, NoStaleAck, RequestsRecorded
<1>8. CASE UNCHANGED clientVars
  BY <1>8 DEF clientVars, ClientInv, ClientTypeOK, NeverStranded, LeaseBacked,
              TimersNeedLease, RenewAtOnce, NoStaleAck, RequestsRecorded
<1>9. CASE Timeouts
  BY <1>9, <1>1, <1>2, <1>3, RebindInv DEF Timeouts
<1>10. CASE Messages
  BY <1>10, <1>4, <1>5, OfferInv, AckInv DEF Messages
<1>11. CASE Owner
  BY <1>11, <1>6, StopInv DEF Owner
<1> QED
  BY <1>7, <1>8, <1>9, <1>10, <1>11 DEF ClientNext

(* The inductive invariant holds of every behaviour of the client.         *)
THEOREM ClientInvariant == ClientSpec => []ClientInv
  BY InitInv, NextInv, PTL DEF ClientSpec

(* Type correctness of struct sd_dhcp_client.                              *)
THEOREM ClientTypeCorrect == ClientSpec => []ClientTypeOK
<1>1. ClientInv => ClientTypeOK
  BY DEF ClientInv
<1> QED
  BY <1>1, ClientInvariant, PTL

(* Whatever fails and in whatever order timers, messages and owner act, no *)
(* exchange is stranded without socket, transaction and resend timer.      *)
THEOREM ClientNeverStranded == ClientSpec => []NeverStranded
<1>1. ClientInv => NeverStranded
  BY DEF ClientInv
<1> QED
  BY <1>1, ClientInvariant, PTL

(* client->lease is set wherever the code dereferences it, and the address *)
(* of the next INIT_REBOOT is that of the lease.                           *)
THEOREM ClientLeaseBacked == ClientSpec => []LeaseBacked
<1>1. ClientInv => LeaseBacked
  BY DEF ClientInv
<1> QED
  BY <1>1, ClientInvariant, PTL

(* T1, T2 and the lifetime timer never outlive the lease they belong to.   *)
THEOREM ClientTimersNeedLease == ClientSpec => []TimersNeedLease
<1>1. ClientInv => TimersNeedLease
  BY DEF ClientInv
<1> QED
  BY <1>1, ClientInvariant, PTL

(* The back-off after NAKs never delays a renewal.                         *)
THEOREM ClientRenewAtOnce == ClientSpec => []RenewAtOnce
<1>1. ClientInv => RenewAtOnce
  BY DEF ClientInv
<1> QED
  BY <1>1, ClientInvariant, PTL

(* The assertion of client_compute_timeout holds whenever an ACK can be    *)
(* taken.                                                                  *)
THEOREM ClientRequestPrecedesAck == ClientSpec => []RequestPrecedesAck
<1>1. ClientInv => RequestPrecedesAck
  BY DEF ClientInv, RequestsRecorded, RequestPrecedesAck, Answered
<1> QED
  BY <1>1, ClientInvariant, PTL

(* The transaction id keeps an ACK of an earlier transaction out.          *)
THEOREM ClientNoStaleAck == ClientSpec => []NoStaleAck
<1>1. ClientInv => NoStaleAck
  BY DEF ClientInv
<1> QED
  BY <1>1, ClientInvariant, PTL

=============================================================================
