----------------------------- MODULE DhcpClient -----------------------------
(***************************************************************************)
(* The DHCPv4 client of roamingd, src/dhcp/sd-dhcp-client.c: the state     *)
(* machine of RFC 2131 driven by timers, by replies of servers that the    *)
(* network may lose, delay, duplicate or reorder, and by its owner, which  *)
(* starts and stops it and may also stop it from inside its callback.      *)
(*                                                                         *)
(* The client is one struct on a single-threaded event loop, so every      *)
(* handler is one action.  What the sockets and the event loop may refuse  *)
(* is an input of the action (Faults).                                     *)
(***************************************************************************)
EXTENDS Naturals

CONSTANTS
  Lease,         \* what a lease configures: its address, netmask and router
  Addr,          \* IPv4 addresses
  AddrOf,        \* the address of a lease: a function on Lease
  NoLease,       \* client->lease == NULL
  NoAddr,        \* client->last_addr == INADDR_ANY
  Xid,           \* transaction ids drawn by random_u32()
  NoXid,         \* client->xid == 0
  Faults,        \* the local failures considered: a subset of FaultKinds
  MaxAttempt,    \* 64 in the code: where the retry counter stops doubling
  MinDelay,      \* RESTART_AFTER_NAK_MIN_USEC
  MaxDelay       \* RESTART_AFTER_NAK_MAX_USEC

(* bind: no socket; io, time: the event loop refuses a source; send: sendto *)
FaultKinds == {"bind", "io", "time", "send"}

ASSUME LeaseAssumption == /\ AddrOf \in [Lease -> Addr]
                          /\ NoLease \notin Lease
                          /\ NoAddr \notin Addr
                          /\ NoXid \notin Xid
ASSUME FaultAssumption == Faults \subseteq FaultKinds
ASSUME BoundAssumption == /\ MaxAttempt \in Nat \ {0}
                          /\ MinDelay \in Nat
                          /\ MaxDelay \in Nat
                          /\ MinDelay <= MaxDelay

VARIABLES
  state,         \* client->state
  fd,            \* client->fd with receive_message: none, raw or udp socket
  xid,           \* client->xid
  lease,         \* client->lease: the offered or the granted lease
  last_addr,     \* client->last_addr
  resend,        \* timeout_resend is armed
  t1,            \* timeout_t1 is armed
  t2,            \* timeout_t2 is armed
  expire,        \* timeout_expire is armed
  attempt,       \* client->attempt
  start_delay,   \* client->start_delay
  request_sent,  \* client->request_sent has been set
  net            \* messages of the client in flight, or whose answers are

clientVars == <<state, fd, xid, lease, last_addr, resend, t1, t2, expire,
                attempt, start_delay, request_sent, net>>

States == {"INIT", "SELECTING", "INIT_REBOOT", "REBOOTING", "REQUESTING",
           "BOUND", "RENEWING", "REBINDING", "STOPPED"}

(* The states in which sd_dhcp_client_get_lease hands the lease out.       *)
HasLease == {"BOUND", "RENEWING", "REBINDING"}

Message == [type : {"DISCOVER", "REQUEST"}, xid : Xid]

(* An outcome of the calls a handler makes: all succeed, or one fails.     *)
Outcome(kinds) == {"ok"} \cup (Faults \cap kinds)

(* Mutant: a restart keeps the transaction id it has.                      *)
MutKeptXid == IF xid = NoXid THEN Xid ELSE {xid}

(* random_u32() is taken never to repeat the id of a message in flight.    *)
FreshXid == {x \in Xid : \A m \in net : m.xid # x}

-----------------------------------------------------------------------------

(* sd_dhcp_client_new, with nothing sent.                                  *)
ClientInit ==
  /\ state = "INIT" /\ fd = "none" /\ xid = NoXid
  /\ lease = NoLease /\ last_addr = NoAddr
  /\ resend = FALSE /\ t1 = FALSE /\ t2 = FALSE /\ expire = FALSE
  /\ attempt = 1 /\ start_delay = 0 /\ request_sent = FALSE
  /\ net = {}

(* Mutants: client_initialize forgets to drop the lease, or its timers.     *)
MutResetKeepsLease(s, sock, x, timer) ==
  /\ state' = s /\ fd' = sock /\ xid' = x /\ UNCHANGED lease
  /\ resend' = timer /\ t1' = FALSE /\ t2' = FALSE /\ expire' = FALSE
  /\ attempt' = 1

MutResetKeepsTimers(s, sock, x, timer) ==
  /\ state' = s /\ fd' = sock /\ xid' = x /\ lease' = NoLease
  /\ resend' = timer /\ UNCHANGED <<t1, t2, expire>>
  /\ attempt' = 1

(* The fields client_initialize resets, with the socket, transaction and   *)
(* resend timer that a restart may have set up after it.                   *)
ResetTo(s, sock, x, timer) ==
  /\ state' = s /\ fd' = sock /\ xid' = x /\ lease' = NoLease
  /\ resend' = timer /\ t1' = FALSE /\ t2' = FALSE /\ expire' = FALSE
  /\ attempt' = 1

client_initialize(s) == ResetTo(s, "none", NoXid, FALSE)

(* client_initialize, then client_start_delayed.  A refused io source has  *)
(* stopped the client when client_initialize_time_events arms the timer.   *)
client_start_delayed(s, r) ==
  \/ /\ r = "ok"
     /\ \E x \in FreshXid : ResetTo(s, "raw", x, TRUE)
  \/ /\ r \in {"bind", "time"}
     /\ client_initialize("INIT")
  \/ /\ r = "io"
     /\ ResetTo("INIT", "none", NoXid, TRUE)

client_start(s, r) ==
  /\ start_delay' = 0
  /\ client_start_delayed(s, r)

-----------------------------------------------------------------------------
(* The owner's calls.                                                      *)

sd_dhcp_client_start(r) ==
  /\ client_start(IF last_addr # NoAddr THEN "INIT_REBOOT" ELSE "INIT", r)
  /\ UNCHANGED <<last_addr, request_sent, net>>

sd_dhcp_client_stop ==
  /\ client_initialize("STOPPED")
  /\ UNCHANGED <<last_addr, start_delay, request_sent, net>>

(* client_stop after an error: the callback only hears of it, and the      *)
(* client is left initialized, with nothing armed.                         *)
client_stop ==
  /\ client_initialize("INIT")
  /\ UNCHANGED <<last_addr, start_delay, request_sent, net>>

-----------------------------------------------------------------------------
(* Timers.                                                                 *)

DoubledAttempt == IF attempt < MaxAttempt THEN 2 * attempt ELSE attempt

(* Renewing goes out by UDP, everything else by the packet socket; a UDP   *)
(* destination is refused by a packet socket.                              *)
CanSend == fd = IF state = "RENEWING" THEN "udp" ELSE "raw"

Sent(type) == net' = net \cup {[type |-> type, xid |-> xid]}

(* Mutant: the one-shot timer is not armed again.                          *)
MutResendOnce == /\ resend' = FALSE
                 /\ UNCHANGED <<fd, xid, lease, last_addr, t1, t2, expire, start_delay>>

(* client_timeout_resend re-arms itself before it sends.                   *)
ResendKeeps == /\ resend' = TRUE
               /\ UNCHANGED <<fd, xid, lease, last_addr, t1, t2, expire, start_delay>>

SendDiscover(r) ==
  /\ state \in {"INIT", "SELECTING"}
  /\ IF CanSend /\ r = "ok"
     THEN /\ Sent("DISCOVER")
          /\ state' = "SELECTING"
          /\ attempt' = IF state = "INIT" THEN 1 ELSE DoubledAttempt
          /\ ResendKeeps
          /\ UNCHANGED request_sent
     ELSE \/ /\ DoubledAttempt >= MaxAttempt
             /\ client_stop
          \/ /\ DoubledAttempt < MaxAttempt
             /\ attempt' = DoubledAttempt
             /\ ResendKeeps
             /\ UNCHANGED <<state, request_sent, net>>

(* Mutant: the time of the request is not recorded.                        *)
MutNotRecorded == UNCHANGED request_sent

RecordRequest == request_sent' = TRUE

SendRequest(r) ==
  LET next == IF state \in {"RENEWING", "REBINDING"} THEN attempt ELSE DoubledAttempt
      sent == CanSend /\ r = "ok"
  IN
  /\ state \in {"INIT_REBOOT", "REQUESTING", "RENEWING", "REBINDING"}
  /\ \/ /\ ~sent /\ next >= MaxAttempt
        /\ client_stop
     \/ /\ sent \/ next < MaxAttempt
        /\ IF sent THEN Sent("REQUEST") ELSE UNCHANGED net
        /\ state' = IF state = "INIT_REBOOT" THEN "REBOOTING" ELSE state
        /\ attempt' = next
        /\ RecordRequest
        /\ ResendKeeps

client_timeout_resend(r) ==
  /\ resend
  /\ \/ /\ state = "REBOOTING"
        /\ r # "send"
        /\ client_start("INIT", r)
        /\ UNCHANGED <<last_addr, request_sent, net>>
     \/ /\ state # "REBOOTING"
        /\ r = "time"
        /\ client_stop
     \/ /\ state # "REBOOTING"
        /\ r \in {"ok", "send"}
        /\ SendDiscover(r) \/ SendRequest(r)

(* The callback hears EXPIRED; the client starts over unless the callback  *)
(* stopped it.                                                             *)
client_timeout_expire(r, stops) ==
  /\ expire
  /\ IF stops
     THEN client_initialize("STOPPED") /\ UNCHANGED start_delay
     ELSE client_start("INIT", r)
  /\ UNCHANGED <<last_addr, request_sent, net>>

client_timeout_t2(r) ==
  /\ t2
  /\ UNCHANGED <<last_addr, start_delay, request_sent, net>>
  /\ \/ /\ r = "ok"
        /\ state' = "REBINDING" /\ fd' = "raw" /\ attempt' = 1
        /\ resend' = TRUE /\ t2' = FALSE
        /\ UNCHANGED <<xid, lease, t1, expire>>
     \/ /\ r \in {"bind", "time"}
        /\ client_initialize("INIT")
     \/ /\ r = "io"
        /\ ResetTo("INIT", "none", NoXid, TRUE)

(* client_timeout_t1, fired by its timer or called for a FORCERENEW, which *)
(* leaves the timer armed.                                                 *)
Renew(timer, r) ==
  \/ /\ r = "ok"
     /\ state' = "RENEWING" /\ attempt' = 1 /\ resend' = TRUE /\ t1' = timer
     /\ UNCHANGED <<fd, xid, lease, last_addr, t2, expire, start_delay,
                    request_sent, net>>
  \/ /\ r = "time"
     /\ client_stop

client_timeout_t1(r) == t1 /\ Renew(FALSE, r)

-----------------------------------------------------------------------------
(* Messages: client_receive_message_raw / _udp and client_handle_message.  *)
(* Both sockets pass only messages of the current transaction, except for  *)
(* a FORCERENEW while BOUND.  A message in net stands for itself and for   *)
(* the answers to it still under way.                                      *)

Answered(type) ==
  /\ fd # "none"
  /\ [type |-> type, xid |-> xid] \in net

client_handle_offer(l, r) ==
  /\ state = "SELECTING"
  /\ Answered("DISCOVER")
  /\ \/ /\ r = "ok"
        /\ state' = "REQUESTING" /\ lease' = l /\ attempt' = 1 /\ resend' = TRUE
        /\ UNCHANGED <<fd, xid, last_addr, t1, t2, expire, start_delay,
                       request_sent, net>>
     \/ /\ r = "time"
        /\ client_stop

AwaitsAck == state \in {"REBOOTING", "REQUESTING", "RENEWING", "REBINDING"}

(* client_set_lease_timeouts: no timer for an infinite lease; a timer that *)
(* is already due keeps the earlier ones from being armed.                 *)
client_set_lease_timeouts ==
  /\ expire' \in BOOLEAN /\ t2' \in BOOLEAN /\ t1' \in BOOLEAN
  /\ t1' => t2'
  /\ t2' => expire'

(* Mutant: an ACK leaves the back-off of the last NAK in force.            *)
MutAckKeepsDelay(l) == last_addr' = AddrOf[l] /\ UNCHANGED start_delay

AckSettles(l) == last_addr' = AddrOf[l] /\ start_delay' = 0

(* r = "bind" or "time": no UDP socket or no lease timer, the client stops *)
(* and the lease is not announced.  r = "io": the client is stopped, then  *)
(* announces the lease it no longer has.  Unless the callback stops it, an *)
(* announced lease is held.                                                *)
client_handle_ack(l, r, stops) ==
  /\ AwaitsAck
  /\ Answered("REQUEST")
  /\ AckSettles(l)
  /\ UNCHANGED <<request_sent, net>>
  /\ \/ /\ r = "ok" /\ ~stops
        /\ state' = "BOUND" /\ fd' = "udp" /\ lease' = l
        /\ attempt' = 1 /\ resend' = FALSE
        /\ client_set_lease_timeouts
        /\ UNCHANGED xid
     \/ /\ r \in {"bind", "time"} \/ (r = "io" /\ ~stops)
        /\ client_initialize("INIT")
     \/ /\ r \in {"ok", "io"} /\ stops
        /\ client_initialize("STOPPED")

(* Mutant: the delay doubles without an upper bound.                       *)
MutUnclamped(d) == IF 2 * d < MinDelay THEN MinDelay ELSE 2 * d

BackedOff(d) == IF 2 * d < MinDelay THEN MinDelay
                ELSE IF 2 * d > MaxDelay THEN MaxDelay ELSE 2 * d

(* A NAK restarts the client; nobody is told.                              *)
client_handle_nak(r) ==
  /\ AwaitsAck
  /\ Answered("REQUEST")
  /\ client_start_delayed("INIT", r)
  /\ start_delay' = IF r = "bind" THEN start_delay ELSE BackedOff(start_delay)
  /\ UNCHANGED <<last_addr, request_sent, net>>

client_handle_forcerenew(r) ==
  /\ state = "BOUND"
  /\ Renew(t1, r)

(* The network drops a message and the answers to it.                      *)
Lose(m) ==
  /\ net' = net \ {m}
  /\ UNCHANGED <<state, fd, xid, lease, last_addr, resend, t1, t2, expire,
                 attempt, start_delay, request_sent>>

-----------------------------------------------------------------------------

Restarting == Outcome({"bind", "io", "time"})

Timeouts ==
  \/ \E r \in Outcome(FaultKinds) : client_timeout_resend(r)
  \/ \E r \in Restarting, stops \in BOOLEAN : client_timeout_expire(r, stops)
  \/ \E r \in Restarting : client_timeout_t2(r)
  \/ \E r \in Outcome({"time"}) : client_timeout_t1(r)

Messages ==
  \/ \E l \in Lease, r \in Outcome({"time"}) : client_handle_offer(l, r)
  \/ \E l \in Lease, r \in Restarting, stops \in BOOLEAN : client_handle_ack(l, r, stops)
  \/ \E r \in Restarting : client_handle_nak(r)
  \/ \E r \in Outcome({"time"}) : client_handle_forcerenew(r)

(* roamingd starts a client it has just made or has stopped first          *)
(* (link_configure, link_carrier_lost before link_carrier_gained).         *)
Owner ==
  \/ /\ state \in {"INIT", "STOPPED"} /\ fd = "none" /\ ~resend
     /\ \E r \in Restarting : sd_dhcp_client_start(r)
  \/ sd_dhcp_client_stop

ClientNext ==
  \/ Timeouts
  \/ Messages
  \/ Owner
  \/ \E m \in net : Lose(m)

ClientSpec == ClientInit /\ [][ClientNext]_clientVars

(***************************************************************************)
(* Fairness.  An armed timer fires (sd-event) and packets do not live for  *)
(* ever: weak fairness.  A server that is asked again and again answers:   *)
(* strong fairness of the handlers of OFFER and ACK, since any of the      *)
(* repeated answers may be lost or overtaken by a NAK.                     *)
(***************************************************************************)
Fairness ==
  /\ WF_clientVars(\E r \in Outcome(FaultKinds) : client_timeout_resend(r))
  /\ WF_clientVars(\E m \in net : m.xid # xid /\ Lose(m))
  /\ SF_clientVars(\E l \in Lease : client_handle_offer(l, "ok"))
  /\ SF_clientVars(\E l \in Lease : client_handle_ack(l, "ok", FALSE))

FairClientSpec == ClientSpec /\ Fairness

-----------------------------------------------------------------------------
(* Properties.                                                             *)

(* The type invariant: the fields of struct sd_dhcp_client (lines 49-106). *)
ClientTypeOK ==
  /\ state \in States
  /\ fd \in {"none", "raw", "udp"}
  /\ xid \in Xid \cup {NoXid}
  /\ lease \in Lease \cup {NoLease}
  /\ last_addr \in Addr \cup {NoAddr}
  /\ resend \in BOOLEAN /\ t1 \in BOOLEAN /\ t2 \in BOOLEAN /\ expire \in BOOLEAN
  /\ attempt \in 1 .. 2 * MaxAttempt
  /\ start_delay \in 0 .. MaxDelay
  /\ request_sent \in BOOLEAN
  /\ net \subseteq Message

(* No state of an exchange is left without the means to leave it: while it *)
(* waits for an answer the client listens on a socket of a live            *)
(* transaction and has its resend timer armed, whatever timers, answers,   *)
(* stops and local failures came before.  An INIT client that is not about *)
(* to send has been stopped by an error (client_stop) and is silent.       *)
NeverStranded ==
  /\ state \in {"INIT_REBOOT", "SELECTING", "REBOOTING", "REQUESTING", "REBINDING"} =>
       fd = "raw" /\ xid # NoXid /\ resend
  /\ state = "RENEWING" => fd # "none" /\ xid # NoXid /\ resend
  /\ state = "BOUND" => fd = "udp" /\ xid # NoXid /\ ~resend
  /\ state = "INIT" => (fd = "raw" /\ xid # NoXid /\ resend) \/ (fd = "none" /\ xid = NoXid)
  /\ state = "STOPPED" => fd = "none" /\ xid = NoXid /\ ~resend

(* client_send_request (719, 757) and client_timeout_resend (842, 852)     *)
(* read client->lease without a test, and sd_dhcp_client_get_lease hands   *)
(* it out: it is there in every state that does, and the address the next  *)
(* INIT_REBOOT asks for is the one the lease grants.                       *)
LeaseBacked ==
  /\ state \in HasLease \cup {"REQUESTING"} => lease # NoLease
  /\ state \in HasLease => last_addr = AddrOf[lease]
  /\ state \notin HasLease \cup {"REQUESTING"} => lease = NoLease

(* T1, T2 and the lifetime timer are armed only while a lease is held:     *)
(* none survives a NAK, an expiry, an error or a stop to move a restarted  *)
(* client to RENEWING or REBINDING.                                        *)
TimersNeedLease == t1 \/ t2 \/ expire => state \in HasLease

(* assert(client->request_sent) of client_compute_timeout (1271): no ACK   *)
(* reaches the client before it recorded when it sent a request.           *)
RequestPrecedesAck == AwaitsAck /\ Answered("REQUEST") => request_sent

(* The back-off after a NAK does not outlive the restart it delays: with a *)
(* lease held, T1, T2 and FORCERENEW, which share                          *)
(* client_initialize_time_events with the restart, send at once.           *)
RenewAtOnce == state \in HasLease => start_delay = 0

(* A restarted client cannot take the ACK of a request of an earlier       *)
(* transaction: until it sends its own, no answer passes the xid filter.   *)
NoStaleAck ==
  state \in {"INIT", "INIT_REBOOT", "SELECTING"} =>
    [type |-> "REQUEST", xid |-> xid] \notin net

(* Every REQUEST in flight was recorded when it was sent.                  *)
RequestsRecorded == \A m \in net : m.type = "REQUEST" => request_sent

(* The inductive invariant behind the safety properties above.             *)
ClientInv ==
  /\ ClientTypeOK
  /\ NeverStranded
  /\ LeaseBacked
  /\ TimersNeedLease
  /\ RenewAtOnce
  /\ NoStaleAck
  /\ RequestsRecorded

(* The client as its owner sees it: idle unless it listens or has its      *)
(* resend timer armed, with the lease sd_dhcp_client_get_lease returns.    *)
Phase == IF fd = "none" /\ ~resend THEN "idle"
         ELSE IF state \in HasLease THEN "bound"
         ELSE IF state \in {"INIT", "INIT_REBOOT"} THEN "starting"
         ELSE "asking"

Held == IF state \in HasLease THEN lease ELSE NoLease

Service == INSTANCE DhcpService WITH phase <- Phase, holding <- Held

(* A started client gets a lease, or is idle because it was stopped or     *)
(* could not go on (a local failure), through any pattern of losses, NAKs, *)
(* failed sends and restarts: it never waits for ever.                     *)
Acquires ==
  (state = "INIT" /\ resend) \/ state = "INIT_REBOOT" ~> state = "BOUND" \/ Phase = "idle"

(* The client keeps its promise to roamingd: whatever timers and answers   *)
(* are left over, a client that was stopped or has failed stays idle until *)
(* it is started, and a lease is handed out only to a client that asked.    *)
ImplementsService == Service!ServiceSpec

=============================================================================
