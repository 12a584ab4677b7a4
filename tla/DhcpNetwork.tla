----------------------------- MODULE DhcpNetwork -----------------------------
(***************************************************************************)
(* A DHCPv4 server (DhcpServer) and the clients on its link.  A client is  *)
(* what its messages show of sd-dhcp-client.c (DhcpClient has the rest of  *)
(* it); Foreign clients also send RELEASE and DECLINE, which roamingd's    *)
(* never does.  The frames of one station stay in order, and may be lost;  *)
(* answers may be lost, delayed and overtaken, and a client takes only     *)
(* those of its transaction.                                               *)
(***************************************************************************)
EXTENDS DhcpServer, Sequences, FiniteSets

CONSTANTS
  Foreign,      \* clients of other make
  Configs,      \* pools to configure: <<address & ~netmask, PoolOffset, PoolSize>>
  Roamed,       \* addresses a client may have had on another link, or INADDR_ANY
  MaxXid,       \* bound: transactions of each client
  MaxQueue,     \* bound: messages of a client under way
  MaxReplies,   \* bound: the server acts only while fewer answers are under way
  MaxRestarts   \* bound: restarts of the server

ASSUME NetworkAssumption ==
  /\ Foreign \subseteq Client
  /\ \A p \in Configs : p[1] \in 0 .. Broadcast /\ p[2] \in 0 .. 2 ^ Width - 1 /\ p[3] \in 0 .. 2 ^ Width - 1
  /\ Roamed \subseteq Nat
  /\ MaxXid \in [Client -> Nat] /\ MaxQueue \in Nat /\ MaxReplies \in Nat /\ MaxRestarts \in Nat

VARIABLES
  cstate,    \* client->state, RENEWING standing for REBINDING as well
  caddr,     \* the address offered to a client, or that of its lease
  cfrom,     \* the incarnation of the server that granted the lease (history)
  last,      \* client->last_addr
  xid,       \* client->xid, numbered
  requests   \* messages under way to the server

clientVars == <<cstate, caddr, cfrom, last, xid>>
vars == <<serverVars, clientVars, requests>>

ClientStates == {"IDLE", "INIT_REBOOT", "REBOOTING", "SELECTING", "REQUESTING",
                 "BOUND", "RENEWING"}

Holds(c) == cstate[c] \in {"BOUND", "RENEWING"}

NetworkInit ==
  /\ ServerInit
  /\ cstate = [c \in Client |-> "IDLE"]
  /\ caddr = [c \in Client |-> INADDR_ANY] /\ cfrom = [c \in Client |-> 0]
  /\ last \in [Client -> Roamed]
  /\ xid = [c \in Client |-> 0]
  /\ requests = [c \in Client |-> <<>>]

-----------------------------------------------------------------------------
(* The clients.                                                            *)

DropLease(c) ==
  /\ caddr' = [caddr EXCEPT ![c] = INADDR_ANY]
  /\ cfrom' = [cfrom EXCEPT ![c] = 0]

(* client_initialize and client_start_delayed: a new transaction.          *)
Restart(c, s) ==
  /\ xid[c] < MaxXid[c]
  /\ xid' = [xid EXCEPT ![c] = @ + 1]
  /\ cstate' = [cstate EXCEPT ![c] = s]
  /\ DropLease(c)
  /\ UNCHANGED last

ClientStarts(c) ==
  /\ cstate[c] = "IDLE"
  /\ Restart(c, IF last[c] = INADDR_ANY THEN "SELECTING" ELSE "INIT_REBOOT")
  /\ UNCHANGED <<serverVars, requests>>

ClientStops(c) ==
  /\ cstate[c] # "IDLE"
  /\ cstate' = [cstate EXCEPT ![c] = "IDLE"]
  /\ DropLease(c)
  /\ UNCHANGED <<serverVars, last, xid, requests>>

(* The lease expires, or nobody answers for the old address.               *)
StartsOver(c) ==
  /\ cstate[c] = "REBOOTING" \/ Holds(c)
  /\ Restart(c, "SELECTING")
  /\ UNCHANGED <<serverVars, requests>>

RenewalDue(c) ==
  /\ cstate[c] = "BOUND"
  /\ cstate' = [cstate EXCEPT ![c] = "RENEWING"]
  /\ UNCHANGED <<serverVars, caddr, cfrom, last, xid, requests>>

Message(type, c, server_id, requested, ciaddr) ==
  [type |-> type, client |-> c, xid |-> xid[c],
   server_id |-> server_id, requested |-> requested, ciaddr |-> ciaddr]

(* client_send_discover and client_send_request.                           *)
MessageOf(c) ==
  CASE cstate[c] = "SELECTING" -> Message("DISCOVER", c, "none", last[c], INADDR_ANY)
    [] cstate[c] = "INIT_REBOOT" -> Message("REQUEST", c, "none", last[c], INADDR_ANY)
    [] cstate[c] = "REQUESTING" -> Message("REQUEST", c, "us", caddr[c], INADDR_ANY)
    [] cstate[c] = "RENEWING" -> Message("REQUEST", c, "none", INADDR_ANY, caddr[c])

Queue(c, m) ==
  /\ Len(requests[c]) < MaxQueue
  /\ requests' = [requests EXCEPT ![c] = Append(@, m)]

ClientSends(c) ==
  /\ cstate[c] \in {"SELECTING", "INIT_REBOOT", "REQUESTING", "RENEWING"}
  /\ Queue(c, MessageOf(c))
  /\ cstate' = [cstate EXCEPT ![c] = IF @ = "INIT_REBOOT" THEN "REBOOTING" ELSE @]
  /\ UNCHANGED <<serverVars, caddr, cfrom, last, xid>>

(* The client takes the offer of another server.                           *)
PicksOther(c, a) ==
  /\ cstate[c] = "SELECTING"
  /\ Queue(c, Message("REQUEST", c, "other", a, INADDR_ANY))
  /\ cstate' = [cstate EXCEPT ![c] = "IDLE"]
  /\ UNCHANGED <<serverVars, caddr, cfrom, last, xid>>

(* A client of other make gives its address up, or finds it in use.        *)
GivesUp(c, type) ==
  /\ c \in Foreign /\ cstate[c] = "BOUND"
  /\ Queue(c, Message(type, c, "none", INADDR_ANY, caddr[c]))
  /\ cstate' = [cstate EXCEPT ![c] = "IDLE"]
  /\ DropLease(c)
  /\ UNCHANGED <<serverVars, last, xid>>

(* Mutant: the answers of older transactions are taken.                    *)
MutAnyXid(r) == TRUE

(* The socket filter and client_handle_message drop all others.            *)
OwnXid(r) == r.xid = xid[r.client]

Consume(r) == replies' = replies \ {r} /\ UNCHANGED <<tables, incarnation, server_failed>>

ReceivesOffer(r) ==
  /\ r.type = "OFFER" /\ OwnXid(r) /\ cstate[r.client] = "SELECTING"
  /\ Consume(r)
  /\ cstate' = [cstate EXCEPT ![r.client] = "REQUESTING"]
  /\ caddr' = [caddr EXCEPT ![r.client] = r.addr]
  /\ UNCHANGED <<cfrom, last, xid, requests>>

AwaitsAck(c) == cstate[c] \in {"REBOOTING", "REQUESTING", "RENEWING"}

ReceivesAck(r) ==
  /\ r.type = "ACK" /\ OwnXid(r) /\ AwaitsAck(r.client)
  /\ Consume(r)
  /\ cstate' = [cstate EXCEPT ![r.client] = "BOUND"]
  /\ caddr' = [caddr EXCEPT ![r.client] = r.addr]
  /\ cfrom' = [cfrom EXCEPT ![r.client] = r.from]
  /\ last' = [last EXCEPT ![r.client] = r.addr]
  /\ UNCHANGED <<xid, requests>>

ReceivesNak(r) ==
  /\ r.type = "NAK" /\ OwnXid(r) /\ AwaitsAck(r.client)
  /\ Consume(r)
  /\ Restart(r.client, "SELECTING")
  /\ UNCHANGED requests

ReceivesForcerenew(r) ==
  /\ r.type = "FORCERENEW" /\ cstate[r.client] = "BOUND"
  /\ Consume(r)
  /\ cstate' = [cstate EXCEPT ![r.client] = "RENEWING"]
  /\ UNCHANGED <<caddr, cfrom, last, xid, requests>>

-----------------------------------------------------------------------------
(* The network and the server.                                             *)

LoseRequest(c) ==
  /\ requests[c] # <<>>
  /\ requests' = [requests EXCEPT ![c] = Tail(@)]
  /\ UNCHANGED <<serverVars, clientVars>>

LoseReply(r) == Consume(r) /\ UNCHANGED <<clientVars, requests>>

ServerHandles(c) ==
  /\ requests[c] # <<>> /\ pool.address # INADDR_ANY
  /\ Cardinality(replies) < MaxReplies
  /\ requests' = [requests EXCEPT ![c] = Tail(@)]
  /\ dhcp_server_handle_message(Head(requests[c]))
  /\ UNCHANGED clientVars

ServerAlone ==
  /\ \/ \E p \in Configs : configure_pool(p[1], p[2], p[3])
     \/ Cardinality(replies) < MaxReplies /\ forcerenew
     \/ incarnation < MaxRestarts /\ ServerRestarts
  /\ UNCHANGED <<clientVars, requests>>

NetworkNext ==
  /\ ~server_failed
  /\ \/ ServerAlone
     \/ \E c \in Client :
          \/ ClientStarts(c) \/ ClientStops(c) \/ StartsOver(c) \/ RenewalDue(c)
          \/ ClientSends(c) \/ LoseRequest(c) \/ ServerHandles(c)
          \/ \E a \in Roamed \ {INADDR_ANY} : PicksOther(c, a)
          \/ \E type \in {"RELEASE", "DECLINE"} : GivesUp(c, type)
     \/ \E r \in replies :
          \/ ReceivesOffer(r) \/ ReceivesAck(r) \/ ReceivesNak(r)
          \/ ReceivesForcerenew(r) \/ LoseReply(r)

NetworkSpec == NetworkInit /\ [][NetworkNext]_vars

-----------------------------------------------------------------------------
(* Properties.                                                             *)

(* The type invariant of the clients and of what is under way.             *)
NetworkTypeOK ==
  /\ ServerTypeOK
  /\ cstate \in [Client -> ClientStates]
  /\ caddr \in [Client -> Nat] /\ last \in [Client -> Nat]
  /\ cfrom \in [Client -> Nat] /\ xid \in [Client -> Nat]

(* The server knows of every lease in use that it granted itself: neither  *)
(* a release, a late answer nor a new transaction separates the two sides. *)
HoldersRegistered ==
  \A c \in Client : Holds(c) /\ cfrom[c] = incarnation =>
    LET o == get_pool_offset(caddr[c]) IN o >= 0 /\ bound_leases[o] = c

(* No two clients use an address the same server granted, and none uses    *)
(* the server's own: through lost and late answers, init-reboots with      *)
(* addresses of other links, releases and restarts of the clients.  (What  *)
(* was granted before a restart of the server is not known to it.)         *)
NoSharedAddress ==
  /\ \A c, d \in Client :
       c # d /\ Holds(c) /\ Holds(d) /\ cfrom[c] = cfrom[d] => caddr[c] # caddr[d]
  /\ \A c \in Client : Holds(c) => caddr[c] # pool.address

=============================================================================
