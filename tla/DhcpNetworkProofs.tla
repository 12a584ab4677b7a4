-------------------------- MODULE DhcpNetworkProofs --------------------------
(***************************************************************************)
(* Proofs about the DHCPv4 server and its clients, for any number of       *)
(* clients, any subnet and any sequence of losses and restarts.            *)
(***************************************************************************)
EXTENDS DhcpNetwork, WellFoundedInduction, TLAPS

(* A message to the server, and an answer.                                 *)
Msg == [type : {"DISCOVER", "REQUEST", "RELEASE", "DECLINE"}, client : Client, xid : Nat,
        server_id : {"us", "other", "none"}, requested : Nat, ciaddr : Nat]

Rep == [type : {"OFFER", "ACK", "NAK", "FORCERENEW"}, client : Client, xid : Nat, addr : Nat, from : Nat]

(* What is under way has the form of a message, each in the queue of its   *)
(* sender.                                                                 *)
MessagesOK ==
  /\ requests \in [Client -> Seq(Msg)]
  /\ \A c \in Client : \A i \in 1 .. Len(requests[c]) : requests[c][i].client = c
  /\ replies \in SUBSET Rep

(* Before configure_pool the server has answered nobody.                   *)
PoolInv ==
  /\ pool.address # INADDR_ANY =>
       /\ pool.offset >= 1 /\ pool.size >= 1
       /\ pool.offset <= Broadcast => pool.offset + pool.size - 1 < Broadcast
  /\ pool.address = INADDR_ANY => /\ replies = {} /\ pool.size = 0
                                  /\ \A c \in Client : ~Holds(c) /\ ~Known(c)
  /\ \A o \in Offsets : pool.offset + o = pool.address => bound_leases[o] = Reserved

(* Messages of a client come in the order of its transactions; what was    *)
(* answered is not younger than what is under way.  A RELEASE is the last  *)
(* message of its transaction, so the transaction of a holder has none.    *)
QueueOf(c) ==
  /\ \A i \in 1 .. Len(requests[c]) :
       /\ requests[c][i].xid <= xid[c]
       /\ requests[c][i].type = "RELEASE" /\ requests[c][i].xid = xid[c] => cstate[c] = "IDLE"
       /\ \A j \in 1 .. Len(requests[c]) : i < j => requests[c][i].xid <= requests[c][j].xid
       /\ Holds(c) => requests[c][i].xid = xid[c]
       /\ \A r \in replies : r.type = "ACK" /\ r.client = c => r.xid <= requests[c][i].xid
  /\ \A r \in replies : r.type = "ACK" /\ r.client = c => r.xid <= xid[c]

QueueInv == \A c \in Client : QueueOf(c)

(* An address c may still use, or come to use, because incarnation n of    *)
(* the server granted it: c holds it, or will accept an ACK under way.     *)
Live(r) == r.type = "ACK" /\ r.xid = xid[r.client] /\ cstate[r.client] # "IDLE"

Claims(c, a, n) ==
  \/ Holds(c) /\ caddr[c] = a /\ cfrom[c] = n
  \/ \E r \in replies : Live(r) /\ r.client = c /\ r.addr = a /\ r.from = n

Registered(c, a) == get_pool_offset(a) >= 0 /\ bound_leases[get_pool_offset(a)] = c

ClaimInv ==
  \A c \in Client, a, n \in Nat : Claims(c, a, n) =>
    /\ a # pool.address /\ n <= incarnation
    /\ n = incarnation => Registered(c, a)
    /\ \A d \in Client \ {c} : ~Claims(d, a, n)

(* A request to renew follows no RELEASE, and in the server's first life   *)
(* it comes from a client the server knows.                                *)
RenewInv ==
  \A c \in Client :
    /\ cstate[c] = "INIT_REBOOT" => last[c] # INADDR_ANY
    /\ \A i \in 1 .. Len(requests[c]) : requests[c][i].type = "REQUEST" /\ Renewing(requests[c][i]) =>
         /\ \A j \in 1 .. i : requests[c][j].type # "RELEASE"
         /\ incarnation = 0 => Known(c)

(* The inductive invariant.                                                *)
NetworkInv ==
  /\ NetworkTypeOK /\ MessagesOK /\ PoolInv /\ TablesAgree /\ QueueInv /\ ClaimInv /\ RenewInv
  /\ LeasesAddressed

-----------------------------------------------------------------------------
(* Arithmetic and sequences.                                               *)

(* A nonempty set of naturals has a least element: the probe of FreeOffset *)
(* ends.                                                                   *)
LEMMA Least == ASSUME NEW T \in SUBSET Nat, T # {} PROVE \E m \in T : \A n \in T : m <= n
<1> DEFINE R == OpToRel(<, Nat)
<1>1. IsWellFoundedOn(R, Nat)
  BY NatLessThanWellFounded
<1>2. \A x, y \in Nat : <<x, y>> \in R <=> x < y
  BY DEF OpToRel
<1> HIDE DEF R
<1>3. PICK m \in T : \A n \in T : ~(<<n, m>> \in R)
  BY <1>1, WFMin
<1>4. \A n \in T : ~(n < m) /\ m \in Nat /\ n \in Nat
  BY <1>2, <1>3
<1> QED BY <1>4

(* Division with remainder.                                                *)
LEMMA DivMod == ASSUME NEW n \in Nat \ {0}, NEW a \in Nat PROVE \E q \in Nat : a = q * n + (a % n)
<1>1. a = (a \div n) * n + (a % n) /\ a \div n \in Nat
  OBVIOUS
<1> WITNESS a \div n \in Nat
<1> QED BY <1>1

(* A remainder is its own.                                                 *)
LEMMA ModUnique == ASSUME NEW n \in Nat \ {0}, NEW q \in Nat,
                          NEW o \in 0 .. n - 1
                   PROVE  (q * n + o) % n = o
OBVIOUS

(* Probing from any hash, modulo the size of the pool, reaches every       *)
(* offset.                                                                 *)
LEMMA ProbeReaches ==
  ASSUME NEW n \in Nat \ {0}, NEW h \in Nat, NEW o \in 0 .. n - 1
  PROVE  \E i \in 0 .. n - 1 : (h + i) % n = o
<1>1. PICK q \in Nat : h = q * n + (h % n)
  BY DivMod
<1> DEFINE r == h % n
<1>2. r \in 0 .. n - 1
  OBVIOUS
<1>3. h = q * n + r
  BY <1>1
<1> HIDE DEF r
<1>4. CASE o >= r
  <2>1. o - r \in 0 .. n - 1 /\ h + (o - r) = q * n + o
    BY <1>2, <1>3, <1>4
  <2> QED BY <2>1, ModUnique
<1>5. CASE o < r
  <2>1. o - r + n \in 0 .. n - 1 /\ h + (o - r + n) = (q + 1) * n + o /\ q + 1 \in Nat
    BY <1>2, <1>3, <1>5
  <2>2. (h + (o - r + n)) % n = o
    BY <2>1, ModUnique
  <2> QED BY <2>1, <2>2
<1> QED BY <1>2, <1>4, <1>5

(* A number below the modulus is its own remainder.                        *)
LEMMA ModSmall == ASSUME NEW n \in Nat \ {0}, NEW a \in 0 .. n - 1 PROVE a % n = a
OBVIOUS

(* What a queue is after a message is put into it.                         *)
LEMMA AppendFacts ==
  ASSUME NEW S, NEW s \in Seq(S), NEW e \in S
  PROVE  /\ Append(s, e) \in Seq(S) /\ Len(Append(s, e)) = Len(s) + 1 /\ Len(s) \in Nat
         /\ \A i \in 1 .. Len(s) : Append(s, e)[i] = s[i]
         /\ Append(s, e)[Len(s) + 1] = e
OBVIOUS

(* What a queue is after its first message is taken.                       *)
LEMMA TailFacts ==
  ASSUME NEW S, NEW s \in Seq(S), s # <<>>
  PROVE  /\ Tail(s) \in Seq(S) /\ Len(Tail(s)) = Len(s) - 1 /\ Len(s) \in Nat \ {0}
         /\ Head(s) = s[1] /\ Head(s) \in S
         /\ \A i \in 1 .. Len(Tail(s)) : Tail(s)[i] = s[i + 1]
OBVIOUS

-----------------------------------------------------------------------------
(* Types.                                                                  *)

(* The types of all variables.                                             *)
TypeInv == NetworkTypeOK /\ MessagesOK

(* If an offset is free, the probe of dhcp_server_handle_message ends at a *)
(* free one.                                                               *)
LEMMA FreeOffsetIsFree ==
  ASSUME ServerTypeOK, NEW c \in Client, \E o \in Offsets : bound_leases[o] = Nobody
  PROVE  FreeOffset(c) \in Offsets /\ bound_leases[FreeOffset(c)] = Nobody
<1> DEFINE probe(i) == (Hash[c] + i) % pool.size
           free == {i \in Offsets : bound_leases[probe(i)] = Nobody}
<1>1. pool.size \in Nat \ {0} /\ Hash[c] \in Nat
  BY ServerAssumption DEF ServerTypeOK, Offsets
<1>2. PICK o \in Offsets : bound_leases[o] = Nobody
  OBVIOUS
<1>3. PICK i \in Offsets : probe(i) = o
  BY <1>1, ProbeReaches DEF Offsets
<1>4. free \in SUBSET Nat /\ free # {}
  BY <1>1, <1>2, <1>3 DEF Offsets
<1>5. \E m \in free : \A n \in free : m <= n
  BY <1>4, Least
<1>6. PICK m \in free : FreeOffset(c) = probe(m)
  BY <1>5 DEF FreeOffset
<1>7. probe(m) \in Offsets
  <2>1. Hash[c] + m \in Int
    BY <1>1, <1>4
  <2> QED BY <1>1, <2>1 DEF Offsets
<1> QED BY <1>6, <1>7

(* An offer is an address.                                                 *)
LEMMA OfferIsNat == ASSUME ServerTypeOK, NEW c \in Client PROVE OfferFor(c) \in Nat
<1>1. CASE Known(c)
  BY <1>1 DEF ServerTypeOK, OfferFor, Known
<1>2. CASE ~Known(c) /\ \E o \in Offsets : bound_leases[o] = Nobody
  BY <1>2, FreeOffsetIsFree DEF ServerTypeOK, OfferFor, Offsets
<1>3. CASE ~Known(c) /\ \A o \in Offsets : bound_leases[o] # Nobody
  BY <1>3 DEF OfferFor, INADDR_ANY
<1> QED BY <1>1, <1>2, <1>3

(* The initial states have their types.                                    *)
LEMMA TypeInit == NetworkInit => TypeInv
<1> SUFFICES ASSUME NetworkInit PROVE TypeInv
  OBVIOUS
<1> USE ServerAssumption, NetworkAssumption DEF NetworkInit, ServerInit, INADDR_ANY
<1>1. bound_leases \in [Offsets -> Client \cup {Nobody, Reserved}]
  BY DEF Offsets, NoPool
<1>2. leases \in [Client -> Nat \cup {NoEntry}]
  OBVIOUS
<1>3. server_failed \in BOOLEAN
  BY Zenon
<1>4. ServerTypeOK
  BY <1>1, <1>2, <1>3 DEF ServerTypeOK, NoPool
<1>5. NetworkTypeOK
  BY <1>4 DEF NetworkTypeOK, ClientStates
<1>6. MessagesOK
  BY DEF MessagesOK
<1> QED BY <1>5, <1>6 DEF TypeInv

(* A message put into its sender's queue keeps the types.                  *)
LEMMA QueueType ==
  ASSUME TypeInv, NEW c \in Client, NEW m \in Msg, m.client = c, Queue(c, m), UNCHANGED replies
  PROVE  MessagesOK'
<1>1. requests[c] \in Seq(Msg) /\ requests' = [requests EXCEPT ![c] = Append(requests[c], m)]
  BY DEF TypeInv, MessagesOK, Queue
<1>2. Append(requests[c], m) \in Seq(Msg)
  BY <1>1, AppendFacts
<1>3. requests' \in [Client -> Seq(Msg)]
  BY <1>1, <1>2 DEF TypeInv, MessagesOK
<1>4. ASSUME NEW d \in Client, NEW i \in 1 .. Len(requests'[d])
      PROVE  requests'[d][i].client = d
  <2>1. CASE d = c
    BY <1>1, <1>4, <2>1, AppendFacts DEF TypeInv, MessagesOK
  <2>2. CASE d # c
    BY <1>1, <1>4, <2>2 DEF TypeInv, MessagesOK
  <2> QED BY <2>1, <2>2
<1> QED BY <1>3, <1>4 DEF TypeInv, MessagesOK

(* A message taken off a queue keeps the types.                            *)
LEMMA PopType ==
  ASSUME TypeInv, NEW c \in Client, requests[c] # <<>>,
         requests' = [requests EXCEPT ![c] = Tail(@)], replies' \in SUBSET Rep
  PROVE  MessagesOK' /\ Head(requests[c]) \in Msg /\ Head(requests[c]).client = c
<1>1. requests[c] \in Seq(Msg)
  BY DEF TypeInv, MessagesOK
<1>3. requests' \in [Client -> Seq(Msg)]
  BY <1>1, TailFacts DEF TypeInv, MessagesOK
<1>4. ASSUME NEW d \in Client, NEW i \in 1 .. Len(requests'[d])
      PROVE  requests'[d][i].client = d
  <2>1. CASE d = c
    <3>1. requests'[d][i] = requests[c][i + 1] /\ i + 1 \in 1 .. Len(requests[c])
      BY <1>1, <1>4, <2>1, TailFacts DEF TypeInv, MessagesOK
    <3> QED BY <2>1, <3>1 DEF TypeInv, MessagesOK
  <2>2. CASE d # c
    BY <1>1, <1>4, <2>2 DEF TypeInv, MessagesOK
  <2> QED BY <2>1, <2>2
<1>5. Head(requests[c]) \in Msg /\ Head(requests[c]).client = c
  BY <1>1, TailFacts DEF TypeInv, MessagesOK
<1> QED BY <1>3, <1>4, <1>5 DEF MessagesOK

(* What a client puts together is a message of its own.                    *)
LEMMA MessageType ==
  ASSUME TypeInv, NEW c \in Client, NEW type \in {"DISCOVER", "REQUEST", "RELEASE", "DECLINE"},
         NEW s \in {"us", "other", "none"}, NEW a \in Nat, NEW b \in Nat
  PROVE  Message(type, c, s, a, b) \in Msg /\ Message(type, c, s, a, b).client = c
BY DEF TypeInv, NetworkTypeOK, Message, Msg

(* What client_send_discover and client_send_request send is a message.    *)
LEMMA MessageOfType ==
  ASSUME TypeInv, NEW c \in Client, cstate[c] \in {"SELECTING", "INIT_REBOOT", "REQUESTING",
         "RENEWING"}
  PROVE  MessageOf(c) \in Msg /\ MessageOf(c).client = c
<1>1. last[c] \in Nat /\ caddr[c] \in Nat /\ INADDR_ANY \in Nat
  BY DEF TypeInv, NetworkTypeOK, INADDR_ANY
<1>2. CASE cstate[c] = "SELECTING"
  BY <1>1, <1>2, MessageType DEF MessageOf
<1>3. CASE cstate[c] = "INIT_REBOOT"
  BY <1>1, <1>3, MessageType DEF MessageOf
<1>4. CASE cstate[c] = "REQUESTING"
  BY <1>1, <1>4, MessageType DEF MessageOf
<1>5. CASE cstate[c] = "RENEWING"
  BY <1>1, <1>5, MessageType DEF MessageOf
<1> QED BY <1>2, <1>3, <1>4, <1>5

(* What a client does by itself.                                           *)
ClientActs(c) ==
  \/ ClientStarts(c) \/ ClientStops(c) \/ StartsOver(c) \/ RenewalDue(c) \/ ClientSends(c)
  \/ \E a \in Roamed \ {INADDR_ANY} : PicksOther(c, a)
  \/ \E type \in {"RELEASE", "DECLINE"} : GivesUp(c, type)

(* The clients' own steps keep the types.                                  *)
LEMMA ClientActsType ==
  ASSUME TypeInv, NEW c \in Client, ClientActs(c)
  PROVE  TypeInv'
<1> USE NetworkAssumption DEF Restart, DropLease, ClientStates, INADDR_ANY
<1>0. ServerTypeOK' /\ UNCHANGED replies
  BY DEF ClientActs, ClientStarts, ClientStops, StartsOver, RenewalDue, ClientSends,
     PicksOther, GivesUp,
         serverVars, tables, TypeInv, NetworkTypeOK, ServerTypeOK, Offsets
<1>1. CASE ClientStarts(c) \/ ClientStops(c) \/ StartsOver(c) \/ RenewalDue(c)
  <2>1. UNCHANGED requests
    BY <1>1 DEF ClientStarts, ClientStops, StartsOver, RenewalDue
  <2>2. NetworkTypeOK'
    BY <1>0, <1>1 DEF ClientStarts, ClientStops, StartsOver, RenewalDue, TypeInv, NetworkTypeOK
  <2>3. MessagesOK'
    BY <1>0, <2>1 DEF TypeInv, MessagesOK
  <2> QED BY <2>2, <2>3 DEF TypeInv
<1>2. CASE ClientSends(c)
  <2>1. NetworkTypeOK'
    BY <1>0, <1>2 DEF ClientSends, TypeInv, NetworkTypeOK
  <2>2. MessagesOK'
    BY <1>0, <1>2, MessageOfType, QueueType DEF ClientSends
  <2> QED BY <2>1, <2>2 DEF TypeInv
<1>3. ASSUME NEW a \in Roamed \ {INADDR_ANY}, PicksOther(c, a)
      PROVE  TypeInv'
  <2>1. NetworkTypeOK'
    BY <1>0, <1>3 DEF PicksOther, TypeInv, NetworkTypeOK
  <2>2. MessagesOK'
    BY <1>0, <1>3, MessageType, QueueType DEF PicksOther
  <2> QED BY <2>1, <2>2 DEF TypeInv
<1>4. ASSUME NEW type \in {"RELEASE", "DECLINE"}, GivesUp(c, type)
      PROVE  TypeInv'
  <2>1. NetworkTypeOK'
    BY <1>0, <1>4 DEF GivesUp, TypeInv, NetworkTypeOK
  <2>2. caddr[c] \in Nat
    BY DEF TypeInv, NetworkTypeOK
  <2>3. MessagesOK'
    BY <1>0, <1>4, <2>2, MessageType, QueueType DEF GivesUp
  <2> QED BY <2>1, <2>3 DEF TypeInv
<1> QED BY <1>1, <1>2, <1>3, <1>4 DEF ClientActs

(* An answer arrives, or is lost.                                          *)
ClientReceives(r) ==
  \/ ReceivesOffer(r) \/ ReceivesAck(r) \/ ReceivesNak(r)
  \/ ReceivesForcerenew(r) \/ LoseReply(r)

(* The arrival of an answer keeps the types.                               *)
LEMMA ReceivesType ==
  ASSUME TypeInv, NEW r \in replies, ClientReceives(r)
  PROVE  TypeInv'
<1>0. r.client \in Client /\ r.addr \in Nat /\ r.from \in Nat
  BY DEF TypeInv, MessagesOK, Rep
<1>1. ServerTypeOK' /\ replies' \subseteq replies /\ UNCHANGED requests
  BY DEF ClientReceives, ReceivesOffer, ReceivesAck, ReceivesNak, ReceivesForcerenew,
     LoseReply, Consume, tables,
         TypeInv, NetworkTypeOK, ServerTypeOK, Offsets
<1>2. MessagesOK'
  BY <1>1 DEF TypeInv, MessagesOK
<1>3. NetworkTypeOK'
  BY <1>0, <1>1 DEF ClientReceives, ReceivesOffer, ReceivesAck, ReceivesNak,
     ReceivesForcerenew, LoseReply, Restart,
      DropLease, clientVars, ClientStates, INADDR_ANY, TypeInv, NetworkTypeOK
<1> QED BY <1>2, <1>3 DEF TypeInv

(* Where the clients do nothing, the server's types are all there is to    *)
(* show.                                                                   *)
LEMMA ClientsUnchanged ==
  ASSUME TypeInv, ServerTypeOK', MessagesOK', UNCHANGED clientVars
  PROVE  TypeInv'
BY DEF TypeInv, NetworkTypeOK, clientVars

(* dhcp_server_handle_message keeps the server's types.                    *)
LEMMA HandleType ==
  ASSUME TypeInv, NEW m \in Msg, dhcp_server_handle_message(m)
  PROVE  ServerTypeOK' /\ replies' \in SUBSET Rep
<1>0. m.client \in Client /\ m.xid \in Nat /\ m.requested \in Nat /\ m.ciaddr \in Nat
  BY DEF Msg
<1>1. \A type \in {"OFFER", "ACK", "NAK", "FORCERENEW"}, a \in Nat : Reply(type, m, a) \in Rep
  BY <1>0 DEF Reply, Rep, TypeInv, NetworkTypeOK, ServerTypeOK
<1>2. replies \in SUBSET Rep
  BY DEF TypeInv, MessagesOK
<1>3. ASSUME NEW works \in Works, Discover(m, works)
      PROVE  ServerTypeOK' /\ replies' \in SUBSET Rep
  <2>1. OfferFor(m.client) \in Nat
    BY <1>0, OfferIsNat DEF TypeInv, NetworkTypeOK
  <2> QED BY <1>1, <1>2, <1>3, <2>1
             DEF Discover, tables, TypeInv, NetworkTypeOK, ServerTypeOK, Offsets
<1>4. ASSUME NEW works \in Works, Request(m, works)
      PROVE  ServerTypeOK' /\ replies' \in SUBSET Rep
  <2>1. RequestedAddress(m) \in Nat /\ INADDR_ANY \in Nat
    BY <1>0 DEF RequestedAddress, INADDR_ANY
  <2>2. replies' \in SUBSET Rep
    BY <1>1, <1>2, <1>4, <2>1 DEF Request
  <2>3. ServerTypeOK'
    BY <1>0, <1>4 DEF Request, EnterLease, TypeInv, NetworkTypeOK, ServerTypeOK, Offsets
  <2> QED BY <2>2, <2>3
<1>5. CASE Decline(m)
  BY <1>2, <1>5 DEF Decline, serverVars, tables, TypeInv, NetworkTypeOK, ServerTypeOK, Offsets
<1>6. CASE Release(m)
  BY <1>0, <1>2, <1>6 DEF Release, Forget, TypeInv, NetworkTypeOK, ServerTypeOK, Offsets
<1> QED BY <1>3, <1>4, <1>5, <1>6 DEF dhcp_server_handle_message

(* A fresh pool is a table of bound leases.                                *)
LEMMA EmptyPoolType ==
  ASSUME NEW p, p.size \in Nat PROVE EmptyPool(p) \in [0 .. p.size - 1 -> Client \cup {Nobody,
         Reserved}]
BY DEF EmptyPool

(* configure_pool, forcerenew and a restart keep the types.  A FORCERENEW  *)
(* carries an address because every bound client has a lease               *)
(* (TablesAgree).                                                          *)
LEMMA ServerAloneType ==
  ASSUME TypeInv, TablesAgree, ServerAlone
  PROVE  TypeInv'
<1>1. UNCHANGED clientVars /\ UNCHANGED requests
  BY DEF ServerAlone
<1>2. ASSUME NEW p \in Configs, configure_pool(p[1], p[2], p[3])
      PROVE  ServerTypeOK' /\ replies' \in SUBSET Rep
  <2> DEFINE off == IF p[2] = 0 THEN 1 ELSE p[2]
             n == IF p[3] = 0 THEN SizeMax(off) ELSE p[3]
             q == [address |-> p[1], offset |-> off, size |-> n]
  <2>1. p[1] \in Nat /\ p[2] \in Nat /\ p[3] \in Nat
    BY NetworkAssumption, ServerAssumption
  <2>2. off \in Nat /\ SizeMax(off) \in Nat
    <3>1. Broadcast + 1 - off - 1 \in Int /\ 2 ^ Width \in Nat \ {0}
      BY <2>1, ServerAssumption
    <3> QED BY <2>1, <3>1 DEF SizeMax
  <2>3. pool' = q /\ bound_leases' = EmptyPool(q) /\ UNCHANGED <<leases, replies, incarnation, server_failed>>
    BY <1>2 DEF configure_pool
  <2>4. q \in [address : Nat, offset : Nat, size : Nat] /\ q.size \in Nat
    BY <2>1, <2>2
  <2> HIDE DEF q
  <2> QED BY <2>3, <2>4, EmptyPoolType DEF TypeInv, NetworkTypeOK, ServerTypeOK, MessagesOK, Offsets
<1>3. ASSUME forcerenew PROVE ServerTypeOK' /\ replies' \in SUBSET Rep
  <2>0. ServerTypeOK /\ replies \in SUBSET Rep
    BY DEF TypeInv, NetworkTypeOK, MessagesOK
  <2>1. ServerTypeOK'
    BY <1>3, <2>0 DEF forcerenew, tables, ServerTypeOK, Offsets
  <2>2. CASE UNCHANGED replies
    BY <2>0, <2>1, <2>2
  <2>3. CASE replies' = replies \cup {[type |-> "FORCERENEW", client |-> c, xid |-> 0,
                                     addr |-> leases[c], from |-> incarnation] : c \in Bound}
    <3>1. \A c \in Bound : c \in Client /\ leases[c] \in Nat
      BY <2>0 DEF TablesAgree, Known, Bound, ServerTypeOK
    <3>2. incarnation \in Nat
      BY <2>0 DEF ServerTypeOK
    <3>3. \A c \in Bound : [type |-> "FORCERENEW", client |-> c, xid |-> 0, addr |-> leases[c],
                            from |-> incarnation] \in Rep
      BY <3>1, <3>2 DEF Rep
    <3> QED BY <2>0, <2>1, <2>3, <3>3
  <2> QED BY <1>3, <2>1, <2>2, <2>3 DEF forcerenew
<1>4. ASSUME ServerRestarts PROVE ServerTypeOK' /\ replies' \in SUBSET Rep
  <2>0. ServerTypeOK /\ replies \in SUBSET Rep
    BY DEF TypeInv, NetworkTypeOK, MessagesOK
  <2>1. bound_leases' \in [Offsets -> Client \cup {Nobody, Reserved}]
    BY <1>4, <2>0, EmptyPoolType DEF ServerRestarts, ServerTypeOK, Offsets
  <2>2. leases' \in [Client -> Nat \cup {NoEntry}]
    BY <1>4 DEF ServerRestarts
  <2> QED BY <1>4, <2>0, <2>1, <2>2 DEF ServerRestarts, ServerTypeOK, Offsets
<1>5. ServerTypeOK' /\ replies' \in SUBSET Rep
  BY <1>2, <1>3, <1>4 DEF ServerAlone
<1>6. MessagesOK'
  BY <1>1, <1>5 DEF TypeInv, MessagesOK
<1> QED BY <1>1, <1>5, <1>6, ClientsUnchanged

-----------------------------------------------------------------------------
(* The pool and the tables.                                                *)

(* get_pool_offset finds the offset of an address of the pool, and of no   *)
(* other: the pool lies below the broadcast address, so the mask takes     *)
(* nothing off.                                                            *)
LEMMA OffsetInPool ==
  ASSUME ServerTypeOK, PoolInv, NEW a \in Nat, get_pool_offset(a) >= 0
  PROVE  /\ get_pool_offset(a) \in Offsets
         /\ a = pool.offset + get_pool_offset(a)
         /\ pool.address # INADDR_ANY
<1>1. pool.offset \in Nat /\ pool.size \in Nat /\ Broadcast \in Nat
  BY ServerAssumption DEF ServerTypeOK
<1>2. a \in pool.offset .. pool.offset + pool.size - 1
  BY DEF get_pool_offset
<1>3. get_pool_offset(a) = (a % (Broadcast + 1)) - pool.offset
  BY <1>2 DEF get_pool_offset
<1>4. pool.address # INADDR_ANY
  BY <1>1, <1>2 DEF PoolInv
<1>5. a % (Broadcast + 1) \in 0 .. Broadcast
  BY <1>1
<1>6. pool.offset <= Broadcast
  BY <1>1, <1>3, <1>5
<1>7. pool.offset + pool.size - 1 < Broadcast
  BY <1>4, <1>6 DEF PoolInv
<1>8. a \in 0 .. (Broadcast + 1) - 1
  BY <1>1, <1>2, <1>7
<1>9. a % (Broadcast + 1) = a
  BY <1>1, <1>8, ModSmall
<1> QED BY <1>1, <1>2, <1>3, <1>4, <1>9 DEF Offsets

(* A grantable address is that of a slot of the pool, free or the client's *)
(* own.                                                                    *)
LEMMA Grants ==
  ASSUME TypeInv, PoolInv, TablesAgree, NEW m \in Msg,
         Grantable(m.client, get_pool_offset(RequestedAddress(m)))
  PROVE  LET a == RequestedAddress(m)
             o == get_pool_offset(a)
         IN  /\ a \in Nat /\ o \in Offsets /\ a = pool.offset + o /\ m.client \in Client
             /\ bound_leases[o] = IF Known(m.client) THEN m.client ELSE Nobody
             /\ bound_leases[o] \in {m.client, Nobody}
<1>1. RequestedAddress(m) \in Nat /\ m.client \in Client
  BY DEF RequestedAddress, Msg
<1> QED BY <1>1, OffsetInPool DEF Grantable, TypeInv, NetworkTypeOK

(* Entering a granted lease keeps the two tables in agreement.             *)
LEMMA EnterKeepsTables ==
  ASSUME TypeInv, TablesAgree, NEW m \in Msg, NEW o \in Offsets, EnterLease(m, o), UNCHANGED pool,
         bound_leases[o] = IF Known(m.client) THEN m.client ELSE Nobody
  PROVE  TablesAgree'
<1> DEFINE c == m.client
<1>0. c \in Client /\ m.requested \in Nat /\ Nobody \notin Client /\ NoEntry \notin Nat
  BY ServerAssumption DEF Msg
<1>1. /\ bound_leases \in [Offsets -> Client \cup {Nobody, Reserved}]
      /\ leases \in [Client -> Nat \cup {NoEntry}]
      /\ Offsets' = Offsets
  BY DEF TypeInv, NetworkTypeOK, ServerTypeOK, Offsets
<1>2. /\ bound_leases' = [bound_leases EXCEPT ![o] = c]
      /\ leases' = [leases EXCEPT ![c] = IF Known(c) THEN leases[c] ELSE m.requested]
  BY DEF EnterLease
<1>3. CASE Known(c)
  <2>1. bound_leases' = bound_leases /\ leases' = leases
    BY <1>0, <1>1, <1>2, <1>3
  <2> QED BY <1>1, <2>1 DEF TablesAgree, Known, Bound
<1>4. CASE ~Known(c)
  <2>1. \A p \in Offsets : bound_leases[p] # c
    BY <1>0, <1>4 DEF TablesAgree, Bound
  <2>2. \A p \in Offsets : bound_leases'[p] = IF p = o THEN c ELSE bound_leases[p]
    BY <1>1, <1>2
  <2>3. \A d \in Client : leases'[d] = IF d = c THEN m.requested ELSE leases[d]
    BY <1>1, <1>2, <1>4
  <2>4. bound_leases[o] = Nobody
    BY <1>4
  <2>5. \A d \in Client : (leases'[d] # NoEntry) <=> \E p \in Offsets : bound_leases'[p] = d
    <3>1. leases'[c] # NoEntry /\ bound_leases'[o] = c
      BY <1>0, <2>2, <2>3
    <3>2. ASSUME NEW d \in Client \ {c}
          PROVE  (leases'[d] # NoEntry) <=> \E p \in Offsets : bound_leases'[p] = d
      <4>1. leases'[d] = leases[d] /\ (leases[d] # NoEntry <=> \E p \in Offsets : bound_leases[p] = d)
        BY <2>3, <3>2 DEF TablesAgree, Known, Bound
      <4>2. \A p \in Offsets : bound_leases'[p] = d <=> bound_leases[p] = d
        BY <1>0, <2>2, <2>4, <3>2
      <4> QED BY <4>1, <4>2
    <3> QED BY <3>1, <3>2
  <2>6. \A p, q \in Offsets : bound_leases'[p] = bound_leases'[q] /\ bound_leases'[p] \in Client => p = q
    BY <2>1, <2>2 DEF TablesAgree
  <2> QED BY <1>1, <2>5, <2>6 DEF TablesAgree, Known, Bound
<1> QED BY <1>3, <1>4

(* So does a release.                                                      *)
LEMMA ForgetKeepsTables ==
  ASSUME TypeInv, TablesAgree, NEW c \in Client, NEW o \in Offsets, bound_leases[o] = c,
         Forget(c, o),
         UNCHANGED pool
  PROVE  TablesAgree'
<1>1. /\ bound_leases \in [Offsets -> Client \cup {Nobody, Reserved}]
      /\ leases \in [Client -> Nat \cup {NoEntry}]
      /\ Offsets' = Offsets /\ Nobody \notin Client
  BY ServerAssumption DEF TypeInv, NetworkTypeOK, ServerTypeOK, Offsets
<1>2. /\ \A p \in Offsets : bound_leases'[p] = IF p = o THEN Nobody ELSE bound_leases[p]
      /\ \A d \in Client : leases'[d] = IF d = c THEN NoEntry ELSE leases[d]
  BY <1>1 DEF Forget
<1>3. \A d \in Client : (leases'[d] # NoEntry) <=> \E p \in Offsets : bound_leases'[p] = d
  <2>1. leases'[c] = NoEntry /\ \A p \in Offsets : bound_leases'[p] # c
    BY <1>1, <1>2 DEF TablesAgree
  <2>2. ASSUME NEW d \in Client \ {c}
        PROVE  (leases'[d] # NoEntry) <=> \E p \in Offsets : bound_leases'[p] = d
    <3>1. leases'[d] = leases[d] /\ (leases[d] # NoEntry <=> \E p \in Offsets : bound_leases[p] = d)
      BY <1>2, <2>2 DEF TablesAgree, Known, Bound
    <3>2. \A p \in Offsets : bound_leases'[p] = d <=> bound_leases[p] = d
      BY <1>1, <1>2, <2>2
    <3> QED BY <3>1, <3>2
  <2> QED BY <2>1, <2>2
<1>4. \A p, q \in Offsets : bound_leases'[p] = bound_leases'[q] /\ bound_leases'[p] \in Client => p = q
  BY <1>1, <1>2 DEF TablesAgree
<1> QED BY <1>1, <1>3, <1>4 DEF TablesAgree, Known, Bound

(* No client is bound in a fresh pool.                                     *)
LEMMA FreshTables ==
  ASSUME NEW p, p.size \in Nat, pool' = p, bound_leases' = EmptyPool(p),
         \A c \in Client : leases'[c] = NoEntry
  PROVE  TablesAgree' /\ \A o \in Offsets' : bound_leases'[o] \notin Client
<1>1. \A o \in Offsets' : bound_leases'[o] \in {Nobody, Reserved}
  BY DEF EmptyPool, Offsets
<1>2. Nobody \notin Client /\ Reserved \notin Client
  BY ServerAssumption
<1> QED BY <1>1, <1>2 DEF TablesAgree, Known, Bound

-----------------------------------------------------------------------------
(* Steps of the clients.                                                   *)

(* What the invariant needs of a step of client c: it begins a transaction *)
(* or stays in the one it is in, takes answers away and never adds one,    *)
(* holds an address only if it claimed it before, and asks to renew only   *)
(* what it holds.                                                          *)
ClientStep(c) ==
  /\ \A d \in Client \ {c} :
       /\ cstate'[d] = cstate[d] /\ caddr'[d] = caddr[d] /\ cfrom'[d] = cfrom[d]
       /\ last'[d] = last[d] /\ xid'[d] = xid[d] /\ requests'[d] = requests[d]
  /\ xid'[c] \in {xid[c], xid[c] + 1}
  /\ xid'[c] = xid[c] /\ cstate'[c] # "IDLE" => cstate[c] # "IDLE"
  /\ replies' \subseteq replies /\ UNCHANGED <<tables, incarnation>>
  /\ Holds(c)' => xid'[c] = xid[c] /\ Claims(c, caddr'[c], cfrom'[c])
  /\ cstate'[c] = "INIT_REBOOT" => last'[c] # INADDR_ANY
  /\ \/ requests' = requests
     \/ \E m \in Msg :
          /\ requests'[c] = Append(requests[c], m)
          /\ m.xid = xid[c] /\ xid'[c] = xid[c]
          /\ m.type = "RELEASE" => cstate'[c] = "IDLE"
          /\ m.type = "REQUEST" /\ Renewing(m) => Holds(c)

(* The clients' own actions are such steps.                                *)
LEMMA ActsAreSteps ==
  ASSUME TypeInv, RenewInv, NEW c \in Client, ClientActs(c)
  PROVE  ClientStep(c)
<1> USE DEF TypeInv, NetworkTypeOK, MessagesOK, ClientStep, Holds, Claims, serverVars, tables
<1>1. CASE ClientStarts(c)
  BY <1>1 DEF ClientStarts, Restart, DropLease
<1>2. CASE ClientStops(c)
  BY <1>2 DEF ClientStops, DropLease
<1>3. CASE StartsOver(c)
  BY <1>3 DEF StartsOver, Restart, DropLease
<1>4. CASE RenewalDue(c)
  BY <1>4 DEF RenewalDue
<1>5. CASE ClientSends(c)
  <2>1. MessageOf(c) \in Msg
    BY <1>5, MessageOfType DEF ClientSends
  <2>2. MessageOf(c).xid = xid[c] /\ MessageOf(c).type # "RELEASE"
    BY <1>5 DEF ClientSends, MessageOf, Message
  <2>3. Renewing(MessageOf(c)) /\ MessageOf(c).type = "REQUEST" => Holds(c)
    BY <1>5 DEF ClientSends, MessageOf, Message, Renewing, Selecting, RenewInv
  <2>4. /\ requests' = [requests EXCEPT ![c] = Append(requests[c], MessageOf(c))]
        /\ cstate' = [cstate EXCEPT ![c] = IF @ = "INIT_REBOOT" THEN "REBOOTING" ELSE @]
        /\ cstate[c] \in {"SELECTING", "INIT_REBOOT", "REQUESTING", "RENEWING"}
        /\ UNCHANGED <<serverVars, caddr, cfrom, last, xid>>
    BY <1>5 DEF ClientSends, Queue
  <2> QED BY <2>1, <2>2, <2>3, <2>4
<1>6. ASSUME NEW a \in Roamed \ {INADDR_ANY}, PicksOther(c, a)
      PROVE  ClientStep(c)
  <2> DEFINE m == Message("REQUEST", c, "other", a, INADDR_ANY)
  <2>1. m \in Msg
    BY NetworkAssumption, MessageType DEF INADDR_ANY
  <2>2. m.xid = xid[c] /\ m.type = "REQUEST" /\ ~Renewing(m)
    BY DEF Message, Renewing, Selecting
  <2>3. /\ requests' = [requests EXCEPT ![c] = Append(requests[c], m)]
        /\ cstate' = [cstate EXCEPT ![c] = "IDLE"]
        /\ UNCHANGED <<serverVars, caddr, cfrom, last, xid>>
    BY <1>6 DEF PicksOther, Queue
  <2> HIDE DEF m
  <2> QED BY <2>1, <2>2, <2>3
<1>7. ASSUME NEW type \in {"RELEASE", "DECLINE"}, GivesUp(c, type)
      PROVE  ClientStep(c)
  <2> DEFINE m == Message(type, c, "none", INADDR_ANY, caddr[c])
  <2>1. m \in Msg
    BY MessageType DEF INADDR_ANY
  <2>2. m.xid = xid[c] /\ m.type # "REQUEST"
    BY DEF Message
  <2>3. /\ requests' = [requests EXCEPT ![c] = Append(requests[c], m)]
        /\ cstate' = [cstate EXCEPT ![c] = "IDLE"] /\ cstate[c] = "BOUND"
        /\ DropLease(c)
        /\ UNCHANGED <<serverVars, last, xid>>
    BY <1>7 DEF GivesUp, Queue
  <2> HIDE DEF m
  <2> QED BY <2>1, <2>2, <2>3 DEF DropLease
<1> QED BY <1>1, <1>2, <1>3, <1>4, <1>5, <1>6, <1>7 DEF ClientActs

(* So is the arrival of an answer: an ACK turns a claim under way into a   *)
(* lease held.                                                             *)
LEMMA ReceivesAreSteps ==
  ASSUME TypeInv, RenewInv, NEW r \in replies, ClientReceives(r)
  PROVE  r.client \in Client /\ ClientStep(r.client)
<1>0. r.client \in Client
  BY DEF TypeInv, MessagesOK, Rep
<1> USE <1>0 DEF TypeInv, NetworkTypeOK, MessagesOK, ClientStep, Holds, Claims, Consume, tables, OwnXid
<1>1. CASE ReceivesOffer(r)
  BY <1>1 DEF ReceivesOffer
<1>2. CASE ReceivesAck(r)
  <2>1. Live(r)
    BY <1>2 DEF ReceivesAck, AwaitsAck, Live
  <2> QED BY <1>2, <2>1 DEF ReceivesAck, AwaitsAck
<1>3. CASE ReceivesNak(r)
  BY <1>3 DEF ReceivesNak, AwaitsAck, Restart, DropLease
<1>4. CASE ReceivesForcerenew(r)
  BY <1>4 DEF ReceivesForcerenew
<1>5. CASE LoseReply(r)
  BY <1>5 DEF LoseReply, clientVars, RenewInv
<1> QED BY <1>1, <1>2, <1>3, <1>4, <1>5 DEF ClientReceives

(* A step that adds no claim and unregisters no claimed address keeps      *)
(* ClaimInv.                                                               *)
LEMMA ClaimsShrink ==
  ASSUME ClaimInv, UNCHANGED <<pool, incarnation>>,
         \A d \in Client, a, n \in Nat : Claims(d, a, n)' =>
           Claims(d, a, n) /\ (Registered(d, a) => Registered(d, a)')
  PROVE  ClaimInv'
<1> SUFFICES ASSUME NEW c \in Client, NEW a \in Nat, NEW n \in Nat, Claims(c, a, n)'
             PROVE  /\ a # pool'.address /\ n <= incarnation'
                    /\ n = incarnation' => Registered(c, a)'
                    /\ \A d \in Client \ {c} : ~Claims(d, a, n)'
  BY DEF ClaimInv
<1>1. Claims(c, a, n) /\ (Registered(c, a) => Registered(c, a)')
  OBVIOUS
<1>2. /\ a # pool.address /\ n <= incarnation
      /\ n = incarnation => Registered(c, a)
      /\ \A d \in Client \ {c} : ~Claims(d, a, n)
  BY <1>1 DEF ClaimInv
<1>3. \A d \in Client \ {c} : Claims(d, a, n)' => Claims(d, a, n)
  OBVIOUS
<1> QED BY <1>1, <1>2, <1>3

(* A client's step adds no claim: a new transaction makes the ACKs of the  *)
(* old one dead, since none of them is younger than the client's xid.      *)
LEMMA StepClaims ==
  ASSUME TypeInv, QueueInv, NEW c \in Client, ClientStep(c),
         NEW d \in Client, NEW a \in Nat, NEW n \in Nat, Claims(d, a, n)'
  PROVE  Claims(d, a, n)
<1>1. CASE Holds(d)' /\ caddr'[d] = a /\ cfrom'[d] = n
  <2>1. CASE d = c
    BY <1>1, <2>1 DEF ClientStep
  <2>2. CASE d # c
    BY <1>1, <2>2 DEF ClientStep, Holds, Claims
  <2> QED BY <2>1, <2>2
<1>2. CASE \E r \in replies' : Live(r)' /\ r.client = d /\ r.addr = a /\ r.from = n
  <2>1. PICK r \in replies' : Live(r)' /\ r.client = d /\ r.addr = a /\ r.from = n
    BY <1>2
  <2>2. r \in replies /\ r.type = "ACK" /\ r.xid = xid'[d] /\ cstate'[d] # "IDLE"
    BY <2>1 DEF Live, ClientStep
  <2>3. r.xid <= xid[d] /\ xid[d] \in Nat
    BY <2>1, <2>2 DEF QueueInv, QueueOf, TypeInv, NetworkTypeOK
  <2>4. xid'[d] = xid[d] /\ cstate[d] # "IDLE"
    BY <2>2, <2>3 DEF ClientStep
  <2> QED BY <2>1, <2>2, <2>4 DEF Live, Claims
<1> QED BY <1>1, <1>2 DEF Claims

(* A client's step keeps the order of its messages.                        *)
LEMMA StepQueue ==
  ASSUME TypeInv, QueueInv, NEW c \in Client, ClientStep(c)
  PROVE  QueueInv'
<1>0. /\ xid \in [Client -> Nat] /\ requests[c] \in Seq(Msg)
      /\ \A d \in Client : \A i \in 1 .. Len(requests[d]) : requests[d][i].xid \in Nat
      /\ replies' \subseteq replies
  <2>1. \A d \in Client : requests[d] \in Seq(Msg)
    BY DEF TypeInv, MessagesOK
  <2>2. \A d \in Client : \A i \in 1 .. Len(requests[d]) : requests[d][i] \in Msg
    BY <2>1
  <2>3. \A m \in Msg : m.xid \in Nat
    BY DEF Msg
  <2> QED BY <2>1, <2>2, <2>3 DEF TypeInv, NetworkTypeOK, ClientStep
<1>1. ASSUME NEW d \in Client \ {c}
      PROVE  QueueOf(d)'
  <2>1. cstate'[d] = cstate[d] /\ xid'[d] = xid[d] /\ requests'[d] = requests[d]
    BY <1>1 DEF ClientStep
  <2> QED BY <1>0, <1>1, <2>1 DEF QueueInv, QueueOf, Holds
<1>2. \A r \in replies' : r.type = "ACK" /\ r.client = c => r.xid <= xid'[c] /\ r.xid \in Nat
  BY <1>0 DEF QueueInv, QueueOf, ClientStep, TypeInv, MessagesOK, Rep
<1>3. Holds(c)' => xid'[c] = xid[c] /\ \A i \in 1 .. Len(requests[c]) : requests[c][i].xid = xid[c]
  <2> SUFFICES ASSUME Holds(c)', NEW i \in 1 .. Len(requests[c])
               PROVE  xid'[c] = xid[c] /\ requests[c][i].xid = xid[c]
    BY DEF ClientStep
  <2>1. xid'[c] = xid[c] /\ Claims(c, caddr'[c], cfrom'[c])
    BY DEF ClientStep
  <2>2. CASE Holds(c)
    BY <2>1, <2>2 DEF QueueInv, QueueOf
  <2>3. CASE \E r \in replies : Live(r) /\ r.client = c
    <3>1. PICK r \in replies : r.type = "ACK" /\ r.client = c /\ r.xid = xid[c]
      BY <2>3 DEF Live
    <3>2. r.xid <= requests[c][i].xid /\ requests[c][i].xid <= xid[c]
      BY <3>1 DEF QueueInv, QueueOf
    <3> QED BY <1>0, <2>1, <3>1, <3>2
  <2> QED BY <2>1, <2>2, <2>3 DEF Claims
<1>4. ASSUME NEW i \in 1 .. Len(requests[c])
      PROVE  /\ requests[c][i].xid <= xid'[c]
             /\ requests[c][i].type = "RELEASE" /\ requests[c][i].xid = xid'[c] => cstate'[c] = "IDLE"
             /\ \A j \in 1 .. Len(requests[c]) : i < j => requests[c][i].xid <= requests[c][j].xid
             /\ Holds(c)' => requests[c][i].xid = xid'[c]
             /\ \A r \in replies' : r.type = "ACK" /\ r.client = c => r.xid <= requests[c][i].xid
  <2>1. requests[c][i].xid <= xid[c] /\ requests[c][i].xid \in Nat
    BY <1>0 DEF QueueInv, QueueOf
  <2>2. requests[c][i].type = "RELEASE" /\ requests[c][i].xid = xid'[c] => cstate'[c] = "IDLE"
    BY <1>0, <2>1 DEF QueueInv, QueueOf, ClientStep
  <2>3. requests[c][i].xid <= xid'[c]
    BY <1>0, <2>1 DEF ClientStep
  <2> QED BY <1>0, <1>3, <2>2, <2>3 DEF QueueInv, QueueOf
<1>5. CASE requests' = requests
  BY <1>1, <1>2, <1>4, <1>5 DEF QueueInv, QueueOf
<1>6. ASSUME NEW m \in Msg, requests'[c] = Append(requests[c], m), m.xid = xid[c], xid'[c] = xid[c],
             m.type = "RELEASE" => cstate'[c] = "IDLE"
      PROVE  QueueInv'
  <2>1. /\ Len(requests'[c]) = Len(requests[c]) + 1 /\ Len(requests[c]) \in Nat
        /\ \A i \in 1 .. Len(requests[c]) : requests'[c][i] = requests[c][i]
        /\ requests'[c][Len(requests[c]) + 1] = m
    BY <1>0, <1>6, AppendFacts
  <2>2. ASSUME NEW i \in 1 .. Len(requests'[c])
        PROVE  /\ requests'[c][i].xid <= xid'[c]
               /\ requests'[c][i].type = "RELEASE" /\ requests'[c][i].xid = xid'[c] => cstate'[c] = "IDLE"
               /\ \A j \in 1 .. Len(requests'[c]) : i < j => requests'[c][i].xid <= requests'[c][j].xid
               /\ Holds(c)' => requests'[c][i].xid = xid'[c]
               /\ \A r \in replies' : r.type = "ACK" /\ r.client = c => r.xid <= requests'[c][i].xid
    <3>1. CASE i \in 1 .. Len(requests[c])
      <4>1. \A j \in 1 .. Len(requests'[c]) : i < j => requests'[c][i].xid <= requests'[c][j].xid
        BY <1>4, <1>6, <2>1, <3>1
      <4> QED BY <1>4, <2>1, <3>1, <4>1
    <3>2. CASE i = Len(requests[c]) + 1
      <4>1. requests'[c][i] = m /\ xid[c] \in Nat
        BY <1>0, <2>1, <3>2
      <4>2. \A j \in 1 .. Len(requests'[c]) : ~(i < j)
        BY <2>1, <3>2
      <4> QED BY <1>2, <1>6, <4>1, <4>2
    <3> QED BY <2>1, <3>1, <3>2
  <2> QED BY <1>1, <1>2, <2>2 DEF QueueInv, QueueOf
<1> QED BY <1>5, <1>6 DEF ClientStep

(* What ClaimInv says of a client that holds its address.                  *)
LEMMA HolderRegistered ==
  ASSUME TypeInv, ClaimInv, NEW c \in Client, Holds(c)
  PROVE  /\ caddr[c] # pool.address /\ cfrom[c] <= incarnation
         /\ cfrom[c] = incarnation => Registered(c, caddr[c])
<1>1. caddr[c] \in Nat /\ cfrom[c] \in Nat
  BY DEF TypeInv, NetworkTypeOK
<1>2. Claims(c, caddr[c], cfrom[c])
  BY DEF Claims
<1> QED BY <1>1, <1>2 DEF ClaimInv

(* A registered address belongs to a slot of the pool, and its client has  *)
(* a lease.                                                                *)
LEMMA RegisteredIsKnown ==
  ASSUME TypeInv, PoolInv, TablesAgree, NEW c \in Client, NEW a \in Nat, Registered(c, a)
  PROVE  Known(c) /\ get_pool_offset(a) \in Offsets /\ bound_leases[get_pool_offset(a)] = c
         /\ a = pool.offset + get_pool_offset(a)
<1>1. ServerTypeOK
  BY DEF TypeInv, NetworkTypeOK
<1>2. get_pool_offset(a) \in Offsets /\ a = pool.offset + get_pool_offset(a)
  BY <1>1, OffsetInPool DEF Registered
<1> QED BY <1>2 DEF TablesAgree, Bound, Registered

(* A client that asks to renew holds its address, so it sent no RELEASE in *)
(* this transaction and the server, in its first life, knows it.           *)
LEMMA StepRenew ==
  ASSUME TypeInv, PoolInv, TablesAgree, QueueInv, ClaimInv, RenewInv, NEW c \in Client,
         ClientStep(c)
  PROVE  RenewInv'
<1>0. /\ requests[c] \in Seq(Msg) /\ incarnation \in Nat /\ cfrom[c] \in Nat /\ caddr[c] \in Nat
      /\ incarnation' = incarnation /\ leases' = leases
  BY DEF TypeInv, NetworkTypeOK, ServerTypeOK, MessagesOK, ClientStep, tables
<1>1. \A d \in Client : cstate'[d] = "INIT_REBOOT" => last'[d] # INADDR_ANY
  BY DEF ClientStep, RenewInv
<1>2. ASSUME NEW d \in Client, requests'[d] = requests[d], NEW i \in 1 .. Len(requests'[d]),
             requests'[d][i].type = "REQUEST", Renewing(requests'[d][i])
      PROVE  (\A j \in 1 .. i : requests'[d][j].type # "RELEASE") /\ (incarnation' = 0 => Known(d)')
  BY <1>0, <1>2 DEF RenewInv, Known
<1>3. CASE requests' = requests
  BY <1>1, <1>2, <1>3 DEF RenewInv, Renewing, Selecting
<1>4. ASSUME NEW m \in Msg, requests'[c] = Append(requests[c], m),
             m.type = "REQUEST" /\ Renewing(m) => Holds(c),
             NEW i \in 1 .. Len(requests'[c]), requests'[c][i].type = "REQUEST",
             Renewing(requests'[c][i])
      PROVE  (\A j \in 1 .. i : requests'[c][j].type # "RELEASE") /\ (incarnation' = 0 => Known(c)')
  <2>1. /\ Len(requests'[c]) = Len(requests[c]) + 1 /\ Len(requests[c]) \in Nat
        /\ \A j \in 1 .. Len(requests[c]) : requests'[c][j] = requests[c][j]
        /\ requests'[c][Len(requests[c]) + 1] = m
    BY <1>0, <1>4, AppendFacts
  <2>2. CASE i \in 1 .. Len(requests[c])
    <3>1. requests[c][i].type = "REQUEST" /\ Renewing(requests[c][i])
      BY <1>4, <2>1, <2>2
    <3>2. (\A j \in 1 .. i : requests[c][j].type # "RELEASE") /\ (incarnation = 0 => Known(c))
      BY <2>2, <3>1 DEF RenewInv
    <3> QED BY SMTT(30), <1>0, <2>1, <2>2, <3>2 DEF Known
  <2>3. CASE i = Len(requests[c]) + 1
    <3>1. Holds(c) /\ m.type = "REQUEST"
      BY <1>4, <2>1, <2>3
    <3>2. \A j \in 1 .. Len(requests[c]) : requests[c][j].type # "RELEASE"
      BY <3>1 DEF QueueInv, QueueOf, Holds
    <3>3. \A j \in 1 .. i : requests'[c][j].type # "RELEASE"
      BY <2>1, <2>3, <3>1, <3>2
    <3>4. incarnation = 0 => Known(c)
      BY <1>0, <3>1, HolderRegistered, RegisteredIsKnown
    <3> QED BY <1>0, <3>3, <3>4 DEF Known
  <2> QED BY <2>1, <2>2, <2>3
<1>5. ASSUME NEW d \in Client \ {c} PROVE requests'[d] = requests[d]
  BY DEF ClientStep
<1>6. ASSUME NEW d \in Client, NEW i \in 1 .. Len(requests'[d]),
             requests'[d][i].type = "REQUEST", Renewing(requests'[d][i])
      PROVE  (\A j \in 1 .. i : requests'[d][j].type # "RELEASE") /\ (incarnation' = 0 => Known(d)')
  <2>1. CASE requests'[d] = requests[d]
    BY <1>2, <1>6, <2>1
  <2>2. CASE requests'[d] # requests[d]
    <3>1. d = c
      BY <1>5, <2>2
    <3>2. PICK m \in Msg : requests'[c] = Append(requests[c], m) /\ (m.type = "REQUEST" /\ Renewing(m) => Holds(c))
      BY <2>2, <3>1 DEF ClientStep
    <3> QED BY <1>4, <1>6, <3>1, <3>2
  <2> QED BY <2>1, <2>2
<1> QED BY <1>1, <1>6 DEF RenewInv, Renewing, Selecting

(* A client's step keeps the invariant.                                    *)
LEMMA StepKeeps ==
  ASSUME NetworkInv, NEW c \in Client, ClientStep(c), TypeInv'
  PROVE  NetworkInv'
<1> USE DEF NetworkInv
<1>1. TypeInv
  BY DEF TypeInv
<1>2. UNCHANGED <<pool, bound_leases, leases, incarnation>> /\ replies' \subseteq replies
  BY DEF ClientStep, tables
<1>3. TablesAgree' /\ LeasesAddressed'
  BY <1>2 DEF TablesAgree, LeasesAddressed, Known, Bound, Offsets
<1>4. QueueInv'
  BY <1>1, StepQueue
<1>5. RenewInv'
  BY <1>1, StepRenew
<1>6. ClaimInv'
  <2>1. \A d \in Client, a, n \in Nat : Claims(d, a, n)' =>
           Claims(d, a, n) /\ (Registered(d, a) => Registered(d, a)')
    BY <1>1, <1>2, StepClaims DEF Registered, get_pool_offset
  <2> QED BY <1>2, <2>1, ClaimsShrink
<1>7. PoolInv'
  <2>1. ASSUME pool.address = INADDR_ANY, NEW d \in Client PROVE ~Holds(d)'
    <3>1. caddr'[d] \in Nat /\ cfrom'[d] \in Nat
      BY DEF TypeInv, NetworkTypeOK
    <3>2. Holds(d)' => Claims(d, caddr'[d], cfrom'[d])
      BY DEF ClientStep, Holds, Claims
    <3>3. ~Claims(d, caddr'[d], cfrom'[d])
      BY <2>1 DEF PoolInv, Claims
    <3> QED BY <3>2, <3>3
  <2> QED BY <1>2, <2>1 DEF PoolInv, Offsets, Known
<1> QED BY <1>3, <1>4, <1>5, <1>6, <1>7 DEF TypeInv

-----------------------------------------------------------------------------
(* Steps of the network and of the server's handler.                       *)

(* Taking the first message keeps the order, also when it is answered with *)
(* an ACK.                                                                 *)
LEMMA PopQueue ==
  ASSUME TypeInv, QueueInv, NEW c \in Client, requests[c] # <<>>,
         requests' = [requests EXCEPT ![c] = Tail(@)], UNCHANGED clientVars,
         \A r \in replies' : r.type = "ACK" => r \in replies \/ (r.client = c /\ r.xid = Head(requests[c]).xid)
  PROVE  QueueInv'
<1>1. /\ requests \in [Client -> Seq(Msg)] /\ requests[c] \in Seq(Msg)
      /\ UNCHANGED <<cstate, xid>>
  BY DEF TypeInv, MessagesOK, clientVars
<1>2. /\ Len(requests'[c]) = Len(requests[c]) - 1 /\ Len(requests[c]) \in Nat \ {0}
      /\ Head(requests[c]) = requests[c][1]
      /\ \A i \in 1 .. Len(requests'[c]) : requests'[c][i] = requests[c][i + 1]
  BY <1>1, TailFacts
<1>3. ASSUME NEW d \in Client \ {c}
      PROVE  QueueOf(d)'
  <2>1. requests'[d] = requests[d]
    BY <1>1, <1>3
  <2>2. \A r \in replies' : r.type = "ACK" /\ r.client = d => r \in replies
    BY <1>3
  <2> QED BY <1>1, <1>3, <2>1, <2>2 DEF QueueInv, QueueOf, Holds
<1>4. ASSUME NEW i \in 1 .. Len(requests'[c])
      PROVE  /\ requests'[c][i].xid <= xid'[c]
             /\ requests'[c][i].type = "RELEASE" /\ requests'[c][i].xid = xid'[c] => cstate'[c] = "IDLE"
             /\ \A j \in 1 .. Len(requests'[c]) : i < j => requests'[c][i].xid <= requests'[c][j].xid
             /\ Holds(c)' => requests'[c][i].xid = xid'[c]
             /\ \A r \in replies' : r.type = "ACK" /\ r.client = c => r.xid <= requests'[c][i].xid
  <2>1. i + 1 \in 1 .. Len(requests[c]) /\ 1 \in 1 .. Len(requests[c]) /\ 1 < i + 1
        /\ requests'[c][i] = requests[c][i + 1]
    BY <1>2
  <2>2. \A j \in 1 .. Len(requests'[c]) : i < j =>
          j + 1 \in 1 .. Len(requests[c]) /\ i + 1 < j + 1 /\ requests'[c][j] = requests[c][j + 1]
    BY <1>2
  <2>3. requests[c][1].xid <= requests[c][i + 1].xid
    BY <2>1 DEF QueueInv, QueueOf
  <2>4. \A r \in replies' : r.type = "ACK" /\ r.client = c => r.xid <= requests[c][i + 1].xid
    BY <1>2, <2>1, <2>3 DEF QueueInv, QueueOf
  <2>5. \A j \in 1 .. Len(requests'[c]) : i < j => requests'[c][i].xid <= requests'[c][j].xid
    BY <2>1, <2>2 DEF QueueInv, QueueOf
  <2> QED BY <1>1, <2>1, <2>4, <2>5 DEF QueueInv, QueueOf, Holds
<1>5. \A r \in replies' : r.type = "ACK" /\ r.client = c => r.xid <= xid'[c]
  <2>1. 1 \in 1 .. Len(requests[c])
    BY <1>2
  <2>2. requests[c][1].xid <= xid[c]
    BY <2>1 DEF QueueInv, QueueOf
  <2> QED BY <1>1, <1>2, <2>2 DEF QueueInv, QueueOf
<1>6. QueueOf(c)'
  BY <1>4, <1>5 DEF QueueOf
<1> QED BY <1>3, <1>6 DEF QueueInv

(* Taking the first message keeps RenewInv: if it is a RELEASE, no request *)
(* to renew is behind it.                                                  *)
LEMMA PopRenew ==
  ASSUME TypeInv, RenewInv, NEW c \in Client, requests[c] # <<>>,
         requests' = [requests EXCEPT ![c] = Tail(@)], UNCHANGED <<clientVars, incarnation>>,
         \A d \in Client : Known(d) => Known(d)' \/ (d = c /\ Head(requests[c]).type = "RELEASE")
  PROVE  RenewInv'
<1>1. /\ requests \in [Client -> Seq(Msg)] /\ requests[c] \in Seq(Msg)
      /\ UNCHANGED <<cstate, last, incarnation>>
  BY DEF TypeInv, MessagesOK, clientVars
<1>2. /\ Len(requests'[c]) = Len(requests[c]) - 1 /\ Len(requests[c]) \in Nat \ {0}
      /\ Head(requests[c]) = requests[c][1]
      /\ \A i \in 1 .. Len(requests'[c]) : requests'[c][i] = requests[c][i + 1]
  BY <1>1, TailFacts
<1>3. ASSUME NEW d \in Client, NEW i \in 1 .. Len(requests'[d]),
             requests'[d][i].type = "REQUEST", Renewing(requests'[d][i])
      PROVE  (\A j \in 1 .. i : requests'[d][j].type # "RELEASE") /\ (incarnation' = 0 => Known(d)')
  <2>1. CASE d # c
    <3>1. requests'[d] = requests[d]
      BY <1>1, <2>1
    <3> QED BY <1>1, <1>3, <2>1, <3>1 DEF RenewInv
  <2>2. CASE d = c
    <3>1. i + 1 \in 1 .. Len(requests[c]) /\ requests'[c][i] = requests[c][i + 1]
      BY <1>2, <1>3, <2>2
    <3>2. (\A j \in 1 .. i + 1 : requests[c][j].type # "RELEASE") /\ (incarnation = 0 => Known(c))
      BY <1>3, <2>2, <3>1 DEF RenewInv
    <3>3. \A j \in 1 .. i : j + 1 \in 1 .. i + 1 /\ requests'[c][j] = requests[c][j + 1]
      BY <1>2, <1>3, <2>2
    <3>4. Head(requests[c]).type # "RELEASE"
      BY <1>2, <1>3, <3>2
    <3> QED BY <1>1, <2>2, <3>2, <3>3, <3>4
  <2> QED BY <2>1, <2>2
<1> QED BY <1>1, <1>3 DEF RenewInv, Renewing, Selecting

(* A step that leaves the tables and the clients alone and sends no ACK    *)
(* keeps the invariant.                                                    *)
LEMMA QuietKeeps ==
  ASSUME NetworkInv, TypeInv', QueueInv', RenewInv', UNCHANGED <<tables, incarnation, clientVars>>,
         \A r \in replies' : r.type = "ACK" => r \in replies,
         pool.address = INADDR_ANY => UNCHANGED replies
  PROVE  NetworkInv'
<1> USE DEF NetworkInv
<1>1. UNCHANGED <<pool, bound_leases, leases, incarnation, cstate, caddr, cfrom, xid>>
  BY DEF tables, clientVars
<1>2. TablesAgree' /\ LeasesAddressed'
  BY <1>1 DEF TablesAgree, LeasesAddressed, Known, Bound, Offsets
<1>3. \A d \in Client, a, n \in Nat : Claims(d, a, n)' =>
        Claims(d, a, n) /\ (Registered(d, a) => Registered(d, a)')
  BY <1>1 DEF Claims, Live, Holds, Registered, get_pool_offset
<1>4. ClaimInv'
  BY <1>1, <1>3, ClaimsShrink
<1>5. PoolInv'
  BY <1>1 DEF PoolInv, Offsets, Known, Holds
<1> QED BY <1>2, <1>4, <1>5 DEF TypeInv

(* The ACK: the slot was free or the client's own, so nobody else claims   *)
(* the address, it is not the server's, and the lease notes it unless a    *)
(* client of the previous server renews.                                   *)
LEMMA GrantKeeps ==
  ASSUME NetworkInv, NEW m \in Msg, m.type = "REQUEST", Valid(m),
         Renewing(m) /\ incarnation = 0 => Known(m.client),
         Grantable(m.client, get_pool_offset(RequestedAddress(m))),
         EnterLease(m, get_pool_offset(RequestedAddress(m))),
         replies' = replies \cup {Reply("ACK", m, RequestedAddress(m))},
         UNCHANGED <<pool, incarnation, clientVars>>
  PROVE  /\ PoolInv' /\ TablesAgree' /\ ClaimInv' /\ LeasesAddressed'
         /\ \A d \in Client : Known(d) => Known(d)'
<1> DEFINE c == m.client
           a == RequestedAddress(m)
           o == get_pool_offset(a)
<1> USE DEF NetworkInv
<1>0. TypeInv
  BY DEF TypeInv
<1>1. /\ a \in Nat /\ o \in Offsets /\ a = pool.offset + o /\ c \in Client
      /\ bound_leases[o] = IF Known(c) THEN c ELSE Nobody
      /\ bound_leases[o] \in {c, Nobody}
  BY <1>0, Grants
<1>2. EnterLease(m, o) /\ replies' = replies \cup {Reply("ACK", m, a)}
  OBVIOUS
<1>3. m.requested \in Nat /\ (~Renewing(m) => m.requested = a) /\ (Renewing(m) => m.requested = INADDR_ANY)
  BY DEF Msg, RequestedAddress, Renewing
<1>4. get_pool_offset(a) = o /\ o >= 0
  BY DEF Grantable
<1> HIDE DEF a, o
<1>5. /\ bound_leases \in [Offsets -> Client \cup {Nobody, Reserved}]
      /\ leases \in [Client -> Nat \cup {NoEntry}]
      /\ Offsets' = Offsets /\ pool' = pool /\ incarnation' = incarnation /\ incarnation \in Nat
      /\ Nobody \notin Client /\ Reserved \notin Client /\ Nobody # Reserved /\ NoEntry \notin Nat
  BY <1>0, ServerAssumption DEF TypeInv, NetworkTypeOK, ServerTypeOK, Offsets
<1>6. /\ \A p \in Offsets : bound_leases'[p] = IF p = o THEN c ELSE bound_leases[p]
      /\ \A d \in Client : leases'[d] = IF d = c /\ ~Known(c) THEN m.requested ELSE leases[d]
  BY <1>1, <1>2, <1>5 DEF EnterLease
<1>7. TablesAgree'
  BY <1>0, <1>1, <1>2, <1>5, EnterKeepsTables
<1>8. \A d \in Client : Known(d) => Known(d)'
  BY <1>3, <1>5, <1>6 DEF Known
<1>9. pool.address # INADDR_ANY
  BY <1>1, <1>5 DEF PoolInv, Offsets
<1>10. PoolInv'
  <2>1. \A p \in Offsets : pool.offset + p = pool.address => bound_leases'[p] = Reserved
    BY <1>1, <1>5, <1>6 DEF PoolInv
  <2> QED BY <1>5, <1>9, <2>1 DEF PoolInv
<1>11. LeasesAddressed'
  <2> SUFFICES ASSUME NEW p \in Offsets, bound_leases'[p] \in Client
               PROVE  \/ leases'[bound_leases'[p]] = pool.offset + p
                      \/ leases'[bound_leases'[p]] = INADDR_ANY /\ incarnation > 0
    BY <1>5 DEF LeasesAddressed
  <2>1. CASE Known(c)
    <3>1. bound_leases'[p] = bound_leases[p] /\ \A d \in Client : leases'[d] = leases[d]
      BY <1>1, <1>6, <2>1
    <3> QED BY <3>1 DEF LeasesAddressed
  <2>2. CASE ~Known(c) /\ p = o
    <3>1. leases'[bound_leases'[p]] = m.requested
      BY <1>1, <1>6, <2>2
    <3> QED BY <1>1, <1>3, <1>5, <2>2, <3>1
  <2>3. CASE ~Known(c) /\ p # o
    <3>1. bound_leases'[p] = bound_leases[p] /\ bound_leases[p] # c
      BY <1>1, <1>6, <2>3 DEF TablesAgree, Bound
    <3>2. leases'[bound_leases[p]] = leases[bound_leases[p]]
      BY <1>6, <3>1
    <3> QED BY <3>1, <3>2 DEF LeasesAddressed
  <2> QED BY <2>1, <2>2, <2>3
<1>12. ASSUME NEW d \in Client, NEW b \in Nat, NEW n \in Nat, Claims(d, b, n)'
       PROVE  Claims(d, b, n) \/ (d = c /\ b = a /\ n = incarnation)
  BY <1>2, <1>12 DEF Claims, Live, Holds, Reply, clientVars
<1>13. ASSUME NEW d \in Client, NEW b \in Nat, Registered(d, b)
       PROVE  Registered(d, b)'
  <2>1. get_pool_offset(b) \in Offsets /\ bound_leases[get_pool_offset(b)] = d
    BY <1>0, <1>13, RegisteredIsKnown
  <2>2. get_pool_offset(b)' = get_pool_offset(b)
    BY <1>5 DEF get_pool_offset
  <2>3. bound_leases'[get_pool_offset(b)] = d
    BY <1>1, <1>5, <1>6, <2>1
  <2> QED BY <1>13, <2>2, <2>3 DEF Registered
<1>14. a # pool.address
  BY <1>1, <1>5 DEF PoolInv
<1>15. Registered(c, a)'
  <2>1. get_pool_offset(a)' = o
    BY <1>4, <1>5 DEF get_pool_offset
  <2> QED BY <1>1, <1>4, <1>6, <2>1 DEF Registered
<1>16. \A d \in Client \ {c} : ~Claims(d, a, incarnation)
  <2> SUFFICES ASSUME NEW d \in Client \ {c}, Claims(d, a, incarnation) PROVE FALSE
    OBVIOUS
  <2>1. Registered(d, a)
    BY <1>1, <1>5 DEF ClaimInv
  <2> QED BY <1>1, <1>4, <1>5, <2>1 DEF Registered
<1>17. ClaimInv'
  <2> SUFFICES ASSUME NEW d \in Client, NEW b \in Nat, NEW n \in Nat, Claims(d, b, n)'
               PROVE  /\ b # pool.address /\ n <= incarnation
                      /\ n = incarnation => Registered(d, b)'
                      /\ \A e \in Client \ {d} : ~Claims(e, b, n)'
    BY <1>5 DEF ClaimInv
  <2>1. CASE Claims(d, b, n)
    <3>1. /\ b # pool.address /\ n <= incarnation
          /\ n = incarnation => Registered(d, b)
          /\ \A e \in Client \ {d} : ~Claims(e, b, n)
      BY <2>1 DEF ClaimInv
    <3>2. ASSUME NEW e \in Client \ {d}, Claims(e, b, n)' PROVE FALSE
      <4>1. e = c /\ b = a /\ n = incarnation
        BY <1>12, <3>1, <3>2
      <4> QED BY <1>16, <2>1, <3>2, <4>1
    <3> QED BY <1>13, <3>1, <3>2
  <2>2. CASE ~Claims(d, b, n)
    <3>1. d = c /\ b = a /\ n = incarnation
      BY <1>12, <2>2
    <3>2. ASSUME NEW e \in Client \ {d}, Claims(e, b, n)' PROVE FALSE
      BY <1>12, <1>16, <3>1, <3>2
    <3> QED BY <1>5, <1>14, <1>15, <3>1, <3>2
  <2> QED BY <2>1, <2>2
<1> QED BY <1>7, <1>8, <1>10, <1>11, <1>17

(* When a RELEASE is handled its client claims nothing: it holds no        *)
(* address of that transaction, and will take none of its ACKs.            *)
LEMMA ReleasedIsUnclaimed ==
  ASSUME TypeInv, QueueInv, NEW c \in Client, requests[c] # <<>>,
         Head(requests[c]).type = "RELEASE",
         NEW a \in Nat, NEW n \in Nat
  PROVE  ~Claims(c, a, n)
<1>1. requests[c] \in Seq(Msg) /\ xid[c] \in Nat
  BY DEF TypeInv, NetworkTypeOK, MessagesOK
<1>2. 1 \in 1 .. Len(requests[c]) /\ Head(requests[c]) = requests[c][1] /\ Head(requests[c]) \in Msg
  BY <1>1, TailFacts
<1>3. requests[c][1].xid \in Nat /\ requests[c][1].type = "RELEASE" /\ requests[c][1].xid <= xid[c]
  BY <1>2 DEF QueueInv, QueueOf, Msg
<1>4. requests[c][1].xid = xid[c] => cstate[c] = "IDLE"
  BY <1>2, <1>3 DEF QueueInv, QueueOf
<1>5. Holds(c) => requests[c][1].xid = xid[c]
  BY <1>2 DEF QueueInv, QueueOf
<1>6. ~Holds(c)
  BY <1>4, <1>5 DEF Holds
<1>7. ASSUME NEW r \in replies, Live(r), r.client = c PROVE FALSE
  <2>1. r.xid <= requests[c][1].xid /\ r.xid = xid[c] /\ cstate[c] # "IDLE"
    BY <1>2, <1>7 DEF QueueInv, QueueOf, Live
  <2> QED BY <1>1, <1>3, <1>4, <2>1
<1> QED BY <1>6, <1>7 DEF Claims

(* The RELEASE.                                                            *)
LEMMA ForgetKeeps ==
  ASSUME NetworkInv, NEW c \in Client, requests[c] # <<>>, Head(requests[c]).type = "RELEASE",
         NEW o \in Offsets, bound_leases[o] = c, Forget(c, o),
         UNCHANGED <<pool, replies, incarnation, clientVars>>
  PROVE  /\ PoolInv' /\ TablesAgree' /\ ClaimInv' /\ LeasesAddressed'
         /\ \A d \in Client \ {c} : Known(d) => Known(d)'
<1> USE DEF NetworkInv
<1>0. TypeInv
  BY DEF TypeInv
<1>1. /\ bound_leases \in [Offsets -> Client \cup {Nobody, Reserved}]
      /\ leases \in [Client -> Nat \cup {NoEntry}]
      /\ Offsets' = Offsets /\ pool' = pool /\ incarnation' = incarnation
      /\ Nobody \notin Client /\ Reserved \notin Client /\ Nobody # Reserved
  BY <1>0, ServerAssumption DEF TypeInv, NetworkTypeOK, ServerTypeOK, Offsets
<1>2. /\ \A p \in Offsets : bound_leases'[p] = IF p = o THEN Nobody ELSE bound_leases[p]
      /\ \A d \in Client : leases'[d] = IF d = c THEN NoEntry ELSE leases[d]
  BY <1>1 DEF Forget
<1>3. TablesAgree'
  BY <1>0, ForgetKeepsTables
<1>4. \A d \in Client \ {c} : Known(d) => Known(d)'
  BY <1>2 DEF Known
<1>5. pool.address # INADDR_ANY
  BY <1>0 DEF PoolInv, Offsets
<1>6. PoolInv'
  <2>1. \A p \in Offsets : pool.offset + p = pool.address => bound_leases'[p] = Reserved
    BY <1>1, <1>2 DEF PoolInv
  <2> QED BY <1>1, <1>5, <2>1 DEF PoolInv
<1>7. LeasesAddressed'
  <2> SUFFICES ASSUME NEW p \in Offsets, bound_leases'[p] \in Client
               PROVE  \/ leases'[bound_leases'[p]] = pool.offset + p
                      \/ leases'[bound_leases'[p]] = INADDR_ANY /\ incarnation > 0
    BY <1>1 DEF LeasesAddressed
  <2>1. bound_leases'[p] = bound_leases[p] /\ bound_leases[p] # c
    BY <1>1, <1>2 DEF TablesAgree
  <2> QED BY <1>2, <2>1 DEF LeasesAddressed
<1>8. ASSUME NEW d \in Client, NEW a \in Nat, NEW n \in Nat, Claims(d, a, n)'
      PROVE  Claims(d, a, n) /\ (Registered(d, a) => Registered(d, a)')
  <2>1. Claims(d, a, n)
    BY <1>8 DEF Claims, Live, Holds, clientVars
  <2>2. d # c
    BY <1>0, <2>1, ReleasedIsUnclaimed
  <2>3. ASSUME Registered(d, a) PROVE Registered(d, a)'
    <3>1. get_pool_offset(a) \in Offsets /\ bound_leases[get_pool_offset(a)] = d
      BY <1>0, <2>3, RegisteredIsKnown
    <3>2. get_pool_offset(a)' = get_pool_offset(a)
      BY <1>1 DEF get_pool_offset
    <3> QED BY <1>2, <2>2, <2>3, <3>1, <3>2 DEF Registered
  <2> QED BY <2>1, <2>3
<1>9. ClaimInv'
  BY <1>1, <1>8, ClaimsShrink
<1> QED BY <1>3, <1>4, <1>6, <1>7, <1>9

(* A lost message.                                                         *)
LEMMA LoseRequestKeeps ==
  ASSUME NetworkInv, NEW c \in Client, LoseRequest(c)
  PROVE  NetworkInv'
<1>0. TypeInv
  BY DEF NetworkInv, TypeInv
<1>1. /\ requests[c] # <<>> /\ requests' = [requests EXCEPT ![c] = Tail(@)]
      /\ UNCHANGED <<tables, incarnation, clientVars>> /\ UNCHANGED <<serverVars, replies, leases>>
  BY DEF LoseRequest, serverVars, tables
<1>2. MessagesOK'
  BY <1>0, <1>1, PopType DEF TypeInv, MessagesOK
<1>3. TypeInv'
  BY <1>0, <1>1, <1>2, ClientsUnchanged
     DEF serverVars, tables, TypeInv, NetworkTypeOK, ServerTypeOK, Offsets
<1>4. QueueInv'
  BY <1>0, <1>1, PopQueue DEF NetworkInv
<1>5. RenewInv'
  BY <1>0, <1>1, PopRenew DEF NetworkInv, Known
<1> QED BY <1>1, <1>3, <1>4, <1>5, QuietKeeps

(* dhcp_server_handle_message, case by case.                               *)
LEMMA HandleKeeps ==
  ASSUME NetworkInv, NEW c \in Client, ServerHandles(c)
  PROVE  NetworkInv'
<1> DEFINE m == Head(requests[c])
<1>0. TypeInv
  BY DEF NetworkInv, TypeInv
<1>1. /\ requests[c] # <<>> /\ requests' = [requests EXCEPT ![c] = Tail(@)]
      /\ UNCHANGED clientVars /\ dhcp_server_handle_message(m) /\ pool.address # INADDR_ANY
  BY DEF ServerHandles
<1>2. requests[c] \in Seq(Msg) /\ m \in Msg /\ m.client = c /\ m = requests[c][1] /\ 1 \in 1 .. Len(requests[c])
  BY <1>0, <1>1, TailFacts DEF TypeInv, MessagesOK
<1>3. ServerTypeOK' /\ replies' \in SUBSET Rep
  BY <1>0, <1>1, <1>2, HandleType
<1>4. MessagesOK'
  BY <1>0, <1>1, <1>3, PopType
<1>5. TypeInv'
  BY <1>0, <1>1, <1>3, <1>4, ClientsUnchanged
<1>6. ASSUME UNCHANGED <<tables, incarnation>>, \A r \in replies' : r.type = "ACK" => r \in replies
      PROVE  NetworkInv'
  <2>1. QueueInv'
    BY <1>0, <1>1, <1>6, PopQueue DEF NetworkInv
  <2>2. RenewInv'
    BY <1>0, <1>1, <1>6, PopRenew DEF NetworkInv, Known, tables
  <2> QED BY <1>1, <1>5, <1>6, <2>1, <2>2, QuietKeeps
<1>7. ASSUME NEW works \in Works, Discover(m, works)
      PROVE  NetworkInv'
  BY <1>6, <1>7 DEF Discover, Reply
<1>8. ASSUME NEW works \in Works, Request(m, works)
      PROVE  NetworkInv'
  <2> DEFINE a == RequestedAddress(m)
             o == get_pool_offset(a)
  <2>1. CASE Valid(m) /\ Grantable(c, o) /\ replies' = replies \cup {Reply("ACK", m, a)} /\ EnterLease(m, o)
    <3>1. m.type = "REQUEST" /\ UNCHANGED <<pool, incarnation, clientVars>>
      BY <1>1, <1>8 DEF Request
    <3>2. Renewing(m) /\ incarnation = 0 => Known(c)
      BY <1>2, <3>1 DEF NetworkInv, RenewInv
    <3>3. /\ PoolInv' /\ TablesAgree' /\ ClaimInv' /\ LeasesAddressed'
          /\ \A d \in Client : Known(d) => Known(d)'
      BY <1>2, <2>1, <3>1, <3>2, GrantKeeps
    <3>4. QueueInv'
      <4>1. Reply("ACK", m, a).client = c /\ Reply("ACK", m, a).xid = m.xid
        BY <1>2 DEF Reply
      <4> QED BY <1>0, <1>1, <2>1, <4>1, PopQueue DEF NetworkInv
    <3>5. RenewInv'
      BY <1>0, <1>1, <3>1, <3>3, PopRenew DEF NetworkInv
    <3> QED BY <1>5, <3>3, <3>4, <3>5 DEF NetworkInv, TypeInv
  <2>2. CASE UNCHANGED <<bound_leases, leases>> /\ \A r \in replies' : r.type = "ACK" => r \in replies
    BY <1>6, <1>8, <2>2 DEF Request, tables
  <2> QED BY <1>2, <1>8, <2>1, <2>2 DEF Request, Reply
<1>9. CASE Decline(m)
  BY <1>6, <1>9 DEF Decline, serverVars
<1>10. CASE Release(m)
  <2> DEFINE o == get_pool_offset(m.ciaddr)
  <2>0. m.type = "RELEASE" /\ UNCHANGED <<pool, replies, incarnation>> /\ m.ciaddr \in Nat
    BY <1>2, <1>10 DEF Release, Msg
  <2>1. CASE UNCHANGED <<bound_leases, leases>>
    BY <1>6, <2>0, <2>1 DEF tables
  <2>2. CASE o >= 0 /\ bound_leases[o] = c /\ Forget(c, o)
    <3>1. o \in Offsets
      BY <2>0, <2>2, OffsetInPool DEF NetworkInv, NetworkTypeOK
    <3>2. /\ PoolInv' /\ TablesAgree' /\ ClaimInv' /\ LeasesAddressed'
          /\ \A d \in Client \ {c} : Known(d) => Known(d)'
      BY <1>1, <2>0, <2>2, <3>1, ForgetKeeps
    <3>3. QueueInv'
      BY <1>0, <1>1, <2>0, PopQueue DEF NetworkInv
    <3>4. RenewInv'
      BY <1>0, <1>1, <2>0, <3>2, PopRenew DEF NetworkInv
    <3> QED BY <1>5, <3>2, <3>3, <3>4 DEF NetworkInv, TypeInv
  <2> QED BY <1>2, <1>10, <2>1, <2>2 DEF Release
<1> QED BY <1>1, <1>7, <1>8, <1>9, <1>10 DEF dhcp_server_handle_message

-----------------------------------------------------------------------------
(* Steps of the server alone.                                              *)

(* Up to the broadcast address the unsigned subtraction of size_max does   *)
(* not wrap.                                                               *)
LEMMA PoolFits ==
  ASSUME NEW offset \in Nat, offset <= Broadcast
  PROVE  SizeMax(offset) = Broadcast - offset
<1>1. Broadcast \in Nat /\ 2 ^ Width \in Nat \ {0} /\ Broadcast < 2 ^ Width
  BY ServerAssumption
<1>2. Broadcast + 1 - offset - 1 = Broadcast - offset /\ Broadcast - offset \in 0 .. (2 ^ Width) - 1
  BY <1>1
<1> QED BY <1>1, <1>2, ModSmall DEF SizeMax

(* configure_pool sets the pool up before anybody was answered.            *)
LEMMA ConfigureKeeps ==
  ASSUME NetworkInv, TypeInv', NEW p \in Configs, configure_pool(p[1], p[2], p[3]),
         UNCHANGED <<clientVars, requests>>
  PROVE  NetworkInv'
<1> DEFINE off == IF p[2] = 0 THEN 1 ELSE p[2]
           n == IF p[3] = 0 THEN SizeMax(off) ELSE p[3]
           q == [address |-> p[1], offset |-> off, size |-> n]
<1> USE DEF NetworkInv
<1>1. /\ pool.address = INADDR_ANY /\ p[1] # INADDR_ANY /\ SizeMax(off) >= 1 /\ n <= SizeMax(off)
      /\ pool' = q /\ bound_leases' = EmptyPool(q)
      /\ UNCHANGED <<leases, replies, incarnation>> /\ UNCHANGED <<cstate, caddr, cfrom, last, xid, requests>>
  BY DEF configure_pool, INADDR_ANY, clientVars
<1>2. p[1] \in Nat /\ p[2] \in Nat /\ p[3] \in Nat /\ Broadcast \in Nat /\ 2 ^ Width \in Nat \ {0}
  BY NetworkAssumption, ServerAssumption
<1>3. off \in Nat /\ off >= 1 /\ SizeMax(off) \in Nat
  <2>1. off \in Nat /\ off >= 1
    BY <1>2
  <2>2. Broadcast + 1 - off - 1 \in Int
    BY <1>2, <2>1
  <2> QED BY <1>2, <2>1, <2>2 DEF SizeMax
<1>4. n \in Nat /\ n >= 1 /\ (off <= Broadcast => off + n - 1 < Broadcast)
  <2>1. off <= Broadcast => SizeMax(off) = Broadcast - off
    BY <1>3, PoolFits
  <2> HIDE DEF off
  <2>2. n \in Nat /\ n >= 1
    BY <1>1, <1>2, <1>3
  <2> HIDE DEF n
  <2> QED BY <1>1, <1>2, <1>3, <2>1, <2>2
<1>5. q.address = p[1] /\ q.offset = off /\ q.size = n
  OBVIOUS
<1> HIDE DEF q, off, n
<1>6. replies = {} /\ \A c \in Client : ~Holds(c) /\ ~Known(c)
  BY <1>1 DEF PoolInv
<1>7. TablesAgree' /\ \A o \in Offsets' : bound_leases'[o] \notin Client
  BY <1>1, <1>4, <1>5, <1>6, FreshTables DEF Known
<1>8. LeasesAddressed'
  BY <1>7 DEF LeasesAddressed
<1>9. QueueInv' /\ RenewInv'
  BY <1>1 DEF QueueInv, QueueOf, RenewInv, Holds, Known, Renewing, Selecting
<1>10. ClaimInv'
  BY <1>1, <1>6 DEF ClaimInv, Claims, Holds
<1>11. PoolInv'
  <2>1. \A o \in Offsets' : pool'.offset + o = pool'.address => bound_leases'[o] = Reserved
    BY <1>1 DEF EmptyPool, Offsets
  <2> QED BY <1>1, <1>3, <1>4, <1>5, <2>1 DEF PoolInv
<1> QED BY <1>7, <1>8, <1>9, <1>10, <1>11 DEF TypeInv

(* After a restart every claim is of an earlier incarnation.               *)
LEMMA RestartKeeps ==
  ASSUME NetworkInv, TypeInv', ServerRestarts, UNCHANGED <<clientVars, requests>>
  PROVE  NetworkInv'
<1> USE DEF NetworkInv
<1>1. /\ pool.address # INADDR_ANY /\ pool' = pool /\ bound_leases' = EmptyPool(pool)
      /\ leases' = [c \in Client |-> NoEntry] /\ incarnation' = incarnation + 1
      /\ UNCHANGED <<replies, cstate, caddr, cfrom, last, xid, requests>>
      /\ incarnation \in Nat /\ pool.size \in Nat
  BY DEF ServerRestarts, clientVars, NetworkTypeOK, ServerTypeOK
<1>2. TablesAgree' /\ \A o \in Offsets' : bound_leases'[o] \notin Client
  BY <1>1, FreshTables
<1>3. LeasesAddressed'
  BY <1>2 DEF LeasesAddressed
<1>4. QueueInv'
  BY <1>1 DEF QueueInv, QueueOf, Holds
<1>5. RenewInv'
  BY <1>1 DEF RenewInv, Renewing, Selecting
<1>6. PoolInv'
  <2>1. \A o \in Offsets' : pool'.offset + o = pool'.address => bound_leases'[o] = Reserved
    BY <1>1 DEF EmptyPool, Offsets
  <2> QED BY <1>1, <2>1 DEF PoolInv
<1>7. ClaimInv'
  <2>1. \A c \in Client, a, n \in Nat : Claims(c, a, n)' <=> Claims(c, a, n)
    BY <1>1 DEF Claims, Live, Holds
  <2> SUFFICES ASSUME NEW c \in Client, NEW a \in Nat, NEW n \in Nat, Claims(c, a, n)'
               PROVE  /\ a # pool'.address /\ n <= incarnation'
                      /\ n = incarnation' => Registered(c, a)'
                      /\ \A d \in Client \ {c} : ~Claims(d, a, n)'
    BY DEF ClaimInv
  <2>2. a # pool.address /\ n <= incarnation /\ \A d \in Client \ {c} : ~Claims(d, a, n)
    BY <2>1 DEF ClaimInv
  <2>3. n <= incarnation' /\ n # incarnation'
    BY <1>1, <2>2
  <2> QED BY <1>1, <2>1, <2>2, <2>3
<1> QED BY <1>2, <1>3, <1>4, <1>5, <1>6, <1>7 DEF TypeInv

(* FORCERENEW grants nothing.                                              *)
LEMMA ForcerenewKeeps ==
  ASSUME NetworkInv, TypeInv', forcerenew, UNCHANGED <<clientVars, requests>>
  PROVE  NetworkInv'
<1>1. /\ pool.address # INADDR_ANY /\ UNCHANGED <<tables, incarnation, clientVars>>
      /\ UNCHANGED <<leases, incarnation, cstate, last, xid, requests>>
  BY DEF forcerenew, tables, clientVars
<1>2. \A r \in replies' : r.type = "ACK" => r \in replies
  BY DEF forcerenew
<1>3. QueueInv'
  BY <1>1, <1>2 DEF NetworkInv, QueueInv, QueueOf, Holds
<1>4. RenewInv'
  BY <1>1 DEF NetworkInv, RenewInv, Known, Renewing, Selecting
<1> QED BY <1>1, <1>2, <1>3, <1>4, QuietKeeps

-----------------------------------------------------------------------------
(* The theorems.                                                           *)

(* The invariant holds before the pool is configured.                      *)
LEMMA NetworkInvInit == NetworkInit => NetworkInv
<1> SUFFICES ASSUME NetworkInit PROVE NetworkInv
  OBVIOUS
<1>1. NetworkTypeOK /\ MessagesOK
  BY TypeInit DEF TypeInv
<1>2. /\ pool.address = INADDR_ANY /\ pool.size = 0 /\ Offsets = {} /\ replies = {}
      /\ \A c \in Client : cstate[c] = "IDLE" /\ leases[c] = NoEntry /\ Len(requests[c]) = 0
  BY DEF NetworkInit, ServerInit, NoPool, Offsets
<1>3. \A c \in Client : ~Holds(c) /\ ~Known(c) /\ c \notin Bound
  BY <1>2 DEF Holds, Known, Bound
<1>4. PoolInv /\ TablesAgree /\ LeasesAddressed
  BY <1>2, <1>3 DEF PoolInv, TablesAgree, LeasesAddressed
<1>5. QueueInv /\ RenewInv
  BY <1>2 DEF QueueInv, QueueOf, RenewInv
<1>6. ClaimInv
  BY <1>2, <1>3 DEF ClaimInv, Claims
<1> QED BY <1>1, <1>4, <1>5, <1>6 DEF NetworkInv

(* Every step keeps the invariant.                                         *)
LEMMA NetworkInvNext == NetworkInv /\ [NetworkNext]_vars => NetworkInv'
<1> SUFFICES ASSUME NetworkInv, [NetworkNext]_vars PROVE NetworkInv'
  OBVIOUS
<1>0. TypeInv /\ RenewInv
  BY DEF NetworkInv, TypeInv
<1>1. CASE ServerAlone
  <2>1. TypeInv'
    BY <1>0, <1>1, ServerAloneType DEF NetworkInv
  <2>2. UNCHANGED <<clientVars, requests>>
    BY <1>1 DEF ServerAlone
  <2> QED BY <1>1, <2>1, <2>2, ConfigureKeeps, ForcerenewKeeps, RestartKeeps DEF ServerAlone
<1>2. ASSUME NEW c \in Client, ClientActs(c) PROVE NetworkInv'
  <2>1. TypeInv' /\ ClientStep(c)
    BY <1>0, <1>2, ClientActsType, ActsAreSteps
  <2> QED BY <2>1, StepKeeps
<1>3. ASSUME NEW r \in replies, ClientReceives(r) PROVE NetworkInv'
  <2>1. TypeInv' /\ r.client \in Client /\ ClientStep(r.client)
    BY <1>0, <1>3, ReceivesType, ReceivesAreSteps
  <2> QED BY <2>1, StepKeeps
<1>4. ASSUME NEW c \in Client, LoseRequest(c) PROVE NetworkInv'
  BY <1>4, LoseRequestKeeps
<1>5. ASSUME NEW c \in Client, ServerHandles(c) PROVE NetworkInv'
  BY <1>5, HandleKeeps
<1>6. CASE UNCHANGED vars
  <2>1. /\ UNCHANGED <<tables, incarnation, clientVars>> /\ UNCHANGED <<replies, requests, server_failed>>
        /\ UNCHANGED <<cstate, caddr, cfrom, last, xid, pool, bound_leases, leases, incarnation>>
    BY <1>6 DEF vars, serverVars, tables, clientVars
  <2>2. TypeInv'
    BY <1>0, <2>1 DEF TypeInv, NetworkTypeOK, ServerTypeOK, MessagesOK, Offsets
  <2>3. QueueInv' /\ RenewInv'
    BY <2>1 DEF NetworkInv, QueueInv, QueueOf, RenewInv, Holds, Known, Renewing, Selecting
  <2> QED BY <2>1, <2>2, <2>3, QuietKeeps
<1> QED BY <1>1, <1>2, <1>3, <1>4, <1>5, <1>6 DEF NetworkNext, ClientActs, ClientReceives

(* The search of dhcp_server_handle_message for an address to offer is     *)
(* complete: a client without a lease is offered an address exactly when   *)
(* one of the pool is free, whatever its hash, and is offered a free one.  *)
THEOREM OffersAreFree ==
  ASSUME ServerTypeOK, NEW c \in Client, ~Known(c), pool.offset >= 1
  PROVE  /\ OfferFor(c) # INADDR_ANY <=> \E o \in Offsets : bound_leases[o] = Nobody
         /\ OfferFor(c) # INADDR_ANY =>
              \E o \in Offsets : bound_leases[o] = Nobody /\ OfferFor(c) = pool.offset + o
<1>1. CASE \A o \in Offsets : bound_leases[o] # Nobody
  BY <1>1 DEF OfferFor
<1>2. CASE \E o \in Offsets : bound_leases[o] = Nobody
  <2>1. FreeOffset(c) \in Offsets /\ bound_leases[FreeOffset(c)] = Nobody
    BY <1>2, FreeOffsetIsFree
  <2>2. OfferFor(c) = pool.offset + FreeOffset(c)
    BY <1>2 DEF OfferFor
  <2>3. OfferFor(c) # INADDR_ANY
    BY <2>1, <2>2 DEF INADDR_ANY, ServerTypeOK, Offsets
  <2> QED BY <1>2, <2>1, <2>2, <2>3
<1> QED BY <1>1, <1>2

(* The inductive invariant is an invariant, for every set of clients,      *)
(* every hash, every subnet and any number of losses, delays and restarts. *)
THEOREM NetworkInvariant == NetworkSpec => []NetworkInv
BY NetworkInvInit, NetworkInvNext, PTL DEF NetworkSpec

(* Type correctness of the server, the clients and what is under way.      *)
THEOREM NetworkTypeCorrect == NetworkSpec => []NetworkTypeOK
<1>1. NetworkInv => NetworkTypeOK
  BY DEF NetworkInv
<1> QED BY <1>1, NetworkInvariant, PTL

(* bound_leases and leases_by_client_id agree after every ACK, RELEASE,    *)
(* failed send and restart.                                                *)
THEOREM ServerTablesAgree == NetworkSpec => []TablesAgree
<1>1. NetworkInv => TablesAgree
  BY DEF NetworkInv
<1> QED BY <1>1, NetworkInvariant, PTL

(* In the first life of the server every lease notes the address it is     *)
(* bound to, so sd_dhcp_server_forcerenew, OFFER and RELEASE find it;      *)
(* later only a lease renewed from an earlier life may note none.          *)
THEOREM LeasesNoteTheirAddress == NetworkSpec => []LeasesAddressed
<1>1. NetworkInv => LeasesAddressed
  BY DEF NetworkInv
<1> QED BY <1>1, NetworkInvariant, PTL

(* Every lease in use that this server granted is in its tables.           *)
THEOREM HoldersAreRegistered == NetworkSpec => []HoldersRegistered
<1>1. NetworkInv => HoldersRegistered
  BY HolderRegistered DEF NetworkInv, TypeInv, HoldersRegistered, Registered
<1> QED BY <1>1, NetworkInvariant, PTL

(* No two clients use an address granted by the same life of the server,   *)
(* and none uses the server's own.                                         *)
THEOREM AddressesAreNotShared == NetworkSpec => []NoSharedAddress
<1>1. NetworkInv => NoSharedAddress
  <2> SUFFICES ASSUME NetworkInv PROVE NoSharedAddress
    OBVIOUS
  <2>1. TypeInv /\ ClaimInv
    BY DEF NetworkInv, TypeInv
  <2>2. \A c \in Client : Holds(c) => Claims(c, caddr[c], cfrom[c]) /\ caddr[c] \in Nat /\ cfrom[c] \in Nat
    BY <2>1 DEF Claims, TypeInv, NetworkTypeOK
  <2>3. ASSUME NEW c \in Client, NEW d \in Client, c # d, Holds(c), Holds(d), cfrom[c] = cfrom[d]
        PROVE  caddr[c] # caddr[d]
    BY <2>1, <2>2, <2>3 DEF ClaimInv
  <2>4. \A c \in Client : Holds(c) => caddr[c] # pool.address
    BY <2>1, HolderRegistered
  <2> QED BY <2>3, <2>4 DEF NoSharedAddress
<1> QED BY <1>1, NetworkInvariant, PTL
=============================================================================
