--------------------------- MODULE LinkDhcp4Proofs ---------------------------
(***************************************************************************)
(* The safety of a link under DHCPv4 and of the report the analyzer makes  *)
(* of it, for any leases, addresses and routes, any kernel and any length  *)
(* of the netlink queue.                                                   *)
(*                                                                         *)
(* Four invariants: LinkInv (the lease and the carrier), TypeInv (types,   *)
(* and the count of route replies), SyncInv (the addresses on record, for  *)
(* which the messages must have their types) and ReportInv (the analyzer's *)
(* periods, which needs LinkInv). SyncInv speaks of the messages still in  *)
(* the queue, which AddressesInSync does not: a property of the empty      *)
(* queue is not inductive unless one says what the unread messages will    *)
(* do.                                                                     *)
(***************************************************************************)
EXTENDS RMParser, FiniteSetTheorems, TLAPS

(* The first inductive invariant: a lease is granted to a client at work,  *)
(* which a link has only while it has its carrier and has not failed, and  *)
(* whatever takes the lease from the link also stops or restarts the       *)
(* client.                                                                 *)
LinkInv == LeaseInSync /\ QuietWithoutCarrier

(* A link starts without client and lease.                                 *)
LEMMA LinkInitInv == LinkInit => LinkInv
  BY DEF LinkInit, ServiceInit, LinkInv, LeaseInSync, QuietWithoutCarrier

(* The steps of the kernel change nothing roamingd knows.                  *)
LEMMA KernelInv ==
  ASSUME LinkInv, UNCHANGED <<serviceVars, linkVars>>
  PROVE  LinkInv'
  BY DEF LinkInv, LeaseInSync, QuietWithoutCarrier, serviceVars, linkVars, configVars

(* The configuration starts a client that is idle, or fails.               *)
LEMMA ConfigureInv ==
  ASSUME LinkInv, link_configure
  PROVE  LinkInv'
<1>1. PICK works \in Works :
        /\ IF carrier THEN Start(works) ELSE works /\ UNCHANGED serviceVars
        /\ lstate' = IF works THEN "SETTING_ROUTES" ELSE "FAILED"
  BY DEF link_configure
<1>2. /\ lstate = "PENDING" /\ phase = "idle"
      /\ carrier' = carrier /\ dhcp_lease' = dhcp_lease
  BY DEF link_configure, configVars, LinkInv, QuietWithoutCarrier
<1>3. CASE carrier
  BY <1>1, <1>2, <1>3 DEF Start, LinkInv, LeaseInSync, QuietWithoutCarrier
<1>4. CASE ~carrier
  BY <1>1, <1>2, <1>4 DEF serviceVars, LinkInv, LeaseInSync, QuietWithoutCarrier
<1> QED
  BY <1>3, <1>4

(* A gained carrier starts the client of a link that has not failed; a     *)
(* lost one takes both client and lease.                                   *)
LEMMA CarrierInv ==
  ASSUME LinkInv, link_update
  PROVE  LinkInv'
<1>1. lstate # "PENDING"
  BY DEF link_update, Received, Running
<1>2. CASE ~carrier /\ carrier' /\ link_carrier_gained
  <2>1. CASE lstate = "FAILED"
    BY <1>2, <2>1 DEF link_carrier_gained, serviceVars, configVars,
                      LinkInv, LeaseInSync, QuietWithoutCarrier
  <2>2. CASE lstate # "FAILED"
    <3>1. PICK works \in Works : Start(works) /\ lstate' = FailIf(~works)
      BY <1>2, <2>2 DEF link_carrier_gained
    <3> QED
      BY <1>1, <1>2, <2>2, <3>1 DEF Start, FailIf, LinkInv, LeaseInSync, QuietWithoutCarrier
  <2> QED
    BY <2>1, <2>2
<1>3. CASE carrier /\ ~carrier' /\ link_carrier_lost
  BY <1>3 DEF link_carrier_lost, Stop, dhcp_lease_lost,
              LinkInv, LeaseInSync, QuietWithoutCarrier
<1>4. CASE /\ carrier' = carrier
           /\ UNCHANGED <<lstate, serviceVars, configVars, kaddrs>>
  BY <1>4 DEF serviceVars, configVars, LinkInv, LeaseInSync, QuietWithoutCarrier
<1> QED
  BY <1>2, <1>3, <1>4 DEF link_update

(* link_check_ready neither fails a link nor brings a failed one back.     *)
LEMMA CheckReadyInv ==
  ASSUME LinkInv, lstate # "PENDING", NEW s, NEW conf, NEW addrs,
         link_check_ready(s, conf, addrs),
         \/ s = lstate /\ UNCHANGED serviceVars
         \/ s = "FAILED" /\ ((lstate = "FAILED" /\ UNCHANGED serviceVars) \/ Stop),
         UNCHANGED <<carrier, dhcp_lease>>
  PROVE  LinkInv'
<1>1. lstate' = s \/ (s = "SETTING_ROUTES" /\ lstate' = "CONFIGURED")
  BY DEF link_check_ready
<1>2. CASE s = lstate /\ UNCHANGED serviceVars
  BY <1>1, <1>2 DEF serviceVars, LinkInv, LeaseInSync, QuietWithoutCarrier
<1>3. CASE s = "FAILED" /\ ((lstate = "FAILED" /\ UNCHANGED serviceVars) \/ Stop)
  BY <1>1, <1>3 DEF serviceVars, Stop, LinkInv, LeaseInSync, QuietWithoutCarrier
<1> QED
  BY <1>2, <1>3

(* Address notifications.                                                  *)
LEMMA AddressInv ==
  ASSUME LinkInv, address_update \/ address_drop
  PROVE  LinkInv'
<1>1. lstate # "PENDING" /\ UNCHANGED serviceVars /\ UNCHANGED <<carrier, dhcp_lease>>
  BY DEF address_update, address_drop, Received, Running, configVars
<1>2. \/ \E conf, addrs : link_check_ready(lstate, conf, addrs)
      \/ UNCHANGED lstate
  BY DEF address_update, address_drop
<1>3. CASE \E conf, addrs : link_check_ready(lstate, conf, addrs)
  BY <1>1, <1>3, CheckReadyInv
<1>4. CASE UNCHANGED lstate
  BY <1>1, <1>4 DEF serviceVars, LinkInv, LeaseInSync, QuietWithoutCarrier
<1> QED
  BY <1>2, <1>3, <1>4

(* Replies: a refused request fails the link and stops the client.         *)
LEMMA ReplyInv ==
  ASSUME LinkInv, dhcp4_address_handler \/ dhcp4_route_handler
  PROVE  LinkInv'
<1> DEFINE fails == ~Head(queue).ok
<1>1. lstate # "PENDING" /\ UNCHANGED <<carrier, dhcp_lease>> /\ StopIfFailed(fails)
  BY DEF dhcp4_address_handler, dhcp4_route_handler, Received, Running
<1>2. \/ \E conf, addrs : link_check_ready(FailIf(fails), conf, addrs)
      \/ lstate' = FailIf(fails)
  BY DEF dhcp4_address_handler, dhcp4_route_handler
<1>3. \/ FailIf(fails) = lstate /\ UNCHANGED serviceVars
      \/ FailIf(fails) = "FAILED" /\ ((lstate = "FAILED" /\ UNCHANGED serviceVars) \/ Stop)
  BY <1>1 DEF FailIf, StopIfFailed
<1> HIDE DEF fails
<1>4. CASE \E conf, addrs : link_check_ready(FailIf(fails), conf, addrs)
  BY <1>1, <1>3, <1>4, CheckReadyInv
<1>5. CASE lstate' = FailIf(fails)
  BY <1>1, <1>3, <1>5 DEF serviceVars, Stop, LinkInv, LeaseInSync, QuietWithoutCarrier
<1> QED
  BY <1>2, <1>4, <1>5

(* The client's steps, with the callback in them.                          *)
LEMMA ClientStepInv ==
  ASSUME LinkInv,
         \/ \E l \in Lease, ok \in Answers : LeaseGranted(l, ok)
         \/ \E l \in Lease : LeaseUnreadable(l)
         \/ LeaseExpired
         \/ ClientAlone
  PROVE  LinkInv'
<1>1. CASE \E l \in Lease, ok \in Answers : LeaseGranted(l, ok)
  <2>1. PICK l \in Lease, ok \in Answers : LeaseGranted(l, ok)
    BY <1>1
  <2>2. /\ phase \in {"asking", "bound"} /\ phase' = "bound" /\ holding' = l
        /\ dhcp_lease' = l /\ lstate' = lstate /\ carrier' = carrier
    BY <2>1 DEF LeaseGranted, Grant, TakeLease
  <2> QED
    BY <2>2 DEF LinkInv, LeaseInSync, QuietWithoutCarrier
<1>2. CASE \E l \in Lease : LeaseUnreadable(l)
  BY <1>2 DEF LeaseUnreadable, Stop, LinkInv, LeaseInSync, QuietWithoutCarrier
<1>3. CASE LeaseExpired
  <2>1. phase' \in {"idle", "starting"} /\ phase = "bound"
    BY <1>3 DEF LeaseExpired, StartOver, Stop
  <2>2. lstate' = lstate /\ carrier' = carrier
    BY <1>3 DEF LeaseExpired
  <2> QED
    BY <2>1, <2>2 DEF LinkInv, LeaseInSync, QuietWithoutCarrier
<1>4. CASE ClientAlone
  <2>1. phase # "idle" /\ phase' # "bound"
    BY <1>4 DEF ClientAlone, Ask, StartOver, Stop
  <2>2. lstate' = lstate /\ carrier' = carrier /\ dhcp_lease' = dhcp_lease
    BY <1>4 DEF ClientAlone, linkVars, configVars
  <2> QED
    BY <2>1, <2>2 DEF LinkInv, LeaseInSync, QuietWithoutCarrier
<1> QED
  BY <1>1, <1>2, <1>3, <1>4

(* Every step of a link keeps LinkInv.                                     *)
LEMMA LinkNextInv == LinkInv /\ [LinkNext]_vars => LinkInv'
<1> SUFFICES ASSUME LinkInv, [LinkNext]_vars PROVE LinkInv'
  OBVIOUS
<1>1. CASE link_configure
  BY <1>1, ConfigureInv
<1>2. CASE Dispatch
  BY <1>2, CarrierInv, AddressInv, ReplyInv DEF Dispatch
<1>3. CASE \/ \E l \in Lease, ok \in Answers : LeaseGranted(l, ok)
           \/ \E l \in Lease : LeaseUnreadable(l)
           \/ LeaseExpired
           \/ ClientAlone
  BY <1>3, ClientStepInv
<1>4. CASE CarrierChanges \/ \E a \in Addr : AddressExpires(a)
  BY <1>4, KernelInv DEF CarrierChanges, AddressExpires
<1>5. CASE UNCHANGED vars
  BY <1>5, KernelInv DEF vars
<1> QED
  BY <1>1, <1>2, <1>3, <1>4, <1>5 DEF LinkNext

(* LinkInv holds in every state of a link.                                 *)
THEOREM LinkInvariant == LinkSpec => []LinkInv
  BY LinkInitInv, LinkNextInv, PTL DEF LinkSpec

(* The lease a link configures is the lease its client holds               *)
(* (dhcp_lease_acquired, dhcp_lease_renew, dhcp_lease_lost).               *)
THEOREM LinkLeaseInSync == LinkSpec => []LeaseInSync
  BY LinkInvariant, PTL DEF LinkInv

(* A link that lost its carrier or failed has no client at work, and one   *)
(* that lost its carrier has no lease (link_carrier_lost,                  *)
(* link_enter_failed).                                                     *)
THEOREM LinkQuietWithoutCarrier == LinkSpec => []QuietWithoutCarrier
  BY LinkInvariant, PTL DEF LinkInv

-----------------------------------------------------------------------------
(* The netlink queue.                                                      *)

(* The messages of the socket.                                             *)
NetlinkMessage ==
  [type : {"NEWLINK"}, carrier : BOOLEAN]
    \cup [type : {"NEWADDR", "DELADDR"}, addr : Addr]
    \cup [type : {"ADDR_REPLY", "ROUTE_REPLY"}, ok : BOOLEAN]

(* What the kernel queues is a message.                                    *)
LEMMA MessageForms ==
  /\ \A b \in BOOLEAN : /\ NewLink(b) \in NetlinkMessage
                        /\ AddrReply(b) \in NetlinkMessage
                        /\ RouteReply(b) \in NetlinkMessage
  /\ \A a \in Addr : NewAddr(a) \in NetlinkMessage /\ DelAddr(a) \in NetlinkMessage
BY DEF NetlinkMessage, NewLink, AddrReply, RouteReply, NewAddr, DelAddr

(* Reading a message: what is left, and where it was before.               *)
LEMMA TailOf ==
  ASSUME NEW S, NEW q \in Seq(S), q # <<>>
  PROVE  /\ Tail(q) \in Seq(S) /\ Len(q) \in Nat \ {0} /\ Len(Tail(q)) = Len(q) - 1
         /\ Head(q) = q[1] /\ Head(q) \in S
         /\ \A i \in 1 .. Len(q) - 1 : Tail(q)[i] = q[i + 1]
OBVIOUS

(* Queueing messages: where they end up.                                   *)
LEMMA ConcatOf ==
  ASSUME NEW S, NEW q \in Seq(S), NEW s \in Seq(S)
  PROVE  /\ q \o s \in Seq(S) /\ Len(q \o s) = Len(q) + Len(s) /\ Len(q) \in Nat /\ Len(s) \in Nat
         /\ \A i \in 1 .. Len(q) : (q \o s)[i] = q[i]
         /\ \A i \in 1 .. Len(s) : (q \o s)[Len(q) + i] = s[i]
OBVIOUS

(* The sequences of no, one and two messages.                              *)
LEMMA ShortSequences ==
  ASSUME NEW S
  PROVE  /\ \E s \in Seq(S) : s = <<>> /\ Len(s) = 0
         /\ \A m \in S : \E s \in Seq(S) : s = <<m>> /\ Len(s) = 1 /\ s[1] = m
         /\ \A m, y \in S : \E s \in Seq(S) : s = <<m, y>> /\ Len(s) = 2 /\ s[1] = m /\ s[2] = y
<1>1. <<>> \in Seq(S) /\ Len(<<>>) = 0
  OBVIOUS
<1>2. ASSUME NEW m \in S PROVE <<m>> \in Seq(S) /\ Len(<<m>>) = 1 /\ <<m>>[1] = m
  OBVIOUS
<1>3. ASSUME NEW m \in S, NEW y \in S
      PROVE  <<m, y>> \in Seq(S) /\ Len(<<m, y>>) = 2 /\ <<m, y>>[1] = m /\ <<m, y>>[2] = y
  OBVIOUS
<1> QED BY <1>1, <1>2, <1>3, ZenonT(30)

(* Counting the replies to routes.                                         *)
(* The replies to routes in a queue can be counted.                        *)
LEMMA AwaitedFinite ==
  ASSUME NEW S, NEW q \in Seq(S)
  PROVE  IsFiniteSet(RoutesAwaited(q)) /\ Cardinality(RoutesAwaited(q)) \in Nat
<1>1. IsFiniteSet(1 .. Len(q))
  BY FS_Interval
<1>2. RoutesAwaited(q) \in SUBSET (1 .. Len(q))
  BY DEF RoutesAwaited
<1>3. IsFiniteSet(RoutesAwaited(q))
  BY <1>1, <1>2, FS_Subset
<1> QED BY <1>3, FS_CardinalityType

(* An interval of k numbers has k members.                                 *)
LEMMA CountInterval ==
  ASSUME NEW n \in Nat, NEW k \in Nat
  PROVE  IsFiniteSet(n + 1 .. n + k) /\ Cardinality(n + 1 .. n + k) = k
<1>1. PICK a \in Int, b \in Int : a = n + 1 /\ b = n + k
  OBVIOUS
<1>2. IsFiniteSet(a .. b) /\ Cardinality(a .. b) = IF a > b THEN 0 ELSE b - a + 1
  BY FS_Interval
<1> QED BY <1>1, <1>2

(* Moving a set of places does not change how many there are.              *)
LEMMA CountShift ==
  ASSUME NEW T \in SUBSET Nat, IsFiniteSet(T), NEW n \in Int
  PROVE  IsFiniteSet({i + n : i \in T}) /\ Cardinality({i + n : i \in T}) = Cardinality(T)
<1> DEFINE U == {i + n : i \in T}
           f == [i \in T |-> i + n]
<1>1. f \in Bijection(T, U)
  BY DEF Bijection, Injection, Surjection, IsInjective
<1>2. ExistsBijection(T, U)
  BY <1>1 DEF ExistsBijection
<1> QED BY <1>2, FS_Bijection

(* Reading a reply to a route takes one from the count; reading anything   *)
(* else takes none.                                                        *)
LEMMA CountTail ==
  ASSUME NEW S, NEW q \in Seq(S), q # <<>>
  PROVE  Cardinality(RoutesAwaited(q)) =
           Cardinality(RoutesAwaited(Tail(q))) + IF Head(q).type = "ROUTE_REPLY" THEN 1 ELSE 0
<1> DEFINE T == RoutesAwaited(Tail(q))
           U == {i + 1 : i \in T}
<1>1. /\ Tail(q) \in Seq(S) /\ Len(q) \in Nat \ {0} /\ Len(Tail(q)) = Len(q) - 1 /\ Head(q) = q[1]
      /\ \A i \in 1 .. Len(q) - 1 : Tail(q)[i] = q[i + 1]
  BY TailOf
<1>2. T \in SUBSET Nat /\ IsFiniteSet(T) /\ Cardinality(T) \in Nat
  <2>1. T \in SUBSET Nat
    BY <1>1 DEF RoutesAwaited
  <2> QED BY <1>1, <2>1, AwaitedFinite
<1>3. IsFiniteSet(U) /\ Cardinality(U) = Cardinality(T)
  <2> HIDE DEF T
  <2>1. 1 \in Int
    OBVIOUS
  <2> QED BY <1>2, <2>1, CountShift
<1>4. \A i \in Int : i \in U <=> i \in 2 .. Len(q) /\ q[i].type = "ROUTE_REPLY"
  <2>1. ASSUME NEW i \in Int, i \in U PROVE i \in 2 .. Len(q) /\ q[i].type = "ROUTE_REPLY"
    BY <1>1, <2>1 DEF RoutesAwaited
  <2>2. ASSUME NEW i \in Int, i \in 2 .. Len(q), q[i].type = "ROUTE_REPLY" PROVE i \in U
    <3>1. i - 1 \in 1 .. Len(q) - 1 /\ (i - 1) + 1 = i
      BY <1>1, <2>2
    <3>2. i - 1 \in T
      BY <1>1, <2>2, <3>1 DEF RoutesAwaited
    <3> QED BY <3>1, <3>2
  <2> QED BY <2>1, <2>2
<1>5. U \subseteq Int /\ 1 \notin U
  BY <1>2, <1>4
<1> HIDE DEF U, T
<1>6. CASE Head(q).type = "ROUTE_REPLY"
  <2>1. RoutesAwaited(q) = U \cup {1}
    <3>1. \A i \in Int : i \in RoutesAwaited(q) <=> i \in U \cup {1}
      BY <1>1, <1>4, <1>6 DEF RoutesAwaited
    <3>2. RoutesAwaited(q) \subseteq Int /\ U \cup {1} \subseteq Int
      BY <1>5 DEF RoutesAwaited
    <3> QED BY <3>1, <3>2, Zenon
  <2>2. Cardinality(U \cup {1}) = Cardinality(U) + 1
    BY <1>3, <1>5, FS_AddElement
  <2> QED BY <1>3, <1>6, <2>1, <2>2 DEF T
<1>7. CASE Head(q).type # "ROUTE_REPLY"
  <2>1. RoutesAwaited(q) = U
    <3>1. \A i \in Int : i \in RoutesAwaited(q) <=> i \in U
      BY <1>1, <1>4, <1>7 DEF RoutesAwaited
    <3>2. RoutesAwaited(q) \subseteq Int
      BY DEF RoutesAwaited
    <3> QED BY <1>5, <3>1, <3>2
  <2> QED BY <1>2, <1>3, <1>7, <2>1 DEF T
<1> QED BY <1>6, <1>7

(* Queueing messages that are no replies to routes adds none.              *)
LEMMA CountNone ==
  ASSUME NEW S, NEW q \in Seq(S), NEW s \in Seq(S), \A i \in 1 .. Len(s) : s[i].type # "ROUTE_REPLY"
  PROVE  RoutesAwaited(q \o s) = RoutesAwaited(q)
<1>1. /\ Len(q \o s) = Len(q) + Len(s) /\ Len(q) \in Nat /\ Len(s) \in Nat
      /\ \A i \in 1 .. Len(q) : (q \o s)[i] = q[i]
      /\ \A i \in 1 .. Len(s) : (q \o s)[Len(q) + i] = s[i]
  BY ConcatOf
<1>2. ASSUME NEW i \in 1 .. Len(q \o s), (q \o s)[i].type = "ROUTE_REPLY" PROVE i \in 1 .. Len(q)
  <2> SUFFICES ASSUME i > Len(q) PROVE FALSE
    BY <1>1, <1>2
  <2>1. i - Len(q) \in 1 .. Len(s) /\ Len(q) + (i - Len(q)) = i
    BY <1>1
  <2> QED BY <1>1, <1>2, <2>1
<1> QED BY <1>1, <1>2 DEF RoutesAwaited

(* Queueing replies to routes adds as many as there are.                   *)
LEMMA CountReplies ==
  ASSUME NEW S, NEW q \in Seq(S), NEW s \in Seq(S), \A i \in 1 .. Len(s) : s[i].type = "ROUTE_REPLY"
  PROVE  Cardinality(RoutesAwaited(q \o s)) = Cardinality(RoutesAwaited(q)) + Len(s)
<1> DEFINE n == Len(q)
           U == n + 1 .. n + Len(s)
<1>1. /\ Len(q \o s) = n + Len(s) /\ n \in Nat /\ Len(s) \in Nat
      /\ \A i \in 1 .. n : (q \o s)[i] = q[i]
      /\ \A i \in 1 .. Len(s) : (q \o s)[n + i] = s[i]
  BY ConcatOf
<1>2. IsFiniteSet(U) /\ Cardinality(U) = Len(s)
  BY <1>1, CountInterval
<1>3. IsFiniteSet(RoutesAwaited(q)) /\ Cardinality(RoutesAwaited(q)) \in Nat
  BY AwaitedFinite
<1>4. \A i \in U : (q \o s)[i].type = "ROUTE_REPLY"
  <2> SUFFICES ASSUME NEW i \in U PROVE (q \o s)[i].type = "ROUTE_REPLY"
    OBVIOUS
  <2>1. i - n \in 1 .. Len(s) /\ n + (i - n) = i
    BY <1>1
  <2> QED BY <1>1, <2>1
<1>5. RoutesAwaited(q \o s) = RoutesAwaited(q) \cup U /\ RoutesAwaited(q) \cap U = {}
  BY <1>1, <1>4 DEF RoutesAwaited
<1> HIDE DEF U, n
<1>6. Cardinality(RoutesAwaited(q) \cup U) = Cardinality(RoutesAwaited(q)) + Cardinality(U) - 0
  <2>1. Cardinality(RoutesAwaited(q) \cap U) = 0
    BY <1>5, FS_EmptySet
  <2> QED BY <1>2, <1>3, <2>1, FS_Union
<1> QED BY <1>1, <1>2, <1>3, <1>5, <1>6

-----------------------------------------------------------------------------
(* The type invariant and the count of route replies.                      *)

(* How many replies to routes are under way.                               *)
Waiting(q) == Cardinality(RoutesAwaited(q))

(* The second inductive invariant: that the count is exact is what keeps   *)
(* the unsigned dhcp4_messages from wrapping when a reply is taken from    *)
(* it.                                                                     *)
TypeInv == LinkTypeOK /\ queue \in Seq(NetlinkMessage) /\ RouteRepliesCounted

(* The notification of a removed address.                                  *)
LEMMA RemovalType ==
  ASSUME LinkTypeOK, NEW a
  PROVE  /\ Removal(a) \in Seq(NetlinkMessage)
         /\ \A i \in 1 .. Len(Removal(a)) : Removal(a)[i].type = "DELADDR"
<1>1. CASE a \in kaddrs
  <2>1. DelAddr(a) \in NetlinkMessage /\ DelAddr(a).type = "DELADDR"
    BY <1>1, MessageForms DEF LinkTypeOK, DelAddr
  <2>2. Removal(a) = <<DelAddr(a)>>
    BY <1>1 DEF Removal
  <2> HIDE DEF Removal
  <2> QED BY <2>1, <2>2
<1>2. CASE a \notin kaddrs
  <2>1. Removal(a) = <<>>
    BY <1>2 DEF Removal
  <2> QED BY <2>1
<1> QED BY <1>1, <1>2

(* The notification and the reply of an added address.                     *)
LEMMA AdditionType ==
  ASSUME NEW a \in Addr, NEW ok \in BOOLEAN
  PROVE  /\ Addition(a, ok) \in Seq(NetlinkMessage)
         /\ \A i \in 1 .. Len(Addition(a, ok)) : Addition(a, ok)[i].type \in {"NEWADDR", "ADDR_REPLY"}
<1>1. /\ NewAddr(a) \in NetlinkMessage /\ NewAddr(a).type = "NEWADDR"
      /\ \A b \in BOOLEAN : AddrReply(b) \in NetlinkMessage /\ AddrReply(b).type = "ADDR_REPLY"
  BY MessageForms DEF NewAddr, AddrReply
<1>2. PICK x \in NetlinkMessage, y \in NetlinkMessage, z \in NetlinkMessage :
        /\ x = NewAddr(a) /\ y = AddrReply(TRUE) /\ z = AddrReply(FALSE)
        /\ x.type = "NEWADDR" /\ y.type = "ADDR_REPLY" /\ z.type = "ADDR_REPLY"
  BY <1>1
<1>3. CASE ok = TRUE
  <2>1. Addition(a, ok) = <<x, y>>
    BY <1>2, <1>3 DEF Addition
  <2>2. <<x, y>> \in Seq(NetlinkMessage) /\ Len(<<x, y>>) = 2 /\ <<x, y>>[1] = x /\ <<x, y>>[2] = y
    OBVIOUS
  <2>3. \A i \in 1 .. Len(<<x, y>>) : <<x, y>>[i] \in {x, y}
    BY <2>2
  <2> QED BY <1>2, <2>1, <2>2, <2>3, Zenon
<1>4. CASE ok = FALSE
  <2>1. Addition(a, ok) = <<z>>
    BY <1>2, <1>4 DEF Addition
  <2>2. <<z>> \in Seq(NetlinkMessage) /\ Len(<<z>>) = 1 /\ <<z>>[1] = z
    OBVIOUS
  <2>3. \A i \in 1 .. Len(<<z>>) : <<z>>[i] = z
    BY <2>2
  <2> QED BY <1>2, <2>1, <2>2, <2>3, Zenon
<1> QED BY <1>3, <1>4

(* The replies under way are a natural number.                             *)
LEMMA WaitingType == ASSUME NEW q \in Seq(NetlinkMessage) PROVE Waiting(q) \in Nat
  BY AwaitedFinite DEF Waiting

(* Other messages queued leave the count alone.                            *)
LEMMA WaitingMore ==
  ASSUME NEW q \in Seq(NetlinkMessage), NEW s \in Seq(NetlinkMessage),
         \A i \in 1 .. Len(s) : s[i].type # "ROUTE_REPLY"
  PROVE  q \o s \in Seq(NetlinkMessage) /\ Waiting(q \o s) = Waiting(q)
<1>1. q \o s \in Seq(NetlinkMessage)
  BY ConcatOf
<1>2. RoutesAwaited(q \o s) = RoutesAwaited(q)
  BY CountNone
<1> QED BY <1>1, <1>2 DEF Waiting

(* A message read leaves the queue, and the count if it was counted.       *)
LEMMA WaitingRead ==
  ASSUME NEW q \in Seq(NetlinkMessage), q # <<>>
  PROVE  /\ Tail(q) \in Seq(NetlinkMessage) /\ Head(q) \in NetlinkMessage
         /\ Waiting(Tail(q)) = Waiting(q) - IF Head(q).type = "ROUTE_REPLY" THEN 1 ELSE 0
<1>1. Tail(q) \in Seq(NetlinkMessage) /\ Head(q) \in NetlinkMessage
  BY TailOf
<1>2. Waiting(q) = Waiting(Tail(q)) + IF Head(q).type = "ROUTE_REPLY" THEN 1 ELSE 0
  BY CountTail DEF Waiting
<1>3. Waiting(q) \in Nat /\ Waiting(Tail(q)) \in Nat
  BY <1>1, WaitingType
<1> QED BY <1>1, <1>2, <1>3

(* One other message queued leaves the count alone.                        *)
LEMMA WaitingAppend ==
  ASSUME NEW q \in Seq(NetlinkMessage), NEW m \in NetlinkMessage, m.type # "ROUTE_REPLY"
  PROVE  Append(q, m) \in Seq(NetlinkMessage) /\ Waiting(Append(q, m)) = Waiting(q)
<1>1. Append(q, m) = q \o <<m>> /\ <<m>> \in Seq(NetlinkMessage) /\ Len(<<m>>) = 1 /\ <<m>>[1] = m
  OBVIOUS
<1>2. PICK s \in Seq(NetlinkMessage) : s = <<m>>
  BY <1>1
<1>3. \A i \in 1 .. Len(s) : s[i].type # "ROUTE_REPLY"
  BY <1>1, <1>2
<1>4. q \o s \in Seq(NetlinkMessage) /\ Waiting(q \o s) = Waiting(q)
  BY <1>3, WaitingMore
<1> QED BY <1>1, <1>2, <1>4

(* dhcp_lease_lost queues no reply: replies to the routes of a lost lease  *)
(* stay counted, and stay under way.                                       *)
LEMMA WaitingLost ==
  ASSUME LinkTypeOK, NEW q \in Seq(NetlinkMessage), NEW lost, dhcp_lease_lost(lost, q)
  PROVE  queue' \in Seq(NetlinkMessage) /\ Waiting(queue') = Waiting(q)
<1> DEFINE s == Removal(AddrOf[dhcp_lease])
<1>1. s \in Seq(NetlinkMessage) /\ \A i \in 1 .. Len(s) : s[i].type # "ROUTE_REPLY"
  BY RemovalType
<1>2. queue' = q \o s \/ queue' = q
  BY DEF dhcp_lease_lost
<1> HIDE DEF s
<1> QED BY <1>1, <1>2, WaitingMore

(* The fields of a message that its handler reads.                         *)
LEMMA MessageHeads ==
  ASSUME NEW m \in NetlinkMessage
  PROVE  /\ m.type = "NEWLINK" => m.carrier \in BOOLEAN
         /\ m.type \in {"NEWADDR", "DELADDR"} => m.addr \in Addr
         /\ m.type \in {"ADDR_REPLY", "ROUTE_REPLY"} => m.ok \in BOOLEAN
BY DEF NetlinkMessage

(* A link starts with nothing queued and nothing counted.                  *)
LEMMA TypeInit == LinkInit => TypeInv
<1> SUFFICES ASSUME LinkInit PROVE TypeInv
  OBVIOUS
<1>1. LinkTypeOK
  BY DEF LinkInit, ServiceInit, LinkTypeOK, LinkStates, AddressStates
<1>2. queue \in Seq(NetlinkMessage)
  BY DEF LinkInit
<1>3. RoutesAwaited(queue) = {}
  BY DEF LinkInit, RoutesAwaited
<1>4. Cardinality(RoutesAwaited(queue)) = 0
  BY <1>3, FS_EmptySet
<1> QED BY <1>1, <1>2, <1>4 DEF TypeInv, RouteRepliesCounted, LinkInit

(* The outcomes of a request and of a start.                               *)
LEMMA AnswersType == Answers \subseteq BOOLEAN /\ Works \subseteq BOOLEAN
  BY LinkAssumption DEF Answers, Works

(* The client a link sees keeps its types, whatever handler runs it.       *)
LEMMA ServiceType ==
  ASSUME LinkTypeOK, [LinkNext]_vars
  PROVE  phase' \in {"idle", "starting", "asking", "bound"} /\ holding' \in Lease \cup {NoLease}
<1> DEFINE Goal == phase' \in {"idle", "starting", "asking", "bound"}
                   /\ holding' \in Lease \cup {NoLease}
<1> SUFFICES Goal
  OBVIOUS
<1>0. phase \in {"idle", "starting", "asking", "bound"} /\ holding \in Lease \cup {NoLease}
  BY DEF LinkTypeOK
<1>1. /\ UNCHANGED serviceVars => Goal
      /\ \A b : Start(b) => Goal
      /\ Stop => Goal
      /\ Ask => Goal
      /\ StartOver => Goal
      /\ \A l \in Lease : Grant(l) => Goal
  <2>1. UNCHANGED serviceVars => Goal
    BY <1>0 DEF serviceVars
  <2>2. (\A b : Start(b) => Goal) /\ (StartOver => Goal)
    BY <1>0 DEF Start, StartOver
  <2>3. (Stop => Goal) /\ (Ask => Goal)
    BY <1>0 DEF Stop, Ask
  <2>4. \A l \in Lease : Grant(l) => Goal
    BY DEF Grant
  <2> HIDE DEF Goal
  <2> QED BY <2>1, <2>2, <2>3, <2>4
<1> HIDE DEF Goal
<1>2. CASE link_configure
  BY <1>1, <1>2 DEF link_configure
<1>3. CASE Dispatch
  <2>1. CASE link_update
    BY <1>1, <2>1, Zenon DEF link_update, link_carrier_gained, link_carrier_lost
  <2>2. CASE address_update \/ address_drop
    BY <1>1, <2>2 DEF address_update, address_drop
  <2>3. CASE dhcp4_address_handler \/ dhcp4_route_handler
    <3>1. \E fails : StopIfFailed(fails)
      BY <2>3 DEF dhcp4_address_handler, dhcp4_route_handler
    <3> QED BY <1>1, <3>1, Zenon DEF StopIfFailed
  <2> QED BY <1>3, <2>1, <2>2, <2>3 DEF Dispatch
<1>4. CASE \E l \in Lease, ok \in Answers : LeaseGranted(l, ok)
  BY <1>1, <1>4 DEF LeaseGranted
<1>5. CASE (\E l \in Lease : LeaseUnreadable(l)) \/ LeaseExpired \/ ClientAlone
  <2>1. Stop \/ StartOver \/ Ask
    BY <1>5, Zenon DEF LeaseUnreadable, LeaseExpired, ClientAlone
  <2> QED BY <1>1, <2>1, Zenon
<1>6. CASE CarrierChanges \/ (\E a \in Addr : AddressExpires(a)) \/ UNCHANGED vars
  BY <1>1, <1>6 DEF CarrierChanges, AddressExpires, vars
<1> QED
  BY <1>2, <1>3, <1>4, <1>5, <1>6 DEF LinkNext

(* What a step has to show for TypeInv, the client aside.                  *)
LEMMA TypeStep ==
  ASSUME LinkTypeOK, [LinkNext]_vars,
         lstate' \in LinkStates, carrier' \in BOOLEAN, kcarrier' \in BOOLEAN,
         dhcp_lease' \in Lease \cup {NoLease}, dhcp4_configured' \in BOOLEAN,
         static_configured' \in BOOLEAN, addresses' \in [Addr -> AddressStates], kaddrs' \subseteq Addr,
         queue' \in Seq(NetlinkMessage), dhcp4_messages' = Waiting(queue')
  PROVE  TypeInv'
<1>1. phase' \in {"idle", "starting", "asking", "bound"} /\ holding' \in Lease \cup {NoLease}
  BY ServiceType
<1>2. dhcp4_messages' \in Nat
  BY WaitingType
<1>3. LinkTypeOK'
  BY <1>1, <1>2, Zenon DEF LinkTypeOK
<1> QED BY <1>3, Zenon DEF TypeInv, RouteRepliesCounted, Waiting

(* The fields of a link.                                                   *)
LEMMA LinkFields ==
  ASSUME LinkTypeOK
  PROVE  /\ lstate \in LinkStates /\ carrier \in BOOLEAN /\ kcarrier \in BOOLEAN
         /\ dhcp_lease \in Lease \cup {NoLease} /\ dhcp4_messages \in Nat
         /\ dhcp4_configured \in BOOLEAN /\ static_configured \in BOOLEAN
         /\ addresses \in [Addr -> AddressStates] /\ kaddrs \subseteq Addr
  BY Zenon DEF LinkTypeOK

(* link_check_ready leads to a state of a link.                            *)
LEMMA ReadyType ==
  ASSUME NEW s \in LinkStates, NEW conf, NEW addrs, link_check_ready(s, conf, addrs)
  PROVE  lstate' \in LinkStates
  BY DEF link_check_ready, LinkStates

(* So does link_enter_failed.                                              *)
LEMMA FailType == ASSUME LinkTypeOK, NEW fails PROVE FailIf(fails) \in LinkStates
  BY DEF LinkTypeOK, LinkStates, FailIf

(* dhcp_lease_lost keeps the types of what it writes.                      *)
LEMMA LostType ==
  ASSUME TypeInv, NEW lost \in BOOLEAN, NEW q, dhcp_lease_lost(lost, q)
  PROVE  /\ dhcp_lease' \in Lease \cup {NoLease} /\ dhcp4_configured' \in BOOLEAN
         /\ kaddrs' \subseteq Addr
<1>1. dhcp_lease \in Lease \cup {NoLease} /\ dhcp4_configured \in BOOLEAN /\ kaddrs \subseteq Addr
  BY LinkFields DEF TypeInv
<1>2. dhcp4_configured' \in BOOLEAN
  BY <1>1, Zenon DEF dhcp_lease_lost
<1> QED BY <1>1, <1>2 DEF dhcp_lease_lost

(* One lemma per action for TypeInv: configuring a link,                   *)
LEMMA ConfigureType == ASSUME TypeInv, link_configure PROVE TypeInv'
<1>1. /\ lstate' \in LinkStates /\ static_configured' \in BOOLEAN
      /\ UNCHANGED <<carrier, dhcp_lease, dhcp4_messages, dhcp4_configured, addresses, kcarrier,
                     kaddrs, queue>>
  BY AnswersType DEF link_configure, configVars, kernelVars, LinkStates
<1>2. queue' \in Seq(NetlinkMessage) /\ dhcp4_messages' = Waiting(queue')
  BY <1>1 DEF TypeInv, RouteRepliesCounted, Waiting
<1>3. LinkTypeOK /\ [LinkNext]_vars
  BY DEF LinkNext, TypeInv
<1> QED BY <1>1, <1>2, <1>3, LinkFields, TypeStep

(* a carrier notification,                                                 *)
LEMMA CarrierType == ASSUME TypeInv, link_update PROVE TypeInv'
<1>0. LinkTypeOK /\ [LinkNext]_vars /\ queue \in Seq(NetlinkMessage) /\ dhcp4_messages = Waiting(queue)
  BY DEF LinkNext, Dispatch, TypeInv, RouteRepliesCounted, Waiting
<1>1. queue # <<>> /\ Head(queue).type = "NEWLINK" /\ carrier' = Head(queue).carrier
  BY DEF link_update, Received
<1>2. /\ Tail(queue) \in Seq(NetlinkMessage) /\ Head(queue) \in NetlinkMessage
      /\ Waiting(Tail(queue)) = Waiting(queue)
  BY <1>0, <1>1, WaitingRead, WaitingType
<1>3. carrier' \in BOOLEAN
  BY <1>1, <1>2, MessageHeads
<1>4. UNCHANGED <<static_configured, addresses, kcarrier>>
  BY DEF link_update
<1>5. CASE link_carrier_gained
  <2>1. lstate' \in LinkStates
    BY <1>0, <1>5, LinkFields, FailType DEF link_carrier_gained
  <2>2. /\ UNCHANGED <<dhcp_lease, dhcp4_configured, dhcp4_messages, kaddrs>> /\ queue' = Tail(queue)
    BY <1>5 DEF link_carrier_gained, configVars
  <2> QED BY <1>0, <1>2, <1>3, <1>4, <2>1, <2>2, LinkFields, TypeStep
<1>6. CASE link_carrier_lost
  <2>1. PICK lost \in BOOLEAN : dhcp_lease_lost(lost, Tail(queue))
    BY <1>6 DEF link_carrier_lost
  <2>2. queue' \in Seq(NetlinkMessage) /\ Waiting(queue') = Waiting(Tail(queue))
    BY <1>0, <1>2, <2>1, WaitingLost
  <2>3. UNCHANGED <<lstate, dhcp4_messages>>
    BY <1>6 DEF link_carrier_lost
  <2> QED BY <1>0, <1>2, <1>3, <1>4, <2>1, <2>2, <2>3, LinkFields, LostType, TypeStep
<1>7. CASE queue' = Tail(queue) /\ UNCHANGED <<lstate, configVars, kaddrs>>
  BY <1>0, <1>2, <1>3, <1>4, <1>7, LinkFields, TypeStep DEF configVars
<1> QED BY <1>5, <1>6, <1>7 DEF link_update

(* an address notification,                                                *)
LEMMA AddressType == ASSUME TypeInv, address_update \/ address_drop PROVE TypeInv'
<1>0. LinkTypeOK /\ [LinkNext]_vars /\ queue \in Seq(NetlinkMessage) /\ dhcp4_messages = Waiting(queue)
  BY DEF LinkNext, Dispatch, TypeInv, RouteRepliesCounted, Waiting
<1>1. /\ queue # <<>> /\ Head(queue).type \in {"NEWADDR", "DELADDR"}
      /\ queue' = Tail(queue)
      /\ UNCHANGED <<carrier, dhcp_lease, dhcp4_messages, dhcp4_configured, static_configured,
                     kcarrier, kaddrs>>
  BY DEF address_update, address_drop, Received, configVars
<1>2. /\ Tail(queue) \in Seq(NetlinkMessage) /\ Head(queue) \in NetlinkMessage
      /\ Waiting(Tail(queue)) = Waiting(queue)
  BY <1>0, <1>1, WaitingRead, WaitingType
<1>3. lstate' \in LinkStates
  <2>1. UNCHANGED lstate \/ \E conf, addrs : link_check_ready(lstate, conf, addrs)
    BY DEF address_update, address_drop
  <2> QED BY <1>0, <2>1, LinkFields, ReadyType
<1>4. addresses' \in [Addr -> AddressStates]
  <2>1. \E s \in AddressStates : addresses' = [addresses EXCEPT ![Head(queue).addr] = s]
    BY DEF address_update, address_drop, AddressStates
  <2> QED BY <1>0, <2>1, LinkFields
<1> QED BY <1>0, <1>1, <1>2, <1>3, <1>4, LinkFields, TypeStep

(* The replies to the routes of a lease: one for each.                     *)
LEMMA RouteRepliesType ==
  ASSUME LinkTypeOK, dhcp_lease # NoLease,
         NEW replies \in RouteReplies(RoutesOf[dhcp_lease], AddrOf[dhcp_lease])
  PROVE  /\ replies \in Seq(NetlinkMessage) /\ Len(replies) = RoutesOf[dhcp_lease]
         /\ \A i \in 1 .. Len(replies) : replies[i].type = "ROUTE_REPLY"
<1>1. PICK n \in Nat : n = RoutesOf[dhcp_lease]
  BY LinkFields, LinkAssumption
<1>2. replies \in [1 .. n -> {RouteReply(ok) : ok \in BOOLEAN}]
  BY <1>1, AnswersType DEF RouteReplies
<1>3. replies \in Seq({RouteReply(ok) : ok \in BOOLEAN}) /\ Len(replies) = n
  BY <1>2
<1>4. \A m \in {RouteReply(ok) : ok \in BOOLEAN} : m \in NetlinkMessage /\ m.type = "ROUTE_REPLY"
  BY MessageForms DEF RouteReply
<1> QED BY <1>1, <1>2, <1>3, <1>4

(* a reply, where dhcp4_messages and the queue change together,            *)
LEMMA ReplyType == ASSUME TypeInv, dhcp4_address_handler \/ dhcp4_route_handler PROVE TypeInv'
<1>0. LinkTypeOK /\ [LinkNext]_vars /\ queue \in Seq(NetlinkMessage) /\ dhcp4_messages = Waiting(queue)
  BY DEF LinkNext, Dispatch, TypeInv, RouteRepliesCounted, Waiting
<1>1. /\ queue # <<>> /\ Head(queue).type \in {"ADDR_REPLY", "ROUTE_REPLY"}
      /\ UNCHANGED <<carrier, dhcp_lease, static_configured, addresses, kcarrier, kaddrs>>
  BY DEF dhcp4_address_handler, dhcp4_route_handler, Received
<1>2. /\ Tail(queue) \in Seq(NetlinkMessage) /\ Head(queue) \in NetlinkMessage
      /\ Waiting(Tail(queue)) = Waiting(queue) - (IF Head(queue).type = "ROUTE_REPLY" THEN 1 ELSE 0)
      /\ Waiting(queue) \in Nat /\ Waiting(Tail(queue)) \in Nat
  BY <1>0, <1>1, WaitingRead, WaitingType
<1>3. lstate' \in LinkStates
  <2>1. \/ lstate' = FailIf(~Head(queue).ok)
        \/ \E conf, addrs : link_check_ready(FailIf(~Head(queue).ok), conf, addrs)
    BY DEF dhcp4_address_handler, dhcp4_route_handler
  <2> QED BY <1>0, <2>1, FailType, ReadyType
<1>4. CASE dhcp4_address_handler
  <2>1. dhcp4_configured' = dhcp4_configured /\ Head(queue).type = "ADDR_REPLY"
    BY <1>4 DEF dhcp4_address_handler, Received
  <2>2. queue' \in Seq(NetlinkMessage) /\ dhcp4_messages' = Waiting(queue')
    <3>1. CASE queue' = Tail(queue) /\ UNCHANGED dhcp4_messages
      BY <1>0, <1>2, <2>1, <3>1
    <3>2. CASE /\ dhcp_lease # NoLease
               /\ \E replies \in RouteReplies(RoutesOf[dhcp_lease], AddrOf[dhcp_lease]) :
                    queue' = Tail(queue) \o replies
               /\ dhcp4_messages' = dhcp4_messages + RoutesOf[dhcp_lease]
      <4>1. PICK replies \in RouteReplies(RoutesOf[dhcp_lease], AddrOf[dhcp_lease]) :
              queue' = Tail(queue) \o replies
        BY <3>2
      <4>2. PICK n \in Nat : n = RoutesOf[dhcp_lease]
        BY <1>0, <3>2, LinkFields, LinkAssumption
      <4>3. /\ replies \in Seq(NetlinkMessage) /\ Len(replies) = n
            /\ \A i \in 1 .. Len(replies) : replies[i].type = "ROUTE_REPLY"
        BY <1>0, <3>2, <4>1, <4>2, RouteRepliesType
      <4>4. Waiting(Tail(queue) \o replies) = Waiting(Tail(queue)) + Len(replies)
        BY <1>2, <4>3, CountReplies DEF Waiting
      <4>5. Tail(queue) \o replies \in Seq(NetlinkMessage)
        BY <1>2, <4>3, ConcatOf
      <4>6. queue' \in Seq(NetlinkMessage) /\ Waiting(queue') = Waiting(Tail(queue)) + n
        BY <4>1, <4>3, <4>4, <4>5, Zenon
      <4>7. Waiting(Tail(queue)) = Waiting(queue) /\ dhcp4_messages' = Waiting(queue) + n
        BY <1>0, <1>2, <2>1, <3>2, <4>2
      <4> QED BY <4>6, <4>7
    <3> QED BY <1>4, <3>1, <3>2 DEF dhcp4_address_handler
  <2> QED BY <1>0, <1>1, <1>3, <2>1, <2>2, LinkFields, TypeStep
<1>5. CASE dhcp4_route_handler
  <2>1. /\ Head(queue).type = "ROUTE_REPLY" /\ dhcp4_messages' = dhcp4_messages - 1
        /\ queue' = Tail(queue) /\ dhcp4_configured' \in {TRUE, dhcp4_configured}
    BY <1>5 DEF dhcp4_route_handler, Received, LessMessages
  <2>2. dhcp4_configured' \in BOOLEAN
    BY <1>0, <2>1, LinkFields
  <2> QED BY <1>0, <1>1, <1>2, <1>3, <2>1, <2>2, LinkFields, TypeStep
<1> QED BY <1>4, <1>5

(* a lease that is granted,                                                *)
LEMMA GrantType ==
  ASSUME TypeInv, NEW l \in Lease, NEW ok \in Answers, LeaseGranted(l, ok)
  PROVE  TypeInv'
<1> DEFINE a == AddrOf[l]
           lost == GrantEvent(l) = "IP_CHANGE" /\ dhcp_lease # NoLease
           r == IF lost THEN Removal(AddrOf[dhcp_lease]) ELSE <<>>
<1>0. LinkTypeOK /\ [LinkNext]_vars /\ queue \in Seq(NetlinkMessage) /\ dhcp4_messages = Waiting(queue)
  BY DEF LinkNext, TypeInv, RouteRepliesCounted, Waiting
<1>1. a \in Addr /\ ok \in BOOLEAN
  BY LinkAssumption, AnswersType
<1>2. /\ UNCHANGED <<lstate, carrier, dhcp4_messages, static_configured, kcarrier>>
      /\ dhcp_lease' = l
  BY DEF LeaseGranted, TakeLease
<1>3. dhcp4_configured' \in BOOLEAN
  BY Zenon DEF LeaseGranted
<1>4. addresses' \in [Addr -> AddressStates]
  BY <1>0, LinkFields DEF LeaseGranted, address_add, AddressStates
<1>5. kaddrs' \subseteq Addr
  BY <1>0, <1>1, LinkFields DEF LeaseGranted
<1>6. r \in Seq(NetlinkMessage) /\ \A i \in 1 .. Len(r) : r[i].type # "ROUTE_REPLY"
  BY <1>0, RemovalType
<1>7. /\ Addition(a, ok) \in Seq(NetlinkMessage)
      /\ \A i \in 1 .. Len(Addition(a, ok)) : Addition(a, ok)[i].type # "ROUTE_REPLY"
  BY <1>1, AdditionType
<1>8. queue' = (queue \o r) \o Addition(a, ok)
  BY DEF LeaseGranted
<1> HIDE DEF a, r
<1>9. queue \o r \in Seq(NetlinkMessage) /\ Waiting(queue \o r) = Waiting(queue)
  BY <1>0, <1>6, WaitingMore
<1>10. queue' \in Seq(NetlinkMessage) /\ Waiting(queue') = Waiting(queue)
  BY <1>7, <1>8, <1>9, WaitingMore
<1> QED BY <1>0, <1>2, <1>3, <1>4, <1>5, <1>10, LinkFields, TypeStep

(* one that is lost,                                                       *)
LEMMA LoseType ==
  ASSUME TypeInv, (\E l \in Lease : LeaseUnreadable(l)) \/ LeaseExpired
  PROVE  TypeInv'
<1>0. LinkTypeOK /\ [LinkNext]_vars /\ queue \in Seq(NetlinkMessage) /\ dhcp4_messages = Waiting(queue)
  BY DEF LinkNext, TypeInv, RouteRepliesCounted, Waiting
<1>1. PICK lost \in BOOLEAN : dhcp_lease_lost(lost, queue)
  BY DEF LeaseUnreadable, LeaseExpired
<1>2. /\ lstate' \in {"FAILED", lstate}
      /\ UNCHANGED <<carrier, dhcp4_messages, static_configured, addresses, kcarrier>>
  BY DEF LeaseUnreadable, LeaseExpired
<1>3. lstate' \in LinkStates
  BY <1>0, <1>2, LinkFields DEF LinkStates
<1>4. queue' \in Seq(NetlinkMessage) /\ Waiting(queue') = Waiting(queue)
  BY <1>0, <1>1, WaitingLost
<1> QED BY <1>0, <1>1, <1>2, <1>3, <1>4, LinkFields, LostType, TypeStep

(* an event of the kernel,                                                 *)
LEMMA KernelType ==
  ASSUME TypeInv, CarrierChanges \/ \E a \in Addr : AddressExpires(a)
  PROVE  TypeInv'
<1>0. LinkTypeOK /\ [LinkNext]_vars /\ queue \in Seq(NetlinkMessage) /\ dhcp4_messages = Waiting(queue)
  BY DEF LinkNext, TypeInv, RouteRepliesCounted, Waiting
<1>1. UNCHANGED <<lstate, carrier, dhcp_lease, dhcp4_messages, dhcp4_configured,
                  static_configured, addresses>>
  BY DEF CarrierChanges, AddressExpires, linkVars, configVars
<1>2. kcarrier' \in BOOLEAN /\ kaddrs' \subseteq Addr
  BY <1>0, LinkFields DEF CarrierChanges, AddressExpires
<1>3. PICK m \in NetlinkMessage : m.type # "ROUTE_REPLY" /\ queue' = Append(queue, m)
  <2>1. CASE CarrierChanges
    <3>1. (~kcarrier) \in BOOLEAN /\ NewLink(~kcarrier).type # "ROUTE_REPLY"
      BY DEF NewLink
    <3> QED BY <2>1, <3>1, MessageForms DEF CarrierChanges
  <2>2. CASE \E a \in Addr : AddressExpires(a)
    <3>1. \A a \in Addr : DelAddr(a).type # "ROUTE_REPLY"
      BY DEF DelAddr
    <3> QED BY <2>2, <3>1, MessageForms DEF AddressExpires
  <2> QED BY <2>1, <2>2
<1>4. queue' \in Seq(NetlinkMessage) /\ Waiting(queue') = Waiting(queue)
  BY <1>0, <1>3, WaitingAppend
<1> QED BY <1>0, <1>1, <1>2, <1>4, LinkFields, TypeStep

(* and a step the link does not see.                                       *)
LEMMA QuietType ==
  ASSUME TypeInv, ClientAlone \/ UNCHANGED vars
  PROVE  TypeInv'
<1>0. LinkTypeOK /\ [LinkNext]_vars /\ queue \in Seq(NetlinkMessage) /\ dhcp4_messages = Waiting(queue)
  BY DEF LinkNext, TypeInv, RouteRepliesCounted, Waiting
<1>1. UNCHANGED <<lstate, carrier, dhcp_lease, dhcp4_messages, dhcp4_configured, static_configured,
                  addresses, kcarrier, kaddrs, queue>>
  BY DEF ClientAlone, vars, linkVars, kernelVars, configVars
<1> QED BY <1>0, <1>1, LinkFields, TypeStep

(* Every step of a link keeps TypeInv.                                     *)
LEMMA TypeNext == TypeInv /\ [LinkNext]_vars => TypeInv'
<1> SUFFICES ASSUME TypeInv, [LinkNext]_vars PROVE TypeInv'
  OBVIOUS
<1>1. CASE Dispatch
  BY <1>1, CarrierType, AddressType, ReplyType DEF Dispatch
<1>2. CASE \E l \in Lease, ok \in Answers : LeaseGranted(l, ok)
  BY <1>2, GrantType
<1> QED
  BY <1>1, <1>2, ConfigureType, LoseType, KernelType, QuietType DEF LinkNext

(* TypeInv holds in every state of a link.                                 *)
THEOREM LinkTypeInvariant == LinkSpec => []TypeInv
  BY TypeInit, TypeNext, PTL DEF LinkSpec

(* The fields of struct Link keep their types; dhcp4_messages is never     *)
(* taken below 0 (dhcp4_route_handler).                                    *)
THEOREM LinkTypeCorrect == LinkSpec => []LinkTypeOK
  BY LinkTypeInvariant, PTL DEF TypeInv

(* link->dhcp4_messages is the number of replies to routes that are still  *)
(* to come, so assert(link->dhcp4_messages > 0) of dhcp4_route_handler     *)
(* holds whenever a reply arrives, leases lost or changed meanwhile        *)
(* included.                                                               *)
THEOREM RouteRepliesAreCounted == LinkSpec => []RouteRepliesCounted
  BY LinkTypeInvariant, PTL DEF TypeInv

-----------------------------------------------------------------------------
(* Addresses.                                                              *)

(* A message that says whether the kernel has address a.                   *)
About(m, a) == m.type \in {"NEWADDR", "DELADDR"} /\ m.addr = a

(* Messages that do not.                                                   *)
Silent(q, a) == \A i \in 1 .. Len(q) : ~About(q[i], a)

(* The last one that does.                                                 *)
LastAbout(q, i, a) ==
  About(q[i], a) /\ \A j \in 1 .. Len(q) : j > i => ~About(q[j], a)

(* The record A of a is in step with the addresses K of the kernel: the    *)
(* last unread word about a is true, and if there is none the record is.   *)
InStep(q, A, K, a) ==
  /\ Silent(q, a) => (a \in K <=> A[a] # "absent")
  /\ \A i \in 1 .. Len(q) : LastAbout(q, i, a) => (a \in K <=> q[i].type = "NEWADDR")

(* A refused address, which will fail the link once read.                  *)
Refusal(m) == m.type = "ADDR_REPLY" /\ ~m.ok

(* Messages with a refusal among them.                                     *)
Refused(q) == \E i \in 1 .. Len(q) : Refusal(q[i])

(* The third inductive invariant. address_configure records an address     *)
(* before the kernel has agreed: until a refusal is read, and the link     *)
(* fails, the record may be wrong.                                         *)
SyncInv ==
  lstate # "FAILED" /\ ~Refused(queue) => \A a \in Addr : InStep(queue, addresses, kaddrs, a)

(* A refusal stays in the queue while more is queued,                      *)
LEMMA RefusedConcat ==
  ASSUME NEW S, NEW q \in Seq(S), NEW s \in Seq(S), Refused(q) \/ Refused(s)
  PROVE  Refused(q \o s)
<1>1. /\ Len(q \o s) = Len(q) + Len(s) /\ Len(q) \in Nat /\ Len(s) \in Nat
      /\ \A i \in 1 .. Len(q) : (q \o s)[i] = q[i]
      /\ \A i \in 1 .. Len(s) : (q \o s)[Len(q) + i] = s[i]
  BY ConcatOf
<1>2. CASE Refused(q)
  <2>1. PICK i \in 1 .. Len(q) : Refusal(q[i])
    BY <1>2 DEF Refused
  <2>2. i \in 1 .. Len(q \o s) /\ (q \o s)[i] = q[i]
    BY <1>1
  <2> QED BY <2>1, <2>2 DEF Refused
<1>3. CASE Refused(s)
  <2>1. PICK i \in 1 .. Len(s) : Refusal(s[i])
    BY <1>3 DEF Refused
  <2>2. Len(q) + i \in 1 .. Len(q \o s) /\ (q \o s)[Len(q) + i] = s[i]
    BY <1>1
  <2> QED BY <2>1, <2>2 DEF Refused
<1> QED BY <1>2, <1>3

(* and while other messages are read.                                      *)
LEMMA RefusedTail ==
  ASSUME NEW S, NEW q \in Seq(S), q # <<>>, ~Refusal(Head(q)), Refused(q)
  PROVE  Refused(Tail(q))
<1>1. /\ Len(q) \in Nat \ {0} /\ Len(Tail(q)) = Len(q) - 1 /\ Head(q) = q[1]
      /\ \A i \in 1 .. Len(q) - 1 : Tail(q)[i] = q[i + 1]
  BY TailOf
<1>2. PICK i \in 1 .. Len(q) : Refusal(q[i])
  BY DEF Refused
<1>3. i # 1
  BY <1>1, <1>2
<1>4. i - 1 \in 1 .. Len(Tail(q)) /\ (i - 1) + 1 = i /\ Tail(q)[i - 1] = q[(i - 1) + 1]
  BY <1>1, <1>3
<1> QED BY <1>2, <1>4 DEF Refused

(* Reading a message keeps a record in step if the handler writes down     *)
(* what the message says.                                                  *)
LEMMA InStepTail ==
  ASSUME NEW S, NEW q \in Seq(S), q # <<>>, NEW A, NEW B, NEW K, NEW a, InStep(q, A, K, a),
         About(Head(q), a) => (B[a] # "absent" <=> Head(q).type = "NEWADDR"),
         ~About(Head(q), a) => (B[a] # "absent" <=> A[a] # "absent")
  PROVE  InStep(Tail(q), B, K, a)
<1>1. /\ Len(q) \in Nat \ {0} /\ Len(Tail(q)) = Len(q) - 1 /\ Head(q) = q[1]
      /\ \A i \in 1 .. Len(q) - 1 : Tail(q)[i] = q[i + 1]
  BY TailOf
<1>2. ASSUME Silent(Tail(q), a) PROVE a \in K <=> B[a] # "absent"
  <2>1. \A j \in 2 .. Len(q) : ~About(q[j], a)
    <3> SUFFICES ASSUME NEW j \in 2 .. Len(q) PROVE ~About(q[j], a)
      OBVIOUS
    <3>1. j - 1 \in 1 .. Len(Tail(q)) /\ Tail(q)[j - 1] = q[(j - 1) + 1] /\ (j - 1) + 1 = j
      BY <1>1
    <3> QED BY <1>2, <3>1 DEF Silent
  <2>2. CASE About(Head(q), a)
    <3>1. 1 \in 1 .. Len(q) /\ LastAbout(q, 1, a)
      BY <1>1, <2>1, <2>2 DEF LastAbout
    <3> QED BY <1>1, <2>2, <3>1 DEF InStep
  <2>3. CASE ~About(Head(q), a)
    <3>1. Silent(q, a)
      BY <1>1, <2>1, <2>3 DEF Silent
    <3> QED BY <2>3, <3>1 DEF InStep
  <2> QED BY <2>2, <2>3
<1>3. ASSUME NEW i \in 1 .. Len(Tail(q)), LastAbout(Tail(q), i, a)
      PROVE  a \in K <=> Tail(q)[i].type = "NEWADDR"
  <2>1. i + 1 \in 1 .. Len(q) /\ Tail(q)[i] = q[i + 1]
    BY <1>1
  <2>2. ASSUME NEW j \in 1 .. Len(q), j > i + 1 PROVE ~About(q[j], a)
    <3>1. /\ j - 1 \in 1 .. Len(Tail(q)) /\ Tail(q)[j - 1] = q[(j - 1) + 1] /\ (j - 1) + 1 = j
          /\ j - 1 > i
      BY <1>1, <2>2
    <3> QED BY <1>3, <3>1 DEF LastAbout
  <2>3. LastAbout(q, i + 1, a)
    BY <1>3, <2>1, <2>2 DEF LastAbout
  <2> QED BY <2>1, <2>3 DEF InStep
<1> QED BY <1>2, <1>3 DEF InStep

(* So does queueing messages about other addresses,                        *)
LEMMA InStepSilent ==
  ASSUME NEW S, NEW q \in Seq(S), NEW s \in Seq(S), NEW A, NEW B, NEW K, NEW L, NEW a,
         InStep(q, A, K, a), Silent(s, a), a \in L <=> a \in K, B[a] # "absent" <=> A[a] # "absent"
  PROVE  InStep(q \o s, B, L, a)
<1>1. /\ Len(q \o s) = Len(q) + Len(s) /\ Len(q) \in Nat /\ Len(s) \in Nat
      /\ \A i \in 1 .. Len(q) : (q \o s)[i] = q[i]
      /\ \A i \in 1 .. Len(s) : (q \o s)[Len(q) + i] = s[i]
  BY ConcatOf
<1>2. ASSUME Silent(q \o s, a) PROVE a \in L <=> B[a] # "absent"
  <2>1. ASSUME NEW i \in 1 .. Len(q) PROVE ~About(q[i], a)
    <3>1. i \in 1 .. Len(q \o s) /\ (q \o s)[i] = q[i]
      BY <1>1
    <3> QED BY <1>2, <3>1 DEF Silent
  <2>2. Silent(q, a)
    BY <2>1 DEF Silent
  <2> QED BY <2>2 DEF InStep
<1>3. ASSUME NEW i \in 1 .. Len(q \o s), LastAbout(q \o s, i, a)
      PROVE  a \in L <=> (q \o s)[i].type = "NEWADDR"
  <2>1. i \in 1 .. Len(q)
    <3> SUFFICES ASSUME i > Len(q) PROVE FALSE
      BY <1>1
    <3>1. i - Len(q) \in 1 .. Len(s) /\ Len(q) + (i - Len(q)) = i
      BY <1>1
    <3>2. (q \o s)[i] = s[i - Len(q)]
      BY <1>1, <3>1
    <3> QED BY <1>3, <3>1, <3>2 DEF LastAbout, Silent
  <2>2. ASSUME NEW j \in 1 .. Len(q), j > i PROVE ~About(q[j], a)
    <3>1. j \in 1 .. Len(q \o s) /\ (q \o s)[j] = q[j]
      BY <1>1
    <3> QED BY <1>3, <2>2, <3>1 DEF LastAbout
  <2>3. (q \o s)[i] = q[i]
    BY <1>1, <2>1
  <2>4. LastAbout(q, i, a)
    BY <1>3, <2>2, <2>3 DEF LastAbout
  <2> QED BY <2>1, <2>3, <2>4 DEF InStep
<1> QED BY <1>2, <1>3 DEF InStep

(* and so does queueing a true word about this one.                        *)
LEMMA InStepTold ==
  ASSUME NEW S, NEW q \in Seq(S), NEW s \in Seq(S), NEW B, NEW L, NEW a,
         NEW k \in 1 .. Len(s), LastAbout(s, k, a), a \in L <=> s[k].type = "NEWADDR"
  PROVE  InStep(q \o s, B, L, a)
<1>1. /\ Len(q \o s) = Len(q) + Len(s) /\ Len(q) \in Nat /\ Len(s) \in Nat
      /\ \A i \in 1 .. Len(q) : (q \o s)[i] = q[i]
      /\ \A i \in 1 .. Len(s) : (q \o s)[Len(q) + i] = s[i]
  BY ConcatOf
<1>2. Len(q) + k \in 1 .. Len(q \o s) /\ (q \o s)[Len(q) + k] = s[k] /\ About(s[k], a)
  BY <1>1 DEF LastAbout
<1>3. ~Silent(q \o s, a)
  BY <1>2 DEF Silent
<1>4. ASSUME NEW i \in 1 .. Len(q \o s), LastAbout(q \o s, i, a)
      PROVE  a \in L <=> (q \o s)[i].type = "NEWADDR"
  <2>1. ~(Len(q) + k > i)
    BY <1>2, <1>4 DEF LastAbout
  <2>2. ASSUME i > Len(q) + k PROVE FALSE
    <3>1. i - Len(q) \in 1 .. Len(s) /\ Len(q) + (i - Len(q)) = i /\ i - Len(q) > k
      BY <1>1, <2>2
    <3>2. (q \o s)[i] = s[i - Len(q)]
      BY <1>1, <3>1
    <3> QED BY <1>4, <3>1, <3>2 DEF LastAbout
  <2>3. i = Len(q) + k
    <3>1. i \in Int /\ Len(q) + k \in Int
      BY <1>1
    <3> HIDE <1>4
    <3> QED BY <2>1, <2>2, <3>1
  <2> QED BY <1>2, <2>3
<1> QED BY <1>3, <1>4 DEF InStep

(* Carrier notifications and replies are about no address.                 *)
LEMMA NotAbout ==
  ASSUME NEW m, m.type \notin {"NEWADDR", "DELADDR"}, NEW a
  PROVE  ~About(m, a)
  BY DEF About

(* address_remove: the kernel drops the address and says so.               *)
LEMMA RemovalInStep ==
  ASSUME LinkTypeOK, NEW q \in Seq(NetlinkMessage), NEW A, NEW x, NEW a, InStep(q, A, kaddrs, a)
  PROVE  InStep(q \o Removal(x), A, kaddrs \ {x}, a)
<1>1. Removal(x) \in Seq(NetlinkMessage)
  BY RemovalType
<1>2. CASE x \in kaddrs /\ x = a
  <2>1. PICK m \in NetlinkMessage : m = DelAddr(a) /\ m.type = "DELADDR" /\ m.addr = a
    BY <1>2, MessageForms DEF LinkTypeOK, DelAddr
  <2>2. Removal(x) = <<m>>
    BY <1>2, <2>1 DEF Removal
  <2>3. PICK s \in Seq(NetlinkMessage) : s = <<m>>
    BY <1>1, <2>2
  <2>4. Len(s) = 1 /\ s[1] = m
    BY <2>3
  <2>5. 1 \in 1 .. Len(s) /\ LastAbout(s, 1, a)
    BY <2>1, <2>4 DEF LastAbout, About
  <2>6. a \in kaddrs \ {x} <=> s[1].type = "NEWADDR"
    BY <1>2, <2>1, <2>4
  <2>7. InStep(q \o s, A, kaddrs \ {x}, a)
    BY <2>5, <2>6, InStepTold
  <2> QED BY <2>2, <2>3, <2>7
<1>3. CASE x \in kaddrs /\ x # a
  <2>1. PICK m \in NetlinkMessage : m = DelAddr(x) /\ m.type = "DELADDR" /\ m.addr = x
    BY <1>3, MessageForms DEF LinkTypeOK, DelAddr
  <2>2. Removal(x) = <<m>>
    BY <1>3, <2>1 DEF Removal
  <2>3. PICK s \in Seq(NetlinkMessage) : s = <<m>>
    BY <1>1, <2>2
  <2>4. Silent(s, a)
    BY <1>3, <2>1, <2>3 DEF Silent, About
  <2>5. InStep(q \o s, A, kaddrs \ {x}, a)
    BY <1>3, <2>4, InStepSilent
  <2> QED BY <2>2, <2>3, <2>5
<1>4. CASE x \notin kaddrs
  <2>1. Removal(x) = <<>> /\ kaddrs \ {x} = kaddrs
    BY <1>4 DEF Removal
  <2>2. q \o <<>> = q
    OBVIOUS
  <2> QED BY <2>1, <2>2
<1> QED BY <1>2, <1>3, <1>4

(* dhcp_lease_lost keeps every address in step,                            *)
LEMMA LostInStep ==
  ASSUME LinkTypeOK, NEW q \in Seq(NetlinkMessage), NEW lost \in BOOLEAN, dhcp_lease_lost(lost, q),
         NEW A, NEW a, InStep(q, A, kaddrs, a)
  PROVE  InStep(queue', A, kaddrs', a)
<1>1. CASE lost
  <2>1. queue' = q \o Removal(AddrOf[dhcp_lease]) /\ kaddrs' = kaddrs \ {AddrOf[dhcp_lease]}
    BY <1>1 DEF dhcp_lease_lost
  <2> QED BY <2>1, RemovalInStep
<1>2. CASE ~lost
  BY <1>2 DEF dhcp_lease_lost
<1> QED BY <1>1, <1>2

(* and every refusal in the queue.                                         *)
LEMMA LostRefused ==
  ASSUME LinkTypeOK, NEW q \in Seq(NetlinkMessage), NEW lost, dhcp_lease_lost(lost, q), Refused(q)
  PROVE  Refused(queue')
<1>1. Removal(AddrOf[dhcp_lease]) \in Seq(NetlinkMessage)
  BY RemovalType
<1>2. queue' = q \o Removal(AddrOf[dhcp_lease]) \/ queue' = q
  BY DEF dhcp_lease_lost
<1> QED BY <1>1, <1>2, RefusedConcat

(* A link starts with no address anywhere.                                 *)
LEMMA SyncInit == LinkInit => SyncInv
  BY DEF LinkInit, SyncInv, InStep, Silent

(* Reading a message that is about no address.                             *)
LEMMA ReadNotAbout ==
  ASSUME TypeInv, queue # <<>>, Head(queue).type \notin {"NEWADDR", "DELADDR"}, ~Refusal(Head(queue)),
         ~Refused(Tail(queue)), lstate # "FAILED", SyncInv, NEW a \in Addr
  PROVE  InStep(Tail(queue), addresses, kaddrs, a)
<1>1. queue \in Seq(NetlinkMessage)
  BY DEF TypeInv
<1>2. ~Refused(queue)
  BY <1>1, RefusedTail
<1>3. InStep(queue, addresses, kaddrs, a)
  BY <1>2 DEF SyncInv
<1>4. ~About(Head(queue), a)
  BY NotAbout
<1> QED BY <1>1, <1>3, <1>4, InStepTail

(* One lemma per action for SyncInv: a carrier notification,               *)
LEMMA CarrierSync == ASSUME TypeInv, SyncInv, link_update PROVE SyncInv'
<1>1. /\ LinkTypeOK /\ queue \in Seq(NetlinkMessage) /\ queue # <<>> /\ Head(queue).type = "NEWLINK"
      /\ UNCHANGED addresses
  BY DEF TypeInv, link_update, Received
<1>2. Tail(queue) \in Seq(NetlinkMessage) /\ ~Refusal(Head(queue))
  BY <1>1, TailOf DEF Refusal
<1> SUFFICES ASSUME lstate' # "FAILED", ~Refused(queue'), NEW a \in Addr
             PROVE  InStep(queue', addresses', kaddrs', a)
  BY DEF SyncInv
<1>3. ~Refused(Tail(queue)) /\ lstate # "FAILED" => InStep(Tail(queue), addresses, kaddrs, a)
  BY <1>1, <1>2, ReadNotAbout
<1>4. CASE link_carrier_gained
  <2>1. queue' = Tail(queue) /\ kaddrs' = kaddrs /\ lstate # "FAILED"
    BY <1>4 DEF link_carrier_gained
  <2> QED BY <1>1, <1>3, <2>1
<1>5. CASE link_carrier_lost
  <2>1. PICK lost \in BOOLEAN : dhcp_lease_lost(lost, Tail(queue))
    BY <1>5 DEF link_carrier_lost
  <2>2. ~Refused(Tail(queue)) /\ lstate # "FAILED"
    BY <1>1, <1>2, <1>5, <2>1, LostRefused DEF link_carrier_lost
  <2> QED BY <1>1, <1>2, <1>3, <2>1, <2>2, LostInStep
<1>6. CASE queue' = Tail(queue) /\ UNCHANGED <<lstate, configVars, kaddrs>>
  BY <1>1, <1>3, <1>6
<1> QED BY <1>4, <1>5, <1>6 DEF link_update

(* an address notification,                                                *)
LEMMA AddressSync == ASSUME TypeInv, SyncInv, address_update \/ address_drop PROVE SyncInv'
<1>1. /\ queue \in Seq(NetlinkMessage) /\ queue # <<>> /\ Head(queue).type \in {"NEWADDR", "DELADDR"}
      /\ queue' = Tail(queue) /\ kaddrs' = kaddrs /\ addresses \in [Addr -> AddressStates]
  BY DEF TypeInv, LinkTypeOK, address_update, address_drop, Received
<1>2. ~Refusal(Head(queue)) /\ Head(queue).addr \in Addr
  BY <1>1, TailOf, MessageHeads DEF Refusal
<1>3. lstate' # "FAILED" => lstate # "FAILED"
  <2>1. UNCHANGED lstate \/ \E conf, addrs : link_check_ready(lstate, conf, addrs)
    BY DEF address_update, address_drop
  <2> QED BY <2>1 DEF link_check_ready
<1> SUFFICES ASSUME lstate' # "FAILED", ~Refused(queue'), NEW a \in Addr
             PROVE  InStep(queue', addresses', kaddrs', a)
  BY DEF SyncInv
<1>4. InStep(queue, addresses, kaddrs, a)
  BY <1>1, <1>2, <1>3, RefusedTail DEF SyncInv
<1>5. PICK s : /\ addresses' = [addresses EXCEPT ![Head(queue).addr] = s]
               /\ s # "absent" <=> Head(queue).type = "NEWADDR"
  <2>1. CASE address_update
    <3>1. \E s \in {"foreign", "ready"} : addresses' = [addresses EXCEPT ![Head(queue).addr] = s]
      BY <2>1 DEF address_update
    <3>2. Head(queue).type = "NEWADDR"
      BY <2>1 DEF address_update, Received
    <3> QED BY <3>1, <3>2
  <2>2. CASE address_drop
    BY <2>2 DEF address_drop, Received
  <2> QED BY <2>1, <2>2
<1>6. /\ About(Head(queue), a) => (addresses'[a] # "absent" <=> Head(queue).type = "NEWADDR")
      /\ ~About(Head(queue), a) => (addresses'[a] # "absent" <=> addresses[a] # "absent")
  BY <1>1, <1>2, <1>5 DEF About
<1> QED BY <1>1, <1>4, <1>6, InStepTail

(* a reply (a refused one fails the link),                                 *)
LEMMA ReplySync == ASSUME TypeInv, SyncInv, dhcp4_address_handler \/ dhcp4_route_handler PROVE SyncInv'
<1>1. /\ queue \in Seq(NetlinkMessage) /\ queue # <<>>
      /\ Head(queue).type \in {"ADDR_REPLY", "ROUTE_REPLY"}
      /\ kaddrs' = kaddrs /\ addresses' = addresses
  BY DEF TypeInv, dhcp4_address_handler, dhcp4_route_handler, Received
<1>2. Tail(queue) \in Seq(NetlinkMessage)
  BY <1>1, TailOf
<1> SUFFICES ASSUME lstate' # "FAILED", ~Refused(queue'), NEW a \in Addr
             PROVE  InStep(queue', addresses', kaddrs', a)
  BY DEF SyncInv
<1>3. lstate # "FAILED" /\ Head(queue).ok
  <2>1. FailIf(~Head(queue).ok) # "FAILED"
    <3>1. \/ lstate' = FailIf(~Head(queue).ok)
          \/ \E conf, addrs : link_check_ready(FailIf(~Head(queue).ok), conf, addrs)
      BY DEF dhcp4_address_handler, dhcp4_route_handler
    <3> QED BY <3>1 DEF link_check_ready
  <2> QED BY <2>1 DEF FailIf
<1>4. PICK s \in Seq(NetlinkMessage) :
        queue' = Tail(queue) \o s /\ \A i \in 1 .. Len(s) : s[i].type = "ROUTE_REPLY"
  <2>1. CASE queue' = Tail(queue)
    <3>1. PICK s \in Seq(NetlinkMessage) : s = <<>> /\ Len(s) = 0
      BY ShortSequences
    <3>2. queue' = Tail(queue) \o s /\ 1 .. Len(s) = {}
      BY <1>2, <2>1, <3>1
    <3> QED BY <3>2
  <2>2. CASE dhcp_lease # NoLease /\ dhcp4_address_handler
    <3>1. LinkTypeOK
      BY DEF TypeInv
    <3>2. PICK replies \in RouteReplies(RoutesOf[dhcp_lease], AddrOf[dhcp_lease]) :
            queue' = Tail(queue) \o replies
      BY <2>2 DEF dhcp4_address_handler
    <3> QED BY <2>2, <3>1, <3>2, RouteRepliesType
  <2> QED BY <2>1, <2>2 DEF dhcp4_address_handler, dhcp4_route_handler
<1>5. ~Refused(Tail(queue)) /\ ~Refusal(Head(queue))
  BY <1>2, <1>3, <1>4, RefusedConcat DEF Refusal
<1>6. InStep(Tail(queue), addresses, kaddrs, a)
  BY <1>1, <1>3, <1>5, ReadNotAbout
<1>7. Silent(s, a)
  BY <1>4, NotAbout DEF Silent
<1> QED BY <1>1, <1>2, <1>4, <1>6, <1>7, InStepSilent

(* a lease that is granted: the old address is removed before the new one  *)
(* is added, which may be the same,                                        *)
LEMMA GrantSync ==
  ASSUME TypeInv, SyncInv, NEW l \in Lease, NEW ok \in Answers, LeaseGranted(l, ok)
  PROVE  SyncInv'
<1> DEFINE a == AddrOf[l]
           lost == GrantEvent(l) = "IP_CHANGE" /\ dhcp_lease # NoLease
           x == AddrOf[dhcp_lease]
           q == queue \o (IF lost THEN Removal(x) ELSE <<>>)
           K == IF lost THEN kaddrs \ {x} ELSE kaddrs
<1>1. /\ LinkTypeOK /\ queue \in Seq(NetlinkMessage) /\ a \in Addr /\ ok \in BOOLEAN
      /\ addresses \in [Addr -> AddressStates]
  BY LinkAssumption, AnswersType, LinkFields DEF TypeInv
<1>2. /\ queue' = q \o Addition(a, ok) /\ lstate' = lstate
      /\ kaddrs' = K \cup (IF ok THEN {a} ELSE {})
  BY DEF LeaseGranted
<1>3. /\ Addition(a, ok) \in Seq(NetlinkMessage)
      /\ q \in Seq(NetlinkMessage)
  <2>1. (IF lost THEN Removal(x) ELSE <<>>) \in Seq(NetlinkMessage)
    BY <1>1, RemovalType
  <2> QED BY <1>1, <2>1, AdditionType, ConcatOf
<1> SUFFICES ASSUME lstate' # "FAILED", ~Refused(queue'), NEW b \in Addr
             PROVE  InStep(queue', addresses', kaddrs', b)
  BY DEF SyncInv
<1>4. ~Refused(q) /\ ~Refused(Addition(a, ok))
  <2> HIDE DEF q
  <2> QED BY <1>2, <1>3, RefusedConcat
<1>5. ~Refused(queue)
  <2>1. CASE lost
    BY <1>1, <1>4, <2>1, RemovalType, RefusedConcat
  <2>2. CASE ~lost
    <3>1. queue \o <<>> = queue
      BY <1>1
    <3> QED BY <1>4, <2>2, <3>1
  <2> QED BY <2>1, <2>2
<1>6. InStep(q, addresses, K, b)
  <2>1. InStep(queue, addresses, kaddrs, b)
    BY <1>2, <1>5 DEF SyncInv
  <2>2. CASE lost
    BY <1>1, <2>1, <2>2, RemovalInStep
  <2>3. CASE ~lost
    <3>1. queue \o <<>> = queue
      BY <1>1
    <3> QED BY <2>1, <2>3, <3>1
  <2> QED BY <2>2, <2>3
<1>7. PICK m \in NetlinkMessage, y \in NetlinkMessage :
        /\ m = NewAddr(a) /\ m.type = "NEWADDR" /\ m.addr = a
        /\ y = AddrReply(TRUE) /\ y.type = "ADDR_REPLY"
  <2>1. NewAddr(a).type = "NEWADDR" /\ NewAddr(a).addr = a /\ AddrReply(TRUE).type = "ADDR_REPLY"
    BY DEF NewAddr, AddrReply
  <2> QED BY <1>1, <2>1, MessageForms
<1>8. ok = TRUE
  <2> SUFFICES ASSUME ok = FALSE PROVE FALSE
    BY <1>1
  <2>1. AddrReply(FALSE) \in NetlinkMessage /\ Refusal(AddrReply(FALSE))
    BY MessageForms DEF AddrReply, Refusal
  <2>2. PICK z \in NetlinkMessage : z = AddrReply(FALSE) /\ Refusal(z)
    BY <2>1
  <2>3. PICK s \in Seq(NetlinkMessage) : s = <<z>> /\ Len(s) = 1 /\ s[1] = z
    BY ShortSequences
  <2>4. Addition(a, ok) = s
    BY <2>2, <2>3 DEF Addition
  <2>5. 1 \in 1 .. Len(s)
    BY <2>3
  <2>6. Refusal(s[1])
    BY <2>2, <2>3, Zenon
  <2> QED BY <1>4, <2>4, <2>5, <2>6, Zenon DEF Refused
<1>9. Addition(a, ok) = <<m, y>>
  BY <1>7, <1>8 DEF Addition
<1>10. PICK s \in Seq(NetlinkMessage) : s = <<m, y>> /\ Len(s) = 2 /\ s[1] = m /\ s[2] = y
  BY ShortSequences
<1>11. 1 \in 1 .. Len(s) /\ \A i \in 1 .. Len(s) : i = 1 \/ (i = 2 /\ i > 1)
  BY <1>10
<1>12. queue' = q \o s /\ kaddrs' = K \cup {a}
  BY <1>2, <1>8, <1>9, <1>10
<1>13. ~About(y, b)
  BY <1>7, NotAbout
<1> HIDE DEF q, K
<1>14. CASE b = a
  <2>1. LastAbout(s, 1, b)
    <3>1. About(s[1], b)
      BY <1>7, <1>10, <1>14 DEF About
    <3>2. \A i \in 1 .. Len(s) : i > 1 => ~About(s[i], b)
      BY <1>10, <1>11, <1>13
    <3> QED BY <3>1, <3>2 DEF LastAbout
  <2>2. b \in kaddrs' <=> s[1].type = "NEWADDR"
    BY <1>7, <1>10, <1>12, <1>14
  <2> QED BY <1>3, <1>11, <1>12, <2>1, <2>2, InStepTold
<1>15. CASE b # a
  <2>1. Silent(s, b)
    <3>1. ~About(m, b)
      BY <1>7, <1>15 DEF About
    <3> QED BY <1>10, <1>11, <1>13, <3>1 DEF Silent
  <2>2. addresses'[b] = addresses[b]
    BY <1>1, <1>15 DEF LeaseGranted, address_add
  <2>3. b \in kaddrs' <=> b \in K
    BY <1>12, <1>15
  <2> QED BY <1>3, <1>6, <1>12, <2>1, <2>2, <2>3, InStepSilent
<1> QED BY <1>14, <1>15

(* a lease that is lost,                                                   *)
LEMMA LoseSync ==
  ASSUME TypeInv, SyncInv, (\E l \in Lease : LeaseUnreadable(l)) \/ LeaseExpired
  PROVE  SyncInv'
<1>1. CASE \E l \in Lease : LeaseUnreadable(l)
  BY <1>1 DEF LeaseUnreadable, SyncInv
<1>2. CASE LeaseExpired
  <2>1. PICK lost \in BOOLEAN : dhcp_lease_lost(lost, queue)
    BY <1>2 DEF LeaseExpired
  <2>2. /\ UNCHANGED <<lstate, addresses>>
        /\ LinkTypeOK /\ queue \in Seq(NetlinkMessage)
    BY <1>2 DEF LeaseExpired, TypeInv
  <2> QED BY <2>1, <2>2, LostRefused, LostInStep DEF SyncInv
<1> QED BY <1>1, <1>2

(* an event of the kernel,                                                 *)
LEMMA KernelSync ==
  ASSUME TypeInv, SyncInv, CarrierChanges \/ \E a \in Addr : AddressExpires(a)
  PROVE  SyncInv'
<1>1. /\ LinkTypeOK /\ queue \in Seq(NetlinkMessage) /\ UNCHANGED <<lstate, addresses>>
  BY DEF TypeInv, CarrierChanges, AddressExpires, linkVars
<1>2. CASE CarrierChanges
  <2>1. PICK m \in NetlinkMessage : m = NewLink(~kcarrier) /\ m.type = "NEWLINK"
    <3>1. (~kcarrier) \in BOOLEAN /\ NewLink(~kcarrier).type = "NEWLINK"
      BY DEF NewLink
    <3> QED BY <3>1, MessageForms
  <2>2. PICK s \in Seq(NetlinkMessage) : s = <<m>> /\ Len(s) = 1 /\ s[1] = m
    BY ShortSequences
  <2>3. queue' = queue \o s /\ kaddrs' = kaddrs
    BY <1>1, <1>2, <2>1, <2>2 DEF CarrierChanges
  <2>4. \A a : Silent(s, a)
    BY <2>1, <2>2, NotAbout DEF Silent
  <2> QED BY <1>1, <2>3, <2>4, RefusedConcat, InStepSilent DEF SyncInv
<1>3. CASE \E a \in Addr : AddressExpires(a)
  <2>1. PICK a \in Addr : AddressExpires(a)
    BY <1>3
  <2>2. queue' = queue \o Removal(a) /\ kaddrs' = kaddrs \ {a}
    <3>1. queue' = Append(queue, DelAddr(a)) /\ kaddrs' = kaddrs \ {a} /\ Removal(a) = <<DelAddr(a)>>
      BY <2>1 DEF AddressExpires, Removal
    <3>2. DelAddr(a) \in NetlinkMessage
      BY MessageForms
    <3> QED BY <1>1, <3>1, <3>2
  <2> QED BY <1>1, <2>2, RemovalType, RefusedConcat, RemovalInStep DEF SyncInv
<1> QED BY <1>2, <1>3

(* and a step that touches no address.                                     *)
LEMMA QuietSync ==
  ASSUME TypeInv, SyncInv, link_configure \/ ClientAlone \/ UNCHANGED vars
  PROVE  SyncInv'
<1>1. UNCHANGED <<addresses, kaddrs, queue>> /\ (lstate' # "FAILED" => lstate # "FAILED")
  BY DEF link_configure, ClientAlone, vars, linkVars, kernelVars
<1> QED BY <1>1 DEF SyncInv

(* Every step of a link keeps SyncInv.                                     *)
LEMMA SyncNext == TypeInv /\ SyncInv /\ [LinkNext]_vars => SyncInv'
<1> SUFFICES ASSUME TypeInv, SyncInv, [LinkNext]_vars PROVE SyncInv'
  OBVIOUS
<1>1. CASE Dispatch
  BY <1>1, CarrierSync, AddressSync, ReplySync DEF Dispatch
<1>2. CASE \E l \in Lease, ok \in Answers : LeaseGranted(l, ok)
  BY <1>2, GrantSync
<1> QED
  BY <1>1, <1>2, LoseSync, KernelSync, QuietSync DEF LinkNext

(* An empty queue has nothing left to say.                                 *)
LEMMA SyncDrained == SyncInv => AddressesInSync
<1> SUFFICES ASSUME SyncInv, lstate # "FAILED", queue = <<>>, NEW a \in Addr
             PROVE  a \in kaddrs <=> addresses[a] # "absent"
  BY DEF AddressesInSync
<1>1. Len(queue) = 0
  OBVIOUS
<1>2. ~Refused(queue) /\ Silent(queue, a)
  BY <1>1 DEF Refused, Silent
<1> QED BY <1>2 DEF SyncInv, InStep

(* Once the netlink socket is drained, the addresses on record are those   *)
(* of the kernel (address_update, address_drop, address_add).              *)
THEOREM LinkAddressesInSync == LinkSpec => []AddressesInSync
<1>1. TypeInv /\ SyncInv /\ [LinkNext]_vars => (TypeInv /\ SyncInv)'
  BY TypeNext, SyncNext
<1> QED
  BY TypeInit, SyncInit, SyncDrained, <1>1, PTL DEF LinkSpec

-----------------------------------------------------------------------------
(* The analyzer's periods.                                                 *)

(* Nothing has been parsed of a link that is not configured yet.           *)
Untouched ==
  lstate = "PENDING" => rm = "LOST_CARRIER" /\ started = FALSE /\ rm_failed = "none"

(* The fourth inductive invariant.                                         *)
ReportInv == TypeInv /\ LinkInv /\ Untouched /\ started \in BOOLEAN /\ PeriodsMatch

(* The parser only watches: a step of the report is a step of the link.    *)
LEMMA ReportStep == [ReportNext]_reportVars => [LinkNext]_vars
  BY DEF ReportNext, ReportDispatch, LinkNext, Dispatch, reportVars

(* Before the first line no period is open.                                *)
LEMMA ReportInitInv == ReportInit => ReportInv
<1> SUFFICES ASSUME ReportInit PROVE ReportInv
  OBVIOUS
<1>1. TypeInv /\ LinkInv
  BY TypeInit, LinkInitInv DEF ReportInit
<1>2. Untouched /\ started \in BOOLEAN /\ PeriodsMatch
  BY DEF ReportInit, ParserInit, LinkInit, Untouched, PeriodsMatch
<1> QED BY <1>1, <1>2 DEF ReportInv

(* A step that logs nothing, keeps the carrier and grants no lease.        *)
LEMMA SkipInv ==
  ASSUME ReportInv, Skip, carrier' = carrier, lstate' # "PENDING" \/ lstate' = lstate,
         lstate' \notin {"PENDING", "FAILED"} => lstate \notin {"PENDING", "FAILED"},
         phase' = "bound" => phase = "bound" /\ holding' = holding
  PROVE  Untouched' /\ (started \in BOOLEAN)' /\ PeriodsMatch'
<1>1. UNCHANGED <<rm, started, rm_failed>>
  BY DEF Skip, parserVars
<1>2. Untouched' /\ started' \in BOOLEAN
  BY <1>1 DEF ReportInv, Untouched
<1>3. PeriodsMatch'
  BY <1>1 DEF ReportInv, PeriodsMatch
<1> QED BY <1>2, <1>3

(* Configuring a link with carrier opens a period (link_acquire_conf).     *)
LEMMA ConfigurePeriods ==
  ASSUME ReportInv, link_configure, LogConfigure
  PROVE  Untouched' /\ (started \in BOOLEAN)' /\ PeriodsMatch'
<1>1. /\ lstate = "PENDING" /\ carrier' = carrier /\ carrier \in BOOLEAN
      /\ rm = "LOST_CARRIER" /\ started = FALSE /\ rm_failed = "none" /\ phase = "idle"
  BY LinkFields DEF link_configure, ReportInv, TypeInv, LinkInv, QuietWithoutCarrier, Untouched
<1>2. lstate' # "PENDING" /\ phase' # "bound"
  BY <1>1 DEF link_configure, Start, serviceVars
<1>3. CASE carrier
  BY <1>1, <1>2, <1>3 DEF LogConfigure, Acquiring, Asserts, Untouched, PeriodsMatch
<1>4. CASE ~carrier
  BY <1>1, <1>2, <1>4 DEF LogConfigure, Skip, parserVars, Untouched, PeriodsMatch
<1> QED BY <1>3, <1>4

(* A carrier gained opens a period, a carrier lost closes it.              *)
LEMMA CarrierPeriods ==
  ASSUME ReportInv, link_update, LogCarrier
  PROVE  Untouched' /\ (started \in BOOLEAN)' /\ PeriodsMatch'
<1>1. lstate # "PENDING" /\ carrier \in BOOLEAN /\ started \in BOOLEAN
  BY LinkFields DEF ReportInv, TypeInv, link_update, Received, Running
<1>2. CASE ~carrier /\ carrier' /\ link_carrier_gained
  <2>1. CASE lstate = "FAILED"
    BY <1>1, <1>2, <2>1 DEF LogCarrier, Skip, parserVars, link_carrier_gained, ReportInv, Untouched,
                            PeriodsMatch
  <2>2. CASE lstate # "FAILED"
    <3>1. lstate' # "PENDING" /\ phase' # "bound"
      BY <1>1, <1>2, <2>2 DEF link_carrier_gained, Start, FailIf
    <3>2. Acquiring
      BY <1>2, <2>2 DEF LogCarrier
    <3> QED BY <1>1, <1>2, <2>2, <3>1, <3>2
            DEF Acquiring, Asserts, Skip, parserVars, ReportInv, Untouched, PeriodsMatch
  <2> QED BY <2>1, <2>2
<1>3. CASE carrier /\ ~carrier' /\ link_carrier_lost
  <2>1. lstate' = lstate /\ phase' = "idle"
    BY <1>3 DEF link_carrier_lost, Stop
  <2>2. LostCarrier
    BY <1>3 DEF LogCarrier
  <2> QED BY <1>1, <1>3, <2>1, <2>2
          DEF LostCarrier, Asserts, Skip, parserVars, ReportInv, Untouched, PeriodsMatch
<1>4. CASE carrier' = carrier /\ UNCHANGED <<lstate, serviceVars, configVars, kaddrs>>
  <2>1. Skip
    BY <1>1, <1>4 DEF LogCarrier
  <2> QED BY <1>1, <1>4, <2>1, SkipInv DEF serviceVars
<1> QED BY <1>2, <1>3, <1>4 DEF link_update

(* A lease with a router gives the open period its address; a renewed one  *)
(* has given it already.                                                   *)
LEMMA GrantPeriods ==
  ASSUME ReportInv, NEW l \in Lease, NEW ok \in Answers, LeaseGranted(l, ok), LogGrant(l)
  PROVE  Untouched' /\ (started \in BOOLEAN)' /\ PeriodsMatch'
<1>1. /\ lstate \notin {"PENDING", "FAILED"} /\ UNCHANGED <<lstate, carrier>>
      /\ phase \in {"asking", "bound"} /\ phase' = "bound" /\ holding' = l
      /\ started \in BOOLEAN /\ carrier \in BOOLEAN
  BY LinkFields DEF LeaseGranted, Running, Grant, ReportInv, TypeInv
<1>2. carrier
  BY <1>1 DEF ReportInv, LinkInv, QuietWithoutCarrier
<1>3. CASE GrantEvent(l) # "RENEW" /\ RoutesOf[l] # 0
  <2>1. AddressVia
    BY <1>3 DEF LogGrant
  <2> QED BY <1>1, <1>2, <2>1
          DEF AddressVia, Asserts, Skip, parserVars, ReportInv, Untouched, PeriodsMatch
<1>4. CASE ~(GrantEvent(l) # "RENEW" /\ RoutesOf[l] # 0)
  <2>1. UNCHANGED <<rm, started, rm_failed>>
    BY <1>4 DEF LogGrant, Skip, parserVars
  <2>2. RoutesOf[l] # 0 => phase = "bound" /\ l = holding
    BY <1>1, <1>4 DEF GrantEvent
  <2> QED BY <1>1, <1>2, <2>1, <2>2 DEF ReportInv, Untouched, PeriodsMatch
<1> QED BY <1>3, <1>4

(* The steps that log nothing neither change the carrier nor grant a       *)
(* lease.                                                                  *)
LEMMA SilentPeriods ==
  ASSUME ReportInv, Skip,
         \/ address_update \/ address_drop \/ dhcp4_address_handler \/ dhcp4_route_handler
         \/ (\E l \in Lease : LeaseUnreadable(l)) \/ LeaseExpired \/ ClientAlone
         \/ CarrierChanges \/ (\E a \in Addr : AddressExpires(a))
  PROVE  Untouched' /\ (started \in BOOLEAN)' /\ PeriodsMatch'
<1>1. carrier' = carrier /\ lstate # "PENDING"
  BY DEF address_update, address_drop, dhcp4_address_handler, dhcp4_route_handler, LeaseUnreadable,
         LeaseExpired, ClientAlone, CarrierChanges, AddressExpires, Received, Running, linkVars
<1>2. lstate' # "PENDING" /\ (lstate' # "FAILED" => lstate # "FAILED")
  <2>1. \/ UNCHANGED lstate \/ lstate' = "FAILED" \/ lstate' = FailIf(~Head(queue).ok)
        \/ \E conf, addrs : link_check_ready(lstate, conf, addrs)
        \/ \E conf, addrs : link_check_ready(FailIf(~Head(queue).ok), conf, addrs)
    BY DEF address_update, address_drop, dhcp4_address_handler, dhcp4_route_handler, LeaseUnreadable,
         LeaseExpired, ClientAlone, CarrierChanges, AddressExpires, linkVars
  <2> QED BY <1>1, <2>1 DEF link_check_ready, FailIf
<1>3. phase' = "bound" => phase = "bound" /\ holding' = holding
  <2>1. UNCHANGED serviceVars \/ Stop \/ StartOver \/ Ask
    BY Zenon DEF address_update, address_drop, dhcp4_address_handler, dhcp4_route_handler,
         LeaseUnreadable, LeaseExpired, ClientAlone, CarrierChanges, AddressExpires, StopIfFailed
  <2> QED BY <2>1 DEF serviceVars, Stop, StartOver, Ask
<1> QED BY <1>1, <1>2, <1>3, SkipInv

(* Every step of the report keeps ReportInv.                               *)
LEMMA ReportNextInv == ReportInv /\ [ReportNext]_reportVars => ReportInv'
<1> SUFFICES ASSUME ReportInv, [ReportNext]_reportVars PROVE ReportInv'
  OBVIOUS
<1>1. TypeInv' /\ LinkInv'
  BY ReportStep, TypeNext, LinkNextInv DEF ReportInv
<1>2. Untouched' /\ (started \in BOOLEAN)' /\ PeriodsMatch'
  <2>1. CASE UNCHANGED reportVars
    BY <2>1, SkipInv DEF reportVars, vars, linkVars, serviceVars, Skip
  <2>2. CASE link_configure /\ LogConfigure
    BY <2>2, ConfigurePeriods
  <2>3. CASE ReportDispatch
    BY <2>3, CarrierPeriods, SilentPeriods DEF ReportDispatch
  <2>4. CASE \E l \in Lease, ok \in Answers : LeaseGranted(l, ok) /\ LogGrant(l)
    BY <2>4, GrantPeriods
  <2>5. CASE /\ \/ \E l \in Lease : LeaseUnreadable(l)
                \/ LeaseExpired \/ ClientAlone \/ CarrierChanges
                \/ \E a \in Addr : AddressExpires(a)
             /\ Skip
    BY <2>5, SilentPeriods
  <2> QED BY <2>1, <2>2, <2>3, <2>4, <2>5 DEF ReportNext
<1> QED BY <1>1, <1>2 DEF ReportInv

(* The periods RMParser.parse reports are those of the link: open exactly  *)
(* while it has its carrier, with an address once it has a lease with a    *)
(* router; the assertion of roamingd.py:70 never fails.                    *)
THEOREM ReportedPeriodsMatch == ReportSpec => []PeriodsMatch
<1>1. ReportInv => PeriodsMatch
  BY DEF ReportInv
<1> QED BY <1>1, ReportInitInv, ReportNextInv, PTL DEF ReportSpec

=============================================================================
