----------------------------- MODULE DhcpServer -----------------------------
(***************************************************************************)
(* The DHCPv4 server of roamingd, src/dhcp/sd-dhcp-server.c.  It answers   *)
(* each message in one handler.  An OFFER reserves nothing; only an ACK    *)
(* enters the lease in bound_leases (by offset into the pool) and in       *)
(* leases_by_client_id.  A lease is never dropped but by a RELEASE: its    *)
(* expiration is written and not read.                                     *)
(*                                                                         *)
(* Addresses are counted from the subnet address, whose own low bits are 0;*)
(* INADDR_ANY is 0.0.0.0.                                                  *)
(***************************************************************************)
EXTENDS Integers

CONSTANTS
  Client,      \* client ids
  Hash,        \* siphash24 of a client id
  Nobody,      \* NULL in bound_leases
  Reserved,    \* &server->invalid_lease
  NoEntry,     \* no lease in leases_by_client_id
  Broadcast,   \* be32toh(~netmask): the offset of the last address
  Width,       \* the width of uint32_t, scaled down
  SendErrors   \* TRUE if a packet may fail to be sent

INADDR_ANY == 0

ASSUME ServerAssumption ==
  /\ Hash \in [Client -> Nat]
  /\ Nobody \notin Client /\ Reserved \notin Client /\ Nobody # Reserved
  /\ NoEntry \notin Nat
  /\ Broadcast \in Nat /\ Width \in Nat /\ 2 ^ Width \in Nat /\ Broadcast < 2 ^ Width
  /\ SendErrors \in BOOLEAN

VARIABLES
  pool,          \* address, pool_offset and pool_size; size 0 before configure_pool
  bound_leases,  \* the client bound to each offset of the pool
  leases,        \* leases_by_client_id: the address noted in the lease of a client
  replies,       \* what the server has sent
  incarnation,   \* how often the server was set up anew (history)
  server_failed  \* an assertion has ended the daemon

tables == <<pool, bound_leases, leases>>
serverVars == <<tables, replies, incarnation, server_failed>>

Offsets == 0 .. pool.size - 1

NoPool == [address |-> INADDR_ANY, offset |-> 0, size |-> 0]

(* sd_dhcp_server_new.                                                     *)
ServerInit ==
  /\ pool = NoPool
  /\ bound_leases = <<>>
  /\ leases = [c \in Client |-> NoEntry]
  /\ replies = {} /\ incarnation = 0 /\ server_failed = FALSE

(* The addresses of the subnet from offset on, less the broadcast address; *)
(* the subtraction is unsigned, and wraps for an offset past it.           *)
SizeMax(offset) == (Broadcast + 1 - offset - 1) % 2 ^ Width

(* Mutants: the server's own address is handed out; one slot too many.     *)
MutUnreserved(p) == [o \in 0 .. p.size - 1 |-> Nobody]
MutSlotTooMany(p) == [o \in 0 .. p.size |-> Nobody]

(* A fresh pool: the server's own address is reserved if it lies in it.    *)
EmptyPool(p) == [o \in 0 .. p.size - 1 |-> IF p.offset + o = p.address THEN Reserved ELSE Nobody]

(* sd_dhcp_server_configure_pool with the address of the link and the      *)
(* PoolOffset= and PoolSize= of the network.                               *)
configure_pool(address, offset, size) ==
  LET off == IF offset = 0 THEN 1 ELSE offset
      n == IF size = 0 THEN SizeMax(off) ELSE size
      p == [address |-> address, offset |-> off, size |-> n]
  IN
  /\ pool.address = INADDR_ANY
  /\ address \notin {0, Broadcast}
  /\ SizeMax(off) >= 1 /\ n <= SizeMax(off)
  /\ pool' = p
  /\ bound_leases' = EmptyPool(p)
  /\ UNCHANGED <<leases, replies, incarnation, server_failed>>

(* get_pool_offset, negative if the address is not of the pool.            *)
get_pool_offset(a) ==
  IF a \in pool.offset .. pool.offset + pool.size - 1
  THEN (a % (Broadcast + 1)) - pool.offset
  ELSE -1

-----------------------------------------------------------------------------
(* dhcp_server_handle_message.  A message is                               *)
(*   [type, client, xid, server_id (us, other or none), requested, ciaddr].*)

Works == IF SendErrors THEN BOOLEAN ELSE {TRUE}

Reply(type, m, a) ==
  [type |-> type, client |-> m.client, xid |-> m.xid, addr |-> a, from |-> incarnation]

Known(c) == leases[c] # NoEntry

(* The first free offset, probing from the hash of the client id.          *)
FreeOffset(c) ==
  LET probe(i) == (Hash[c] + i) % pool.size
      free == {i \in Offsets : bound_leases[probe(i)] = Nobody}
  IN  probe(CHOOSE i \in free : \A j \in free : i <= j)

(* The address to offer, INADDR_ANY if there is none.                      *)
OfferFor(c) ==
  IF Known(c) THEN leases[c]
  ELSE IF \A o \in Offsets : bound_leases[o] # Nobody THEN INADDR_ANY
  ELSE pool.offset + FreeOffset(c)

Discover(m, works) ==
  /\ m.type = "DISCOVER"
  /\ replies' = replies \cup (IF OfferFor(m.client) # INADDR_ANY /\ works
                              THEN {Reply("OFFER", m, OfferFor(m.client))} ELSE {})
  /\ UNCHANGED <<tables, incarnation, server_failed>>

Decline(m) ==
  /\ m.type = "DECLINE"
  /\ UNCHANGED serverVars

Selecting(m) == m.server_id # "none"
InitReboot(m) == ~Selecting(m) /\ m.requested # INADDR_ANY
Renewing(m) == ~Selecting(m) /\ m.requested = INADDR_ANY

(* The early returns of a REQUEST.                                         *)
Valid(m) ==
  \/ Selecting(m) /\ m.server_id = "us" /\ m.ciaddr = INADDR_ANY /\ m.requested # INADDR_ANY
  \/ InitReboot(m) /\ m.ciaddr = INADDR_ANY
  \/ Renewing(m) /\ m.ciaddr # INADDR_ANY

RequestedAddress(m) == IF Renewing(m) THEN m.ciaddr ELSE m.requested

(* bound_leases[o] == existing_lease: the client's own slot, or a free one *)
(* for a client without a lease.                                           *)
Grantable(c, o) == o >= 0 /\ bound_leases[o] = IF Known(c) THEN c ELSE Nobody

(* Mutant: every lease that is granted notes the requested address.        *)
MutNotesAgain(m, o) ==
  /\ bound_leases' = [bound_leases EXCEPT ![o] = m.client]
  /\ leases' = [leases EXCEPT ![m.client] = m.requested]

(* The lease is entered once the ACK is sent.  A new lease notes the       *)
(* requested address, which a renewing client does not send.               *)
EnterLease(m, o) ==
  /\ bound_leases' = [bound_leases EXCEPT ![o] = m.client]
  /\ leases' = [leases EXCEPT ![m.client] = IF Known(m.client) THEN @ ELSE m.requested]

Request(m, works) ==
  LET a == RequestedAddress(m)
      o == get_pool_offset(a)
  IN
  /\ m.type = "REQUEST"
  /\ \/ /\ Valid(m) /\ Grantable(m.client, o) /\ works
        /\ replies' = replies \cup {Reply("ACK", m, a)}
        /\ EnterLease(m, o)
     \/ /\ Valid(m) /\ ~Grantable(m.client, o) /\ InitReboot(m) /\ works
        /\ replies' = replies \cup {Reply("NAK", m, INADDR_ANY)}
        /\ UNCHANGED <<bound_leases, leases>>
     \/ /\ \/ ~Valid(m) \/ ~works
           \/ ~Grantable(m.client, o) /\ ~InitReboot(m)
        /\ UNCHANGED <<bound_leases, leases, replies>>
  /\ UNCHANGED <<pool, incarnation, server_failed>>

(* Mutant: a released address stays in the table.                          *)
MutForget(c, o) ==
  /\ leases' = [leases EXCEPT ![c] = NoEntry]
  /\ UNCHANGED bound_leases

Forget(c, o) ==
  /\ bound_leases' = [bound_leases EXCEPT ![o] = Nobody]
  /\ leases' = [leases EXCEPT ![c] = NoEntry]

(* Only the address noted in the lease is released.                        *)
Release(m) ==
  LET o == get_pool_offset(m.ciaddr)
      matches == Known(m.client) /\ leases[m.client] = m.ciaddr
  IN
  /\ m.type = "RELEASE"
  /\ IF matches /\ o >= 0 /\ bound_leases[o] = m.client
     THEN Forget(m.client, o)
     ELSE UNCHANGED <<bound_leases, leases>>
  /\ UNCHANGED <<pool, replies, incarnation, server_failed>>

dhcp_server_handle_message(m) ==
  \/ \E works \in Works : Discover(m, works) \/ Request(m, works)
  \/ Decline(m)
  \/ Release(m)

-----------------------------------------------------------------------------

Bound == {c \in Client : \E o \in Offsets : bound_leases[o] = c}

(* sd_dhcp_server_forcerenew, which asserts that a lease has an address.   *)
forcerenew ==
  /\ pool.address # INADDR_ANY
  /\ \/ /\ \A c \in Bound : leases[c] # INADDR_ANY
        /\ replies' = replies \cup {[type |-> "FORCERENEW", client |-> c, xid |-> 0,
                                     addr |-> leases[c], from |-> incarnation] : c \in Bound}
        /\ UNCHANGED server_failed
     \/ /\ \E c \in Bound : leases[c] = INADDR_ANY
        /\ server_failed' = TRUE
        /\ UNCHANGED replies
  /\ UNCHANGED <<tables, incarnation>>

(* roamingd is restarted: sd_dhcp_server_unref frees all leases, and the   *)
(* same pool is set up by a new server.                                    *)
ServerRestarts ==
  /\ pool.address # INADDR_ANY
  /\ bound_leases' = EmptyPool(pool)
  /\ leases' = [c \in Client |-> NoEntry]
  /\ incarnation' = incarnation + 1
  /\ UNCHANGED <<pool, replies, server_failed>>

-----------------------------------------------------------------------------
(* Properties.                                                             *)

(* The type invariant: struct sd_dhcp_server and its tables.               *)
ServerTypeOK ==
  /\ pool \in [address : Nat, offset : Nat, size : Nat]
  /\ bound_leases \in [Offsets -> Client \cup {Nobody, Reserved}]
  /\ leases \in [Client -> Nat \cup {NoEntry}]
  /\ incarnation \in Nat /\ server_failed \in BOOLEAN

(* The two tables of leases agree: a client has an entry by its id exactly *)
(* when it is bound to an offset, and never to two.                        *)
TablesAgree ==
  /\ \A c \in Client : Known(c) <=> c \in Bound
  /\ \A o, p \in Offsets : bound_leases[o] = bound_leases[p] /\ bound_leases[o] \in Client => o = p

(* A lease notes the address it is bound to, so that its client is offered *)
(* it again and can release it; in the first life of the server that is    *)
(* every lease, later a renewal of a lease of the previous one notes none. *)
LeasesAddressed ==
  \A o \in Offsets : bound_leases[o] \in Client =>
    \/ leases[bound_leases[o]] = pool.offset + o
    \/ leases[bound_leases[o]] = INADDR_ANY /\ incarnation > 0

=============================================================================
