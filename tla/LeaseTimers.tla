----------------------------- MODULE LeaseTimers -----------------------------
(***************************************************************************)
(* The timers of a DHCP lease: client_set_lease_timeouts of                *)
(* sd-dhcp-client.c, which turns the lifetime, T1 and T2 a server granted  *)
(* into three jittered timeouts, and what their order does to the client:  *)
(* BOUND -> RENEWING -> REBINDING -> lease expired.                        *)
(*                                                                         *)
(* Lifetimes are in seconds, timeouts in eighths of a second after         *)
(* client->request_sent, so that the factors 1/2 and 7/8 are exact.        *)
(* DhcpClient leaves the order of the timers open; this module says which  *)
(* orders the arithmetic allows.                                           *)
(***************************************************************************)
EXTENDS Naturals

CONSTANTS
  Lifetimes,   \* lifetimes a server may grant
  Rebinds,     \* T1 and T2 a server may grant, 0 if it grants none
  Elapsed,     \* eighths of a second between the request and its ACK
  Jitters,     \* values of random_u32() & 0x1fffff, at most 17 eighths
  Infinite,    \* 0xffffffff
  Word         \* 2^32: T2 is kept in an unsigned 32 bit word

MaxJitter == 17

ASSUME TimerAssumption ==
  /\ Lifetimes \subseteq Nat \ {0}
  /\ Rebinds \subseteq Nat
  /\ Elapsed \subseteq Nat
  /\ Jitters \subseteq 0 .. MaxJitter
  /\ Infinite \in Nat
  /\ Word \in Nat \ {0}

VARIABLES
  granted, \* the lifetime, T1 and T2 of the server's ACK
  lease,   \* client->lease: lifetime, t1 and t2
  armed,   \* the armed timers
  due,     \* when T1, T2 and the lifetime timer are due
  now,     \* time since the request was sent
  state    \* client->state, "ACK" before the timers are set

timerVars == <<granted, lease, armed, due, now, state>>

-----------------------------------------------------------------------------

(* Mutant: no margin is taken off the lifetime.                            *)
MutNoMargin(lifetime, eighths, j) == lifetime * eighths + j

(* client_compute_timeout with factor eighths / 8 and jitter j.            *)
client_compute_timeout(lifetime, eighths, j) ==
  (IF lifetime > 3 THEN lifetime - 3 ELSE 0) * eighths + j

(* (lifetime * 7) / 8 and lifetime / 2 in unsigned 32 bit arithmetic.      *)
DefaultT2(lifetime) == ((lifetime * 7) % Word) \div 8
DefaultT1(lifetime) == lifetime \div 2

Timed(l, a, b, d1, d2) == [lease |-> [l EXCEPT !.t1 = a, !.t2 = b], t1 |-> d1, t2 |-> d2]

(* The default timeouts, of a lease that grants neither T1 nor T2 or whose *)
(* T1 and T2 are discarded.                                                *)
Defaults(l, j1, j2) ==
  Timed(l, DefaultT1(l.lifetime), DefaultT2(l.lifetime),
        client_compute_timeout(l.lifetime, 4, j1),
        client_compute_timeout(l.lifetime, 7, j2))

(* Mutant: T1 and T2 are taken as granted, in whatever order.              *)
MutUnchecked(l, j1, j2) ==
  Timed(l, l.t1, l.t2,
        client_compute_timeout(l.t1, 8, j1), client_compute_timeout(l.t2, 8, j2))

BothGiven(l, j1, j2) ==
  IF l.t1 < l.t2 /\ l.t2 < l.lifetime
  THEN Timed(l, l.t1, l.t2,
             client_compute_timeout(l.t1, 8, j1), client_compute_timeout(l.t2, 8, j2))
  ELSE Defaults(l, j1, j2)

(* Mutant: a T2 that is too early is kept.                                 *)
MutKeepT2(l, j1, j2, j3) ==
  Timed(l, DefaultT1(l.lifetime), l.t2,
        client_compute_timeout(l.lifetime, 4, j1), client_compute_timeout(l.t2, 8, j2))

(* A T2 that turns out not to be later than the default T1 is discarded.   *)
OnlyT2(l, j1, j2, j3) ==
  LET d1 == client_compute_timeout(l.lifetime, 4, j1)
      d2 == client_compute_timeout(l.t2, 8, j2)
  IN  IF d2 <= d1
      THEN Timed(l, DefaultT1(l.lifetime), DefaultT2(l.lifetime),
                 d1, client_compute_timeout(l.lifetime, 7, j3))
      ELSE Timed(l, DefaultT1(l.lifetime), l.t2, d1, d2)

(* A T1 that is not earlier than the default T2: the code moves T2 to half *)
(* the lifetime and keeps T1.                                              *)
OnlyT1(l, j1, j2, j3) ==
  LET d1 == client_compute_timeout(l.t1, 8, j1)
      d2 == client_compute_timeout(l.lifetime, 7, j2)
  IN  IF d2 <= d1
      THEN Timed(l, l.t1, l.lifetime \div 2, d1, client_compute_timeout(l.lifetime, 4, j3))
      ELSE Timed(l, l.t1, DefaultT2(l.lifetime), d1, d2)

Computed(l, j1, j2, j3) ==
  IF l.t1 > 0 /\ l.t2 > 0 THEN BothGiven(l, j1, j2)
  ELSE IF l.t2 > 0 /\ l.t2 < l.lifetime THEN OnlyT2(l, j1, j2, j3)
  ELSE IF l.t1 > 0 /\ l.t1 < l.lifetime THEN OnlyT1(l, j1, j2, j3)
  ELSE Defaults(l, j1, j2)

(* Which timers are armed: none of an infinite lease, none earlier than    *)
(* one that is already due.                                                *)
Armed(l, d2, d3) ==
  IF l.lifetime = Infinite THEN {}
  ELSE IF d3 <= now THEN {"expire"}
  ELSE IF d2 <= now THEN {"expire", "t2"}
  ELSE {"expire", "t2", "t1"}

client_set_lease_timeouts(j1, j2, j3, je) ==
  LET c == Computed(lease, j1, j2, j3)
      e == client_compute_timeout(lease.lifetime, 8, je)
  IN
  /\ state = "ACK"
  /\ state' = "BOUND"
  /\ lease' = IF lease.lifetime = Infinite THEN lease ELSE c.lease
  /\ due' = [t1 |-> c.t1, t2 |-> c.t2, expire |-> e]
  /\ armed' = Armed(lease, c.t2, e)
  /\ UNCHANGED <<granted, now>>

(* The state client_timeout_t1, _t2 and _expire move to.                   *)
After == [t1 |-> "RENEWING", t2 |-> "REBINDING", expire |-> "INIT"]

(* sd-event runs the earliest timer first; an expiry drops the others.     *)
Fire(t) ==
  /\ t \in armed
  /\ \A u \in armed : due[t] <= due[u]
  /\ now' = IF due[t] > now THEN due[t] ELSE now
  /\ state' = After[t]
  /\ armed' = IF t = "expire" THEN {} ELSE armed \ {t}
  /\ UNCHANGED <<granted, lease, due>>

(* The wait client_timeout_resend puts before the next REQUEST, computed   *)
(* in unsigned 32 bit arithmetic, not less than a minute.                  *)
ResendWait ==
  LET left == (CASE state = "RENEWING" -> (lease.t2 + Word - lease.t1) % Word
                 [] OTHER -> (lease.lifetime + Word - lease.t2) % Word) \div 2
  IN  IF left < 60 THEN 60 ELSE left

TimersInit ==
  /\ granted \in [lifetime : Lifetimes, t1 : Rebinds, t2 : Rebinds]
  /\ lease = granted
  /\ now \in Elapsed
  /\ armed = {}
  /\ due = [t1 |-> 0, t2 |-> 0, expire |-> 0]
  /\ state = "ACK"

TimersNext ==
  \/ \E j1, j2, j3, je \in Jitters : client_set_lease_timeouts(j1, j2, j3, je)
  \/ \E t \in {"t1", "t2", "expire"} : Fire(t)

TimersSpec == TimersInit /\ [][TimersNext]_timerVars

-----------------------------------------------------------------------------
(* Properties.                                                             *)

Finite(g) == g.lifetime # Infinite

(* T1 given alone and clear, by more than the jitter, of the default T2.   *)
ClearT1(g) ==
  g.t1 > 0 /\ g.t2 = 0 =>
    client_compute_timeout(g.t1, 8, MaxJitter) < client_compute_timeout(g.lifetime, 7, 0)

(* T1 and T2 both given, in order, and further apart than the jitter.      *)
ClearBoth(g) ==
  g.t1 > 0 /\ g.t2 > 0 /\ g.t1 < g.t2 /\ g.t2 < g.lifetime =>
    client_compute_timeout(g.t1, 8, MaxJitter) < client_compute_timeout(g.t2, 8, 0)

Clear(g) == g.lifetime >= 9 /\ ClearT1(g) /\ ClearBoth(g)

(* The client gives a lease up before the server may grant it to another:  *)
(* three seconds are taken off and at most 2.1 s of jitter added           *)
(* (client_compute_timeout).  A lease of one or two seconds is kept for    *)
(* the length of the jitter.                                               *)
ExpiresInTime ==
  "expire" \in armed /\ granted.lifetime >= 3 => due.expire < 8 * granted.lifetime

(* T1 fires before T2: a client that is REBINDING on the raw socket never  *)
(* goes back to RENEWING, which sends by UDP, as long as the lease is not  *)
(* shorter than 9 s and no pair of its timers is closer than the jitter.   *)
RenewThenRebind ==
  [][Clear(granted) =>
       (state = "REBINDING" => state' # "RENEWING")]_timerVars

(* A request sent when T1 or T2 is due is repeated before the next timer:  *)
(* the wait of client_timeout_resend, halved from t2 - t1 or lifetime - t2 *)
(* as the lease notes them, ends before the jittered T2 in RENEWING and    *)
(* before the jittered end of the lease in REBINDING, unless it is the     *)
(* minimum of a minute.  This is of leases whose lifetime * 7 fits in 32   *)
(* bits: (lifetime * 7) / 8 wraps around above 19 years, and the wait with *)
(* it.  T1 must be clear of T2 and the lease not shorter than 8 s.         *)
ResendWithinLease ==
  granted.lifetime >= 8 /\ granted.lifetime * 7 < Word /\ ClearT1(granted) /\ ResendWait > 60 =>
    /\ state = "RENEWING" => due.t1 + 8 * ResendWait < due.t2
    /\ state = "REBINDING" => due.t2 + 8 * ResendWait < due.expire

(* The inductive invariant behind ExpiresInTime and RenewThenRebind: the   *)
(* timers of a clear lease are due in order, and T1 is spent once T2 fired.*)
TimersInv ==
  /\ granted \in [lifetime : Nat \ {0}, t1 : Nat, t2 : Nat]
  /\ due \in [t1 : Nat, t2 : Nat, expire : Nat]
  /\ state = "ACK" => lease = granted /\ armed = {}
  /\ state # "ACK" /\ granted.lifetime >= 3 => due.expire < 8 * granted.lifetime
  /\ state # "ACK" /\ Clear(granted) => due.t1 < due.t2
  /\ state = "REBINDING" /\ Clear(granted) => "t1" \notin armed

=============================================================================
