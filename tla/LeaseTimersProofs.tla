-------------------------- MODULE LeaseTimersProofs --------------------------
(***************************************************************************)
(* ExpiresInTime, RenewThenRebind and ResendWithinLease for every lifetime,*)
(* T1, T2, delay and jitter, and for every word size.                      *)
(***************************************************************************)
EXTENDS LeaseTimers, TLAPS

(* client_compute_timeout is a natural number.                             *)
LEMMA TimeoutNat ==
  ASSUME NEW l \in Nat, NEW e \in Nat, NEW j \in Nat
  PROVE  client_compute_timeout(l, e, j) \in Nat
  BY DEF client_compute_timeout

(* The lifetime timeout comes before the end of a lease of 3 s or more.    *)
LEMMA LifetimeMargin ==
  ASSUME NEW l \in Nat, l >= 3, NEW j \in 0 .. MaxJitter
  PROVE  client_compute_timeout(l, 8, j) < 8 * l
  BY DEF client_compute_timeout, MaxJitter

(* Jitter only adds: bounds of a timeout that do not depend on it.         *)
LEMMA JitterBounds ==
  ASSUME NEW l \in Nat, NEW e \in Nat, NEW j \in 0 .. MaxJitter
  PROVE  /\ client_compute_timeout(l, e, 0) <= client_compute_timeout(l, e, j)
         /\ client_compute_timeout(l, e, j) <= client_compute_timeout(l, e, MaxJitter)
<1>1. PICK x \in Nat : x = (IF l > 3 THEN l - 3 ELSE 0) * e
  OBVIOUS
<1> QED
  BY <1>1 DEF client_compute_timeout, MaxJitter

(* The default T1 and T2 of a lease of 9 s or more are further apart than  *)
(* the jitter.                                                             *)
LEMMA DefaultsApart ==
  ASSUME NEW l \in Nat, l >= 9, NEW j1 \in 0 .. MaxJitter, NEW j2 \in 0 .. MaxJitter
  PROVE  client_compute_timeout(l, 4, j1) < client_compute_timeout(l, 7, j2)
  BY DEF client_compute_timeout, MaxJitter

(* Every way to compute the timeouts puts T1 of a clear lease before T2.   *)
LEMMA BothInOrder ==
  ASSUME NEW l \in [lifetime : Nat \ {0}, t1 : Nat, t2 : Nat], Clear(l),
         l.t1 > 0, l.t2 > 0,
         NEW j1 \in 0 .. MaxJitter, NEW j2 \in 0 .. MaxJitter
  PROVE  /\ BothGiven(l, j1, j2).t1 \in Nat
         /\ BothGiven(l, j1, j2).t2 \in Nat
         /\ BothGiven(l, j1, j2).t1 < BothGiven(l, j1, j2).t2
<1>0. /\ l.lifetime \in Nat /\ l.lifetime >= 9 /\ l.t1 \in Nat /\ l.t2 \in Nat
      /\ j1 \in Nat /\ j2 \in Nat
  BY DEF Clear, MaxJitter
<1>1. CASE l.t1 < l.t2 /\ l.t2 < l.lifetime
  <2>1. client_compute_timeout(l.t1, 8, MaxJitter) < client_compute_timeout(l.t2, 8, 0)
    BY <1>1 DEF Clear, ClearBoth
  <2>2. client_compute_timeout(l.t1, 8, j1) < client_compute_timeout(l.t2, 8, j2)
    BY <1>0, <2>1 DEF client_compute_timeout, MaxJitter
  <2> QED
    BY <1>0, <1>1, <2>2, TimeoutNat DEF BothGiven, Timed
<1>2. CASE ~(l.t1 < l.t2 /\ l.t2 < l.lifetime)
  BY <1>0, <1>2, DefaultsApart, TimeoutNat DEF BothGiven, Defaults, Timed
<1> QED
  BY <1>1, <1>2

LEMMA OnlyT2InOrder ==
  ASSUME NEW l \in [lifetime : Nat \ {0}, t1 : Nat, t2 : Nat], Clear(l),
         NEW j1 \in 0 .. MaxJitter, NEW j2 \in 0 .. MaxJitter, NEW j3 \in 0 .. MaxJitter
  PROVE  /\ OnlyT2(l, j1, j2, j3).t1 \in Nat
         /\ OnlyT2(l, j1, j2, j3).t2 \in Nat
         /\ OnlyT2(l, j1, j2, j3).t1 < OnlyT2(l, j1, j2, j3).t2
<1>0. /\ l.lifetime \in Nat /\ l.lifetime >= 9 /\ l.t2 \in Nat
      /\ j1 \in Nat /\ j2 \in Nat /\ j3 \in Nat
  BY DEF Clear, MaxJitter
<1> DEFINE d1 == client_compute_timeout(l.lifetime, 4, j1)
           d2 == client_compute_timeout(l.t2, 8, j2)
           d3 == client_compute_timeout(l.lifetime, 7, j3)
<1>1. d1 \in Nat /\ d2 \in Nat /\ d3 \in Nat /\ d1 < d3
  BY <1>0, TimeoutNat, DefaultsApart
<1>2. /\ OnlyT2(l, j1, j2, j3).t1 = d1
      /\ OnlyT2(l, j1, j2, j3).t2 = IF d2 <= d1 THEN d3 ELSE d2
  BY DEF OnlyT2, Timed
<1> HIDE DEF d1, d2, d3
<1> QED
  BY <1>1, <1>2

LEMMA OnlyT1InOrder ==
  ASSUME NEW l \in [lifetime : Nat \ {0}, t1 : Nat, t2 : Nat], Clear(l),
         l.t1 > 0, l.t2 = 0,
         NEW j1 \in 0 .. MaxJitter, NEW j2 \in 0 .. MaxJitter, NEW j3 \in 0 .. MaxJitter
  PROVE  /\ OnlyT1(l, j1, j2, j3).t1 \in Nat
         /\ OnlyT1(l, j1, j2, j3).t2 \in Nat
         /\ OnlyT1(l, j1, j2, j3).t1 < OnlyT1(l, j1, j2, j3).t2
<1>0. /\ l.lifetime \in Nat /\ l.t1 \in Nat /\ j1 \in Nat /\ j2 \in Nat
  BY DEF MaxJitter
<1> DEFINE d1 == client_compute_timeout(l.t1, 8, j1)
           d2 == client_compute_timeout(l.lifetime, 7, j2)
<1>1. client_compute_timeout(l.t1, 8, MaxJitter) < client_compute_timeout(l.lifetime, 7, 0)
  BY DEF Clear, ClearT1
<1>2. d1 \in Nat /\ d2 \in Nat
  BY <1>0, TimeoutNat
<1>3. d1 < d2
  BY <1>0, <1>1 DEF client_compute_timeout, MaxJitter
<1>4. ~(d2 <= d1)
  BY <1>2, <1>3
<1>5. OnlyT1(l, j1, j2, j3).t1 = d1 /\ OnlyT1(l, j1, j2, j3).t2 = d2
  BY <1>4 DEF OnlyT1, Timed
<1> QED
  BY <1>2, <1>3, <1>5

LEMMA ComputedInOrder ==
  ASSUME NEW l \in [lifetime : Nat \ {0}, t1 : Nat, t2 : Nat], Clear(l),
         NEW j1 \in 0 .. MaxJitter, NEW j2 \in 0 .. MaxJitter, NEW j3 \in 0 .. MaxJitter
  PROVE  Computed(l, j1, j2, j3).t1 < Computed(l, j1, j2, j3).t2
<1>1. CASE l.t1 > 0 /\ l.t2 > 0
  BY <1>1, BothInOrder DEF Computed
<1>2. CASE ~(l.t1 > 0 /\ l.t2 > 0) /\ l.t2 > 0 /\ l.t2 < l.lifetime
  <2>1. Computed(l, j1, j2, j3) = OnlyT2(l, j1, j2, j3)
    BY <1>2 DEF Computed
  <2> QED
    BY <2>1, OnlyT2InOrder
<1>3. CASE /\ ~(l.t1 > 0 /\ l.t2 > 0) /\ ~(l.t2 > 0 /\ l.t2 < l.lifetime)
           /\ l.t1 > 0 /\ l.t1 < l.lifetime
  <2>1. Computed(l, j1, j2, j3) = OnlyT1(l, j1, j2, j3)
    BY <1>3 DEF Computed
  <2>2. l.t2 = 0
    BY <1>3
  <2> QED
    BY <1>3, <2>1, <2>2, OnlyT1InOrder
<1>4. CASE /\ ~(l.t1 > 0 /\ l.t2 > 0) /\ ~(l.t2 > 0 /\ l.t2 < l.lifetime)
           /\ ~(l.t1 > 0 /\ l.t1 < l.lifetime)
  <2>1. Computed(l, j1, j2, j3) = Defaults(l, j1, j2)
    BY <1>4 DEF Computed
  <2>2. l.lifetime \in Nat /\ l.lifetime >= 9
    BY DEF Clear
  <2> QED
    BY <2>1, <2>2, DefaultsApart DEF Defaults, Timed
<1> QED
  BY <1>1, <1>2, <1>3, <1>4

(* Every branch yields natural numbers.                                    *)
LEMMA ComputedNat ==
  ASSUME NEW l \in [lifetime : Nat \ {0}, t1 : Nat, t2 : Nat],
         NEW j1 \in 0 .. MaxJitter, NEW j2 \in 0 .. MaxJitter, NEW j3 \in 0 .. MaxJitter
  PROVE  Computed(l, j1, j2, j3).t1 \in Nat /\ Computed(l, j1, j2, j3).t2 \in Nat
<1>1. /\ l.lifetime \in Nat /\ l.t1 \in Nat /\ l.t2 \in Nat
      /\ j1 \in Nat /\ j2 \in Nat /\ j3 \in Nat
  BY DEF MaxJitter
<1>2. BothGiven(l, j1, j2).t1 \in Nat /\ BothGiven(l, j1, j2).t2 \in Nat
  BY <1>1, TimeoutNat DEF BothGiven, Defaults, Timed
<1>3. OnlyT2(l, j1, j2, j3).t1 \in Nat /\ OnlyT2(l, j1, j2, j3).t2 \in Nat
  BY <1>1, TimeoutNat DEF OnlyT2, Timed
<1>4. OnlyT1(l, j1, j2, j3).t1 \in Nat /\ OnlyT1(l, j1, j2, j3).t2 \in Nat
  BY <1>1, TimeoutNat DEF OnlyT1, Timed
<1>5. Defaults(l, j1, j2).t1 \in Nat /\ Defaults(l, j1, j2).t2 \in Nat
  BY <1>1, TimeoutNat DEF Defaults, Timed
<1> QED
  BY <1>2, <1>3, <1>4, <1>5 DEF Computed

LEMMA TimersInitInv == TimersInit => TimersInv
<1> SUFFICES ASSUME TimersInit PROVE TimersInv
  OBVIOUS
<1>1. granted \in [lifetime : Nat \ {0}, t1 : Nat, t2 : Nat]
  BY TimerAssumption DEF TimersInit
<1>2. due \in [t1 : Nat, t2 : Nat, expire : Nat]
  BY DEF TimersInit
<1> QED
  BY <1>1, <1>2 DEF TimersInit, TimersInv

(* Setting the timers establishes their order.                             *)
LEMMA SetTimersInv ==
  ASSUME TimersInv,
         NEW j1 \in Jitters, NEW j2 \in Jitters, NEW j3 \in Jitters, NEW je \in Jitters,
         client_set_lease_timeouts(j1, j2, j3, je)
  PROVE  TimersInv'
<1> DEFINE c == Computed(granted, j1, j2, j3)
           e == client_compute_timeout(granted.lifetime, 8, je)
<1>1. /\ granted \in [lifetime : Nat \ {0}, t1 : Nat, t2 : Nat]
      /\ granted.lifetime \in Nat
      /\ j1 \in 0 .. MaxJitter /\ j2 \in 0 .. MaxJitter
      /\ j3 \in 0 .. MaxJitter /\ je \in 0 .. MaxJitter /\ je \in Nat
  BY TimerAssumption DEF TimersInv, MaxJitter
<1>2. lease = granted
  BY DEF TimersInv, client_set_lease_timeouts
<1>3. /\ state' = "BOUND" /\ granted' = granted
      /\ due' = [t1 |-> c.t1, t2 |-> c.t2, expire |-> e]
  BY <1>2 DEF client_set_lease_timeouts
<1>4. c.t1 \in Nat /\ c.t2 \in Nat
  BY <1>1, ComputedNat
<1>5. e \in Nat
  BY <1>1, TimeoutNat
<1>6. Clear(granted) => c.t1 < c.t2
  BY <1>1, ComputedInOrder
<1>7. granted.lifetime >= 3 => e < 8 * granted.lifetime
  BY <1>1, LifetimeMargin
<1>8. Clear(granted)' = Clear(granted)
  BY <1>3 DEF Clear, ClearT1, ClearBoth, client_compute_timeout, MaxJitter
<1> HIDE DEF c, e
<1> QED
  BY <1>1, <1>3, <1>4, <1>5, <1>6, <1>7, <1>8 DEF TimersInv

(* T2 of a clear lease fires only when T1 has.                             *)
LEMMA FireInv ==
  ASSUME TimersInv, NEW t \in {"t1", "t2", "expire"}, Fire(t)
  PROVE  TimersInv'
<1>1. /\ granted' = granted /\ due' = due /\ state' = After[t] /\ t \in armed
      /\ armed' = IF t = "expire" THEN {} ELSE armed \ {t}
  BY DEF Fire
<1>2. state # "ACK" /\ state' # "ACK"
  BY <1>1 DEF TimersInv, After
<1>3. Clear(granted)' = Clear(granted)
  BY <1>1 DEF Clear, ClearT1, ClearBoth, client_compute_timeout, MaxJitter
<1>4. ASSUME state' = "REBINDING", Clear(granted) PROVE "t1" \notin armed
  <2>1. t = "t2"
    BY <1>1, <1>4 DEF After
  <2>2. due.t1 \in Nat /\ due.t2 \in Nat /\ due.t1 < due.t2
    BY <1>2, <1>4 DEF TimersInv
  <2>3. "t1" \in armed => due.t2 <= due.t1
    BY <2>1 DEF Fire
  <2> QED
    BY <2>2, <2>3
<1>5. state' = "REBINDING" /\ Clear(granted)' => "t1" \notin armed'
  BY <1>1, <1>3, <1>4
<1> QED
  BY <1>1, <1>2, <1>3, <1>5 DEF TimersInv

LEMMA TimersNextInv == TimersInv /\ [TimersNext]_timerVars => TimersInv'
<1> SUFFICES ASSUME TimersInv, [TimersNext]_timerVars PROVE TimersInv'
  OBVIOUS
<1>1. CASE \E j1, j2, j3, je \in Jitters : client_set_lease_timeouts(j1, j2, j3, je)
  BY <1>1, SetTimersInv
<1>2. CASE \E t \in {"t1", "t2", "expire"} : Fire(t)
  BY <1>2, FireInv
<1>3. CASE UNCHANGED timerVars
  BY <1>3 DEF timerVars, TimersInv, Clear, ClearT1, ClearBoth, client_compute_timeout, MaxJitter
<1> QED
  BY <1>1, <1>2, <1>3 DEF TimersNext

(* The timers of a clear lease are due in order, and T1 is spent once T2   *)
(* fired (client_set_lease_timeouts, client_timeout_t1, client_timeout_t2).*)
THEOREM TimersInvariant == TimersSpec => []TimersInv
  BY TimersInitInv, TimersNextInv, PTL DEF TimersSpec

(* A lease of three seconds or more is given up before it ends, whatever   *)
(* the jitter client_compute_timeout draws.                                *)
THEOREM LeaseExpiresInTime == TimersSpec => []ExpiresInTime
<1>1. TimersInv => ExpiresInTime
  BY DEF TimersInv, ExpiresInTime
<1> QED
  BY <1>1, TimersInvariant, PTL

(* T1 never fires after T2: no client goes from REBINDING back to RENEWING *)
(* unless two of its timers are closer than the jitter.                    *)
THEOREM NoRenewAfterRebind == TimersSpec => RenewThenRebind
<1>1. TimersInv /\ [TimersNext]_timerVars =>
        [Clear(granted) => (state = "REBINDING" => state' # "RENEWING")]_timerVars
  <2> SUFFICES ASSUME TimersInv, TimersNext, Clear(granted), state = "REBINDING",
                      state' = "RENEWING"
               PROVE  FALSE
    OBVIOUS
  <2>1. \E t \in {"t1", "t2", "expire"} : Fire(t)
    BY DEF TimersNext, client_set_lease_timeouts
  <2>2. Fire("t1")
    BY <2>1 DEF Fire, After
  <2> QED
    BY <2>2 DEF Fire, TimersInv
<1> QED
  BY <1>1, TimersInvariant, PTL DEF TimersSpec, RenewThenRebind

-----------------------------------------------------------------------------
(* T1 and T2 as the lease notes them, which client_timeout_resend reads.   *)

(* The leases ResendWithinLease is about.                                  *)
Settled(g) == g.lifetime >= 8 /\ g.lifetime * 7 < Word /\ ClearT1(g)

Ordered(l, lifetime) ==
  /\ l.lifetime = lifetime /\ l.t1 \in Nat /\ l.t2 \in Nat
  /\ l.t1 <= l.t2 /\ l.t2 <= l.lifetime

(* Where half the time between two of them is more than a minute, the      *)
(* timeouts are further apart than that half.                              *)
Spaced(l, d1, d2, de) ==
  /\ l.t2 - l.t1 >= 122 => d1 + 4 * (l.t2 - l.t1) < d2
  /\ l.lifetime - l.t2 >= 122 => d2 + 4 * (l.lifetime - l.t2) < de

(* The noted T1 and T2 are in order within the lifetime, their timeouts    *)
(* are as far apart, and no timer of an infinite lease is armed.           *)
OrderInv ==
  /\ granted.lifetime = Infinite => armed = {} /\ state \in {"ACK", "BOUND"}
  /\ state # "ACK" /\ granted.lifetime # Infinite /\ Settled(granted) =>
       Ordered(lease, granted.lifetime) /\ Spaced(lease, due.t1, due.t2, due.expire)

(* lifetime * 7 fits in a word, so the default T2 is 7/8 of the lifetime.  *)
LEMMA DefaultsOrdered ==
  ASSUME NEW L \in Nat, L >= 8, L * 7 < Word
  PROVE  /\ DefaultT1(L) \in Nat /\ DefaultT2(L) \in Nat
         /\ DefaultT1(L) <= DefaultT2(L) /\ DefaultT2(L) <= L
         /\ 8 * DefaultT2(L) > 7 * L - 8 /\ 2 * DefaultT1(L) <= L
<1>1. Word \in Nat \ {0} /\ L * 7 \in 0 .. Word - 1
  BY TimerAssumption
<1>2. (L * 7) % Word = L * 7
  BY <1>1
<1>3. DefaultT2(L) = (L * 7) \div 8 /\ DefaultT1(L) = L \div 2
  BY <1>2 DEF DefaultT1, DefaultT2
<1> QED BY <1>3

(* A T2 due after the default T1 is also noted after it: the jitter is     *)
(* shorter than the margin.                                                *)
LEMMA OnlyT2Ordered ==
  ASSUME NEW L \in Nat, L >= 8, NEW t2 \in Nat, NEW j1 \in 0 .. MaxJitter, NEW j2 \in 0 .. MaxJitter,
         ~(client_compute_timeout(t2, 8, j2) <= client_compute_timeout(L, 4, j1))
  PROVE  L <= 2 * t2 + 1
BY DEF client_compute_timeout, MaxJitter

(* A clear T1 is due before the default T2, and noted before it.           *)
LEMMA OnlyT1Ordered ==
  ASSUME NEW L \in Nat, L >= 8, NEW t1 \in Nat, NEW j1 \in 0 .. MaxJitter, NEW j2 \in 0 .. MaxJitter,
         client_compute_timeout(t1, 8, MaxJitter) < client_compute_timeout(L, 7, 0)
  PROVE  /\ ~(client_compute_timeout(L, 7, j2) <= client_compute_timeout(t1, 8, j1))
         /\ 8 * t1 <= 7 * L - 8
BY DEF client_compute_timeout, MaxJitter

(* Every branch of client_set_lease_timeouts notes T1 and T2 in order.     *)
LEMMA ComputedOrdered ==
  ASSUME NEW l \in [lifetime : Nat \ {0}, t1 : Nat, t2 : Nat], Settled(l),
         NEW j1 \in 0 .. MaxJitter, NEW j2 \in 0 .. MaxJitter, NEW j3 \in 0 .. MaxJitter
  PROVE  Ordered(Computed(l, j1, j2, j3).lease, l.lifetime)
<1> DEFINE L == l.lifetime
<1>1. L \in Nat /\ L >= 8 /\ L * 7 < Word /\ l.t1 \in Nat /\ l.t2 \in Nat
  BY DEF Settled
<1>2. /\ DefaultT1(L) \in Nat /\ DefaultT2(L) \in Nat
      /\ DefaultT1(L) <= DefaultT2(L) /\ DefaultT2(L) <= L
      /\ 8 * DefaultT2(L) > 7 * L - 8 /\ 2 * DefaultT1(L) <= L
  BY <1>1, DefaultsOrdered
<1>3. ASSUME NEW a \in Nat, NEW b \in Nat, NEW d1, NEW d2, a <= b, b <= L
      PROVE  Ordered(Timed(l, a, b, d1, d2).lease, L)
  BY <1>3 DEF Timed, Ordered
<1>4. Ordered(Defaults(l, j1, j2).lease, L)
  BY <1>2, <1>3 DEF Defaults
<1>5. CASE l.t1 > 0 /\ l.t2 > 0
  <2>1. Ordered(BothGiven(l, j1, j2).lease, L)
    BY <1>1, <1>3, <1>4 DEF BothGiven
  <2> QED BY <1>5, <2>1 DEF Computed
<1>6. CASE ~(l.t1 > 0 /\ l.t2 > 0) /\ l.t2 > 0 /\ l.t2 < L
  <2>1. CASE client_compute_timeout(l.t2, 8, j2) <= client_compute_timeout(L, 4, j1)
    BY <1>2, <1>3, <1>6, <2>1 DEF Computed, OnlyT2
  <2>2. CASE ~(client_compute_timeout(l.t2, 8, j2) <= client_compute_timeout(L, 4, j1))
    <3>1. L <= 2 * l.t2 + 1
      BY <1>1, <2>2, OnlyT2Ordered
    <3>2. DefaultT1(L) <= l.t2
      BY <1>1, <1>2, <3>1
    <3> QED BY <1>1, <1>2, <1>3, <1>6, <2>2, <3>2 DEF Computed, OnlyT2
  <2> QED BY <2>1, <2>2
<1>7. CASE ~(l.t1 > 0 /\ l.t2 > 0) /\ ~(l.t2 > 0 /\ l.t2 < L) /\ l.t1 > 0 /\ l.t1 < L
  <2>1. client_compute_timeout(l.t1, 8, MaxJitter) < client_compute_timeout(L, 7, 0)
    BY <1>1, <1>7 DEF Settled, ClearT1
  <2>2. /\ ~(client_compute_timeout(L, 7, j2) <= client_compute_timeout(l.t1, 8, j1))
        /\ 8 * l.t1 <= 7 * L - 8
    BY <1>1, <2>1, OnlyT1Ordered
  <2>3. l.t1 <= DefaultT2(L)
    BY <1>1, <1>2, <2>2
  <2> QED BY <1>1, <1>2, <1>3, <1>7, <2>2, <2>3 DEF Computed, OnlyT1
<1>8. CASE ~(l.t1 > 0 /\ l.t2 > 0) /\ ~(l.t2 > 0 /\ l.t2 < L) /\ ~(l.t1 > 0 /\ l.t1 < L)
  BY <1>4, <1>8 DEF Computed
<1> QED BY <1>5, <1>6, <1>7, <1>8

(* The timeouts of the defaults.                                           *)
LEMMA DefaultsSpaced ==
  ASSUME NEW L \in Nat, L >= 8, L * 7 < Word,
         NEW j1 \in 0 .. MaxJitter, NEW j2 \in 0 .. MaxJitter, NEW je \in 0 .. MaxJitter
  PROVE  /\ DefaultT2(L) - DefaultT1(L) >= 122 =>
              client_compute_timeout(L, 4, j1) + 4 * (DefaultT2(L) - DefaultT1(L)) < client_compute_timeout(L, 7, j2)
         /\ L - DefaultT2(L) >= 122 =>
              client_compute_timeout(L, 7, j2) + 4 * (L - DefaultT2(L)) < client_compute_timeout(L, 8, je)
<1>1. Word \in Nat \ {0} /\ L * 7 \in 0 .. Word - 1
  BY TimerAssumption
<1>2. (L * 7) % Word = L * 7
  BY <1>1
<1>3. DefaultT2(L) = (L * 7) \div 8 /\ DefaultT1(L) = L \div 2
  BY <1>2 DEF DefaultT1, DefaultT2
<1> QED BY <1>3 DEF client_compute_timeout, MaxJitter

(* The timeouts of a T1 and a T2 that are kept as granted.                 *)
LEMMA GivenSpaced ==
  ASSUME NEW L \in Nat, NEW t1 \in Nat, NEW t2 \in Nat, L >= 8,
         NEW j1 \in 0 .. MaxJitter, NEW j2 \in 0 .. MaxJitter, NEW je \in 0 .. MaxJitter
  PROVE  /\ t2 - t1 >= 122 => client_compute_timeout(t1, 8, j1) + 4 * (t2 - t1) < client_compute_timeout(t2, 8, j2)
         /\ L - t2 >= 122 => client_compute_timeout(t2, 8, j2) + 4 * (L - t2) < client_compute_timeout(L, 8, je)
BY DEF client_compute_timeout, MaxJitter

(* The default T1 with a granted T2, and a granted T1 with the default T2. *)
LEMMA MixedSpaced ==
  ASSUME NEW L \in Nat, NEW t \in Nat, L >= 8, L * 7 < Word, NEW j1 \in 0 .. MaxJitter, NEW j2 \in 0 .. MaxJitter
  PROVE  /\ t - DefaultT1(L) >= 122 =>
              client_compute_timeout(L, 4, j1) + 4 * (t - DefaultT1(L)) < client_compute_timeout(t, 8, j2)
         /\ DefaultT2(L) - t >= 122 =>
              client_compute_timeout(t, 8, j1) + 4 * (DefaultT2(L) - t) < client_compute_timeout(L, 7, j2)
<1>1. Word \in Nat \ {0} /\ L * 7 \in 0 .. Word - 1
  BY TimerAssumption
<1>2. (L * 7) % Word = L * 7
  BY <1>1
<1>3. DefaultT2(L) = (L * 7) \div 8 /\ DefaultT1(L) = L \div 2
  BY <1>2 DEF DefaultT1, DefaultT2
<1> QED BY <1>3 DEF client_compute_timeout, MaxJitter

(* Every branch of client_set_lease_timeouts spaces them.                  *)
LEMMA ComputedSpaced ==
  ASSUME NEW l \in [lifetime : Nat \ {0}, t1 : Nat, t2 : Nat], Settled(l),
         NEW j1 \in 0 .. MaxJitter, NEW j2 \in 0 .. MaxJitter, NEW j3 \in 0 .. MaxJitter, NEW je \in 0 .. MaxJitter
  PROVE  Spaced(Computed(l, j1, j2, j3).lease, Computed(l, j1, j2, j3).t1, Computed(l, j1, j2, j3).t2,
                client_compute_timeout(l.lifetime, 8, je))
<1> DEFINE L == l.lifetime
           e == client_compute_timeout(L, 8, je)
           SpacedOut(c) == Spaced(c.lease, c.t1, c.t2, e)
<1>1. L \in Nat /\ L >= 8 /\ L * 7 < Word /\ l.t1 \in Nat /\ l.t2 \in Nat
  BY DEF Settled
<1>2. ASSUME NEW a, NEW b, NEW d1, NEW d2,
             b - a >= 122 => d1 + 4 * (b - a) < d2, L - b >= 122 => d2 + 4 * (L - b) < e
      PROVE  SpacedOut(Timed(l, a, b, d1, d2))
  <2>1. /\ Timed(l, a, b, d1, d2).lease.t1 = a /\ Timed(l, a, b, d1, d2).lease.t2 = b
        /\ Timed(l, a, b, d1, d2).lease.lifetime = L
        /\ Timed(l, a, b, d1, d2).t1 = d1 /\ Timed(l, a, b, d1, d2).t2 = d2
    BY DEF Timed
  <2> QED BY <1>2, <2>1 DEF Spaced
<1> HIDE DEF e, SpacedOut
<1>3. SpacedOut(Defaults(l, j1, j2))
  BY <1>1, <1>2, DefaultsSpaced DEF Defaults, e
<1>4. CASE l.t1 > 0 /\ l.t2 > 0
  <2>1. SpacedOut(BothGiven(l, j1, j2))
    BY <1>1, <1>2, <1>3, GivenSpaced DEF BothGiven, e
  <2> QED BY <1>4, <2>1 DEF Computed, SpacedOut, e
<1>5. CASE ~(l.t1 > 0 /\ l.t2 > 0) /\ l.t2 > 0 /\ l.t2 < L
  <2>1. SpacedOut(OnlyT2(l, j1, j2, j3))
    <3>1. CASE client_compute_timeout(l.t2, 8, j2) <= client_compute_timeout(L, 4, j1)
      BY <1>1, <1>2, <3>1, DefaultsSpaced DEF OnlyT2, e
    <3>2. CASE ~(client_compute_timeout(l.t2, 8, j2) <= client_compute_timeout(L, 4, j1))
      <4>1. SpacedOut(Timed(l, DefaultT1(L), l.t2, client_compute_timeout(L, 4, j1), client_compute_timeout(l.t2, 8, j2)))
        BY <1>1, <1>2, MixedSpaced, GivenSpaced DEF e
      <4> QED BY <3>2, <4>1 DEF OnlyT2
    <3> QED BY <3>1, <3>2
  <2> QED BY <1>5, <2>1 DEF Computed, SpacedOut, e
<1>6. CASE ~(l.t1 > 0 /\ l.t2 > 0) /\ ~(l.t2 > 0 /\ l.t2 < L) /\ l.t1 > 0 /\ l.t1 < L
  <2>1. client_compute_timeout(l.t1, 8, MaxJitter) < client_compute_timeout(L, 7, 0)
    BY <1>1, <1>6 DEF Settled, ClearT1
  <2>2. ~(client_compute_timeout(L, 7, j2) <= client_compute_timeout(l.t1, 8, j1))
    BY <1>1, <2>1, OnlyT1Ordered
  <2>3. SpacedOut(Timed(l, l.t1, DefaultT2(L), client_compute_timeout(l.t1, 8, j1), client_compute_timeout(L, 7, j2)))
    BY <1>1, <1>2, MixedSpaced, DefaultsSpaced DEF e
  <2> QED BY <1>6, <2>2, <2>3 DEF Computed, OnlyT1, SpacedOut, e
<1>7. CASE ~(l.t1 > 0 /\ l.t2 > 0) /\ ~(l.t2 > 0 /\ l.t2 < L) /\ ~(l.t1 > 0 /\ l.t1 < L)
  BY <1>3, <1>7 DEF Computed, SpacedOut, e
<1> QED BY <1>4, <1>5, <1>6, <1>7

LEMMA OrderNext == TimersInv /\ OrderInv /\ [TimersNext]_timerVars => OrderInv'
<1> SUFFICES ASSUME TimersInv, OrderInv, [TimersNext]_timerVars PROVE OrderInv'
  OBVIOUS
<1>1. ASSUME NEW j1 \in Jitters, NEW j2 \in Jitters, NEW j3 \in Jitters, NEW je \in Jitters,
             client_set_lease_timeouts(j1, j2, j3, je)
      PROVE  OrderInv'
  <2>1. /\ j1 \in 0 .. MaxJitter /\ j2 \in 0 .. MaxJitter /\ j3 \in 0 .. MaxJitter
        /\ je \in 0 .. MaxJitter
        /\ granted \in [lifetime : Nat \ {0}, t1 : Nat, t2 : Nat] /\ lease = granted
    BY <1>1, TimerAssumption DEF TimersInv, client_set_lease_timeouts
  <2>2. /\ granted' = granted /\ state' = "BOUND"
        /\ lease' = IF granted.lifetime = Infinite THEN granted ELSE Computed(granted, j1, j2, j3).lease
        /\ granted.lifetime = Infinite => armed' = {}
        /\ due' = [t1 |-> Computed(granted, j1, j2, j3).t1, t2 |-> Computed(granted, j1, j2, j3).t2,
                   expire |-> client_compute_timeout(granted.lifetime, 8, je)]
    BY <1>1, <2>1 DEF client_set_lease_timeouts, Armed
  <2>3. Settled(granted)' = Settled(granted)
    BY <2>2 DEF Settled, ClearT1, client_compute_timeout, MaxJitter
  <2>4. Settled(granted) => Ordered(Computed(granted, j1, j2, j3).lease, granted.lifetime)
    BY <2>1, ComputedOrdered
  <2>5. Settled(granted) => Spaced(Computed(granted, j1, j2, j3).lease, due'.t1, due'.t2, due'.expire)
    BY <2>1, <2>2, ComputedSpaced
  <2> QED BY <2>2, <2>3, <2>4, <2>5 DEF OrderInv, Ordered, Spaced
<1>2. ASSUME NEW t \in {"t1", "t2", "expire"}, Fire(t) PROVE OrderInv'
  <2>1. UNCHANGED <<granted, lease, due>> /\ t \in armed /\ state # "ACK"
    BY <1>2 DEF Fire, TimersInv
  <2>2. Settled(granted)' = Settled(granted)
    BY <2>1 DEF Settled, ClearT1, client_compute_timeout, MaxJitter
  <2> QED BY <2>1, <2>2 DEF OrderInv, Ordered, Spaced
<1>3. CASE UNCHANGED timerVars
  BY <1>3 DEF timerVars, OrderInv, Ordered, Spaced, Settled, ClearT1, client_compute_timeout, MaxJitter
<1> QED BY <1>1, <1>2, <1>3 DEF TimersNext

(* Neither t2 - t1 nor lifetime - t2 wraps around when                     *)
(* client_timeout_resend halves it, so a wait longer than the minimum ends *)
(* before the next timer, if lifetime * 7 fits in a word.                  *)
THEOREM ResendsWithinLease == TimersSpec => []ResendWithinLease
<1>1. TimersInit => OrderInv
  BY DEF TimersInit, OrderInv
<1>2. TimersInv /\ OrderInv => ResendWithinLease
  <2> SUFFICES ASSUME TimersInv, OrderInv, state \in {"RENEWING", "REBINDING"}, Settled(granted), ResendWait > 60
               PROVE  /\ state = "RENEWING" => due.t1 + 8 * ResendWait < due.t2
                      /\ state = "REBINDING" => due.t2 + 8 * ResendWait < due.expire
    BY DEF ResendWithinLease, Settled
  <2>1. granted.lifetime \in Nat /\ granted.lifetime < Word /\ Word \in Nat \ {0}
    BY TimerAssumption DEF TimersInv, Settled
  <2>2. Ordered(lease, granted.lifetime) /\ Spaced(lease, due.t1, due.t2, due.expire)
    BY DEF OrderInv
  <2>3. ASSUME NEW x \in Nat, NEW y \in Nat, x <= y, y <= granted.lifetime
        PROVE  (y + Word - x) % Word = y - x
    <3>1. y - x \in 0 .. Word - 1 /\ y + Word - x = 1 * Word + (y - x)
      BY <2>1, <2>3
    <3>2. (1 * Word + (y - x)) % Word = y - x
      BY <2>1, <3>1
    <3> QED BY <3>1, <3>2
  <2>4. /\ (lease.t2 + Word - lease.t1) % Word = lease.t2 - lease.t1
        /\ (lease.lifetime + Word - lease.t2) % Word = lease.lifetime - lease.t2
    <3>1. /\ lease.t1 \in Nat /\ lease.t2 \in Nat /\ lease.lifetime \in Nat
          /\ lease.t1 <= lease.t2 /\ lease.t2 <= lease.lifetime
          /\ lease.t2 <= granted.lifetime /\ lease.lifetime <= granted.lifetime
      BY <2>1, <2>2 DEF Ordered
    <3> QED BY <2>3, <3>1, Zenon
  <2>5. due.t1 \in Nat /\ due.t2 \in Nat /\ due.expire \in Nat
    BY DEF TimersInv
  <2>6. CASE state = "RENEWING"
    <3>1. ResendWait = IF (lease.t2 - lease.t1) \div 2 < 60 THEN 60 ELSE (lease.t2 - lease.t1) \div 2
      BY <2>4, <2>6 DEF ResendWait
    <3>2. lease.t2 - lease.t1 \in Nat /\ lease.t2 - lease.t1 >= 122 /\ 8 * ResendWait <= 4 * (lease.t2 - lease.t1)
      BY <2>2, <3>1 DEF Ordered
    <3> QED BY <2>2, <2>5, <2>6, <3>1, <3>2 DEF Spaced
  <2>7. CASE state = "REBINDING"
    <3>1. ResendWait = IF (lease.lifetime - lease.t2) \div 2 < 60 THEN 60 ELSE (lease.lifetime - lease.t2) \div 2
      BY <2>4, <2>7 DEF ResendWait
    <3>2. /\ lease.lifetime - lease.t2 \in Nat /\ lease.lifetime - lease.t2 >= 122
          /\ 8 * ResendWait <= 4 * (lease.lifetime - lease.t2)
      BY <2>1, <2>2, <3>1 DEF Ordered
    <3> QED BY <2>2, <2>5, <2>7, <3>1, <3>2 DEF Spaced
  <2> QED BY <2>6, <2>7
<1> QED BY <1>1, <1>2, OrderNext, TimersInvariant, PTL DEF TimersSpec

=============================================================================
