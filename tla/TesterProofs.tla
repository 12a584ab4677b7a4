---------------------------- MODULE TesterProofs ----------------------------
(***************************************************************************)
(* Proofs about Tester, for any number of tests and of connections: its    *)
(* type invariant, that tests do not overlap, and that a profile is whole  *)
(* unless two handlers of client.c race.                                   *)
(***************************************************************************)
EXTENDS Tester, FiniteSetTheorems, TLAPS

(* Where a test begins there is one to begin; the poller has forgotten a   *)
(* Popen when it waits for it; and it stays in _sig_handler once there.     *)
PollerInv ==
  /\ popen \in [Kind -> 0 .. tests]
  /\ ppc \in {"dump", "record"} => tests \in Test
  /\ ppc = "record" => proc[kind][tests] # "none"
  /\ ppc = "forget" => popen[kind] # None
  /\ handling => stopped /\ ppc \in {"terminate", "forget", "wait", "exit"}

(* SIGTERMs to a tester: one of the poller, one of the collector and one   *)
(* of the poller's handler.                                                *)
TermsInv ==
  /\ ~handling => \A t \in Test :
       /\ terms[t] <= 1
       /\ popen["tester"] = t /\ ~(ppc = "forget" /\ kind = "tester") => terms[t] = 0
       /\ t > tests \/ (t = tests /\ ppc \in {"dump", "record"}) => terms[t] = 0
  /\ handling /\ ppc = "terminate" /\ kind = "tester" => \A t \in Test : terms[t] <= 2

(* The poller knows what runs, and between two tests it knows both         *)
(* processes of a test or none.                                            *)
KnownInv ==
  /\ \A k \in Kind, t \in Test : Alive(k, t) => t = tests
  /\ ~handling =>
       /\ \A k \in Kind, t \in Test : Alive(k, t) =>
            popen[k] = t \/ (ppc = "record" /\ kind = k) \/ (ppc = "wait" /\ kind = k /\ tmp = t)
       /\ ppc \in {"fork", "poll"} /\ popen["tester"] = None => popen["dumper"] = None
       /\ ppc \in {"terminate", "forget", "wait"} /\ kind = "dumper" => popen["tester"] = None
       /\ ppc = "wait" => popen[kind] = None

(* A handler past its check, and what it has written, has seen every       *)
(* connection established.                                                 *)
EstablishedInv ==
  \A t \in Test :
    /\ profile[t] # "none" => Established(t)
    /\ \A h \in Handler : hpc[t][h] \in {"write", "free", "exit"} => Established(t)

(* After one SIGTERM at most one handler runs, the first; a truncated      *)
(* profile is one it has yet to write.                                     *)
OneHandlerInv ==
  \A t \in Test : terms[t] <= 1 =>
    /\ \A h \in Handler : hpc[t][h] # "none" => h = 1 /\ t \notin pending /\ terms[t] = 1
    /\ t \in pending => terms[t] = 1
    /\ t \in freed => hpc[t][1] = "exit"
    /\ profile[t] = "cut" => hpc[t][1] = "write"
    /\ proc["tester"][t] = "dead" => hpc[t][1] = "none"

(* The inductive invariant.                                                *)
TesterInv == TesterTypeOK /\ PollerInv /\ TermsInv /\ KnownInv /\ EstablishedInv /\ OneHandlerInv

(* It holds at the start.                                                  *)
LEMMA TesterInvInit == TesterInit => TesterInv
<1> SUFFICES ASSUME TesterInit PROVE TesterInv
  OBVIOUS
<1> USE TesterAssumption DEF TesterInit, Test, Kind, Handler, None, Alive
<1>1. proc \in [Kind -> [Test -> {"none", "boot", "run", "term", "dead"}]]
  OBVIOUS
<1>2. conn \in [Test -> [Conn -> {"idle", "up", "over"}]]
  OBVIOUS
<1>3. hpc \in [Test -> [Handler -> {"none", "scan", "write", "free", "exit"}]]
  OBVIOUS
<1>4. terms \in [Test -> 0 .. 3] /\ profile \in [Test -> {"none", "cut", "whole"}]
  OBVIOUS
<1>5. ip \in BOOLEAN /\ stopped \in BOOLEAN /\ lost \in BOOLEAN /\ handling \in BOOLEAN /\ ~handling
  BY Zenon
<1>6. TesterTypeOK
  BY <1>1, <1>2, <1>3, <1>4, <1>5 DEF TesterTypeOK
<1>7. PollerInv
  BY <1>5 DEF PollerInv
<1>8. TermsInv /\ KnownInv /\ EstablishedInv /\ OneHandlerInv
  BY DEF TermsInv, KnownInv, EstablishedInv, OneHandlerInv
<1> QED BY <1>6, <1>7, <1>8 DEF TesterInv

(* The types of what the tester and tcpdump change.                        *)
ClientTypes ==
  /\ proc \in [Kind -> [Test -> {"none", "boot", "run", "term", "dead"}]]
  /\ conn \in [Test -> [Conn -> {"idle", "up", "over"}]]
  /\ hpc \in [Test -> [Handler -> {"none", "scan", "write", "free", "exit"}]]
  /\ pending \subseteq Test /\ freed \subseteq Test
  /\ profile \in [Test -> {"none", "cut", "whole"}]

(* A step of the tester or the tcpdump of a test.                          *)
ClientStep(t) ==
  \/ Client(t) \/ DumperEnds(t)
  \/ \E c \in Conn : Connect(t, c) \/ ConnectFails(t, c) \/ ConnectionEnds(t, c)

(* A tester that exits is dead, and no other process changes.              *)
LEMMA ExitsShape ==
  ASSUME ClientTypes, NEW t \in Test, Alive("tester", t), Exits(t)
  PROVE  /\ proc' \in [Kind -> [Test -> {"none", "boot", "run", "term", "dead"}]]
         /\ hpc' \in [Test -> [Handler -> {"none", "scan", "write", "free", "exit"}]]
         /\ pending' \subseteq Test /\ freed' \subseteq Test
         /\ \A k \in Kind, u \in Test :
              (proc'[k][u] = "none" <=> proc[k][u] = "none") /\ (Alive(k, u)' => Alive(k, u))
BY DEF ClientTypes, Exits, Alive, Kind

(* A step of a test keeps the types, does not touch the poller, and starts *)
(* no process.                                                             *)
LEMMA ClientShape ==
  ASSUME ClientTypes, NEW t \in Test, ClientStep(t)
  PROVE  /\ ClientTypes'
         /\ UNCHANGED <<groupVars, ip, pollerVars, terms>>
         /\ \A k \in Kind, u \in Test :
              (proc'[k][u] = "none" <=> proc[k][u] = "none") /\ (Alive(k, u)' => Alive(k, u))
<1> USE DEF signalVars, clientVars
<1>1. CASE DumperEnds(t)
  BY <1>1 DEF DumperEnds, Alive, Kind, ClientTypes
<1>2. CASE Boot(t)
  <2>1. CASE Exits(t)
    BY <1>2, <2>1, ExitsShape DEF Boot, ClientTypes, Alive
  <2>2. CASE proc' = [proc EXCEPT !["tester"][t] = "run"] /\ UNCHANGED <<pending, freed, hpc>>
    BY <1>2, <2>2 DEF Boot, Alive, Kind, ClientTypes
  <2> QED BY <1>2, <2>1, <2>2 DEF Boot
<1>3. ASSUME NEW c \in Conn, Connect(t, c) \/ ConnectionEnds(t, c)
      PROVE  conn' \in [Test -> [Conn -> {"idle", "up", "over"}]]
             /\ UNCHANGED <<groupVars, ip, pollerVars, proc, hpc, freed, profile, signalVars>>
  <2>1. CASE Connect(t, c)
    BY <2>1 DEF Connect, ClientTypes
  <2>2. CASE ConnectionEnds(t, c)
    BY <2>2 DEF ConnectionEnds, ClientTypes
  <2> QED BY <1>3, <2>1, <2>2
<1>4. ASSUME NEW c \in Conn, ConnectFails(t, c)
      PROVE  Exits(t) /\ Alive("tester", t) /\ UNCHANGED <<groupVars, ip, pollerVars, conn, profile, terms>>
  BY <1>4 DEF ConnectFails, Runs, Alive
<1>5. ASSUME NEW h \in Handler, SigHandler(t, h)
      PROVE  /\ \/ Exits(t) /\ Alive("tester", t)
                \/ /\ UNCHANGED proc /\ pending' \subseteq Test /\ freed' \subseteq Test
                   /\ hpc' \in [Test -> [Handler -> {"none", "scan", "write", "free", "exit"}]]
             /\ profile' \in [Test -> {"none", "cut", "whole"}]
             /\ UNCHANGED <<groupVars, ip, pollerVars, conn, terms>>
  <2> USE DEF ClientTypes, Runs, Alive, At, Step
  <2>1. CASE Deliver(t, h)
    BY <2>1 DEF Deliver
  <2>2. CASE Scan(t, h)
    <3>1. CASE Established(t)
      <4>1. /\ profile' = [profile EXCEPT ![t] = "cut"] /\ hpc' = [hpc EXCEPT ![t][h] = "write"]
            /\ UNCHANGED <<proc, pending, freed, groupVars, ip, pollerVars, conn, terms>>
        BY <2>2, <3>1 DEF Scan
      <4> QED BY <4>1
    <3>2. CASE ~Established(t)
      BY <2>2, <3>2 DEF Scan
    <3> QED BY <3>1, <3>2
  <2>3. CASE Write(t, h)
    BY <2>3 DEF Write
  <2>4. CASE Free(t, h)
    BY <2>4 DEF Free
  <2>5. CASE Exit(t, h)
    BY <2>5 DEF Exit
  <2>6. CASE UseAfterFree(t, h)
    BY <2>6 DEF UseAfterFree
  <2> QED BY <1>5, <2>1, <2>2, <2>3, <2>4, <2>5, <2>6 DEF SigHandler
<1>6. ASSUME NEW h \in Handler, SigHandler(t, h)
      PROVE  /\ ClientTypes'
             /\ UNCHANGED <<groupVars, ip, pollerVars, terms>>
             /\ \A k \in Kind, u \in Test :
                  (proc'[k][u] = "none" <=> proc[k][u] = "none") /\ (Alive(k, u)' => Alive(k, u))
  BY <1>5, <1>6, ExitsShape DEF ClientTypes, Alive
<1>7. ASSUME NEW c \in Conn, Connect(t, c) \/ ConnectFails(t, c) \/ ConnectionEnds(t, c)
      PROVE  /\ ClientTypes'
             /\ UNCHANGED <<groupVars, ip, pollerVars, terms>>
             /\ \A k \in Kind, u \in Test :
                  (proc'[k][u] = "none" <=> proc[k][u] = "none") /\ (Alive(k, u)' => Alive(k, u))
  BY <1>3, <1>4, <1>7, ExitsShape DEF ClientTypes, Alive
<1> QED BY <1>1, <1>2, <1>6, <1>7 DEF ClientStep, Client

(* So it keeps what the poller relies on.                                  *)
LEMMA ClientKeepsPoller ==
  ASSUME TesterTypeOK, PollerInv, TermsInv, KnownInv, NEW t \in Test, ClientStep(t)
  PROVE  TesterTypeOK' /\ PollerInv' /\ TermsInv' /\ KnownInv'
<1>1. /\ ClientTypes'
      /\ UNCHANGED <<groupVars, ip, pollerVars, terms>>
      /\ \A k \in Kind, u \in Test :
           (proc'[k][u] = "none" <=> proc[k][u] = "none") /\ (Alive(k, u)' => Alive(k, u))
  BY ClientShape DEF TesterTypeOK, ClientTypes
<1>2. TesterTypeOK'
  BY <1>1 DEF TesterTypeOK, ClientTypes, pollerVars, groupVars, Kind
<1>3. PollerInv'
  BY <1>1 DEF TesterTypeOK, PollerInv, pollerVars, groupVars, Test
<1>4. TermsInv'
  BY <1>1 DEF TermsInv, pollerVars
<1>5. KnownInv'
  BY <1>1 DEF KnownInv, pollerVars
<1> QED BY <1>2, <1>3, <1>4, <1>5

(* SIGTERM starts and ends no process by itself.                           *)
LEMMA SignalShape ==
  ASSUME TesterTypeOK, NEW S \in SUBSET Test, NEW D \in SUBSET Test, Signal(S, D),
         \A t \in D : Alive("dumper", t)
  PROVE  /\ proc' \in [Kind -> [Test -> {"none", "boot", "run", "term", "dead"}]]
         /\ proc'["tester"] = proc["tester"]
         /\ pending' = pending \cup S
         /\ DOMAIN terms' = Test
         /\ \A t \in Test : terms'[t] = IF t \in S THEN terms[t] + 1 ELSE terms[t]
         /\ \A k \in Kind, t \in Test :
              (proc'[k][t] = "none" <=> proc[k][t] = "none") /\ (Alive(k, t)' <=> Alive(k, t))
<1>1. /\ proc'["tester"] = proc["tester"]
      /\ proc'["dumper"] = [t \in Test |-> IF t \in D THEN "term" ELSE proc["dumper"][t]]
      /\ DOMAIN proc' = Kind
  BY DEF Signal, Terminated, TesterTypeOK, Kind
<1>2. \A t \in Test : proc'["dumper"][t] = IF t \in D THEN "term" ELSE proc["dumper"][t]
  BY <1>1
<1>3. proc' = [k \in Kind |-> proc'[k]]
  BY DEF Signal, Terminated, TesterTypeOK
<1>4. proc' \in [Kind -> [Test -> {"none", "boot", "run", "term", "dead"}]]
  BY <1>1, <1>3 DEF TesterTypeOK, Kind
<1> QED BY <1>1, <1>2, <1>4 DEF Signal, Alive, Kind

(* What the poller's steps preserve by themselves.                         *)
BaseInv == TesterTypeOK /\ PollerInv /\ TermsInv /\ KnownInv

(* run gets to its loop.                                                   *)
LEMMA InstallKeeps == BaseInv /\ Install => BaseInv'
<1> SUFFICES ASSUME BaseInv, Install PROVE BaseInv'
  OBVIOUS
<1> USE TesterAssumption DEF BaseInv, Install, clientVars, signalVars, groupVars, None
<1>1. TesterTypeOK'
  BY DEF TesterTypeOK
<1>2. PollerInv'
  BY DEF TesterTypeOK, PollerInv
<1>3. TermsInv'
  BY DEF TesterTypeOK, PollerInv, TermsInv
<1>4. KnownInv'
  BY DEF TesterTypeOK, PollerInv, KnownInv, Alive
<1> QED BY <1>1, <1>2, <1>3, <1>4

(* run: a test begins when the poller knows of no process, and then there  *)
(* is none.                                                                *)
LEMMA PollKeeps == BaseInv /\ Poll => BaseInv'
<1> SUFFICES ASSUME BaseInv, Poll PROVE BaseInv'
  OBVIOUS
<1> USE TesterAssumption DEF BaseInv, Poll, clientVars, signalVars, groupVars, Test, Kind, None
<1>1. TesterTypeOK'
  BY DEF TesterTypeOK
<1>2. PollerInv'
  BY DEF TesterTypeOK, PollerInv
<1>3. TermsInv'
  BY DEF TesterTypeOK, PollerInv, TermsInv
<1>4. KnownInv'
  BY DEF TesterTypeOK, PollerInv, KnownInv, Alive
<1> QED BY <1>1, <1>2, <1>3, <1>4

(* Popen: the process of the last test is about to be recorded.            *)
LEMMA SpawnKeeps == BaseInv /\ Spawn => BaseInv'
<1> SUFFICES ASSUME BaseInv, Spawn PROVE BaseInv'
  OBVIOUS
<1> USE TesterAssumption DEF BaseInv, Spawn, Started, clientVars, signalVars, groupVars, None
<1>0. ~handling /\ tests \in Test /\ kind \in Kind
  BY DEF TesterTypeOK, PollerInv
<1>1. TesterTypeOK'
  BY <1>0 DEF TesterTypeOK
<1>2. PollerInv'
  BY <1>0 DEF TesterTypeOK, PollerInv
<1>3. TermsInv'
  BY <1>0 DEF TesterTypeOK, TermsInv
<1>4. KnownInv'
  BY <1>0 DEF TesterTypeOK, PollerInv, KnownInv, Alive
<1> QED BY <1>1, <1>2, <1>3, <1>4

(* The Popen is recorded in _tcp_dumper or _tcp_tester.                    *)
LEMMA RecordKeeps == BaseInv /\ Record => BaseInv'
<1> SUFFICES ASSUME BaseInv, Record PROVE BaseInv'
  OBVIOUS
<1> USE TesterAssumption DEF BaseInv, Record, clientVars, signalVars, groupVars, None
<1>0. ~handling /\ tests \in Test /\ kind \in Kind /\ tests \in Nat
  BY DEF TesterTypeOK, PollerInv, Test
<1>1. TesterTypeOK'
  BY <1>0 DEF TesterTypeOK, PollerInv, Kind
<1>2. PollerInv'
  BY <1>0 DEF TesterTypeOK, PollerInv, Kind
<1>3. TermsInv'
  BY <1>0 DEF TesterTypeOK, PollerInv, TermsInv, Kind
<1>4. KnownInv'
  BY <1>0 DEF TesterTypeOK, PollerInv, KnownInv, Alive, Kind, Test
<1> QED BY <1>1, <1>2, <1>3, <1>4

(* The Popen moves from the attribute to the local variable.               *)
LEMMA ForgetKeeps == BaseInv /\ Forget => BaseInv'
<1> SUFFICES ASSUME BaseInv, Forget PROVE BaseInv'
  OBVIOUS
<1> USE TesterAssumption DEF BaseInv, Forget, Forgotten, clientVars, signalVars, groupVars, None
<1>1. TesterTypeOK'
  BY DEF TesterTypeOK, PollerInv, Kind
<1>2. PollerInv'
  BY DEF TesterTypeOK, PollerInv, Kind
<1>3. TermsInv'
  BY DEF TesterTypeOK, PollerInv, TermsInv, Kind, Test
<1>4. KnownInv'
  BY DEF TesterTypeOK, PollerInv, KnownInv, Alive, Kind, Test
<1> QED BY <1>1, <1>2, <1>3, <1>4

(* wait returns when the process has ended: what is no longer known is     *)
(* dead.                                                                   *)
LEMMA WaitKeeps == BaseInv /\ Wait => BaseInv'
<1> SUFFICES ASSUME BaseInv, Wait PROVE BaseInv'
  OBVIOUS
<1> USE TesterAssumption DEF BaseInv, Wait, Waited, GoOn, clientVars, signalVars, groupVars, None
<1>1. TesterTypeOK'
  BY DEF TesterTypeOK, PollerInv, Kind
<1>2. PollerInv'
  BY DEF TesterTypeOK, PollerInv, Kind
<1>3. TermsInv'
  BY DEF TesterTypeOK, PollerInv, TermsInv, Kind, Test
<1>4. KnownInv'
  BY DEF TesterTypeOK, PollerInv, KnownInv, Alive, Kind, Test
<1> QED BY <1>1, <1>2, <1>3, <1>4

(* The poller, or its handler, terminates a process it knows: a tester is  *)
(* terminated once by each.                                                *)
LEMMA TerminateKeeps == BaseInv /\ Terminate => BaseInv'
<1> SUFFICES ASSUME BaseInv, Terminate PROVE BaseInv'
  OBVIOUS
<1> USE TesterAssumption DEF BaseInv, clientVars, groupVars, None
<1>1. CASE popen[kind] = None
  <2> USE <1>1 DEF Terminate, GoOn, signalVars
  <2>1. TesterTypeOK'
    BY DEF TesterTypeOK, PollerInv, Kind
  <2>2. PollerInv'
    BY DEF TesterTypeOK, PollerInv, Kind
  <2>3. TermsInv'
    BY DEF TesterTypeOK, PollerInv, TermsInv, Kind, Test
  <2>4. KnownInv'
    BY DEF TesterTypeOK, PollerInv, KnownInv, Alive, Kind, Test
  <2> QED BY <2>1, <2>2, <2>3, <2>4
<1>2. CASE popen[kind] # None
  <2> DEFINE them == {t \in {popen[kind]} : Alive(kind, t)}
             S == IF kind = "tester" THEN them ELSE {}
             D == IF kind = "dumper" THEN them ELSE {}
  <2>0. popen[kind] \in Test /\ them \subseteq {popen[kind]} /\ (\A t \in them : Alive(kind, t))
    BY <1>2 DEF TesterTypeOK
  <2>1. S \in SUBSET Test /\ D \in SUBSET Test /\ \A t \in D : Alive("dumper", t)
    BY <2>0
  <2>2. /\ ppc = "terminate" /\ ppc' = "forget" /\ Signal(S, D)
        /\ UNCHANGED <<kind, ip, groupVars, handling, locked, popen, tmp, tests, clientVars>>
    BY <1>2 DEF Terminate
  <2>3. \A t \in S : t = popen["tester"] /\ kind = "tester"
    OBVIOUS
  <2> HIDE DEF them, S, D
  <2>4. /\ proc' \in [Kind -> [Test -> {"none", "boot", "run", "term", "dead"}]]
        /\ pending' = pending \cup S
        /\ terms' = [t \in Test |-> IF t \in S THEN terms[t] + 1 ELSE terms[t]]
        /\ \A k \in Kind, t \in Test :
             (proc'[k][t] = "none" <=> proc[k][t] = "none") /\ (Alive(k, t)' <=> Alive(k, t))
    BY <2>1, <2>2, SignalShape DEF Signal
  <2>5. \A t \in Test : terms[t] \in 0 .. 3 /\ (t \in S => terms[t] <= 2)
    BY <2>2, <2>3 DEF TesterTypeOK, TermsInv, PollerInv
  <2>6. TesterTypeOK'
    BY <2>1, <2>2, <2>4, <2>5, <1>2 DEF TesterTypeOK, PollerInv, Kind, Test
  <2>7. PollerInv'
    BY <2>2, <2>4, <1>2 DEF TesterTypeOK, PollerInv, Kind
  <2>8. TermsInv'
    BY <2>2, <2>3, <2>4, <2>5 DEF TesterTypeOK, PollerInv, TermsInv, Kind, Test
  <2>9. KnownInv'
    BY <2>2, <2>4 DEF TesterTypeOK, PollerInv, KnownInv, Kind, Test
  <2> QED BY <2>6, <2>7, <2>8, <2>9
<1> QED BY <1>1, <1>2

(* os.killpg of the collector, handled: one more SIGTERM, and no further   *)
(* test.                                                                   *)
LEMMA HandledKeeps == BaseInv /\ GroupSignalled /\ SignalHandled => BaseInv'
<1> SUFFICES ASSUME BaseInv, GroupSignalled, SignalHandled PROVE BaseInv'
  OBVIOUS
<1> USE TesterAssumption DEF BaseInv, clientVars, None
<1> DEFINE S == {t \in Test : Alive("tester", t)}
<1>1. /\ ~stopped /\ stopped' = TRUE /\ handling' = TRUE /\ ppc' = "terminate" /\ kind' = "tester"
      /\ Signal(S, Dumpers)
      /\ UNCHANGED <<ip, lost, popen, tmp, tests, clientVars>>
  BY DEF GroupSignalled, SignalHandled, Interrupted
<1>2. S \in SUBSET Test /\ Dumpers \in SUBSET Test /\ \A t \in Dumpers : Alive("dumper", t)
  BY DEF Dumpers
<1> HIDE DEF S
<1>3. /\ proc' \in [Kind -> [Test -> {"none", "boot", "run", "term", "dead"}]]
      /\ pending' = pending \cup S
      /\ terms' = [t \in Test |-> IF t \in S THEN terms[t] + 1 ELSE terms[t]]
      /\ \A k \in Kind, t \in Test :
           (proc'[k][t] = "none" <=> proc[k][t] = "none") /\ (Alive(k, t)' <=> Alive(k, t))
  BY <1>1, <1>2, SignalShape DEF Signal
<1>4. \A t \in Test : terms[t] \in 0 .. 1 /\ terms'[t] \in 0 .. 2
  BY <1>1, <1>3 DEF TesterTypeOK, PollerInv, TermsInv
<1>5. TesterTypeOK'
  BY <1>1, <1>2, <1>3, <1>4 DEF TesterTypeOK, Kind
<1>6. PollerInv'
  BY <1>1 DEF TesterTypeOK, PollerInv
<1>7. TermsInv'
  BY <1>1, <1>4 DEF TermsInv
<1>8. KnownInv'
  BY <1>1, <1>3 DEF KnownInv
<1> QED BY <1>5, <1>6, <1>7, <1>8

(* The Initiator's handler passes: the poller goes on as before.           *)
LEMMA PassedKeeps == BaseInv /\ GroupSignalled /\ SignalPassed => BaseInv'
<1> SUFFICES ASSUME BaseInv, GroupSignalled, SignalPassed PROVE BaseInv'
  OBVIOUS
<1>1. stopped' = TRUE /\ lost' = TRUE /\ UNCHANGED <<ip, pollerVars, proc, clientVars, signalVars>>
  BY DEF GroupSignalled, SignalPassed
<1> USE <1>1 DEF BaseInv, pollerVars, clientVars, signalVars
<1>2. TesterTypeOK'
  BY DEF TesterTypeOK
<1>3. PollerInv'
  BY DEF PollerInv
<1>4. TermsInv' /\ KnownInv'
  BY DEF TermsInv, KnownInv, Alive
<1> QED BY <1>2, <1>3, <1>4

(* The child that Popen leaves behind belongs to the last test, and there  *)
(* is no further one.                                                      *)
LEMMA InPopenKeeps == BaseInv /\ GroupSignalled /\ SignalInPopen => BaseInv'
<1> SUFFICES ASSUME BaseInv, GroupSignalled, SignalInPopen PROVE BaseInv'
  OBVIOUS
<1> USE TesterAssumption DEF BaseInv, clientVars, signalVars, None
<1>1. /\ ~stopped /\ stopped' = TRUE /\ lost' = TRUE /\ handling' = TRUE
      /\ ppc = "dump" /\ ppc' = "terminate" /\ kind' = "tester"
      /\ UNCHANGED <<ip, popen, tmp, tests, conn, hpc, freed, profile, pending, terms>>
  BY DEF GroupSignalled, SignalInPopen, Interrupted
<1>2. tests \in Test /\ kind \in Kind /\ ~handling
  BY <1>1 DEF TesterTypeOK, PollerInv
<1> DEFINE P == Terminated(Dumpers)
<1>3. /\ P \in [Kind -> [Test -> {"none", "boot", "run", "term", "dead"}]]
      /\ \A k \in Kind, t \in Test :
           (P[k][t] = "none" <=> proc[k][t] = "none") /\ (P[k][t] = "dead" <=> proc[k][t] = "dead")
  <2>1. /\ P["tester"] = proc["tester"] /\ DOMAIN P = Kind
        /\ P["dumper"] = [t \in Test |-> IF t \in Dumpers THEN "term" ELSE proc["dumper"][t]]
    BY DEF Terminated, TesterTypeOK, Kind
  <2>2. P = [k \in Kind |-> P[k]]
    BY DEF Terminated, TesterTypeOK
  <2>3. P \in [Kind -> [Test -> {"none", "boot", "run", "term", "dead"}]]
    BY <2>1, <2>2 DEF TesterTypeOK, Kind
  <2> QED BY <2>1, <2>3 DEF Dumpers, Alive, Kind
<1> HIDE DEF P
<1>4. proc' = [P EXCEPT ![kind][tests] = Started] /\ Started \in {"boot", "run"}
  BY DEF SignalInPopen, Started, P
<1>5. /\ proc' \in [Kind -> [Test -> {"none", "boot", "run", "term", "dead"}]]
      /\ \A k \in Kind, t \in Test :
           /\ proc'[k][t] = "none" => proc[k][t] = "none"
           /\ Alive(k, t)' => Alive(k, t) \/ t = tests
  BY <1>2, <1>3, <1>4 DEF Alive
<1>6. TesterTypeOK'
  BY <1>1, <1>5 DEF TesterTypeOK, Kind
<1>7. PollerInv'
  BY <1>1 DEF TesterTypeOK, PollerInv
<1>8. TermsInv'
  BY <1>1, <1>2 DEF TesterTypeOK, TermsInv
<1>9. KnownInv'
  BY <1>1, <1>5 DEF KnownInv
<1> QED BY <1>6, <1>7, <1>8, <1>9

(* What the handlers of client.c rely on.                                  *)
ProfileInv == EstablishedInv /\ OneHandlerInv

(* A first SIGTERM meets a tester without handlers; a second lifts the     *)
(* claim.                                                                  *)
LEMMA PollerKeepsProfile ==
  ASSUME BaseInv, ProfileInv, Poller \/ GroupSignalled \/ AddressChanges
  PROVE  ProfileInv'
<1> USE DEF BaseInv, ProfileInv
<1>1. UNCHANGED clientVars
  BY DEF Poller, Install, Poll, Spawn, Record, Terminate, Forget, Wait, GroupSignalled, AddressChanges
<1>2. EstablishedInv'
  BY <1>1 DEF EstablishedInv, Established, clientVars
<1>3. CASE UNCHANGED <<proc, signalVars>>
  BY <1>1, <1>2, <1>3 DEF OneHandlerInv, clientVars, signalVars
<1>4. CASE Spawn
  BY <1>1, <1>2, <1>4 DEF Spawn, Started, OneHandlerInv, clientVars, signalVars, TesterTypeOK, PollerInv, Kind
<1>5. ASSUME NEW S \in SUBSET Test, NEW D \in SUBSET Test, Signal(S, D)
      PROVE  ProfileInv'
  <2>1. \A t \in Test : terms[t] \in Nat /\ terms'[t] = IF t \in S THEN terms[t] + 1 ELSE terms[t]
    <3>1. terms \in [Test -> 0 .. 3] /\ terms' = [t \in Test |-> IF t \in S THEN terms[t] + 1 ELSE terms[t]]
      BY <1>5 DEF Signal, TesterTypeOK
    <3> QED BY <3>1
  <2>2. proc'["tester"] = proc["tester"] /\ pending' = pending \cup S
    BY <1>5 DEF Signal, Terminated, TesterTypeOK, Kind
  <2>3. OneHandlerInv'
    BY <1>1, <2>1, <2>2 DEF OneHandlerInv, clientVars, Handler
  <2> QED BY <1>2, <2>3
<1>6. CASE Terminate /\ popen[kind] # None
  <2>1. popen[kind] \in Test
    BY <1>6 DEF TesterTypeOK
  <2>2. {t \in {popen[kind]} : Alive(kind, t)} \in SUBSET Test
    BY <2>1
  <2> QED BY <1>5, <1>6, <2>2 DEF Terminate
<1>7. CASE SignalHandled
  BY <1>5, <1>7 DEF SignalHandled, Dumpers
<1>8. CASE SignalInPopen
  <2>1. \A t \in Test : proc'["tester"][t] = "dead" => proc["tester"][t] = "dead"
    BY <1>8 DEF SignalInPopen, Terminated, Started, TesterTypeOK, PollerInv, Kind
  <2> QED BY <1>1, <1>2, <1>8, <2>1 DEF SignalInPopen, OneHandlerInv, clientVars, signalVars
<1> QED BY <1>3, <1>4, <1>6, <1>7, <1>8
        DEF Poller, Install, Poll, GroupSignalled, SignalPassed, Record, Terminate, Forget, Wait, AddressChanges, signalVars

(* The end of a tester keeps the claim if the profile is in order then.    *)
LEMMA ExitsKeepsProfile ==
  ASSUME TesterTypeOK, ProfileInv, NEW t \in Test, Exits(t), UNCHANGED <<conn, terms>>,
         \A u \in Test \ {t} : profile'[u] = profile[u],
         profile'[t] # "none" => Established(t),
         terms[t] <= 1 => profile'[t] # "cut"
  PROVE  ProfileInv'
<1>1. /\ proc'["tester"] = [proc["tester"] EXCEPT ![t] = "dead"]
      /\ pending' = pending \ {t} /\ freed' = freed \ {t}
      /\ \A u \in Test \ {t} : hpc'[u] = hpc[u]
      /\ \A h \in Handler : hpc'[t][h] = "none"
  BY DEF Exits, TesterTypeOK, Kind
<1>2. EstablishedInv'
  BY <1>1 DEF ProfileInv, EstablishedInv, Established
<1>3. OneHandlerInv'
  BY <1>1 DEF ProfileInv, OneHandlerInv, TesterTypeOK, Handler
<1> QED BY <1>2, <1>3 DEF ProfileInv

(* The steps of client.c and its handler.  With one SIGTERM the handler    *)
(* that truncates the profile is the only one, so nobody exits before it   *)
(* has written.                                                            *)
LEMMA ClientKeepsProfile ==
  ASSUME TesterTypeOK, ProfileInv, NEW t \in Test, ClientStep(t)
  PROVE  ProfileInv'
<1> USE DEF clientVars, signalVars
<1>1. CASE DumperEnds(t)
  BY <1>1 DEF DumperEnds, TesterTypeOK, ProfileInv, EstablishedInv, Established, OneHandlerInv, Kind
<1>2. CASE Boot(t)
  <2>1. CASE t \in pending /\ Exits(t)
    BY <1>2, <2>1, ExitsKeepsProfile DEF Boot, ProfileInv, EstablishedInv, OneHandlerInv, Handler
  <2>2. CASE proc' = [proc EXCEPT !["tester"][t] = "run"] /\ UNCHANGED <<pending, freed, hpc>>
    BY <1>2, <2>2 DEF Boot, TesterTypeOK, ProfileInv, EstablishedInv, Established, OneHandlerInv, Kind
  <2> QED BY <1>2, <2>1, <2>2 DEF Boot
<1>3. ASSUME NEW c \in Conn, Connect(t, c) \/ ConnectionEnds(t, c)
      PROVE  ProfileInv'
  <2>1. /\ \A u \in Test : Established(u) => Established(u)'
        /\ UNCHANGED <<proc, hpc, freed, profile, signalVars>>
    <3>1. PICK s \in {"up", "over"} : conn' = [conn EXCEPT ![t][c] = s]
      BY <1>3 DEF Connect, ConnectionEnds
    <3>2. conn \in [Test -> [Conn -> {"idle", "up", "over"}]]
      BY DEF TesterTypeOK
    <3>3. \A u \in Test, d \in Conn : conn'[u][d] = "idle" => conn[u][d] = "idle"
      BY <3>1, <3>2
    <3>4. UNCHANGED <<proc, hpc, freed, profile, signalVars>>
      BY <1>3 DEF Connect, ConnectionEnds
    <3> QED BY <3>3, <3>4 DEF Established
  <2> QED BY <2>1 DEF ProfileInv, EstablishedInv, OneHandlerInv
<1>4. ASSUME NEW c \in Conn, ConnectFails(t, c)
      PROVE  ProfileInv'
  <2>1. ~Established(t)
    BY <1>4 DEF ConnectFails, Established
  <2> QED BY <1>4, <2>1, ExitsKeepsProfile DEF ConnectFails, ProfileInv, EstablishedInv
<1>5. ASSUME NEW h \in Handler, SigHandler(t, h)
      PROVE  ProfileInv'
  <2> USE DEF TesterTypeOK, At, Step, Runs
  <2>1. CASE Deliver(t, h)
    <3>1. terms[t] <= 1 => h = 1 /\ terms[t] = 1
      <4>1. ASSUME terms[t] <= 1 PROVE h = 1 /\ terms[t] = 1
        <5>1. Handlers(t) = {}
          BY <2>1, <4>1 DEF Deliver, Handlers, ProfileInv, OneHandlerInv
        <5>2. Cardinality({}) = 0
          BY FS_EmptySet
        <5> QED BY <2>1, <4>1, <5>1, <5>2 DEF Deliver, ProfileInv, OneHandlerInv
      <4> QED BY <4>1
    <3>2. EstablishedInv'
      BY <2>1 DEF Deliver, ProfileInv, EstablishedInv, Established
    <3>3. OneHandlerInv'
      BY <2>1, <3>1 DEF Deliver, ProfileInv, OneHandlerInv, Handler
    <3> QED BY <3>2, <3>3 DEF ProfileInv
  <2>2. CASE Scan(t, h) /\ Established(t)
    <3>1. /\ hpc[t][h] = "scan" /\ proc["tester"][t] = "run"
          /\ hpc' = [hpc EXCEPT ![t][h] = "write"] /\ profile' = [profile EXCEPT ![t] = "cut"]
          /\ UNCHANGED <<proc, pending, freed, conn, terms>>
      BY <2>2 DEF Scan
    <3>2. EstablishedInv'
      BY <2>2, <3>1 DEF ProfileInv, EstablishedInv, Established
    <3>3. OneHandlerInv'
      BY <3>1 DEF ProfileInv, OneHandlerInv, Handler
    <3> QED BY <3>2, <3>3 DEF ProfileInv
  <2>3. CASE Scan(t, h) /\ ~Established(t)
    <3>1. Exits(t) /\ UNCHANGED <<profile, conn, terms>>
      BY <2>3 DEF Scan
    <3>2. profile[t] = "none"
      BY <2>3 DEF ProfileInv, EstablishedInv
    <3> QED BY <3>1, <3>2, ExitsKeepsProfile
  <2>4. CASE Write(t, h)
    <3>1. /\ hpc[t][h] = "write" /\ proc["tester"][t] = "run" /\ hpc' = [hpc EXCEPT ![t][h] = "free"]
          /\ UNCHANGED <<proc, conn, freed, pending, terms>>
      BY <2>4 DEF Write
    <3>2. PICK p \in {"whole", "cut"} : profile' = [profile EXCEPT ![t] = p] /\ (p = "cut" => t \in freed)
      BY <2>4 DEF Write
    <3>3. EstablishedInv'
      BY <3>1, <3>2 DEF ProfileInv, EstablishedInv, Established
    <3>4. OneHandlerInv'
      BY <3>1, <3>2 DEF ProfileInv, OneHandlerInv, Handler
    <3> QED BY <3>3, <3>4 DEF ProfileInv
  <2>5. CASE Free(t, h)
    <3>1. EstablishedInv'
      BY <2>5 DEF Free, ProfileInv, EstablishedInv, Established
    <3>2. OneHandlerInv'
      BY <2>5 DEF Free, ProfileInv, OneHandlerInv, Handler
    <3> QED BY <3>1, <3>2 DEF ProfileInv
  <2>6. CASE Exit(t, h)
    <3>1. Exits(t) /\ UNCHANGED <<conn, terms>> /\ Established(t)
      BY <2>6 DEF Exit, ProfileInv, EstablishedInv
    <3>2. terms[t] <= 1 => hpc[t][1] = "exit"
      BY <2>6 DEF Exit, ProfileInv, OneHandlerInv
    <3>3. terms[t] <= 1 => profile[t] # "cut"
      BY <3>2 DEF ProfileInv, OneHandlerInv
    <3>4. profile' = profile \/ profile' = [profile EXCEPT ![t] = "whole"]
      BY <2>6 DEF Exit
    <3>5. /\ \A u \in Test \ {t} : profile'[u] = profile[u]
          /\ terms[t] <= 1 => profile'[t] # "cut"
      BY <3>3, <3>4
    <3> QED BY <3>1, <3>5, ExitsKeepsProfile
  <2>7. CASE UseAfterFree(t, h)
    <3>1. Exits(t) /\ UNCHANGED <<conn, terms, profile>>
      BY <2>7 DEF UseAfterFree
    <3>2. ~(terms[t] <= 1)
      <4>1. terms[t] <= 1 => h = 1 /\ hpc[t][1] = "exit"
        BY <2>7 DEF UseAfterFree, ProfileInv, OneHandlerInv
      <4> QED BY <2>7, <4>1 DEF UseAfterFree
    <3> QED BY <3>1, <3>2, ExitsKeepsProfile DEF ProfileInv, EstablishedInv
  <2> QED BY <1>5, <2>1, <2>2, <2>3, <2>4, <2>5, <2>6, <2>7 DEF SigHandler
<1> QED BY <1>1, <1>2, <1>3, <1>4, <1>5 DEF ClientStep, Client

(* The invariant is inductive.                                             *)
LEMMA TesterInvStep == TesterInv /\ [TesterNext]_vars => TesterInv'
<1> SUFFICES ASSUME BaseInv, ProfileInv, [TesterNext]_vars PROVE BaseInv' /\ ProfileInv'
  BY DEF TesterInv, BaseInv, ProfileInv
<1>1. CASE Poller \/ GroupSignalled \/ AddressChanges
  <2>1. BaseInv /\ AddressChanges => BaseInv'
    BY DEF AddressChanges, BaseInv, TesterTypeOK, PollerInv, TermsInv, KnownInv, Alive, pollerVars,
           clientVars, signalVars, groupVars
  <2> QED BY <1>1, <2>1, InstallKeeps, PollKeeps, SpawnKeeps, RecordKeeps, TerminateKeeps, ForgetKeeps, WaitKeeps,
             HandledKeeps, PassedKeeps, InPopenKeeps, PollerKeepsProfile DEF Poller, GroupSignalled
<1>2. CASE \E t \in Test : ClientStep(t)
  BY <1>2, ClientKeepsPoller, ClientKeepsProfile DEF BaseInv
<1>3. CASE UNCHANGED vars
  BY <1>3 DEF BaseInv, ProfileInv, TesterTypeOK, PollerInv, TermsInv, KnownInv, Alive, EstablishedInv, Established,
              OneHandlerInv, vars, pollerVars, clientVars, signalVars, groupVars
<1> QED BY <1>1, <1>2, <1>3 DEF TesterNext, ClientStep

(* The poller's knowledge of its processes is right in every behaviour,    *)
(* wherever the signals of the collector meet it.                          *)
THEOREM TesterInvariant == TesterSpec => []TesterInv
BY TesterInvInit, TesterInvStep, PTL DEF TesterSpec

(* A Popen the poller knows or waits for was started, and no tester gets   *)
(* more than three SIGTERMs, for any number of tests.                      *)
THEOREM TesterTypeCorrect == TesterSpec => []TesterTypeOK
<1>1. TesterInv => TesterTypeOK
  BY DEF TesterInv
<1> QED BY <1>1, TesterInvariant, PTL

(* At most one test has a tester or a tcpdump running: _stop_tcp_tester    *)
(* waits for both before the poller starts the next, and nothing starts    *)
(* once the poller is in its handler.                                      *)
THEOREM TestsNeverOverlap == TesterSpec => []TestsDontOverlap
<1>1. TesterInv => TestsDontOverlap
  <2> SUFFICES ASSUME TesterInv PROVE TestsDontOverlap
    OBVIOUS
  <2> DEFINE A == {t \in Test : Alive("tester", t) \/ Alive("dumper", t)}
  <2>1. A \subseteq {tests}
    BY DEF TesterInv, KnownInv, Kind
  <2>2. IsFiniteSet({tests}) /\ Cardinality({tests}) = 1
    BY FS_Singleton
  <2>3. Cardinality(A) <= 1
    BY <2>1, <2>2, FS_Subset
  <2> QED BY <2>3 DEF TestsDontOverlap
<1> QED BY <1>1, TesterInvariant, PTL

(* A profile client.c has left behind lists established connections only,  *)
(* and is whole if the tester got one SIGTERM, for any number of           *)
(* connections.                                                            *)
THEOREM ProfilesAreSound == TesterSpec => []ProfileSound
<1>1. TesterInv => ProfileSound
  BY DEF TesterInv, EstablishedInv, Established, OneHandlerInv, ProfileSound
<1> QED BY <1>1, TesterInvariant, PTL
=============================================================================
