------------------------------- MODULE Tester -------------------------------
(***************************************************************************)
(* The TCP tests on one interface: the polling process of                  *)
(* tester_initiator.py, which runs a tester (client.c) and a tcpdump while *)
(* the interface has an address, and the signals that end a test.  At the  *)
(* end of a round the collector signals the whole process group: poller,   *)
(* tester and tcpdump at once, and the poller's handler then signals its   *)
(* children again.                                                         *)
(*                                                                         *)
(* A poller is forked with the handler of the Initiator, which passes, and *)
(* then installs its own.  This runs between two statements, or in wait,   *)
(* and ends the process; a signal that meets Popen before the child has    *)
(* been executed reaches the poller only, and the handler does not know    *)
(* the child.  Popen.wait holds a lock of its Popen, so a handler must     *)
(* not wait for what the statement it interrupted waits for.  The handler  *)
(* of client.c blocks SIGTERM for its own thread only: a second one is     *)
(* handled by another thread, at the same time.                            *)
(***************************************************************************)
EXTENDS Naturals, FiniteSets

CONSTANTS
  MaxTests,   \* bound: tests
  Conn        \* the connections of a test (concurrency)

ASSUME TesterAssumption == MaxTests \in Nat /\ IsFiniteSet(Conn) /\ Conn # {}

Test == 1 .. MaxTests
None == 0
Kind == {"tester", "dumper"}
Handler == 1 .. 3   \* the poller, the collector and the poller's handler signal a tester

VARIABLES
  ip,         \* the interface has an address
  stopped,    \* the collector has signalled the group
  lost,       \* history: its signal was lost on the poller, or on a process being started
  ppc, kind,  \* where the poller is, and which of the two it stops
  handling,   \* it is in _sig_handler
  locked,     \* the Popen whose wait the handler interrupted: <<kind, test>>, or <<>>
  popen,      \* _tcp_tester and _tcp_dumper
  tmp,        \* tmp_tcp_tester and tmp_tcp_dumper
  tests,      \* _tcp_test_id
  proc,       \* a process: none, boot, run, term (tcpdump) or dead
  conn,       \* a connection: idle, up or over
  hpc,        \* where the handlers of a tester are
  pending,    \* testers with a SIGTERM not yet delivered
  terms,      \* SIGTERMs sent to a tester (history)
  freed,      \* testers that have freed cli_thr_infos
  profile     \* tcp_tester.profile: none, cut or whole

pollerVars == <<ppc, kind, handling, locked, popen, tmp, tests>>
clientVars == <<conn, hpc, freed, profile>>
signalVars == <<pending, terms>>
groupVars == <<stopped, lost>>
vars == <<ip, groupVars, pollerVars, proc, clientVars, signalVars>>

TesterInit ==
  /\ ip = FALSE /\ stopped = FALSE /\ lost = FALSE
  /\ ppc = "fork" /\ kind = "tester" /\ handling = FALSE /\ locked = <<>>
  /\ popen = [k \in Kind |-> None] /\ tmp = None /\ tests = 0
  /\ proc = [k \in Kind |-> [t \in Test |-> "none"]]
  /\ conn = [t \in Test |-> [c \in Conn |-> "idle"]]
  /\ hpc = [t \in Test |-> [h \in Handler |-> "none"]]
  /\ pending = {} /\ terms = [t \in Test |-> 0] /\ freed = {}
  /\ profile = [t \in Test |-> "none"]

Alive(k, t) == proc[k][t] \notin {"none", "dead"}

-----------------------------------------------------------------------------
(* The poller: run, _launch_tcp_tester and _stop_tcp_tester.               *)

(* SIGTERM to some processes: it stays pending for a tester, and tcpdump   *)
(* will end.                                                               *)
Terminated(dumpers) == [proc EXCEPT !["dumper"] = [t \in Test |-> IF t \in dumpers THEN "term" ELSE @[t]]]

Signal(testers, dumpers) ==
  /\ pending' = pending \cup testers
  /\ terms' = [t \in Test |-> IF t \in testers THEN terms[t] + 1 ELSE terms[t]]
  /\ proc' = Terminated(dumpers)

(* run up to its loop.                                                     *)
Install ==
  /\ ppc = "fork"
  /\ ppc' = "poll"
  /\ UNCHANGED <<ip, groupVars, kind, handling, locked, popen, tmp, tests, proc, clientVars, signalVars>>

Poll ==
  /\ ppc = "poll"
  /\ \/ ip /\ popen["tester"] = None /\ tests < MaxTests
        /\ ppc' = "dump" /\ tests' = tests + 1 /\ kind' = "dumper"
     \/ ~ip /\ \E k \in Kind : popen[k] # None
        /\ ppc' = "terminate" /\ kind' = "tester" /\ UNCHANGED tests
  /\ UNCHANGED <<ip, groupVars, handling, locked, popen, tmp, proc, clientVars, signalVars>>

Started == IF kind = "tester" THEN "boot" ELSE "run"

(* Popen of tcpdump, and then of the tester.                               *)
Spawn ==
  /\ ppc = "dump"
  /\ proc' = [proc EXCEPT ![kind][tests] = Started]
  /\ ppc' = "record"
  /\ UNCHANGED <<ip, groupVars, kind, handling, locked, popen, tmp, tests, clientVars, signalVars>>

Record ==
  /\ ppc = "record"
  /\ popen' = [popen EXCEPT ![kind] = tests]
  /\ ppc' = IF kind = "dumper" THEN "dump" ELSE "poll"
  /\ kind' = "tester"
  /\ UNCHANGED <<ip, groupVars, handling, locked, tmp, tests, proc, clientVars, signalVars>>

(* Mutant: tcpdump is left running.                                        *)
MutTesterOnly == ppc' = (IF handling THEN "exit" ELSE "poll") /\ UNCHANGED kind

(* The tester is stopped first, then tcpdump; the handler then exits.      *)
GoOn ==
  IF kind = "tester" THEN ppc' = "terminate" /\ kind' = "dumper"
  ELSE ppc' = (IF handling THEN "exit" ELSE "poll") /\ UNCHANGED kind

Terminate ==
  /\ ppc = "terminate"
  /\ LET p == popen[kind] IN
     IF p = None THEN GoOn /\ UNCHANGED <<proc, signalVars>>
     ELSE /\ ppc' = "forget" /\ UNCHANGED kind
          /\ LET them == {t \in {p} : Alive(kind, t)} IN
             Signal(IF kind = "tester" THEN them ELSE {}, IF kind = "dumper" THEN them ELSE {})
  /\ UNCHANGED <<ip, groupVars, handling, locked, popen, tmp, tests, clientVars>>

(* Mutant: the Popen is not forgotten before it is waited for.             *)
MutRemembered == popen

Forgotten == [popen EXCEPT ![kind] = None]

(* Mutant: the two assignments are swapped.                                *)
MutForgetFirst ==
  /\ ppc = "forget"
  /\ popen' = Forgotten /\ tmp' = popen'[kind]
  /\ ppc' = "wait"
  /\ UNCHANGED <<ip, groupVars, kind, handling, locked, tests, proc, clientVars, signalVars>>

Forget ==
  /\ ppc = "forget"
  /\ tmp' = popen[kind] /\ popen' = Forgotten
  /\ ppc' = "wait"
  /\ UNCHANGED <<ip, groupVars, kind, handling, locked, tests, proc, clientVars, signalVars>>

(* Mutant: the poller does not wait.                                       *)
MutNoWait == TRUE

Waited == proc[kind][tmp] = "dead" /\ locked # <<kind, tmp>>

Wait ==
  /\ ppc = "wait" /\ Waited
  /\ GoOn
  /\ UNCHANGED <<ip, groupVars, handling, locked, popen, tmp, tests, proc, clientVars, signalVars>>

Poller == Install \/ Poll \/ Spawn \/ Record \/ Terminate \/ Forget \/ Wait

(* _sig_handler begins.                                                    *)
Interrupted ==
  /\ handling' = TRUE
  /\ locked' = IF ppc = "wait" THEN <<kind, tmp>> ELSE <<>>
  /\ ppc' = "terminate" /\ kind' = "tester"
  /\ UNCHANGED <<popen, tmp, tests>>

Dumpers == {t \in Test : Alive("dumper", t)}

(* os.killpg of the collector: the poller goes to its handler, ...         *)
SignalHandled ==
  /\ ppc # "fork"
  /\ Signal({t \in Test : Alive("tester", t)}, Dumpers)
  /\ Interrupted /\ UNCHANGED lost

(* ... or has only the Initiator's, and goes on, ...                       *)
SignalPassed ==
  /\ ppc = "fork"
  /\ lost' = TRUE
  /\ UNCHANGED <<pollerVars, proc, signalVars>>

(* ... or is inside Popen: the child does not get the signal, or loses it  *)
(* when it is executed, and runs on.  No tester runs yet.                  *)
SignalInPopen ==
  /\ ppc = "dump"
  /\ proc' = [Terminated(Dumpers) EXCEPT ![kind][tests] = Started]
  /\ Interrupted /\ lost' = TRUE
  /\ UNCHANGED signalVars

GroupSignalled ==
  /\ ~stopped
  /\ stopped' = TRUE
  /\ SignalHandled \/ SignalPassed \/ SignalInPopen
  /\ UNCHANGED <<ip, clientVars>>

AddressChanges ==
  /\ ip' = ~ip
  /\ UNCHANGED <<groupVars, pollerVars, proc, clientVars, signalVars>>

DumperEnds(t) ==
  /\ proc["dumper"][t] = "term"
  /\ proc' = [proc EXCEPT !["dumper"][t] = "dead"]
  /\ UNCHANGED <<ip, groupVars, pollerVars, clientVars, signalVars>>

-----------------------------------------------------------------------------
(* client.c.                                                               *)

Exits(t) ==
  /\ proc' = [proc EXCEPT !["tester"][t] = "dead"]
  /\ pending' = pending \ {t} /\ freed' = freed \ {t}
  /\ hpc' = [hpc EXCEPT ![t] = [h \in Handler |-> "none"]]

(* main up to the threads; SIGTERM is fatal before.                        *)
Boot(t) ==
  /\ proc["tester"][t] = "boot"
  /\ \/ t \notin pending /\ proc' = [proc EXCEPT !["tester"][t] = "run"] /\ UNCHANGED <<pending, freed, hpc>>
     \/ t \in pending /\ Exits(t)
  /\ UNCHANGED <<ip, groupVars, pollerVars, conn, profile, terms>>

Runs(t) == proc["tester"][t] = "run"

(* client_start: connect, or exit the process.                             *)
Connect(t, c) ==
  /\ Runs(t) /\ conn[t][c] = "idle"
  /\ conn' = [conn EXCEPT ![t][c] = "up"]
  /\ UNCHANGED <<ip, groupVars, pollerVars, proc, hpc, freed, profile, signalVars>>

ConnectFails(t, c) ==
  /\ Runs(t) /\ conn[t][c] = "idle"
  /\ Exits(t)
  /\ UNCHANGED <<ip, groupVars, pollerVars, conn, profile, terms>>

(* The end of a connection: its thread returns.                            *)
ConnectionEnds(t, c) ==
  /\ Runs(t) /\ conn[t][c] = "up"
  /\ conn' = [conn EXCEPT ![t][c] = "over"]
  /\ UNCHANGED <<ip, groupVars, pollerVars, proc, hpc, freed, profile, signalVars>>

Handlers(t) == {h \in Handler : hpc[t][h] # "none"}

(* SIGTERM is delivered to a thread that does not handle one: main, or one *)
(* of a connection.                                                        *)
Deliver(t, h) ==
  /\ Runs(t) /\ t \in pending
  /\ h = 1 + Cardinality(Handlers(t))
  /\ Cardinality(Handlers(t)) <= Cardinality({c \in Conn : conn[t][c] # "over"})
  /\ hpc' = [hpc EXCEPT ![t][h] = "scan"]
  /\ pending' = pending \ {t}
  /\ UNCHANGED <<ip, groupVars, pollerVars, proc, conn, freed, profile, terms>>

(* Mutant: a profile is saved with connections unestablished.              *)
MutSavesAll(t) == TRUE

Established(t) == \A c \in Conn : conn[t][c] # "idle"

At(t, h, s) == Runs(t) /\ hpc[t][h] = s

Step(t, h, s) == hpc' = [hpc EXCEPT ![t][h] = s]

(* The handler up to fopen, which truncates the file.                      *)
Scan(t, h) ==
  /\ At(t, h, "scan")
  /\ IF Established(t)
     THEN /\ Step(t, h, "write") /\ profile' = [profile EXCEPT ![t] = "cut"]
          /\ UNCHANGED <<proc, pending, freed>>
     ELSE Exits(t) /\ UNCHANGED profile
  /\ UNCHANGED <<ip, groupVars, pollerVars, conn, terms>>

(* The lines are in the file after fflush, unless the addresses in them    *)
(* were read when another handler had freed them.                          *)
Write(t, h) ==
  /\ At(t, h, "write")
  /\ Step(t, h, "free")
  /\ \E p \in {"whole"} \cup (IF t \in freed THEN {"cut"} ELSE {}) :
       profile' = [profile EXCEPT ![t] = p]
  /\ UNCHANGED <<ip, groupVars, pollerVars, proc, conn, freed, signalVars>>

Free(t, h) ==
  /\ At(t, h, "free") /\ t \notin freed
  /\ Step(t, h, "exit")
  /\ freed' = freed \cup {t}
  /\ UNCHANGED <<ip, groupVars, pollerVars, proc, conn, profile, signalVars>>

(* exit flushes what another handler has in its buffer so far.             *)
Exit(t, h) ==
  /\ At(t, h, "exit")
  /\ Exits(t)
  /\ \/ UNCHANGED profile
     \/ /\ \E g \in Handler : hpc[t][g] = "write"
        /\ profile' = [profile EXCEPT ![t] = "whole"]
  /\ UNCHANGED <<ip, groupVars, pollerVars, conn, terms>>

(* A second free, or the use of what is freed, may end the process.        *)
UseAfterFree(t, h) ==
  /\ t \in freed /\ hpc[t][h] \in {"scan", "write", "free"} /\ Runs(t)
  /\ Exits(t)
  /\ UNCHANGED <<ip, groupVars, pollerVars, conn, profile, terms>>

SigHandler(t, h) ==
  Deliver(t, h) \/ Scan(t, h) \/ Write(t, h) \/ Free(t, h) \/ Exit(t, h) \/ UseAfterFree(t, h)

-----------------------------------------------------------------------------

Client(t) == Boot(t) \/ \E h \in Handler : SigHandler(t, h)

TesterNext ==
  \/ Poller \/ GroupSignalled \/ AddressChanges
  \/ \E t \in Test : Client(t) \/ DumperEnds(t)
  \/ \E t \in Test, c \in Conn : Connect(t, c) \/ ConnectFails(t, c) \/ ConnectionEnds(t, c)

TesterSpec == TesterInit /\ [][TesterNext]_vars

(* The processes run: the poller polls, and a signal is handled.           *)
FairTesterSpec ==
  /\ TesterSpec
  /\ WF_vars(Poller)
  /\ \A t \in Test : WF_vars(Client(t)) /\ WF_vars(DumperEnds(t))

-----------------------------------------------------------------------------
(* Properties.                                                             *)

(* The type invariant; a Popen the poller knows, or waits for, is one it   *)
(* has started.                                                            *)
TesterTypeOK ==
  /\ ip \in BOOLEAN /\ stopped \in BOOLEAN /\ lost \in BOOLEAN /\ handling \in BOOLEAN
  /\ ppc \in {"fork", "poll", "dump", "record", "terminate", "forget", "wait", "exit"}
  /\ kind \in Kind /\ tests \in 0 .. MaxTests
  /\ \A k \in Kind : popen[k] # None => popen[k] \in Test /\ proc[k][popen[k]] # "none"
  /\ ppc = "wait" => tmp \in Test /\ proc[kind][tmp] # "none"
  /\ proc \in [Kind -> [Test -> {"none", "boot", "run", "term", "dead"}]]
  /\ conn \in [Test -> [Conn -> {"idle", "up", "over"}]]
  /\ hpc \in [Test -> [Handler -> {"none", "scan", "write", "free", "exit"}]]
  /\ pending \subseteq Test /\ freed \subseteq Test /\ terms \in [Test -> 0 .. 3]
  /\ profile \in [Test -> {"none", "cut", "whole"}]

(* Tests do not overlap: the tester and the tcpdump of a test have ended   *)
(* before those of the next one start, so that no traffic is counted twice.*)
TestsDontOverlap ==
  Cardinality({t \in Test : Alive("tester", t) \/ Alive("dumper", t)}) <= 1

(* A profile left behind is whole, and lists established connections only  *)
(* ("don't save information if there are connections unestablished",       *)
(* client.c 160), if its tester got one SIGTERM.  With two, as at the end  *)
(* of a round, one handler may exit when the other has just truncated the  *)
(* file.                                                                   *)
ProfileSound ==
  \A t \in Test :
    /\ profile[t] # "none" => \A c \in Conn : conn[t][c] # "idle"
    /\ proc["tester"][t] = "dead" /\ terms[t] <= 1 => profile[t] # "cut"

AllDead == \A k \in Kind, t \in Test : ~Alive(k, t)

(* The collector waits for the tester's processes when it ends a round:    *)
(* all of them end wherever else the signal meets them, in wait, between   *)
(* two statements or in a handler of client.c, unless it was lost on a     *)
(* poller that had not installed its handler, or on a process that was     *)
(* just being started.                                                     *)
EndsOnStop == stopped ~> lost \/ (ppc = "exit" /\ AllDead)

(* A test does not outlive the address it was started for, unless it was   *)
(* being started when the signal of the collector ended the poller.        *)
StopsWithAddress == ~ip ~> ip \/ AllDead \/ (lost /\ handling)

=============================================================================
