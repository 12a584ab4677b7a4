------------------------------ MODULE Collector ------------------------------
(***************************************************************************)
(* The collection of measurements on a vehicle: collector_daemon, which    *)
(* runs one collector.py per round, and the collector, which packs the     *)
(* round's data when it is told to stop.  systemd signals the daemon only  *)
(* (KillMode=process), so a collector may outlive it.                      *)
(*                                                                         *)
(* A signal handler of Python runs between two statements, and in wait and *)
(* sleep.  A step here is what lies between two points where that matters. *)
(* A tarball is named after the round that made it.  The results of tar,   *)
(* mv and rm are ignored throughout: each of them may fail (disk full) and *)
(* what follows is done all the same.                                      *)
(***************************************************************************)
EXTENDS Delivery, Naturals

CONSTANTS
  MaxRounds,    \* bound: rounds
  MaxFaults     \* bound: stops of the daemon, losses of power, failed commands

Round == 1 .. MaxRounds
None == 0

ASSUME CollectorAssumption ==
  /\ MaxRounds \in Nat /\ MaxFaults \in Nat
  /\ Tarball = Round

VARIABLES
  dpc,       \* where the daemon is, "down" if it does not run
  collector, \* its global variable collector: a round, or None
  tmp,       \* its global variable tmp
  round,     \* rounds started so far
  proc,      \* where the collector of a round is
  data,      \* rounds whose files are in data_dir
  content,   \* rounds whose files are in a tarball
  workdir,   \* tarballs in the working directory of the collector
  owed,      \* rounds that have measured, not cut off by a power loss or a failed tar (history)
  raced,     \* the daemon was stopped while a round began or ended (history)
  faults

daemonVars == <<dpc, collector, tmp, round>>
boundVars == <<raced, faults>>
collectorVars == <<daemonVars, proc, data, content, workdir, owed, boundVars>>

CollectorInit ==
  /\ dpc = "down" /\ collector = None /\ tmp = None /\ round = 0
  /\ proc = [r \in Round |-> "none"]
  /\ data = {} /\ content = [r \in Round |-> {}] /\ workdir = {} /\ owed = {}
  /\ raced = FALSE /\ faults = 0

Fault == faults < MaxFaults /\ faults' = faults + 1

(* "rm -rf" of what is in data_dir.                                        *)
CleanData ==
  \/ data' = {} /\ UNCHANGED faults
  \/ Fault /\ UNCHANGED data

-----------------------------------------------------------------------------
(* collector.py.                                                           *)

(* SIGTERM: before start is through, stop finds no _start_time, or there is *)
(* no handler yet; during stop _running is off, and sighandler exits.       *)
AfterTerm(s) == IF s = "run" THEN "stop" ELSE "exit"

(* __init__, which asserts that there is no tester.data, and start.        *)
Measure(r) ==
  /\ proc[r] = "init"
  /\ proc' = [proc EXCEPT ![r] = IF data = {} THEN "run" ELSE "exit"]
  /\ data' = IF data = {} THEN {r} ELSE data
  /\ owed' = IF data = {} THEN owed \cup {r} ELSE owed
  /\ UNCHANGED <<daemonVars, content, workdir, boundVars, deliveryVars>>

(* stop: the children have ended, the data directory is packed in the      *)
(* working directory.  If tar fails, what it leaves under the name cannot  *)
(* be used, and the round is lost.                                         *)
Pack(r) ==
  /\ proc[r] = "stop"
  /\ proc' = [proc EXCEPT ![r] = "packed"]
  /\ workdir' = workdir \cup {r}
  /\ \/ content' = [content EXCEPT ![r] = data] /\ UNCHANGED <<owed, faults>>
     \/ Fault /\ owed' = owed \ {r} /\ UNCHANGED content
  /\ UNCHANGED <<daemonVars, data, raced, deliveryVars>>

(* mv to tar_dir.  If it fails, the tarball stays in the working directory, *)
(* where nobody looks for it again.                                         *)
Move(r) ==
  /\ proc[r] = "packed"
  /\ proc' = [proc EXCEPT ![r] = "moved"]
  /\ \/ vtar' = vtar \cup {r} /\ workdir' = workdir \ {r} /\ UNCHANGED faults
     \/ Fault /\ UNCHANGED <<vtar, workdir>>
  /\ UNCHANGED <<daemonVars, data, content, owed, raced, star, received, damaged>>

Clean(r) ==
  /\ proc[r] = "moved"
  /\ proc' = [proc EXCEPT ![r] = "exit"]
  /\ CleanData
  /\ UNCHANGED <<daemonVars, content, workdir, owed, raced, deliveryVars>>

-----------------------------------------------------------------------------
(* collector_daemon.                                                       *)

Terminate(r) == proc' = [proc EXCEPT ![r] = AfterTerm(@)]

DaemonStarts ==
  /\ dpc = "down"
  /\ dpc' = "clean"
  /\ UNCHANGED <<collector, tmp, round, proc, data, content, workdir, owed, boundVars, deliveryVars>>

DaemonCleans ==
  /\ dpc = "clean" /\ round < MaxRounds
  /\ CleanData
  /\ dpc' = "popen"
  /\ UNCHANGED <<collector, tmp, round, proc, content, workdir, owed, raced, deliveryVars>>

DaemonPopens ==
  /\ dpc = "popen"
  /\ round' = round + 1
  /\ proc' = [proc EXCEPT ![round + 1] = "init"]
  /\ dpc' = "assign"
  /\ UNCHANGED <<collector, tmp, data, content, workdir, owed, boundVars, deliveryVars>>

DaemonAssigns ==
  /\ dpc = "assign"
  /\ collector' = round
  /\ dpc' = "sleep"
  /\ UNCHANGED <<tmp, round, proc, data, content, workdir, owed, boundVars, deliveryVars>>

DaemonTerminates ==
  /\ dpc = "sleep"
  /\ Terminate(collector)
  /\ dpc' = "forget"
  /\ UNCHANGED <<collector, tmp, round, data, content, workdir, owed, boundVars, deliveryVars>>

(* Mutant: the two assignments are swapped.                                *)
MutForgetsFirst ==
  /\ dpc = "forget"
  /\ collector' = None /\ tmp' = collector'
  /\ dpc' = "wait"
  /\ UNCHANGED <<round, proc, data, content, workdir, owed, boundVars, deliveryVars>>

DaemonForgets ==
  /\ dpc = "forget"
  /\ tmp' = collector /\ collector' = None
  /\ dpc' = "wait"
  /\ UNCHANGED <<round, proc, data, content, workdir, owed, boundVars, deliveryVars>>

(* Mutant: the daemon does not wait for its collector.                     *)
MutNoWait == dpc = "wait"

Waited == dpc = "wait" /\ proc[tmp] = "exit"

DaemonGoesOn ==
  /\ Waited
  /\ dpc' = "clean"
  /\ UNCHANGED <<collector, tmp, round, proc, data, content, workdir, owed, boundVars, deliveryVars>>

(* sig_handler: SIGTERM to the collector, if there is one, and wait.  It   *)
(* does not know a collector that has just been started or is waited for,  *)
(* and terminates one a second time that was just terminated.              *)
DaemonStopped ==
  /\ dpc \notin {"down", "quit"} /\ Fault
  /\ raced' = (raced \/ dpc \in {"assign", "forget", "wait"})
  /\ IF collector = None
     THEN dpc' = "down" /\ tmp' = None /\ UNCHANGED proc
     ELSE dpc' = "quit" /\ Terminate(collector) /\ UNCHANGED tmp
  /\ UNCHANGED <<collector, round, data, content, workdir, owed, deliveryVars>>

DaemonQuits ==
  /\ dpc = "quit" /\ proc[collector] = "exit"
  /\ dpc' = "down" /\ collector' = None /\ tmp' = None
  /\ UNCHANGED <<round, proc, data, content, workdir, owed, boundVars, deliveryVars>>

(* The vehicle loses power: what is on disk stays, a round that is not     *)
(* packed is given up.                                                     *)
PowerLoss ==
  /\ Fault
  /\ dpc' = "down" /\ collector' = None /\ tmp' = None
  /\ proc' = [r \in Round |-> IF proc[r] = "none" THEN "none" ELSE "exit"]
  /\ owed' = owed \ {r \in Round : proc[r] \in {"init", "run", "stop"}}
  /\ UNCHANGED <<round, data, content, workdir, raced, deliveryVars>>

CollectorStep ==
  \/ DaemonStarts \/ DaemonCleans \/ DaemonPopens \/ DaemonAssigns
  \/ DaemonTerminates \/ DaemonForgets \/ DaemonGoesOn \/ DaemonQuits
  \/ \E r \in Round : Measure(r) \/ Pack(r) \/ Move(r) \/ Clean(r)

CollectorFault == DaemonStopped \/ PowerLoss
=============================================================================
