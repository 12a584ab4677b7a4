--------------------------- MODULE PipelineProofs ---------------------------
(***************************************************************************)
(* What becomes of the measurements, for any number of rounds and          *)
(* tarballs, any faults and any kills of the analyzer: what reaches the    *)
(* database, and that nothing is lost before.                              *)
(***************************************************************************)
EXTENDS Pipeline, TLAPS

(* The answer of the query stays true of the experiment at hand until it   *)
(* is archived: nobody else writes to the database.                        *)
QueryCurrent ==
  /\ apc \in {"parse", "save"} => \A t \in exp : saved[t] = 0
  /\ apc = "archive" => \A t \in exp : saved[t] > 0

(* The inductive invariant of the database and the archive.                *)
AnalyzerInv ==
  /\ saved \in [Tarball -> Nat]
  /\ archive \subseteq Tarball /\ exp \subseteq Tarball
  /\ QueryCurrent
  /\ SavedOnce
  /\ ArchivedSaved

LEMMA AnalyzerInvInit == PipelineInit => AnalyzerInv
BY DEF PipelineInit, AnalyzerInit, AnalyzerInv, QueryCurrent, SavedOnce, ArchivedSaved

(* Steps of the collector and of the uploader leave the analyzer alone.    *)
LEMMA OthersKeep == AnalyzerInv /\ UNCHANGED analyzerVars => AnalyzerInv'
BY DEF AnalyzerInv, QueryCurrent, SavedOnce, ArchivedSaved, analyzerVars

(* A process that ends, wherever it was, forgets its experiments only.     *)
LEMMA DieKeeps ==
  AnalyzerInv /\ Die /\ UNCHANGED <<saved, archive>> => AnalyzerInv'
BY DEF AnalyzerInv, QueryCurrent, SavedOnce, ArchivedSaved, Die

LEMMA CycleKeeps ==
  AnalyzerInv /\ (AnalyzerStarts \/ List \/ Unpack(Cut) \/ SleepAndRepeat \/ Killed) => AnalyzerInv'
<1> SUFFICES ASSUME AnalyzerInv,
                    AnalyzerStarts \/ List \/ Unpack(Cut) \/ SleepAndRepeat \/ Killed
             PROVE  AnalyzerInv'
  OBVIOUS
<1>1. CASE AnalyzerStarts
  BY <1>1 DEF AnalyzerStarts, AnalyzerInv, QueryCurrent, SavedOnce, ArchivedSaved
<1>2. CASE List
  BY <1>2 DEF List, AnalyzerInv, QueryCurrent, SavedOnce, ArchivedSaved
<1>3. CASE Unpack(Cut)
  <2>1. CASE Die
    BY <1>3, <2>1, DieKeeps DEF Unpack
  <2>2. CASE apc' = "next" /\ UNCHANGED <<exps, exp>>
    BY <1>3, <2>2 DEF Unpack, AnalyzerInv, QueryCurrent, SavedOnce, ArchivedSaved
  <2>3. QED
    BY <1>3, <2>1, <2>2 DEF Unpack
<1>4. CASE SleepAndRepeat
  BY <1>4 DEF SleepAndRepeat, AnalyzerInv, QueryCurrent, SavedOnce, ArchivedSaved
<1>5. CASE Killed
  BY <1>5, DieKeeps DEF Killed
<1>6. QED
  BY <1>1, <1>2, <1>3, <1>4, <1>5

LEMMA TakeKeeps ==
  ASSUME AnalyzerInv, NEW t \in Tarball, Take(t)
  PROVE  AnalyzerInv'
BY DEF Take, AfterQuery, Exists, AnalyzerInv, QueryCurrent, SavedOnce, ArchivedSaved

LEMMA ParseKeeps ==
  ASSUME AnalyzerInv, NEW t \in Tarball, NEW works, Parse(t, works)
  PROVE  AnalyzerInv'
<1>1. CASE Die
  BY <1>1, DieKeeps DEF Parse
<1>2. CASE apc' = "save" /\ UNCHANGED <<exps, exp>>
  BY <1>2 DEF Parse, AnalyzerInv, QueryCurrent, SavedOnce, ArchivedSaved
<1>3. QED
  BY <1>1, <1>2 DEF Parse

LEMMA SaveKeeps ==
  ASSUME AnalyzerInv, NEW t \in Tarball, Save(t)
  PROVE  AnalyzerInv'
<1>1. saved[t] = 0 /\ saved' = [saved EXCEPT ![t] = 1]
  BY DEF Save, AnalyzerInv, QueryCurrent
<1>2. SavedOnce' /\ ArchivedSaved' /\ saved' \in [Tarball -> Nat]
  BY <1>1 DEF Save, AnalyzerInv, SavedOnce, ArchivedSaved
<1>3. QueryCurrent'
  BY <1>1 DEF Save, AnalyzerInv, QueryCurrent
<1>4. QED
  BY <1>2, <1>3 DEF Save, AnalyzerInv

LEMMA ArchiveKeeps ==
  ASSUME AnalyzerInv, NEW t \in Tarball, Archive(t)
  PROVE  AnalyzerInv'
BY DEF Archive, AnalyzerInv, QueryCurrent, SavedOnce, ArchivedSaved

LEMMA AnalyzerInvStep == AnalyzerInv /\ [PipelineNext]_vars => AnalyzerInv'
<1> SUFFICES ASSUME AnalyzerInv, [PipelineNext]_vars
             PROVE  AnalyzerInv'
  OBVIOUS
<1>1. CASE UNCHANGED analyzerVars
  BY <1>1, OthersKeep
<1>2. CASE AnalyzerStep
  BY <1>2, CycleKeeps, TakeKeeps, ParseKeeps, SaveKeeps, ArchiveKeeps DEF AnalyzerStep
<1>3. CASE Killed
  BY <1>3, CycleKeeps
<1>4. QED
  BY <1>1, <1>2, <1>3 DEF PipelineNext, vars

(* The query of _parse_exp (128-131) guards save and archive in every      *)
(* behaviour: what holds of it when it is made holds when it is used.      *)
THEOREM AnalyzerInvariant == PipelineSpec => []AnalyzerInv
BY AnalyzerInvInit, AnalyzerInvStep, PTL DEF PipelineSpec

(* An experiment is in the database once at most, however often its        *)
(* tarball is delivered and wherever the analyzer is cut off.              *)
THEOREM ExperimentsSavedOnce == PipelineSpec => []SavedOnce
<1>1. AnalyzerInv => SavedOnce
  BY DEF AnalyzerInv
<1>2. QED
  BY <1>1, AnalyzerInvariant, PTL

(* What is in archive_dir is in the database.                              *)
THEOREM ArchivedAreSaved == PipelineSpec => []ArchivedSaved
<1>1. AnalyzerInv => ArchivedSaved
  BY DEF AnalyzerInv
<1>2. QED
  BY <1>1, AnalyzerInvariant, PTL

-----------------------------------------------------------------------------
(* The collector.                                                          *)

(* Rounds are started in order, and a further one only within the bound.   *)
RoundInv ==
  /\ \A r \in Round : r > round => proc[r] = "none"
  /\ collector <= round
  /\ dpc = "popen" => round < MaxRounds
  /\ dpc = "assign" => round \in Round

Active == {"init", "run", "stop", "packed", "moved"}

(* Unless the daemon was stopped while a round began or ended: the only    *)
(* collector that runs is the one of the last round, the daemon knows it   *)
(* and has terminated it once at most, and data_dir holds what it measures *)
(* until it has packed it, in the working directory until it is moved.     *)
OneCollector ==
  /\ \A r \in Round : proc[r] \in Active => r = round /\ dpc \notin {"down", "clean", "popen"}
  /\ dpc \in {"sleep", "forget", "quit"} => collector = round
  /\ dpc = "wait" => tmp = round
  /\ dpc \in {"assign", "sleep"} => proc[round] \in {"init", "run", "exit"}
  /\ \A r \in Round : proc[r] \in {"run", "stop"} => data = {r}
  /\ \A r \in Round : proc[r] = "packed" => r \in workdir

(* The inductive invariant of the pipeline.                                *)
VehicleInv == VehicleTypeOK /\ RoundInv /\ (raced \/ OneCollector) /\ MeasurementsKept

PipelineInv == VehicleInv /\ ServerTypeOK

(* It holds at the start.                                                  *)
LEMMA PipelineInvInit == PipelineInit => PipelineInv
<1> SUFFICES ASSUME PipelineInit PROVE PipelineInv
  OBVIOUS
<1> USE CollectorAssumption DEF PipelineInit, CollectorInit, AnalyzerInit, Round, None
<1>1. PipelineTypeOK
  <2>1. content \in [Round -> SUBSET Round] /\ saved \in [Tarball -> Nat]
    OBVIOUS
  <2>2. /\ data = {} /\ workdir = {} /\ owed = {} /\ exps = {} /\ exp = {} /\ dirs = {} /\ broken = {}
        /\ vtar = {} /\ star = {} /\ received = {} /\ damaged = {} /\ archive = {}
    OBVIOUS
  <2>3. /\ dpc = "down" /\ apc = "down" /\ collector = 0 /\ tmp = 0 /\ round \in 0 .. MaxRounds
        /\ proc \in [Round -> {"none", "init", "run", "stop", "packed", "moved", "exit"}]
    OBVIOUS
  <2>4. raced \in BOOLEAN
    BY Zenon
  <2> QED BY ONLY <2>1, <2>2, <2>3, <2>4 DEF PipelineTypeOK, VehicleTypeOK, ServerTypeOK, None
<1>2. RoundInv /\ OneCollector /\ MeasurementsKept
  BY DEF RoundInv, OneCollector, MeasurementsKept, Active
<1> QED BY <1>1, <1>2 DEF PipelineInv, VehicleInv, PipelineTypeOK

(* The analyzer keeps the types, and leaves the rounds alone.              *)
LEMMA AnalyzerBase ==
  PipelineTypeOK /\ RoundInv /\ (AnalyzerStep \/ Killed) /\ UNCHANGED collectorVars
    => PipelineTypeOK' /\ RoundInv'
<1> SUFFICES ASSUME PipelineTypeOK, RoundInv, AnalyzerStep \/ Killed, UNCHANGED collectorVars
             PROVE  PipelineTypeOK' /\ RoundInv'
  OBVIOUS
<1> USE DEF PipelineTypeOK, VehicleTypeOK, ServerTypeOK, RoundInv, Die, deliveryVars, collectorVars,
      daemonVars, boundVars
<1>1. CASE AnalyzerStarts \/ List \/ SleepAndRepeat \/ Killed
  BY <1>1 DEF AnalyzerStarts, List, SleepAndRepeat, Killed
<1>2. CASE Unpack(Cut)
  BY <1>2 DEF Unpack
<1>3. ASSUME NEW t \in Tarball, Take(t) PROVE PipelineTypeOK' /\ RoundInv'
  BY <1>3 DEF Take, AfterQuery
<1>4. ASSUME NEW t \in Tarball, NEW works \in BOOLEAN, Parse(t, works) PROVE PipelineTypeOK' /\ RoundInv'
  BY <1>4 DEF Parse
<1>5. ASSUME NEW t \in Tarball, Save(t) PROVE PipelineTypeOK' /\ RoundInv'
  BY <1>5 DEF Save
<1>6. ASSUME NEW t \in Tarball, Archive(t) PROVE PipelineTypeOK' /\ RoundInv'
  BY <1>6 DEF Archive
<1> QED BY <1>1, <1>2, <1>3, <1>4, <1>5, <1>6 DEF AnalyzerStep

(* So does the uploader, whatever it does to the files on the server.      *)
LEMMA DeliveryBase ==
  PipelineTypeOK /\ RoundInv /\ DeliveryNext /\ UNCHANGED <<collectorVars, analyzerVars>>
    => PipelineTypeOK' /\ RoundInv'
BY DEF PipelineTypeOK, VehicleTypeOK, ServerTypeOK, RoundInv, DeliveryNext, Deliver, Rewrite, Remove,
       collectorVars, daemonVars, boundVars, analyzerVars

(* Analyzer and uploader cannot harm a measurement as long as every        *)
(* tarball on the vehicle stays there until the server has received it.    *)
LEMMA OthersCollector ==
  ASSUME PipelineInv, UNCHANGED collectorVars,
         vtar \cup received \subseteq vtar' \cup received'
  PROVE  (raced' \/ OneCollector') /\ MeasurementsKept'
BY DEF PipelineInv, VehicleInv, OneCollector, MeasurementsKept, Active, collectorVars, daemonVars, boundVars

(* The analyzer touches neither.                                           *)
LEMMA AnalyzerInvKeeps ==
  PipelineInv /\ (AnalyzerStep \/ Killed) /\ UNCHANGED collectorVars => PipelineInv'
<1> SUFFICES ASSUME PipelineInv, AnalyzerStep \/ Killed, UNCHANGED collectorVars
             PROVE  vtar \cup received \subseteq vtar' \cup received'
  BY AnalyzerBase, OthersCollector DEF PipelineInv, VehicleInv, PipelineTypeOK
<1> QED BY DEF AnalyzerStep, AnalyzerStarts, List, Unpack, SleepAndRepeat, Take, Parse, Save, Archive,
           Killed, deliveryVars

(* A tarball leaves the vehicle when the server has received it only.      *)
LEMMA DeliveryInvKeeps ==
  PipelineInv /\ DeliveryNext /\ UNCHANGED <<collectorVars, analyzerVars>> => PipelineInv'
<1> SUFFICES ASSUME PipelineInv, DeliveryNext, UNCHANGED <<collectorVars, analyzerVars>>
             PROVE  vtar \cup received \subseteq vtar' \cup received'
  BY DeliveryBase, OthersCollector DEF PipelineInv, VehicleInv, PipelineTypeOK
<1> QED BY DEF DeliveryNext, Deliver, Rewrite, Remove

(* The steps of collector.py.  Only one of them runs, so what it packs is  *)
(* its own round, and the data it removes is in a tarball unless tar       *)
(* failed, which takes the round out of owed.                              *)
LEMMA ProcessInvKeeps ==
  ASSUME VehicleInv, NEW r \in Round, Measure(r) \/ Pack(r) \/ Move(r) \/ Clean(r)
  PROVE  VehicleInv'
<1> USE CollectorAssumption DEF VehicleInv, VehicleTypeOK, RoundInv, OneCollector, MeasurementsKept,
      Active, Round, None, Fault, CleanData, daemonVars, boundVars, deliveryVars
<1>1. CASE Measure(r)
  <2>1. VehicleTypeOK'
    BY <1>1 DEF Measure
  <2>2. RoundInv'
    BY <1>1 DEF Measure
  <2>3. raced' \/ OneCollector'
    BY <1>1 DEF Measure
  <2>4. MeasurementsKept'
    BY <1>1 DEF Measure
  <2> QED BY <2>1, <2>2, <2>3, <2>4
<1>2. CASE Pack(r)
  <2>1. VehicleTypeOK'
    <3>1. content' \in [Round -> SUBSET Round]
      <4>1. content' = content \/ content' = [content EXCEPT ![r] = data]
        BY <1>2 DEF Pack
      <4> HIDE DEF Round
      <4> QED BY <4>1
    <3>2. workdir' \subseteq Round /\ owed' \subseteq Round
      BY <1>2 DEF Pack
    <3>3. /\ proc' = [proc EXCEPT ![r] = "packed"]
          /\ UNCHANGED <<dpc, collector, tmp, round, data, raced, vtar>>
      BY <1>2 DEF Pack
    <3> QED BY <3>1, <3>2, <3>3
  <2>2. RoundInv'
    BY <1>2 DEF Pack
  <2>3. raced' \/ OneCollector'
    BY <1>2 DEF Pack
  <2>4. MeasurementsKept'
    <3> SUFFICES ASSUME ~raced, NEW s \in owed'
                 PROVE  \/ proc'[s] \in {"run", "stop"} /\ data' = {s}
                        \/ s \in workdir' \cup vtar' \cup received' /\ content'[s] = {s}
      BY <1>2 DEF Pack
    <3>1. s \in owed /\ s \in Round /\ workdir' = workdir \cup {r} /\ data = {r}
      BY <1>2 DEF Pack
    <3>2. CASE s = r
      <4>1. content' = [content EXCEPT ![r] = data]
        BY <1>2, <3>2 DEF Pack
      <4> QED BY <3>1, <3>2, <4>1
    <3>3. CASE s # r
      <4>1. content'[s] = content[s] /\ proc[s] \notin {"run", "stop"}
        BY <1>2, <3>1, <3>3 DEF Pack
      <4>2. s \in workdir \cup vtar \cup received /\ content[s] = {s}
        BY <3>1, <4>1
      <4> QED BY <1>2, <3>1, <4>1, <4>2 DEF Pack
    <3> QED BY <3>2, <3>3
  <2> QED BY <2>1, <2>2, <2>3, <2>4
<1>3. CASE Move(r)
  <2>1. VehicleTypeOK'
    BY <1>3 DEF Move
  <2>2. RoundInv'
    BY <1>3 DEF Move
  <2>3. raced' \/ OneCollector'
    BY <1>3 DEF Move
  <2>4. MeasurementsKept'
    BY <1>3 DEF Move
  <2> QED BY <2>1, <2>2, <2>3, <2>4
<1>4. CASE Clean(r)
  <2>1. VehicleTypeOK'
    BY <1>4 DEF Clean
  <2>2. RoundInv'
    BY <1>4 DEF Clean
  <2>3. raced' \/ OneCollector'
    BY <1>4 DEF Clean
  <2>4. MeasurementsKept'
    BY <1>4 DEF Clean
  <2> QED BY <2>1, <2>2, <2>3, <2>4
<1> QED BY <1>1, <1>2, <1>3, <1>4

(* The steps of collector_daemon.  It removes old data, and starts the     *)
(* next round, when its collector has ended.                               *)
LEMMA DaemonInvKeeps ==
  ASSUME VehicleInv,
         DaemonStarts \/ DaemonCleans \/ DaemonPopens \/ DaemonAssigns \/ DaemonTerminates \/ DaemonForgets
           \/ DaemonGoesOn \/ DaemonQuits
  PROVE  VehicleInv'
<1> USE CollectorAssumption DEF VehicleInv, VehicleTypeOK, RoundInv, OneCollector, MeasurementsKept,
      Active, Round, None, Fault, CleanData, boundVars, deliveryVars
<1>1. CASE DaemonStarts
  BY <1>1 DEF DaemonStarts
<1>2. CASE DaemonCleans
  BY <1>2 DEF DaemonCleans
<1>3. CASE DaemonPopens
  <2>1. VehicleTypeOK'
    BY <1>3 DEF DaemonPopens
  <2>2. RoundInv'
    BY <1>3 DEF DaemonPopens
  <2>3. raced' \/ OneCollector'
    BY <1>3 DEF DaemonPopens
  <2>4. MeasurementsKept'
    BY <1>3 DEF DaemonPopens
  <2> QED BY <2>1, <2>2, <2>3, <2>4
<1>4. CASE DaemonAssigns
  <2>1. VehicleTypeOK'
    BY <1>4 DEF DaemonAssigns
  <2>2. RoundInv'
    BY <1>4 DEF DaemonAssigns
  <2>3. raced' \/ OneCollector'
    BY <1>4 DEF DaemonAssigns
  <2>4. MeasurementsKept'
    BY <1>4 DEF DaemonAssigns
  <2> QED BY <2>1, <2>2, <2>3, <2>4
<1>5. CASE DaemonTerminates
  <2>1. VehicleTypeOK'
    BY <1>5 DEF DaemonTerminates, Terminate, AfterTerm
  <2>2. RoundInv'
    BY <1>5 DEF DaemonTerminates, Terminate, AfterTerm
  <2>3. raced' \/ OneCollector'
    BY <1>5 DEF DaemonTerminates, Terminate, AfterTerm
  <2>4. MeasurementsKept'
    BY <1>5 DEF DaemonTerminates, Terminate, AfterTerm
  <2> QED BY <2>1, <2>2, <2>3, <2>4
<1>6. CASE DaemonForgets
  <2>1. VehicleTypeOK'
    BY <1>6 DEF DaemonForgets
  <2>2. RoundInv'
    BY <1>6 DEF DaemonForgets
  <2>3. raced' \/ OneCollector'
    BY <1>6 DEF DaemonForgets
  <2>4. MeasurementsKept'
    BY <1>6 DEF DaemonForgets
  <2> QED BY <2>1, <2>2, <2>3, <2>4
<1>7. CASE DaemonGoesOn
  BY <1>7 DEF DaemonGoesOn, Waited
<1>8. CASE DaemonQuits
  BY <1>8 DEF DaemonQuits
<1> QED BY <1>1, <1>2, <1>3, <1>4, <1>5, <1>6, <1>7, <1>8

(* Stops and losses of power.  A stop in sleep terminates a collector that *)
(* is still measuring, which then packs.                                   *)
LEMMA FaultInvKeeps == VehicleInv /\ CollectorFault => VehicleInv'
<1> USE CollectorAssumption DEF VehicleInv, VehicleTypeOK, RoundInv, OneCollector, MeasurementsKept,
      Active, Round, None, Fault, CleanData, boundVars, deliveryVars
<1>1. ASSUME VehicleInv, DaemonStopped PROVE VehicleInv'
  <2>1. VehicleTypeOK'
    BY <1>1 DEF DaemonStopped, Terminate, AfterTerm
  <2>2. RoundInv'
    BY <1>1 DEF DaemonStopped, Terminate, AfterTerm
  <2>3. raced' \/ OneCollector'
    <3> SUFFICES ASSUME ~raced' PROVE OneCollector'
      OBVIOUS
    <3>1. ~raced /\ OneCollector /\ dpc \in {"clean", "popen", "sleep"}
      BY <1>1 DEF DaemonStopped
    <3>2. /\ UNCHANGED <<collector, round, data, workdir>>
          /\ dpc' \in {"down", "quit"}
      BY <1>1 DEF DaemonStopped
    <3>3. CASE collector = None
      <4>1. dpc # "sleep" /\ dpc' = "down" /\ UNCHANGED proc
        BY <1>1, <3>1, <3>3 DEF DaemonStopped
      <4> QED BY <3>1, <3>2, <4>1
    <3>4. CASE collector # None
      <4>1. dpc = "sleep" /\ dpc' = "quit" /\ collector = round
        BY <1>1, <3>1, <3>4 DEF DaemonStopped
      <4>2. proc' = [proc EXCEPT ![round] = IF proc[round] = "run" THEN "stop" ELSE "exit"]
        BY <1>1, <3>4, <4>1 DEF DaemonStopped, Terminate, AfterTerm
      <4> QED BY <1>1, <3>1, <3>2, <4>1, <4>2
    <3> QED BY <3>3, <3>4
  <2>4. MeasurementsKept'
    <3>1. CASE collector = None
      BY <1>1, <3>1 DEF DaemonStopped
    <3>2. CASE collector # None /\ ~raced'
      <4>1. collector = round /\ proc[round] \in {"init", "run", "exit"} /\ ~raced
        BY <1>1, <3>2 DEF DaemonStopped
      <4> QED BY <1>1, <3>2, <4>1 DEF DaemonStopped, Terminate, AfterTerm
    <3>3. CASE raced'
      BY <3>3
    <3> QED BY <3>1, <3>2, <3>3
  <2> QED BY <2>1, <2>2, <2>3, <2>4
<1>2. ASSUME VehicleInv, PowerLoss PROVE VehicleInv'
  <2>1. VehicleTypeOK'
    BY <1>2 DEF PowerLoss
  <2>2. RoundInv'
    BY <1>2 DEF PowerLoss
  <2>3. raced' \/ OneCollector'
    BY <1>2 DEF PowerLoss
  <2>4. MeasurementsKept'
    BY <1>2 DEF PowerLoss
  <2> QED BY <2>1, <2>2, <2>3, <2>4
<1> QED BY <1>1, <1>2 DEF CollectorFault

(* None of these steps reaches the server.                                 *)
LEMMA ServerUntouched ==
  ServerTypeOK /\ (CollectorStep \/ CollectorFault) /\ UNCHANGED analyzerVars => ServerTypeOK'
BY DEF ServerTypeOK, CollectorStep, CollectorFault, DaemonStarts, DaemonCleans, DaemonPopens, DaemonAssigns,
       DaemonTerminates, DaemonForgets, DaemonGoesOn, DaemonQuits, Measure, Pack, Move, Clean, DaemonStopped,
       PowerLoss, deliveryVars, analyzerVars

(* The invariant is inductive.                                             *)
LEMMA PipelineInvStep == PipelineInv /\ [PipelineNext]_vars => PipelineInv'
<1>1. PipelineInv /\ UNCHANGED vars => PipelineInv'
  BY DEF PipelineInv, VehicleInv, VehicleTypeOK, ServerTypeOK, RoundInv, OneCollector, MeasurementsKept,
         Active, vars,
         collectorVars, daemonVars, boundVars, deliveryVars, analyzerVars
<1> QED BY <1>1, AnalyzerInvKeeps, DeliveryInvKeeps, ProcessInvKeeps, DaemonInvKeeps, FaultInvKeeps,
           ServerUntouched
        DEF PipelineNext, PipelineInv, CollectorStep

(* Rounds follow one another on the vehicle, unless the daemon is stopped  *)
(* while one begins or ends, whatever the uploader and the analyzer do.    *)
THEOREM PipelineInvariant == PipelineSpec => []PipelineInv
BY PipelineInvInit, PipelineInvStep, PTL DEF PipelineSpec

(* The daemon always knows the collector it terminates or waits for (its   *)
(* variables collector and tmp), and no process leaves its states.         *)
THEOREM PipelineTypeCorrect == PipelineSpec => []PipelineTypeOK
<1>1. PipelineInv => PipelineTypeOK
  BY DEF PipelineInv, VehicleInv, PipelineTypeOK
<1> QED BY <1>1, PipelineInvariant, PTL

(* The measurements of a round are in data_dir with the collector that     *)
(* packs them, or in a tarball in its working directory, in tar_dir, or    *)
(* received by the server, for any number of rounds, faults and kills, and *)
(* though mv and rm may fail; unless the vehicle loses power before they   *)
(* are packed, tar fails, or sig_handler of the daemon runs while a round  *)
(* begins or ends.                                                         *)
THEOREM NoMeasurementLost == PipelineSpec => []MeasurementsKept
<1>1. PipelineInv => MeasurementsKept
  BY DEF PipelineInv, VehicleInv
<1> QED BY <1>1, PipelineInvariant, PTL
=============================================================================
