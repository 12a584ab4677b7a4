------------------------------ MODULE Pipeline ------------------------------
(***************************************************************************)
(* Measurements from the vehicle to the database: Collector and Analyzer,  *)
(* joined by what the uploader promises (Delivery).                        *)
(***************************************************************************)
EXTENDS Collector, Analyzer

vars == <<collectorVars, deliveryVars, analyzerVars>>

PipelineInit ==
  /\ CollectorInit /\ AnalyzerInit
  /\ vtar = {} /\ star = {} /\ received = {} /\ damaged = {}

(* Tarballs that lack files of their round: packed when these were gone,   *)
(* by a tar that failed, or damaged on the server.                         *)
Cut == {t \in Tarball : t \notin content[t]} \cup damaged

AnalyzerStep ==
  \/ AnalyzerStarts \/ List \/ Unpack(Cut) \/ SleepAndRepeat
  \/ \E t \in Tarball : Take(t) \/ Parse(t, TRUE) \/ Parse(t, FALSE) \/ Save(t) \/ Archive(t)

PipelineNext ==
  \/ (CollectorStep \/ CollectorFault) /\ UNCHANGED analyzerVars
  \/ (AnalyzerStep \/ Killed) /\ UNCHANGED collectorVars
  \/ DeliveryNext /\ UNCHANGED <<collectorVars, analyzerVars>>

PipelineSpec == PipelineInit /\ [][PipelineNext]_vars

(* The analyzer runs, and systemd starts it again when it has ended.       *)
(* Nothing is assumed of the vehicle: its uploader may hang for ever.      *)
FairPipelineSpec == PipelineSpec /\ WF_vars(AnalyzerStep /\ UNCHANGED collectorVars)

-----------------------------------------------------------------------------
(* Properties.                                                             *)

VehicleTypeOK ==
  /\ dpc \in {"down", "clean", "popen", "assign", "sleep", "forget", "wait", "quit"}
  /\ collector \in Round \cup {None} /\ tmp \in Round \cup {None} /\ round \in 0 .. MaxRounds
  /\ dpc \in {"sleep", "forget", "quit"} <=> collector # None
  /\ dpc = "wait" => tmp # None
  /\ proc \in [Round -> {"none", "init", "run", "stop", "packed", "moved", "exit"}]
  /\ data \subseteq Round /\ content \in [Round -> SUBSET Round] /\ workdir \subseteq Round
  /\ owed \subseteq Round /\ raced \in BOOLEAN /\ vtar \subseteq Tarball

ServerTypeOK ==
  /\ apc \in {"down", "list", "unpack", "next", "parse", "save", "archive"}
  /\ exps \subseteq Tarball /\ exp \subseteq Tarball
  /\ dirs \subseteq Tarball /\ broken \subseteq Tarball
  /\ star \subseteq Tarball /\ received \subseteq Tarball /\ damaged \subseteq Tarball
  /\ archive \subseteq Tarball /\ saved \in [Tarball -> Nat]

(* The type invariant: where the processes may be, and that the daemon     *)
(* knows the collector it terminates or waits for (collector and tmp).     *)
PipelineTypeOK == VehicleTypeOK /\ ServerTypeOK

(* The measurements of a round are never lost once it is under way: they   *)
(* are in data_dir with a collector that will pack them, or in a tarball   *)
(* in its working directory (for good, if the mv failed), in tar_dir of    *)
(* the vehicle, or received by the server.  The exceptions: the vehicle    *)
(* loses power before the data is packed, tar fails (stop removes the data *)
(* all the same), or the daemon is stopped while a round begins or ends.   *)
MeasurementsKept ==
  raced \/ \A r \in owed :
    \/ proc[r] \in {"run", "stop"} /\ data = {r}
    \/ r \in workdir \cup vtar \cup received /\ content[r] = {r}

(* A tarball that is in tar_dir of the server gets analyzed, through kills *)
(* of the analyzer, directories they leave, a failed mv and deliveries     *)
(* that are repeated, unless one that is cut, or whose logs cannot be      *)
(* parsed, is in tar_dir, where it may end every cycle.                    *)
Analyzed ==
  \A t \in Tarball : t \in star ~> t \in archive \/ star \cap (Cut \cup Unparsable) # {}

=============================================================================
