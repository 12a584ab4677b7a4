------------------------------ MODULE Analyzer ------------------------------
(***************************************************************************)
(* The analyzer of the server, server_tools/analyzer/parser.py: a cycle    *)
(* that lists tar_dir, unpacks every tarball, and then parses, saves and   *)
(* archives one after the other.  An exception ends the process; systemd   *)
(* starts it again.  A tarball may come back after it was archived, since  *)
(* the vehicle sends it again until it has the digest (Delivery).          *)
(***************************************************************************)
EXTENDS Delivery, Naturals

CONSTANTS
  Unparsable, \* tarballs whose logs, complete as they are, make a parser raise
  MaxKills    \* bound: how often the analyzer is killed, or its mv fails

ASSUME AnalyzerAssumption ==
  Unparsable \subseteq Tarball /\ MaxKills \in Nat

VARIABLES
  apc,      \* where the analyzer is, "down" if it does not run
  exps,     \* what is left of _exp_list
  exp,      \* the experiment at hand: {} or one element
  dirs,     \* the directories unpacked in tar_dir
  broken,   \* experiments of _exp_list, or at hand, that were unpacked in part only
  saved,    \* how often an experiment is in the database
  archive,  \* tarballs in archive_dir
  kills

analyzerVars == <<apc, exps, exp, dirs, broken, saved, archive, kills>>

AnalyzerInit ==
  /\ apc = "down" /\ exps = {} /\ exp = {} /\ dirs = {} /\ broken = {}
  /\ saved = [t \in Tarball |-> 0] /\ archive = {} /\ kills = 0

AnalyzerStarts ==
  /\ apc = "down"
  /\ apc' = "list"
  /\ UNCHANGED <<exps, exp, dirs, broken, saved, archive, kills, deliveryVars>>

(* _update_exp_list: what is not a tarball is removed from tar_dir.        *)
List ==
  /\ apc = "list"
  /\ exps' = star /\ dirs' = {}
  /\ apc' = "unpack"
  /\ UNCHANGED <<exp, broken, saved, archive, kills, deliveryVars>>

Die == apc' = "down" /\ exps' = {} /\ exp' = {} /\ broken' = {}

(* _uncompress: tarballs that are cut may unpack to nothing, which raises  *)
(* and ends the process, as does a directory that is there already, or to  *)
(* a part of the logs, since the result of tar is ignored.                 *)
Unpack(cut) ==
  /\ apc = "unpack"
  /\ dirs' = dirs \cup exps
  /\ \/ exps \cap dirs = {} /\ apc' = "next" /\ broken' = exps \cap cut /\ UNCHANGED <<exps, exp>>
     \/ exps \cap (cut \cup dirs) # {} /\ Die
  /\ UNCHANGED <<saved, archive, kills, deliveryVars>>

(* Mutants: the archive is asked instead of the database; every experiment *)
(* counts as a duplicate.                                                  *)
MutExistsArchived(t) == t \in archive
MutExistsAlways(t) == saved[t] >= 0

Exists(t) == saved[t] > 0

(* Mutant: a duplicate is left in tar_dir.                                 *)
MutLeaves(t) == IF Exists(t) THEN "next" ELSE "parse"

AfterQuery(t) == IF Exists(t) THEN "archive" ELSE "parse"

(* _parse_exp up to the query: a duplicate is only archived.               *)
Take(t) ==
  /\ apc = "next" /\ t \in exps
  /\ exps' = exps \ {t} /\ exp' = {t}
  /\ apc' = AfterQuery(t)
  /\ IF Exists(t)
     THEN dirs' = dirs \ {t} /\ broken' = broken \ {t}
     ELSE UNCHANGED <<dirs, broken>>
  /\ UNCHANGED <<saved, archive, kills, deliveryVars>>

(* The parsers and the linking of what they found.  Logs that lack a part  *)
(* may parse or raise, those of Unparsable raise (RMParser shows how).     *)
Parse(t, works) ==
  /\ apc = "parse" /\ exp = {t}
  /\ t \in broken \/ works = (t \notin Unparsable)
  /\ IF works
     THEN apc' = "save" /\ dirs' = dirs \ {t} /\ broken' = broken \ {t} /\ UNCHANGED <<exps, exp>>
     ELSE Die /\ UNCHANGED dirs
  /\ UNCHANGED <<saved, archive, kills, deliveryVars>>

(* save: one transaction.                                                  *)
Save(t) ==
  /\ apc = "save" /\ exp = {t}
  /\ saved' = [saved EXCEPT ![t] = @ + 1]
  /\ apc' = "archive"
  /\ UNCHANGED <<exps, exp, dirs, broken, archive, kills, deliveryVars>>

(* mv to archive_dir.  If it fails, unnoticed, the next cycle finds the    *)
(* tarball again, as a duplicate.                                          *)
Archive(t) ==
  /\ apc = "archive" /\ exp = {t}
  /\ \/ /\ archive' = archive \cup {t}
        /\ star' = star \ {t} /\ damaged' = damaged \ {t}
        /\ UNCHANGED kills
     \/ kills < MaxKills /\ kills' = kills + 1 /\ UNCHANGED <<archive, star, damaged>>
  /\ exp' = {} /\ apc' = "next"
  /\ UNCHANGED <<exps, dirs, broken, saved, vtar, received>>

(* The end of parse, and the next round of periodical_parsing.             *)
SleepAndRepeat ==
  /\ apc = "next" /\ exps = {}
  /\ apc' = "list"
  /\ UNCHANGED <<exps, exp, dirs, broken, saved, archive, kills, deliveryVars>>

(* sig_handler, or a crash.                                                *)
Killed ==
  /\ apc # "down" /\ kills < MaxKills
  /\ kills' = kills + 1
  /\ Die
  /\ UNCHANGED <<dirs, saved, archive, deliveryVars>>

-----------------------------------------------------------------------------
(* Properties.                                                             *)

(* "DO NOT store data into DB if the experiment already exists in DB"      *)
(* (128): an experiment is saved once, whatever is sent twice or cut off   *)
(* between the database and the archive.                                   *)
SavedOnce == \A t \in Tarball : saved[t] <= 1

(* "the folder that contains tarballs which are already analyzed"          *)
(* (--archive_dir, 29): what is archived is in the database.               *)
ArchivedSaved == \A t \in archive : saved[t] > 0
=============================================================================
