\* Two rounds; the logs of the second tarball make a parser raise, and any
\* tarball may be cut or damaged on its way.
SPECIFICATION FairPipelineSpec
CONSTANTS
  Tarball <- MCTarball
  MaxRounds = 2
  MaxFaults = 1
  Unparsable = {2}
  MaxKills = 1
INVARIANTS
  PipelineTypeOK
  MeasurementsKept
  SavedOnce
  ArchivedSaved
PROPERTY
  Analyzed
CHECK_DEADLOCK FALSE
