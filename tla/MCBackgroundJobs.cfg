\* Two jobs of one session; one failed follow-up or restart.
CONSTANTS
  j1 = j1
  j2 = j2
  NoJob = NoJob
  Jobs <- TwoJobs
  MaxTurns = 1
  MaxTools = 1
  MaxMishaps = 1
SPECIFICATION FairSpec
CHECK_DEADLOCK FALSE
INVARIANTS TypeOK RecordsTrue ToldAsRecorded
PROPERTIES CompletionHeard
