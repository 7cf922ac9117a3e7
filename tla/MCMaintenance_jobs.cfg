SPECIFICATION FairSpec
CONSTANTS
  Worker = {w1, w2}
  Runner = {r1, r2}
  MaxJobs = 2
  TakeLimit = 2
  Nobody = Nobody
INVARIANTS
  LockedRunsExclude
  JobExecutedOnce
  OwedIsAhead
PROPERTY OwedIsDone
