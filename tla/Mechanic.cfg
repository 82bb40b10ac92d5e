SPECIFICATION FairSpec
CONSTANTS
  Items = {i1}
  Urgent = {i1}
  Runs = {r1, r2}
  Requests = {q1}
  Rollups <- MCRollups
  None = None
  StaleAfter = 2
  Limit <- MCLimit
INVARIANTS
  OneRunAtATime
  MergedAsViewed
PROPERTY
  GuardReleases
CHECK_DEADLOCK FALSE
