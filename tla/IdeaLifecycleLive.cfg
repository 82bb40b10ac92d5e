\* One idea, one issue number; one slot for every coroutine, one for promotions and back-fills.
SPECIFICATION FairSpec
CONSTANTS
  Ideas = {i1}
  Tasks = {t1, t2}
  Light = {t2}
  IssueNos = {n1}
  NoIssue = NoIssue
INVARIANTS
  StatusBacked
  StampHasIssue
CHECK_DEADLOCK FALSE
PROPERTIES
  SyncDrains
  ReconcilerCatchesUp
