\* A file to edit, which the operator edits too, and a new one; one runner.
SPECIFICATION Spec
CONSTANTS
  n1 = n1
  n2 = n2
  Files = {f1, f2}
  Tracked = {f1}
  Place <- MCPlace
  Dir <- MCDir
  Issues = {n1, n2}
  Main = Main
  Op = Op
  Gone = Gone
  Runners = {timer}
  NoIssue = NoIssue
  Desk = {f1}
  Proposals <- MCProposals
INVARIANTS
  MainUntouched
  ClosedMeansPr
PROPERTY
  WipKept
