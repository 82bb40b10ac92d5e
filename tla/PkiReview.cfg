\* Four quarter-hours to the interval, a pass every one of them.
SPECIFICATION FairSpec
CONSTANTS
  Interval = 4
  TickInterval = 1
  InitialDelay = 1
  Gaps = {g1, g2}
  Linked = {g1}
  Cited = {rfc, g1}
  Window = 2
  Nil = Nil
INVARIANT
  CardAnswers
PROPERTIES
  PriorArtIsEvidence
  PanelNeedsTwo
  NoBurnLoop
  KeepsProbing
CHECK_DEADLOCK FALSE
