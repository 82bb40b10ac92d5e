SPECIFICATION FairGenerators
CONSTANTS
  p1 = p1
  p2 = p2
  k1 = k1
  Tasks = {timer, server}
  Reasoning = {timer}
  Pairs = {p1, p2, p3}
  Clusters = {k1}
  Spans <- MCSpans
  Tuples = {x1}
  Lead = 1
  Nil = Nil
INVARIANTS
  EvenCoverage
  PlacedAreUsed
PROPERTY
  EveryPairExplored
