\* Passes are much shorter than the interval: any number of them fall in one.
SPECIFICATION FairSpec
CONSTANTS
  Missions = {m1, m2}
  Interval = 1
  TickInterval = 0
  InitialDelay = 1
  Cadence = Cadence
  Clicks = {c1}
  Nil = Nil
PROPERTIES
  NoEarlyFire
  RoundRobin
  EveryMissionServed
CHECK_DEADLOCK FALSE
