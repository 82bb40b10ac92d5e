\* Two quarter-hours to the interval; one operator clicks, one card goes.
SPECIFICATION ReviewSpec
CONSTANTS
  Interval = 2
  TickInterval = 1
  InitialDelay = 1
  Cadence = Cadence
  Clicks = {c1}
  Categories = {making, carry}
  Removals = 1
INVARIANTS
  SpinnerStops
  CardsAreHonest
  CategoriesBalanced
PROPERTY
  NoBurnLoop
CHECK_DEADLOCK FALSE
