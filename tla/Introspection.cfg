\* Tournaments of two, a pass in every unit of time, two units an interval.
SPECIFICATION IntrospectionSpec
CONSTANTS
  Interval = 2
  TickInterval = 1
  InitialDelay = 0
  Size = 2
  Deployments = {{}, {"timer"}}
PROPERTIES
  DuplicatesDoNotHammer
  BothModesTried
CHECK_DEADLOCK FALSE
