\* Two ideas, lists of one while there is a model to ask, half the signals a nudge takes in the code.
SPECIFICATION FairSpec
CONSTANTS
  Ideas = {1, 2}
  Deployed <- MCDeployed
  Text <- MCText
  Batch = 1
  MinSignals = 2
  NoRow = NoRow
INVARIANTS
  BoardsGated
  SwitchesHold
PROPERTIES
  EveryIdeaScored
CHECK_DEADLOCK FALSE
