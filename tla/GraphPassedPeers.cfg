SPECIFICATION PipelineSpec
CONSTANTS
  n1 = n1
  n2 = n2
  n3 = n3
  g1 = g1
  g2 = g2
  p1 = p1
  p2 = p2
  None = None
  Node <- PairNode
  Goal = {g1, g2}
  Project = {p1}
  GoalOf <- PairGoalOf
  ProjectOf <- PeerProjectOf
  Dependencies <- PairDependencies
  WriteSet <- ApartWriteSet
  MaxTTL = 1
  MaxAttempt = 1
  MaxVersion = 5
  MaxInFlight = 1
  Dispositions = {"RETRY", "FAILED_GATE"}
  Forced = {FALSE}
PROPERTY
  PassedPeersProgress
