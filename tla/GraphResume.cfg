SPECIFICATION Spec
CONSTANTS
  n1 = n1
  n2 = n2
  n3 = n3
  g1 = g1
  g2 = g2
  p1 = p1
  p2 = p2
  None = None
  Node <- PairNode
  Goal = {g1, g2}
  Project = {p1}
  GoalOf <- PairGoalOf
  ProjectOf <- PeerProjectOf
  Dependencies <- PairDependencies
  WriteSet <- NestedWriteSet
  MaxTTL = 1
  MaxAttempt = 2
  MaxVersion = 6
  MaxInFlight = 1
  Dispositions = {"RETRY", "FAILED_GATE", "NEEDS_HUMAN"}
  Forced = {FALSE}
INVARIANT
  PointerClosed
