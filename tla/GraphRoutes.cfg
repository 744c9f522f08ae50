SPECIFICATION Spec
CONSTANTS
  n1 = n1
  n2 = n2
  n3 = n3
  g1 = g1
  g2 = g2
  p1 = p1
  p2 = p2
  None = None
  Node <- RouteNode
  Goal = {g1, g2}
  Project = {p1, p2}
  GoalOf <- RouteGoalOf
  ProjectOf <- RouteProjectOf
  Dependencies <- RouteDependencies
  WriteSet <- RouteWriteSet
  MaxTTL = 1
  MaxAttempt = 1
  MaxVersion = 6
  MaxInFlight = 2
  Dispositions = {"RETRY", "FAILED_GATE", "NEEDS_HUMAN"}
  Forced = {FALSE}
INVARIANTS
  EvaluationClosed
  DependenciesIntegrated
PROPERTIES
  PassUnderLiveClaim
  ChangesRecorded
  LineSpec
