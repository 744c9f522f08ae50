CONSTANTS
  a1 = a1
  a2 = a2
  plan = plan
  again = again
  resume = resume
  n1 = n1
  g1 = g1
  g2 = g2
  t1 = t1
  t2 = t2
  op = op
  o1 = o1
  o2 = o2
  c1 = c1
  c2 = c2
  Adapter = {a1, a2}
  Event = {plan, again, resume}
  Node = {n1}
  Goal = {g1, g2}
  Thread = {t1, t2}
  Sender = {op}
  Objective = {o1, o2}
  SHA = {c1, c2}
  Body <- Bodies
  GoalOf <- OneNode
  First = {n1}
  May <- Identities
  ServicePlans <- OtherGoals
  MaxAge = 0
  MaxSkew = 0
  MaxClock = 1
  MaxFaults = 1
  None = None
SPECIFICATION Spec
INVARIANTS SameAnswer
PROPERTIES ExactlyOnce GateNeedsEvent Answered
CHECK_DEADLOCK FALSE
