CONSTANTS
  w1 = w1
  w2 = w2
  a = a
  b = b
  None = None
  Contract = {a, b}
  TaskId <- OwnTask
  Key <- OneKey
  MaxIterations = 1
  MaxTokens = 1
  Worker = {w1, w2}
  Routed = {w1}
  ExitCode = {0, 1}
  ByHand = {"QUEUED", "LEASED", "EVIDENCE_PENDING"}
SPECIFICATION MCSpec
INVARIANTS ExecutesOnce
PROPERTIES EvidenceEarned EndsForGood GroupsEnd
