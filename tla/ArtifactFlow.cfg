CONSTANTS
  c1 = c1
  c2 = c2
  integrator = integrator
  other = other
  bundle = bundle
  output = output
  x = x
  y = y
  g1 = g1
  Call = {c1, c2}
  File = {bundle, output}
  Checked = {output}
  Content = {x, y}
  Manifest <- TwoBundles
  None = None
  Publisher = {integrator, other}
  Commit = {g1}
  Absent = Absent
  CandidateOf <- OneCandidate
  Integrator = {integrator}
  MaxFaults = 1
  MaxWrites = 2
SPECIFICATION Spec
INVARIANTS RecordedResolves
PROPERTIES EvidenceImmutable GenerationImmutable Settles Republished
CHECK_DEADLOCK FALSE
