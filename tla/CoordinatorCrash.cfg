\* Three nodes, two of them alike.
CONSTANTS
  n1 = n1
  n2 = n2
  n3 = n3
  c1 = c1
  c2 = c2
  fix = fix
  patch = patch
  None = None
  Node = {n1, n2, n3}
  Caller = {c1, c2}
  Change = {fix, patch}
  ChangeOf <- TwoAlikeOneOther
SPECIFICATION Spec
INVARIANTS TypeOK NeverLocksOut HistoryClosed RollbackOwnsHead GenerationFirst
PROPERTY BindingLine
