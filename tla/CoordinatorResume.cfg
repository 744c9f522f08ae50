\* One caller, which is cut off anywhere and takes up what it left.
CONSTANTS
  n1 = n1
  n2 = n2
  n3 = n3
  c1 = c1
  c2 = c2
  fix = fix
  patch = patch
  None = None
  Node = {n1, n2}
  Caller = {c1}
  Change = {fix}
  ChangeOf <- TwoAlike
SPECIFICATION CallSpec
PROPERTIES StartupCompletes RetriesComplete
