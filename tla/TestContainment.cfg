SPECIFICATION Spec
CONSTANTS
  Command = cmd
  Proc = {cmd, d1, d2}
  ExitCode = {ok, bad}
  Success = ok
  MaxFaults = 2
  None = None
CHECK_DEADLOCK FALSE
INVARIANTS
  TargetsAreOwn
  Contained
  Genuine
  CleanAsChecked
PROPERTIES
  Cleared
