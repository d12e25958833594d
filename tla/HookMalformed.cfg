SPECIFICATION Spec
CONSTANTS
  Calls = {c1, c2}
  Commands <- MCCommands
  Verdict <- MCVerdict
  Requests <- MCRequests
  MaxFlips = 2
INVARIANT MalformedFailsOpen
CHECK_DEADLOCK FALSE
