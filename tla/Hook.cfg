SPECIFICATION HookSpec
CONSTANTS
  Calls = {c1, c2}
  Commands <- MCCommands
  Verdict <- MCVerdict
  Requests <- MCRequests
  MaxFlips = 2
  MaxPieces = 4
  MAX_DEPTH = 2
  MaxLayers = 3
INVARIANT DecisionIsItsOwn
INVARIANT NothingRunsUnasked
INVARIANT LogIsTheRecord
INVARIANT CallsAreFound
INVARIANT CommandsAreRead
INVARIANT SubstitutionsAreFound
PROPERTY EveryCallAnswered
CHECK_DEADLOCK FALSE
