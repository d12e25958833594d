SPECIFICATION FilesSpec
CONSTANTS
  Trees <- MCTrees
  Writes <- MCWrites
  Dotted <- MCDotted
  Junk <- MCJunk
  Rank <- MCRank
  Now = 9
  Commands <- WalkCommands
  Keys <- MCKeys
  Positions <- MCPositions
  Spelling <- MCSpelling
  Collation <- MCCollation
  NumberOf <- MCNumberOf
  Scenarios <- MCScenarios
  None = None
  Torn = Torn
  MaxChanges = 2
INVARIANT WalksAreTrue
INVARIANT ReadsAreTrue
INVARIANT TablesAreTrue
INVARIANT PathsAreTrue
INVARIANT LayersAreTrue
INVARIANT HostsAreTrue
INVARIANT OrdersAreTrue
INVARIANT ToolsAreTrue
INVARIANT NodesAreTrue
INVARIANT ContainersAreTrue
CHECK_DEADLOCK FALSE
