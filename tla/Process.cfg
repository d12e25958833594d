SPECIFICATION HostsSpec
CONSTANTS
  Trees <- MCTrees
  Writes <- MCWrites
  Dotted <- MCDotted
  Junk <- MCJunk
  Rank <- MCRank
  Now = 9
  Commands <- WalkCommands
  Keys <- MCKeys
  Positions <- MCPositions
  Spelling <- MCSpelling
  Collation <- MCCollation
  NumberOf <- MCNumberOf
  Scenarios <- MCScenarios
  None = None
  Torn = Torn
  MaxChanges = 2
INVARIANT RowsStayOnOneLine
CHECK_DEADLOCK FALSE
