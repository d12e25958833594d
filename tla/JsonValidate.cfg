SPECIFICATION Spec
CONSTANTS
  Keys <- MCKeys
  Positions <- MCPositions
  Spelling <- MCSpelling
  Collation <- MCCollation
  NumberOf <- MCNumberOf
  Scenarios <- Validates
INVARIANT VerdictIsOfAllFiles
CHECK_DEADLOCK FALSE
