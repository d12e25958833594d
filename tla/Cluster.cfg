SPECIFICATION Spec
CONSTANTS
  Kinds <- Native
  Bare <- MCBare
  ClusterScoped <- MCScoped
  Default = "ns"
  None = None
  Templates <- MCTemplates
  Clusters <- MCClusters
  FreshUid = 7
  Commands <- MCCommands
  MaxChanges = 2
INVARIANT ChainIsTrue
INVARIANT ListsAreTrue
INVARIANT ExitsAreTrue
PROPERTY WalkEnds
CHECK_DEADLOCK FALSE
