SPECIFICATION Spec
CONSTANTS
  Kinds <- WithCrd
  Bare <- MCBare
  ClusterScoped <- MCScoped
  Default = "ns"
  None = None
  Templates <- MCTemplates
  Clusters <- CrdClusters
  FreshUid = 7
  Commands <- MCCommands
  MaxChanges = 2
INVARIANT ChainIsReal
CHECK_DEADLOCK FALSE
