SPECIFICATION AnswersSpec
CONSTANTS
  Jobs <- ChainJobs
  None = None
  NoLimit = NoLimit
  MaxSteps = 6
  MaxMoves = 1
  MaxPhrases = 4
  MaxObserved = 2
INVARIANT TriageIsTrue
INVARIANT ValidIsReal
INVARIANT LosesOnlyAtForks
INVARIANT CertificatesAreTold
INVARIANT HistoryIsTrue
INVARIANT RequestsAreTrue
INVARIANT RulesAreTrue
INVARIANT MetricsAreTrue
CHECK_DEADLOCK FALSE
