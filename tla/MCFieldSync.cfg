CONSTANTS
  Rows         <- MCRows
  Templates    <- MCTemplates
  Dist         <- MCDist
  SANs         <- MCSANs
  ManagedArn   = "managed"
  None         = None
  DefaultGroup = "g0"
  DefaultTTL   = "300"
  MaxChanges   = 2
SPECIFICATION FairSpec
INVARIANTS TypeOK MatchIsExact EqualMeansSame CoverageIsExact
PROPERTIES UpdateSettles PushSettles RowReachesAWS
