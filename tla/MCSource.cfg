SPECIFICATION FairSpec
CONSTANTS
  n1 = n1
  n2 = n2
  v1 = v1
  v2 = v2
  None = None
  Names = {n1, n2}
  Values = {v1, v2}
  Items <- MCItems
  SourceSpecs <- MCSourceSpecs
  Meddled = {n1}
  FirstSpecs <- MCFirstSpecs
  Tables <- MCTables
  MaxEvents = 2
INVARIANTS TypeOK
PROPERTIES ForeignSpecKept CertificateKept SourceConverges Settles ConflictReported PlanIsAccurate SourceDeletionCompletes NothingLeftBehind
\* the system stops once the source and its tenants are gone
CHECK_DEADLOCK FALSE
