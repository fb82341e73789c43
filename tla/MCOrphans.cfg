SPECIFICATION Spec
CONSTANTS
  d1 = d1
  d2 = d2
  g0 = g0
  g1 = g1
  c0 = c0
  c1 = c1
  bad = bad
  t1 = t1
  t2 = t2
  None = None
  Domains = {d1, d2}
  Groups = {g0}
  DefaultGroup = g0
  Configs = {c0, c1}
  BareConfig = c0
  RejectedConfigs = {}
  TTLs = {t1}
  Uncovered = {}
  Specs <- DomainSpecs
  Policy = "enforce"
  MaxEdits = 1
  MaxFaults = 0
  MaxExternals = 0
INVARIANTS NoOrphanedRecords
\* the system stops once the resource and its tenant are gone
CHECK_DEADLOCK FALSE
