SPECIFICATION Spec
CONSTANTS
  d1 = d1
  d2 = d2
  g0 = g0
  c0 = c0
  t1 = t1
  r1 = r1
  r2 = r2
  None = None
  Domains = {d1, d2}
  Groups = {g0}
  DefaultGroup = g0
  Configs = {c0}
  BareConfig = c0
  RejectedConfigs = {}
  TTLs = {t1}
  Uncovered = {}
  Specs <- MCSpecs
  Resources = {r1, r2}
  SpecOf <- MCSpecOf
INVARIANTS RecordsFrameTenants
\* the system stops once the resources are gone
CHECK_DEADLOCK FALSE
