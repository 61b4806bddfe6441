SPECIFICATION Spec
CONSTANTS
  d1 = d1
  d2 = d2
  t1 = t1
  t2 = t2
  tenant1 = tenant1
  good1 = good1
  good2 = good2
  torn = torn
  p1 = p1
  c1 = c1
  c2 = c2
  c3 = c3
  None = None
  Ids = {d1, d2}
  Tenants = {tenant1}
  Environments = {}
  Threads = {t1, t2}
  Contents = {good1, torn}
  Loadable = {good1}
  Paths = {p1, c1}
  CachePath <- UnusedCache
  Sources <- PathOnly
  HasResolver = TRUE
  HistoryCap = 2
  MaxRequests = 4
SYMMETRY Symmetry
INVARIANT AckedIsDurable HistoryIsContiguous
PROPERTY ZeroDowntime AckedVersionsIncrease NoStaleRuns ImplementsSlots
CHECK_DEADLOCK FALSE
