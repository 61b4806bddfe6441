SPECIFICATION FairSpec
CONSTANTS
  d1 = d1
  d2 = d2
  t1 = t1
  t2 = t2
  tenant1 = tenant1
  good1 = good1
  good2 = good2
  torn = torn
  p1 = p1
  c1 = c1
  c2 = c2
  c3 = c3
  None = None
  Ids = {d1}
  Tenants = {tenant1}
  Environments = {}
  Threads = {t1, t2}
  Contents = {good1, torn}
  Loadable = {good1}
  Paths = {p1, c1, c3}
  CachePath <- MCCachePath
  Sources <- AllSources
  HasResolver = TRUE
  HistoryCap = 1
  MaxRequests = 3
PROPERTY RequestsAreAnswered
CHECK_DEADLOCK FALSE
