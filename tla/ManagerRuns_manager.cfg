SPECIFICATION FairSpec
CONSTANTS
  pay = pay
  case = case
  v1 = v1
  h1 = h1
  k1 = k1
  k2 = k2
  good = good
  refused = refused
  broken = broken
  whole = whole
  t1 = t1
  t2 = t2
  r1 = r1
  r2 = r2
  None = None
  Threads = {t1, t2}
  Actions <- MCActions
  Names = {pay, case}
  Versions = {v1}
  Hashes = {h1}
  Keys = {k1, k2}
  Codes = {"not_found"}
  Replies <- MCReplies
  Inputs = {good, refused, broken, whole}
  Plan <- MCPlan
  BrokenTexts = {broken}
  Bodies <- MCBodies
  RunIds = {r1, r2}
  Cap = 2
  MaxRequests = 3
  MaxApplies = 2
INVARIANT OnlyAskedForIsDone StoredRunsDidAll NothingTwice RunsAreFound
PROPERTY RequestsAreAnswered
CHECK_DEADLOCK FALSE
