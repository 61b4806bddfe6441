SPECIFICATION FairRouterSpec
CONSTANTS
  d1 = d1
  d2 = d2
  tenant1 = tenant1
  tenant2 = tenant2
  env1 = env1
  env2 = env2
  topic1 = topic1
  pack1 = pack1
  pack2 = pack2
  None = None
  Ids = {d1, d2}
  Tenants = {tenant1}
  Environments = {env1}
  Loadable = {pack1, pack2}
  Topics = {topic1}
  Consumes <- MCConsumes
  Events <- MCEvents
  MaxEvents = 2
  MaxChanges = 3
INVARIANT NoDuplicateRuns RunsFollowPublication
PROPERTY UntouchedMatchesRun MessagesAreHandled
CHECK_DEADLOCK FALSE
