SPECIFICATION RouterSpec
CONSTANTS
  d1 = d1
  d2 = d2
  tenant1 = tenant1
  tenant2 = tenant2
  env1 = env1
  env2 = env2
  topic1 = topic1
  pack1 = pack1
  pack2 = pack2
  None = None
  Ids = {d1}
  Tenants = {tenant1, tenant2}
  Environments = {env1}
  Loadable = {pack1, pack2}
  Topics = {topic1}
  Consumes <- MCConsumes
  Events <- MCEvents
  MaxEvents = 1
  MaxChanges = 3
INVARIANT RunsMatchTheirEvents
CHECK_DEADLOCK FALSE
