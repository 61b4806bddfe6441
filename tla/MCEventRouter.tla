---------------------------- MODULE MCEventRouter ----------------------------
(***************************************************************************)
(* Instances of EventRouter for TLC: pack1 consumes topic1 and pack2       *)
(* nothing; all events are of topic1.                                      *)
(***************************************************************************)
EXTENDS EventRouter, TLC

CONSTANTS d1, d2, tenant1, tenant2, env1, env2, topic1, pack1, pack2

MCConsumes == [p \in Loadable |-> IF p = pack1 THEN {topic1} ELSE {}]

\* Events of the first tenant in the first environment.
MCEvents == [tenant : {tenant1}, environment : {env1}, topic : {topic1}]

Symmetry == Permutations(Ids)
=============================================================================
