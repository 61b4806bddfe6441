----------------------------- MODULE MCPresence -----------------------------
(***************************************************************************)
(* Two instances of one system of record: i1 boots at u1 and, after it     *)
(* moved, at u2; i2 serves another environment, and once out of reach.     *)
(***************************************************************************)
EXTENDS Presence

CONSTANTS i1, i2, tenant1, tenant2, env1, env2, sor1, u1, u2, u3

Announced(i, t, e, u, r) ==
  [instance |-> i, tenant |-> t, environment |-> e, sor |-> sor1, url |-> u,
   reachable |-> r]

MCAnnouncements ==
  {Announced(i1, tenant1, env1, u1, TRUE), Announced(i1, tenant1, env1, u2, TRUE),
   Announced(i2, tenant1, env2, u3, TRUE), Announced(i2, tenant2, env1, u3, TRUE),
   Announced(i2, tenant1, env1, u3, FALSE)}
=============================================================================
