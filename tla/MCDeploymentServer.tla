------------------------- MODULE MCDeploymentServer -------------------------
(***************************************************************************)
(* Two deployments, the id of one a part of the id of the other, and a     *)
(* request of each kind, with the secret in either header, wrong or absent.*)
(***************************************************************************)
EXTENDS DeploymentServer

CONSTANTS a, ab, tenant1, p1, unfetchable, unloadable, t1, t2

MCPrefixes == [i \in {a, ab} |-> IF i = ab THEN {a} ELSE {}]

Creds(bearer, sorx) ==
  [h \in Headers |-> IF h = "authorization" THEN bearer ELSE sorx]

Sends(m, p, i, source, target, hs) ==
  [method |-> m, path |-> p, id |-> i, headers |-> hs, long |-> FALSE,
   body |-> [source |-> source, target |-> target, tenant |-> tenant1,
             environment |-> None]]

MCRequests ==
  {Sends("POST", "deployments", a, p1, "sorx_url", Creds("right", None)),
   Sends("POST", "deployments", ab, unloadable, "sorx_url", Creds("right", None)),
   Sends("POST", "deployments", ab, p1, "sor", Creds("right", None)),
   Sends("PUT", "item", ab, p1, None, Creds("wrong", "right")),
   Sends("PUT", "item", a, unfetchable, None, Creds("right", None)),
   Sends("DELETE", "item", ab, None, None, Creds(None, "right")),
   Sends("GET", "item", a, None, None, Creds("right", None)),
   Sends("GET", "deployments", a, None, None, Creds("right", None)),
   [Sends("GET", "run", a, None, None, Creds("right", None)) EXCEPT !.long = TRUE],
   Sends("GET", "health", a, None, None, Creds(None, None)),
   Sends("POST", "run", a, None, None, Creds("right", None)),
   Sends("OPTIONS", "item", a, None, None, Creds(None, None))}
=============================================================================
