-------------------------- MODULE DeploymentServer --------------------------
(***************************************************************************)
(* The HTTP server of the daemon, over the registry that the deployment    *)
(* manager promises (DeploymentSlots).  A thread per connection takes what *)
(* one read returns for the request, checks the credentials, calls the     *)
(* manager and writes the reply.                                           *)
(***************************************************************************)
EXTENDS DeploymentSlots

CONSTANTS
  Threads,       \* threads, one per connection that is open
  Requests,      \* the requests that clients send
  Secret,        \* whether the daemon has a secret
  HasResolver,   \* whether it has a resolver of systems of record
  Prefixes,      \* Prefixes[i]: the ids that a cut after a part of i names
  Unfetchable, Unloadable,   \* sources of packs that fail
  MaxConnections \* bound: connections accepted in a behaviour

Headers == {"authorization", "x-greentic-sorx-secret"}
Methods == {"GET", "POST", "PUT", "DELETE", "OPTIONS", "other"}
Paths == {"health", "deployments", "item", "run", "other"}

\* A JSON body, with the fields of all routes: where the pack comes from, how
\* SoRX is found, the binding.
Body == [source : Loadable \cup {Unfetchable, Unloadable, None},
         target : {"sorx_url", "sor", None},
         tenant : Tenants, environment : Environments \cup {None}]

\* A request; its body is None if it does not parse.
Request == [method : Methods, path : Paths, id : Ids, body : Body \cup {None},
            headers : [Headers -> {"right", "wrong", None}],
            long : BOOLEAN]   \* longer than the buffer of 256 KiB

ASSUME ServerAssumption ==
  /\ Requests \subseteq Request
  /\ Secret \in BOOLEAN /\ HasResolver \in BOOLEAN
  /\ Prefixes \in [Ids -> SUBSET Ids]
  /\ MaxConnections \in Nat
  /\ None \notin Ids \cup Body \cup Request
  /\ None \notin Loadable \cup {Unfetchable, Unloadable}
  /\ {Unfetchable, Unloadable} \cap Loadable = {}
  /\ None \notin {"right"} \cup [kind : {"deploy", "upgrade", "remove", "run"}, id : Ids]

VARIABLES
  conn,      \* of each thread: "free", "open", "read" once it has a request,
             \* "saving" while it holds the lock for a change it made, "reply"
  sent,      \* the request that the client of each thread sends, None if it
             \* sends nothing
  seen,      \* what the read returned of it, None before
  status,    \* of the reply, 0 while there is none
  poisoned,  \* whether the lock of the slots is poisoned
  accepted,  \* connections accepted so far
  effect     \* observation: what each thread did to the deployments

serverVars == <<conn, sent, seen, status, poisoned, accepted, effect>>
vars == <<registryVars, serverVars>>

Statuses == {0, 200, 201, 204, 400, 401, 404, 405, 409, 422, 500, 502, 503}
Effect == [kind : {"deploy", "upgrade", "remove", "run"}, id : Ids]

TypeOK ==
  /\ RegistryTypeOK
  /\ conn \in [Threads -> {"free", "open", "read", "saving", "reply"}]
  /\ sent \in [Threads -> Requests \cup {None}]
  /\ seen \in [Threads -> Request \cup {None}]
  /\ status \in [Threads -> Statuses]
  /\ poisoned \in BOOLEAN
  /\ accepted \in 0..MaxConnections
  /\ effect \in [Threads -> Effect \cup {None}]

Nobody == [t \in Threads |-> None]
NoStatus == [t \in Threads |-> 0]

ServerInit ==
  /\ conn = [t \in Threads |-> "free"]
  /\ sent = Nobody /\ seen = Nobody /\ effect = Nobody
  /\ status = NoStatus
  /\ poisoned = FALSE
  /\ accepted = 0

\* A former daemon may have left a registry file.
Init ==
  /\ ServerInit
  /\ up = FALSE
  /\ slots = Empty
  /\ saved \in [Ids -> [tenant : Tenants, environment : Environments \cup {None},
                         version : {1}] \cup {None}]

-----------------------------------------------------------------------------
(***************************************************************************)
(* What one read returns.                                                  *)
(***************************************************************************)
NoHeaders == [h \in Headers |-> None]

\* Cut after the headers, or in the body: what there is of it does not parse.
CutInBody(r) == {[r EXCEPT !.body = None]}

\* Cut in the headers: each is there, not there, or not all there.
CutInHeaders(r) ==
  {[r EXCEPT !.body = None, !.headers = hs] :
     hs \in {f \in [Headers -> {"right", "wrong", None}] :
               \A h \in Headers :
                 f[h] \in (IF r.headers[h] = None THEN {None}
                          ELSE {r.headers[h], "wrong", None})}}

\* Cut in the request line: a part of the path is another path, of an id that is
\* a part of the id or of no route.
CutInLine(r) ==
  LET line(m, p, i) == [r EXCEPT !.body = None, !.headers = NoHeaders,
                                 !.method = m, !.path = p, !.id = i]
  IN {line(m, "other", r.id) : m \in {"other"} \cup ({r.method} \cap {"OPTIONS"})}
       \cup (IF r.path \in {"item", "run"}
             THEN {line(r.method, "deployments", r.id)}
                    \cup {line(r.method, "item", i) :
                            i \in Prefixes[r.id]
                                    \cup (IF r.path = "run" THEN {r.id} ELSE {})}
             ELSE {})

\* split_request and parse_headers on what a single read returned.
Reads(r) ==
  (IF r.long THEN {} ELSE {r}) \cup CutInBody(r) \cup CutInHeaders(r) \cup CutInLine(r)

-----------------------------------------------------------------------------
(***************************************************************************)
(* Connections.                                                            *)
(***************************************************************************)
Set(t, phase, code) ==
  /\ conn' = [conn EXCEPT ![t] = phase]
  /\ status' = [status EXCEPT ![t] = code]

Accept(t) ==
  /\ up
  /\ conn[t] = "free"
  /\ accepted < MaxConnections
  /\ accepted' = accepted + 1
  /\ \E r \in Requests \cup {None} : sent' = [sent EXCEPT ![t] = r]
  /\ Set(t, "open", 0)
  /\ UNCHANGED <<registryVars, seen, poisoned, effect>>

\* Mutant: one connection is served after the other.
ReadAlone(t) ==
  /\ up
  /\ conn[t] = "open"
  /\ sent[t] # None
  /\ \A u \in Threads \ {t} : conn[u] = "free"
  /\ \E r \in Reads(sent[t]) : seen' = [seen EXCEPT ![t] = r]
  /\ conn' = [conn EXCEPT ![t] = "read"]
  /\ UNCHANGED <<registryVars, sent, status, poisoned, accepted, effect>>

\* The read returns as soon as there is something to read.
Read(t) ==
  /\ up
  /\ conn[t] = "open"
  /\ sent[t] # None
  /\ \E r \in Reads(sent[t]) : seen' = [seen EXCEPT ![t] = r]
  /\ conn' = [conn EXCEPT ![t] = "read"]
  /\ UNCHANGED <<registryVars, sent, status, poisoned, accepted, effect>>

\* The thread is done with its connection.
Close(t) ==
  /\ Set(t, "free", 0)
  /\ sent' = [sent EXCEPT ![t] = None]
  /\ seen' = [seen EXCEPT ![t] = None]
  /\ effect' = [effect EXCEPT ![t] = None]

\* The client goes away before it sent anything, or resets the connection.
ReadFails(t) ==
  /\ up
  /\ conn[t] = "open"
  /\ Close(t)
  /\ UNCHANGED <<registryVars, poisoned, accepted>>

\* write_response, to a client that may be gone.
WriteResponse(t) ==
  /\ up
  /\ conn[t] = "reply"
  /\ Close(t)
  /\ UNCHANGED <<registryVars, poisoned, accepted>>

\* accept or the start of a thread fails: start_deployment_server returns, and
\* with it the daemon ends.
AcceptFails ==
  /\ Stop
  /\ conn' = [t \in Threads |-> "free"]
  /\ status' = NoStatus
  /\ sent' = Nobody /\ seen' = Nobody /\ effect' = Nobody
  /\ poisoned' = FALSE
  /\ UNCHANGED accepted

Start ==
  /\ Restart
  /\ UNCHANGED serverVars

-----------------------------------------------------------------------------
(***************************************************************************)
(* handle_deployment_stream and handle_deployment_request.                 *)
(***************************************************************************)

\* Mutant: one who sends no credentials is let in.
AuthorizedUnlessWrong(r) ==
  Secret => \A h \in Headers : r.headers[h] # "wrong"

\* is_authorized: either header will do, and without a secret nothing is needed.
Authorized(r) == Secret => \E h \in Headers : r.headers[h] = "right"

\* The locks are free while no thread holds the one for writing.
LockFree == \A t \in Threads : conn[t] # "saving"

Routed(t, method, path) ==
  /\ up
  /\ conn[t] = "read"
  /\ seen[t].method = method
  /\ seen[t].path = path
  /\ Authorized(seen[t])

Replies(t, code) ==
  /\ Set(t, "reply", code)
  /\ UNCHANGED <<registryVars, sent, seen, poisoned, accepted, effect>>

\* OPTIONS and the health checks come before the credentials.
Preflight(t) ==
  /\ up /\ conn[t] = "read"
  /\ seen[t].method = "OPTIONS"
  /\ Replies(t, 204)

Health(t) ==
  /\ up /\ conn[t] = "read"
  /\ seen[t].path = "health" /\ seen[t].method # "OPTIONS"
  /\ Replies(t, IF seen[t].method = "GET" THEN 200 ELSE 404)

Unauthorized(t) ==
  /\ up /\ conn[t] = "read"
  /\ seen[t].path # "health" /\ seen[t].method # "OPTIONS"
  /\ ~Authorized(seen[t])
  /\ Replies(t, 401)

Routes ==
  {<<"GET", "deployments">>, <<"POST", "deployments">>, <<"GET", "item">>,
   <<"PUT", "item">>, <<"DELETE", "item">>, <<"POST", "run">>}

NoRoute(t) ==
  /\ \E m \in Methods \ {"OPTIONS"}, p \in Paths \ {"health"} :
       Routed(t, m, p) /\ <<m, p>> \notin Routes
  /\ Replies(t, IF seen[t].path = "other" THEN 404 ELSE 405)

\* A poisoned lock reads as no deployments.
List(t) ==
  /\ Routed(t, "GET", "deployments")
  /\ LockFree
  /\ Replies(t, 200)

Get(t) ==
  /\ Routed(t, "GET", "item")
  /\ LockFree
  /\ Replies(t, IF poisoned \/ slots[seen[t].id] = None THEN 404 ELSE 200)

\* The failures of resolve_effective_path and load_operational_pack, 0 if none.
SourceError(source) ==
  CASE source = None -> 400
    [] source = Unfetchable -> 502
    [] source = Unloadable -> 422
    [] source \in Loadable -> 0

\* The status of a refused deploy or upgrade, 0 if it is carried out.
DeployError(b, id) ==
  CASE b = None -> 400
    [] b # None /\ b.target = None -> 400
    [] b # None /\ b.target = "sor" /\ ~HasResolver -> 422
    [] b # None /\ b.target # None /\ (b.target = "sor" => HasResolver) ->
         IF poisoned THEN 500
         ELSE IF slots[id] # None THEN 409
         ELSE SourceError(b.source)

UpgradeError(b, id) ==
  CASE b = None -> 400
    [] b # None /\ poisoned -> 500
    [] b # None /\ ~poisoned -> IF slots[id] = None THEN 404 ELSE SourceError(b.source)

\* The change is made in memory and the lock kept for the save.
Changed(t, kind) ==
  /\ conn' = [conn EXCEPT ![t] = "saving"]
  /\ effect' = [effect EXCEPT ![t] = [kind |-> kind, id |-> seen[t].id]]
  /\ UNCHANGED <<sent, seen, status, poisoned, accepted>>

PostDeploy(t) ==
  /\ Routed(t, "POST", "deployments")
  /\ LockFree
  /\ LET r == seen[t] IN
     IF DeployError(r.body, r.id) # 0
     THEN Replies(t, DeployError(r.body, r.id))
     ELSE Deploy(r.id, r.body.tenant, r.body.environment, r.body.source)
          /\ Changed(t, "deploy")

PutUpgrade(t) ==
  /\ Routed(t, "PUT", "item")
  /\ LockFree
  /\ LET r == seen[t] IN
     IF UpgradeError(r.body, r.id) # 0
     THEN Replies(t, UpgradeError(r.body, r.id))
     ELSE Upgrade(r.id, r.body.source) /\ Changed(t, "upgrade")

DeleteItem(t) ==
  /\ Routed(t, "DELETE", "item")
  /\ LockFree
  /\ LET id == seen[t].id IN
     IF poisoned THEN Replies(t, 500)
     ELSE IF slots[id] = None THEN Replies(t, 404)
     ELSE Remove(id) /\ Changed(t, "remove")

\* Mutant: what cannot be saved is a conflict.
PersistStatusConflict == 409

\* deploy_error_reply of Persist.
PersistStatus == 500

\* persist_locked: the file is written, or it is not and memory keeps the change.
Persist(t) ==
  /\ up
  /\ conn[t] = "saving"
  /\ \/ /\ Save
        /\ Set(t, "reply", CASE effect[t].kind = "deploy" -> 201
                             [] effect[t].kind = "upgrade" -> 200
                             [] effect[t].kind = "remove" -> 204)
     \/ /\ Set(t, "reply", PersistStatus)
        /\ UNCHANGED registryVars
  /\ UNCHANGED <<sent, seen, poisoned, accepted, effect>>

\* A panic while a pack is loaded under the lock: the thread is gone, its client
\* gets nothing and the lock is poisoned.
LoadPanics(t) ==
  /\ LockFree
  /\ ~poisoned
  /\ LET r == seen[t] IN
     /\ \/ /\ Routed(t, "POST", "deployments")
           /\ r.body # None /\ slots[r.id] = None
           /\ r.body.target # None /\ (r.body.target = "sor" => HasResolver)
        \/ /\ Routed(t, "PUT", "item")
           /\ r.body # None /\ slots[r.id] # None
     /\ r.body.source \in Loadable \cup {Unloadable}
  /\ poisoned' = TRUE
  /\ Close(t)
  /\ UNCHANGED <<registryVars, accepted>>

\* run: refused before anything is done, or the runtime ran, to its end or not.
PostRun(t) ==
  /\ Routed(t, "POST", "run")
  /\ LockFree
  /\ LET slot == slots[seen[t].id]
         refusals == IF seen[t].body = None THEN {400}
                     ELSE IF poisoned THEN {500}
                     ELSE IF slot = None THEN {404}
                     ELSE IF slot.pack = None THEN {409}
                     ELSE {IF HasResolver THEN 503 ELSE 422}
     IN \/ \E code \in refusals : Replies(t, code)
        \/ /\ refusals \subseteq {503, 422}
           /\ effect' = [effect EXCEPT ![t] = [kind |-> "run", id |-> seen[t].id]]
           /\ \E code \in {200, 500} : Set(t, "reply", code)
           /\ UNCHANGED <<registryVars, sent, seen, poisoned, accepted>>

Handle(t) ==
  \/ Preflight(t) \/ Health(t) \/ Unauthorized(t) \/ NoRoute(t)
  \/ List(t) \/ Get(t) \/ PostDeploy(t) \/ PutUpgrade(t) \/ DeleteItem(t)
  \/ PostRun(t) \/ LoadPanics(t)

Serve(t) == Read(t) \/ Handle(t) \/ Persist(t) \/ WriteResponse(t)

Next ==
  \/ \E t \in Threads : Accept(t) \/ ReadFails(t) \/ Serve(t)
  \/ AcceptFails
  \/ Start

Spec == Init /\ [][Next]_vars

\* Threads are scheduled, downloads end and the lock is granted at last.
FairSpec ==
  /\ Spec
  /\ \A t \in Threads :
       WF_vars(Read(t) \/ Persist(t) \/ WriteResponse(t)) /\ SF_vars(Handle(t))

-----------------------------------------------------------------------------
(***************************************************************************)
(* Properties.                                                             *)
(***************************************************************************)

\* What a request is meant to do, None if it is not a change or a run.
Intent(r) ==
  LET does(kind) == [kind |-> kind, id |-> r.id] IN
  CASE r.path = "deployments" /\ r.method = "POST" -> does("deploy")
    [] r.path = "item" /\ r.method = "PUT" -> does("upgrade")
    [] r.path = "item" /\ r.method = "DELETE" -> does("remove")
    [] r.path = "run" /\ r.method = "POST" -> does("run")
    [] OTHER -> None

\* When the daemon has a secret, a connection changes and runs only what its
\* client asked for with the secret, wherever the single read cut the request:
\* a part of a path is never taken for the path of another deployment
\* (handle_deployment_stream, is_authorized, split_request).
EffectIsWhatWasAsked ==
  Secret => \A t \in Threads : effect[t] # None =>
    /\ effect[t] = Intent(sent[t])
    /\ \E h \in Headers : sent[t].headers[h] = "right"

\* A reply tells the truth of a change or a run: success means that it was done,
\* and a refusal that nothing was (deploy_error_reply); only 500 leaves it open.
RepliesAreHonest ==
  \A t \in Threads :
    conn[t] = "reply" /\ status[t] # 500 /\ Intent(seen[t]) # None =>
      (effect[t] = Intent(seen[t]) <=> status[t] < 300)

\* A client that has sent something is answered, or its connection is closed,
\* whatever the clients of other threads do or do not send.
ConnectionsAreClosed ==
  \A t \in Threads : conn[t] = "open" /\ sent[t] # None ~> conn[t] = "free"
=============================================================================
