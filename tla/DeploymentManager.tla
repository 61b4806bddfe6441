-------------------------- MODULE DeploymentManager --------------------------
(***************************************************************************)
(* The registry of the `operax serve` daemon: deploy, upgrade, remove and  *)
(* run requests served by one thread each, one RwLock around the slot map, *)
(* a JSON file rewritten by every mutation, and a daemon that may be       *)
(* killed between any two steps and booted again from that file.           *)
(*                                                                         *)
(* A slot of the code is a record, a runtime and a status; here these are  *)
(* three functions on Ids.  A pack is identified by its content, so the    *)
(* digest that the code stores (sha256) is the content itself.             *)
(***************************************************************************)
EXTENDS Naturals, Sequences, FiniteSets

CONSTANTS
  Ids,            \* deployment ids chosen by the clients
  Tenants,        \* tenants a deployment is bound to
  Environments,   \* environment labels a deployment may declare
  Threads,        \* request handler threads
  Contents,       \* what a pack file can contain (equivalently, its digest)
  Loadable,       \* the contents that load_operational_pack accepts
  Paths,          \* pack paths on the disk of the daemon
  CachePath,      \* CachePath[c]: the content-addressed cache file of c
  Sources,        \* the reference and gtpack_path pairs that clients send
  HasResolver,    \* whether the daemon was given a SorxResolver
  HistoryCap,     \* HISTORY_CAP, 5 in the code
  MaxRequests,    \* bound: requests that clients send in a behaviour
  None            \* the absent value

ASSUME ConstantsAssumption ==
  /\ Loadable \subseteq Contents
  /\ CachePath \in [Contents -> Paths]
  /\ Sources \subseteq [ref : Contents \cup {None}, path : Paths \cup {None}]
  /\ HasResolver \in BOOLEAN
  /\ HistoryCap \in Nat
  /\ MaxRequests \in Nat
  /\ None \notin Contents \cup Paths \cup Threads \cup Ids \cup Environments

VARIABLES
  \* the disk
  fs,         \* content of each pack path, None if there is no such file
  registry,   \* the registry file: the persisted record of each id
  tmp,        \* the file json.tmp: a registry, or None if absent or torn
  \* the daemon's memory
  up,         \* the daemon runs
  record,     \* slots[id].record, None if there is no slot
  runtime,    \* slots[id].runtime: content of the loaded pack, or None
  status,     \* slots[id].status
  writer,     \* the thread that holds the write lock, None if it is free
  pc,         \* where each thread is
  req,        \* the request each thread serves
  local,      \* deploy, upgrade: the resolved pack path; run: the snapshot
  \* observation and bound
  acked,      \* the record of each id as of its last successful mutation
  attempts,   \* records each id had in memory since then, None for removed
  arrivals    \* requests sent so far

diskVars == <<fs, registry, tmp>>
slotVars == <<record, runtime, status>>
threadVars == <<pc, req, local>>
ghostVars == <<acked, attempts>>
vars == <<diskVars, up, slotVars, writer, threadVars, ghostVars, arrivals>>

-----------------------------------------------------------------------------
(***************************************************************************)
(* Types.                                                                  *)
(***************************************************************************)
Version == [version : Nat \ {0}, path : Paths, digest : Contents]

Record == [tenant : Tenants, environment : Environments \cup {None},
           sor : BOOLEAN, active : Version, history : Seq(Version)]

ASSUME NoneAssumption == None \notin Record

Registry == [Ids -> Record \cup {None}]

Snapshot == [pack : Contents, tenant : Tenants, version : Nat \ {0}]

Deploys == [op : {"deploy"}, id : Ids, tenant : Tenants,
            environment : Environments \cup {None},
            binding : {"none", "url", "sor"}, src : Sources]
Upgrades == [op : {"upgrade"}, id : Ids, src : Sources]
Removals == [op : {"remove"}, id : Ids]
Runs == [op : {"run"}, id : Ids]
Requests == Deploys \cup Upgrades \cup Removals \cup Runs

Phases == {"idle", "lock", "resolve", "fetch", "load", "write", "rename",
           "return", "discover", "run"}

TypeOK ==
  /\ fs \in [Paths -> Contents \cup {None}]
  /\ registry \in Registry
  /\ tmp \in Registry \cup {None}
  /\ up \in BOOLEAN
  /\ record \in Registry
  /\ runtime \in [Ids -> Contents \cup {None}]
  /\ status \in [Ids -> {"Absent", "Ready", "Failed"}]
  /\ writer \in Threads \cup {None}
  /\ pc \in [Threads -> Phases]
  /\ req \in [Threads -> Requests \cup {None}]
  /\ local \in [Threads -> Paths \cup Snapshot \cup {None}]
  /\ acked \in Registry
  /\ attempts \in [Ids -> SUBSET (Record \cup {None})]
  /\ arrivals \in Nat

\* No id has a record, or a runtime.
Nothing == [i \in Ids |-> None]

\* A cache file, if there is one, holds the content it is named after.
Init ==
  /\ fs \in [Paths -> Contents \cup {None}]
  /\ \A c \in Contents : fs[CachePath[c]] \in {None, c}
  /\ registry = Nothing
  /\ tmp = None
  /\ up = FALSE
  /\ record = Nothing
  /\ runtime = Nothing
  /\ status = [i \in Ids |-> "Absent"]
  /\ writer = None
  /\ pc = [t \in Threads |-> "idle"]
  /\ req = [t \in Threads |-> None]
  /\ local = [t \in Threads |-> None]
  /\ acked = Nothing
  /\ attempts = [i \in Ids |-> {}]
  /\ arrivals = 0

-----------------------------------------------------------------------------
(***************************************************************************)
(* Thread and lock steps shared by the operations.                         *)
(***************************************************************************)
Goto(t, phase) == pc' = [pc EXCEPT ![t] = phase]

\* The handler answers; a mutation that held the write lock drops it.
Answer(t) ==
  /\ pc' = [pc EXCEPT ![t] = "idle"]
  /\ req' = [req EXCEPT ![t] = None]
  /\ local' = [local EXCEPT ![t] = None]
  /\ writer' = IF writer = t THEN None ELSE writer

Loads(p) == fs[p] \in Loadable

\* A request that passed the checks deploy makes before it takes the lock.
WellFormed(r) ==
  r.op = "deploy" =>
    /\ r.binding # "none"
    /\ r.binding = "sor" => HasResolver

\* A client's request reaches a free thread; an ill-formed deploy is
\* answered at once and leaves no trace.
Arrive(t, r) ==
  /\ up
  /\ pc[t] = "idle"
  /\ arrivals < MaxRequests
  /\ WellFormed(r)
  /\ arrivals' = arrivals + 1
  /\ req' = [req EXCEPT ![t] = r]
  /\ Goto(t, "lock")
  /\ UNCHANGED <<diskVars, up, slotVars, writer, local, ghostVars>>

-----------------------------------------------------------------------------
(***************************************************************************)
(* Mutations.  From Acquire to Return the thread holds the write lock.     *)
(***************************************************************************)

\* attempts records what memory holds of id after a mutation.
Attempt(id, rec) ==
  /\ record' = [record EXCEPT ![id] = rec]
  /\ attempts' = [attempts EXCEPT ![id] = @ \cup {rec}]

AcquireToInstall(t) ==
  /\ pc[t] = "lock"
  /\ writer = None
  /\ req[t].op \in {"deploy", "upgrade"}
  /\ (req[t].op = "deploy") <=> (record[req[t].id] = None)
  /\ writer' = t
  /\ Goto(t, "resolve")
  /\ UNCHANGED <<diskVars, up, slotVars, req, local, ghostVars, arrivals>>

\* AlreadyExists for a deploy, NotFound for an upgrade or a removal.
RefuseId(t) ==
  /\ pc[t] = "lock"
  /\ writer = None
  /\ req[t].op \in {"deploy", "upgrade", "remove"}
  /\ (req[t].op = "deploy") <=> (record[req[t].id] # None)
  /\ Answer(t)
  /\ UNCHANGED <<diskVars, up, slotVars, ghostVars, arrivals>>

AcquireToRemove(t) ==
  /\ pc[t] = "lock"
  /\ writer = None
  /\ req[t].op = "remove"
  /\ LET id == req[t].id IN
       /\ record[id] # None
       /\ Attempt(id, None)
       /\ runtime' = [runtime EXCEPT ![id] = None]
       /\ status' = [status EXCEPT ![id] = "Absent"]
  /\ writer' = t
  /\ Goto(t, "write")
  /\ UNCHANGED <<diskVars, up, req, local, acked, arrivals>>

\* resolve_effective_path: a reference wins over a bare path.
ResolvePath(t) ==
  /\ pc[t] = "resolve"
  /\ req[t].src.ref = None
  /\ req[t].src.path # None
  /\ local' = [local EXCEPT ![t] = req[t].src.path]
  /\ Goto(t, "load")
  /\ UNCHANGED <<diskVars, up, slotVars, writer, req, ghostVars, arrivals>>

ResolveReference(t) ==
  /\ pc[t] = "resolve"
  /\ req[t].src.ref # None
  /\ Goto(t, "fetch")
  /\ UNCHANGED <<diskVars, up, slotVars, writer, req, local, ghostVars,
                 arrivals>>

ResolveNothing(t) ==
  /\ pc[t] = "resolve"
  /\ req[t].src = [ref |-> None, path |-> None]
  /\ Answer(t)
  /\ UNCHANGED <<diskVars, up, slotVars, ghostVars, arrivals>>

\* write_to_cache: the file named by the digest is written unless it exists.
Fetch(t) ==
  LET c == req[t].src.ref IN
  /\ pc[t] = "fetch"
  /\ fs' = [fs EXCEPT ![CachePath[c]] = IF @ = None THEN c ELSE @]
  /\ local' = [local EXCEPT ![t] = CachePath[c]]
  /\ Goto(t, "load")
  /\ UNCHANGED <<registry, tmp, up, slotVars, writer, req, ghostVars,
                 arrivals>>

\* The download fails, or the write of the cache file does half way through.
FetchFails(t) ==
  LET p == CachePath[req[t].src.ref] IN
  /\ pc[t] = "fetch"
  /\ \/ fs' = fs
     \/ /\ fs[p] = None
        /\ \E torn \in Contents \ Loadable : fs' = [fs EXCEPT ![p] = torn]
  /\ Answer(t)
  /\ UNCHANGED <<registry, tmp, up, slotVars, ghostVars, arrivals>>

\* Mutant: a pack that does not load takes the slot out of service.
LoadFailsHard(t) ==
  /\ pc[t] = "load"
  /\ ~Loads(local[t])
  /\ Answer(t)
  /\ status' = [status EXCEPT ![req[t].id] =
                  IF record[req[t].id] = None THEN @ ELSE "Failed"]
  /\ UNCHANGED <<diskVars, up, record, runtime, ghostVars, arrivals>>

LoadFails(t) ==
  /\ pc[t] = "load"
  /\ ~Loads(local[t])
  /\ Answer(t)
  /\ UNCHANGED <<diskVars, up, slotVars, ghostVars, arrivals>>

NewRecord(r, v) ==
  [tenant |-> r.tenant, environment |-> r.environment,
   sor |-> r.binding = "sor", active |-> v, history |-> <<>>]

\* Mutant: the history is cut one entry too late.
PushHistoryLate(v, h) ==
  [i \in 1..(IF Len(h) <= HistoryCap THEN Len(h) + 1 ELSE HistoryCap) |->
     IF i = 1 THEN v ELSE h[i - 1]]

\* history.insert(0, v), then truncate(HISTORY_CAP).
PushHistory(v, h) ==
  [i \in 1..(IF Len(h) < HistoryCap THEN Len(h) + 1 ELSE HistoryCap) |->
     IF i = 1 THEN v ELSE h[i - 1]]

\* Mutant: the version stands still once the history is full.
NextVersionUntilCap(rec) ==
  IF Len(rec.history) < HistoryCap THEN rec.active.version + 1
  ELSE rec.active.version

NextVersion(rec) == rec.active.version + 1

Upgraded(rec, v) ==
  [rec EXCEPT !.active = v, !.history = PushHistory(rec.active, rec.history)]

\* The pack has been loaded: only now is the slot created or swapped.
Install(t) ==
  LET r == req[t]
      VersionNo(n) ==
        [version |-> n, path |-> local[t], digest |-> fs[local[t]]]
      rec == record[r.id]
  IN
  /\ pc[t] = "load"
  /\ Loads(local[t])
  /\ Attempt(r.id, IF r.op = "deploy"
                   THEN NewRecord(r, VersionNo(1))
                   ELSE Upgraded(rec, VersionNo(NextVersion(rec))))
  /\ runtime' = [runtime EXCEPT ![r.id] = fs[local[t]]]
  /\ status' = [status EXCEPT ![r.id] = "Ready"]
  /\ Goto(t, "write")
  /\ UNCHANGED <<diskVars, up, writer, req, local, acked, arrivals>>

-----------------------------------------------------------------------------
(***************************************************************************)
(* persist_locked: every record of the map is written to json.tmp, which   *)
(* is then renamed over the registry.  A failure is answered with Persist  *)
(* and leaves the slots as the mutation made them.                         *)
(***************************************************************************)
\* Mutant: the map is collected before the mutation.
WriteTmpBefore(t) ==
  /\ pc[t] = "write"
  /\ tmp' = [record EXCEPT ![req[t].id] = registry[req[t].id]]
  /\ Goto(t, "rename")
  /\ UNCHANGED <<fs, registry, up, slotVars, writer, req, local, ghostVars,
                 arrivals>>

\* Mutant: a registry that is already there is not written again.
WriteTmpOnce(t) ==
  /\ pc[t] = "write"
  /\ tmp' = IF registry = Nothing THEN record ELSE tmp
  /\ Goto(t, IF registry = Nothing THEN "rename" ELSE "return")
  /\ UNCHANGED <<fs, registry, up, slotVars, writer, req, local, ghostVars,
                 arrivals>>

WriteTmp(t) ==
  /\ pc[t] = "write"
  /\ tmp' = record
  /\ Goto(t, "rename")
  /\ UNCHANGED <<fs, registry, up, slotVars, writer, req, local, ghostVars,
                 arrivals>>

Rename(t) ==
  /\ pc[t] = "rename"
  /\ registry' = tmp
  /\ tmp' = None
  /\ Goto(t, "return")
  /\ UNCHANGED <<fs, up, slotVars, writer, req, local, ghostVars, arrivals>>

PersistFails(t) ==
  /\ pc[t] \in {"write", "rename"}
  /\ tmp' \in IF pc[t] = "write" THEN {tmp, None} ELSE {tmp}
  /\ Answer(t)
  /\ UNCHANGED <<fs, registry, up, slotVars, ghostVars, arrivals>>

\* Mutant: the summary is read back by get, which takes the read lock, while the
\* guard of the write lock is alive.
ReturnRelocked(t) ==
  LET id == req[t].id IN
  /\ pc[t] = "return"
  /\ writer = None
  /\ acked' = [acked EXCEPT ![id] = record[id]]
  /\ attempts' = [attempts EXCEPT ![id] = {}]
  /\ Answer(t)
  /\ UNCHANGED <<diskVars, up, slotVars, arrivals>>

\* The mutation returns Ok and drops the lock.
Return(t) ==
  LET id == req[t].id IN
  /\ pc[t] = "return"
  /\ acked' = [acked EXCEPT ![id] = record[id]]
  /\ attempts' = [attempts EXCEPT ![id] = {}]
  /\ Answer(t)
  /\ UNCHANGED <<diskVars, up, slotVars, arrivals>>

-----------------------------------------------------------------------------
(***************************************************************************)
(* run_as: the slot is read under the read lock, which is dropped before   *)
(* the endpoint is resolved and the pack runs.                             *)
(***************************************************************************)
Runnable(id) == status[id] = "Ready" /\ runtime[id] # None

TakeSnapshot(t) ==
  LET id == req[t].id IN
  /\ pc[t] = "lock"
  /\ req[t].op = "run"
  /\ writer = None
  /\ record[id] # None
  /\ Runnable(id)
  /\ local' = [local EXCEPT ![t] =
                 [pack |-> runtime[id], tenant |-> record[id].tenant,
                  version |-> record[id].active.version]]
  /\ Goto(t, IF record[id].sor THEN "discover" ELSE "run")
  /\ UNCHANGED <<diskVars, up, slotVars, writer, req, ghostVars, arrivals>>

\* NotFound, or DeploymentFailed.
RefuseRun(t) ==
  LET id == req[t].id IN
  /\ pc[t] = "lock"
  /\ req[t].op = "run"
  /\ writer = None
  /\ record[id] # None => ~Runnable(id)
  /\ Answer(t)
  /\ UNCHANGED <<diskVars, up, slotVars, ghostVars, arrivals>>

\* The resolver names a live endpoint ...
Discover(t) ==
  /\ pc[t] = "discover"
  /\ HasResolver
  /\ Goto(t, "run")
  /\ UNCHANGED <<diskVars, up, slotVars, writer, req, local, ghostVars,
                 arrivals>>

\* ... or none (Unresolved), or there is no resolver (DiscoveryUnavailable).
Undiscovered(t) ==
  /\ pc[t] = "discover"
  /\ Answer(t)
  /\ UNCHANGED <<diskVars, up, slotVars, ghostVars, arrivals>>

FinishRun(t) ==
  /\ pc[t] = "run"
  /\ Answer(t)
  /\ UNCHANGED <<diskVars, up, slotVars, ghostVars, arrivals>>

-----------------------------------------------------------------------------
(***************************************************************************)
(* The daemon's life, and the disk it shares with its operator.            *)
(***************************************************************************)

\* Mutant: a record whose pack does not load is left out.
BootFromLoadable(records) ==
  LET loaded(i) == records[i] # None /\ Loads(records[i].active.path) IN
  /\ ~up
  /\ up' = TRUE
  /\ record' = [i \in Ids |-> IF loaded(i) THEN records[i] ELSE None]
  /\ runtime' = [i \in Ids |->
       IF loaded(i) THEN fs[records[i].active.path] ELSE None]
  /\ status' = [i \in Ids |-> IF loaded(i) THEN "Ready" ELSE "Absent"]
  /\ UNCHANGED <<diskVars, writer, threadVars, ghostVars, arrivals>>

\* DeploymentManager::load over the records read from the registry file: a
\* record whose pack does not load becomes a Failed slot.
BootFrom(records) ==
  /\ ~up
  /\ up' = TRUE
  /\ record' = records
  /\ runtime' = [i \in Ids |->
       IF records[i] # None /\ Loads(records[i].active.path)
       THEN fs[records[i].active.path] ELSE None]
  /\ status' = [i \in Ids |->
       IF records[i] = None THEN "Absent"
       ELSE IF Loads(records[i].active.path) THEN "Ready" ELSE "Failed"]
  /\ UNCHANGED <<diskVars, writer, threadVars, ghostVars, arrivals>>

Boot == BootFrom(registry)

\* The process is killed: memory is gone, a file being written stays torn.
Crash ==
  /\ up
  /\ up' = FALSE
  /\ record' = Nothing
  /\ runtime' = Nothing
  /\ status' = [i \in Ids |-> "Absent"]
  /\ writer' = None
  /\ pc' = [t \in Threads |-> "idle"]
  /\ req' = [t \in Threads |-> None]
  /\ local' = [t \in Threads |-> None]
  /\ tmp' \in IF \E t \in Threads : pc[t] = "write" THEN {tmp, None} ELSE {tmp}
  /\ \/ fs' = fs
     \/ \E t \in Threads : \E torn \in Contents \ Loadable :
          /\ pc[t] = "fetch"
          /\ fs[CachePath[req[t].src.ref]] = None
          /\ fs' = [fs EXCEPT ![CachePath[req[t].src.ref]] = torn]
  /\ UNCHANGED <<registry, ghostVars, arrivals>>

\* The caller, who owns the packs outside the cache, replaces or deletes one.
ReplacePack(p, c) ==
  /\ \A d \in Contents : CachePath[d] # p
  /\ fs[p] # c
  /\ fs' = [fs EXCEPT ![p] = c]
  /\ UNCHANGED <<registry, tmp, up, slotVars, writer, threadVars, ghostVars,
                 arrivals>>

-----------------------------------------------------------------------------
Mutation(t) ==
  \/ AcquireToInstall(t) \/ AcquireToRemove(t) \/ RefuseId(t)
  \/ ResolvePath(t) \/ ResolveReference(t) \/ ResolveNothing(t)
  \/ LoadFails(t) \/ Install(t)
  \/ WriteTmp(t) \/ Rename(t) \/ PersistFails(t) \/ Return(t)

\* The remote end answers, or the download breaks off.
Download(t) == Fetch(t) \/ FetchFails(t)

\* run_as as far as the run itself, which calls SoRX.
BeginRun(t) ==
  TakeSnapshot(t) \/ RefuseRun(t) \/ Discover(t) \/ Undiscovered(t)

Run(t) == BeginRun(t) \/ FinishRun(t)

Next ==
  \/ \E t \in Threads :
       \/ \E r \in Requests : Arrive(t, r)
       \/ Mutation(t)
       \/ Download(t)
       \/ Run(t)
  \/ Boot
  \/ Crash
  \/ \E p \in Paths, c \in Contents \cup {None} : ReplacePack(p, c)

Spec == Init /\ [][Next]_vars

\* The handler threads are scheduled.  Nothing is promised of a remote end: a
\* download has no timeout, and a call of SoRX none for an answer that trickles.
FairSpec == Spec /\ \A t \in Threads : WF_vars(Mutation(t) \/ BeginRun(t))

-----------------------------------------------------------------------------
(***************************************************************************)
(* Properties.                                                             *)
(***************************************************************************)

\* No deploy, upgrade or removal that succeeded is ever lost: whatever
\* crashes and failed saves came between, the registry file holds for each id
\* the record of its last successful mutation or that of a later one that was
\* reported as failed (the save of persist_locked is of the whole map).
AckedIsDurable ==
  \A id \in Ids : registry[id] \in {acked[id]} \cup attempts[id]

\* The versions before the active one, newest first and without a gap, as
\* many as HISTORY_CAP allows.
HistoryFollows(rec) ==
  rec # None =>
    LET n == rec.active.version IN
    /\ Len(rec.history) = IF n - 1 < HistoryCap THEN n - 1 ELSE HistoryCap
    /\ \A i \in 1..Len(rec.history) : rec.history[i].version = n - i

\* In memory and on disk alike: upgrade's bookkeeping survives saves that
\* fail, restarts and the healing of a Failed slot.
HistoryIsContiguous ==
  \A id \in Ids : HistoryFollows(record[id]) /\ HistoryFollows(registry[id])

\* A slot is Ready exactly when it has a runtime, and only then does it have
\* a record that promises one: what run_as and matching_deployments rely on.
ReadyHasRuntime ==
  \A id \in Ids :
    /\ (status[id] = "Ready") <=> (runtime[id] # None)
    /\ (status[id] = "Absent") <=> (record[id] = None)
    /\ runtime[id] # None => runtime[id] \in Loadable

\* The version a client is told of never goes back, and no version number is
\* handed out twice, unless a removal of the id was attempted in between.
AckedVersionsIncrease ==
  [][\A id \in Ids :
       /\ acked'[id] # acked[id]
       /\ None \notin {acked[id], acked'[id]} \cup attempts[id]
       => acked'[id].active.version > acked[id].active.version]_vars

\* Once an upgrade was acknowledged no run starts on an older version, not
\* even after a crash.
NoStaleRuns ==
  [][\A t \in Threads :
       pc[t] = "lock" /\ pc'[t] \in {"discover", "run"} =>
         LET id == req[t].id IN
         None \notin {acked[id]} \cup attempts[id] =>
           local'[t].version >= acked[id].active.version]_vars

\* A Ready deployment stays Ready while the daemon runs, unless it is
\* removed: no step of a failing upgrade takes it out of service.
ZeroDowntime ==
  [][\A id \in Ids :
       /\ up'
       /\ status[id] = "Ready"
       /\ status'[id] # "Ready"
       => \E t \in Threads : req[t] = [op |-> "remove", id |-> id]]_vars

\* Every request is answered, or dies with the daemon, whatever fails on the way
\* and however requests meet at the lock.  Only a remote end can keep one for ever:
\* that of its own download or run, or that of the download of the request that
\* holds the write lock (deploy, upgrade, resolve_effective_path, run_as).
RequestsAreAnswered ==
  \A t \in Threads :
    \/ []<>(req[t] = None)
    \/ <>[](pc[t] \in {"fetch", "run"})
    \/ <>[](pc[t] = "lock" /\ writer # None /\ pc[writer] = "fetch")

-----------------------------------------------------------------------------
(***************************************************************************)
(* The manager as its callers see it: DeploymentSlots.                     *)
(***************************************************************************)
Binding(rec) == [tenant |-> rec.tenant, environment |-> rec.environment,
                 version |-> rec.active.version]

SlotOf(id) ==
  IF record[id] = None THEN None
  ELSE [tenant |-> record[id].tenant, environment |-> record[id].environment,
        version |-> record[id].active.version, pack |-> runtime[id]]

Slots == INSTANCE DeploymentSlots WITH
  slots <- [i \in Ids |-> SlotOf(i)],
  saved <- [i \in Ids |->
              IF registry[i] = None THEN None ELSE Binding(registry[i])]

\* The absent value is no slot, in memory or in the file.
ASSUME SlotAssumption ==
  None \notin Slots!Saved \cup
     [tenant : Tenants, environment : Environments \cup {None},
      version : Nat \ {0}, pack : Contents \cup {None}]

\* Threads, lock, files and failures are invisible: every step of the manager
\* is one atomic change of one slot, a save of the whole map, the end or the
\* beginning of a daemon, or nothing.
ImplementsSlots == Slots!RegistrySpec
=============================================================================
