# A verification project for greentic-operax

operax runs *operational packs*: bundles that describe how to reconcile or ingest
business data through SoRX, the service that owns the records. `operax serve` is the
long-lived form of it, a daemon that keeps a registry of deployed packs, serves an HTTP
control API, and runs a deployment on request or when a business event arrives over NATS.

This directory holds TLA+ modules for the parts of it that keep state or run
concurrently, TLC configurations that check them on small instances, and proofs that
TLAPS checks for every value of the constants.

- [1. The system](#1-the-system)
- [2. The modules](#2-the-modules)
- [3. The runs](#3-the-runs)
- [4. Disagreements found](#4-disagreements-found)
- [5. Fairness](#5-fairness)
- [6. The proofs](#6-the-proofs)
- [7. What is not modelled](#7-what-is-not-modelled)
- [8. Plan](#8-plan)

To check: `tlc -config <cfg> <module>` for the pairs in section 3, `tlapm <module>`
for each `_proofs` module.

## 1. The system

Paths are below `src/crates/`. "Correct" says what must hold whatever the interleaving.

| Component | State | Operations | What is hard | Correct means |
|---|---|---|---|---|
| Deployment manager `operax-manager/src/deployment.rs` | map of slots (record, runtime, status) under one `RwLock` | `deploy`, `upgrade`, `remove`, `run_as`, `matching_deployments`, `load` | handler threads interleave; a save may fail after the change; the daemon may be killed at any step; a pack file may change | nothing acknowledged is lost; versions never go back; a Ready slot has its runtime and stays Ready; a run is never on an outdated version; every request is answered |
| Deployment store `deployment_store.rs` | registry file, `json.tmp` | `save` (write, rename), `load` | torn writes, crashes between write and rename, an unreadable file | the file is always one whole registry |
| HTTP server `serve.rs` | one thread per connection | route, authorize, parse, call the manager | one `read` per request, a failing `accept`, a poisoned lock | a connection does only what its client asked for; its status tells what was done; it is closed |
| Pack fetcher `operax-pack-loader/src/fetch.rs` | cache directory, files named by digest | `fetch_pack_ref`, `pull_oci_layer_bytes`, `write_to_cache` | sources that change or fail, images of several layers, a write cut off | a cached file is what its name says; a pinned digest holds |
| Business-event router `operax-cli/src/business_events.rs` | a NATS subscription with its buffer, the tasks of the current event | receive, match, spawn, join | slots change between match and run; sessions and the daemon end at any point | at most one run per event and deployment, in order, none missed for a deployment left alone |
| Single-pack subscriber, same file | a subscription | receive, run | as the router | as the router |
| Reconnect loop `nats_reconnect.rs` | backoff, session start | session, sleep, backoff | what counts as healthy; timers | never spins, never gives up |
| Presence directory `presence.rs` | the last announcement of each SoRX instance | ingest, evict, resolve | an instance announces itself once, heard or not; eviction only on arrival, by a clock that may be set back; a poisoned lock | a run is sent to where its instance booted last, unless that announcement was lost |
| Manager runtime `operax-manager/src/lib.rs` | the last 20 run reports | submit, create, read | store at its limit; ids that are readings of the clock; a body that says what it wants in several places | what is stored was done; nothing is done that was not asked for |
| Reconciliation run `operax-runtime/src/lib.rs`, dispatch, policy, audit | the run's report, the audit file | plan, check policy, apply, audit; or ingest a batch | an action applied and not audited; concurrent appends; a bulk ingest that is not audited at all | what a reconciliation had applied is in its trail, and its report tells the same |
| Bulk ingest `operax-runtime/src/bulk_ingest.rs` | the plan of a batch, how far it got | validate, sort, execute | failures half way without rollback; a call whose effect is unknown; a batch sent again meanwhile | references before what refers to them, nothing twice, reports that tell what SoRX told |
| SoRX client `operax-sorx-http` | one connection per call | map an action to a request, connect, write, read, parse | a timeout of 10 s without a byte, after the effect it may be; answers that trickle or are cut off; a redirect or an empty page | no action twice; what counts as done was done, or not said by SoRX |
| Pack loader `operax-pack-loader/src/lib.rs` | none | load a directory or a `.gtpack` | files read one after the other, a file read twice | what is loaded passed every check |
| Core types `operax-core` | none | match a topic, make an id | | |
| Command line, cards, test runtime | none that outlives a command | | | |

How they interact. A handler thread of the HTTP server calls the manager; `deploy` and
`upgrade` call the fetcher and the loader and every mutation calls the store, all of it
*under the write lock*. A run copies what it needs under the read lock, drops it, asks the
presence directory for an endpoint if the deployment is bound to `sor`, and then runs the
pack: a reconciliation run or a bulk ingest, both of which call SoRX. The router asks the
manager for the ids that match an event, under the read lock, drops it, and calls `run_as`
for each of them on a task of its own. Its sessions, the subscriber's and the presence
directory's are each wrapped in the reconnect loop.

Every hazard this gives rise to is listed in `PROJECT.json` at its line, with the
properties that would catch it or the reason why none does yet.

## 2. The modules

| Module | Models | Uses |
|---|---|---|
| `DeploymentSlots` | what the manager promises: a map of slots that changes one id at a time, and a saved copy of the whole | |
| `DeploymentManager` | manager, store, fetcher's cache, request threads, crashes | refines `DeploymentSlots` |
| `DeploymentServer` | the HTTP server over the manager | extends `DeploymentSlots` |
| `EventRouter` | the event router over the manager | extends `DeploymentSlots` |
| `NatsReconnect` | the reconnect loop | |
| `EventTopics` | which topics are those of an events capability | |
| `Subscriber` | the subscriber of a single artifact | extends `EventTopics`, instantiates `NatsReconnect` |
| `Presence` | the directory of SoRX instances, its subscriber and its resolver | |
| `PackLoader` | loading a pack, read by read | |
| `PackFetch` | fetching a pack by reference, and its cache | extends `PackLoader` |
| `SorxCalls` | the SoRX client's calls, and SoRX | |
| `ManagerRuns` | the manager's server, its runs and their store | extends `SorxCalls` |
| `BulkIngest` | bulk ingest runs and what SoRX has of them | |
| `ReconciliationRun` | reconciliation runs, what SoRX did for them and their audit trail | |
| `MC...` | instances for TLC: packs, requests, events, batches | |
| `..._proofs` | theorems about the module of that name | TLAPS |
| `Daemon_proofs` | theorems about `DeploymentSlots`, `EventRouter` and `DeploymentServer` | TLAPS |

Two conventions. Definitions have the names of the code where they can (`NextVersion`,
`PushHistory`, `WriteTmp`, `OpById`). A definition commented `Mutant` is not part of a
model: it is the definition after it with a plausible bug, which the property named in
`PROJECT.json` has to catch.

### DeploymentManager

A `DeploymentSlot` is split in three functions on `Ids`: `record`, `runtime`, `status`. A
pack file is its content, and the sha256 digest is identified with the content. `registry`
and `tmp` are the registry file and `json.tmp`; `fs` are the pack files, the cache among
them. Each thread has a program counter `pc`, the request `req` it serves and one `local`
value: the path that `resolve_effective_path` came to, or the snapshot of `run_as`.

| Code | Actions |
|---|---|
| a connection is accepted, parsed, and `deploy`'s checks before the lock | `Arrive` |
| taking the write lock, `AlreadyExists` and `NotFound` | `AcquireToInstall`, `AcquireToRemove`, `RefuseId` |
| `resolve_effective_path`, `fetch_pack_ref`, `write_to_cache` | `ResolvePath`, `ResolveReference`, `ResolveNothing`, `Fetch`, `FetchFails` |
| load, then create or swap the slot | `LoadFails`, `Install` |
| `persist_locked` and `OperaxDeploymentStore::save` | `WriteTmp`, `Rename`, `PersistFails` |
| Ok, lock dropped | `Return` |
| `run_as` | `TakeSnapshot`, `RefuseRun`, `Discover`, `Undiscovered` (all of it `BeginRun`), `FinishRun` |
| `DeploymentManager::load` | `Boot` |
| outside | `Crash`, `ReplacePack` |

The file that cannot be read is left out: see section 4. The steps of a mutation are
separate actions although it holds the lock: the disk, the
pack files and the daemon's life are not under that lock, and that they interleave is the
point. `acked` and `attempts` are observations: for each id the record of its last
successful mutation, and what memory has held of it since.

`PersistFails` leaves the slot changed, as the code does, and answers with an error. That
is why `AckedIsDurable` allows the file to be ahead: a later save, of any id, writes the
whole map.

### EventRouter

The router is built on `DeploymentSlots`, not on the threads and files below it; that this
is sound is `ImplementsSlots`, which the run `registry` checks and `Refinement` proves.
`lock` is the write lock: a request takes it (`TakeLock`), may change a slot and save all
of them (`ChangeSlot`, `SaveSlots`), and drops it (`DropLock`), after a download that may
take for ever. `session` and `inbox` are the subscription and its buffer; `current` and
`tasks` are the event being routed and the task of each matching id. `Receive` is the match
and the spawning of the tasks; `StartRun` is `run_as` on a task, where the slot is looked up
again, by id. Both take the read lock, and so wait for who holds the write lock (`MayAsk`).
`runs` and `touched` are observations: what was run, and which slots changed since the
match.

### DeploymentServer

A thread per connection, in the phases of `conn`. `sent` is what its client sends and
`seen` what the single `read` returned of it: `Reads` gives every place at which it may
stop, in the body (`CutInBody`, what is left does not parse), in the headers (each is
there, gone, or not all there) or in the request line, where a part of `/deployments/ab`
is `/deployments/a`. A request longer than the buffer is always cut.

| Code | Actions |
|---|---|
| `start_deployment_server` | `Accept`, `AcceptFails` (the daemon ends), `Start` |
| `handle_deployment_stream` | `Read`, `ReadFails`, `WriteResponse` |
| `is_authorized`, routing | `Preflight`, `Health`, `Unauthorized`, `NoRoute` |
| `handle_deployment_request` | `List`, `Get`, `PostDeploy`, `PutUpgrade`, `DeleteItem`, `PostRun` |
| `persist_locked`, `deploy_error_reply` | `Persist` |
| a panic under the write lock | `LoadPanics`: the lock is poisoned, the client gets nothing |

The registry is `DeploymentSlots`; `conn = "saving"` stands for the write lock, which is
held from the change until it was saved. `effect` is an observation: what the connection
did to the deployments.

### NatsReconnect and Subscriber

`phase`, `backoff` and the two lengths of time that `started.elapsed()` adds up, `ran` and
`slept`. `Tick` is a second; a timer may be late by `MaxLate` of them. A session may end at
any moment of its life, the first included. `ages` is an observation: how long ago each of
the last `Burst + 1` sessions began, where `Burst` is the number of those that begin within
`HealthySession` seconds while the broker is down (`Down`). `Subscriber` puts the sessions of
`run_subscriber` in it: `Loop == INSTANCE NatsReconnect`, so that a session ends only when
its stream has no more messages. `current` is the message in hand with the number of its
next subscription, because the runs of one message are made one after the other.
`EventTopics` is `topic_matches`, on texts that are sequences of words and marks: the
capability's path gives a domain, without its version, and a name, and both shapes in which
SoRX publishes are its topics. What SoRX published an event for is the constant `Matching`,
which the code never sees: `EachOnceInOrder` compares the runs with it. It is to be given
so that two capabilities share a topic only where the event is for both; the code cannot
tell a command `a.b` from an entity `a-b`.

### Presence

| Code | Actions and operators |
|---|---|
| `run_presence_subscriber` | `Connect`, `LoseConnection`, `EndSession`, `Ingest`, `IngestPanics` |
| `apply_presence`, `evict_stale` | `Applied`, `Evicted`, one after the other in `Hear` |
| `resolve_endpoint` | `Candidates`, `Freshest`, `Resolvable` |
| an instance boots, a payload that does not decode | `BootInstance`, `PublishNoise` |
| `now_ticks` | `Tick`, `SetClockBack` |
| `run_serve` starts again | `RestartDaemon` |

`booted` is where each instance really is, `missed` whose last announcement was lost: the
two that the directory cannot know, and against which `EndpointsAreCurrent` measures it.
`time` counts the seconds that really pass and `back` those that the clock was set back by;
`at` keeps both for the moment at which an entry was heard, `quiet` is since when nothing
was heard: `AgeIsBounded` says with them how old an entry really is. `Resolvable` is a set
because of several entries of the same second the one that comes last in a `HashMap` wins.

### PackLoader and PackFetch

An artifact is a record of the facts that the loader asks about (does `operala.yaml` parse,
which schema, which flows), one check each, in the order of the code, so that an error code
is the one of the first check that fails. A digest is identified with what it is the digest
of. A directory is read in three steps (`ReadMetadata`, `ReadHandoff`, `ReadFiles`), a
`.gtpack` in two (`ReadBytes` for the digest, `OpenPack` for its files), and `Replace` may
come between any two of them.

`PackFetch` puts `map_scheme`, the download and the OCI pull in front of it:
`PullOci` with `SelectLayer` and `Verify`, then `BeginWrite`, `EndWrite`, `WriteFails` for
the file of the cache, which is skipped when it is there. The deployment manager's own
`Fetch` is the abstract form of it: one step that ends with the file it names.

### SorxCalls and ManagerRuns

Each thread has one exchange with SoRX or none: `phase`, the `reply` SoRX gave and how much
of it `arrived`. `RequestOf` is `apply_pack_action` with what the capability client makes
of it, `Parse` is `parse_http_json_response` of what arrived before the connection was
closed. The read timeout is one of each read: `silent` says that ten seconds went by without
a byte, after which the call times out, unless a byte comes first (`Trickle`). `late` are
actions whose client no longer waits, and that SoRX may still carry out; `hollow` are those
with an answer that the client takes for success though it is not SoRX's (`Genuine`).
`ManagerRuns` makes runs of these calls:

| Code | Actions |
|---|---|
| `submit_manager`, `create_run`, `input_mode_from_body` | `Post`, with `Applies` and `InputOf` |
| `run_loaded_pack`'s loop over the actions | `ApplyNext`, `Fails`, `Finishes` |
| `HttpSorxClient::request` | `StartCall` to `TimesOut`, through `Calls` |
| `push_run`, `find_run` | `PushRun`, `FindRun`, `GetRun` |
| the other routes, `accept` that fails | `Views`, `AcceptFails` |

`history` are all runs that were ever stored, `asked` the actions of every input of a body
that says "apply" in any of its places: what a client could have meant at most.

### BulkIngest

`Batches` are the batches callers send, each with its rows, their ids and references and
the options of the pack. `Submit` is `run_bulk_ingest` up to `sort_plan`; `Place` is one
turn of the sort's loop and `EndSort` what follows it, the error reports and the dry run
included; `InvokeSucceeds`, `InvokeIsHollow` and `InvokeFails` are the turns of the loop of
`execute_plan`. A hollow call is one that a redirect or an empty page answered: the client
returns Ok, the run goes on, and SoRX knows nothing of it. `hollow` has the operations of a
run to which this happened; a report keeps it, and a record keeps in `gaps` what had been
hollow when its run had it created. `created` is what SoRX has. It creates nothing under a
key it has seen, which is what the client relies on when it sends an `Idempotency-Key`;
that assumption is about SoRX, outside this repository. A call that fails may or may not
have had its effect.

The maps of `sort_plan` are modelled by what they keep: `op_by_id` and `plan_by_op` are
collected from a list, so the last of the rows with the same key wins (`LastOf`). The order
in which queued operations are taken is left open, which includes the code's.

### ReconciliationRun

A run has a program counter: the event that it writes, or `apply` for a call of SoRX. `at`
is the decision and the action of the two nested loops. A transaction is what
`decide_transaction` looks for in it: which known references its text contains, and whether
its amount is that of the rent. `Begin` is `run_pack_with_client` with the checks at its
head; `Started`, `Accepted`, `Decided`, `Noted` and `Completed` each go from the end of one
event to the next step of `run_loaded_pack`; `ApplySucceeds`, `ApplyIsHollow` and
`ApplyFails` are `apply_pack_action` with the call that it ends in. An error at any of them
is `Fail`, after which the code writes nothing more.

`write_event` opens the file anew and uses `writeln!`, which hands the text and the newline
to the unbuffered `File` one after the other: `WriteText` and `EndLine`. `tail` is who has
text on the last line of the file, `broken` who has text on a line that is not one event.
`made` is what SoRX did, under the same assumption on keys as in `BulkIngest`; `trail`,
`carried` and `hollow` are observations: what each run wrote, what was carried out for it,
by an earlier call with the same key if there was one, and what only seemed to be.

A run of a bulk ingest pack goes from `run.started` to `run.completed` with nothing in
between, as `run_loaded_pack` does: `BulkIsRefused`, `BulkIsPlanned` (not valid, or a dry
run), or its calls, `IngestSucceeds` (hollow or not) until `IngestEnds` or `IngestFails`.
`ingested` are the records that SoRX created for it. How the plan is made, and under which
keys it is sent, is `BulkIngest`; here a record is its place in the plan.

## 3. The runs

`daemon` and `manager` take about two minutes with two workers, the others one or less.

| Run | Module, cfg | Checks | Result |
|---|---|---|---|
| `registry` | `MCDeploymentManager`, `DeploymentManager_registry` | `AckedIsDurable` `HistoryIsContiguous` `ZeroDowntime` `AckedVersionsIncrease` `NoStaleRuns` `ImplementsSlots` | hold; 333,729 states |
| `answers` | `MCDeploymentManager`, `DeploymentManager_answers` | `RequestsAreAnswered` | hold; 298,062 states |
| `daemon` | `MCDeploymentServer`, `DeploymentServer_daemon` | `EffectIsWhatWasAsked` `RepliesAreHonest` `ConnectionsAreClosed` | hold; 233,889 states |
| `routing` | `MCEventRouter`, `EventRouter_routing` | `NoDuplicateRuns` `RunsFollowPublication` `UntouchedMatchesRun` `MessagesAreHandled` | hold; 547,763 states |
| `foreign` | `MCEventRouter`, `EventRouter_foreign` | `RunsMatchTheirEvents` | violated |
| `subscriber` | `MCSubscriber`, `Subscriber_subscriber` | `TypeOK` `EachOnceInOrder` `NeverBusyLoops` `SessionsAreRenewed` | hold; 20,515 states |
| `discovery` | `MCPresence`, `Presence_discovery` | `EndpointsAreCurrent` `LatestIsUsed` `AgeIsBounded` | hold; 1,160,511 states |
| `packs` | `MCPackFetch`, `PackFetch_packs` | `TypeOK` `CacheHoldsWhatItNames` `FetchedIsLoaded` `PulledIsPinned` `LoadsIfSound` | hold; 310,382 states |
| `manager` | `MCManagerRuns`, `ManagerRuns_manager` | `OnlyAskedForIsDone` `StoredRunsDidAll` `NothingTwice` `RunsAreFound` `RequestsAreAnswered` | hold; 610,374 states |
| `batches` | `MCBulkIngest`, `BulkIngest_batches` | `ReferencesFirst` `NothingTwice` `ReportsAreTrue` `RunsEnd` | hold; 95,027 states |
| `reconcile` | `MCReconciliationRun`, `ReconciliationRun_reconcile` | `AuditedWereMade` `EffectsAreInTrail` `TrailIsWhole` `OnlyApprovedAreMade` `AppliedOnce` | hold; 351,301 states |
| `trail` | `MCReconciliationRun`, `ReconciliationRun_trail` | `TrailIsLines` | violated |

What the properties say is in the comment in front of each. The type invariants are proved
for all constants (section 6); TLC checks `TypeOK` in `packs` and `subscriber` only, where
it bounds the backoff and says which results a load may have.
`ReadyHasRuntime` and `EvictedByAge` are stated and proved, and checked by no run.

**Bounds and why they are enough.**

- `registry`: two ids and two threads, so that a save made for one id writes the change
  another left behind, and a run meets a mutation of its own id and of another. Four
  requests (`MaxRequests`) and a history of two (`HistoryCap`, 5 in the code): deploy and
  three upgrades fill the history and cut it, or the requests go to a deploy, a failed
  save, a removal and a new deploy. Crashes and boots are not bounded. One tenant and no
  environment: no action of the manager looks at them. Ids and threads are interchangeable,
  and no liveness is checked, so symmetry is sound.
- `answers`: the error paths need one request, the lock two, and a third that finds what
  they left. A download and a run may go on for ever. No symmetry.
- `daemon`: two connections (`MaxConnections`) on two threads: one while the other holds
  the lock, loads or panics, or one after the other on what it left. Two ids, one a part of
  the other; twelve requests, each route with credentials in one header, in the other,
  wrong or absent, and one longer than the buffer. A registry file may be there at boot.
- `routing`: two deployments match the same event, so that tasks run side by side, one
  changes while the other runs; two events for the order; three requests that take the
  write lock (`MaxChanges`), for a deployment that is removed and deployed anew within one
  event, and one that keeps the lock. Session losses and restarts are not
  bounded.
- `subscriber`: the backoff goes 1, 2, 4, 5: up to a cap that is no power of two, as 30
  is none, and a healthy session is as long as the cap, as in the code. Time is not
  bounded: only lengths of it up to a healthy session matter. One subscription has a version
  in its path and a dot in its name, the other neither. Two messages, of four: one that was
  published for both subscriptions, one, none, and one that does not decode.
- `discovery`: two instances, one that moves and one that serves another environment, is of
  another tenant or out of reach: the four ways in which a query may not match. Three
  announcements: the first of each and a second of one. A time to live of one second and
  four seconds (`MaxTime`), so that an entry may live, expire, be in the future, and expire
  late because the clock was set back. The subscription
  is for all tenants; restarts, lost sessions and set clocks are not bounded.
- `packs`: eight artifacts, of which two are sound in both forms, two in one, and four fail
  at different checks; a directory, a `.gtpack`, a file that is neither, and the cache. Two
  requests (one writes the cache that the other finds), one replacement of any path or
  target. Two images, with a tie between layers and with a layer that has no rank.
- `manager`: three requests on two threads, at a time or one after the other, of an input of
  two actions, so that one may be done when the other fails; two of the requests
  to be applied (`MaxApplies`). A store of two runs (`Cap`, 20 in the code), so that two kept
  runs may have one id, and the third drops the first. Answers: SoRX's own, an empty page,
  and an error whose status line is none. A redirect does what the empty page does here, an
  error with a readable status what the other one does.
- `batches`: three attempts (`MaxRuns`) on two threads: the first, one at the same time,
  one after both. The five batches are the whole of it, what is left after its first record
  (once under each of the two options that make ids obligatory), a circle, and records without
  ids, one of them with the id of another for its index. Two hollow calls (`MaxMisled`), so
  that two references of one record may be missing.
- `reconcile`, `trail`: two runs, which may be of the same input, at a time or one after the
  other has failed. The inputs have each of the three outcomes, the same transaction in two
  places of one batch and in two batches, no transactions, a shape that is refused, a
  secret, and bulk ingests of two records and of what is no valid batch, each dry or not.
  Runs are interchangeable, and any call may be hollow.

The deadlock check is off (`CHECK_DEADLOCK FALSE`) where clients may stop sending, that is
in all runs: a daemon that nobody sends anything may rest.

## 4. Disagreements found

Two runs are expected to fail; each shows a disagreement between the code and what its
documents or comments say, quoted in `PROJECT.json` under "findings".

- `foreign`: an event runs deployments that match it, but the match and the run take the
  lock separately and the run goes by the id: a deployment upgraded in between, or removed
  and deployed for another tenant, is run for an event that does not match it.
- `trail`: the trail is to be auditable JSONL of every run, but all runs of a daemon append
  to one file with two writes an event, so two events can share a line. `TrailIsLines`
  speaks of runs that neither fail nor are killed: it is not about torn writes.

Further ones that were met on the way have no run, because reading the lines shows them, or
because the model states what holds in spite of them:

- The design says that runs of different deployments proceed concurrently, but `deploy` and
  `upgrade` download under the write lock (`deployment.rs:320`), without a timeout: no run
  begins meanwhile, and the router routes nothing. `MessagesAreHandled` and
  `RequestsAreAnswered` of the manager name it as what can stop them.
- A registry file that cannot be read or parsed is taken for an empty one
  (`deployment.rs:221`, "starting empty"), and the next mutation saves that.
- A file of the cache that is there is taken for a complete copy, however its write ended
  (`fetch.rs:157`). `CacheHoldsWhatItNames` therefore excepts files whose write was cut off.
- `pack_digest` is kept for "integrity + audit", but nothing compares it with the file that
  is loaded at boot; and the digest of a directory is that of its handoff file alone.
- The artifact of the single-pack subscriber is loaded anew for each run, its subscriptions
  are those of the artifact at boot (`business_events.rs:145`).
- "Errors are audited" is an acceptance criterion of the trail, but `run_failed` is never
  called: a run that fails just stops writing.
- A session counts as healthy by a clock that is read after the sleep: at the cap the sleep
  alone is 30 seconds, and the backoff falls back to one second although the broker is down
  (`nats_reconnect.rs:59`). `NeverBusyLoops` holds in spite of that. After a healthy session
  the loop sleeps the backoff it had before, although its comment promises the initial one.
- The SoRX client takes every status below 400 for success, and an empty body for an
  answer (`operax-sorx-http/src/lib.rs:459`). A run that is answered so goes on: its trail
  says "applied", its report "completed", and records are created whose references were
  not. `StoredRunsDidAll`, `AuditedWereMade`, `TrailIsWhole`, `ReferencesFirst` and
  `ReportsAreTrue` therefore except what a redirect or an empty page told the run itself;
  that another run was told so is no excuse.
- "Write auditable JSONL events for every run" (`.codex/done/19-operax-audit-jsonl.md:5`),
  but a bulk ingest writes `run.started` and `run.completed` and nothing of the records
  between them (`operax-runtime/src/lib.rs:87`). `EffectsAreInTrail` is therefore stated of
  reconciliations; of a bulk ingest, `TrailIsWhole` relates the report to what SoRX has.
- The client sets a read timeout of 10 seconds, but reads until the connection is closed,
  and the timeout is one of each read (`operax-sorx-http/src/lib.rs:143`): an answer that
  trickles is waited for without end. `RequestsAreAnswered` of the server of runs has that
  exception, and no other.
- Ids of deployments are taken from the path as they are: one that ends in `/run`, or has a
  question mark, can be deployed and then not be upgraded, run or removed.
- `log_directory` writes to stderr under the write lock of the directory: without a stderr
  it panics, and the daemon hears of no instance until it restarts (`IngestPanics`).
- A record of a batch without a primary id goes by its index, which can be the id of
  another record: such rows may displace one another in the plan or be reported as a
  circle. `ReferencesFirst` is therefore stated for batches whose rows have ids, which the
  option `require_unique_ids` enforces.

## 5. Fairness

- `DeploymentManager`: weak fairness of what a thread does for a mutation or up to the run
  of `run_as` (`Mutation`, `BeginRun`). Weak fairness of taking the lock would not do
  against an unbounded stream of other requests; here requests are bounded by
  `MaxRequests`, so what is shown is that no path keeps the lock. Nothing is assumed of a
  download, for `ureq` is called without a timeout, nor of a run, which calls SoRX, nor
  that the daemon is started again. `RequestsAreAnswered` says what may therefore keep a
  request for ever: its own download or run, or the download of who holds the lock.
- `DeploymentServer`: weak fairness of reading what was sent, of the save and of the write,
  and strong fairness of `Handle`, which waits for a lock that others take again and again:
  `RwLock` grants it at last. Here downloads are assumed to end; what happens when one does
  not is in `answers`. Nothing makes a client send.
- `Subscriber`: its thread is scheduled and its runs end (`Handle`), which is assumed of
  SoRX, see `ManagerRuns`; time passes, the loop is polled when its timer fires (`Tick`,
  `Reconnect`), and the stream of a connection that is lost ends after what it has in its
  buffer. Nothing makes a connection fail or succeed.
- `ManagerRuns`: weak fairness of what a thread does without help from SoRX (`Own`): the
  operating system gives up a connect, a request fits the send buffer, time passes, and a
  read ends after ten seconds without a byte. Nothing is assumed of SoRX, neither that it
  answers nor that it closes; the property excepts an answer that trickles for ever.
- `EventRouter`: weak fairness of the router's thread (`Receive`, `JoinAll`) and of each
  task up to its run (`LookUp`). Nothing is assumed of the request that holds the write
  lock, nor of a run: `MessagesAreHandled` has the two exceptions that follow, a lock that
  is never free again and a run that never ends. No fairness of `Connect`, `Publish` or the
  clients.
- `BulkIngest`: a run's thread keeps running, and each of its calls returns. The latter is
  assumed of what answers: it is so unless an answer trickles for ever.

## 6. The proofs

All theorems are about `Spec` of the module, for all constants that meet the module's
named assumptions; no axiom is added and no proof is left out. The assumptions only say
of what type the constants are and that `None` is none of their members, and, in
`BulkIngest`, `RowsAssumption`: of some rows of a batch one is the last, because
collections are finite lists; in `SorxCalls`, that keys tell actions apart, and, in
`Subscriber`, that `HealthySession <= MaxBackoff`. TLC evaluates all of them in the runs.

### DeploymentManager_proofs

`TypeOK` is not inductive: that `Install` is given a path and that the record of an
upgrade is still there depends on where the thread is and who holds the lock. The
inductive invariant is

    Inv == TypeOK /\ ThreadInv /\ LockInv /\ SaveInv

`ThreadInv` says what a thread has at each step of its program, `LockInv` that from
acquisition to answer it holds the lock and that meanwhile the slot it found stays as it
was, and `SaveInv` that between the write of `json.tmp` and the rename memory, and so
`tmp`, stay the same. There is one lemma per action; the last ones combine them.

| Theorem | Property | Argument |
|---|---|---|
| `TypeCorrect` | `TypeOK` | part of `Inv` |
| `Durability` | `AckedIsDurable` | with `DurableInv`: each id's record in memory and in both files is the last acknowledged or a later attempt; `SaveInv` makes the file equal to memory when a mutation is acknowledged |
| `VersionsIncrease` | `AckedVersionsIncrease` | with `AttemptsInv`: without a removal, attempts have versions above the acknowledged one |
| `RunsAreCurrent` | `NoStaleRuns` | from the same two: what memory holds is the acknowledged record or an attempt |
| `History` | `HistoryIsContiguous` | `PushHistory` keeps a contiguous history so (lemma), for records wherever they are: memory, file, `json.tmp` |
| `ReadyRuns` | `ReadyHasRuntime` | `SlotInv` |
| `StaysInService` | `ZeroDowntime` | an action at a time: only `AcquireToRemove` takes Ready away while the daemon is up |
| `Refinement` | `ImplementsSlots` | a step at a time: `AcquireToRemove` and `Install` are changes of one slot, `Rename` is a save by `SaveInv`, `Boot` and `Crash` are the daemon's, all others stutter |

### BulkIngest_proofs

    IInv == TypeOK /\ SortInv /\ ExecuteInv /\ CreatedInv /\ KeysInv /\ ReportInv

None of the three safety properties is inductive. That a record's references are created
first needs the whole history of its run: every operation stands in the plan behind all
that it waits for (`SortInv`), all operations that have been executed are *settled*, made
or hollow (`ExecuteInv`), and so what is created now has what it waits for, but for the
gaps of its own run (`CreatedInv`), then and, since SoRX only gains records (`MoreIsMade`),
for ever. `ReferenceIsDependency` closes the
gap between the references of records and the dependencies of operations: in a valid batch
whose rows have ids, `op_by_id` finds the row that was meant.

| Theorem | Property |
|---|---|
| `TypeCorrect` | `TypeOK` |
| `ReferencesComeFirst` | `ReferencesFirst` |
| `CreatedOnce` | `NothingTwice` |
| `ReportsHold` | `ReportsAreTrue` |

### ReconciliationRun_proofs

    IInv == TypeOK /\ PlacedInv /\ TrailInv /\ MadeInv /\ KeysInv /\ CarriedInv

`PlacedInv` says that a run is at a place that its input has, and calls SoRX only where the
policy lets it; `TrailInv` what a run must have told at each stage, in particular that the
only action not told is the one it is at, and only until its line is written or the run has
ended; `MadeInv`, `KeysInv` and `CarriedInv` tie what SoRX did to the runs that asked for
it. The steps that go on to another stage share one lemma (`Moves`).

On top of it stands `IngestInv`, of what a bulk ingest did: each of the records that
`applied` counts was made or hollow, SoRX has at most the next one besides, and a dry run
had neither records nor actions made. `ApprovalIsRespected` needs it as well.

| Theorem | Property |
|---|---|
| `TypeCorrect` | `TypeOK` |
| `AuditIsTrue` | `AuditedWereMade` |
| `AuditIsWhole` | `EffectsAreInTrail` |
| `ApprovalIsRespected` | `OnlyApprovedAreMade` |
| `PaidOnce` | `AppliedOnce` |
| `TrailOfARunIsWhole` | `TrailIsWhole` |

`TrailIsWhole` has an invariant of its own on top of `IInv`,

    Whole == CompleteInv /\ CountInv

`CompleteInv` gives a run a *front*, the place of the next action to be told of: each
action before the front has been told of once, and nothing has been told of from there on.
The front moves past an action when the text of its event is written (`FrontTold`), and
over the end of a decision, where no action is (`FrontMoves`); a run comes to
`run.completed` when no decision is left in front of it. An ended run keeps what it had.
`CountInv` says that `applied_actions` and `skipped_actions` are the counts of the trail
and of the event that the run is about to write, which is why they are taken before the
event: `CountAppend` is the step of a cardinality over the indices of a sequence. What
`TrailIsWhole` says of the report of a bulk ingest is `IngestInv`.

### Daemon_proofs

One module for the daemon, because the router and the server stand on the same registry.
`RegistryTypeCorrect` is about the abstract manager alone; its lemma `RegistryTypes` (each
operation keeps the type of slots and file) is cited for both. The router:

    RouterInv == LoopTypeOK /\ ShapeInv /\ OrderInv /\ OnceInv /\ UntouchedInv

`OrderInv` puts the runs, the message in hand and those in the buffer in one order of
publication, over all sessions; `OnceInv` says that a task that has not begun has no run;
`UntouchedInv` that the task of a deployment which was left alone is under way, or has run
what it matched with.

| Theorem | Property |
|---|---|
| `RouterTypeCorrect` | `RouterTypeOK` |
| `AtMostOnce` | `NoDuplicateRuns` |
| `InOrder` | `RunsFollowPublication` |
| `UntouchedAreRun` | `UntouchedMatchesRun` |

The server:

    IInv == TypeOK /\ \A t \in Threads : At(t)

`At` says what a connection has seen and done in each phase. The heart of it is
`CutsAreHarmless`: of whatever a single read returns, if it has the secret then it has the
whole request line, because the headers come after it. So what is authorized has the
route that was sent (`EffectIsAsked`). `HonestReplies` needs that a refusal comes before
any change, and that only a failed save, 500, comes after one.

| Theorem | Property |
|---|---|
| `TypeCorrect` | `TypeOK` |
| `EffectIsAsked` | `EffectIsWhatWasAsked` |
| `HonestReplies` | `RepliesAreHonest` |

### Presence_proofs

    IInv == TypeOK /\ OrderInv /\ ApartInv /\ TimeInv

`ApartInv` is the argument for `EndpointsAreCurrent`: an instance whose last announcement
was not lost has it as the last of its own in the buffer (`LastWordWaits`), or, if none of
its own is there, in the directory (`HeardTheLast`). `OrderInv` says that entries heard
later were seen no earlier, as long as the clock was not set back. `TimeInv` ties the clock
to the seconds that passed: the two differ by what the clock was set back by, now (`clock +
back = time`) and when an entry was heard (`lastSeen + at.back = at.time`). So an entry that
eviction spares, because it is young by the clock, is no older than that plus what the clock
was set back by since; and after the last message it ages with `quiet`.

| Theorem | Property |
|---|---|
| `TypeCorrect` | `TypeOK` |
| `EndpointsCurrent` | `EndpointsAreCurrent` |
| `LatestUsed` | `LatestIsUsed` |
| `AgeBounded` | `AgeIsBounded` |
| `OnlyAgeEvicts` | `EvictedByAge` |

### ManagerRuns_proofs

    IInv == /\ TypeOK /\ ShapeInv /\ KeyInv /\ AskedInv /\ DoneInv
            /\ StoredRunsDidAll /\ NewestRunsAreKept

`AskedInv` follows an action from the body through the run and the call to what SoRX may
still do late. `KeyInv` is the idempotency: what was done is what SoRX has the key of, once
each. `DoneInv` says that all actions of a run before its next were done, except for one
that is under way or failed, whatever the threads do meanwhile. `NewestRunsAreKept` is the
store as a prefix of all runs.

| Theorem | Property |
|---|---|
| `TypeCorrect` | `TypeOK` |
| `OnlyAskedFor` | `OnlyAskedForIsDone` |
| `DoneOnce` | `NothingTwice` |
| `StoredDidAll` | `StoredRunsDidAll` |
| `KeptAreFound` | `RunsAreFound` |

`PaidOnce`, `CreatedOnce` and `DoneOnce` rest on what is assumed of SoRX, that it does
nothing twice under one key; what is proved is that the keys are the right ones.

### PackFetch_proofs

    IInv == /\ TypeOK /\ StageInv /\ FreshInv /\ HandedInv /\ WholeInv
            /\ CacheHoldsWhatItNames /\ FetchedIsLoaded /\ PulledIsPinned

`HandedInv` is why a fetched pack is the one that is loaded: a fetch is followed by the
load of the file that it wrote or found, what is read of that file is what the file holds,
and it holds what its name says unless a write was cut off (`WholeInv`, `CachePath` names
one artifact each). A torn file fails to open, so nothing is loaded from it. `FreshInv`
ties what a load has read so far to what the path holds, as long as nobody replaced it;
`SoundPacksLoad` is then one lemma for each step of the load that may fail.

`select_layer` is a loop over the layers. `LoopKeepsFirst` proves of it, for a list of any
length, that it ends at the first layer that no other is preferred to. It is a recursive
function of the index, and what would be an induction is an argument by the least
counterexample (`WFMin` of the library on the naturals), as induction itself is out of
reach.

| Theorem | Property |
|---|---|
| `TypeCorrect` | `TypeOK` |
| `CacheIsWhole` | `CacheHoldsWhatItNames` |
| `FetchedPackIsLoaded` | `FetchedIsLoaded` |
| `PulledLayerIsPinned` | `PulledIsPinned` |
| `SoundPacksLoad` | `LoadsIfSound` |

### Subscriber_proofs

    IInv == TypeOK /\ SpinInv /\ HandInv /\ DoneInv /\ OrderInv

`NeverBusyLoops` is about each `Burst + 1` sessions in a row, between which the backoff may
have been reset any number of times. `SpinInv` says of each of the last sessions what is
known of it: either it began `HealthySession` seconds ago, or those after it began no
earlier than the sessions of a broker that is down (`Begins`, the first of `Down`), and the
backoff has grown as much (`Sleeps`). A session that resets the backoff has run and slept
for `HealthySession`, so that it and all before it are of the first kind; the others keep to
the second. The session `Burst` before the last cannot be young, for by then those of a
broker that is down have taken that long. `DownIs` and `BurstIs` say of the recursive
function `Down` what that needs, again by the least counterexample. `HealthySession <=
MaxBackoff` is an assumption of the module: both are 30 seconds in the code, and a cap below
it would let more sessions begin in a span than those of the first doublings.

`HandInv` says of the message in hand that it was run for each matching subscription before
the next one, and for no other; `DoneInv` says so of the messages that are done with, for
all of them; `OrderInv` puts messages that are done with, in hand and waiting in one order
of publication, over all sessions, so that a run of the message in hand comes after all
runs before it.

| Theorem | Property |
|---|---|
| `TypeCorrect` | `TypeOK` |
| `LoopDoesNotSpin` | `NeverBusyLoops` |
| `HandledOnceInOrder` | `EachOnceInOrder` |

`HandledOnceInOrder` has a hypothesis, `TopicsTell`: for the subscriptions of the artifact,
`topic_matches` finds on the topic of an event those that SoRX published it for. Two
capabilities may share a topic (section 2), and then no subscriber can tell them apart. It
holds of the values that the run `subscriber` gives to `TopicOf` and `Matching`. It is a
hypothesis of the theorem and no assumption of the module, because whether the code's
`topic_matches` meets it is what the run looks for. Without it, `DoneInv` still says that
each message was run for exactly the subscriptions that `topic_matches` finds.

### What is only model-checked

Liveness (`RequestsAreAnswered` of the manager and of its server of runs,
`ConnectionsAreClosed`, `MessagesAreHandled`, `SessionsAreRenewed`, `RunsEnd`): fairness and
ENABLED are out of the prover's reach. Every safety invariant and action property that a
passing run checks has a theorem. What `FoldLeft` makes of a domain's segments, in
`EventTopics`, is evaluated by TLC only: the proofs take `TopicMatches` as it is.

## 7. What is not modelled

- The HTTP protocol beyond what its readers tell apart: a request is its route, its
  credentials and the facts of its body; bodies of replies are left out.
- How the plan of a bulk ingest is made, within a run: `ReconciliationRun` has its calls, its
  report and what it does not write; the plan, its keys and its retries are `BulkIngest`.
  Actions of kind `dry_run` and generated routes that are applied: no decision
  that `dispatch_reconciliation` makes leads to them.
- The OCI protocol: a pull gets an image or fails. In the modules on the registry a pack is
  `Loadable` or not, and what that means is `PackLoader`.
- Schemas, expected counts and unsupported actions of a batch: one flag, `valid`. What a
  run does for a deployment: `FinishRun`, with any outcome.
- The lock that a panic poisons: in `DeploymentServer` only. In `EventRouter`, on the same
  registry, loads do not panic; a match that finds the lock poisoned finds no deployment.
- `team` and `locale` of a deployment: stored and never looked at.
- Topics in the router: its `Consumes` is the set of topics that a pack's subscriptions
  match. How they are matched is `EventTopics`, under `Subscriber`.
- The manager's cards, argument parsing and translation: no state. The test runtime starts
  child processes around the parts above, and keeps nothing that they see.
- Of the core types, what their users do not tell apart: `looks_secret_like` is a flag of an
  input.

## 8. Plan

1. *Done.* The registry: `DeploymentSlots`, `DeploymentManager`, the refinement, its
   invariants proved.
2. *Done.* What runs on it: `EventRouter`, `DeploymentServer`, with their safety proved.
3. *Done.* What a run does: `BulkIngest`, `ReconciliationRun`, `SorxCalls` under
   `ManagerRuns`, with their safety proved.
4. *Done.* What a run needs: `Presence`, `PackLoader` and `PackFetch`, proved.
5. *Done.* The subscriber of one artifact on `NatsReconnect`, with topic matching, proved.
6. *Done.* That every step of `DeploymentManager` is a step of `DeploymentSlots` or a
   stutter; that the trail of a reconciliation run is whole.
7. Left: that `PackFetch` implements the manager's `Fetch`, which is one step there.
