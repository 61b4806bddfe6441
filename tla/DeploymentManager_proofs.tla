----------------------- MODULE DeploymentManager_proofs -----------------------
(***************************************************************************)
(* Proofs about DeploymentManager for every set of ids, threads, packs and *)
(* every HISTORY_CAP: type correctness, durability of acknowledged         *)
(* mutations, contiguity of the version history, consistency of a slot's   *)
(* status with its runtime, and that the manager is the map of slots of    *)
(* DeploymentSlots.                                                        *)
(***************************************************************************)
EXTENDS DeploymentManager, SequenceTheorems, TLAPS

(***************************************************************************)
(* What a thread's place says of its request, and of the locals it has set.*)
(***************************************************************************)
ThreadInv ==
  \A t \in Threads :
    /\ pc[t] # "idle" => req[t] \in Requests /\ up
    /\ pc[t] \in {"resolve", "fetch", "load"} => req[t] \in Deploys \cup Upgrades
    /\ pc[t] = "fetch" => req[t].src.ref \in Contents
    /\ pc[t] = "load" => local[t] \in Paths

(***************************************************************************)
(* From Acquire to Return a mutation holds the write lock, and while an    *)
(* upgrade holds it the slot it found is still there.                      *)
(***************************************************************************)
Holding == {"resolve", "fetch", "load", "write", "rename", "return"}

LockInv ==
  \A t \in Threads :
    /\ pc[t] \in Holding => writer = t
    /\ pc[t] \in {"resolve", "fetch", "load"} =>
         ((req[t].op = "deploy") <=> (record[req[t].id] = None))

(***************************************************************************)
(* What persist_locked writes is what memory holds.                        *)
(***************************************************************************)
SaveInv ==
  \A t \in Threads :
    /\ pc[t] = "rename" => tmp = record
    /\ pc[t] = "return" => registry = record

Inv == TypeOK /\ ThreadInv /\ LockInv /\ SaveInv

USE ConstantsAssumption, NoneAssumption

-----------------------------------------------------------------------------
\* Two initial segments of the positive naturals are equal only if their
\* lengths are.
LEMMA IntervalLength ==
  ASSUME NEW m \in Nat, NEW k \in Nat, 1..m = 1..k
  PROVE  m = k
<1>1. \A i \in Nat : (1 <= i /\ i <= m) <=> (1 <= i /\ i <= k)
  <2>1. \A i \in Nat : (i \in 1..m) <=> (i \in 1..k)
    OBVIOUS
  <2> QED
    BY <2>1
<1>2. m <= k
  BY <1>1
<1>3. k <= m
  BY <1>1
<1> QED
  BY <1>2, <1>3

\* insert(0) and truncate(HISTORY_CAP) yield a history of versions: the new
\* one in front, the older ones behind it, as many as fit.
LEMMA PushHistoryProperties ==
  ASSUME NEW v \in Version, NEW h \in Seq(Version)
  PROVE  /\ PushHistory(v, h) \in Seq(Version)
         /\ Len(PushHistory(v, h)) =
              IF Len(h) < HistoryCap THEN Len(h) + 1 ELSE HistoryCap
         /\ \A i \in 1..Len(PushHistory(v, h)) :
              PushHistory(v, h)[i] = IF i = 1 THEN v ELSE h[i - 1]
<1> DEFINE n == IF Len(h) < HistoryCap THEN Len(h) + 1 ELSE HistoryCap
           f == [i \in 1..n |-> IF i = 1 THEN v ELSE h[i - 1]]
<1>1. n \in Nat
  OBVIOUS
<1>2. ASSUME NEW i \in 1..n
      PROVE  (IF i = 1 THEN v ELSE h[i - 1]) \in Version
  <2>1. CASE i = 1
    BY <2>1
  <2>2. CASE i # 1
    <3>1. i - 1 \in 1..Len(h)
      BY <1>1, <2>2
    <3> QED
      BY <2>2, <3>1
  <2> QED
    BY <2>1, <2>2
<1>3. f \in [1..n -> Version]
  BY <1>2
<1>4. f \in Seq(Version)
  <2> HIDE DEF n, f
  <2> QED
    BY <1>1, <1>3, SeqDef
<1>5. Len(f) = n
  <2>1. DOMAIN f = 1..Len(f) /\ Len(f) \in Nat
    BY <1>4, LenProperties
  <2>2. DOMAIN f = 1..n
    OBVIOUS
  <2> HIDE DEF n, f
  <2> QED
    BY <1>1, <2>1, <2>2, IntervalLength
<1>6. PushHistory(v, h) = f
  BY DEF PushHistory
<1> HIDE DEF n
<1>7. \A i \in 1..n : f[i] = IF i = 1 THEN v ELSE h[i - 1]
  OBVIOUS
<1> QED
  BY <1>4, <1>5, <1>6, <1>7 DEF n

-----------------------------------------------------------------------------
(***************************************************************************)
(* Each action preserves types, thread places and the lock discipline.     *)
(***************************************************************************)
\* A request that reaches an idle thread finds it holding nothing.
LEMMA ArriveInv ==
  ASSUME Inv, NEW t \in Threads, NEW r \in Requests, Arrive(t, r)
  PROVE  Inv'
<1> USE DEF Inv
<1>1. TypeOK'
  BY DEF TypeOK, Arrive, Goto, diskVars, slotVars, ghostVars, Phases
<1>2. ThreadInv'
  BY DEF TypeOK, ThreadInv, Arrive, Goto, diskVars, slotVars, ghostVars
<1>3. LockInv'
  BY DEF TypeOK, ThreadInv, LockInv, Holding, Arrive, Goto, diskVars, slotVars, ghostVars
<1>4. SaveInv'
  BY DEF TypeOK, SaveInv, Arrive, Goto, diskVars, slotVars
<1> QED
  BY <1>1, <1>2, <1>3, <1>4

\* A thread that answers and leaves the slots alone.
LEMMA AnswerInv ==
  ASSUME Inv, NEW t \in Threads, Answer(t), UNCHANGED <<up, slotVars, arrivals>>,
         fs' \in [Paths -> Contents \cup {None}],
         registry' \in Registry, tmp' \in Registry \cup {None},
         acked' \in Registry, attempts' \in [Ids -> SUBSET (Record \cup {None})],
         writer = t \/ UNCHANGED <<registry, tmp>>
  PROVE  Inv'
<1> USE DEF Inv
<1>1. TypeOK'
  BY DEF TypeOK, Answer, slotVars, Phases
<1>2. ThreadInv'
  BY DEF TypeOK, ThreadInv, Answer, slotVars
<1>3. LockInv'
  BY DEF TypeOK, ThreadInv, LockInv, Holding, Answer, slotVars
<1>4. SaveInv'
  BY DEF TypeOK, LockInv, Holding, SaveInv, Answer, slotVars
<1> QED
  BY <1>1, <1>2, <1>3, <1>4

\* deploy and upgrade take the lock only when the id is free, or taken.
LEMMA AcquireToInstallInv ==
  ASSUME Inv, NEW t \in Threads, AcquireToInstall(t)
  PROVE  Inv'
<1> USE DEF Inv
<1>1. TypeOK'
  BY DEF TypeOK, AcquireToInstall, Goto, diskVars, slotVars, ghostVars, Phases
<1>2. ThreadInv'
  BY DEF TypeOK, ThreadInv, AcquireToInstall, Goto, diskVars, slotVars, ghostVars,
         Requests, Deploys, Upgrades, Removals, Runs
<1>3. LockInv'
  BY DEF TypeOK, ThreadInv, LockInv, Holding, AcquireToInstall, Goto, diskVars, slotVars, ghostVars
<1>4. SaveInv'
  BY DEF TypeOK, SaveInv, AcquireToInstall, Goto, diskVars, slotVars
<1> QED
  BY <1>1, <1>2, <1>3, <1>4


\* remove takes the lock and empties the slot in one step.
LEMMA AcquireToRemoveInv ==
  ASSUME Inv, NEW t \in Threads, AcquireToRemove(t)
  PROVE  Inv'
<1> USE DEF Inv
<1>0. req[t].id \in Ids
  BY DEF TypeOK, ThreadInv, AcquireToRemove, Requests, Deploys, Upgrades, Removals, Runs
<1>1. TypeOK'
  BY <1>0 DEF TypeOK, AcquireToRemove, Attempt, Goto, diskVars, slotVars, Phases, Registry
<1>2. ThreadInv'
  BY DEF TypeOK, ThreadInv, AcquireToRemove, Goto, diskVars
<1>3. LockInv'
  BY DEF TypeOK, ThreadInv, LockInv, Holding, AcquireToRemove, Goto, diskVars
<1>4. SaveInv'
  BY DEF TypeOK, LockInv, Holding, SaveInv, AcquireToRemove, Goto, diskVars
<1> QED
  BY <1>1, <1>2, <1>3, <1>4
\* resolve_effective_path yields a path of the disk.
LEMMA ResolvePathInv ==
  ASSUME Inv, NEW t \in Threads, ResolvePath(t)
  PROVE  Inv'
<1> USE DEF Inv
<1>0. req[t].src.path \in Paths
  BY DEF TypeOK, ThreadInv, ResolvePath, Deploys, Upgrades
<1>1. TypeOK'
  BY <1>0 DEF TypeOK, ResolvePath, Goto, diskVars, slotVars, ghostVars, Phases
<1>2. ThreadInv'
  BY <1>0 DEF TypeOK, ThreadInv, ResolvePath, Goto, diskVars, slotVars, ghostVars
<1>3. LockInv'
  BY DEF TypeOK, LockInv, Holding, ResolvePath, Goto, slotVars
<1>4. SaveInv'
  BY DEF TypeOK, SaveInv, ResolvePath, Goto, diskVars, slotVars
<1> QED
  BY <1>1, <1>2, <1>3, <1>4

\* resolve_effective_path turns to the fetcher only for a reference.
LEMMA ResolveReferenceInv ==
  ASSUME Inv, NEW t \in Threads, ResolveReference(t)
  PROVE  Inv'
<1> USE DEF Inv
<1>0. req[t].src.ref \in Contents
  BY DEF TypeOK, ThreadInv, ResolveReference, Deploys, Upgrades
<1>1. TypeOK'
  BY DEF TypeOK, ResolveReference, Goto, diskVars, slotVars, ghostVars, Phases
<1>2. ThreadInv'
  BY <1>0 DEF TypeOK, ThreadInv, ResolveReference, Goto
<1>3. LockInv'
  BY DEF TypeOK, LockInv, Holding, ResolveReference, Goto, slotVars
<1>4. SaveInv'
  BY DEF TypeOK, SaveInv, ResolveReference, Goto, diskVars, slotVars
<1> QED
  BY <1>1, <1>2, <1>3, <1>4

\* write_to_cache yields the path of a cache file.
LEMMA FetchInv ==
  ASSUME Inv, NEW t \in Threads, Fetch(t)
  PROVE  Inv'
<1> USE DEF Inv
<1>0. req[t].src.ref \in Contents /\ CachePath[req[t].src.ref] \in Paths
  BY DEF TypeOK, ThreadInv, Fetch
<1>1. TypeOK'
  BY <1>0 DEF TypeOK, Fetch, Goto, slotVars, ghostVars, Phases
<1>2. ThreadInv'
  BY <1>0 DEF TypeOK, ThreadInv, Fetch, Goto
<1>3. LockInv'
  BY DEF TypeOK, LockInv, Holding, Fetch, Goto, slotVars
<1>4. SaveInv'
  BY DEF TypeOK, SaveInv, Fetch, Goto, slotVars
<1> QED
  BY <1>1, <1>2, <1>3, <1>4

\* What Install makes of the slot is a record, and not the absent value.
LEMMA InstalledRecord ==
  ASSUME TypeOK, ThreadInv, LockInv, NEW t \in Threads, Install(t)
  PROVE  /\ req[t].id \in Ids
         /\ fs[local[t]] \in Contents
         /\ record'[req[t].id] \in Record
<1> DEFINE id == req[t].id
           rec == record[id]
           V(n) == [version |-> n, path |-> local[t], digest |-> fs[local[t]]]
<1>1. pc[t] = "load" /\ local[t] \in Paths /\ fs[local[t]] \in Contents
  BY DEF Install, Loads, ThreadInv
<1>2. id \in Ids /\ req[t] \in Deploys \cup Upgrades
  BY <1>1 DEF ThreadInv, Deploys, Upgrades
<1>3. \A n \in Nat \ {0} : V(n) \in Version
  BY <1>1 DEF Version
<1>4. CASE req[t].op = "deploy"
  <2>1. record'[id] = NewRecord(req[t], V(1))
    BY <1>2, <1>4 DEF TypeOK, Registry, Install, Attempt
  <2>2. req[t] \in Deploys
    BY <1>2, <1>4 DEF Upgrades
  <2>3. NewRecord(req[t], V(1)) \in Record
    <3>1. V(1) \in Version
      BY <1>3
    <3>2. << >> \in Seq(Version)
      OBVIOUS
    <3> HIDE DEF V
    <3> QED
      BY <2>2, <3>1, <3>2 DEF NewRecord, Deploys, Record
  <2> QED
    BY <1>1, <1>2, <2>1, <2>3
<1>5. CASE req[t].op # "deploy"
  <2>1. record'[id] = Upgraded(rec, V(NextVersion(rec)))
    BY <1>2, <1>5 DEF TypeOK, Registry, Install, Attempt
  <2>2. rec \in Record
    BY <1>1, <1>2, <1>5 DEF TypeOK, LockInv, Registry
  <2>3. NextVersion(rec) \in Nat \ {0}
    BY <2>2 DEF NextVersion, Record, Version
  <2>4. PushHistory(rec.active, rec.history) \in Seq(Version)
    BY <2>2, PushHistoryProperties DEF Record
  <2>5. V(NextVersion(rec)) \in Version
    BY <1>3, <2>3
  <2>6. Upgraded(rec, V(NextVersion(rec))) \in Record
    <3> HIDE DEF V, rec
    <3> QED
      BY <2>2, <2>4, <2>5 DEF Upgraded, Record
  <2> QED
    BY <1>1, <1>2, <2>1, <2>6
<1> QED
  BY <1>4, <1>5

\* Creating or swapping a slot under the lock.
LEMMA InstallInv ==
  ASSUME Inv, NEW t \in Threads, Install(t)
  PROVE  Inv'
<1> USE DEF Inv
<1>0. /\ req[t].id \in Ids
      /\ fs[local[t]] \in Contents
      /\ record'[req[t].id] \in Record
  BY InstalledRecord
<1>1. TypeOK'
  <2>1. record' \in Registry /\ attempts' \in [Ids -> SUBSET (Record \cup {None})]
    BY <1>0 DEF TypeOK, Registry, Install, Attempt
  <2> QED
    BY <1>0, <2>1 DEF TypeOK, Install, Goto, diskVars, Phases
<1>2. ThreadInv'
  BY DEF TypeOK, ThreadInv, Install, Goto, diskVars
<1>3. LockInv'
  BY DEF TypeOK, LockInv, Holding, Install, Goto, diskVars
<1>4. SaveInv'
  BY DEF TypeOK, LockInv, Holding, SaveInv, Install, Goto, diskVars
<1> QED
  BY <1>1, <1>2, <1>3, <1>4

\* persist_locked saves the map that memory holds, as nobody else writes.
LEMMA PersistInv ==
  ASSUME Inv, NEW t \in Threads, WriteTmp(t) \/ Rename(t)
  PROVE  Inv'
<1> USE DEF Inv
<1>1. CASE WriteTmp(t)
  <2>1. TypeOK'
    BY <1>1 DEF TypeOK, WriteTmp, Goto, slotVars, ghostVars, Phases
  <2>2. ThreadInv'
    BY <1>1 DEF TypeOK, ThreadInv, WriteTmp, Goto, slotVars, ghostVars
  <2>3. LockInv'
    BY <1>1 DEF TypeOK, LockInv, Holding, WriteTmp, Goto, slotVars
  <2>4. SaveInv'
    BY <1>1 DEF TypeOK, LockInv, Holding, SaveInv, WriteTmp, Goto, slotVars
  <2> QED
    BY <2>1, <2>2, <2>3, <2>4
<1>2. CASE Rename(t)
  <2>0. tmp \in Registry
    BY <1>2 DEF TypeOK, SaveInv, Rename
  <2>1. TypeOK'
    BY <1>2, <2>0 DEF TypeOK, Rename, Goto, slotVars, ghostVars, Phases
  <2>2. ThreadInv'
    BY <1>2 DEF TypeOK, ThreadInv, Rename, Goto, slotVars, ghostVars
  <2>3. LockInv'
    BY <1>2 DEF TypeOK, LockInv, Holding, Rename, Goto, slotVars
  <2>4. SaveInv'
    BY <1>2 DEF TypeOK, LockInv, Holding, SaveInv, Rename, Goto, slotVars
  <2> QED
    BY <2>1, <2>2, <2>3, <2>4
<1> QED
  BY <1>1, <1>2

\* The read lock changes nothing: run_as only copies the slot.
LEMMA SnapshotInv ==
  ASSUME Inv, NEW t \in Threads, TakeSnapshot(t)
  PROVE  Inv'
<1> USE DEF Inv
<1>0. req[t].id \in Ids
  BY DEF TypeOK, ThreadInv, TakeSnapshot, Requests, Deploys, Upgrades, Removals, Runs
<1>1. local'[t] \in Snapshot
  <2>1. /\ local'[t] = [pack |-> runtime[req[t].id],
                        tenant |-> record[req[t].id].tenant,
                        version |-> record[req[t].id].active.version]
        /\ runtime[req[t].id] \in Contents
        /\ record[req[t].id] \in Record
    BY <1>0 DEF TypeOK, TakeSnapshot, Runnable, Registry
  <2> QED
    BY <2>1 DEF Snapshot, Record, Version
<1>2. TypeOK'
  BY <1>1 DEF TypeOK, TakeSnapshot, Goto, diskVars, slotVars, ghostVars, Phases
<1>3. ThreadInv'
  BY DEF TypeOK, ThreadInv, TakeSnapshot, Goto, diskVars, slotVars, ghostVars
<1>4. LockInv'
  BY DEF TypeOK, LockInv, Holding, TakeSnapshot, Goto, slotVars
<1>5. SaveInv'
  BY DEF TypeOK, SaveInv, TakeSnapshot, Goto, diskVars, slotVars
<1> QED
  BY <1>2, <1>3, <1>4, <1>5

\* Discovery moves the thread on and changes nothing else.
LEMMA DiscoverInv ==
  ASSUME Inv, NEW t \in Threads, Discover(t)
  PROVE  Inv'
<1> USE DEF Inv
<1>1. TypeOK'
  BY DEF TypeOK, Discover, Goto, diskVars, slotVars, ghostVars, Phases
<1>2. ThreadInv'
  BY DEF TypeOK, ThreadInv, Discover, Goto
<1>3. LockInv'
  BY DEF TypeOK, LockInv, Holding, Discover, Goto, slotVars
<1>4. SaveInv'
  BY DEF TypeOK, SaveInv, Discover, Goto, diskVars, slotVars
<1> QED
  BY <1>1, <1>2, <1>3, <1>4

\* Every way a handler ends without touching a slot.
LEMMA EndInv ==
  ASSUME Inv, NEW t \in Threads,
         \/ RefuseId(t) \/ ResolveNothing(t) \/ FetchFails(t) \/ LoadFails(t)
         \/ PersistFails(t) \/ Return(t)
         \/ RefuseRun(t) \/ Undiscovered(t) \/ FinishRun(t)
  PROVE  Inv'
<1> USE DEF Inv
<1>1. CASE RefuseId(t) \/ ResolveNothing(t) \/ LoadFails(t)
           \/ RefuseRun(t) \/ Undiscovered(t) \/ FinishRun(t)
  <2>1. Answer(t) /\ UNCHANGED <<diskVars, up, slotVars, ghostVars, arrivals>>
    BY <1>1 DEF RefuseId, ResolveNothing, LoadFails, RefuseRun, Undiscovered,
                FinishRun
  <2> QED
    BY <2>1, AnswerInv DEF TypeOK, diskVars, ghostVars
<1>2. CASE FetchFails(t)
  <2>1. CachePath[req[t].src.ref] \in Paths
    BY <1>2 DEF ThreadInv, FetchFails
  <2>2. fs' \in [Paths -> Contents \cup {None}]
    BY <1>2, <2>1 DEF TypeOK, FetchFails
  <2> QED
    BY <1>2, <2>2, AnswerInv DEF TypeOK, FetchFails, ghostVars
<1>3. CASE PersistFails(t)
  <2>1. writer = t
    BY <1>3 DEF LockInv, Holding, PersistFails
  <2> QED
    BY <1>3, <2>1, AnswerInv DEF TypeOK, PersistFails, ghostVars
<1>4. CASE Return(t)
  <2>1. req[t].id \in Ids
    BY <1>4 DEF ThreadInv, Return, Requests, Deploys, Upgrades, Removals, Runs
  <2>2. acked' \in Registry /\ attempts' \in [Ids -> SUBSET (Record \cup {None})]
    BY <1>4, <2>1 DEF TypeOK, Return, Registry
  <2> QED
    BY <1>4, <2>2, AnswerInv DEF TypeOK, Return, diskVars
<1> QED
  BY <1>1, <1>2, <1>3, <1>4

\* DeploymentManager::load starts from idle threads and a free lock.
LEMMA BootInv ==
  ASSUME Inv, Boot
  PROVE  Inv'
<1> USE DEF Inv, Boot, BootFrom
<1>1. \A t \in Threads : pc[t] = "idle"
  BY DEF ThreadInv
<1>2. \A i \in Ids : registry[i] # None => registry[i].active.path \in Paths
  BY DEF TypeOK, Registry, Record, Version
<1>3. runtime' \in [Ids -> Contents \cup {None}]
  BY <1>2 DEF TypeOK, Loads
<1>4. TypeOK'
  BY <1>3 DEF TypeOK, diskVars, threadVars, ghostVars
<1>5. ThreadInv'
  BY <1>1 DEF ThreadInv, threadVars
<1>6. LockInv'
  BY <1>1 DEF LockInv, Holding, threadVars
<1>7. SaveInv'
  BY <1>1 DEF SaveInv, threadVars
<1> QED
  BY <1>4, <1>5, <1>6, <1>7

\* A killed daemon leaves the disk and no thread.
LEMMA CrashInv ==
  ASSUME Inv, Crash
  PROVE  Inv'
<1> USE DEF Inv
<1>1. \A t \in Threads : pc'[t] = "idle"
  BY DEF Crash
<1>2. fs' \in [Paths -> Contents \cup {None}]
  <2>1. CASE fs' = fs
    BY <2>1 DEF TypeOK
  <2>2. CASE fs' # fs
    <3>1. PICK t \in Threads, torn \in Contents \ Loadable :
            /\ pc[t] = "fetch"
            /\ fs' = [fs EXCEPT ![CachePath[req[t].src.ref]] = torn]
      BY <2>2 DEF Crash
    <3>2. CachePath[req[t].src.ref] \in Paths
      BY <3>1 DEF ThreadInv
    <3> QED
      BY <3>1, <3>2 DEF TypeOK
  <2> QED
    BY <2>1, <2>2
<1>3. tmp' \in Registry \cup {None}
  BY DEF TypeOK, Crash
<1>4. TypeOK'
  <2>1. Nothing \in Registry
    BY DEF Nothing, Registry
  <2>2. Nothing \in [Ids -> Contents \cup {None}]
    BY DEF Nothing
  <2> HIDE DEF Inv
  <2>3. TypeOK
    BY DEF Inv
  <2> QED
    BY <1>2, <1>3, <2>1, <2>2, <2>3 DEF TypeOK, Crash, Phases, ghostVars
<1>5. ThreadInv'
  BY <1>1 DEF ThreadInv
<1>6. LockInv'
  BY <1>1 DEF LockInv, Holding
<1>7. SaveInv'
  BY <1>1 DEF SaveInv
<1> QED
  BY <1>4, <1>5, <1>6, <1>7

\* A caller's pack changes on the disk only.
LEMMA ReplacePackInv ==
  ASSUME Inv, NEW p \in Paths, NEW c \in Contents \cup {None}, ReplacePack(p, c)
  PROVE  Inv'
<1> USE DEF Inv
<1>1. TypeOK'
  BY DEF TypeOK, ReplacePack, slotVars, threadVars, ghostVars
<1>2. ThreadInv'
  BY DEF ThreadInv, ReplacePack, threadVars
<1>3. LockInv'
  BY DEF LockInv, Holding, ReplacePack, slotVars, threadVars
<1>4. SaveInv'
  BY DEF SaveInv, ReplacePack, slotVars, threadVars
<1> QED
  BY <1>1, <1>2, <1>3, <1>4

-----------------------------------------------------------------------------
(***************************************************************************)
(* The inductive invariant, and type correctness.                          *)
(***************************************************************************)

\* Every step of the daemon, its clients and its disk preserves Inv.
LEMMA InvInductive ==
  ASSUME Inv, [Next]_vars
  PROVE  Inv'
<1>1. CASE UNCHANGED vars
  BY <1>1 DEF Inv, TypeOK, ThreadInv, LockInv, Holding, SaveInv, vars,
              diskVars, slotVars, threadVars, ghostVars
<1>2. ASSUME NEW t \in Threads, NEW r \in Requests, Arrive(t, r)
      PROVE  Inv'
  BY <1>2, ArriveInv
<1>3. ASSUME NEW t \in Threads, Mutation(t)
      PROVE  Inv'
  BY <1>3, AcquireToInstallInv, AcquireToRemoveInv, ResolvePathInv,
     ResolveReferenceInv, InstallInv, PersistInv, EndInv DEF Mutation
<1>4. ASSUME NEW t \in Threads, Download(t)
      PROVE  Inv'
  BY <1>4, FetchInv, EndInv DEF Download
<1>5. ASSUME NEW t \in Threads, Run(t)
      PROVE  Inv'
  BY <1>5, SnapshotInv, DiscoverInv, EndInv DEF Run, BeginRun
<1>6. CASE Boot \/ Crash
  BY <1>6, BootInv, CrashInv
<1>7. ASSUME NEW p \in Paths, NEW c \in Contents \cup {None}, ReplacePack(p, c)
      PROVE  Inv'
  BY <1>7, ReplacePackInv
<1> QED
  BY <1>1, <1>2, <1>3, <1>4, <1>5, <1>6, <1>7 DEF Next

\* The daemon starts with no thread at work.
LEMMA InvInitially ==
  ASSUME Init
  PROVE  Inv
<1>1. TypeOK
  BY DEF Init, TypeOK, Nothing, Registry, Phases
<1>2. ThreadInv /\ LockInv /\ SaveInv
  BY DEF Init, ThreadInv, LockInv, Holding, SaveInv
<1> QED
  BY <1>1, <1>2 DEF Inv

\* Inv holds in every state of every behaviour.
LEMMA Invariance == Spec => []Inv
<1>1. Init => Inv
  BY InvInitially
<1>2. Inv /\ [Next]_vars => Inv'
  BY InvInductive
<1> QED
  BY <1>1, <1>2, PTL DEF Spec

\* Every variable keeps its type: in particular the file that a save renames
\* over the registry is a whole registry, never a torn one.
THEOREM TypeCorrect == Spec => []TypeOK
<1>1. Inv => TypeOK
  BY DEF Inv
<1> QED
  BY <1>1, Invariance, PTL

-----------------------------------------------------------------------------
(***************************************************************************)
(* Durability.  AckedIsDurable speaks of the registry file only; a save    *)
(* replaces the file with the map, so it is inductive together with the    *)
(* same statement about the slots of a running daemon.                     *)
(***************************************************************************)
Known(id) == {acked[id]} \cup attempts[id]

MemoryInv == up => \A id \in Ids : record[id] \in Known(id)

DurableInv == AckedIsDurable /\ MemoryInv

\* Every step either leaves the records of memory, of the file and of the
\* acknowledgements alone, or is one of seven.
LEMMA RecordSteps ==
  ASSUME Inv, [Next]_vars
  PROVE  \/ UNCHANGED <<up, registry, record, ghostVars>>
         \/ \E t \in Threads : AcquireToRemove(t)
         \/ \E t \in Threads : Install(t)
         \/ \E t \in Threads : Rename(t)
         \/ \E t \in Threads : Return(t)
         \/ Boot
         \/ Crash
<1>1. CASE UNCHANGED vars
  BY <1>1 DEF vars, diskVars, slotVars, ghostVars
<1>2. ASSUME NEW t \in Threads,
             \/ \E r \in Requests : Arrive(t, r)
             \/ Download(t)
             \/ Run(t)
      PROVE  UNCHANGED <<up, registry, record, ghostVars>>
  BY <1>2 DEF Arrive, Download, Fetch, FetchFails, Run, BeginRun, TakeSnapshot, RefuseRun,
              Discover, Undiscovered, FinishRun, diskVars, slotVars, ghostVars
<1>3. ASSUME NEW t \in Threads, Mutation(t)
      PROVE  \/ UNCHANGED <<up, registry, record, ghostVars>>
             \/ AcquireToRemove(t) \/ Install(t) \/ Rename(t) \/ Return(t)
  BY <1>3 DEF Mutation, AcquireToInstall, RefuseId, ResolvePath, ResolveReference,
              ResolveNothing, LoadFails, WriteTmp, PersistFails, diskVars,
              slotVars, ghostVars
<1>4. ASSUME NEW p \in Paths, NEW c \in Contents \cup {None}, ReplacePack(p, c)
      PROVE  UNCHANGED <<up, registry, record, ghostVars>>
  BY <1>4 DEF ReplacePack, slotVars, ghostVars
<1> QED
  BY <1>1, <1>2, <1>3, <1>4 DEF Next

\* The two steps that change a slot enter what they make of it in attempts.
LEMMA AttemptStep ==
  ASSUME Inv, NEW t \in Threads, AcquireToRemove(t) \/ Install(t)
  PROVE  LET id == req[t].id IN
         /\ up /\ up' /\ id \in Ids
         /\ attempts' = [attempts EXCEPT ![id] = @ \cup {record'[id]}]
         /\ \A i \in Ids : i # id => record'[i] = record[i]
         /\ UNCHANGED <<registry, acked>>
<1>1. req[t].id \in Ids /\ up
  BY DEF Inv, ThreadInv, AcquireToRemove, Install, Requests, Deploys, Upgrades,
         Removals, Runs
<1>2. CASE AcquireToRemove(t)
  BY <1>1, <1>2 DEF Inv, TypeOK, Registry, AcquireToRemove, Attempt, diskVars
<1>3. CASE Install(t)
  BY <1>1, <1>3 DEF Inv, TypeOK, Registry, Install, Attempt, diskVars
<1> QED
  BY <1>2, <1>3

\* A mutation enters its record in attempts before a save can write it, and
\* an acknowledgement follows a save of the very map it acknowledges.
LEMMA DurableInductive ==
  ASSUME Inv, DurableInv, [Next]_vars
  PROVE  DurableInv'
<1> USE DEF DurableInv, AckedIsDurable, MemoryInv, Known
<1>1. CASE UNCHANGED <<up, registry, record, ghostVars>>
  BY <1>1 DEF ghostVars
<1>2. ASSUME NEW t \in Threads, AcquireToRemove(t) \/ Install(t)
      PROVE  DurableInv'
  <2>1. PICK id \in Ids : /\ id = req[t].id
                          /\ up
                          /\ attempts' = [attempts EXCEPT ![id] = @ \cup {record'[id]}]
                          /\ \A i \in Ids : i # id => record'[i] = record[i]
                          /\ UNCHANGED <<registry, acked>>
    BY <1>2, AttemptStep
  <2> QED
    BY <2>1 DEF Inv, TypeOK
<1>3. ASSUME NEW t \in Threads, Rename(t)
      PROVE  DurableInv'
  BY <1>3 DEF Inv, ThreadInv, SaveInv, Rename, slotVars, ghostVars
<1>4. ASSUME NEW t \in Threads, Return(t)
      PROVE  DurableInv'
  <2>1. registry = record /\ UNCHANGED <<registry, record>>
    BY <1>4 DEF Inv, SaveInv, Return, diskVars, slotVars
  <2>2. /\ up /\ up'
        /\ \A i \in Ids : i # req[t].id =>
             acked'[i] = acked[i] /\ attempts'[i] = attempts[i]
    BY <1>4 DEF Inv, TypeOK, ThreadInv, Return
  <2>3. req[t].id \in Ids => acked'[req[t].id] = record[req[t].id]
    BY <1>4 DEF Inv, TypeOK, Registry, Return
  <2> QED
    BY <2>1, <2>2, <2>3
<1>5. CASE Boot
  BY <1>5 DEF Boot, BootFrom, diskVars, ghostVars
<1>6. CASE Crash
  BY <1>6 DEF Crash, ghostVars
<1> QED
  BY <1>1, <1>2, <1>3, <1>4, <1>5, <1>6, RecordSteps

\* No crash, failed save or restart loses a mutation that was acknowledged.
THEOREM Durability == Spec => []AckedIsDurable
<1>1. Init => DurableInv
  BY DEF Init, Nothing, DurableInv, AckedIsDurable, MemoryInv
<1>2. Inv /\ DurableInv /\ [Next]_vars => DurableInv'
  BY DurableInductive
<1>3. DurableInv => AckedIsDurable
  BY DEF DurableInv
<1> QED
  BY <1>1, <1>2, <1>3, Invariance, PTL DEF Spec

-----------------------------------------------------------------------------
(***************************************************************************)
(* Versions.  Beyond the last acknowledged record, memory and file hold    *)
(* only records with greater versions, unless the id was removed.          *)
(***************************************************************************)
AttemptsInv ==
  \A id \in Ids : None \notin Known(id) =>
    \A rec \in attempts[id] : rec.active.version > acked[id].active.version

\* upgrade numbers a version from the record in memory, which is the last
\* acknowledged one or a later attempt.
LEMMA AttemptsInductive ==
  ASSUME Inv, DurableInv, AttemptsInv, [Next]_vars
  PROVE  AttemptsInv'
<1> USE DEF AttemptsInv, Known
<1>1. CASE UNCHANGED <<up, registry, record, ghostVars>>
  BY <1>1 DEF ghostVars
<1>2. ASSUME NEW t \in Threads, AcquireToRemove(t)
      PROVE  AttemptsInv'
  <2>1. record'[req[t].id] = None
    BY <1>2, AttemptStep DEF Inv, TypeOK, Registry, AcquireToRemove, Attempt
  <2> QED
    BY <1>2, <2>1, AttemptStep DEF Inv, TypeOK
<1>3. ASSUME NEW t \in Threads, Install(t)
      PROVE  AttemptsInv'
  <2> DEFINE id == req[t].id
             rec == record[id]
  <2>1. /\ up /\ id \in Ids
        /\ attempts' = [attempts EXCEPT ![id] = @ \cup {record'[id]}]
        /\ UNCHANGED acked
    BY <1>3, AttemptStep
  <2>2. rec \in {acked[id]} \cup attempts[id]
    BY <2>1 DEF DurableInv, MemoryInv
  <2>3. CASE rec = None
    BY <2>1, <2>2, <2>3 DEF Inv, TypeOK
  <2>4. CASE rec # None
    <3>1. rec \in Record /\ rec.active.version \in Nat
      <4>1. rec \in Record
        BY <2>1, <2>4 DEF Inv, TypeOK, Registry
      <4> QED
        BY <4>1 DEF Record, Version
    <3>2. req[t].op # "deploy"
      BY <1>3, <2>4 DEF Inv, LockInv, Install
    <3>3. record'[id].active.version = rec.active.version + 1
      BY <1>3, <2>1, <3>1, <3>2 DEF Inv, TypeOK, Registry, Install, Attempt,
         Upgraded, NextVersion, Record
    <3>4. ASSUME None \notin {acked[id]} \cup attempts[id]
          PROVE  record'[id].active.version > acked[id].active.version
      <4>1. acked[id].active.version \in Nat
        BY <2>1, <3>4 DEF Inv, TypeOK, Registry, Record, Version
      <4>2. rec.active.version >= acked[id].active.version
        BY <2>1, <2>2, <3>1, <3>4, <4>1
      <4> QED
        BY <3>1, <3>3, <4>1, <4>2
    <3> QED
      BY <2>1, <3>4 DEF Inv, TypeOK
  <2> QED
    BY <2>3, <2>4
<1>4. ASSUME NEW t \in Threads, Return(t)
      PROVE  AttemptsInv'
  BY <1>4 DEF Inv, TypeOK, Return
<1>5. ASSUME NEW t \in Threads, Rename(t)
      PROVE  AttemptsInv'
  BY <1>5 DEF Rename, ghostVars
<1>6. CASE Boot \/ Crash
  BY <1>6 DEF Boot, BootFrom, Crash, ghostVars
<1> QED
  BY <1>1, <1>2, <1>3, <1>4, <1>5, <1>6, RecordSteps

\* No version number is acknowledged twice for an id that is not removed, and
\* none lower than an earlier one.
THEOREM VersionsIncrease == Spec => AckedVersionsIncrease
<1> DEFINE Increases(id) ==
      /\ acked'[id] # acked[id]
      /\ None \notin {acked[id], acked'[id]} \cup attempts[id]
      => acked'[id].active.version > acked[id].active.version
<1>1. Init => AttemptsInv /\ DurableInv
  BY DEF Init, Nothing, AttemptsInv, DurableInv, AckedIsDurable, MemoryInv, Known
<1>2. Inv /\ DurableInv /\ AttemptsInv /\ [Next]_vars
        => DurableInv' /\ AttemptsInv'
  BY DurableInductive, AttemptsInductive
<1>3. ASSUME Inv, DurableInv, AttemptsInv, [Next]_vars, NEW id \in Ids
      PROVE  Increases(id)
  <2>1. CASE acked'[id] = acked[id]
    BY <2>1
  <2>2. ASSUME NEW t \in Threads, Return(t)
        PROVE  Increases(id)
    <3>1. acked'[id] \in {acked[id], record[id]} /\ up
      BY <1>3, <2>2 DEF Inv, TypeOK, ThreadInv, Return
    <3> QED
      BY <1>3, <3>1 DEF DurableInv, MemoryInv, AttemptsInv, Known
  <2>3. ASSUME NEW t \in Threads, AcquireToRemove(t) \/ Install(t)
        PROVE  acked' = acked
    BY <1>3, <2>3, AttemptStep
  <2> QED
    BY <1>3, <2>1, <2>2, <2>3, RecordSteps
    DEF Rename, Boot, BootFrom, Crash, ghostVars
<1>4. Inv /\ DurableInv /\ AttemptsInv /\ [Next]_vars
        => [\A id \in Ids : Increases(id)]_vars
  BY <1>3
<1> HIDE DEF Increases
<1>5. Spec => [][\A id \in Ids : Increases(id)]_vars
  BY <1>1, <1>2, <1>4, Invariance, PTL DEF Spec
<1> QED
  BY <1>5 DEF AckedVersionsIncrease, Increases

\* No run starts on a version older than the last acknowledged upgrade of its
\* deployment, whatever crashes and failed saves came between.
THEOREM RunsAreCurrent == Spec => NoStaleRuns
<1> DEFINE Current(t) ==
      pc[t] = "lock" /\ pc'[t] \in {"discover", "run"} =>
        LET id == req[t].id IN
        None \notin {acked[id]} \cup attempts[id] =>
          local'[t].version >= acked[id].active.version
<1>1. Init => AttemptsInv /\ DurableInv
  BY DEF Init, Nothing, AttemptsInv, DurableInv, AckedIsDurable, MemoryInv, Known
<1>2. Inv /\ DurableInv /\ AttemptsInv /\ [Next]_vars
        => DurableInv' /\ AttemptsInv'
  BY DurableInductive, AttemptsInductive
<1>3. ASSUME Inv, DurableInv, AttemptsInv, NEW t \in Threads, TakeSnapshot(t)
      PROVE  Current(t)
  <2> DEFINE id == req[t].id
  <2>1. up /\ id \in Ids
    BY <1>3 DEF Inv, ThreadInv, TakeSnapshot, Requests, Deploys, Upgrades,
                Removals, Runs
  <2>2. local'[t].version = record[id].active.version
    BY <1>3 DEF Inv, TypeOK, TakeSnapshot
  <2>3. record[id] \in {acked[id]} \cup attempts[id]
    BY <1>3, <2>1 DEF DurableInv, MemoryInv, Known
  <2>4. ASSUME None \notin {acked[id]} \cup attempts[id]
        PROVE  record[id].active.version >= acked[id].active.version
    <3>1. /\ acked[id].active.version \in Nat
          /\ record[id].active.version \in Nat
      BY <1>3, <2>1, <2>3, <2>4 DEF Inv, TypeOK, Registry, Record, Version
    <3>2. \/ record[id] = acked[id]
          \/ record[id].active.version > acked[id].active.version
      BY <1>3, <2>1, <2>3, <2>4 DEF AttemptsInv, Known
    <3> QED
      BY <3>1, <3>2
  <2> QED
    BY <2>2, <2>4
<1>4. ASSUME Inv, [Next]_vars, NEW t \in Threads,
             pc[t] = "lock", pc'[t] \in {"discover", "run"}
      PROVE  TakeSnapshot(t)
  <2>1. pc # pc' /\ pc \in [Threads -> Phases]
    BY <1>4 DEF Inv, TypeOK
  <2>2. ASSUME NEW u \in Threads,
               \/ \E r \in Requests : Arrive(u, r)
               \/ Mutation(u) \/ Download(u) \/ RefuseRun(u) \/ Discover(u)
               \/ Undiscovered(u) \/ FinishRun(u)
        PROVE  FALSE
    BY <1>4, <2>1, <2>2
    DEF Arrive, Mutation, AcquireToInstall, AcquireToRemove, RefuseId, ResolvePath,
        ResolveReference, ResolveNothing, LoadFails, Install, WriteTmp, Rename,
        PersistFails, Return, Download, Fetch, FetchFails, RefuseRun, Discover,
        Undiscovered, FinishRun, Goto, Answer
  <2>3. ASSUME NEW u \in Threads, TakeSnapshot(u)
        PROVE  TakeSnapshot(t)
    BY <1>4, <2>1, <2>3 DEF TakeSnapshot, Goto
  <2>4. ~ Boot /\ ~ Crash /\ ~ UNCHANGED vars
    BY <1>4, <2>1 DEF Boot, BootFrom, Crash, vars, threadVars
  <2>5. \A p \in Paths, c \in Contents \cup {None} : ~ ReplacePack(p, c)
    BY <2>1 DEF ReplacePack, threadVars
  <2> QED
    BY <1>4, <2>2, <2>3, <2>4, <2>5 DEF Next, Run, BeginRun
<1>5. Inv /\ DurableInv /\ AttemptsInv /\ [Next]_vars
        => [\A t \in Threads : Current(t)]_vars
  BY <1>3, <1>4
<1> HIDE DEF Current
<1>6. Spec => [][\A t \in Threads : Current(t)]_vars
  BY <1>1, <1>2, <1>5, Invariance, PTL DEF Spec
<1> QED
  BY <1>6 DEF NoStaleRuns, Current

-----------------------------------------------------------------------------
(***************************************************************************)
(* History.  What a save writes is what memory holds, so the statement     *)
(* about the file follows that about the slots.                            *)
(***************************************************************************)

\* upgrade keeps a contiguous history contiguous, and deploy starts one.
LEMMA HistoryStep ==
  ASSUME Inv, HistoryIsContiguous, NEW t \in Threads, Install(t)
  PROVE  HistoryFollows(record'[req[t].id])
<1> DEFINE id == req[t].id
           V(n) == [version |-> n, path |-> local[t], digest |-> fs[local[t]]]
<1>1. id \in Ids
  BY InstalledRecord DEF Inv
<1>2. CASE req[t].op = "deploy"
  <2>1. record'[id] = NewRecord(req[t], V(1))
    BY <1>1, <1>2 DEF Inv, TypeOK, Registry, Install, Attempt
  <2>2. NewRecord(req[t], V(1)).active.version = 1
        /\ NewRecord(req[t], V(1)).history = << >>
    BY DEF NewRecord
  <2> QED
    BY <2>1, <2>2 DEF HistoryFollows
<1>3. CASE req[t].op # "deploy"
  <2> DEFINE rec == record[id]
             new == Upgraded(rec, V(NextVersion(rec)))
  <2>1. record'[id] = new
    BY <1>1, <1>3 DEF Inv, TypeOK, Registry, Install, Attempt
  <2>2. rec \in Record
    BY <1>1, <1>3 DEF Inv, TypeOK, LockInv, Registry, Install
  <2>3. /\ rec.active \in Version /\ rec.active.version \in Nat \ {0}
        /\ rec.history \in Seq(Version)
    BY <2>2 DEF Record, Version
  <2>4. /\ new.active.version = rec.active.version + 1
        /\ new.history = PushHistory(rec.active, rec.history)
    BY <2>2 DEF Upgraded, NextVersion, Record
  <2>5. HistoryFollows(rec) /\ rec # None
    BY <1>1, <2>2 DEF HistoryIsContiguous
  <2>6. HistoryFollows(new)
    <3> DEFINE h == rec.history
               p == PushHistory(rec.active, h)
               n == rec.active.version
    <3>1. /\ Len(p) = IF Len(h) < HistoryCap THEN Len(h) + 1 ELSE HistoryCap
          /\ \A i \in 1..Len(p) : p[i] = IF i = 1 THEN rec.active ELSE h[i - 1]
      <4>1. rec.active \in Version /\ h \in Seq(Version)
        BY <2>3
      <4> HIDE DEF h, rec
      <4> QED
        BY <4>1, PushHistoryProperties
    <3>2. /\ Len(h) = IF n - 1 < HistoryCap THEN n - 1 ELSE HistoryCap
          /\ \A i \in 1..Len(h) : h[i].version = n - i
      BY <2>5 DEF HistoryFollows
    <3>3. Len(p) = IF n < HistoryCap THEN n ELSE HistoryCap
      <4>1. n \in Nat \ {0} /\ Len(h) \in Nat
        BY <2>3
      <4> HIDE DEF p, n, h
      <4>2. CASE n - 1 < HistoryCap
        BY <3>1, <3>2, <4>1, <4>2
      <4>3. CASE ~ (n - 1 < HistoryCap)
        BY <3>1, <3>2, <4>1, <4>3
      <4> QED
        BY <4>2, <4>3
    <3>4. ASSUME NEW i \in 1..Len(p)
          PROVE  p[i].version = n + 1 - i
      <4>1. CASE i = 1
        BY <2>3, <3>1, <4>1
      <4>2. CASE i # 1
        <5>1. i - 1 \in 1..Len(h)
          BY <2>3, <3>1, <4>2
        <5>2. p[i] = h[i - 1]
          BY <3>1, <4>2
        <5>3. h[i - 1].version = n - (i - 1)
          BY <3>2, <5>1
        <5> QED
          BY <2>3, <5>2, <5>3
      <4> QED
        BY <4>1, <4>2
    <3>5. n \in Nat \ {0} /\ new.active.version = n + 1 /\ new.history = p
      BY <2>3, <2>4
    <3> HIDE DEF new, n, p, h
    <3>6. ASSUME NEW i \in 1..Len(new.history)
          PROVE  new.history[i].version = new.active.version - i
      BY <3>4, <3>5, <3>6
    <3>7. Len(new.history) = IF new.active.version - 1 < HistoryCap
                             THEN new.active.version - 1 ELSE HistoryCap
      <4>1. new.active.version - 1 = n
        BY <3>5
      <4> QED
        BY <3>3, <3>5, <4>1
    <3> QED
      BY <3>6, <3>7, Zenon DEF HistoryFollows
  <2> QED
    BY <2>1, <2>6
<1> QED
  BY <1>2, <1>3

\* Memory and file trade contiguous histories.
LEMMA HistoryInductive ==
  ASSUME Inv, HistoryIsContiguous, [Next]_vars
  PROVE  HistoryIsContiguous'
<1> USE DEF HistoryIsContiguous
<1>0. HistoryFollows(None)
  BY DEF HistoryFollows
<1>1. CASE UNCHANGED <<up, registry, record, ghostVars>>
  BY <1>1
<1>2. ASSUME NEW t \in Threads, AcquireToRemove(t)
      PROVE  HistoryIsContiguous'
  <2>1. record'[req[t].id] = None
    BY <1>2, AttemptStep DEF Inv, TypeOK, Registry, AcquireToRemove, Attempt
  <2> QED
    BY <1>0, <1>2, <2>1, AttemptStep
<1>3. ASSUME NEW t \in Threads, Install(t)
      PROVE  HistoryIsContiguous'
  BY <1>3, HistoryStep, AttemptStep
<1>4. ASSUME NEW t \in Threads, Rename(t)
      PROVE  HistoryIsContiguous'
  BY <1>4 DEF Inv, SaveInv, Rename, slotVars
<1>5. ASSUME NEW t \in Threads, Return(t)
      PROVE  HistoryIsContiguous'
  BY <1>5 DEF Return, diskVars, slotVars
<1>6. CASE Boot
  BY <1>6 DEF Boot, BootFrom, diskVars
<1>7. CASE Crash
  BY <1>0, <1>7 DEF Crash, Nothing
<1> QED
  BY <1>1, <1>2, <1>3, <1>4, <1>5, <1>6, <1>7, RecordSteps

\* The history of every record, in memory and in the registry file, is the
\* run of versions before the active one, cut at HISTORY_CAP.
THEOREM History == Spec => []HistoryIsContiguous
<1>1. Init => HistoryIsContiguous
  BY DEF Init, Nothing, HistoryIsContiguous, HistoryFollows
<1>2. Inv /\ HistoryIsContiguous /\ [Next]_vars => HistoryIsContiguous'
  BY HistoryInductive
<1> QED
  BY <1>1, <1>2, Invariance, PTL DEF Spec

-----------------------------------------------------------------------------
(***************************************************************************)
(* Slots.  A slot's status, runtime and record change together, and only a *)
(* running daemon has slots.                                               *)
(***************************************************************************)
SlotInv ==
  /\ ReadyHasRuntime
  /\ ~up => \A id \in Ids : status[id] = "Absent"

\* The four steps that touch slots, and the life of the daemon.
LEMMA SlotSteps ==
  ASSUME Inv, [Next]_vars
  PROVE  \/ UNCHANGED <<up, slotVars>>
         \/ \E t \in Threads : AcquireToRemove(t)
         \/ \E t \in Threads : Install(t)
         \/ Boot
         \/ Crash
<1>1. CASE UNCHANGED vars
  BY <1>1 DEF vars
<1>2. ASSUME NEW t \in Threads,
             \/ \E r \in Requests : Arrive(t, r)
             \/ Download(t)
             \/ Run(t)
      PROVE  UNCHANGED <<up, slotVars>>
  BY <1>2 DEF Arrive, Download, Fetch, FetchFails, Run, BeginRun, TakeSnapshot, RefuseRun,
              Discover, Undiscovered, FinishRun
<1>3. ASSUME NEW t \in Threads, Mutation(t)
      PROVE  UNCHANGED <<up, slotVars>> \/ AcquireToRemove(t) \/ Install(t)
  BY <1>3 DEF Mutation, AcquireToInstall, RefuseId, ResolvePath, ResolveReference,
              ResolveNothing, LoadFails, WriteTmp, Rename, PersistFails, Return
<1>4. ASSUME NEW p \in Paths, NEW c \in Contents \cup {None}, ReplacePack(p, c)
      PROVE  UNCHANGED <<up, slotVars>>
  BY <1>4 DEF ReplacePack
<1> QED
  BY <1>1, <1>2, <1>3, <1>4 DEF Next

\* deploy, upgrade, remove and load leave status, runtime and record agreeing.
LEMMA SlotInductive ==
  ASSUME Inv, SlotInv, [Next]_vars
  PROVE  SlotInv'
<1> USE DEF SlotInv, ReadyHasRuntime
<1>1. CASE UNCHANGED <<up, slotVars>>
  BY <1>1 DEF slotVars
<1>2. ASSUME NEW t \in Threads, AcquireToRemove(t)
      PROVE  SlotInv'
  <2>1. up /\ up'
    BY <1>2, AttemptStep
  <2> QED
    BY <1>2, <2>1 DEF Inv, TypeOK, Registry, AcquireToRemove, Attempt
<1>3. ASSUME NEW t \in Threads, Install(t)
      PROVE  SlotInv'
  <2>1. /\ up' /\ record'[req[t].id] \in Record
        /\ \A i \in Ids : i # req[t].id => record'[i] = record[i]
    BY <1>3, AttemptStep, InstalledRecord DEF Inv
  <2>2. fs[local[t]] \in Loadable /\ fs[local[t]] # None
    BY <1>3 DEF Install, Loads
  <2> QED
    BY <1>3, <2>1, <2>2 DEF Inv, TypeOK, Install
<1>4. CASE Boot
  <2>1. /\ up'
        /\ \A i \in Ids : record'[i] = registry[i]
        /\ \A i \in Ids : runtime'[i] =
             IF registry[i] # None /\ Loads(registry[i].active.path)
             THEN fs[registry[i].active.path] ELSE None
        /\ \A i \in Ids : status'[i] =
             IF registry[i] = None THEN "Absent"
             ELSE IF Loads(registry[i].active.path) THEN "Ready" ELSE "Failed"
    BY <1>4 DEF Boot, BootFrom
  <2> QED
    BY <2>1 DEF Loads
<1>5. CASE Crash
  BY <1>5 DEF Crash, Nothing
<1> QED
  BY <1>1, <1>2, <1>3, <1>4, <1>5, SlotSteps

\* A slot is Ready exactly when it has the runtime that run_as will use.
THEOREM ReadyRuns == Spec => []ReadyHasRuntime
<1>1. Init => SlotInv
  BY DEF Init, Nothing, SlotInv, ReadyHasRuntime
<1>2. Inv /\ SlotInv /\ [Next]_vars => SlotInv'
  BY SlotInductive
<1>3. SlotInv => ReadyHasRuntime
  BY DEF SlotInv
<1> QED
  BY <1>1, <1>2, <1>3, Invariance, PTL DEF Spec

\* No step of a failing upgrade, of a save or of another deployment's request
\* takes a Ready deployment out of service.
THEOREM StaysInService == Spec => ZeroDowntime
<1> DEFINE Stays(id) ==
      /\ up'
      /\ status[id] = "Ready"
      /\ status'[id] # "Ready"
      => \E t \in Threads : req[t] = [op |-> "remove", id |-> id]
<1>1. Init => SlotInv
  BY DEF Init, Nothing, SlotInv, ReadyHasRuntime
<1>2. Inv /\ SlotInv /\ [Next]_vars => SlotInv'
  BY SlotInductive
<1>3. ASSUME Inv, SlotInv, [Next]_vars, NEW id \in Ids
      PROVE  Stays(id)
  <2>1. CASE UNCHANGED <<up, slotVars>>
    BY <2>1 DEF slotVars
  <2>2. ASSUME NEW t \in Threads, AcquireToRemove(t)
        PROVE  Stays(id)
    <3>1. req[t] \in Removals
      BY <1>3, <2>2 DEF Inv, ThreadInv, AcquireToRemove, Requests, Deploys,
                        Upgrades, Runs
    <3>2. req[t] = [op |-> "remove", id |-> req[t].id]
      BY <3>1 DEF Removals
    <3>3. id # req[t].id => status'[id] = status[id]
      BY <1>3, <2>2 DEF Inv, TypeOK, AcquireToRemove
    <3> QED
      BY <3>2, <3>3
  <2>3. ASSUME NEW t \in Threads, Install(t)
        PROVE  Stays(id)
    BY <1>3, <2>3 DEF Inv, TypeOK, Install
  <2>4. CASE Boot
    BY <1>3, <2>4 DEF SlotInv, Boot, BootFrom
  <2>5. CASE Crash
    BY <2>5 DEF Crash
  <2> QED
    BY <1>3, <2>1, <2>2, <2>3, <2>4, <2>5, SlotSteps
<1>4. Inv /\ SlotInv /\ [Next]_vars => [\A id \in Ids : Stays(id)]_vars
  BY <1>3
<1> HIDE DEF Stays
<1>5. Spec => [][\A id \in Ids : Stays(id)]_vars
  BY <1>1, <1>2, <1>4, Invariance, PTL DEF Spec
<1> QED
  BY <1>5 DEF ZeroDowntime, Stays

-----------------------------------------------------------------------------
(***************************************************************************)
(* The refinement.  A step of the manager is a step of DeploymentSlots: the *)
(* change of a slot is AcquireToRemove or Install, a save is Rename; or it  *)
(* is none, because threads, lock and json.tmp are not part of what callers *)
(* see.                                                                    *)
(***************************************************************************)
SavedOf(id) == IF registry[id] = None THEN None ELSE Binding(registry[id])

\* Only these steps show.
LEMMA VisibleSteps ==
  ASSUME Inv, [Next]_vars
  PROVE  \/ UNCHANGED <<up, registry, slotVars>>
         \/ \E t \in Threads : AcquireToRemove(t)
         \/ \E t \in Threads : Install(t)
         \/ \E t \in Threads : Rename(t)
         \/ Boot
         \/ Crash
<1>1. ASSUME NEW t \in Threads, Rename(t) \/ Return(t)
      PROVE  Rename(t) \/ UNCHANGED <<up, registry, slotVars>>
  BY <1>1 DEF Return, diskVars
<1> QED
  BY <1>1, SlotSteps, RecordSteps

\* An id has a slot exactly if it has a record, in memory and in the file.
LEMMA PresentSlots ==
  ASSUME TypeOK, NEW id \in Ids
  PROVE  /\ SlotOf(id) = None <=> record[id] = None
         /\ SavedOf(id) = None <=> registry[id] = None
<1>1. record[id] # None => SlotOf(id) # None
  <2> SUFFICES ASSUME record[id] # None  PROVE SlotOf(id) # None
    OBVIOUS
  <2>1. record[id] \in Record /\ runtime[id] \in Contents \cup {None}
    BY DEF TypeOK, Registry
  <2>2. SlotOf(id) \in [tenant : Tenants, environment : Environments \cup {None},
                       version : Nat \ {0}, pack : Contents \cup {None}]
    BY <2>1 DEF SlotOf, Record, Version
  <2> QED
    BY <2>2, SlotAssumption
<1>2. registry[id] # None => SavedOf(id) # None
  <2> SUFFICES ASSUME registry[id] # None  PROVE SavedOf(id) # None
    OBVIOUS
  <2>1. registry[id] \in Record
    BY DEF TypeOK, Registry
  <2>2. SavedOf(id) \in Slots!Saved
    BY <2>1 DEF SavedOf, Binding, Record, Version, Slots!Saved
  <2> QED
    BY <2>2, SlotAssumption
<1> QED
  BY <1>1, <1>2 DEF SlotOf, SavedOf

\* What Install makes of a slot, as its callers see it.
LEMMA InstalledSlot ==
  ASSUME Inv, NEW t \in Threads, Install(t)
  PROVE  LET r == req[t]
             rec == record[r.id]
             new == record'[r.id]
         IN
         /\ fs[local[t]] \in Loadable
         /\ runtime'[r.id] = fs[local[t]]
         /\ \A i \in Ids : i # r.id => runtime'[i] = runtime[i]
         /\ r.op = "deploy" =>
              /\ rec = None
              /\ r.tenant \in Tenants /\ r.environment \in Environments \cup {None}
              /\ new.tenant = r.tenant /\ new.environment = r.environment
              /\ new.active.version = 1
         /\ r.op # "deploy" =>
              /\ rec \in Record
              /\ new.tenant = rec.tenant /\ new.environment = rec.environment
              /\ new.active.version = rec.active.version + 1
<1> DEFINE r == req[t]
           rec == record[r.id]
           V(n) == [version |-> n, path |-> local[t], digest |-> fs[local[t]]]
<1>1. /\ pc[t] = "load" /\ r.id \in Ids /\ r \in Deploys \cup Upgrades
      /\ (r.op = "deploy") <=> (rec = None)
  BY DEF Inv, ThreadInv, LockInv, Install, Deploys, Upgrades
<1>2. /\ fs[local[t]] \in Loadable
      /\ runtime'[r.id] = fs[local[t]]
      /\ \A i \in Ids : i # r.id => runtime'[i] = runtime[i]
  BY <1>1 DEF Inv, TypeOK, Install, Loads
<1>3. CASE r.op = "deploy"
  <2>1. record'[r.id] = NewRecord(r, V(1))
    BY <1>1, <1>3 DEF Inv, TypeOK, Registry, Install, Attempt
  <2>2. r \in Deploys
    BY <1>1, <1>3 DEF Upgrades
  <2> QED
    BY <1>1, <1>2, <1>3, <2>1, <2>2 DEF NewRecord, Deploys
<1>4. CASE r.op # "deploy"
  <2>1. record'[r.id] = Upgraded(rec, V(NextVersion(rec)))
    BY <1>1, <1>4 DEF Inv, TypeOK, Registry, Install, Attempt
  <2>2. rec \in Record
    BY <1>1, <1>4 DEF Inv, TypeOK, Registry
  <2>3. /\ record'[r.id].tenant = rec.tenant
        /\ record'[r.id].environment = rec.environment
        /\ record'[r.id].active = V(NextVersion(rec))
    BY <2>1, <2>2 DEF Upgraded, Record
  <2> QED
    BY <1>1, <1>2, <1>4, <2>2, <2>3 DEF NextVersion
<1> QED
  BY <1>3, <1>4

\* A deployment or an upgrade takes effect when its pack has loaded.
LEMMA InstallChanges ==
  ASSUME Inv, NEW t \in Threads, Install(t)
  PROVE  Slots!Change
<1> DEFINE r == req[t]
           pack == fs[local[t]]
           bar == [i \in Ids |-> SlotOf(i)]
<1>0. PICK id \in Ids : id = r.id
  BY AttemptStep
<1>1. /\ up /\ up' /\ UNCHANGED registry
      /\ \A i \in Ids : i # id => record'[i] = record[i]
  BY <1>0, AttemptStep
<1>2. record'[id] # None
  BY <1>0, InstalledRecord DEF Inv
<1>3. /\ pack \in Loadable
      /\ runtime'[id] = pack
      /\ \A i \in Ids : i # id => runtime'[i] = runtime[i]
  BY <1>0, InstalledSlot
<1>4. \A i \in Ids : i # id => SlotOf(i)' = SlotOf(i)
  BY <1>1, <1>3 DEF SlotOf
<1>5. SlotOf(id)' = [tenant |-> record'[id].tenant, environment |-> record'[id].environment,
                    version |-> record'[id].active.version, pack |-> pack]
  BY <1>2, <1>3 DEF SlotOf
<1>6. UNCHANGED [i \in Ids |-> SavedOf(i)]
  BY <1>1 DEF SavedOf, Binding
<1>7. CASE r.op = "deploy"
  <2>1. /\ record[id] = None
        /\ r.tenant \in Tenants /\ r.environment \in Environments \cup {None}
        /\ record'[id].tenant = r.tenant /\ record'[id].environment = r.environment
        /\ record'[id].active.version = 1
    BY <1>0, <1>7, InstalledSlot
  <2>2. bar[id] = None
    BY <1>1, <2>1 DEF SlotOf
  <2>3. bar' = [bar EXCEPT ![id] =
                  [tenant |-> r.tenant, environment |-> r.environment,
                   version |-> 1, pack |-> pack]]
    BY <1>1, <1>4, <1>5, <2>1
  <2>4. Slots!Deploy(id, r.tenant, r.environment, pack)
    BY <1>1, <1>6, <2>2, <2>3 DEF Slots!Deploy, SavedOf
  <2> QED
    BY <1>1, <1>3, <2>1, <2>4 DEF Slots!Change
<1>8. CASE r.op # "deploy"
  <2>1. /\ record[id] \in Record
        /\ record'[id].tenant = record[id].tenant
        /\ record'[id].environment = record[id].environment
        /\ record'[id].active.version = record[id].active.version + 1
    BY <1>0, <1>8, InstalledSlot
  <2>2. bar[id] # None /\ bar[id] =
          [tenant |-> record[id].tenant, environment |-> record[id].environment,
           version |-> record[id].active.version, pack |-> runtime[id]]
    BY <1>1, <2>1, PresentSlots DEF SlotOf, Inv
  <2>3. bar' = [bar EXCEPT ![id].version = @ + 1, ![id].pack = pack]
    <3>1. SlotOf(id)' = [bar[id] EXCEPT !.version = @ + 1, !.pack = pack]
      <4> HIDE DEF pack, bar
      <4>0. bar[id] =
              [tenant |-> record[id].tenant, environment |-> record[id].environment,
               version |-> record[id].active.version, pack |-> runtime[id]]
        BY <2>2
      <4> DEFINE later == [bar[id] EXCEPT !.version = bar[id].version + 1]
      <4>1. later =
              [tenant |-> record[id].tenant, environment |-> record[id].environment,
               version |-> record[id].active.version + 1, pack |-> runtime[id]]
        BY <4>0
      <4>2. [later EXCEPT !.pack = pack] =
              [tenant |-> record[id].tenant, environment |-> record[id].environment,
               version |-> record[id].active.version + 1, pack |-> pack]
        <5> HIDE DEF later
        <5> QED  BY <4>1
      <4>3. SlotOf(id)' = [later EXCEPT !.pack = pack]
        <5> HIDE DEF later
        <5> QED  BY <1>5, <2>1, <4>2
      <4> QED
        BY <4>3, Zenon
    <3>2. \A i \in Ids : bar'[i] = IF i = id THEN SlotOf(id)' ELSE bar[i]
      BY <1>4
    <3> QED
      BY <1>1, <3>1, <3>2
  <2>4. Slots!Upgrade(id, pack)
    BY <1>1, <1>6, <2>2, <2>3 DEF Slots!Upgrade, SavedOf
  <2> QED
    BY <1>1, <1>3, <2>4 DEF Slots!Change
<1> QED
  BY <1>7, <1>8

\* A removal takes effect under the lock, before it is saved.
LEMMA RemoveChanges ==
  ASSUME Inv, NEW t \in Threads, AcquireToRemove(t)
  PROVE  Slots!Change
<1> DEFINE id == req[t].id
           bar == [i \in Ids |-> SlotOf(i)]
<1>1. /\ up /\ up' /\ id \in Ids /\ UNCHANGED registry
      /\ \A i \in Ids : i # id => record'[i] = record[i]
  BY AttemptStep
<1>2. /\ record[id] # None /\ record'[id] = None
      /\ \A i \in Ids : i # id => runtime'[i] = runtime[i]
  BY <1>1 DEF Inv, TypeOK, Registry, AcquireToRemove, Attempt
<1>3. bar[id] # None
  BY <1>1, <1>2, PresentSlots DEF Inv
<1>4. \A i \in Ids : SlotOf(i)' = IF i = id THEN None ELSE SlotOf(i)
  BY <1>1, <1>2 DEF SlotOf
<1>5. bar' = [bar EXCEPT ![id] = None]
  BY <1>1, <1>4
<1>6. UNCHANGED [i \in Ids |-> SavedOf(i)]
  BY <1>1 DEF SavedOf, Binding
<1>7. Slots!Remove(id)
  BY <1>1, <1>3, <1>5, <1>6 DEF Slots!Remove, SavedOf
<1> QED
  BY <1>1, <1>7 DEF Slots!Change

\* The rename makes the file what memory holds: it is the map that was written.
LEMMA RenameSaves ==
  ASSUME Inv, NEW t \in Threads, Rename(t)
  PROVE  Slots!Save
<1>1. up /\ UNCHANGED <<up, record, runtime>> /\ registry' = record
  BY DEF Inv, ThreadInv, SaveInv, Rename, slotVars
<1>2. ASSUME NEW i \in Ids
      PROVE  SavedOf(i)' = Slots!SavedForm(SlotOf(i))
  <2>1. CASE record[i] = None
    BY <1>1, <2>1 DEF SavedOf, SlotOf, Slots!SavedForm
  <2>2. CASE record[i] # None
    <3>1. SlotOf(i) # None
      BY <2>2, PresentSlots DEF Inv
    <3> QED
      BY <1>1, <2>2, <3>1 DEF SavedOf, SlotOf, Binding, Slots!SavedForm
  <2> QED
    BY <2>1, <2>2
<1>3. UNCHANGED [i \in Ids |-> SlotOf(i)]
  BY <1>1 DEF SlotOf
<1> QED
  BY <1>1, <1>2, <1>3 DEF Slots!Save, SavedOf

\* A booted manager has a slot for each record of the file, with what its path
\* now holds if that loads.
LEMMA BootRestarts ==
  ASSUME Inv, Boot
  PROVE  Slots!Restart
<1> DEFINE packs == [i \in Ids |->
                       IF registry[i] # None /\ Loads(registry[i].active.path)
                       THEN fs[registry[i].active.path] ELSE None]
<1>1. ~up /\ up' /\ record' = registry /\ runtime' = packs /\ UNCHANGED registry
  BY DEF Boot, BootFrom, diskVars
<1>2. packs \in [Ids -> Loadable \cup {None}]
  BY DEF Loads
<1>3. ASSUME NEW i \in Ids
      PROVE  SlotOf(i)' = Slots!LoadedForm(SavedOf(i), packs[i])
  <2> HIDE DEF packs
  <2>1. CASE registry[i] = None
    BY <1>1, <2>1 DEF SavedOf, SlotOf, Slots!LoadedForm
  <2>2. CASE registry[i] # None
    <3>1. SavedOf(i) # None
      BY <2>2, PresentSlots DEF Inv
    <3> QED
      BY <1>1, <2>2, <3>1 DEF SavedOf, SlotOf, Binding, Slots!LoadedForm
  <2> QED
    BY <2>1, <2>2
<1>4. UNCHANGED [i \in Ids |-> SavedOf(i)]
  BY <1>1 DEF SavedOf, Binding
<1> HIDE DEF packs
<1> QED
  BY <1>1, <1>2, <1>3, <1>4 DEF Slots!Restart, SavedOf

\* A killed daemon forgets its slots and leaves the file.
LEMMA CrashStops ==
  ASSUME Crash
  PROVE  Slots!Stop
<1>1. up /\ ~up' /\ UNCHANGED registry /\ \A i \in Ids : record'[i] = None
  BY DEF Crash, Nothing
<1>2. \A i \in Ids : SlotOf(i)' = None
  BY <1>1 DEF SlotOf
<1>3. up' = FALSE
  BY DEF Crash
<1>4. UNCHANGED [i \in Ids |-> SavedOf(i)]
  BY <1>1 DEF SavedOf, Binding
<1> QED
  BY <1>1, <1>2, <1>3, <1>4 DEF Slots!Stop, Slots!Empty, SavedOf

\* Every step of the manager is a step of DeploymentSlots, or leaves what it
\* shows alone.
LEMMA StepRefines ==
  ASSUME Inv, [Next]_vars
  PROVE  [Slots!RegistryNext]_(Slots!registryVars)
<1>1. CASE UNCHANGED <<up, registry, slotVars>>
  <2>1. UNCHANGED <<up, record, runtime, registry>>
    BY <1>1 DEF slotVars
  <2>2. UNCHANGED [i \in Ids |-> SlotOf(i)]
    BY <2>1 DEF SlotOf
  <2>3. UNCHANGED [i \in Ids |-> SavedOf(i)]
    BY <2>1 DEF SavedOf, Binding
  <2> QED
    BY <2>1, <2>2, <2>3 DEF Slots!registryVars, SavedOf
<1>2. CASE \E t \in Threads : AcquireToRemove(t) \/ Install(t)
  BY <1>2, InstallChanges, RemoveChanges DEF Slots!RegistryNext
<1>3. CASE \E t \in Threads : Rename(t)
  BY <1>3, RenameSaves DEF Slots!RegistryNext
<1>4. CASE Boot
  BY <1>4, BootRestarts DEF Slots!RegistryNext
<1>5. CASE Crash
  BY <1>5, CrashStops DEF Slots!RegistryNext
<1> QED
  BY <1>1, <1>2, <1>3, <1>4, <1>5, VisibleSteps

\* The manager with its threads, lock, files and crashes is the map of slots that
\* its callers reason about: what EventRouter and DeploymentServer build on.
THEOREM Refinement == Spec => ImplementsSlots
<1>1. Init => Slots!RegistryInit
  <2> SUFFICES ASSUME Init  PROVE Slots!RegistryInit
    OBVIOUS
  <2>1. \A i \in Ids : SlotOf(i) = None /\ SavedOf(i) = None
    BY DEF Init, Nothing, SlotOf, SavedOf
  <2> QED
    BY <2>1 DEF Init, Slots!RegistryInit, Slots!Empty, SavedOf
<1>2. Inv /\ [Next]_vars => [Slots!RegistryNext]_(Slots!registryVars)
  BY StepRefines
<1> QED
  BY <1>1, <1>2, Invariance, PTL DEF Spec, ImplementsSlots, Slots!RegistrySpec
=============================================================================
