---------------------------- MODULE Daemon_proofs ----------------------------
(***************************************************************************)
(* Proofs about the parts of the daemon that build on the registry: the    *)
(* registry by itself (DeploymentSlots), the router of events (EventRouter) and *)
(* the HTTP server (DeploymentServer), for any deployments, packs, events, *)
(* requests and threads.                                                   *)
(***************************************************************************)
EXTENDS EventRouter, DeploymentServer, TLAPS

-----------------------------------------------------------------------------
(***************************************************************************)
(* The registry: what each of its operations keeps well formed.            *)
(***************************************************************************)
\* Any step of the registry leaves slots and saved copies well formed.
LEMMA RegistryTypes ==
  ASSUME RegistryTypeOK,
         Change \/ Save \/ Stop \/ Restart \/ UNCHANGED registryVars
  PROVE  RegistryTypeOK'
<1>1. ASSUME NEW id \in Ids, NEW tenant \in Tenants,
             NEW env \in Environments \cup {None}, NEW pack \in Loadable,
             Deploy(id, tenant, env, pack)
      PROVE  RegistryTypeOK'
  <2>1. [tenant |-> tenant, environment |-> env, version |-> 1, pack |-> pack] \in Slot
    BY DEF Slot
  <2> QED  BY <1>1, <2>1 DEF Deploy, RegistryTypeOK
<1>2. ASSUME NEW id \in Ids, NEW pack \in Loadable, Upgrade(id, pack)
      PROVE  RegistryTypeOK'
  <2>1. slots[id] \in Slot
    BY <1>2 DEF Upgrade, RegistryTypeOK
  <2> DEFINE new == [tenant |-> slots[id].tenant, environment |-> slots[id].environment,
                     version |-> slots[id].version + 1, pack |-> pack]
  <2>2. new \in Slot
    BY <2>1 DEF Slot
  <2>3. slots' = [slots EXCEPT ![id] = new]
    <3>1. slots' = [slots EXCEPT ![id] =
                      [[slots[id] EXCEPT !.version = @ + 1] EXCEPT !.pack = pack]]
      BY <1>2 DEF Upgrade, RegistryTypeOK
    <3>2. [slots[id] EXCEPT !.version = @ + 1] =
            [tenant |-> slots[id].tenant, environment |-> slots[id].environment,
             version |-> slots[id].version + 1, pack |-> slots[id].pack]
      BY <2>1 DEF Slot
    <3>3. [[tenant |-> slots[id].tenant, environment |-> slots[id].environment,
             version |-> slots[id].version + 1, pack |-> slots[id].pack]
             EXCEPT !.pack = pack] = new
      OBVIOUS
    <3> HIDE DEF new
    <3> QED  BY <3>1, <3>2, <3>3
  <2> HIDE DEF new
  <2> QED  BY <1>2, <2>2, <2>3 DEF Upgrade, RegistryTypeOK
<1>3. ASSUME NEW id \in Ids, Remove(id)  PROVE RegistryTypeOK'
  BY <1>3 DEF Remove, RegistryTypeOK
<1>4. CASE Save
  <2>1. \A i \in Ids : SavedForm(slots[i]) \in Saved \cup {None}
    <3> SUFFICES ASSUME NEW i \in Ids, slots[i] # None
                 PROVE  SavedForm(slots[i]) \in Saved \cup {None}
      BY DEF SavedForm
    <3>1. slots[i] \in Slot
      BY DEF RegistryTypeOK
    <3> QED  BY <3>1 DEF SavedForm, Saved, Slot
  <2> QED  BY <1>4, <2>1 DEF Save, RegistryTypeOK
<1>5. CASE Stop
  BY <1>5 DEF Stop, RegistryTypeOK, Empty
<1>6. CASE Restart
  <2>1. PICK packs \in [Ids -> Loadable \cup {None}] :
          slots' = [i \in Ids |-> LoadedForm(saved[i], packs[i])]
    BY <1>6 DEF Restart
  <2>2. \A i \in Ids : LoadedForm(saved[i], packs[i]) \in Slot \cup {None}
    <3> SUFFICES ASSUME NEW i \in Ids, saved[i] # None
                 PROVE  LoadedForm(saved[i], packs[i]) \in Slot \cup {None}
      BY DEF LoadedForm
    <3>1. saved[i] \in Saved
      BY DEF RegistryTypeOK
    <3> QED  BY <3>1 DEF LoadedForm, Saved, Slot
  <2> QED  BY <1>6, <2>1, <2>2 DEF Restart, RegistryTypeOK
<1>7. CASE UNCHANGED registryVars
  BY <1>7 DEF registryVars, RegistryTypeOK
<1> QED  BY <1>1, <1>2, <1>3, <1>4, <1>5, <1>6, <1>7 DEF Change

\* The registry as the manager promises it is well formed in every state
\* (deploy_with_target_as, upgrade_as, remove_as, persist_locked, load).
THEOREM RegistryTypeCorrect == RegistrySpec => []RegistryTypeOK
<1>1. RegistryInit => RegistryTypeOK
  BY DEF RegistryInit, RegistryTypeOK, Empty
<1>2. RegistryTypeOK /\ [RegistryNext]_registryVars => RegistryTypeOK'
  BY RegistryTypes DEF RegistryNext
<1> QED  BY <1>1, <1>2, PTL DEF RegistrySpec

-----------------------------------------------------------------------------
(***************************************************************************)
(* The router.  Messages are numbered as they are published, and its inductive *)
(* invariant orders all that there are by these numbers: the runs before the *)
(* message being routed, and that before those that wait.                  *)
(***************************************************************************)
\* Without a subscription nothing waits and nothing is routed, without a daemon
\* there is no subscription, and what is routed is an event.
ShapeInv ==
  /\ session = "down" => inbox = <<>> /\ current = None
  /\ ~up => session = "down"
  /\ current = None => tasks = NoTasks
  /\ current # None => current.event \in Events

\* Runs, the message being routed and those that wait are in order.
OrderInv ==
  /\ \A k \in DOMAIN inbox : inbox[k].n <= published
  /\ \A j, k \in DOMAIN inbox : j < k => inbox[j].n < inbox[k].n
  /\ \A i \in DOMAIN runs : runs[i].n <= published
  /\ \A i \in DOMAIN runs, k \in DOMAIN inbox : runs[i].n < inbox[k].n
  /\ current # None =>
       /\ current.n <= published
       /\ \A k \in DOMAIN inbox : current.n < inbox[k].n
       /\ \A i \in DOMAIN runs : runs[i].n <= current.n
  /\ RunsFollowPublication

\* A task that has not begun has no run, and no run is there twice.
OnceInv ==
  /\ \A id \in Ids : current # None /\ tasks[id] = "spawned" =>
       \A i \in DOMAIN runs : ~ (runs[i].n = current.n /\ runs[i].id = id)
  /\ NoDuplicateRuns

HasRun(id) ==
  \E i \in DOMAIN runs :
    runs[i].n = current.n /\ runs[i].id = id /\ runs[i].slot = slots[id]

\* The task of a deployment that was not touched is under way or has run it.
UntouchedInv ==
  current # None =>
    \A id \in Ids \ touched : Matches(slots[id], current.event) =>
      /\ tasks[id] # "none"
      /\ tasks[id] \in {"running", "done"} => HasRun(id)

-----------------------------------------------------------------------------
(***************************************************************************)
(* Types of the router.                                                    *)
(***************************************************************************)
\* What the loop keeps for itself.
LoopTypeOK ==
  /\ lock \in {"free", "held", "changed"}
  /\ session \in {"down", "open", "ending"}
  /\ inbox \in Seq(Message)
  /\ current \in Message \cup {None}
  /\ tasks \in [Ids -> {"none", "spawned", "running", "done"}]
  /\ published \in 0..MaxEvents
  /\ changes \in 0..MaxChanges
  /\ runs \in Seq(RunOf)
  /\ touched \subseteq Ids

LEMMA TypeParts ==
  /\ RouterTypeOK <=> RegistryTypeOK /\ LoopTypeOK
  /\ RouterTypeOK' <=> RegistryTypeOK' /\ LoopTypeOK'
BY DEF RouterTypeOK, LoopTypeOK

\* The head of the inbox and what is left of it.
LEMMA InboxParts ==
  ASSUME RouterTypeOK, inbox # <<>>
  PROVE  /\ Head(inbox) = inbox[1] /\ Head(inbox) \in Message /\ Head(inbox) # None
         /\ Head(inbox).n \in 1..MaxEvents /\ Head(inbox).event \in Events \cup {None}
         /\ Tail(inbox) \in Seq(Message)
         /\ Len(inbox) \in Nat \ {0}
         /\ DOMAIN inbox = 1..Len(inbox)
         /\ DOMAIN Tail(inbox) = 1..(Len(inbox) - 1)
         /\ \A k \in 1..(Len(inbox) - 1) : Tail(inbox)[k] = inbox[k + 1]
<1>1. inbox \in Seq(Message)
  BY DEF RouterTypeOK
<1>2. /\ Head(inbox) = inbox[1] /\ Head(inbox) \in Message
      /\ Tail(inbox) \in Seq(Message)
      /\ Len(inbox) \in Nat \ {0}
      /\ DOMAIN inbox = 1..Len(inbox)
      /\ DOMAIN Tail(inbox) = 1..(Len(inbox) - 1)
      /\ \A k \in 1..(Len(inbox) - 1) : Tail(inbox)[k] = inbox[k + 1]
  BY <1>1
<1>3. \A m \in Message : m # None /\ m.n \in 1..MaxEvents /\ m.event \in Events \cup {None}
  BY RouterAssumption DEF Message
<1> QED  BY <1>2, <1>3

\* What has a number.
LEMMA Numbers ==
  ASSUME RouterTypeOK
  PROVE  /\ published \in Nat
         /\ \A i \in DOMAIN runs : runs[i].n \in Nat
         /\ \A k \in DOMAIN inbox : inbox[k].n \in Nat
         /\ current # None => current.n \in Nat
<1>1. /\ runs \in Seq(RunOf) /\ inbox \in Seq(Message)
      /\ current \in Message \cup {None} /\ published \in 0..MaxEvents
  BY DEF RouterTypeOK
<1>2. /\ \A i \in DOMAIN runs : runs[i] \in RunOf
      /\ \A k \in DOMAIN inbox : inbox[k] \in Message
  BY <1>1
<1>3. \A r \in RunOf : r.n \in Nat
  BY RouterAssumption DEF RunOf
<1>4. \A m \in Message : m.n \in Nat
  BY RouterAssumption DEF Message
<1> QED  BY <1>1, <1>2, <1>3, <1>4, RouterAssumption

\* A message that is routed is an event.
LEMMA MatchedEvents ==
  ASSUME NEW e \in Events \cup {None}, Matched(e) # {}
  PROVE  e \in Events
BY DEF Matched

\* What receiving a message does.
LEMMA Received ==
  ASSUME RouterTypeOK, Receive
  PROVE  LET msg == Head(inbox) IN
         /\ inbox # <<>> /\ current = None /\ inbox' = Tail(inbox)
         /\ \/ UNCHANGED <<current, tasks, touched>>
            \/ /\ current' = msg /\ msg # None /\ msg.event \in Events
               /\ touched' = {}
               /\ tasks' = [i \in Ids |-> IF i \in Matched(msg.event)
                                          THEN "spawned" ELSE "none"]
<1>1. inbox # <<>>
  BY DEF Receive
<1>2. Head(inbox) # None /\ Head(inbox).event \in Events \cup {None}
  BY <1>1, InboxParts
<1>3. CASE Matched(Head(inbox).event) = {}
  BY <1>3 DEF Receive
<1>4. CASE Matched(Head(inbox).event) # {}
  BY <1>2, <1>4, MatchedEvents DEF Receive
<1> QED  BY <1>3, <1>4

LEMMA TypeStep ==
  ASSUME RouterTypeOK, ShapeInv, [RouterNext]_routingVars
  PROVE  RouterTypeOK'
<1>0. RegistryTypeOK /\ LoopTypeOK
  BY TypeParts
<1>1. RegistryTypeOK'
  BY <1>0, RegistryTypes
  DEF RouterNext, TakeLock, ChangeSlot, SaveSlots, DropLock, StopDaemon, RestartDaemon,
      Publish, Connect, LoseConnection, EndSession, Receive, Task, LookUp, StartRun,
      RefuseRun, FinishRun, JoinAll, managerVars, routingVars
<1>2. ASSUME TakeLock \/ ChangeSlot \/ DropLock  PROVE LoopTypeOK'
  BY <1>0, <1>2, RouterAssumption
  DEF TakeLock, ChangeSlot, DropLock, observed, LoopTypeOK, routerVars
<1>3. ASSUME SaveSlots \/ RestartDaemon \/ UNCHANGED routingVars  PROVE LoopTypeOK'
  BY <1>0, <1>3 DEF SaveSlots, RestartDaemon, LoopTypeOK, managerVars, routerVars,
                      observed, routingVars
<1>4. ASSUME StopDaemon  PROVE LoopTypeOK'
  BY <1>0, <1>4 DEF StopDaemon, LoopTypeOK, NoTasks
<1>5. ASSUME NEW e \in Events \cup {None}, Publish(e)  PROVE LoopTypeOK'
  <2>1. published' \in 0..MaxEvents /\ published + 1 \in 1..MaxEvents
    BY <1>0, <1>5, RouterAssumption DEF Publish, LoopTypeOK
  <2>2. [n |-> published + 1, event |-> e] \in Message
    BY <2>1 DEF Message
  <2>3. inbox' \in Seq(Message)
    BY <1>0, <1>5, <2>2 DEF Publish, LoopTypeOK
  <2> QED  BY <1>0, <1>5, <2>1, <2>3 DEF Publish, managerVars, LoopTypeOK
<1>6. ASSUME Connect \/ LoseConnection \/ EndSession  PROVE LoopTypeOK'
  BY <1>0, <1>6 DEF Connect, LoseConnection, EndSession, managerVars, LoopTypeOK, observed
<1>7. ASSUME Receive  PROVE LoopTypeOK'
  BY <1>0, <1>7, Received, InboxParts DEF Receive, managerVars, LoopTypeOK
<1>8. ASSUME NEW id \in Ids, StartRun(id)  PROVE LoopTypeOK'
  <2>1. current # None /\ current.event \in Events
    BY <1>8 DEF StartRun, ShapeInv, NoTasks
  <2>2. current.n \in 1..MaxEvents
    BY <1>0, <2>1 DEF LoopTypeOK, Message
  <2>3. slots[id] \in Slot
    BY <1>0, <1>8 DEF StartRun, Runnable, RegistryTypeOK
  <2>4. [n |-> current.n, id |-> id, event |-> current.event, slot |-> slots[id]] \in RunOf
    BY <2>1, <2>2, <2>3 DEF RunOf
  <2>5. runs' \in Seq(RunOf)
    BY <1>0, <1>8, <2>4 DEF StartRun, LoopTypeOK
  <2> QED  BY <1>0, <1>8, <2>5 DEF StartRun, managerVars, LoopTypeOK
<1>9. ASSUME NEW id \in Ids, RefuseRun(id) \/ FinishRun(id)  PROVE LoopTypeOK'
  BY <1>0, <1>9 DEF RefuseRun, FinishRun, managerVars, LoopTypeOK, observed
<1>10. ASSUME JoinAll  PROVE LoopTypeOK'
  BY <1>0, <1>10 DEF JoinAll, managerVars, LoopTypeOK, NoTasks, observed
<1> QED
  BY <1>1, <1>2, <1>3, <1>4, <1>5, <1>6, <1>7, <1>8, <1>9, <1>10, TypeParts
  DEF RouterNext, Task, LookUp

LEMMA ShapeStep ==
  ASSUME RouterTypeOK, ShapeInv, [RouterNext]_routingVars
  PROVE  ShapeInv'
<1>1. CASE TakeLock \/ ChangeSlot \/ DropLock
  BY <1>1
  DEF TakeLock, ChangeSlot, DropLock, Change, Deploy, Upgrade, Remove, ShapeInv,
      registryVars, routerVars
<1>2. CASE SaveSlots \/ UNCHANGED routingVars
  BY <1>2
  DEF SaveSlots, Save, ShapeInv, routerVars, managerVars, registryVars, observed,
      routingVars
<1>3. CASE RestartDaemon \/ StopDaemon
  BY <1>3 DEF RestartDaemon, Restart, StopDaemon, Stop, ShapeInv, routerVars
<1>4. ASSUME NEW e \in Events \cup {None}, Publish(e)  PROVE ShapeInv'
  BY <1>4 DEF Publish, ShapeInv, managerVars, registryVars
<1>5. CASE Connect \/ LoseConnection \/ EndSession
  BY <1>5
  DEF Connect, LoseConnection, EndSession, ShapeInv, managerVars, registryVars, observed
<1>6. CASE Receive
  BY <1>6, Received DEF Receive, ShapeInv, managerVars, registryVars
<1>7. ASSUME NEW id \in Ids, Task(id)  PROVE ShapeInv'
  <2>1. current # None
    BY <1>7 DEF Task, LookUp, StartRun, RefuseRun, FinishRun, ShapeInv, NoTasks
  <2> QED
    BY <1>7, <2>1
    DEF Task, LookUp, StartRun, RefuseRun, FinishRun, ShapeInv, managerVars,
        registryVars, observed
<1>8. CASE JoinAll
  BY <1>8 DEF JoinAll, ShapeInv, managerVars, registryVars, observed
<1> QED  BY <1>1, <1>2, <1>3, <1>4, <1>5, <1>6, <1>7, <1>8 DEF RouterNext

-----------------------------------------------------------------------------
(***************************************************************************)
(* Order, and no run twice.                                                *)
(***************************************************************************)
LEMMA OrderReceive ==
  ASSUME RouterTypeOK, OrderInv, OnceInv, Receive
  PROVE  OrderInv' /\ OnceInv'
<1>1. /\ inbox # <<>> /\ current = None /\ inbox' = Tail(inbox)
      /\ \/ UNCHANGED <<current, tasks, touched>>
         \/ current' = Head(inbox) /\ Head(inbox) # None
      /\ UNCHANGED <<published, runs>>
  BY Received DEF Receive
<1>2. /\ Head(inbox) = inbox[1] /\ Len(inbox) \in Nat \ {0}
      /\ DOMAIN inbox = 1..Len(inbox) /\ DOMAIN inbox' = 1..(Len(inbox) - 1)
      /\ \A k \in 1..(Len(inbox) - 1) : inbox'[k] = inbox[k + 1]
      /\ inbox[1].n \in Nat
  BY <1>1, InboxParts
<1>3. \A i \in DOMAIN runs : runs[i].n \in Nat /\ runs[i].n < inbox[1].n
  BY <1>2, Numbers DEF OrderInv
<1>4. \A j, k \in DOMAIN inbox' : j < k => inbox'[j].n < inbox'[k].n
  <2> SUFFICES ASSUME NEW j \in DOMAIN inbox', NEW k \in DOMAIN inbox', j < k
               PROVE  inbox'[j].n < inbox'[k].n
    OBVIOUS
  <2>1. j + 1 \in DOMAIN inbox /\ k + 1 \in DOMAIN inbox /\ j + 1 < k + 1
    BY <1>2
  <2> QED  BY <1>2, <2>1 DEF OrderInv
<1>5. \A k \in DOMAIN inbox' :
        /\ inbox'[k].n <= published
        /\ inbox[1].n < inbox'[k].n
        /\ \A i \in DOMAIN runs : runs[i].n < inbox'[k].n
  <2> SUFFICES ASSUME NEW k \in DOMAIN inbox'
               PROVE  /\ inbox'[k].n <= published
                      /\ inbox[1].n < inbox'[k].n
                      /\ \A i \in DOMAIN runs : runs[i].n < inbox'[k].n
    OBVIOUS
  <2>1. k + 1 \in DOMAIN inbox /\ 1 \in DOMAIN inbox /\ 1 < k + 1 /\ inbox'[k] = inbox[k + 1]
    BY <1>2
  <2> QED  BY <2>1 DEF OrderInv
<1>6. current' # None =>
        /\ current'.n <= published
        /\ \A k \in DOMAIN inbox' : current'.n < inbox'[k].n
        /\ \A i \in DOMAIN runs : runs[i].n <= current'.n
  <2> SUFFICES ASSUME current' = inbox[1]
               PROVE  /\ current'.n <= published
                      /\ \A k \in DOMAIN inbox' : current'.n < inbox'[k].n
                      /\ \A i \in DOMAIN runs : runs[i].n <= current'.n
    BY <1>1, <1>2
  <2>1. 1 \in DOMAIN inbox
    BY <1>2
  <2>2. inbox[1].n <= published
    BY <2>1 DEF OrderInv
  <2> QED  BY <1>2, <1>3, <1>5, <2>2
<1>7. OrderInv'
  BY <1>1, <1>4, <1>5, <1>6 DEF OrderInv, RunsFollowPublication
<1>8. OnceInv'
  <2>1. NoDuplicateRuns'
    BY <1>1 DEF OnceInv, NoDuplicateRuns
  <2>2. current' # None => current' = inbox[1]
    BY <1>1, <1>2
  <2>3. \A i \in DOMAIN runs : ~ (runs[i].n = inbox[1].n)
    BY <1>2, <1>3
  <2> QED  BY <1>1, <2>1, <2>2, <2>3 DEF OnceInv
<1> QED  BY <1>7, <1>8

LEMMA OrderPublish ==
  ASSUME RouterTypeOK, OrderInv, NEW e \in Events \cup {None}, Publish(e)
  PROVE  OrderInv'
<1> DEFINE m == Len(inbox)
<1>1. /\ m \in Nat /\ published \in Nat /\ DOMAIN inbox = 1..m
      /\ \A k \in 1..m : inbox[k].n \in Nat
      /\ \A i \in DOMAIN runs : runs[i].n \in Nat
      /\ current # None => current.n \in Nat
  BY Numbers DEF RouterTypeOK
<1>2. published' = published + 1 /\ UNCHANGED <<current, runs>>
  BY DEF Publish
<1>3. CASE inbox' = inbox
  BY <1>1, <1>2, <1>3 DEF OrderInv, RunsFollowPublication
<1>4. CASE inbox' = Append(inbox, [n |-> published + 1, event |-> e])
  <2>1. /\ DOMAIN inbox' = 1..(m + 1)
        /\ inbox'[m + 1].n = published + 1
        /\ \A k \in 1..m : inbox'[k] = inbox[k]
    BY <1>4 DEF RouterTypeOK
  <2> HIDE DEF m
  <2>2. \A k \in DOMAIN inbox' : inbox'[k].n <= published + 1
    BY <1>1, <2>1 DEF OrderInv
  <2>3. \A j, k \in DOMAIN inbox' : j < k => inbox'[j].n < inbox'[k].n
    <3> SUFFICES ASSUME NEW j \in 1..(m + 1), NEW k \in 1..(m + 1), j < k
                 PROVE  inbox'[j].n < inbox'[k].n
      BY <2>1
    <3>1. j \in 1..m /\ inbox'[j] = inbox[j] /\ inbox[j].n <= published
      BY <1>1, <2>1 DEF OrderInv
    <3>2. CASE k = m + 1
      BY <1>1, <2>1, <3>1, <3>2
    <3>3. CASE k # m + 1
      <4>1. k \in 1..m /\ inbox'[k] = inbox[k]
        BY <1>1, <2>1, <3>3
      <4> QED  BY <1>1, <3>1, <4>1 DEF OrderInv
    <3> QED  BY <3>2, <3>3
  <2>4. \A k \in DOMAIN inbox' :
          /\ \A i \in DOMAIN runs : runs[i].n < inbox'[k].n
          /\ current # None => current.n < inbox'[k].n
    <3> SUFFICES ASSUME NEW k \in 1..(m + 1)
                 PROVE  /\ \A i \in DOMAIN runs : runs[i].n < inbox'[k].n
                        /\ current # None => current.n < inbox'[k].n
      BY <2>1
    <3>1. CASE k = m + 1
      BY <1>1, <2>1, <3>1 DEF OrderInv
    <3>2. CASE k # m + 1
      <4>1. k \in 1..m /\ inbox'[k] = inbox[k]
        BY <1>1, <2>1, <3>2
      <4> QED  BY <1>1, <4>1 DEF OrderInv
    <3> QED  BY <3>1, <3>2
  <2> QED  BY <1>1, <1>2, <2>2, <2>3, <2>4 DEF OrderInv, RunsFollowPublication
<1> QED  BY <1>3, <1>4 DEF Publish

LEMMA OrderStart ==
  ASSUME RouterTypeOK, ShapeInv, OrderInv, OnceInv, NEW id \in Ids, StartRun(id)
  PROVE  OrderInv' /\ OnceInv'
<1> DEFINE m == Len(runs)
           run == [n |-> current.n, id |-> id, event |-> current.event, slot |-> slots[id]]
<1>1. /\ m \in Nat /\ DOMAIN runs = 1..m /\ DOMAIN runs' = 1..(m + 1)
      /\ runs'[m + 1] = run
      /\ \A i \in 1..m : runs'[i] = runs[i]
      /\ \A i \in 1..m : runs[i].n \in Nat
  <2>1. \A i \in DOMAIN runs : runs[i].n \in Nat
    BY Numbers
  <2> QED  BY <2>1 DEF StartRun, RouterTypeOK
<1>2. current # None
  BY DEF StartRun, ShapeInv, NoTasks
<1>3. current.n \in Nat /\ published \in Nat /\ run.n = current.n /\ run.id = id
  BY <1>2 DEF RouterTypeOK, Message
<1>4. UNCHANGED <<inbox, current, published>>
  BY DEF StartRun
<1>5. /\ \A k \in DOMAIN inbox : current.n < inbox[k].n
      /\ current.n <= published
      /\ \A i \in 1..m : runs[i].n <= current.n
  BY <1>1, <1>2 DEF OrderInv
<1>6. \A i \in 1..m : ~ (runs[i].n = current.n /\ runs[i].id = id)
  BY <1>1, <1>2 DEF StartRun, OnceInv
<1> HIDE DEF m, run
<1>7. OrderInv'
  <2>1. \A i \in DOMAIN runs' :
          /\ runs'[i].n <= published /\ runs'[i].n <= current.n
          /\ \A k \in DOMAIN inbox : runs'[i].n < inbox[k].n
    <3> SUFFICES ASSUME NEW i \in 1..(m + 1)
                 PROVE  /\ runs'[i].n <= published /\ runs'[i].n <= current.n
                        /\ \A k \in DOMAIN inbox : runs'[i].n < inbox[k].n
      BY <1>1
    <3>1. CASE i = m + 1
      BY <1>1, <1>3, <1>5, <3>1
    <3>2. CASE i # m + 1
      <4>1. i \in 1..m /\ runs'[i] = runs[i]
        BY <1>1, <3>2
      <4> QED  BY <1>1, <1>5, <4>1 DEF OrderInv
    <3> QED  BY <3>1, <3>2
  <2>2. RunsFollowPublication'
    <3> SUFFICES ASSUME NEW i \in 1..(m + 1), NEW j \in 1..(m + 1), i < j
                 PROVE  runs'[i].n <= runs'[j].n
      BY <1>1 DEF RunsFollowPublication
    <3>1. i \in 1..m /\ runs'[i] = runs[i]
      BY <1>1
    <3>2. CASE j = m + 1
      BY <1>1, <1>3, <1>5, <3>1, <3>2
    <3>3. CASE j # m + 1
      <4>1. j \in 1..m /\ runs'[j] = runs[j]
        BY <1>1, <3>3
      <4> QED  BY <1>1, <3>1, <4>1 DEF OrderInv, RunsFollowPublication
    <3> QED  BY <3>2, <3>3
  <2> QED  BY <1>2, <1>4, <1>5, <2>1, <2>2 DEF OrderInv
<1>8. OnceInv'
  <2>1. tasks'[id] # "spawned" /\ \A i \in Ids \ {id} : tasks'[i] = tasks[i]
    BY DEF StartRun, RouterTypeOK
  <2>2. ASSUME NEW x \in Ids, tasks'[x] = "spawned", NEW i \in 1..(m + 1)
        PROVE  ~ (runs'[i].n = current.n /\ runs'[i].id = x)
    <3>1. x # id /\ tasks[x] = "spawned"
      BY <2>1, <2>2
    <3>2. CASE i = m + 1
      BY <1>1, <1>3, <3>1, <3>2
    <3>3. CASE i # m + 1
      <4>1. i \in 1..m /\ runs'[i] = runs[i]
        BY <1>1, <3>3
      <4> QED  BY <1>1, <1>2, <3>1, <4>1 DEF OnceInv
    <3> QED  BY <3>2, <3>3
  <2>3. NoDuplicateRuns'
    <3> SUFFICES ASSUME NEW i \in 1..(m + 1), NEW j \in 1..(m + 1),
                        runs'[i].n = runs'[j].n, runs'[i].id = runs'[j].id
                 PROVE  i = j
      BY <1>1 DEF NoDuplicateRuns
    <3>1. i # m + 1 => i \in 1..m /\ runs'[i] = runs[i]
      BY <1>1
    <3>2. j # m + 1 => j \in 1..m /\ runs'[j] = runs[j]
      BY <1>1
    <3> QED  BY <1>1, <1>3, <1>6, <3>1, <3>2 DEF OnceInv, NoDuplicateRuns
  <2> QED  BY <1>1, <1>4, <2>2, <2>3 DEF OnceInv
<1> QED  BY <1>7, <1>8

LEMMA OrderStep ==
  ASSUME RouterTypeOK, ShapeInv, OrderInv, OnceInv, [RouterNext]_routingVars
  PROVE  OrderInv' /\ OnceInv'
<1> USE DEF OrderInv, OnceInv, RunsFollowPublication, NoDuplicateRuns
<1>1. CASE TakeLock \/ ChangeSlot \/ SaveSlots \/ DropLock \/ RestartDaemon
  BY <1>1
  DEF TakeLock, ChangeSlot, DropLock, SaveSlots, RestartDaemon, routerVars, observed
<1>2. CASE StopDaemon
  BY <1>2 DEF StopDaemon
<1>3. ASSUME NEW e \in Events \cup {None}, Publish(e)  PROVE OnceInv'
  BY <1>3 DEF Publish
<1>4. CASE Connect \/ LoseConnection \/ EndSession
  BY <1>4 DEF Connect, LoseConnection, EndSession, observed
<1>5. ASSUME NEW id \in Ids, RefuseRun(id) \/ FinishRun(id)  PROVE OrderInv' /\ OnceInv'
  <2>1. \A i \in Ids : tasks'[i] = "spawned" => tasks[i] = "spawned"
    BY <1>5 DEF RefuseRun, FinishRun, RouterTypeOK
  <2> QED  BY <1>5, <2>1 DEF RefuseRun, FinishRun, observed
<1>6. CASE JoinAll
  BY <1>6 DEF JoinAll, observed
<1>7. CASE UNCHANGED routingVars
  BY <1>7 DEF routingVars, routerVars, observed
<1> HIDE DEF OrderInv, OnceInv
<1> QED
  BY <1>1, <1>2, <1>3, <1>4, <1>5, <1>6, <1>7, OrderPublish, OrderReceive, OrderStart
  DEF RouterNext, Task, LookUp

-----------------------------------------------------------------------------
(***************************************************************************)
(* The deployments that nobody touched.                                    *)
(***************************************************************************)
LEMMA UntouchedStart ==
  ASSUME RouterTypeOK, ShapeInv, UntouchedInv, NEW id \in Ids, StartRun(id)
  PROVE  UntouchedInv'
<1> DEFINE m == Len(runs)
           run == [n |-> current.n, id |-> id, event |-> current.event, slot |-> slots[id]]
<1>1. /\ m \in Nat /\ DOMAIN runs = 1..m /\ DOMAIN runs' = 1..(m + 1)
      /\ runs'[m + 1] = run
      /\ \A i \in 1..m : runs'[i] = runs[i]
  BY DEF StartRun, RouterTypeOK
<1>2. UNCHANGED <<slots, current, touched>>
  BY DEF StartRun, managerVars, registryVars
<1>3. tasks'[id] = "running" /\ \A x \in Ids \ {id} : tasks'[x] = tasks[x]
  BY DEF StartRun, RouterTypeOK
<1>4. run.n = current.n /\ run.id = id /\ run.slot = slots[id]
  OBVIOUS
<1> HIDE DEF m, run
<1>5. ASSUME NEW x \in Ids, HasRun(x)  PROVE HasRun(x)'
  <2>1. PICK i \in 1..m : runs[i].n = current.n /\ runs[i].id = x /\ runs[i].slot = slots[x]
    BY <1>1, <1>5 DEF HasRun
  <2>2. i \in DOMAIN runs' /\ runs'[i] = runs[i]
    BY <1>1
  <2> QED  BY <1>2, <2>1, <2>2 DEF HasRun
<1>6. HasRun(id)'
  <2>1. m + 1 \in DOMAIN runs'
    BY <1>1
  <2> QED  BY <1>1, <1>2, <1>4, <2>1 DEF HasRun
<1> QED  BY <1>2, <1>3, <1>5, <1>6 DEF UntouchedInv

LEMMA UntouchedStep ==
  ASSUME RouterTypeOK, ShapeInv, UntouchedInv, [RouterNext]_routingVars
  PROVE  UntouchedInv'
<1> USE DEF UntouchedInv, HasRun
<1>1. CASE ChangeSlot
  <2>1. \A i \in Ids \ touched' : i \notin touched /\ slots'[i] = slots[i]
    BY <1>1 DEF ChangeSlot
  <2> QED  BY <1>1, <2>1 DEF ChangeSlot, routerVars
<1>2. CASE TakeLock \/ SaveSlots \/ DropLock
  BY <1>2 DEF TakeLock, SaveSlots, Save, DropLock, registryVars, routerVars, observed
<1>3. CASE StopDaemon
  BY <1>3 DEF StopDaemon
<1>4. CASE RestartDaemon
  BY <1>4 DEF RestartDaemon, Restart, ShapeInv, routerVars
<1>5. ASSUME NEW e \in Events \cup {None}, Publish(e)  PROVE UntouchedInv'
  BY <1>5 DEF Publish, managerVars, registryVars
<1>6. CASE Connect \/ LoseConnection \/ EndSession
  BY <1>6 DEF Connect, LoseConnection, EndSession, managerVars, registryVars, observed
<1>7. CASE Receive
  <2>1. slots' = slots
    BY <1>7 DEF Receive, managerVars, registryVars
  <2>2. CASE UNCHANGED <<current, tasks, touched>>
    BY <1>7, <2>2, Received
  <2>3. CASE /\ current' = Head(inbox) /\ Head(inbox).event \in Events
             /\ tasks' = [i \in Ids |-> IF i \in Matched(Head(inbox).event)
                                        THEN "spawned" ELSE "none"]
    <3>1. Head(inbox).event # None
      BY <2>3, RouterAssumption
    <3>2. \A i \in Ids : Matches(slots[i], Head(inbox).event) =>
            i \in Matched(Head(inbox).event)
      BY <3>1 DEF Matched
    <3> QED  BY <2>1, <2>3, <3>2 DEF Matches, Runnable
  <2> QED  BY <1>7, <2>2, <2>3, Received
<1>8. ASSUME NEW id \in Ids, RefuseRun(id)  PROVE UntouchedInv'
  <2>1. \A i \in Ids : i # id => tasks'[i] = tasks[i]
    BY <1>8 DEF RefuseRun, RouterTypeOK
  <2>2. \A e : ~ Matches(slots[id], e)
    BY <1>8 DEF RefuseRun, Matches
  <2>3. UNCHANGED <<slots, current, runs, touched>>
    BY <1>8 DEF RefuseRun, managerVars, registryVars, observed
  <2> QED  BY <2>1, <2>2, <2>3 DEF Matches, Runnable
<1>9. ASSUME NEW id \in Ids, FinishRun(id)  PROVE UntouchedInv'
  <2>1. /\ \A i \in Ids : i # id => tasks'[i] = tasks[i]
        /\ tasks[id] = "running" /\ tasks'[id] = "done"
    BY <1>9 DEF FinishRun, RouterTypeOK
  <2>2. UNCHANGED <<slots, current, runs, touched>>
    BY <1>9 DEF FinishRun, managerVars, registryVars, observed
  <2> QED  BY <2>1, <2>2 DEF Matches, Runnable
<1>10. CASE JoinAll
  BY <1>10 DEF JoinAll
<1>11. CASE UNCHANGED routingVars
  BY <1>11
  DEF routingVars, managerVars, registryVars, routerVars, observed, Matches, Runnable
<1> QED
  BY <1>1, <1>2, <1>3, <1>4, <1>5, <1>6, <1>7, <1>8, <1>9, <1>10, <1>11,
     UntouchedStart DEF RouterNext, Task, LookUp

-----------------------------------------------------------------------------
(***************************************************************************)
(* Theorems about the router.                                              *)
(***************************************************************************)
RouterInv == RouterTypeOK /\ ShapeInv /\ OrderInv /\ OnceInv /\ UntouchedInv

LEMMA RouterInvInit == RouterInit => RouterInv
<1> SUFFICES ASSUME RouterInit PROVE RouterInv
  OBVIOUS
<1>1. RouterTypeOK
  <2>1. RegistryTypeOK
    BY DEF RouterInit, RegistryInit, RegistryTypeOK, Empty
  <2>2. inbox \in Seq(Message) /\ runs \in Seq(RunOf)
    BY DEF RouterInit
  <2>3. published \in 0..MaxEvents /\ changes \in 0..MaxChanges
    BY RouterAssumption DEF RouterInit
  <2>4. tasks \in [Ids -> {"none", "spawned", "running", "done"}]
    BY DEF RouterInit, NoTasks
  <2> QED  BY <2>1, <2>2, <2>3, <2>4 DEF RouterInit, RouterTypeOK
<1>2. ShapeInv /\ UntouchedInv
  BY DEF RouterInit, RegistryInit, ShapeInv, UntouchedInv
<1>3. OrderInv /\ OnceInv
  BY DEF RouterInit, OrderInv, OnceInv, RunsFollowPublication, NoDuplicateRuns
<1> QED  BY <1>1, <1>2, <1>3 DEF RouterInv

LEMMA RouterInvStep == RouterInv /\ [RouterNext]_routingVars => RouterInv'
BY TypeStep, ShapeStep, OrderStep, UntouchedStep DEF RouterInv

LEMMA RouterInvariance == RouterSpec => []RouterInv
BY RouterInvInit, RouterInvStep, PTL DEF RouterSpec

\* Every state of the router and of the slots under it is well formed.
THEOREM RouterTypeCorrect == RouterSpec => []RouterTypeOK
<1>1. RouterInv => RouterTypeOK
  BY DEF RouterInv
<1> QED  BY RouterInvariance, <1>1, PTL

\* At-most-once, over lost sessions, restarts and concurrent changes of the slots:
\* no message starts two runs of one deployment (run_router).
THEOREM AtMostOnce == RouterSpec => []NoDuplicateRuns
<1>1. RouterInv => NoDuplicateRuns
  BY DEF RouterInv, OnceInv
<1> QED  BY RouterInvariance, <1>1, PTL

\* The runs of one event start after those of all earlier events (join_all).
THEOREM InOrder == RouterSpec => []RunsFollowPublication
<1>1. RouterInv => RunsFollowPublication
  BY DEF RouterInv, OrderInv
<1> QED  BY RouterInvariance, <1>1, PTL

\* When the router is done with an event, each deployment that matches and was
\* not changed meanwhile has been run on it (matching_deployments, run_as).
THEOREM UntouchedAreRun == RouterSpec => UntouchedMatchesRun
<1>1. ASSUME RouterInv, [RouterNext]_routingVars, up', current # None, current' = None,
             NEW id \in Ids \ touched, Matches(slots[id], current.event)
      PROVE  \E i \in DOMAIN runs :
               /\ runs[i].n = current.n
               /\ runs[i].id = id
               /\ runs[i].slot = slots[id]
  <2>1. CASE JoinAll
    <3>1. tasks[id] \in {"none", "done"}
      BY <2>1 DEF JoinAll
    <3>2. tasks[id] # "none" /\ (tasks[id] \in {"running", "done"} => HasRun(id))
      BY <1>1 DEF RouterInv, UntouchedInv
    <3> QED  BY <3>1, <3>2 DEF HasRun
  <2>2. CASE StopDaemon
    BY <1>1, <2>2 DEF StopDaemon, Stop
  <2>3. CASE Receive
    BY <1>1, <2>3 DEF Receive
  <2> QED
    BY <1>1, <2>1, <2>2, <2>3
    DEF RouterNext, TakeLock, ChangeSlot, SaveSlots, DropLock, RestartDaemon, Publish,
        Connect, LoseConnection, EndSession, Task, LookUp, StartRun, RefuseRun, FinishRun, routingVars, routerVars
<1>2. RouterInv /\ [RouterNext]_routingVars =>
        [up' /\ current # None /\ current' = None =>
           \A id \in Ids \ touched :
             Matches(slots[id], current.event) =>
               \E i \in DOMAIN runs :
                 /\ runs[i].n = current.n
                 /\ runs[i].id = id
                 /\ runs[i].slot = slots[id]]_routingVars
  BY <1>1
<1> QED  BY RouterInvariance, <1>2, PTL DEF RouterSpec, UntouchedMatchesRun

-----------------------------------------------------------------------------
(***************************************************************************)
(* The server.  What one read returns is either the request as far as its  *)
(* route goes or has no credentials (CutsAreHarmless); that an effect is of an *)
(* authorized read of what was sent, and that the status goes with the effect, *)
(* is inductive for each thread.                                           *)
(***************************************************************************)
Honest(t) ==
  conn[t] = "reply" /\ status[t] # 500 /\ Intent(seen[t]) # None =>
    (effect[t] = Intent(seen[t]) <=> status[t] < 300)

At(t) ==
  /\ conn[t] \in {"free", "open", "read"} => effect[t] = None
  /\ conn[t] \in {"read", "saving", "reply"} =>
       sent[t] # None /\ seen[t] # None /\ seen[t] \in Reads(sent[t])
  /\ conn[t] = "saving" => effect[t] # None /\ effect[t].kind # "run"
  /\ effect[t] # None => effect[t] = Intent(seen[t]) /\ Authorized(seen[t])
  /\ Honest(t)

Inv == \A t \in Threads : At(t)

-----------------------------------------------------------------------------
(***************************************************************************)
(* What one read returns.                                                  *)
(***************************************************************************)
LEMMA RequestParts ==
  ASSUME NEW r \in Request
  PROVE  /\ r = [method |-> r.method, path |-> r.path, id |-> r.id, body |-> r.body,
                 headers |-> r.headers, long |-> r.long]
         /\ r.method \in Methods /\ r.path \in Paths /\ r.id \in Ids
         /\ r.body \in Body \cup {None} /\ r.long \in BOOLEAN
         /\ r.headers \in [Headers -> {"right", "wrong", None}]
BY DEF Request

\* A cut in the body or in the headers leaves the route; what is there of the
\* credentials was sent.
LEMMA CutsInHeaders ==
  ASSUME NEW r \in Request, NEW s \in CutInBody(r) \cup CutInHeaders(r)
  PROVE  /\ s \in Request
         /\ s.method = r.method /\ s.path = r.path /\ s.id = r.id
         /\ \A h \in Headers : s.headers[h] = "right" => r.headers[h] = "right"
<1>1. CASE s \in CutInBody(r)
  <2>1. s = [method |-> r.method, path |-> r.path, id |-> r.id, body |-> None,
             headers |-> r.headers, long |-> r.long]
    BY <1>1, RequestParts DEF CutInBody
  <2> QED  BY <2>1, RequestParts DEF Request
<1>2. CASE s \in CutInHeaders(r)
  <2>1. PICK hs \in [Headers -> {"right", "wrong", None}] :
          /\ \A h \in Headers :
               hs[h] \in (IF r.headers[h] = None THEN {None}
                          ELSE {r.headers[h], "wrong", None})
          /\ s = [r EXCEPT !.body = None, !.headers = hs]
    BY <1>2 DEF CutInHeaders
  <2>2. s = [method |-> r.method, path |-> r.path, id |-> r.id, body |-> None,
             headers |-> hs, long |-> r.long]
    <3> DEFINE all == [method |-> r.method, path |-> r.path, id |-> r.id, body |-> r.body,
                       headers |-> r.headers, long |-> r.long]
    <3> DEFINE cut == [method |-> r.method, path |-> r.path, id |-> r.id, body |-> None,
                       headers |-> r.headers, long |-> r.long]
    <3>4. [all EXCEPT !.body = None] = cut
      OBVIOUS
    <3>5. [cut EXCEPT !.headers = hs] =
            [method |-> r.method, path |-> r.path, id |-> r.id, body |-> None,
             headers |-> hs, long |-> r.long]
      OBVIOUS
    <3>1. [all EXCEPT !.body = None, !.headers = hs] =
            [method |-> r.method, path |-> r.path, id |-> r.id, body |-> None,
             headers |-> hs, long |-> r.long]
      <4>1. [all EXCEPT !.body = None, !.headers = hs] =
              [[all EXCEPT !.body = None] EXCEPT !.headers = hs]
        <5> HIDE DEF all
        <5> QED  OBVIOUS
      <4> HIDE DEF all, cut
      <4> QED  BY <4>1, <3>4, <3>5
    <3>2. r = all
      BY RequestParts
    <3> HIDE DEF all
    <3> QED  BY <2>1, <3>1, <3>2
  <2>3. \A h \in Headers : hs[h] = "right" => r.headers[h] = "right"
    BY <2>1, ServerAssumption
  <2> QED  BY <2>2, <2>3, RequestParts DEF Request
<1> QED  BY <1>1, <1>2

\* A cut in the request line leaves no headers.
LEMMA CutsInLine ==
  ASSUME NEW r \in Request, NEW s \in CutInLine(r)
  PROVE  s \in Request /\ \A h \in Headers : s.headers[h] # "right"
<1>1. PICK m \in Methods, p \in Paths, i \in Ids :
        s = [r EXCEPT !.body = None, !.headers = NoHeaders,
                      !.method = m, !.path = p, !.id = i]
  <2> DEFINE line(m, p, i) == [r EXCEPT !.body = None, !.headers = NoHeaders,
                                        !.method = m, !.path = p, !.id = i]
  <2>1. s \in {line(m, "other", r.id) : m \in {"other"} \cup ({r.method} \cap {"OPTIONS"})}
             \cup (IF r.path \in {"item", "run"}
                   THEN {line(r.method, "deployments", r.id)}
                          \cup {line(r.method, "item", i) :
                                  i \in Prefixes[r.id]
                                          \cup (IF r.path = "run" THEN {r.id} ELSE {})}
                   ELSE {})
    BY DEF CutInLine
  <2>2. r.method \in Methods /\ r.id \in Ids /\ Prefixes[r.id] \subseteq Ids
    BY RequestParts, ServerAssumption
  <2> HIDE DEF line
  <2>3. \E m \in Methods, p \in Paths, i \in Ids : s = line(m, p, i)
    <3>1. CASE s \in {line(m, "other", r.id) : m \in {"other"} \cup ({r.method} \cap {"OPTIONS"})}
      <4>1. PICK m \in {"other"} \cup ({r.method} \cap {"OPTIONS"}) : s = line(m, "other", r.id)
        BY <3>1
      <4>2. m \in Methods /\ "other" \in Paths
        BY <2>2 DEF Methods, Paths
      <4> QED  BY <2>2, <4>1, <4>2
    <3>2. CASE s = line(r.method, "deployments", r.id)
      <4>1. "deployments" \in Paths
        BY DEF Paths
      <4> QED  BY <2>2, <3>2, <4>1
    <3>3. CASE \E i \in Prefixes[r.id] \cup {r.id} : s = line(r.method, "item", i)
      <4>1. "item" \in Paths
        BY DEF Paths
      <4> QED  BY <2>2, <3>3, <4>1
    <3> QED  BY <2>1, <3>1, <3>2, <3>3
  <2> QED  BY <2>3 DEF line
<1>2. s = [method |-> m, path |-> p, id |-> i, body |-> None,
           headers |-> NoHeaders, long |-> r.long]
  <2> DEFINE all == [method |-> r.method, path |-> r.path, id |-> r.id, body |-> r.body,
                     headers |-> r.headers, long |-> r.long]
  <2> DEFINE noBody == [method |-> r.method, path |-> r.path, id |-> r.id, body |-> None,
                        headers |-> r.headers, long |-> r.long]
             noHead == [method |-> r.method, path |-> r.path, id |-> r.id, body |-> None,
                        headers |-> NoHeaders, long |-> r.long]
             noMethod == [method |-> m, path |-> r.path, id |-> r.id, body |-> None,
                          headers |-> NoHeaders, long |-> r.long]
             noPath == [method |-> m, path |-> p, id |-> r.id, body |-> None,
                        headers |-> NoHeaders, long |-> r.long]
             noId == [method |-> m, path |-> p, id |-> i, body |-> None,
                      headers |-> NoHeaders, long |-> r.long]
  <2>1. [all EXCEPT !.body = None, !.headers = NoHeaders, !.method = m, !.path = p,
                    !.id = i] = noId
    <3>1. [all EXCEPT !.body = None] = noBody
      OBVIOUS
    <3>2. [noBody EXCEPT !.headers = NoHeaders] = noHead
      OBVIOUS
    <3>3. [noHead EXCEPT !.method = m] = noMethod
      OBVIOUS
    <3>4. [noMethod EXCEPT !.path = p] = noPath
      OBVIOUS
    <3>5. [noPath EXCEPT !.id = i] = noId
      OBVIOUS
    <3> HIDE DEF all, noBody, noHead, noMethod, noPath, noId
    <3>6. [all EXCEPT !.body = None, !.headers = NoHeaders, !.method = m, !.path = p,
                      !.id = i] =
            [[[[[all EXCEPT !.body = None] EXCEPT !.headers = NoHeaders]
                EXCEPT !.method = m] EXCEPT !.path = p] EXCEPT !.id = i]
      OBVIOUS
    <3> QED  BY <3>1, <3>2, <3>3, <3>4, <3>5, <3>6
  <2>2. r = all
    BY RequestParts
  <2> HIDE DEF all
  <2> QED  BY <1>1, <2>1, <2>2
<1>3. /\ NoHeaders \in [Headers -> {"right", "wrong", None}]
      /\ \A h \in Headers : NoHeaders[h] # "right"
  BY ServerAssumption DEF NoHeaders
<1>4. r.long \in BOOLEAN
  BY RequestParts
<1> QED  BY <1>2, <1>3, <1>4 DEF Request

\* What has the secret's credentials has the route that was sent, and these
\* credentials were sent.
LEMMA CutsAreHarmless ==
  ASSUME NEW r \in Request, NEW s \in Reads(r)
  PROVE  /\ s \in Request
         /\ Secret /\ Authorized(s) =>
              Intent(s) = Intent(r) /\ \E h \in Headers : r.headers[h] = "right"
<1>1. CASE s = r
  BY <1>1 DEF Authorized
<1>2. CASE s \in CutInBody(r) \cup CutInHeaders(r)
  BY <1>2, CutsInHeaders DEF Authorized, Intent
<1>3. CASE s \in CutInLine(r)
  BY <1>3, CutsInLine DEF Authorized
<1> QED  BY <1>1, <1>2, <1>3 DEF Reads

-----------------------------------------------------------------------------
(***************************************************************************)
(* Requests and replies.                                                   *)
(***************************************************************************)
LEMMA Intents ==
  ASSUME NEW r \in Request
  PROVE  /\ Intent(r) \in Effect \cup {None}
         /\ r.method = "POST" /\ r.path = "deployments" =>
              Intent(r) = [kind |-> "deploy", id |-> r.id]
         /\ r.method = "PUT" /\ r.path = "item" =>
              Intent(r) = [kind |-> "upgrade", id |-> r.id]
         /\ r.method = "DELETE" /\ r.path = "item" =>
              Intent(r) = [kind |-> "remove", id |-> r.id]
         /\ r.method = "POST" /\ r.path = "run" =>
              Intent(r) = [kind |-> "run", id |-> r.id]
         /\ r.method \in {"GET", "OPTIONS"} \/ r.path = "health" => Intent(r) = None
<1>1. r.id \in Ids
  BY RequestParts
<1> QED  BY <1>1 DEF Intent, Effect

LEMMA Effects == \A e \in Effect : e # None
BY ServerAssumption DEF Effect

LEMMA SourceErrors ==
  ASSUME NEW b \in Body
  PROVE  /\ SourceError(b.source) \in {0, 400, 422, 502}
         /\ SourceError(b.source) = 0 => b.source \in Loadable
         /\ b.tenant \in Tenants /\ b.environment \in Environments \cup {None}
<1>1. /\ b.source \in Loadable \cup {Unfetchable, Unloadable, None}
      /\ b.tenant \in Tenants /\ b.environment \in Environments \cup {None}
  BY DEF Body
<1> QED  BY <1>1, ServerAssumption DEF SourceError

LEMMA DeployErrors ==
  ASSUME NEW b \in Body \cup {None}, NEW id
  PROVE  /\ DeployError(b, id) \in {0, 400, 409, 422, 500, 502}
         /\ DeployError(b, id) = 0 => b # None /\ b.source \in Loadable
<1>1. CASE b = None
  BY <1>1 DEF DeployError
<1>2. CASE b # None
  BY <1>2, SourceErrors, ServerAssumption DEF DeployError
<1> QED  BY <1>1, <1>2

LEMMA UpgradeErrors ==
  ASSUME NEW b \in Body \cup {None}, NEW id
  PROVE  /\ UpgradeError(b, id) \in {0, 400, 404, 422, 500, 502}
         /\ UpgradeError(b, id) = 0 => b # None /\ b.source \in Loadable
<1>1. CASE b = None
  BY <1>1 DEF UpgradeError
<1>2. CASE b # None
  BY <1>2, SourceErrors DEF UpgradeError
<1> QED  BY <1>1, <1>2

\* A thread that does not move keeps its invariant.
LEMMA AtKept ==
  ASSUME NEW t \in Threads, At(t), conn'[t] = conn[t], sent'[t] = sent[t],
         seen'[t] = seen[t], status'[t] = status[t], effect'[t] = effect[t]
  PROVE  At(t)'
BY DEF At, Honest

\* What a reply without an effect needs to be honest.
LEMMA Refused ==
  ASSUME TypeOK, Inv, NEW t \in Threads, conn[t] = "read",
         NEW code \in Statuses \ {0}, code >= 300 \/ Intent(seen[t]) = None,
         Replies(t, code)
  PROVE  TypeOK' /\ Inv'
<1>1. /\ conn' = [conn EXCEPT ![t] = "reply"] /\ status' = [status EXCEPT ![t] = code]
      /\ UNCHANGED <<registryVars, sent, seen, poisoned, accepted, effect>>
  BY DEF Replies, Set
<1>2. TypeOK'
  BY <1>1 DEF TypeOK, RegistryTypeOK, registryVars
<1>3. ASSUME NEW u \in Threads, u # t  PROVE At(u)'
  BY <1>1, <1>3, AtKept DEF Inv, TypeOK
<1>4. conn'[t] = "reply" /\ status'[t] = code
  BY <1>1 DEF TypeOK
<1>5. At(t) /\ effect[t] = None
  BY DEF Inv, At
<1>6. code < 300 => Intent(seen[t]) = None
  BY DEF Statuses
<1>7. Honest(t)'
  BY <1>1, <1>4, <1>5, <1>6 DEF Honest
<1>8. At(t)'
  BY <1>1, <1>4, <1>5, <1>7 DEF At
<1> QED  BY <1>2, <1>3, <1>8 DEF Inv

\* What a change in memory needs to be what was asked for.
LEMMA Made ==
  ASSUME TypeOK, Inv, NEW t \in Threads, NEW kind \in {"deploy", "upgrade", "remove"},
         conn[t] = "read", Authorized(seen[t]),
         Intent(seen[t]) = [kind |-> kind, id |-> seen[t].id],
         seen[t].id \in Ids, RegistryTypeOK', Changed(t, kind)
  PROVE  TypeOK' /\ Inv'
<1> DEFINE e == [kind |-> kind, id |-> seen[t].id]
<1>1. /\ conn' = [conn EXCEPT ![t] = "saving"] /\ effect' = [effect EXCEPT ![t] = e]
      /\ UNCHANGED <<sent, seen, status, poisoned, accepted>>
  BY DEF Changed
<1>2. e \in Effect /\ e # None /\ e.kind # "run"
  BY Effects DEF Effect
<1>3. TypeOK'
  BY <1>1, <1>2 DEF TypeOK
<1>4. ASSUME NEW u \in Threads, u # t  PROVE At(u)'
  BY <1>1, <1>4, AtKept DEF Inv, TypeOK
<1>5. conn'[t] = "saving" /\ effect'[t] = e
  BY <1>1 DEF TypeOK
<1>6. At(t)
  BY DEF Inv
<1> HIDE DEF e
<1>7. Intent(seen[t]) = e
  BY DEF e
<1>8. At(t)'
  BY <1>1, <1>2, <1>5, <1>6, <1>7 DEF At, Honest
<1> QED  BY <1>3, <1>4, <1>8 DEF Inv

\* What a thread has read.
LEMMA SeenParts ==
  ASSUME TypeOK, Inv, NEW t \in Threads, conn[t] \in {"read", "saving", "reply"}
  PROVE  /\ sent[t] \in Request /\ seen[t] \in Reads(sent[t]) /\ seen[t] \in Request
         /\ seen[t].id \in Ids /\ seen[t].body \in Body \cup {None}
<1>1. sent[t] \in Request /\ seen[t] \in Reads(sent[t])
  BY ServerAssumption DEF TypeOK, Inv, At
<1>2. seen[t] \in Request
  BY <1>1, CutsAreHarmless
<1> QED  BY <1>1, <1>2, RequestParts

LEMMA Registry ==
  ASSUME TypeOK,
         Change \/ Save \/ Stop \/ Restart \/ UNCHANGED registryVars
  PROVE  RegistryTypeOK'
BY RegistryTypes DEF TypeOK

-----------------------------------------------------------------------------
(***************************************************************************)
(* The handlers.                                                           *)
(***************************************************************************)
LEMMA Views ==
  ASSUME TypeOK, Inv, NEW t \in Threads,
         Preflight(t) \/ Health(t) \/ Unauthorized(t) \/ NoRoute(t) \/ List(t) \/ Get(t)
  PROVE  TypeOK' /\ Inv'
<1>1. conn[t] = "read"
  BY DEF Preflight, Health, Unauthorized, NoRoute, List, Get, Routed
<1>2. seen[t] \in Request
  BY <1>1, SeenParts
<1>3. seen[t].method \in {"GET", "OPTIONS"} \/ seen[t].path = "health" => Intent(seen[t]) = None
  BY <1>2, Intents
<1>4. {200, 204, 401, 404, 405} \subseteq Statuses \ {0}
  BY DEF Statuses
<1>5. CASE Preflight(t)
  BY <1>1, <1>3, <1>4, <1>5, Refused DEF Preflight
<1>6. CASE Health(t)
  BY <1>1, <1>3, <1>4, <1>6, Refused DEF Health
<1>7. CASE Unauthorized(t)
  BY <1>1, <1>4, <1>7, Refused DEF Unauthorized
<1>8. CASE NoRoute(t)
  <2>1. \E code \in {404, 405} : Replies(t, code)
    BY <1>8 DEF NoRoute
  <2> QED  BY <1>1, <1>4, <2>1, Refused
<1>9. CASE List(t) \/ Get(t)
  <2>1. \E code \in {200, 404} : Replies(t, code)
    BY <1>9 DEF List, Get
  <2>2. Intent(seen[t]) = None
    BY <1>3, <1>9 DEF List, Get, Routed
  <2> QED  BY <1>1, <1>4, <2>1, <2>2, Refused
<1> QED  BY <1>5, <1>6, <1>7, <1>8, <1>9

LEMMA Changes ==
  ASSUME TypeOK, Inv, NEW t \in Threads, PostDeploy(t) \/ PutUpgrade(t) \/ DeleteItem(t)
  PROVE  TypeOK' /\ Inv'
<1>1. conn[t] = "read" /\ Authorized(seen[t])
  BY DEF PostDeploy, PutUpgrade, DeleteItem, Routed
<1>2. /\ seen[t] \in Request /\ seen[t].id \in Ids
      /\ seen[t].body \in Body \cup {None}
  BY <1>1, SeenParts
<1> DEFINE b == seen[t].body
           id == seen[t].id
<1>3. {400, 404, 409, 422, 500, 502} \subseteq Statuses \ {0}
  BY DEF Statuses
<1>4. ASSUME NEW code \in {400, 404, 409, 422, 500, 502}, Replies(t, code)
      PROVE  TypeOK' /\ Inv'
  BY <1>1, <1>3, <1>4, Refused
<1>5. CASE PostDeploy(t)
  <2>1. Intent(seen[t]) = [kind |-> "deploy", id |-> id]
    BY <1>2, <1>5, Intents DEF PostDeploy, Routed
  <2>2. CASE DeployError(b, id) # 0
    <3>1. DeployError(b, id) \in {400, 409, 422, 500, 502} /\ Replies(t, DeployError(b, id))
      BY <1>2, <1>5, <2>2, DeployErrors DEF PostDeploy
    <3> QED  BY <1>4, <3>1
  <2>3. CASE DeployError(b, id) = 0
    <3>1. b \in Body /\ b.source \in Loadable
      BY <1>2, <2>3, DeployErrors
    <3>2. /\ Deploy(id, b.tenant, b.environment, b.source) /\ Changed(t, "deploy")
      BY <1>5, <2>3 DEF PostDeploy
    <3>3. RegistryTypeOK'
      BY <1>2, <3>1, <3>2, SourceErrors, Registry DEF Change
    <3> QED  BY <1>1, <1>2, <2>1, <3>2, <3>3, Made
  <2> QED  BY <2>2, <2>3
<1>6. CASE PutUpgrade(t)
  <2>1. Intent(seen[t]) = [kind |-> "upgrade", id |-> id]
    BY <1>2, <1>6, Intents DEF PutUpgrade, Routed
  <2>2. CASE UpgradeError(b, id) # 0
    <3>1. UpgradeError(b, id) \in {400, 404, 422, 500, 502} /\ Replies(t, UpgradeError(b, id))
      BY <1>2, <1>6, <2>2, UpgradeErrors DEF PutUpgrade
    <3> QED  BY <1>4, <3>1
  <2>3. CASE UpgradeError(b, id) = 0
    <3>1. b.source \in Loadable
      BY <1>2, <2>3, UpgradeErrors
    <3>2. Upgrade(id, b.source) /\ Changed(t, "upgrade")
      BY <1>6, <2>3 DEF PutUpgrade
    <3>3. RegistryTypeOK'
      BY <1>2, <3>1, <3>2, Registry DEF Change
    <3> QED  BY <1>1, <1>2, <2>1, <3>2, <3>3, Made
  <2> QED  BY <2>2, <2>3
<1>7. CASE DeleteItem(t)
  <2>1. Intent(seen[t]) = [kind |-> "remove", id |-> id]
    BY <1>2, <1>7, Intents DEF DeleteItem, Routed
  <2>2. CASE Replies(t, 500) \/ Replies(t, 404)
    BY <1>4, <2>2
  <2>3. CASE Remove(id) /\ Changed(t, "remove")
    <3>1. RegistryTypeOK'
      BY <1>2, <2>3, Registry DEF Change
    <3> QED  BY <1>1, <1>2, <2>1, <2>3, <3>1, Made
  <2> QED  BY <1>7, <2>2, <2>3 DEF DeleteItem
<1> QED  BY <1>5, <1>6, <1>7

LEMMA Runs ==
  ASSUME TypeOK, Inv, NEW t \in Threads, PostRun(t)
  PROVE  TypeOK' /\ Inv'
<1>1. conn[t] = "read" /\ Authorized(seen[t])
  BY DEF PostRun, Routed
<1>2. seen[t] \in Request /\ seen[t].id \in Ids
  BY <1>1, SeenParts
<1> DEFINE e == [kind |-> "run", id |-> seen[t].id]
<1>3. Intent(seen[t]) = e
  BY <1>2, Intents DEF PostRun, Routed
<1>4. CASE \E code \in {400, 500, 404, 409, 503, 422} : Replies(t, code)
  <2>1. PICK code \in {400, 500, 404, 409, 503, 422} : Replies(t, code)
    BY <1>4
  <2>2. code \in Statuses \ {0} /\ code >= 300
    BY DEF Statuses
  <2> QED  BY <1>1, <2>1, <2>2, Refused
<1>5. CASE /\ effect' = [effect EXCEPT ![t] = e]
           /\ \E code \in {200, 500} : Set(t, "reply", code)
           /\ UNCHANGED <<registryVars, sent, seen, poisoned, accepted>>
  <2>1. PICK code \in {200, 500} :
          conn' = [conn EXCEPT ![t] = "reply"] /\ status' = [status EXCEPT ![t] = code]
    BY <1>5 DEF Set
  <2>2. e \in Effect /\ e # None /\ code \in Statuses
    BY <1>2, Effects DEF Effect, Statuses
  <2>3. RegistryTypeOK'
    BY <1>5, Registry
  <2>4. TypeOK'
    BY <1>5, <2>1, <2>2, <2>3 DEF TypeOK
  <2>5. ASSUME NEW u \in Threads, u # t  PROVE At(u)'
    BY <1>5, <2>1, <2>5, AtKept DEF Inv, TypeOK
  <2>6. conn'[t] = "reply" /\ effect'[t] = e /\ status'[t] = code /\ seen'[t] = seen[t]
    BY <1>5, <2>1 DEF TypeOK
  <2>7. At(t)
    BY DEF Inv
  <2> HIDE DEF e
  <2>8. At(t)'
    BY <1>1, <1>3, <1>5, <2>2, <2>6, <2>7 DEF At, Honest
  <2> QED  BY <2>4, <2>5, <2>8 DEF Inv
<1> QED
  <2>1. \/ \E code \in {400, 500, 404, 409, 503, 422} : Replies(t, code)
        \/ /\ effect' = [effect EXCEPT ![t] = e]
           /\ \E code \in {200, 500} : Set(t, "reply", code)
           /\ UNCHANGED <<registryVars, sent, seen, poisoned, accepted>>
    BY DEF PostRun
  <2> QED  BY <1>4, <1>5, <2>1

\* The end of a connection, whatever becomes of the lock.
LEMMA Closes ==
  ASSUME TypeOK, Inv, NEW t \in Threads, Close(t), UNCHANGED <<registryVars, accepted>>,
         poisoned' \in BOOLEAN
  PROVE  TypeOK' /\ Inv'
<1>1. /\ conn' = [conn EXCEPT ![t] = "free"] /\ status' = [status EXCEPT ![t] = 0]
      /\ sent' = [sent EXCEPT ![t] = None] /\ seen' = [seen EXCEPT ![t] = None]
      /\ effect' = [effect EXCEPT ![t] = None]
  BY DEF Close, Set
<1>2. TypeOK'
  BY <1>1 DEF TypeOK, RegistryTypeOK, registryVars, Statuses
<1>3. ASSUME NEW u \in Threads, u # t  PROVE At(u)'
  BY <1>1, <1>3, AtKept DEF Inv, TypeOK
<1>4. conn'[t] = "free" /\ effect'[t] = None
  BY <1>1 DEF TypeOK
<1>5. At(t)'
  BY <1>4 DEF At, Honest
<1> QED  BY <1>2, <1>3, <1>5 DEF Inv

LEMMA Persists ==
  ASSUME TypeOK, Inv, NEW t \in Threads, Persist(t)
  PROVE  TypeOK' /\ Inv'
<1>1. At(t) /\ conn[t] = "saving" /\ effect[t] # None /\ effect[t].kind # "run"
  BY DEF Persist, Inv, At
<1>2. effect[t].kind \in {"deploy", "upgrade", "remove"}
  BY <1>1 DEF TypeOK, Effect
<1>3. RegistryTypeOK'
  BY Registry DEF Persist
<1>4. PICK code \in {200, 201, 204, 500} :
        conn' = [conn EXCEPT ![t] = "reply"] /\ status' = [status EXCEPT ![t] = code]
  BY <1>2 DEF Persist, Set, PersistStatus
<1>5. UNCHANGED <<sent, seen, poisoned, accepted, effect>>
  BY DEF Persist
<1>6. TypeOK'
  BY <1>3, <1>4, <1>5 DEF TypeOK, Statuses
<1>7. ASSUME NEW u \in Threads, u # t  PROVE At(u)'
  BY <1>4, <1>5, <1>7, AtKept DEF Inv, TypeOK
<1>8. conn'[t] = "reply" /\ status'[t] = code
  BY <1>4 DEF TypeOK
<1>9. At(t)'
  BY <1>1, <1>5, <1>8 DEF At, Honest
<1> QED  BY <1>6, <1>7, <1>9 DEF Inv

-----------------------------------------------------------------------------
(***************************************************************************)
(* Theorems about the server.                                              *)
(***************************************************************************)
IInv == TypeOK /\ Inv

LEMMA InvInit == Init => IInv
<1> SUFFICES ASSUME Init PROVE IInv
  OBVIOUS
<1>1. RegistryTypeOK
  <2>1. [tenant : Tenants, environment : Environments \cup {None}, version : {1}]
          \subseteq Saved
    BY DEF Saved
  <2> QED  BY <2>1 DEF Init, RegistryTypeOK, Empty
<1>2. TypeOK
  <2>1. /\ conn \in [Threads -> {"free", "open", "read", "saving", "reply"}]
        /\ poisoned \in BOOLEAN
    BY DEF Init, ServerInit
  <2>2. /\ sent \in [Threads -> Requests \cup {None}]
        /\ seen \in [Threads -> Request \cup {None}]
        /\ effect \in [Threads -> Effect \cup {None}]
    BY DEF Init, ServerInit, Nobody
  <2>3. status \in [Threads -> Statuses]
    BY DEF Init, ServerInit, NoStatus, Statuses
  <2>4. accepted \in 0..MaxConnections
    BY ServerAssumption DEF Init, ServerInit
  <2> QED  BY <1>1, <2>1, <2>2, <2>3, <2>4 DEF TypeOK
<1>3. Inv
  BY DEF Init, ServerInit, Inv, At, Honest, Nobody
<1> QED  BY <1>2, <1>3 DEF IInv

LEMMA InvStep ==
  ASSUME TypeOK, Inv, [Next]_vars
  PROVE  TypeOK' /\ Inv'
<1>1. ASSUME NEW t \in Threads, Accept(t)  PROVE TypeOK' /\ Inv'
  <2>1. PICK r \in Requests \cup {None} : sent' = [sent EXCEPT ![t] = r]
    BY <1>1 DEF Accept
  <2>2. /\ conn' = [conn EXCEPT ![t] = "open"] /\ status' = [status EXCEPT ![t] = 0]
        /\ UNCHANGED <<registryVars, seen, poisoned, effect>>
        /\ accepted' \in 0..MaxConnections
    BY <1>1, ServerAssumption DEF Accept, Set, TypeOK
  <2>3. TypeOK'
    BY <2>1, <2>2 DEF TypeOK, RegistryTypeOK, registryVars, Statuses
  <2>4. ASSUME NEW u \in Threads, u # t  PROVE At(u)'
    BY <2>1, <2>2, <2>4, AtKept DEF Inv, TypeOK
  <2>5. conn'[t] = "open" /\ effect[t] = None
    BY <1>1, <2>2 DEF Accept, TypeOK, Inv, At
  <2>6. At(t)'
    BY <2>2, <2>5 DEF At, Honest
  <2> QED  BY <2>3, <2>4, <2>6 DEF Inv
<1>2. ASSUME NEW t \in Threads, Read(t)  PROVE TypeOK' /\ Inv'
  <2>1. PICK r \in Reads(sent[t]) : seen' = [seen EXCEPT ![t] = r]
    BY <1>2 DEF Read
  <2>2. /\ conn' = [conn EXCEPT ![t] = "read"]
        /\ UNCHANGED <<registryVars, sent, status, poisoned, accepted, effect>>
        /\ conn[t] = "open" /\ sent[t] # None
    BY <1>2 DEF Read
  <2>3. sent[t] \in Request
    BY <2>2, ServerAssumption DEF TypeOK
  <2>4. r \in Request /\ r # None
    BY <2>3, CutsAreHarmless, ServerAssumption
  <2>5. TypeOK'
    BY <2>1, <2>2, <2>4 DEF TypeOK, RegistryTypeOK, registryVars
  <2>6. ASSUME NEW u \in Threads, u # t  PROVE At(u)'
    BY <2>1, <2>2, <2>6, AtKept DEF Inv, TypeOK
  <2>7. conn'[t] = "read" /\ seen'[t] = r /\ effect[t] = None
    BY <2>1, <2>2 DEF TypeOK, Inv, At
  <2>8. At(t)'
    BY <2>2, <2>4, <2>7 DEF At, Honest
  <2> QED  BY <2>5, <2>6, <2>8 DEF Inv
<1>3. ASSUME NEW t \in Threads, ReadFails(t) \/ WriteResponse(t)  PROVE TypeOK' /\ Inv'
  BY <1>3, Closes DEF ReadFails, WriteResponse, TypeOK
<1>4. ASSUME NEW t \in Threads, LoadPanics(t)  PROVE TypeOK' /\ Inv'
  BY <1>4, Closes DEF LoadPanics
<1>5. CASE AcceptFails
  <2>1. RegistryTypeOK'
    BY <1>5, Registry DEF AcceptFails
  <2>2. TypeOK'
    <3>1. status' \in [Threads -> Statuses]
      BY <1>5 DEF AcceptFails, NoStatus, Statuses
    <3>2. /\ sent' \in [Threads -> Requests \cup {None}]
          /\ seen' \in [Threads -> Request \cup {None}]
          /\ effect' \in [Threads -> Effect \cup {None}]
      BY <1>5 DEF AcceptFails, Nobody
    <3>3. /\ conn' \in [Threads -> {"free", "open", "read", "saving", "reply"}]
          /\ poisoned' \in BOOLEAN
          /\ accepted' \in 0..MaxConnections
      BY <1>5 DEF AcceptFails, TypeOK
    <3> QED  BY <2>1, <3>1, <3>2, <3>3 DEF TypeOK
  <2>3. Inv'
    BY <1>5 DEF AcceptFails, Inv, At, Honest, Nobody
  <2> QED  BY <2>2, <2>3
<1>6. CASE Start
  <2>1. RegistryTypeOK'
    BY <1>6, Registry DEF Start
  <2> QED  BY <1>6, <2>1 DEF Start, serverVars, TypeOK, Inv, At, Honest
<1>7. CASE UNCHANGED vars
  <2>1. RegistryTypeOK'
    BY <1>7, Registry DEF vars
  <2> QED  BY <1>7, <2>1 DEF vars, serverVars, TypeOK, Inv, At, Honest
<1> QED
  BY <1>1, <1>2, <1>3, <1>4, <1>5, <1>6, <1>7, Views, Changes, Runs, Persists
  DEF Next, Serve, Handle

LEMMA Invariance == Spec => []IInv
<1>1. IInv /\ [Next]_vars => IInv'
  BY InvStep DEF IInv
<1> QED  BY InvInit, <1>1, PTL DEF Spec

\* Every state of the server and of the slots under it is well formed.
THEOREM TypeCorrect == Spec => []TypeOK
<1>1. IInv => TypeOK
  BY DEF IInv
<1> QED  BY Invariance, <1>1, PTL

\* With a secret, deployments are changed and run only as a client asked who sent
\* it, wherever a read cut the request (handle_deployment_stream, is_authorized).
THEOREM EffectIsAsked == Spec => []EffectIsWhatWasAsked
<1>1. ASSUME IInv, Secret, NEW t \in Threads, effect[t] # None
      PROVE  effect[t] = Intent(sent[t]) /\ \E h \in Headers : sent[t].headers[h] = "right"
  <2>1. conn[t] \in {"saving", "reply"}
    BY <1>1 DEF IInv, Inv, At, TypeOK
  <2>2. sent[t] \in Request /\ seen[t] \in Reads(sent[t])
    BY <1>1, <2>1, SeenParts DEF IInv
  <2>3. effect[t] = Intent(seen[t]) /\ Authorized(seen[t])
    BY <1>1 DEF IInv, Inv, At
  <2> QED  BY <1>1, <2>2, <2>3, CutsAreHarmless
<1>2. IInv => EffectIsWhatWasAsked
  BY <1>1 DEF EffectIsWhatWasAsked
<1> QED  BY Invariance, <1>2, PTL

\* A reply says of a change or a run whether it was made (deploy_error_reply).
THEOREM HonestReplies == Spec => []RepliesAreHonest
<1>1. IInv => RepliesAreHonest
  BY DEF IInv, Inv, At, Honest, RepliesAreHonest
<1> QED  BY Invariance, <1>1, PTL

=============================================================================
