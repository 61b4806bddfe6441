----------------------------- MODULE EventRouter -----------------------------
(***************************************************************************)
(* The business-event router of the daemon, composed with the deployment   *)
(* manager as DeploymentSlots describes it.  One thread receives the       *)
(* events of a NATS subscription one at a time, asks the manager which     *)
(* deployments match, and runs these concurrently, each on a task that     *)
(* looks its slot up again; it waits for all of them before the next event.*)
(***************************************************************************)
EXTENDS DeploymentSlots, Sequences, FiniteSets

CONSTANTS
  Topics,       \* event topics
  Consumes,     \* Consumes[p]: the topics that pack p's subscriptions match
  Events,       \* events that are published
  MaxEvents,    \* bound: messages published in a behaviour
  MaxChanges    \* bound: requests in a behaviour that change a deployment, or try

ASSUME RouterAssumption ==
  /\ Consumes \in [Loadable -> SUBSET Topics]
  /\ Events \subseteq
       [tenant : Tenants, environment : Environments, topic : Topics]
  /\ MaxEvents \in Nat
  /\ MaxChanges \in Nat
  /\ None \notin Events \cup Environments \cup Loadable \cup Slot
  /\ None \notin [n : Nat, event : Events \cup {None}]

VARIABLES
  lock,        \* the write lock of the manager: "free", "held", or "changed" once
               \* its holder has changed a slot
  session,     \* of the subscription: "down", "open" or "ending"
  inbox,       \* messages received and not yet handled, oldest first
  current,     \* the message being routed, None if there is none
  tasks,       \* the task of each id for the current message
  published,   \* messages published so far
  changes,     \* requests so far that took the write lock
  runs,        \* observation: the runs started, in order
  touched      \* observation: ids whose slot changed since the match

routerVars == <<session, inbox, current, tasks>>
observed == <<published, changes, runs, touched>>
managerVars == <<registryVars, lock>>
routingVars == <<managerVars, routerVars, observed>>

\* The n-th message; None is a payload that is not an event envelope.
Message == [n : 1..MaxEvents, event : Events \cup {None}]

RunOf == [n : 1..MaxEvents, id : Ids, event : Events, slot : Slot]

NoTasks == [i \in Ids |-> "none"]

RouterTypeOK ==
  /\ RegistryTypeOK
  /\ lock \in {"free", "held", "changed"}
  /\ session \in {"down", "open", "ending"}
  /\ inbox \in Seq(Message)
  /\ current \in Message \cup {None}
  /\ tasks \in [Ids -> {"none", "spawned", "running", "done"}]
  /\ published \in 0..MaxEvents
  /\ changes \in 0..MaxChanges
  /\ runs \in Seq(RunOf)
  /\ touched \subseteq Ids

RouterInit ==
  /\ RegistryInit
  /\ lock = "free"
  /\ session = "down"
  /\ inbox = <<>>
  /\ current = None
  /\ tasks = NoTasks
  /\ published = 0
  /\ changes = 0
  /\ runs = <<>>
  /\ touched = {}

-----------------------------------------------------------------------------
(***************************************************************************)
(* deploy, upgrade and remove hold the write lock from their first look at *)
(* the slots to their return, a download without a timeout included.       *)
(***************************************************************************)
TakeLock ==
  /\ up
  /\ lock = "free"
  /\ changes < MaxChanges
  /\ lock' = "held"
  /\ changes' = changes + 1
  /\ UNCHANGED <<registryVars, routerVars, published, runs, touched>>

ChangeSlot ==
  /\ lock = "held"
  /\ Change
  /\ lock' = "changed"
  /\ touched' = touched \cup {i \in Ids : slots'[i] # slots[i]}
  /\ UNCHANGED <<routerVars, published, changes, runs>>

SaveSlots ==
  /\ lock = "changed"
  /\ Save
  /\ UNCHANGED <<lock, routerVars, observed>>

\* The request is answered: refused, failed or done, saved or not.
DropLock ==
  /\ lock # "free"
  /\ lock' = "free"
  /\ UNCHANGED <<registryVars, routerVars, observed>>

\* The daemon dies, and with it the subscription's buffer and the tasks.
StopDaemon ==
  /\ Stop
  /\ lock' = "free"
  /\ session' = "down"
  /\ inbox' = <<>>
  /\ current' = None
  /\ tasks' = NoTasks
  /\ touched' = {}
  /\ UNCHANGED <<published, changes, runs>>

RestartDaemon ==
  /\ Restart
  /\ UNCHANGED <<lock, routerVars, observed>>

-----------------------------------------------------------------------------
(***************************************************************************)
(* The subscription.  Core NATS keeps nothing for a subscriber that is not *)
(* there.                                                                  *)
(***************************************************************************)
Publish(e) ==
  /\ published < MaxEvents
  /\ published' = published + 1
  /\ inbox' = IF session = "open"
              THEN Append(inbox, [n |-> published + 1, event |-> e])
              ELSE inbox
  /\ UNCHANGED <<managerVars, session, current, tasks, changes, runs, touched>>

\* run_with_reconnect opens a session ...
Connect ==
  /\ up
  /\ session = "down"
  /\ session' = "open"
  /\ UNCHANGED <<managerVars, inbox, current, tasks, observed>>

\* ... whose connection is lost ...
LoseConnection ==
  /\ session = "open"
  /\ session' = "ending"
  /\ UNCHANGED <<managerVars, inbox, current, tasks, observed>>

\* ... and which ends when the subscriber yields no more messages.
EndSession ==
  /\ session = "ending"
  /\ current = None
  /\ inbox = <<>>
  /\ session' = "down"
  /\ UNCHANGED <<managerVars, inbox, current, tasks, observed>>

-----------------------------------------------------------------------------
(***************************************************************************)
(* The routing loop.                                                       *)
(***************************************************************************)

\* Ready, with a runtime.
Runnable(s) == s # None /\ s.pack # None

\* The filter of matching_deployments; an unset environment is a wildcard.
Matches(s, e) ==
  /\ Runnable(s)
  /\ s.tenant = e.tenant
  /\ s.environment \in {None, e.environment}
  /\ e.topic \in Consumes[s.pack]

\* The manager is asked, under the read lock, which deployments match.
MayAsk(msg) == msg.event # None => lock = "free"

Matched(e) == {i \in Ids : e # None /\ Matches(slots[i], e)}

\* Mutant: the message stays in the buffer, as if it had to be acknowledged.
ReceiveAgain ==
  LET msg == Head(inbox) IN
  /\ current = None
  /\ inbox # <<>>
  /\ MayAsk(msg)
  /\ Matched(msg.event) # {}
  /\ current' = msg
  /\ tasks' = [i \in Ids |-> IF i \in Matched(msg.event)
                             THEN "spawned" ELSE "none"]
  /\ touched' = {}
  /\ UNCHANGED <<managerVars, session, inbox, published, changes, runs>>

\* Mutant: the newest message is taken first.
ReceiveNewest ==
  LET msg == inbox[Len(inbox)] IN
  /\ current = None
  /\ inbox # <<>>
  /\ MayAsk(msg)
  /\ inbox' = SubSeq(inbox, 1, Len(inbox) - 1)
  /\ IF Matched(msg.event) = {}
     THEN UNCHANGED <<current, tasks, touched>>
     ELSE /\ current' = msg
          /\ tasks' = [i \in Ids |-> IF i \in Matched(msg.event)
                                     THEN "spawned" ELSE "none"]
          /\ touched' = {}
  /\ UNCHANGED <<managerVars, session, published, changes, runs>>

\* A message without a match, or that cannot be decoded, is skipped; else one
\* task is spawned for each matching id.
Receive ==
  LET msg == Head(inbox) IN
  /\ current = None
  /\ inbox # <<>>
  /\ MayAsk(msg)
  /\ inbox' = Tail(inbox)
  /\ IF Matched(msg.event) = {}
     THEN UNCHANGED <<current, tasks, touched>>
     ELSE /\ current' = msg
          /\ tasks' = [i \in Ids |-> IF i \in Matched(msg.event)
                                     THEN "spawned" ELSE "none"]
          /\ touched' = {}
  /\ UNCHANGED <<managerVars, session, published, changes, runs>>

\* run_as on the task of id: the slot is looked up by id alone, under the read lock.
StartRun(id) ==
  /\ tasks[id] = "spawned"
  /\ lock = "free"
  /\ Runnable(slots[id])
  /\ tasks' = [tasks EXCEPT ![id] = "running"]
  /\ runs' = Append(runs, [n |-> current.n, id |-> id, event |-> current.event,
                           slot |-> slots[id]])
  /\ UNCHANGED <<managerVars, session, inbox, current, published, changes,
                 touched>>

\* Mutant: a refused run is tried again.
RefuseRunRetried(id) ==
  /\ tasks[id] = "spawned"
  /\ lock = "free"
  /\ ~Runnable(slots[id])
  /\ UNCHANGED routingVars

\* NotFound, or DeploymentFailed: logged, not retried.
RefuseRun(id) ==
  /\ tasks[id] = "spawned"
  /\ lock = "free"
  /\ ~Runnable(slots[id])
  /\ tasks' = [tasks EXCEPT ![id] = "done"]
  /\ UNCHANGED <<managerVars, session, inbox, current, observed>>

\* The run reports or fails, either of which is logged.
FinishRun(id) ==
  /\ tasks[id] = "running"
  /\ tasks' = [tasks EXCEPT ![id] = "done"]
  /\ UNCHANGED <<managerVars, session, inbox, current, observed>>

\* Mutant: the tasks are dropped when the first is done.
JoinFirst ==
  /\ current # None
  /\ \E i \in Ids : tasks[i] = "done"
  /\ current' = None
  /\ tasks' = NoTasks
  /\ UNCHANGED <<managerVars, session, inbox, observed>>

\* join_all
JoinAll ==
  /\ current # None
  /\ \A i \in Ids : tasks[i] \in {"none", "done"}
  /\ current' = None
  /\ tasks' = NoTasks
  /\ UNCHANGED <<managerVars, session, inbox, observed>>

\* run_as as far as the run itself, which calls SoRX.
LookUp(id) == StartRun(id) \/ RefuseRun(id)

Task(id) == LookUp(id) \/ FinishRun(id)

RouterNext ==
  \/ TakeLock
  \/ ChangeSlot
  \/ SaveSlots
  \/ DropLock
  \/ StopDaemon
  \/ RestartDaemon
  \/ \E e \in Events \cup {None} : Publish(e)
  \/ Connect
  \/ LoseConnection
  \/ EndSession
  \/ Receive
  \/ \E id \in Ids : Task(id)
  \/ JoinAll

RouterSpec == RouterInit /\ [][RouterNext]_routingVars

\* The router's thread and its tasks are scheduled.  Nothing is promised of a
\* download or of a run: neither ends if its remote end does not let it.
FairRouterSpec ==
  /\ RouterSpec
  /\ WF_routingVars(Receive) /\ WF_routingVars(JoinAll)
  /\ \A id \in Ids : WF_routingVars(LookUp(id))

-----------------------------------------------------------------------------
(***************************************************************************)
(* Properties.                                                             *)
(***************************************************************************)

\* At-most-once: no message starts two runs of one deployment, not across a
\* lost session or a restart either.
NoDuplicateRuns ==
  \A i, j \in DOMAIN runs :
    runs[i].n = runs[j].n /\ runs[i].id = runs[j].id => i = j

\* One event at a time: the runs of an event start after all those of earlier
\* events, so a deployment sees events in the order of publication.
RunsFollowPublication ==
  \A i, j \in DOMAIN runs : i < j => runs[i].n <= runs[j].n

\* The run of a deployment that nobody changed since the match is the run of a
\* deployment that matches, and join_all waits for it: the event is not done
\* before each of them has been run.
UntouchedMatchesRun ==
  [][up' /\ current # None /\ current' = None =>
       \A id \in Ids \ touched :
         Matches(slots[id], current.event) =>
           \E i \in DOMAIN runs :
             /\ runs[i].n = current.n
             /\ runs[i].id = id
             /\ runs[i].slot = slots[id]]_routingVars

\* Every message that reached the buffer leaves it, be it that the daemon dies:
\* no failing, refused or removed deployment stops the router.  Two things can, and
\* then stop it for all deployments: a deploy or an upgrade that holds the write
\* lock for ever, and a run that never ends, for join_all waits for it
\* (matching_deployments, run_as, resolve_effective_path).
MessagesAreHandled ==
  \/ \A n \in 1..MaxEvents :
       (\E i \in DOMAIN inbox : inbox[i].n = n) ~>
         ~ (\E i \in DOMAIN inbox : inbox[i].n = n)
  \/ <>[](lock # "free")
  \/ \E id \in Ids : <>[](tasks[id] = "running")

\* A run that an event starts is of a deployment that the event matches: of its
\* tenant, of its environment, and consuming its topic.
RunsMatchTheirEvents ==
  \A i \in DOMAIN runs : Matches(runs[i].slot, runs[i].event)
=============================================================================
