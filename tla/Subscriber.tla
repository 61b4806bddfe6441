----------------------------- MODULE Subscriber ------------------------------
(***************************************************************************)
(* run_subscriber: the subscriber of one artifact, on the reconnect loop   *)
(* (NatsReconnect).  Its sessions take one message after the other, and    *)
(* for each subscription of the artifact that the event matches, in their  *)
(* order, the artifact is loaded anew and run.                             *)
(***************************************************************************)
EXTENDS EventTopics

CONSTANTS
  Subscriptions,    \* capabilities that an artifact may subscribe to
  Consumes,         \* the subscriptions of the artifact, in order
  Events,           \* events, with one that does not decode
  TopicOf,          \* TopicOf[e]: the topic that SoRX published e on
  Matching,         \* Matching[e]: the subscriptions that SoRX published e for
  Undecodable,      \* an event that is no EventEnvelope
  None,             \* the absent value
  InitialBackoff, MaxBackoff, HealthySession, MaxLate,
  MaxEvents         \* bound: events published

ASSUME SubscriberAssumption ==
  /\ Consumes \in Seq(Subscriptions)
  /\ Matching \in [Events -> SUBSET Subscriptions]
  /\ Undecodable \in Events
  /\ DOMAIN TopicOf = Events \ {Undecodable}
  /\ MaxEvents \in Nat
  /\ None \notin Events
  /\ None \notin [n : Nat, event : Events, next : Nat, busy : BOOLEAN]
  /\ {InitialBackoff, MaxBackoff, HealthySession, MaxLate} \subseteq Nat
  /\ 0 < InitialBackoff /\ InitialBackoff <= MaxBackoff
  /\ 0 < HealthySession /\ HealthySession <= MaxBackoff

VARIABLES
  phase, backoff, ran, slept, ages,   \* of NatsReconnect
  stream,         \* of the session: "none", "open", "lost"
  inbox,          \* messages received and not yet taken
  current,        \* the message in hand, None if there is none
  published,      \* events published so far
  runs,           \* observation: the runs that were started
  handled         \* observation: the messages that are done with

loopVars == <<phase, backoff, ran, slept, ages>>
messageVars == <<stream, inbox, current, runs, handled>>
vars == <<loopVars, messageVars, published>>

Loop == INSTANCE NatsReconnect

\* A message in hand: the next subscription, and whether a run is going on.
Message == [n : 1..MaxEvents, event : Events]
Current == [n : 1..MaxEvents, event : Events, next : 1..(Len(Consumes) + 1),
            busy : BOOLEAN]
Run == [n : 1..MaxEvents, sub : DOMAIN Consumes]

TypeOK ==
  /\ Loop!TypeOK
  /\ stream \in {"none", "open", "lost"}
  /\ inbox \in Seq(Message)
  /\ current \in Current \cup {None}
  /\ published \in 0..MaxEvents
  /\ runs \in Seq(Run)
  /\ handled \subseteq Message

\* The subscriptions are those of the artifact at boot; without any,
\* run_subscriber returns.
Init ==
  /\ Consumes # <<>>
  /\ Loop!Init
  /\ stream = "none" /\ inbox = <<>> /\ current = None
  /\ published = 0
  /\ runs = <<>> /\ handled = {}

-----------------------------------------------------------------------------
Publish(e) ==
  /\ published < MaxEvents
  /\ published' = published + 1
  /\ inbox' = IF stream = "open"
              THEN Append(inbox, [n |-> published + 1, event |-> e])
              ELSE inbox
  /\ UNCHANGED <<loopVars, stream, current, runs, handled>>

\* async_nats::connect and subscribe.
Connect ==
  /\ phase = "session"
  /\ stream = "none"
  /\ stream' = "open"
  /\ UNCHANGED <<loopVars, inbox, current, runs, handled, published>>

LoseConnection ==
  /\ stream = "open"
  /\ stream' = "lost"
  /\ UNCHANGED <<loopVars, inbox, current, runs, handled, published>>

\* The session fails to connect, or ends when there are no more messages.
EndSession ==
  /\ Loop!EndSession
  /\ \/ stream = "none"
     \/ stream = "lost" /\ inbox = <<>> /\ current = None
  /\ stream' = "none"
  /\ UNCHANGED <<inbox, current, runs, handled, published>>

Reconnect ==
  /\ Loop!Reconnect
  /\ UNCHANGED <<messageVars, published>>

Tick ==
  /\ Loop!Tick
  /\ UNCHANGED <<messageVars, published>>

\* Mutant: a message that does not decode stays in the way.
ReceiveIfDecodable ==
  /\ current = None
  /\ inbox # <<>>
  /\ Head(inbox).event # Undecodable
  /\ current' = [n |-> Head(inbox).n, event |-> Head(inbox).event,
                 next |-> 1, busy |-> FALSE]
  /\ inbox' = Tail(inbox)
  /\ UNCHANGED <<loopVars, stream, runs, handled, published>>

\* The next message; one that does not decode is skipped.
Receive ==
  /\ current = None
  /\ inbox # <<>>
  /\ LET m == Head(inbox) IN
     IF m.event = Undecodable
     THEN UNCHANGED current
     ELSE current' = [n |-> m.n, event |-> m.event, next |-> 1, busy |-> FALSE]
  /\ inbox' = Tail(inbox)
  /\ UNCHANGED <<loopVars, stream, runs, handled, published>>

InHand == current # None /\ ~current.busy

\* event_matches
Consumed == TopicMatches(Consumes[current.next], TopicOf[current.event])

SkipSubscription ==
  /\ InHand
  /\ current.next <= Len(Consumes)
  /\ ~Consumed
  /\ current' = [current EXCEPT !.next = @ + 1]
  /\ UNCHANGED <<loopVars, stream, inbox, runs, handled, published>>

\* request_for and spawn_blocking: a run of the artifact as it is now.
StartRun ==
  /\ InHand
  /\ current.next <= Len(Consumes)
  /\ Consumed
  /\ current' = [current EXCEPT !.busy = TRUE]
  /\ runs' = Append(runs, [n |-> current.n, sub |-> current.next])
  /\ UNCHANGED <<loopVars, stream, inbox, handled, published>>

\* Mutant: a run that fails is the last one for its message.
EndRunLast ==
  /\ current # None /\ current.busy
  /\ \E ok \in BOOLEAN :
       current' = [current EXCEPT !.busy = FALSE,
                     !.next = IF ok THEN @ + 1 ELSE Len(Consumes) + 1]
  /\ UNCHANGED <<loopVars, stream, inbox, runs, handled, published>>

\* Mutant: a run that fails is made again.
EndRunAgain ==
  /\ current # None /\ current.busy
  /\ \E ok \in BOOLEAN :
       current' = [current EXCEPT !.busy = FALSE, !.next = IF ok THEN @ + 1 ELSE @]
  /\ UNCHANGED <<loopVars, stream, inbox, runs, handled, published>>

\* The run is over, well or not, or it panicked: it is logged.
EndRun ==
  /\ current # None /\ current.busy
  /\ current' = [current EXCEPT !.busy = FALSE, !.next = @ + 1]
  /\ UNCHANGED <<loopVars, stream, inbox, runs, handled, published>>

EndMessage ==
  /\ InHand
  /\ current.next > Len(Consumes)
  /\ handled' = handled \cup {[n |-> current.n, event |-> current.event]}
  /\ current' = None
  /\ UNCHANGED <<loopVars, stream, inbox, runs, published>>

Handle == Receive \/ SkipSubscription \/ StartRun \/ EndRun \/ EndMessage

Next ==
  \/ \E e \in Events : Publish(e)
  \/ Connect \/ LoseConnection \/ EndSession \/ Reconnect \/ Tick
  \/ Handle

Spec == Init /\ [][Next]_vars

\* The thread of the subscriber is scheduled, its runs end (SorxCalls), its timer
\* fires, and the stream of a connection that is lost ends.  Nothing makes a
\* connection fail, or succeed.
FairSpec ==
  /\ Spec
  /\ WF_vars(Handle) /\ WF_vars(Reconnect) /\ WF_vars(Tick)
  /\ WF_vars(stream = "lost" /\ EndSession)

-----------------------------------------------------------------------------
(***************************************************************************)
(* Properties.                                                             *)
(***************************************************************************)

\* Each message that is done with was run for exactly the subscriptions that SoRX
\* published it for, once and whatever became of the runs before, in the order of
\* publication and of the subscriptions; never again after a reconnect or a
\* failure (run_subscriber, topic_matches).
EachOnceInOrder ==
  /\ \A j, k \in 1..Len(runs) : j < k =>
       \/ runs[j].n < runs[k].n
       \/ runs[j].n = runs[k].n /\ runs[j].sub < runs[k].sub
  /\ \A m \in handled : \A s \in 1..Len(Consumes) :
       Consumes[s] \in Matching[m.event] <=>
         \E r \in 1..Len(runs) : runs[r].n = m.n /\ runs[r].sub = s

\* Whatever the broker does, the loop does not spin (run_with_reconnect).
NeverBusyLoops == Loop!NeverBusyLoops

\* When a connection is lost, what it brought is handled and another session
\* begins; so it does after one that failed to connect.
SessionsAreRenewed ==
  stream = "lost" \/ phase = "sleep" ~> phase = "session" /\ stream = "none"
=============================================================================
