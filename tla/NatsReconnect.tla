---------------------------- MODULE NatsReconnect ----------------------------
(***************************************************************************)
(* run_with_reconnect: the loop around the sessions of the daemon's three  *)
(* NATS subscribers.  Time passes in seconds; a session may end, well or   *)
(* not, at any moment of it.                                               *)
(***************************************************************************)
EXTENDS Naturals, FiniteSetsExt

CONSTANTS
  InitialBackoff,   \* INITIAL_BACKOFF, 1 second
  MaxBackoff,       \* MAX_BACKOFF, 30 seconds
  HealthySession,   \* HEALTHY_SESSION, 30 seconds
  MaxLate           \* bound: seconds by which a timer may be late

VARIABLES
  phase,     \* "session", or "sleep" between two sessions
  backoff,   \* backoff
  ran,       \* seconds the session of this round lasted, or lasts
  slept,     \* seconds since it ended
  ages       \* observation: the seconds since each of the last sessions began, the
             \* newest first; HealthySession when they are as many, or none began

vars == <<phase, backoff, ran, slept, ages>>

\* Mutant: the cap is forgotten.
NextBackoffUncapped(current) == current * 2

\* Double, capped at MAX_BACKOFF.
NextBackoff(current) == Min({current * 2, MaxBackoff})

\* The k-th session of a broker that is down: when it begins, and the sleep after it.
Down[k \in 0..HealthySession] ==
  IF k = 0 THEN [begins |-> 0, sleeps |-> InitialBackoff]
  ELSE LET before == Down[k - 1] IN
       [begins |-> before.begins + before.sleeps,
        sleeps |-> Min({before.sleeps * 2, MaxBackoff})]

\* These many begin within HealthySession seconds: the next one is the first that
\* begins later.
Burst == Min({k \in 0..HealthySession : HealthySession <= Down[k].begins})

\* Longer sessions are as healthy as one of this length.
LongSession == HealthySession + 1

TypeOK ==
  /\ phase \in {"session", "sleep"}
  /\ backoff \in InitialBackoff..MaxBackoff
  /\ ran \in 0..LongSession
  /\ slept \in 0..(MaxBackoff + MaxLate)
  /\ ages \in [0..Burst -> 0..HealthySession]

Init ==
  /\ phase = "session"
  /\ backoff = InitialBackoff
  /\ ran = 0
  /\ slept = 0
  /\ ages = [k \in 0..Burst |-> IF k = 0 THEN 0 ELSE HealthySession]

\* Mutant: any session resets the backoff.
BackoffAfterAny(sessionRan, current) == InitialBackoff

BackoffAfter(sessionRan, current) ==
  IF sessionRan >= HealthySession THEN InitialBackoff ELSE NextBackoff(current)

\* The stream ends or the session fails; the loop goes to sleep.
EndSession ==
  /\ phase = "session"
  /\ phase' = "sleep"
  /\ UNCHANGED <<backoff, ran, slept, ages>>

\* Another session begins.
Begin == ages' = [k \in DOMAIN ages |-> IF k = 0 THEN 0 ELSE ages[k - 1]]

\* Mutant: the loop gives up when a session fails at once.
ReconnectUnlessFailed ==
  /\ phase = "sleep"
  /\ slept >= backoff
  /\ ran > 0
  /\ phase' = "session"
  /\ backoff' = BackoffAfter(ran + slept, backoff)
  /\ ran' = 0
  /\ slept' = 0
  /\ Begin

\* The sleep is over; started.elapsed() spans session and sleep alike.
Reconnect ==
  /\ phase = "sleep"
  /\ slept >= backoff
  /\ phase' = "session"
  /\ backoff' = BackoffAfter(ran + slept, backoff)
  /\ ran' = 0
  /\ slept' = 0
  /\ Begin

Tick ==
  /\ ages' = [k \in DOMAIN ages |-> Min({ages[k] + 1, HealthySession})]
  /\ \/ /\ phase = "session"
        /\ ran' = Min({ran + 1, LongSession})
        /\ UNCHANGED slept
     \/ /\ phase = "sleep"
        /\ slept < backoff + MaxLate
        /\ slept' = slept + 1
        /\ UNCHANGED ran
  /\ UNCHANGED <<phase, backoff>>

Next == EndSession \/ Reconnect \/ Tick

Spec == Init /\ [][Next]_vars

-----------------------------------------------------------------------------
(***************************************************************************)
(* Properties.                                                             *)
(***************************************************************************)

\* The loop never spins: whatever the broker does, and although the backoff is
\* reset again and again, no HealthySession seconds, from whatever
\* moment on, see more sessions begin than the first ones of a broker that is down:
\* of any Burst + 1 in a row the first began that long before the last.
NeverBusyLoops == ages[Burst] = HealthySession
=============================================================================
