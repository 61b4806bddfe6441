------------------------------ MODULE Presence ------------------------------
(***************************************************************************)
(* The directory of SoRX instances.  An instance announces itself on NATS  *)
(* when it boots; the presence subscriber of the daemon keeps what it hears*)
(* in memory, and each run of a deployment in discover mode asks it for an *)
(* endpoint.  Time passes in seconds of the wall clock, which may be set   *)
(* back.                                                                   *)
(***************************************************************************)
EXTENDS Integers, Sequences

CONSTANTS
  Instances,       \* instance ids
  Announcements,   \* what the instances announce
  Tenants,         \* tenants
  Environments,    \* environments
  Sors,            \* systems of record
  Urls,            \* base urls
  Scope,           \* the tenant that is subscribed to; None is all of them
  Ttl,             \* PRESENCE_TTL_SECS, 300 seconds
  None,            \* the absent value
  MaxTime,         \* bound: seconds that pass
  MaxPublished     \* bound: announcements published in a behaviour

Announcement == [instance : Instances, tenant : Tenants,
                 environment : Environments, sor : Sors, url : Urls,
                 reachable : BOOLEAN]

ASSUME PresenceAssumption ==
  /\ Announcements \subseteq Announcement
  /\ Ttl \in Nat /\ MaxTime \in Nat /\ MaxPublished \in Nat
  /\ None \notin Announcements \cup Environments \cup Tenants
  /\ None \notin [announcement : Announcements, lastSeen : Nat]

VARIABLES
  session,     \* of the subscription: "down", "open", "ending"; "dead" once
               \* its thread has panicked
  inbox,       \* announcements received and not yet handled, oldest first
  directory,   \* the entry of each instance, None if there is none
  poisoned,    \* whether the lock of the directory is poisoned
  clock,       \* now_ticks
  booted,      \* what each instance announced last, heard or not
  published,   \* announcements published so far
  missed,      \* observation: instances whose last announcement was lost
  heard,       \* observation: which of the announcements an entry is of
  time,        \* observation: seconds that passed, whatever the clock says
  back,        \* observation: seconds by which the clock was set back, in all
  at,          \* observation: time and back when each entry was heard
  quiet        \* observation: the time since when nothing was heard

subscriberVars == <<session, inbox, directory, poisoned>>
worldVars == <<clock, booted, published>>
observed == <<missed, heard, time, back, at, quiet>>
vars == <<subscriberVars, worldVars, observed>>

Entry == [announcement : Announcements, lastSeen : Nat]

Moment == [time : Nat, back : Nat]

TypeOK ==
  /\ session \in {"down", "open", "ending", "dead"}
  /\ inbox \in Seq(Announcements \cup {None})
  /\ directory \in [Instances -> Entry \cup {None}]
  /\ poisoned \in BOOLEAN
  /\ clock \in Nat
  /\ booted \in [Instances -> Announcements \cup {None}]
  /\ published \in 0..MaxPublished
  /\ missed \subseteq Instances
  /\ heard \in [Instances -> Nat]
  /\ time \in 0..MaxTime
  /\ back \in Nat
  /\ at \in [Instances -> Moment]
  /\ quiet \in Nat

NoEntries == [i \in Instances |-> None]

Init ==
  /\ session = "down"
  /\ inbox = <<>>
  /\ directory = NoEntries
  /\ poisoned = FALSE
  /\ clock = 0
  /\ booted = NoEntries
  /\ published = 0
  /\ missed = {}
  /\ heard = [i \in Instances |-> 0]
  /\ time = 0
  /\ back = 0
  /\ at = [i \in Instances |-> [time |-> 0, back |-> 0]]
  /\ quiet = 0

-----------------------------------------------------------------------------
(***************************************************************************)
(* NATS and the instances.  Nothing is kept for a subscriber that is not   *)
(* there, and an instance does not announce itself again before it boots   *)
(* again.                                                                  *)
(***************************************************************************)
Subscribed(a) == session = "open" /\ Scope \in {None, a.tenant}

\* An instance boots, for the first time or again, here or elsewhere.
BootInstance(a) ==
  /\ published < MaxPublished
  /\ published' = published + 1
  /\ booted' = [booted EXCEPT ![a.instance] = a]
  /\ IF Subscribed(a)
     THEN /\ inbox' = Append(inbox, a)
          /\ missed' = missed \ {a.instance}
     ELSE /\ missed' = missed \cup {a.instance}
          /\ UNCHANGED inbox
  /\ UNCHANGED <<session, directory, poisoned, clock, heard, time, back, at, quiet>>

\* A payload that decode_presence does not understand.
PublishNoise ==
  /\ published < MaxPublished
  /\ session = "open"
  /\ published' = published + 1
  /\ inbox' = Append(inbox, None)
  /\ UNCHANGED <<session, directory, poisoned, clock, booted, observed>>

Connect ==
  /\ session = "down"
  /\ session' = "open"
  /\ UNCHANGED <<inbox, directory, poisoned, worldVars, observed>>

LoseConnection ==
  /\ session = "open"
  /\ session' = "ending"
  /\ UNCHANGED <<inbox, directory, poisoned, worldVars, observed>>

\* The subscriber yields no more messages; run_with_reconnect goes on.
EndSession ==
  /\ session = "ending"
  /\ inbox = <<>>
  /\ session' = "down"
  /\ UNCHANGED <<inbox, directory, poisoned, worldVars, observed>>

Tick ==
  /\ time < MaxTime
  /\ time' = time + 1
  /\ clock' = clock + 1
  /\ UNCHANGED <<subscriberVars, booted, published, missed, heard, back, at, quiet>>

SetClockBack ==
  /\ clock > 0
  /\ clock' \in 0..(clock - 1)
  /\ back' = back + (clock - clock')
  /\ UNCHANGED <<subscriberVars, booted, published, missed, heard, time, at, quiet>>

-----------------------------------------------------------------------------
(***************************************************************************)
(* The directory.                                                          *)
(***************************************************************************)

\* Mutant: what is known of an instance is not replaced.
AppliedOnce(dir, a, now) ==
  IF dir[a.instance] # None THEN dir
  ELSE [dir EXCEPT ![a.instance] = [announcement |-> a, lastSeen |-> now]]

\* apply_presence
Applied(dir, a, now) ==
  [dir EXCEPT ![a.instance] = [announcement |-> a, lastSeen |-> now]]

\* Mutant: nothing is evicted.
NotEvicted(dir, now) == dir

\* evict_stale: those whose age, none if it is negative, exceeds the TTL.
Evicted(dir, now) ==
  [i \in Instances |->
     IF dir[i] # None /\ now > dir[i].lastSeen + Ttl THEN None ELSE dir[i]]

\* A decoded announcement is applied and the stale entries are evicted, both
\* under the write lock.  The announcements received are numbered as heard.
Hear(a) ==
  /\ directory' = Evicted(Applied(directory, a, clock), clock)
  /\ heard' = [heard EXCEPT ![a.instance] = published - Len(inbox) + 1]
  /\ at' = [at EXCEPT ![a.instance] = [time |-> time, back |-> back]]
  /\ quiet' = time

\* What cannot be decoded is skipped.
Ingest ==
  /\ inbox # <<>>
  /\ inbox' = Tail(inbox)
  /\ IF Head(inbox) = None THEN UNCHANGED <<directory, heard, at, quiet>>
     ELSE Hear(Head(inbox))
  /\ UNCHANGED <<session, poisoned, worldVars, missed, time, back>>

\* log_directory writes to stderr under the write lock, and panics when stderr
\* is gone: the thread ends and the lock is poisoned.
IngestPanics ==
  /\ inbox # <<>>
  /\ Head(inbox) # None
  /\ inbox' = <<>>
  /\ Hear(Head(inbox))
  /\ poisoned' = TRUE
  /\ session' = "dead"
  /\ missed' = missed \cup
       {i \in Instances : \E k \in DOMAIN inbox :
          k > 1 /\ inbox[k] # None /\ inbox[k].instance = i}
  /\ UNCHANGED <<worldVars, time, back>>

\* The daemon restarts; the directory was in memory only.
RestartDaemon ==
  /\ session' = "down"
  /\ inbox' = <<>>
  /\ directory' = NoEntries
  /\ poisoned' = FALSE
  /\ missed' = {i \in Instances : booted[i] # None}
  /\ UNCHANGED <<worldVars, heard, time, back, at, quiet>>

-----------------------------------------------------------------------------
(***************************************************************************)
(* What a run is given.                                                    *)
(***************************************************************************)
Query == [tenant : Tenants, sor : Sors, environment : Environments \cup {None}]

\* Mutant: the environment is not looked at.
MatchesAnyEnvironment(a, q) ==
  /\ a.reachable
  /\ a.tenant = q.tenant
  /\ a.sor = q.sor

\* No environment is a wildcard.
Matches(a, q) ==
  /\ a.reachable
  /\ a.tenant = q.tenant
  /\ a.sor = q.sor
  /\ q.environment \in {None, a.environment}

Candidates(q) ==
  {i \in Instances :
     directory[i] # None /\ Matches(directory[i].announcement, q)}

\* Mutant: the stalest.
Stalest(q) ==
  {i \in Candidates(q) :
     \A j \in Candidates(q) : directory[i].lastSeen <= directory[j].lastSeen}

\* max_by_key takes any of those seen in the same second: the order of a
\* HashMap is arbitrary.
Freshest(q) ==
  {i \in Candidates(q) :
     \A j \in Candidates(q) : directory[j].lastSeen <= directory[i].lastSeen}

\* The instances whose url resolve may return; none when the lock is poisoned.
Resolvable(q) == IF poisoned THEN {} ELSE Freshest(q)

Next ==
  \/ \E a \in Announcements : BootInstance(a)
  \/ PublishNoise
  \/ Connect
  \/ LoseConnection
  \/ EndSession
  \/ Tick
  \/ SetClockBack
  \/ Ingest
  \/ IngestPanics
  \/ RestartDaemon

Spec == Init /\ [][Next]_vars

-----------------------------------------------------------------------------
(***************************************************************************)
(* Properties.                                                             *)
(***************************************************************************)

\* A run is sent to the url at which its instance booted last, in the tenant,
\* system of record and environment it asked for, unless that announcement was
\* lost or is still under way: a url that an instance has left is not used.
EndpointsAreCurrent ==
  \A q \in Query : \A i \in Resolvable(q) :
    \/ i \in missed
    \/ \E k \in DOMAIN inbox : inbox[k] # None /\ inbox[k].instance = i
    \/ /\ directory[i].announcement = booted[i]
       /\ booted[i].reachable
       /\ booted[i].tenant = q.tenant
       /\ booted[i].sor = q.sor
       /\ q.environment # None => booted[i].environment = q.environment

\* While the clock is not set back, of two instances that match the one heard
\* later is used; only one heard in the same second may be used in its place.
LatestIsUsed ==
  back = 0 =>
    \A q \in Query : \A i \in Resolvable(q), j \in Candidates(q) :
      heard[j] > heard[i] => directory[j].lastSeen = directory[i].lastSeen

\* How long ago an endpoint that a run is given was heard of, in seconds that really
\* passed: no more than the TTL, what the clock was set back by since, and the time
\* for which the bus has been silent, since only what is heard evicts
\* (run_presence_subscriber, evict_stale, now_ticks).
AgeIsBounded ==
  \A i \in Instances :
    directory[i] # None =>
      time - at[i].time <= Ttl + (back - at[i].back) + (time - quiet)

\* Only age or a restart of the daemon takes an instance out of the directory.
EvictedByAge ==
  [][\A i \in Instances :
       directory[i] # None /\ directory'[i] = None =>
         \/ clock > directory[i].lastSeen + Ttl
         \/ directory' = NoEntries /\ session' = "down"]_vars
=============================================================================
