--------------------------- MODULE Presence_proofs ---------------------------
(***************************************************************************)
(* Proofs about Presence, for any instances, announcements and TTL.        *)
(*                                                                         *)
(* EndpointsAreCurrent is not inductive: that the last word of an instance *)
(* is in the directory once it has been handled needs that, until then, it *)
(* is the last of that instance's announcements in the inbox               *)
(* (LastWordWaits).  LatestIsUsed needs that the announcements are handled *)
(* in the order of their numbers (HeardInOrder), and AgeIsBounded that the *)
(* clock is behind by what it was set back (TimeInv).                      *)
(***************************************************************************)
EXTENDS Presence, TLAPS

\* The place k of the inbox is an announcement of instance i.
Of(i, k) == inbox[k] # None /\ inbox[k].instance = i

\* The last announcement of i that waits is the one that i booted with last.
LastWordWaits ==
  \A i \in Instances \ missed : \A k \in DOMAIN inbox :
    Of(i, k) /\ (\A m \in DOMAIN inbox : m > k => ~ Of(i, m)) =>
      inbox[k] = booted[i]

\* What is in the directory of an instance of which nothing waits.
HeardTheLast ==
  \A i \in Instances \ missed :
    directory[i] # None /\ (\A k \in DOMAIN inbox : ~ Of(i, k)) =>
      directory[i].announcement = booted[i]

\* Numbers of announcements that were handled are smaller than those that wait.
HeardInOrder ==
  /\ Len(inbox) <= published
  /\ \A i \in Instances : heard[i] <= published - Len(inbox)

\* The later heard, the fresher, unless the clock was set back.
SeenInOrder ==
  back = 0 =>
    /\ \A i \in Instances : directory[i] # None => directory[i].lastSeen <= clock
    /\ \A i, j \in Instances :
         directory[i] # None /\ directory[j] # None /\ heard[i] < heard[j] =>
           directory[i].lastSeen <= directory[j].lastSeen

\* The clock is what passed less what it was set back by, now and when each entry was
\* heard.
TimeInv ==
  /\ clock + back = time
  /\ quiet <= time
  /\ \A i \in Instances : directory[i] # None =>
       /\ directory[i].lastSeen + at[i].back = at[i].time
       /\ at[i].back <= back
  /\ AgeIsBounded

ApartInv == LastWordWaits /\ HeardTheLast
OrderInv == HeardInOrder /\ SeenInOrder

-----------------------------------------------------------------------------
\* An entry is not the absent value, and has its parts.
LEMMA EntryParts ==
  ASSUME TypeOK, NEW i \in Instances, directory[i] # None
  PROVE  /\ directory[i] \in Entry
         /\ directory[i].announcement \in Announcements
         /\ directory[i].lastSeen \in Nat
<1>1. directory[i] \in Entry \cup {None}
  BY DEF TypeOK
<1> QED  BY <1>1 DEF Entry

\* What applying an announcement makes of the directory.
LEMMA AppliedEntry ==
  ASSUME TypeOK, NEW a \in Announcements, NEW i \in Instances
  PROVE  /\ a.instance \in Instances
         /\ Applied(directory, a, clock)[i] =
              IF i = a.instance
              THEN [announcement |-> a, lastSeen |-> clock] ELSE directory[i]
         /\ Applied(directory, a, clock)[i] \in Entry \cup {None}
<1>1. a.instance \in Instances
  BY PresenceAssumption DEF Announcement
<1>2. directory \in [Instances -> Entry \cup {None}] /\ clock \in Nat
  BY DEF TypeOK
<1>3. [announcement |-> a, lastSeen |-> clock] \in Entry
  BY <1>2 DEF Entry
<1> QED  BY <1>1, <1>2, <1>3 DEF Applied

\* What the directory holds of an instance after an announcement was handled.
LEMMA HeardEntry ==
  ASSUME TypeOK, NEW a \in Announcements, Hear(a), NEW i \in Instances
  PROVE  /\ directory'[i] \in Entry \cup {None}
         /\ directory'[i] # None =>
              /\ directory'[i] = IF i = a.instance
                                 THEN [announcement |-> a, lastSeen |-> clock]
                                 ELSE directory[i]
              /\ clock <= directory'[i].lastSeen + Ttl
         /\ directory'[i] = None /\ directory[i] # None =>
              clock > directory[i].lastSeen + Ttl
<1> DEFINE D == Applied(directory, a, clock)
<1>1. /\ D[i] = IF i = a.instance
                THEN [announcement |-> a, lastSeen |-> clock] ELSE directory[i]
      /\ D[i] \in Entry \cup {None}
  BY AppliedEntry
<1>2. directory'[i] = IF D[i] # None /\ clock > D[i].lastSeen + Ttl THEN None ELSE D[i]
  BY DEF Hear, Evicted
<1>3. clock \in Nat /\ Ttl \in Nat
  BY PresenceAssumption DEF TypeOK
<1>4. [announcement |-> a, lastSeen |-> clock] # None
  BY <1>3, PresenceAssumption
<1>5. ASSUME directory'[i] # None
      PROVE  /\ directory'[i] = D[i]
             /\ clock <= directory'[i].lastSeen + Ttl
  <2>1. directory'[i] = D[i] /\ ~ (clock > D[i].lastSeen + Ttl)
    BY <1>2, <1>5
  <2>2. D[i] \in Entry
    BY <1>1, <1>5, <2>1
  <2>3. D[i].lastSeen \in Nat
    BY <2>2, PresenceAssumption DEF Entry
  <2> QED  BY <2>1, <2>3, <1>3
<1>6. ASSUME directory'[i] = None, directory[i] # None
      PROVE  clock > directory[i].lastSeen + Ttl
  <2>1. D[i] # None
    BY <1>1, <1>4, <1>6
  <2>2. clock > D[i].lastSeen + Ttl
    BY <2>1, <1>2, <1>6
  <2>3. i # a.instance
    BY <2>2, <1>1, <1>3
  <2> QED  BY <2>2, <2>3, <1>1
<1> QED
  <2>1. directory'[i] \in Entry \cup {None}
    BY <1>1, <1>2
  <2> HIDE DEF D
  <2> QED  BY <2>1, <1>1, <1>5, <1>6

\* The head of the inbox and what is left of it.
LEMMA InboxParts ==
  ASSUME TypeOK, inbox # <<>>
  PROVE  /\ Head(inbox) = inbox[1] /\ Head(inbox) \in Announcements \cup {None}
         /\ Tail(inbox) \in Seq(Announcements \cup {None})
         /\ Len(inbox) \in Nat \ {0}
         /\ Len(Tail(inbox)) = Len(inbox) - 1
         /\ DOMAIN Tail(inbox) = 1..(Len(inbox) - 1)
         /\ DOMAIN inbox = 1..Len(inbox)
         /\ \A k \in 1..(Len(inbox) - 1) : Tail(inbox)[k] = inbox[k + 1]
BY DEF TypeOK

-----------------------------------------------------------------------------
(***************************************************************************)
(* Types.                                                                  *)
(***************************************************************************)
LEMMA TypeInit == Init => TypeOK
<1> SUFFICES ASSUME Init PROVE TypeOK
  OBVIOUS
<1>1. inbox \in Seq(Announcements \cup {None})
  BY DEF Init
<1>2. /\ directory \in [Instances -> Entry \cup {None}]
      /\ booted \in [Instances -> Announcements \cup {None}]
      /\ heard \in [Instances -> Nat]
  BY DEF Init, NoEntries
<1>3. published \in 0..MaxPublished /\ time \in 0..MaxTime
  BY PresenceAssumption DEF Init
<1>4. clock \in Nat /\ back \in Nat /\ quiet \in Nat /\ at \in [Instances -> Moment]
  BY DEF Init, Moment
<1> QED  BY <1>1, <1>2, <1>3, <1>4 DEF Init, TypeOK

LEMMA TypeHear ==
  ASSUME TypeOK, inbox # <<>>, Head(inbox) # None, Hear(Head(inbox)),
         HeardInOrder
  PROVE  /\ directory' \in [Instances -> Entry \cup {None}]
         /\ heard' \in [Instances -> Nat]
         /\ at' \in [Instances -> Moment]
         /\ quiet' \in Nat
<1>1. Head(inbox) \in Announcements
  BY InboxParts
<1>2. directory' = [i \in Instances |-> directory'[i]]
  BY DEF Hear, Evicted
<1>3. \A i \in Instances : directory'[i] \in Entry \cup {None}
  BY <1>1, HeardEntry
<1>4. published - Len(inbox) + 1 \in Nat
  BY InboxParts, PresenceAssumption DEF TypeOK, HeardInOrder
<1>5. heard' \in [Instances -> Nat]
  BY <1>4 DEF Hear, TypeOK
<1>6. at' \in [Instances -> Moment] /\ quiet' \in Nat
  <2>1. time \in Nat
    BY PresenceAssumption DEF TypeOK
  <2>2. [time |-> time, back |-> back] \in Moment
    BY <2>1 DEF TypeOK, Moment
  <2> HIDE DEF Moment
  <2> QED  BY <2>1, <2>2 DEF Hear, TypeOK
<1> QED  BY <1>2, <1>3, <1>5, <1>6

LEMMA TypeStep ==
  ASSUME TypeOK, HeardInOrder, [Next]_vars
  PROVE  TypeOK'
<1> USE PresenceAssumption DEF Entry
<1>1. ASSUME NEW a \in Announcements, BootInstance(a)  PROVE TypeOK'
  <2>1. a.instance \in Instances /\ a \in Announcements \cup {None}
    BY DEF Announcement
  <2>2. inbox' = Append(inbox, a) \/ inbox' = inbox
    BY <1>1 DEF BootInstance
  <2> DEFINE S == Announcements \cup {None}
  <2>7. inbox \in Seq(S) /\ a \in S
    BY <2>1 DEF TypeOK
  <2>8. Append(inbox, a) \in Seq(S)
    <3> HIDE DEF S
    <3> QED  BY <2>7
  <2>5. inbox' \in Seq(Announcements \cup {None})
    BY <2>2, <2>7, <2>8
  <2>6. missed' \subseteq Instances
    BY <1>1, <2>1 DEF BootInstance, TypeOK
  <2>3. booted' \in [Instances -> Announcements \cup {None}]
    BY <1>1, <2>1 DEF BootInstance, TypeOK
  <2>4. published' \in 0..MaxPublished
    BY <1>1 DEF BootInstance, TypeOK
  <2> QED  BY <1>1, <2>3, <2>4, <2>5, <2>6 DEF BootInstance, TypeOK
<1>2. CASE PublishNoise
  BY <1>2 DEF PublishNoise, TypeOK, observed
<1>3. CASE Connect \/ LoseConnection \/ EndSession
  BY <1>3 DEF Connect, LoseConnection, EndSession, TypeOK, observed, worldVars
<1>4. CASE Tick \/ SetClockBack
  <2>1. clock' \in Nat /\ time' \in 0..MaxTime /\ back' \in Nat
    <3>1. CASE Tick
      BY <3>1 DEF Tick, TypeOK
    <3>2. CASE SetClockBack
      <4>1. clock' \in 0..(clock - 1) /\ back' = back + (clock - clock') /\ time' = time
        BY <3>2 DEF SetClockBack
      <4>2. clock \in Nat /\ back \in Nat /\ time \in 0..MaxTime
        BY DEF TypeOK
      <4> QED  BY <4>1, <4>2
    <3> QED  BY <1>4, <3>1, <3>2
  <2>2. UNCHANGED <<session, inbox, directory, poisoned, booted, published, missed,
                    heard, at, quiet>>
    BY <1>4 DEF Tick, SetClockBack, subscriberVars
  <2> QED  BY <2>1, <2>2 DEF TypeOK
<1>5. CASE Ingest
  <2>1. inbox # <<>> /\ inbox' \in Seq(Announcements \cup {None})
    BY <1>5, InboxParts DEF Ingest
  <2>2. CASE Head(inbox) = None
    BY <1>5, <2>1, <2>2 DEF Ingest, TypeOK, worldVars
  <2>3. CASE Head(inbox) # None
    <3>1. Hear(Head(inbox))
      BY <1>5, <2>3 DEF Ingest
    <3> QED  BY <1>5, <2>1, <2>3, <3>1, TypeHear DEF Ingest, TypeOK, worldVars
  <2> QED  BY <2>2, <2>3
<1>6. CASE IngestPanics
  <2>1. inbox # <<>> /\ Head(inbox) # None /\ Hear(Head(inbox))
    BY <1>6 DEF IngestPanics
  <2>2. missed' \subseteq Instances
    BY <1>6 DEF IngestPanics, TypeOK
  <2> QED  BY <1>6, <2>1, <2>2, TypeHear DEF IngestPanics, TypeOK, worldVars
<1>7. CASE RestartDaemon
  <2>1. inbox' \in Seq(Announcements \cup {None})
    BY <1>7 DEF RestartDaemon
  <2>2. directory' \in [Instances -> Entry \cup {None}] /\ missed' \subseteq Instances
    BY <1>7 DEF RestartDaemon, NoEntries
  <2> QED  BY <1>7, <2>1, <2>2 DEF RestartDaemon, TypeOK, worldVars
<1>8. CASE UNCHANGED vars
  BY <1>8 DEF vars, subscriberVars, worldVars, observed, TypeOK
<1> QED  BY <1>1, <1>2, <1>3, <1>4, <1>5, <1>6, <1>7, <1>8 DEF Next
-----------------------------------------------------------------------------
(***************************************************************************)
(* The order in which announcements are handled and seen.                  *)
(***************************************************************************)
LEMMA HeardOrderStep ==
  ASSUME TypeOK, HeardInOrder, [Next]_vars
  PROVE  HeardInOrder'
<1> USE PresenceAssumption
<1>0. published \in Nat /\ Len(inbox) \in Nat /\ \A i \in Instances : heard[i] \in Nat
  BY DEF TypeOK
<1>1. ASSUME NEW a \in Announcements, BootInstance(a)  PROVE HeardInOrder'
  <2>1. Len(inbox') \in {Len(inbox), Len(inbox) + 1}
    BY <1>1 DEF BootInstance, TypeOK
  <2> QED  BY <1>0, <1>1, <2>1 DEF BootInstance, HeardInOrder
<1>2. CASE PublishNoise
  <2>1. Len(inbox') = Len(inbox) + 1
    BY <1>2 DEF PublishNoise, TypeOK
  <2> QED  BY <1>0, <1>2, <2>1 DEF PublishNoise, HeardInOrder, observed
<1>3. CASE Connect \/ LoseConnection \/ EndSession
  BY <1>3 DEF Connect, LoseConnection, EndSession, HeardInOrder, observed, worldVars
<1>4. CASE Tick \/ SetClockBack
  BY <1>4 DEF Tick, SetClockBack, HeardInOrder, observed, subscriberVars
<1>5. CASE Ingest \/ IngestPanics
  <2>1. /\ inbox # <<>> /\ published' = published
        /\ Len(inbox') \in Nat /\ Len(inbox') < Len(inbox)
    BY <1>5, InboxParts DEF Ingest, IngestPanics, worldVars
  <2>2. CASE heard' = heard
    BY <1>0, <2>1, <2>2 DEF HeardInOrder
  <2>3. CASE Head(inbox) # None /\ Hear(Head(inbox))
    <3>1. heard' = [heard EXCEPT ![Head(inbox).instance] = published - Len(inbox) + 1]
      BY <2>3 DEF Hear
    <3>2. \A i \in Instances : heard'[i] \in {heard[i], published - Len(inbox) + 1}
      BY <3>1 DEF TypeOK
    <3> QED  BY <1>0, <2>1, <3>2 DEF HeardInOrder
  <2> QED  BY <1>5, <2>2, <2>3 DEF Ingest, IngestPanics
<1>6. CASE RestartDaemon
  <2>1. Len(inbox') = 0 /\ heard' = heard /\ published' = published
    BY <1>6 DEF RestartDaemon, worldVars
  <2> QED  BY <1>0, <2>1 DEF HeardInOrder
<1>7. CASE UNCHANGED vars
  BY <1>7 DEF vars, subscriberVars, worldVars, observed, HeardInOrder
<1> QED  BY <1>1, <1>2, <1>3, <1>4, <1>5, <1>6, <1>7 DEF Next

LEMMA SeenOrderHear ==
  ASSUME TypeOK, HeardInOrder, SeenInOrder, inbox # <<>>, Head(inbox) # None,
         Hear(Head(inbox)), UNCHANGED <<clock, back>>
  PROVE  SeenInOrder'
<1> DEFINE a == Head(inbox)
<1>0. a \in Announcements
  BY InboxParts
<1>1. a \in Announcements /\ a.instance \in Instances
  BY <1>0, PresenceAssumption DEF Announcement
<1>2. clock \in Nat /\ published - Len(inbox) + 1 \in Nat
  BY PresenceAssumption, InboxParts DEF TypeOK, HeardInOrder
<1>3. \A i \in Instances : directory'[i] # None =>
        directory'[i] = IF i = a.instance
                        THEN [announcement |-> a, lastSeen |-> clock] ELSE directory[i]
  BY <1>1, HeardEntry
<1>4. \A i \in Instances : heard[i] \in Nat /\ heard[i] < published - Len(inbox) + 1
  BY <1>2, InboxParts DEF TypeOK, HeardInOrder
<1>5. \A i \in Instances :
        heard'[i] = IF i = a.instance THEN published - Len(inbox) + 1 ELSE heard[i]
  BY <1>1 DEF Hear, TypeOK
<1> HIDE DEF a
<1> SUFFICES ASSUME back = 0
             PROVE  /\ \A i \in Instances :
                         directory'[i] # None => directory'[i].lastSeen <= clock
                    /\ \A i, j \in Instances :
                         directory'[i] # None /\ directory'[j] # None
                           /\ heard'[i] < heard'[j] =>
                             directory'[i].lastSeen <= directory'[j].lastSeen
  BY DEF SeenInOrder
<1>6. ASSUME NEW i \in Instances, directory'[i] # None
      PROVE  directory'[i].lastSeen <= clock
  <2>1. CASE i = a.instance
    BY <1>2, <1>3, <1>6, <2>1
  <2>2. CASE i # a.instance
    BY <1>3, <1>6, <2>2 DEF SeenInOrder
  <2> QED  BY <2>1, <2>2
<1>7. ASSUME NEW i \in Instances, NEW j \in Instances, directory'[i] # None,
             directory'[j] # None, heard'[i] < heard'[j]
      PROVE  directory'[i].lastSeen <= directory'[j].lastSeen
  <2>1. CASE j = a.instance
    <3>1. directory'[j].lastSeen = clock
      BY <1>3, <1>7, <2>1
    <3> QED  BY <1>6, <1>7, <3>1
  <2>2. CASE j # a.instance
    <3>1. i # a.instance
      BY <1>2, <1>4, <1>5, <1>7, <2>2
    <3>2. directory'[i] = directory[i] /\ directory'[j] = directory[j]
      BY <1>3, <1>7, <2>2, <3>1
    <3>3. heard'[i] = heard[i] /\ heard'[j] = heard[j]
      BY <1>5, <2>2, <3>1
    <3> QED  BY <1>7, <3>2, <3>3 DEF SeenInOrder
  <2> QED  BY <2>1, <2>2
<1> QED  BY <1>6, <1>7

\* A clock that is set back counts.
LEMMA SetBackCounts ==
  ASSUME NEW c \in Nat, NEW d \in 0..(c - 1), NEW b \in Nat
  PROVE  b + (c - d) # 0
<1>1. d \in Int /\ d <= c - 1
  OBVIOUS
<1> QED  BY <1>1

LEMMA SeenOrderStep ==
  ASSUME TypeOK, HeardInOrder, SeenInOrder, [Next]_vars
  PROVE  SeenInOrder'
<1>1. ASSUME NEW a \in Announcements, BootInstance(a)  PROVE SeenInOrder'
  BY <1>1 DEF BootInstance, SeenInOrder
<1>2. CASE PublishNoise
  BY <1>2 DEF PublishNoise, SeenInOrder, observed
<1>3. CASE Connect \/ LoseConnection \/ EndSession
  BY <1>3 DEF Connect, LoseConnection, EndSession, SeenInOrder, observed, worldVars
<1>4. CASE Tick
  <2>1. clock' = clock + 1 /\ clock \in Nat
    BY <1>4, PresenceAssumption DEF Tick, TypeOK
  <2>2. \A i \in Instances : directory[i] # None => directory[i].lastSeen \in Nat
    BY EntryParts, PresenceAssumption
  <2> QED  BY <1>4, <2>1, <2>2 DEF Tick, SeenInOrder, observed, subscriberVars
<1>5. CASE SetClockBack
  <2>1. clock' \in 0..(clock - 1) /\ back' = back + (clock - clock')
    BY <1>5 DEF SetClockBack
  <2>2. clock \in Nat /\ back \in Nat
    BY DEF TypeOK
  <2>3. back' # 0
    BY <2>1, <2>2, SetBackCounts
  <2> QED  BY <2>3 DEF SeenInOrder
<1>6. CASE Ingest
  <2>1. CASE Head(inbox) = None
    BY <1>6, <2>1 DEF Ingest, SeenInOrder, worldVars
  <2>2. CASE Head(inbox) # None
    BY <1>6, <2>2, SeenOrderHear DEF Ingest, worldVars
  <2> QED  BY <2>1, <2>2
<1>7. CASE IngestPanics
  BY <1>7, SeenOrderHear DEF IngestPanics, worldVars
<1>8. CASE RestartDaemon
  BY <1>8 DEF RestartDaemon, SeenInOrder, NoEntries, worldVars
<1>9. CASE UNCHANGED vars
  BY <1>9 DEF vars, subscriberVars, worldVars, observed, SeenInOrder
<1> QED  BY <1>1, <1>2, <1>3, <1>4, <1>5, <1>6, <1>7, <1>8, <1>9 DEF Next

-----------------------------------------------------------------------------
(***************************************************************************)
(* The last word of each instance.                                         *)
(***************************************************************************)
LEMMA LastWordBoot ==
  ASSUME TypeOK, ApartInv, NEW a \in Announcements, BootInstance(a)
  PROVE  ApartInv'
<1>1. a.instance \in Instances /\ a # None
  BY PresenceAssumption DEF Announcement
<1>2. /\ directory' = directory
      /\ booted' \in [Instances -> Announcements \cup {None}]
      /\ \A i \in Instances : booted'[i] = IF i = a.instance THEN a ELSE booted[i]
  BY <1>1 DEF BootInstance, TypeOK
<1>3. CASE inbox' = inbox /\ missed' = missed \cup {a.instance}
  BY <1>1, <1>2, <1>3 DEF ApartInv, LastWordWaits, HeardTheLast, Of
<1>4. CASE inbox' = Append(inbox, a) /\ missed' = missed \ {a.instance}
  <2> DEFINE n == Len(inbox) + 1
  <2>1. /\ n \in Nat \ {0} /\ DOMAIN inbox = 1..(n - 1) /\ DOMAIN inbox' = 1..n
        /\ inbox'[n] = a
        /\ \A k \in 1..(n - 1) : inbox'[k] = inbox[k]
    BY <1>4 DEF TypeOK
  <2> HIDE DEF n
  <2>2. \A i \in Instances \ {a.instance} : i \notin missed' => i \notin missed
    BY <1>4
  <2>3. LastWordWaits'
    <3> SUFFICES ASSUME NEW i \in Instances, i \notin missed', NEW k \in 1..n,
                        inbox'[k] # None, inbox'[k].instance = i,
                        \A m \in 1..n : m > k =>
                          ~ (inbox'[m] # None /\ inbox'[m].instance = i)
                 PROVE  inbox'[k] = booted'[i]
      BY <2>1 DEF LastWordWaits, Of
    <3>1. CASE i = a.instance
      <4>1. k = n
        BY <1>1, <2>1, <3>1
      <4> QED  BY <1>2, <2>1, <3>1, <4>1
    <3>2. CASE i # a.instance
      <4>1. k \in 1..(n - 1)
        BY <2>1, <3>2
      <4>2. \A m \in 1..(n - 1) : m > k => ~ (inbox[m] # None /\ inbox[m].instance = i)
        BY <2>1, <3>2
      <4>3. inbox[k] = booted[i]
        BY <2>1, <2>2, <3>2, <4>1, <4>2 DEF ApartInv, LastWordWaits, Of
      <4> QED  BY <1>2, <2>1, <3>2, <4>1, <4>3
    <3> QED  BY <3>1, <3>2
  <2>4. HeardTheLast'
    <3> SUFFICES ASSUME NEW i \in Instances, i \notin missed', directory'[i] # None,
                        \A k \in 1..n : ~ (inbox'[k] # None /\ inbox'[k].instance = i)
                 PROVE  directory'[i].announcement = booted'[i]
      BY <2>1 DEF HeardTheLast, Of
    <3>1. i # a.instance
      BY <1>1, <2>1
    <3>2. \A k \in 1..(n - 1) : ~ (inbox[k] # None /\ inbox[k].instance = i)
      BY <2>1
    <3> QED  BY <1>2, <2>1, <2>2, <3>1, <3>2 DEF ApartInv, HeardTheLast, Of
  <2> QED  BY <2>3, <2>4 DEF ApartInv
<1> QED  BY <1>3, <1>4 DEF BootInstance

LEMMA LastWordNoise ==
  ASSUME TypeOK, ApartInv, PublishNoise
  PROVE  ApartInv'
<1> DEFINE n == Len(inbox) + 1
<1>1. /\ n \in Nat /\ DOMAIN inbox = 1..(n - 1) /\ DOMAIN inbox' = 1..n
      /\ inbox'[n] = None
      /\ \A k \in 1..(n - 1) : inbox'[k] = inbox[k]
  BY DEF TypeOK, PublishNoise
<1> HIDE DEF n
<1>2. UNCHANGED <<directory, booted, missed>>
  BY DEF PublishNoise, observed
<1>3. LastWordWaits'
  <2> SUFFICES ASSUME NEW i \in Instances, i \notin missed, NEW k \in 1..n,
                      inbox'[k] # None, inbox'[k].instance = i,
                      \A m \in 1..n : m > k =>
                        ~ (inbox'[m] # None /\ inbox'[m].instance = i)
               PROVE  inbox'[k] = booted[i]
    BY <1>1, <1>2 DEF LastWordWaits, Of
  <2>1. k \in 1..(n - 1)
    BY <1>1
  <2> QED  BY <1>1, <2>1 DEF ApartInv, LastWordWaits, Of
<1>4. HeardTheLast'
  BY <1>1, <1>2 DEF ApartInv, HeardTheLast, Of
<1> QED  BY <1>3, <1>4 DEF ApartInv

\* The head is handled, or skipped, and the others still wait.
LEMMA LastWordIngest ==
  ASSUME TypeOK, ApartInv, Ingest
  PROVE  ApartInv'
<1> DEFINE n == Len(inbox)
<1>1. /\ n \in Nat \ {0} /\ DOMAIN inbox = 1..n /\ DOMAIN inbox' = 1..(n - 1)
      /\ \A k \in 1..(n - 1) : inbox'[k] = inbox[k + 1]
      /\ Head(inbox) = inbox[1]
      /\ inbox[1] \in Announcements \cup {None}
  BY InboxParts DEF Ingest
<1>2. UNCHANGED <<booted, missed>>
  BY DEF Ingest, worldVars
<1> HIDE DEF n
<1>3. LastWordWaits'
  <2> SUFFICES ASSUME NEW i \in Instances \ missed, NEW k \in DOMAIN inbox',
                      inbox'[k] # None, inbox'[k].instance = i,
                      \A m \in DOMAIN inbox' : m > k =>
                        ~ (inbox'[m] # None /\ inbox'[m].instance = i)
               PROVE  inbox'[k] = booted[i]
    BY <1>2 DEF LastWordWaits, Of
  <2>1. k + 1 \in 1..n /\ inbox'[k] = inbox[k + 1]
    BY <1>1
  <2>2. ASSUME NEW m \in 1..n, m > k + 1
        PROVE  ~ (inbox[m] # None /\ inbox[m].instance = i)
    <3>1. m - 1 \in 1..(n - 1) /\ m - 1 > k /\ (m - 1) + 1 = m
      BY <1>1, <2>2
    <3> QED  BY <1>1, <3>1
  <2> QED  BY <1>1, <2>1, <2>2 DEF ApartInv, LastWordWaits, Of
<1>4. HeardTheLast'
  <2> SUFFICES ASSUME NEW i \in Instances, i \notin missed, directory'[i] # None,
                      \A k \in 1..(n - 1) : ~ (inbox'[k] # None /\ inbox'[k].instance = i)
               PROVE  directory'[i].announcement = booted[i]
    BY <1>1, <1>2 DEF HeardTheLast, Of
  <2>1. ASSUME NEW m \in 1..n, m > 1
        PROVE  ~ (inbox[m] # None /\ inbox[m].instance = i)
    <3>1. m - 1 \in 1..(n - 1) /\ (m - 1) + 1 = m
      BY <1>1, <2>1
    <3> QED  BY <1>1, <3>1
  <2>2. CASE inbox[1] = None
    <3>1. directory' = directory
      BY <1>1, <2>2 DEF Ingest
    <3>2. \A m \in 1..n : ~ (inbox[m] # None /\ inbox[m].instance = i)
      BY <1>1, <2>1, <2>2
    <3> QED  BY <1>1, <3>1, <3>2 DEF ApartInv, HeardTheLast, Of
  <2>3. CASE inbox[1] # None
    <3>1. inbox[1] \in Announcements /\ Hear(inbox[1])
      BY <1>1, <2>3 DEF Ingest
    <3>2. directory'[i] = IF i = inbox[1].instance
                          THEN [announcement |-> inbox[1], lastSeen |-> clock]
                          ELSE directory[i]
      BY <3>1, HeardEntry
    <3>3. CASE i = inbox[1].instance
      <4>1. inbox[1] = booted[i]
        BY <1>1, <2>1, <2>3, <3>3 DEF ApartInv, LastWordWaits, Of
      <4> QED  BY <3>2, <3>3, <4>1
    <3>4. CASE i # inbox[1].instance
      <4>1. \A m \in 1..n : ~ (inbox[m] # None /\ inbox[m].instance = i)
        BY <1>1, <2>1, <3>4
      <4> QED  BY <1>1, <3>2, <3>4, <4>1 DEF ApartInv, HeardTheLast, Of
    <3> QED  BY <3>3, <3>4
  <2> QED  BY <2>2, <2>3
<1> QED  BY <1>3, <1>4 DEF ApartInv

\* What still waited is lost, and counted as missed.
LEMMA LastWordPanics ==
  ASSUME TypeOK, ApartInv, IngestPanics
  PROVE  ApartInv'
<1>1. /\ Len(inbox) \in Nat \ {0} /\ DOMAIN inbox = 1..Len(inbox)
      /\ Head(inbox) = inbox[1]
      /\ inbox[1] \in Announcements
      /\ Hear(inbox[1])
  BY InboxParts DEF IngestPanics
<1>2. booted' = booted /\ DOMAIN inbox' = {}
  BY DEF IngestPanics, worldVars
<1>3. \A i \in Instances : i \notin missed' =>
        /\ i \notin missed
        /\ \A m \in DOMAIN inbox : m > 1 => ~ (inbox[m] # None /\ inbox[m].instance = i)
  BY DEF IngestPanics
<1>4. ASSUME NEW i \in Instances, i \notin missed', directory'[i] # None
      PROVE  directory'[i].announcement = booted[i]
  <2>1. directory'[i] = IF i = inbox[1].instance
                        THEN [announcement |-> inbox[1], lastSeen |-> clock]
                        ELSE directory[i]
    BY <1>1, <1>4, HeardEntry
  <2>2. CASE i = inbox[1].instance
    <3>1. inbox[1] # None
      BY <1>1, PresenceAssumption
    <3>2. inbox[1] = booted[i]
      BY <1>1, <1>3, <1>4, <2>2, <3>1 DEF ApartInv, LastWordWaits, Of
    <3> QED  BY <2>1, <2>2, <3>2
  <2>3. CASE i # inbox[1].instance
    <3>1. \A m \in DOMAIN inbox : ~ (inbox[m] # None /\ inbox[m].instance = i)
      BY <1>1, <1>3, <1>4, <2>3
    <3> QED  BY <1>3, <1>4, <2>1, <2>3, <3>1 DEF ApartInv, HeardTheLast, Of
  <2> QED  BY <2>2, <2>3
<1> QED  BY <1>2, <1>4 DEF ApartInv, LastWordWaits, HeardTheLast

LEMMA LastWordStep ==
  ASSUME TypeOK, ApartInv, [Next]_vars
  PROVE  ApartInv'
<1> USE DEF ApartInv, LastWordWaits, HeardTheLast, Of
<1>1. CASE Connect \/ LoseConnection \/ EndSession
  BY <1>1 DEF Connect, LoseConnection, EndSession, observed, worldVars
<1>2. CASE Tick \/ SetClockBack
  BY <1>2 DEF Tick, SetClockBack, observed, subscriberVars
<1>3. CASE RestartDaemon
  BY <1>3 DEF RestartDaemon, NoEntries, worldVars
<1>4. CASE UNCHANGED vars
  BY <1>4 DEF vars, subscriberVars, worldVars, observed
<1> QED
  BY <1>1, <1>2, <1>3, <1>4, LastWordBoot, LastWordNoise, LastWordIngest,
     LastWordPanics DEF Next

-----------------------------------------------------------------------------
(***************************************************************************)
(* What passed, and what the clock says of it.                             *)
(***************************************************************************)
LEMMA Numbers ==
  ASSUME TypeOK
  PROVE  /\ clock \in Nat /\ back \in Nat /\ time \in Nat /\ quiet \in Nat /\ Ttl \in Nat
         /\ \A i \in Instances :
              /\ at[i].time \in Nat /\ at[i].back \in Nat
              /\ directory[i] # None => directory[i].lastSeen \in Nat
<1>1. \A i \in Instances : at[i] \in Moment
  BY DEF TypeOK
<1> QED  BY <1>1, EntryParts, PresenceAssumption DEF TypeOK, Moment

\* What is left of an entry's time to live, by the clock, is left of it by time.
LEMMA ReadAge ==
  ASSUME NEW c \in Nat, NEW l \in Nat, NEW b \in Nat, NEW t \in Nat,
         NEW ab \in Nat, NEW at0 \in Nat, NEW ttl \in Nat,
         c <= l + ttl, c + b = t, l + ab = at0
  PROVE  t - at0 <= ttl + (b - ab) + (t - t)
<1>1. t - at0 = (c - l) + (b - ab)
  OBVIOUS
<1>2. c - l <= ttl
  OBVIOUS
<1>3. t - t = 0
  OBVIOUS
<1> QED  BY <1>1, <1>2, <1>3

LEMMA TimeHear ==
  ASSUME TypeOK, TimeInv, inbox # <<>>, Head(inbox) # None, Hear(Head(inbox)),
         UNCHANGED <<clock, time, back>>
  PROVE  TimeInv'
<1> DEFINE a == Head(inbox)
<1>1. a \in Announcements /\ a.instance \in Instances
  BY InboxParts, PresenceAssumption DEF Announcement
<1>2. /\ \A i \in Instances : at'[i] = IF i = a.instance
                                       THEN [time |-> time, back |-> back] ELSE at[i]
      /\ quiet' = time
  BY <1>1 DEF Hear, TypeOK
<1>3. \A i \in Instances : directory'[i] # None =>
        /\ directory'[i] = IF i = a.instance
                           THEN [announcement |-> a, lastSeen |-> clock] ELSE directory[i]
        /\ clock <= directory'[i].lastSeen + Ttl
  BY <1>1, HeardEntry
<1>4. [announcement |-> a, lastSeen |-> clock].lastSeen = clock
  OBVIOUS
<1> HIDE DEF a
<1>5. ASSUME NEW i \in Instances, directory'[i] # None
      PROVE  /\ directory'[i].lastSeen + at'[i].back = at'[i].time
             /\ at'[i].back <= back
             /\ time - at'[i].time <= Ttl + (back - at'[i].back) + (time - time)
  <2>1. CASE i = a.instance
    <3>1. directory'[i].lastSeen = clock /\ at'[i].time = time /\ at'[i].back = back
      BY <1>2, <1>3, <1>4, <1>5, <2>1
    <3> QED  BY <3>1, Numbers DEF TimeInv
  <2>2. CASE i # a.instance
    <3>1. /\ directory'[i] = directory[i] /\ at'[i] = at[i]
          /\ clock <= directory[i].lastSeen + Ttl
      BY <1>2, <1>3, <1>5, <2>2
    <3>2. /\ directory[i] # None /\ clock + back = time
          /\ directory[i].lastSeen + at[i].back = at[i].time
          /\ at[i].back <= back
      BY <1>5, <3>1 DEF TimeInv
    <3>3. /\ clock \in Nat /\ back \in Nat /\ time \in Nat /\ Ttl \in Nat
          /\ at[i].time \in Nat /\ at[i].back \in Nat /\ directory[i].lastSeen \in Nat
      BY <3>2, Numbers
    <3>4. time - at[i].time <= Ttl + (back - at[i].back) + (time - time)
      BY <3>1, <3>2, <3>3, ReadAge
    <3> QED  BY <3>1, <3>2, <3>4
  <2> QED  BY <2>1, <2>2
<1> QED  BY <1>2, <1>5, Numbers DEF TimeInv, AgeIsBounded

LEMMA TimeStep ==
  ASSUME TypeOK, TimeInv, [Next]_vars
  PROVE  TimeInv'
<1>1. CASE UNCHANGED <<directory, clock, time, back, at, quiet>>
  BY <1>1 DEF TimeInv, AgeIsBounded
<1>2. CASE Tick
  <2>1. clock' = clock + 1 /\ time' = time + 1 /\ UNCHANGED <<directory, back, at, quiet>>
    BY <1>2 DEF Tick, subscriberVars
  <2> QED  BY <2>1, Numbers DEF TimeInv, AgeIsBounded
<1>3. CASE SetClockBack
  <2>1. /\ clock' \in 0..(clock - 1) /\ back' = back + (clock - clock')
        /\ UNCHANGED <<directory, time, at, quiet>>
    BY <1>3 DEF SetClockBack, subscriberVars
  <2> QED  BY <2>1, Numbers DEF TimeInv, AgeIsBounded
<1>4. CASE RestartDaemon
  BY <1>4, Numbers DEF RestartDaemon, NoEntries, TimeInv, AgeIsBounded, worldVars
<1>5. CASE Ingest \/ IngestPanics
  BY <1>1, <1>5, TimeHear DEF Ingest, IngestPanics, worldVars
<1> QED
  BY <1>1, <1>2, <1>3, <1>4, <1>5
  DEF Next, BootInstance, PublishNoise, Connect, LoseConnection, EndSession, vars,
      subscriberVars, worldVars, observed

-----------------------------------------------------------------------------
(***************************************************************************)
(* Theorems.                                                               *)
(***************************************************************************)
IInv == TypeOK /\ OrderInv /\ ApartInv /\ TimeInv

LEMMA InvInit == Init => IInv
<1> SUFFICES ASSUME Init PROVE IInv
  OBVIOUS
<1>1. OrderInv
  BY DEF Init, OrderInv, HeardInOrder, SeenInOrder, NoEntries
<1>2. ApartInv
  BY DEF Init, ApartInv, LastWordWaits, HeardTheLast, NoEntries
<1>3. TimeInv
  BY DEF Init, TimeInv, AgeIsBounded, NoEntries
<1> QED  BY <1>1, <1>2, <1>3, TypeInit DEF IInv

LEMMA InvStep == IInv /\ [Next]_vars => IInv'
BY TypeStep, HeardOrderStep, SeenOrderStep, LastWordStep, TimeStep DEF IInv, OrderInv

LEMMA Invariance == Spec => []IInv
BY InvInit, InvStep, PTL DEF Spec

\* Every state of the directory and of what feeds it is well formed.
THEOREM TypeCorrect == Spec => []TypeOK
<1>1. IInv => TypeOK
  BY DEF IInv
<1> QED  BY Invariance, <1>1, PTL

\* A run is given the url of an instance's last boot, in the tenant, system of
\* record and environment it asked for, unless that announcement was lost or has
\* not been handled (apply_presence, resolve).
THEOREM EndpointsCurrent == Spec => []EndpointsAreCurrent
<1>1. ASSUME IInv, NEW q \in Query, NEW i \in Resolvable(q), i \notin missed,
             ~ \E k \in DOMAIN inbox : inbox[k] # None /\ inbox[k].instance = i
      PROVE  /\ directory[i].announcement = booted[i]
             /\ booted[i].reachable
             /\ booted[i].tenant = q.tenant
             /\ booted[i].sor = q.sor
             /\ q.environment # None => booted[i].environment = q.environment
  <2>1. i \in Instances /\ directory[i] # None /\ Matches(directory[i].announcement, q)
    BY DEF Resolvable, Freshest, Candidates
  <2>2. directory[i].announcement = booted[i]
    BY <1>1, <2>1 DEF IInv, ApartInv, HeardTheLast, Of
  <2> QED  BY <2>1, <2>2 DEF Matches
<1>2. IInv => EndpointsAreCurrent
  BY <1>1 DEF EndpointsAreCurrent
<1> QED  BY Invariance, <1>2, PTL

\* While the clock is not set back, no instance is used in the place of one that
\* was heard later, unless both were heard in the same second (max_by_key).
THEOREM LatestUsed == Spec => []LatestIsUsed
<1>1. ASSUME IInv, back = 0, NEW q \in Query, NEW i \in Resolvable(q),
             NEW j \in Candidates(q), heard[j] > heard[i]
      PROVE  directory[j].lastSeen = directory[i].lastSeen
  <2>1. /\ i \in Instances /\ directory[i] # None
        /\ j \in Instances /\ directory[j] # None
        /\ directory[j].lastSeen <= directory[i].lastSeen
    BY DEF Resolvable, Freshest, Candidates
  <2>2. directory[i].lastSeen \in Nat /\ directory[j].lastSeen \in Nat
    BY <1>1, <2>1, EntryParts, PresenceAssumption DEF IInv
  <2>3. heard[i] \in Nat /\ heard[j] \in Nat
    BY <1>1, <2>1 DEF IInv, TypeOK
  <2>4. directory[i].lastSeen <= directory[j].lastSeen
    BY <1>1, <2>1, <2>3 DEF IInv, OrderInv, SeenInOrder
  <2> QED  BY <2>1, <2>2, <2>4
<1>2. IInv => LatestIsUsed
  BY <1>1 DEF LatestIsUsed
<1> QED  BY Invariance, <1>2, PTL

\* An entry was heard no longer ago, in seconds that really passed, than the TTL, what
\* the clock was set back by since, and the silence of the bus (evict_stale).
THEOREM AgeBounded == Spec => []AgeIsBounded
<1>1. IInv => AgeIsBounded
  BY DEF IInv, TimeInv
<1> QED  BY Invariance, <1>1, PTL

\* Only age and the end of the daemon take an instance out of the directory
\* (evict_stale).
THEOREM OnlyAgeEvicts == Spec => EvictedByAge
<1>1. ASSUME IInv, [Next]_vars, NEW i \in Instances, directory[i] # None,
             directory'[i] = None
      PROVE  \/ clock > directory[i].lastSeen + Ttl
             \/ directory' = NoEntries /\ session' = "down"
  <2>1. CASE directory' = directory
    BY <1>1, <2>1
  <2>2. CASE RestartDaemon
    BY <2>2 DEF RestartDaemon
  <2>3. ASSUME inbox # <<>>, Head(inbox) # None, Hear(Head(inbox))
        PROVE  clock > directory[i].lastSeen + Ttl
    <3>1. Head(inbox) \in Announcements
      BY <1>1, <2>3, InboxParts DEF IInv
    <3> QED  BY <1>1, <2>3, <3>1, HeardEntry DEF IInv
  <2> QED
    BY <1>1, <2>1, <2>2, <2>3
    DEF Next, BootInstance, PublishNoise, Connect, LoseConnection, EndSession, Tick,
        SetClockBack, Ingest, IngestPanics, vars, subscriberVars, worldVars, observed
<1>2. IInv /\ [Next]_vars =>
        [\A i \in Instances :
           directory[i] # None /\ directory'[i] = None =>
             \/ clock > directory[i].lastSeen + Ttl
             \/ directory' = NoEntries /\ session' = "down"]_vars
  BY <1>1
<1> QED  BY Invariance, <1>2, PTL DEF Spec, EvictedByAge
=============================================================================
