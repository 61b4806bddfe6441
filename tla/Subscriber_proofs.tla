--------------------------- MODULE Subscriber_proofs --------------------------
(***************************************************************************)
(* Proofs about Subscriber and the reconnect loop under it, for any        *)
(* backoffs, any subscriptions and any number of events, whatever the      *)
(* broker does.                                                            *)
(***************************************************************************)
EXTENDS Subscriber, WellFoundedInduction, TLAPS

-----------------------------------------------------------------------------
(***************************************************************************)
(* Least elements, and the least of two numbers.                           *)
(***************************************************************************)
Before == {p \in Nat \X Nat : p[1] < p[2]}

LEMMA NoneBeforeForever == IsWellFoundedOn(Before, Nat)
BY NatLessThanWellFounded DEF OpToRel, Before

LEMMA Least ==
  ASSUME NEW S, S \subseteq Nat, S # {}
  PROVE  \E n \in S : \A k \in S : n <= k
<1>1. PICK n \in S : \A k \in S : ~ (<<k, n>> \in Before)
  <2>1. \E n \in S : \A k \in S : ~ (<<k, n>> \in Before)
    BY NoneBeforeForever, WFMin
  <2> QED  BY <2>1
<1>2. ASSUME NEW k \in S  PROVE n <= k
  <2>1. ~ (<<k, n>> \in Before) /\ <<k, n>> \in Nat \X Nat
    BY <1>1
  <2>2. ~ (k < n)
    BY <2>1 DEF Before
  <2> QED  BY <2>2
<1> QED  BY <1>2

LEMMA MinOfTwo ==
  ASSUME NEW a \in Nat, NEW b \in Nat
  PROVE  /\ Loop!Min({a, b}) \in Nat
         /\ Loop!Min({a, b}) = IF a <= b THEN a ELSE b
<1> DEFINE least == IF a <= b THEN a ELSE b
<1>1. least \in {a, b} /\ \A y \in {a, b} : least <= y
  OBVIOUS
<1>2. \A x \in {a, b} : (\A y \in {a, b} : x <= y) => x = least
  OBVIOUS
<1>3. (CHOOSE x \in {a, b} : \A y \in {a, b} : x <= y) = least
  <2> HIDE DEF least
  <2> QED  BY <1>1, <1>2
<1> QED  BY <1>3 DEF Loop!Min

-----------------------------------------------------------------------------
(***************************************************************************)
(* The sessions of a broker that is down (Down, of NatsReconnect): how many *)
(* there are in HealthySession seconds.                                    *)
(***************************************************************************)
LEMMA Numbers ==
  /\ InitialBackoff \in Nat /\ MaxBackoff \in Nat /\ HealthySession \in Nat
  /\ MaxLate \in Nat /\ MaxEvents \in Nat
  /\ 0 < InitialBackoff /\ InitialBackoff <= MaxBackoff
  /\ 0 < HealthySession /\ HealthySession <= MaxBackoff
BY SubscriberAssumption

LEMMA NextBackoffIs ==
  ASSUME NEW b \in Nat
  PROVE  Loop!NextBackoff(b) = IF b * 2 <= MaxBackoff THEN b * 2 ELSE MaxBackoff
<1>1. b * 2 \in Nat
  OBVIOUS
<1> QED  BY <1>1, MinOfTwo, Numbers DEF Loop!NextBackoff

\* The k-th session, if f says what the sessions before it are.
Session(f, k) ==
  IF k = 0 THEN [begins |-> 0, sleeps |-> InitialBackoff]
  ELSE [begins |-> f[k - 1].begins + f[k - 1].sleeps,
        sleeps |-> Loop!NextBackoff(f[k - 1].sleeps)]

\* There is a function that says so of each session.
LEMMA DownEnds ==
  ASSUME NEW L \in Nat
  PROVE  \E f : f = [k \in 0..L |-> Session(f, k)]
<1> DEFINE Goes(n) == \E f : f = [k \in 0..n |-> Session(f, k)]
           bad == {n \in Nat : ~Goes(n)}
<1>1. Goes(0)
  <2> DEFINE g == [k \in 0..0 |-> [begins |-> 0, sleeps |-> InitialBackoff]]
  <2>1. \A k \in 0..0 : g[k] = Session(g, k)
    BY DEF Session
  <2>2. g = [k \in 0..0 |-> g[k]]
    OBVIOUS
  <2> HIDE DEF g
  <2>3. g = [k \in 0..0 |-> Session(g, k)]
    BY <2>1, <2>2
  <2> QED  BY <2>3
<1>2. ASSUME NEW n \in Nat, n # 0, Goes(n - 1)
      PROVE  Goes(n)
  <2>1. PICK f : f = [k \in 0..(n - 1) |-> Session(f, k)]
    BY <1>2
  <2> DEFINE g == [k \in 0..n |-> IF k = n THEN Session(f, n) ELSE f[k]]
  <2>2. ASSUME NEW k \in 0..n  PROVE g[k] = Session(g, k)
    <3>1. Session(g, k) = Session(f, k)
      <4>1. CASE k = 0
        BY <4>1 DEF Session
      <4>2. CASE k # 0
        <5>1. k - 1 \in 0..n /\ k - 1 # n
          BY <4>2
        <5>2. g[k - 1] = f[k - 1]
          BY <5>1
        <5> HIDE DEF g
        <5> QED  BY <4>2, <5>2 DEF Session
      <4> QED  BY <4>1, <4>2
    <3>2. g[k] = Session(f, k)
      <4>1. CASE k = n
        BY <4>1
      <4>2. CASE k # n
        <5>1. k \in 0..(n - 1) /\ g[k] = f[k]
          BY <4>2
        <5> HIDE DEF g
        <5> QED  BY <2>1, <5>1
      <4> QED  BY <4>1, <4>2
    <3> HIDE DEF g
    <3> QED  BY <3>1, <3>2
  <2>3. g = [k \in 0..n |-> g[k]]
    OBVIOUS
  <2> HIDE DEF g
  <2>4. g = [k \in 0..n |-> Session(g, k)]
    BY <2>2, <2>3
  <2> QED  BY <2>4
<1> HIDE DEF Goes
<1>3. bad = {}
  <2> SUFFICES ASSUME bad # {}  PROVE FALSE
    OBVIOUS
  <2>1. PICK n \in bad : \A k \in bad : n <= k
    BY Least
  <2>2. n # 0
    BY <1>1
  <2>3. n - 1 \in Nat /\ ~ (n <= n - 1)
    BY <2>2
  <2>4. Goes(n - 1)
    BY <2>1, <2>3
  <2> QED  BY <1>2, <2>2, <2>4
<1>4. Goes(L)
  BY <1>3
<1> QED  BY <1>4 DEF Goes

LEMMA DownIs ==
  /\ Loop!Down[0] = [begins |-> 0, sleeps |-> InitialBackoff]
  /\ \A k \in 0..HealthySession :
       k # 0 => /\ Loop!Down[k].begins = Loop!Down[k - 1].begins + Loop!Down[k - 1].sleeps
                /\ Loop!Down[k].sleeps = Loop!NextBackoff(Loop!Down[k - 1].sleeps)
<1> DEFINE Says(f) == f = [k \in 0..HealthySession |->
              IF k = 0 THEN [begins |-> 0, sleeps |-> InitialBackoff]
              ELSE [begins |-> f[k - 1].begins + f[k - 1].sleeps,
                    sleeps |-> Loop!NextBackoff(f[k - 1].sleeps)]]
           down == CHOOSE f : Says(f)
<1>1. Loop!Down = down
  BY DEF Loop!Down, Loop!NextBackoff
<1>2. \E f : Says(f)
  BY Numbers, DownEnds DEF Session
<1>3. Says(down)
  <2> HIDE DEF Says
  <2> QED  BY <1>2
<1>4. down = [k \in 0..HealthySession |-> Session(down, k)]
  <2> HIDE DEF down
  <2> QED  BY <1>3 DEF Session
<1> HIDE DEF down, Says
<1>5. \A k \in 0..HealthySession : down[k] = Session(down, k)
  BY <1>4
<1>6. down[0] = [begins |-> 0, sleeps |-> InitialBackoff]
  <2>1. down[0] = Session(down, 0)
    BY <1>5, Numbers
  <2>2. Session(down, 0) = [begins |-> 0, sleeps |-> InitialBackoff]
    BY DEF Session
  <2> QED  BY <2>1, <2>2
<1>7. ASSUME NEW k \in 0..HealthySession, k # 0
      PROVE  /\ down[k].begins = down[k - 1].begins + down[k - 1].sleeps
             /\ down[k].sleeps = Loop!NextBackoff(down[k - 1].sleeps)
  <2>1. down[k] = [begins |-> down[k - 1].begins + down[k - 1].sleeps,
                   sleeps |-> Loop!NextBackoff(down[k - 1].sleeps)]
    BY <1>5, <1>7 DEF Session
  <2> QED  BY <2>1
<1> QED  BY <1>1, <1>6, <1>7

Begins(k) == Loop!Down[k].begins
Sleeps(k) == Loop!Down[k].sleeps

\* The sleep is as long as all before it and the first, unless it is capped.
SessionIs(k) ==
  /\ Begins(k) \in Nat /\ k <= Begins(k)
  /\ Sleeps(k) \in InitialBackoff..MaxBackoff
  /\ Sleeps(k) = Begins(k) + InitialBackoff \/ Sleeps(k) = MaxBackoff

LEMMA SessionsAre ==
  \A k \in 0..HealthySession : SessionIs(k)
<1> DEFINE bad == {k \in 0..HealthySession : ~SessionIs(k)}
<1>1. SessionIs(0)
  BY DownIs, Numbers DEF SessionIs, Begins, Sleeps
<1>2. ASSUME NEW k \in 0..HealthySession, k # 0, SessionIs(k - 1)
      PROVE  SessionIs(k)
  <2>1. /\ Begins(k) = Begins(k - 1) + Sleeps(k - 1)
        /\ Sleeps(k) = Loop!NextBackoff(Sleeps(k - 1))
    BY <1>2, DownIs DEF Begins, Sleeps
  <2>2. /\ Begins(k - 1) \in Nat /\ k - 1 <= Begins(k - 1) /\ Sleeps(k - 1) \in Nat
        /\ InitialBackoff <= Sleeps(k - 1) /\ Sleeps(k - 1) <= MaxBackoff
        /\ Sleeps(k - 1) = Begins(k - 1) + InitialBackoff \/ Sleeps(k - 1) = MaxBackoff
    BY <1>2, Numbers DEF SessionIs
  <2>3. Sleeps(k) = IF Sleeps(k - 1) * 2 <= MaxBackoff THEN Sleeps(k - 1) * 2
                    ELSE MaxBackoff
    BY <2>1, <2>2, NextBackoffIs
  <2>4. Begins(k) \in Nat /\ k <= Begins(k)
    BY <2>1, <2>2, Numbers
  <2>5. CASE Sleeps(k - 1) * 2 <= MaxBackoff
    <3>1. Sleeps(k) = Sleeps(k - 1) * 2
      BY <2>3, <2>5
    <3>2. Sleeps(k - 1) = Begins(k - 1) + InitialBackoff
      BY <2>2, <2>5, Numbers
    <3>3. Sleeps(k) = Begins(k) + InitialBackoff
      BY <2>1, <2>2, <3>1, <3>2, Numbers
    <3> QED  BY <2>2, <2>4, <2>5, <3>1, <3>3, Numbers DEF SessionIs
  <2>6. CASE ~ (Sleeps(k - 1) * 2 <= MaxBackoff)
    BY <2>3, <2>4, <2>6, Numbers DEF SessionIs
  <2> QED  BY <2>5, <2>6
<1>3. bad = {}
  <2> SUFFICES ASSUME bad # {}  PROVE FALSE
    OBVIOUS
  <2>1. bad \subseteq Nat
    OBVIOUS
  <2>2. PICK k \in bad : \A j \in bad : k <= j
    BY <2>1, Least
  <2>3. k # 0
    BY <1>1
  <2>4. k - 1 \in 0..HealthySession /\ k - 1 \notin bad
    BY <2>2, <2>3, Numbers
  <2> QED  BY <1>2, <2>3, <2>4
<1> QED  BY <1>3

LEMMA SessionsFollow ==
  ASSUME NEW j \in 0..HealthySession
  PROVE  \A k \in 0..HealthySession : j <= k => Begins(j) <= Begins(k)
<1> DEFINE bad == {k \in 0..HealthySession : j <= k /\ ~ (Begins(j) <= Begins(k))}
<1>1. bad = {}
  <2> SUFFICES ASSUME bad # {}  PROVE FALSE
    OBVIOUS
  <2>1. bad \subseteq Nat
    OBVIOUS
  <2>2. PICK k \in bad : \A i \in bad : k <= i
    BY <2>1, Least
  <2>3. /\ Begins(j) \in Nat /\ k \in 0..HealthySession /\ j <= k
        /\ ~ (Begins(j) <= Begins(k))
    BY SessionsAre DEF SessionIs
  <2>4. k # j /\ k # 0 /\ k - 1 \in 0..HealthySession /\ j <= k - 1
    BY <2>3, Numbers
  <2>5. Begins(j) <= Begins(k - 1)
    <3>1. k - 1 \notin bad
      BY <2>2, <2>4
    <3> QED  BY <2>4, <3>1
  <2>6. /\ Begins(k) = Begins(k - 1) + Sleeps(k - 1)
        /\ Begins(k - 1) \in Nat /\ Sleeps(k - 1) \in Nat
    BY <2>3, <2>4, DownIs, SessionsAre, Numbers DEF Begins, Sleeps, SessionIs
  <2> QED  BY <2>3, <2>5, <2>6
<1> QED  BY <1>1

\* The session after the last that begins in HealthySession seconds begins later,
\* and the sleep after it is as long.
LEMMA BurstIs ==
  /\ Loop!Burst \in 1..HealthySession
  /\ HealthySession <= Begins(Loop!Burst)
  /\ HealthySession <= Sleeps(Loop!Burst)
<1> DEFINE late == {k \in 0..HealthySession : HealthySession <= Begins(k)}
<1>1. /\ HealthySession \in 0..HealthySession
      /\ \A k \in 0..HealthySession : Begins(k) \in Nat /\ k <= Begins(k)
  BY SessionsAre, Numbers DEF SessionIs
<1>2. late \subseteq Nat /\ HealthySession \in late
  BY <1>1, Numbers
<1>3. \E t \in late : \A k \in late : t <= k
  <2> HIDE DEF late
  <2> QED  BY <1>2, Least
<1>4. Loop!Burst = CHOOSE t \in late : \A k \in late : t <= k
  BY DEF Loop!Burst, Loop!Min, Begins
<1>5. Loop!Burst \in late
  <2> HIDE DEF late
  <2> QED  BY <1>3, <1>4
<1> DEFINE b == Loop!Burst
<1>6. b \in 0..HealthySession /\ HealthySession <= Begins(b)
  BY <1>5
<1>7. b # 0
  <2>1. Begins(0) = 0
    BY DownIs DEF Begins
  <2> QED  BY <1>6, <2>1, Numbers
<1>8. HealthySession <= Sleeps(b)
  <2>1. Begins(b) \in Nat /\ SessionIs(b)
    BY <1>1, <1>6, SessionsAre
  <2> HIDE DEF b
  <2> QED  BY <1>6, <2>1, Numbers DEF SessionIs
<1> QED  BY <1>6, <1>7, <1>8, Numbers

-----------------------------------------------------------------------------
(***************************************************************************)
(* The loop: its types, and how many sessions it begins.                   *)
(***************************************************************************)
\* Of the last sessions each began HealthySession seconds ago, or those after it no
\* earlier than those of a broker that is down, and the backoff is as long.
SpinInv ==
  \A k \in 0..Loop!Burst :
    \/ ages[k] = HealthySession
    \/ Begins(k) + ran + slept <= ages[k] /\ Sleeps(k) <= backoff

LEMMA SpinInit ==
  ASSUME Loop!Init
  PROVE  Loop!TypeOK /\ SpinInv
<1>1. /\ phase = "session" /\ backoff = InitialBackoff /\ ran = 0 /\ slept = 0
      /\ ages = [k \in 0..Loop!Burst |-> IF k = 0 THEN 0 ELSE HealthySession]
  BY DEF Loop!Init
<1>2. Loop!TypeOK
  BY <1>1, Numbers DEF Loop!TypeOK, Loop!LongSession
<1>3. Begins(0) = 0 /\ Sleeps(0) = InitialBackoff
  BY DownIs DEF Begins, Sleeps
<1>4. SpinInv
  BY <1>1, <1>3, Numbers DEF SpinInv
<1> QED  BY <1>2, <1>4

LEMMA LoopTypes ==
  ASSUME Loop!TypeOK
  PROVE  /\ backoff \in Nat /\ InitialBackoff <= backoff /\ backoff <= MaxBackoff
         /\ ran \in Nat /\ slept \in Nat
         /\ DOMAIN ages = 0..Loop!Burst
         /\ \A k \in 0..Loop!Burst : ages[k] \in Nat /\ ages[k] <= HealthySession
BY Numbers DEF Loop!TypeOK, Loop!LongSession

LEMMA BackoffAfterIs ==
  ASSUME NEW b \in InitialBackoff..MaxBackoff, NEW t \in Nat
  PROVE  Loop!BackoffAfter(t, b) \in InitialBackoff..MaxBackoff
<1>1. b \in Nat /\ InitialBackoff <= b /\ b <= MaxBackoff
  BY Numbers
<1>2. Loop!NextBackoff(b) \in InitialBackoff..MaxBackoff
  BY <1>1, NextBackoffIs, Numbers
<1> QED  BY <1>2, Numbers DEF Loop!BackoffAfter

LEMMA EndSessionLoops ==
  ASSUME Loop!TypeOK, SpinInv, Loop!EndSession
  PROVE  Loop!TypeOK' /\ SpinInv'
<1>1. phase' = "sleep" /\ UNCHANGED <<backoff, ran, slept, ages>>
  BY DEF Loop!EndSession
<1>2. Loop!TypeOK'
  BY <1>1 DEF Loop!TypeOK
<1>3. SpinInv'
  BY <1>1 DEF SpinInv
<1> QED  BY <1>2, <1>3

\* One second more of a session or a sleep is one more since a session began.
LEMMA OneSecond ==
  ASSUME NEW b \in Nat, NEW r \in Nat, NEW s \in Nat, NEW a \in Nat,
         NEW r2 \in Nat, NEW s2 \in Nat,
         b + r + s <= a, r2 + s2 <= r + s + 1
  PROVE  b + r2 + s2 <= a + 1
OBVIOUS

LEMMA TickLoops ==
  ASSUME Loop!TypeOK, SpinInv, Loop!Tick
  PROVE  Loop!TypeOK' /\ SpinInv'
<1>1. /\ \A k \in 0..Loop!Burst :
           ages'[k] = IF ages[k] + 1 <= HealthySession THEN ages[k] + 1
                      ELSE HealthySession
      /\ ages' \in [0..Loop!Burst -> 0..HealthySession]
      /\ UNCHANGED <<phase, backoff>>
  <2>1. ASSUME NEW k \in 0..Loop!Burst
        PROVE  Loop!Min({ages[k] + 1, HealthySession}) =
                 IF ages[k] + 1 <= HealthySession THEN ages[k] + 1 ELSE HealthySession
    <3>1. ages[k] + 1 \in Nat /\ HealthySession \in Nat
      BY LoopTypes, Numbers
    <3> QED  BY <3>1, MinOfTwo
  <2>2. \A k \in 0..Loop!Burst :
          Loop!Min({ages[k] + 1, HealthySession}) \in 0..HealthySession
    BY <2>1, LoopTypes, Numbers
  <2>3. /\ ages' = [k \in 0..Loop!Burst |-> Loop!Min({ages[k] + 1, HealthySession})]
        /\ UNCHANGED <<phase, backoff>>
    BY LoopTypes DEF Loop!Tick
  <2> QED  BY <2>1, <2>2, <2>3
<1>2. \/ ran' \in 0..Loop!LongSession /\ ran' <= ran + 1 /\ slept' = slept
      \/ /\ slept < backoff + MaxLate /\ slept' = slept + 1 /\ ran' = ran
  <2>1. CASE ran' = Loop!Min({ran + 1, Loop!LongSession}) /\ slept' = slept
    <3>1. ran + 1 \in Nat /\ Loop!LongSession \in Nat
      BY LoopTypes, Numbers DEF Loop!LongSession
    <3>2. ran' = IF ran + 1 <= Loop!LongSession THEN ran + 1 ELSE Loop!LongSession
      BY <2>1, <3>1, MinOfTwo
    <3> QED  BY <2>1, <3>1, <3>2, LoopTypes
  <2> QED  BY <2>1 DEF Loop!Tick
<1>3. Loop!TypeOK'
  <2>1. slept' \in 0..(MaxBackoff + MaxLate)
    <3>1. slept \in 0..(MaxBackoff + MaxLate)
      BY DEF Loop!TypeOK
    <3> QED  BY <1>2, <3>1, LoopTypes, Numbers
  <2>2. ran' \in 0..Loop!LongSession
    BY <1>2 DEF Loop!TypeOK
  <2> QED  BY <1>1, <2>1, <2>2 DEF Loop!TypeOK
<1>4. ASSUME NEW k \in 0..Loop!Burst, ages'[k] # HealthySession
      PROVE  Begins(k) + ran' + slept' <= ages'[k] /\ Sleeps(k) <= backoff'
  <2>1. ages'[k] = ages[k] + 1 /\ ages[k] # HealthySession
    BY <1>1, <1>4, LoopTypes, Numbers
  <2>2. Begins(k) + ran + slept <= ages[k] /\ Sleeps(k) <= backoff
    BY <2>1 DEF SpinInv
  <2>3. ran' + slept' <= ran + slept + 1 /\ ran' \in Nat /\ slept' \in Nat
    <3>1. ran \in Nat /\ slept \in Nat /\ Loop!LongSession \in Nat
      BY LoopTypes, Numbers DEF Loop!LongSession
    <3> QED  BY <1>2, <3>1
  <2>4. Begins(k) \in Nat
    BY BurstIs, SessionsAre, Numbers DEF SessionIs
  <2>5. Begins(k) + ran' + slept' <= ages'[k]
    <3>1. ages[k] \in Nat /\ ran \in Nat /\ slept \in Nat
      BY LoopTypes
    <3>2. ages'[k] = ages[k] + 1 /\ Begins(k) + ran + slept <= ages[k]
      BY <2>1, <2>2
    <3>3. Begins(k) + ran' + slept' <= ages[k] + 1
      BY <2>3, <2>4, <3>1, <3>2, OneSecond
    <3> QED  BY <3>2, <3>3
  <2>6. Sleeps(k) <= backoff'
    BY <1>1, <2>2
  <2> QED  BY <2>5, <2>6
<1> QED  BY <1>3, <1>4 DEF SpinInv

\* A session that is begun: HealthySession seconds after all the others, or as the
\* next one of a broker that is down.
LEMMA ReconnectLoops ==
  ASSUME Loop!TypeOK, SpinInv, Loop!Reconnect
  PROVE  Loop!TypeOK' /\ SpinInv'
<1>1. /\ backoff <= slept /\ phase' = "session"
      /\ backoff' = Loop!BackoffAfter(ran + slept, backoff)
      /\ ran' = 0 /\ slept' = 0
      /\ ages' = [k \in 0..Loop!Burst |-> IF k = 0 THEN 0 ELSE ages[k - 1]]
  BY LoopTypes DEF Loop!Reconnect, Loop!Begin
<1>2. Loop!TypeOK'
  <2>1. backoff' \in InitialBackoff..MaxBackoff
    <3>1. ran + slept \in Nat
      BY LoopTypes
    <3>2. backoff \in InitialBackoff..MaxBackoff
      BY DEF Loop!TypeOK
    <3> QED  BY <1>1, <3>1, <3>2, BackoffAfterIs
  <2>2. 0 \in 0..(MaxBackoff + MaxLate) /\ 0 \in 0..Loop!LongSession
    BY Numbers DEF Loop!LongSession
  <2>3. \A k \in 0..Loop!Burst : k # 0 => k - 1 \in 0..Loop!Burst
    BY BurstIs, Numbers
  <2>4. ages' \in [0..Loop!Burst -> 0..HealthySession]
    BY <1>1, <2>3, Numbers DEF Loop!TypeOK
  <2> QED  BY <1>1, <2>1, <2>2, <2>4 DEF Loop!TypeOK
<1>3. Begins(0) = 0 /\ Sleeps(0) = InitialBackoff /\ InitialBackoff <= backoff'
  BY <1>2, DownIs, Numbers DEF Begins, Sleeps, Loop!TypeOK
<1>4. ASSUME NEW k \in 0..Loop!Burst, k # 0, ages'[k] # HealthySession
      PROVE  Begins(k) + ran' + slept' <= ages'[k] /\ Sleeps(k) <= backoff'
  <2>1. k - 1 \in 0..Loop!Burst /\ k - 1 \in 0..HealthySession
        /\ k \in 0..HealthySession
    BY <1>4, BurstIs, Numbers
  <2>2. ages'[k] = ages[k - 1] /\ ages[k - 1] # HealthySession
    BY <1>1, <1>4
  <2>3. /\ Begins(k - 1) + ran + slept <= ages[k - 1] /\ Sleeps(k - 1) <= backoff
        /\ ages[k - 1] \in Nat /\ ages[k - 1] < HealthySession
    BY <2>1, <2>2, LoopTypes, Numbers DEF SpinInv
  <2>4. /\ Begins(k - 1) \in Nat /\ Sleeps(k - 1) \in Nat
        /\ Begins(k) = Begins(k - 1) + Sleeps(k - 1)
        /\ Sleeps(k) = Loop!NextBackoff(Sleeps(k - 1))
    BY <1>4, <2>1, DownIs, SessionsAre, Numbers DEF SessionIs, Begins, Sleeps
  <2>5. backoff' = Loop!NextBackoff(backoff)
    <3>1. ~ (HealthySession <= ran + slept)
      BY <2>3, <2>4, LoopTypes, Numbers
    <3> QED  BY <1>1, <3>1, LoopTypes, Numbers DEF Loop!BackoffAfter
  <2>6. Sleeps(k) <= backoff'
    <3>1. backoff \in Nat /\ MaxBackoff \in Nat
      BY LoopTypes, Numbers
    <3>2. backoff' = IF backoff * 2 <= MaxBackoff THEN backoff * 2 ELSE MaxBackoff
      BY <2>5, <3>1, NextBackoffIs
    <3>3. Sleeps(k) = IF Sleeps(k - 1) * 2 <= MaxBackoff THEN Sleeps(k - 1) * 2
                      ELSE MaxBackoff
      BY <2>4, NextBackoffIs
    <3> QED  BY <2>3, <2>4, <3>1, <3>2, <3>3
  <2>7. Begins(k) + ran' + slept' <= ages'[k]
    BY <1>1, <2>2, <2>3, <2>4, LoopTypes
  <2> QED  BY <2>6, <2>7
<1>5. ages'[0] = 0
  BY <1>1, BurstIs, Numbers
<1>6. SpinInv'
  BY <1>1, <1>3, <1>4, <1>5 DEF SpinInv
<1> QED  BY <1>2, <1>6

LEMMA SpinSound ==
  ASSUME Loop!TypeOK, SpinInv
  PROVE  NeverBusyLoops
<1>1. Loop!Burst \in 0..Loop!Burst /\ HealthySession <= Begins(Loop!Burst)
      /\ Begins(Loop!Burst) \in Nat
  BY BurstIs, SessionsAre, Numbers DEF SessionIs
<1>2. ages[Loop!Burst] \in Nat /\ ages[Loop!Burst] <= HealthySession
  BY <1>1, LoopTypes
<1>3. HealthySession <= ages[Loop!Burst]
  BY <1>1, <1>2, LoopTypes, Numbers DEF SpinInv
<1>4. ages[Loop!Burst] = HealthySession
  BY <1>2, <1>3, Numbers
<1> QED  BY <1>4 DEF NeverBusyLoops, Loop!NeverBusyLoops

-----------------------------------------------------------------------------
(***************************************************************************)
(* The messages.                                                           *)
(***************************************************************************)
MessageTypeOK ==
  /\ stream \in {"none", "open", "lost"}
  /\ inbox \in Seq(Message)
  /\ current \in Current \cup {None}
  /\ published \in 0..MaxEvents
  /\ runs \in Seq(Run)
  /\ handled \subseteq Message

\* What is in hand is an event, of which the subscriptions so far were run that it
\* matches; busy while the next one runs.
HandInv ==
  current # None =>
    /\ current.event # Undecodable
    /\ current.busy => current.next <= Len(Consumes)
    /\ \A r \in 1..Len(runs) : runs[r].n = current.n =>
         runs[r].sub < current.next \/ (runs[r].sub = current.next /\ current.busy)
    /\ \A s \in 1..Len(Consumes) :
         s < current.next \/ (s = current.next /\ current.busy) =>
           (TopicMatches(Consumes[s], TopicOf[current.event]) <=>
              \E r \in 1..Len(runs) : runs[r].n = current.n /\ runs[r].sub = s)

\* So are the messages that are done with, for all subscriptions.
DoneInv ==
  \A m \in handled :
    /\ m.event # Undecodable
    /\ \A s \in 1..Len(Consumes) :
         TopicMatches(Consumes[s], TopicOf[m.event]) <=>
           \E r \in 1..Len(runs) : runs[r].n = m.n /\ runs[r].sub = s

\* What is done with was published before what is in hand, and that before what
\* waits; runs are of these, in order.
OrderInv ==
  /\ \A k \in 1..Len(inbox) : inbox[k].n <= published
  /\ \A j, k \in 1..Len(inbox) : j < k => inbox[j].n < inbox[k].n
  /\ current # None =>
       /\ current.n <= published
       /\ \A k \in 1..Len(inbox) : current.n < inbox[k].n
       /\ \A m \in handled : m.n < current.n
       /\ \A r \in 1..Len(runs) : runs[r].n <= current.n
  /\ \A m \in handled : /\ m.n <= published
                        /\ \A k \in 1..Len(inbox) : m.n < inbox[k].n
  /\ \A r \in 1..Len(runs) : /\ runs[r].n <= published
                             /\ \A k \in 1..Len(inbox) : runs[r].n < inbox[k].n
  /\ \A j, k \in 1..Len(runs) : j < k =>
       \/ runs[j].n < runs[k].n
       \/ runs[j].n = runs[k].n /\ runs[j].sub < runs[k].sub

IInv == TypeOK /\ SpinInv /\ HandInv /\ DoneInv /\ OrderInv

LEMMA TypeParts == TypeOK <=> Loop!TypeOK /\ MessageTypeOK
BY DEF TypeOK, MessageTypeOK

LEMMA MessageParts ==
  ASSUME NEW m \in Message
  PROVE  m.n \in Nat /\ m.n \in 1..MaxEvents /\ m.event \in Events
BY Numbers DEF Message

LEMMA CurrentParts ==
  ASSUME NEW c \in Current
  PROVE  /\ c = [n |-> c.n, event |-> c.event, next |-> c.next, busy |-> c.busy]
         /\ c.n \in 1..MaxEvents /\ c.n \in Nat /\ c.event \in Events
         /\ c.next \in 1..(Len(Consumes) + 1) /\ c.next \in Nat
         /\ c.busy \in BOOLEAN /\ c # None
<1>1. Len(Consumes) \in Nat
  BY SubscriberAssumption
<1>2. Current \subseteq [n : Nat, event : Events, next : Nat, busy : BOOLEAN]
  BY <1>1, Numbers DEF Current
<1>3. c # None
  BY <1>2, SubscriberAssumption
<1> QED  BY <1>1, <1>2, <1>3 DEF Current

LEMMA RunParts ==
  ASSUME NEW r \in Run
  PROVE  r.n \in Nat /\ r.sub \in Nat /\ r.sub \in 1..Len(Consumes)
BY Numbers, SubscriberAssumption DEF Run

LEMMA RecordsAre ==
  ASSUME MessageTypeOK
  PROVE  /\ published \in Nat /\ Len(inbox) \in Nat /\ Len(runs) \in Nat
         /\ \A k \in 1..Len(inbox) : inbox[k] \in Message /\ inbox[k].n \in Nat
         /\ \A r \in 1..Len(runs) :
              runs[r] \in Run /\ runs[r].n \in Nat /\ runs[r].sub \in Nat
         /\ \A m \in handled : m \in Message /\ m.n \in Nat
<1>1. /\ inbox \in Seq(Message) /\ runs \in Seq(Run) /\ handled \subseteq Message
      /\ published \in Nat
  BY Numbers DEF MessageTypeOK
<1>2. \A k \in 1..Len(inbox) : inbox[k] \in Message
  BY <1>1
<1>3. \A r \in 1..Len(runs) : runs[r] \in Run
  BY <1>1
<1> QED  BY <1>1, <1>2, <1>3, MessageParts, RunParts

\* The head of the inbox and what is left of it.
LEMMA InboxParts ==
  ASSUME MessageTypeOK, inbox # <<>>
  PROVE  /\ Head(inbox) = inbox[1] /\ Head(inbox) \in Message
         /\ Tail(inbox) \in Seq(Message)
         /\ Len(inbox) \in Nat \ {0} /\ Len(Tail(inbox)) = Len(inbox) - 1
         /\ \A k \in 1..Len(Tail(inbox)) : Tail(inbox)[k] = inbox[k + 1]
BY DEF MessageTypeOK

\* A step of the loop does not touch the messages, one of a message not the loop.
LEMMA MessagesKept ==
  ASSUME IInv, UNCHANGED <<inbox, current, runs, handled, published>>,
         stream' \in {"none", "open", "lost"}
  PROVE  MessageTypeOK' /\ HandInv' /\ DoneInv' /\ OrderInv'
<1>1. MessageTypeOK'
  BY TypeParts DEF IInv, MessageTypeOK
<1>2. HandInv' /\ DoneInv' /\ OrderInv'
  BY DEF IInv, HandInv, DoneInv, OrderInv
<1> QED  BY <1>1, <1>2

LEMMA LoopKept ==
  ASSUME IInv, UNCHANGED loopVars
  PROVE  Loop!TypeOK' /\ SpinInv'
<1>1. UNCHANGED <<phase, backoff, ran, slept, ages>>
  BY DEF loopVars
<1>2. Loop!TypeOK'
  BY <1>1, TypeParts DEF IInv, Loop!TypeOK
<1>3. SpinInv'
  BY <1>1 DEF IInv, SpinInv
<1> QED  BY <1>2, <1>3

LEMMA InitHolds ==
  ASSUME Init
  PROVE  IInv
<1>1. Loop!TypeOK /\ SpinInv
  BY SpinInit DEF Init
<1>2. /\ stream = "none" /\ inbox = <<>> /\ current = None /\ published = 0
      /\ runs = <<>> /\ handled = {}
  BY DEF Init
<1>3. MessageTypeOK
  BY <1>2, Numbers DEF MessageTypeOK
<1>4. HandInv /\ DoneInv /\ OrderInv
  BY <1>2 DEF HandInv, DoneInv, OrderInv
<1> QED  BY <1>1, <1>3, <1>4, TypeParts DEF IInv

LEMMA LoopStepsKeep ==
  ASSUME IInv, Connect \/ LoseConnection \/ EndSession \/ Reconnect \/ Tick
  PROVE  IInv'
<1>1. Loop!TypeOK' /\ SpinInv'
  <2>1. CASE Connect \/ LoseConnection
    BY <2>1, LoopKept DEF Connect, LoseConnection
  <2>2. CASE EndSession
    BY <2>2, EndSessionLoops, TypeParts DEF IInv, EndSession
  <2>3. CASE Reconnect
    BY <2>3, ReconnectLoops, TypeParts DEF IInv, Reconnect
  <2>4. CASE Tick
    BY <2>4, TickLoops, TypeParts DEF IInv, Tick
  <2> QED  BY <2>1, <2>2, <2>3, <2>4
<1>2. /\ UNCHANGED <<inbox, current, runs, handled, published>>
      /\ stream' \in {"none", "open", "lost"}
  BY TypeParts
     DEF IInv, MessageTypeOK, Connect, LoseConnection, EndSession, Reconnect, Tick,
         messageVars
<1>3. MessageTypeOK' /\ HandInv' /\ DoneInv' /\ OrderInv'
  BY <1>2, MessagesKept
<1> QED  BY <1>1, <1>3 DEF IInv, TypeOK, MessageTypeOK

LEMMA PublishKeeps ==
  ASSUME IInv, NEW e \in Events, Publish(e)
  PROVE  IInv'
<1> DEFINE m == [n |-> published + 1, event |-> e]
<1>1. /\ MessageTypeOK /\ published < MaxEvents /\ published' = published + 1
      /\ inbox' = Append(inbox, m) \/ inbox' = inbox
      /\ UNCHANGED <<stream, current, runs, handled>> /\ UNCHANGED loopVars
  BY TypeParts DEF Publish, IInv
<1>2. m \in Message /\ m.n = published + 1 /\ published' \in 0..MaxEvents
  <2>1. published + 1 \in 1..MaxEvents
    BY <1>1, Numbers DEF MessageTypeOK
  <2> QED  BY <1>1, <2>1 DEF Message
<1> HIDE DEF m
<1>3. MessageTypeOK'
  BY <1>1, <1>2 DEF MessageTypeOK
<1>4. HandInv' /\ DoneInv'
  BY <1>1 DEF IInv, HandInv, DoneInv
<1>5. \A k \in 1..Len(inbox') :
        \/ k \in 1..Len(inbox) /\ inbox'[k] = inbox[k]
        \/ k = Len(inbox) + 1 /\ inbox'[k] = m
  BY <1>1, <1>2 DEF MessageTypeOK
<1>6. OrderInv'
  <2>1. \A k \in 1..Len(inbox') : inbox'[k].n <= published'
    BY <1>1, <1>2, <1>5, RecordsAre DEF IInv, OrderInv
  <2>2. \A j, k \in 1..Len(inbox') : j < k => inbox'[j].n < inbox'[k].n
    BY <1>1, <1>2, <1>5, RecordsAre DEF IInv, OrderInv
  <2>3. ASSUME current # None
        PROVE  /\ current.n <= published'
               /\ \A k \in 1..Len(inbox') : current.n < inbox'[k].n
    <3>1. current.n \in Nat /\ current.n <= published
      BY <1>1, <2>3, CurrentParts DEF IInv, OrderInv, MessageTypeOK
    <3> QED  BY <1>1, <1>2, <1>5, <2>3, <3>1, RecordsAre DEF IInv, OrderInv
  <2>4. ASSUME NEW d \in handled
        PROVE  d.n <= published' /\ \A k \in 1..Len(inbox') : d.n < inbox'[k].n
    BY <1>1, <1>2, <1>5, RecordsAre DEF IInv, OrderInv
  <2>5. ASSUME NEW r \in 1..Len(runs)
        PROVE  /\ runs[r].n <= published'
               /\ \A k \in 1..Len(inbox') : runs[r].n < inbox'[k].n
    <3>1. published \in Nat /\ runs[r].n \in Nat /\ runs[r].n <= published
      BY <1>1, <1>2, RecordsAre DEF IInv, OrderInv
    <3>2. \A k \in 1..Len(inbox) : runs[r].n < inbox[k].n
      BY <1>1 DEF IInv, OrderInv
    <3>3. \A k \in 1..Len(inbox') : runs[r].n < inbox'[k].n
      BY <1>1, <1>2, <1>5, <3>1, <3>2
    <3> QED  BY <1>1, <1>2, <3>1, <3>3 DEF MessageTypeOK
  <2> QED  BY <1>1, <2>1, <2>2, <2>3, <2>4, <2>5 DEF IInv, OrderInv
<1>7. Loop!TypeOK' /\ SpinInv'
  BY <1>1, LoopKept
<1> QED  BY <1>1, <1>3, <1>4, <1>6, <1>7 DEF IInv, TypeOK, MessageTypeOK

LEMMA ReceiveKeeps ==
  ASSUME IInv, Receive
  PROVE  IInv'
<1> DEFINE m == Head(inbox)
           c == [n |-> m.n, event |-> m.event, next |-> 1, busy |-> FALSE]
<1>1. /\ MessageTypeOK /\ current = None /\ inbox # <<>> /\ inbox' = Tail(inbox)
      /\ current' = IF m.event = Undecodable THEN None ELSE c
      /\ UNCHANGED <<stream, runs, handled, published>> /\ UNCHANGED loopVars
  BY TypeParts DEF Receive, IInv
<1>2. /\ m = inbox[1] /\ m \in Message /\ m.n \in Nat
      /\ Len(inbox) \in Nat \ {0} /\ Len(inbox') = Len(inbox) - 1
      /\ inbox' \in Seq(Message)
      /\ \A k \in 1..Len(inbox') : inbox'[k] = inbox[k + 1]
  BY <1>1, InboxParts, MessageParts
<1> HIDE DEF m
<1>3. c \in Current
  <2>1. 1 \in 1..(Len(Consumes) + 1)
    BY SubscriberAssumption
  <2> QED  BY <1>2, <2>1, MessageParts DEF Current
<1>4. c.n = m.n /\ c.event = m.event /\ c.next = 1 /\ c.busy = FALSE /\ c # None
  BY <1>3, CurrentParts
<1> HIDE DEF c
<1>5. MessageTypeOK'
  BY <1>1, <1>2, <1>3 DEF MessageTypeOK
<1>6. \A r \in 1..Len(runs) : runs[r].n < m.n
  BY <1>1, <1>2 DEF IInv, OrderInv
<1>7. HandInv'
  <2> SUFFICES ASSUME m.event # Undecodable
               PROVE  HandInv'
    BY <1>1 DEF HandInv
  <2>1. current' = c /\ runs' = runs
    BY <1>1
  <2>2. \A r \in 1..Len(runs) : runs[r].n # m.n
    BY <1>1, <1>2, <1>6, RecordsAre
  <2>3. \A s \in 1..Len(Consumes) : ~ (s < 1)
    OBVIOUS
  <2> QED  BY <1>4, <2>1, <2>2, <2>3 DEF HandInv
<1>8. DoneInv'
  BY <1>1 DEF IInv, DoneInv
<1>9. OrderInv'
  <2>1. \A k \in 1..Len(inbox') : k + 1 \in 1..Len(inbox) /\ 1 < k + 1 /\ 1 \in 1..Len(inbox)
    BY <1>2
  <2>2. \A k \in 1..Len(inbox') : inbox'[k].n <= published /\ m.n < inbox'[k].n
    BY <1>2, <2>1 DEF IInv, OrderInv
  <2>3. \A j, k \in 1..Len(inbox') : j < k => inbox'[j].n < inbox'[k].n
    <3> SUFFICES ASSUME NEW j \in 1..Len(inbox'), NEW k \in 1..Len(inbox'), j < k
                 PROVE  inbox'[j].n < inbox'[k].n
      OBVIOUS
    <3>1. j + 1 < k + 1
      BY <1>2
    <3> QED  BY <1>2, <2>1, <3>1 DEF IInv, OrderInv
  <2>4. m.n <= published
    BY <1>2 DEF IInv, OrderInv
  <2>5. \A d \in handled :
          /\ d.n <= published /\ d.n < m.n /\ \A k \in 1..Len(inbox') : d.n < inbox'[k].n
    BY <1>2, <2>1 DEF IInv, OrderInv
  <2>6. \A r \in 1..Len(runs) :
          /\ runs[r].n <= published /\ \A k \in 1..Len(inbox') : runs[r].n < inbox'[k].n
          /\ runs[r].n <= m.n
    BY <1>1, <1>2, <1>6, <2>1, RecordsAre DEF IInv, OrderInv
  <2>7. \A j, k \in 1..Len(runs) : j < k =>
          runs[j].n < runs[k].n \/ (runs[j].n = runs[k].n /\ runs[j].sub < runs[k].sub)
    BY DEF IInv, OrderInv
  <2>8. current' # None => current' = c
    BY <1>1
  <2> QED  BY <1>1, <1>4, <2>2, <2>3, <2>4, <2>5, <2>6, <2>7, <2>8 DEF OrderInv
<1>10. Loop!TypeOK' /\ SpinInv'
  BY <1>1, LoopKept
<1> QED  BY <1>5, <1>7, <1>8, <1>9, <1>10 DEF IInv, TypeOK, MessageTypeOK

\* What a step of the message in hand leaves alone; d is the message after it.
LEMMA HandOver ==
  ASSUME IInv, current # None, NEW d \in Current, current' = d, d.n = current.n,
         d.event = current.event, UNCHANGED <<stream, inbox, handled, published>>,
         UNCHANGED loopVars, runs' \in Seq(Run),
         \A r \in 1..Len(runs') : \/ r \in 1..Len(runs) /\ runs'[r] = runs[r]
                                  \/ r = Len(runs') /\ runs'[r].n = current.n,
         Len(runs) \in Nat, Len(runs') \in Nat, Len(runs) <= Len(runs'),
         \A j, k \in 1..Len(runs') : j < k =>
           \/ runs'[j].n < runs'[k].n
           \/ runs'[j].n = runs'[k].n /\ runs'[j].sub < runs'[k].sub,
         \A r \in 1..Len(runs) : runs'[r] = runs[r],
         HandInv'
  PROVE  IInv'
<1>1. /\ MessageTypeOK /\ current \in Current /\ current.n \in Nat /\ d # None
      /\ current.n <= published
      /\ \A k \in 1..Len(inbox) : current.n < inbox[k].n
      /\ \A m \in handled : m.n < current.n
  BY TypeParts, CurrentParts DEF IInv, MessageTypeOK, OrderInv
<1>2. MessageTypeOK'
  BY <1>1 DEF MessageTypeOK
<1>3. DoneInv'
  <2> SUFFICES ASSUME NEW m \in handled
               PROVE  /\ m.event # Undecodable
                      /\ \A s \in 1..Len(Consumes) :
                           TopicMatches(Consumes[s], TopicOf[m.event]) <=>
                             \E r \in 1..Len(runs') :
                               runs'[r].n = m.n /\ runs'[r].sub = s
    BY DEF DoneInv
  <2>1. m.event # Undecodable /\ m.n < current.n /\ m.n \in Nat
    BY <1>1, RecordsAre DEF IInv, DoneInv
  <2>2. ASSUME NEW s \in 1..Len(Consumes)
        PROVE  (\E r \in 1..Len(runs) : runs[r].n = m.n /\ runs[r].sub = s) <=>
                 (\E r \in 1..Len(runs') : runs'[r].n = m.n /\ runs'[r].sub = s)
    <3>1. ASSUME NEW r \in 1..Len(runs), runs[r].n = m.n, runs[r].sub = s
          PROVE  \E i \in 1..Len(runs') : runs'[i].n = m.n /\ runs'[i].sub = s
      <4>1. r \in 1..Len(runs') /\ runs'[r] = runs[r]
        OBVIOUS
      <4> QED  BY <3>1, <4>1
    <3>2. ASSUME NEW r \in 1..Len(runs'), runs'[r].n = m.n, runs'[r].sub = s
          PROVE  \E i \in 1..Len(runs) : runs[i].n = m.n /\ runs[i].sub = s
      <4>1. r \in 1..Len(runs) /\ runs'[r] = runs[r]
        BY <1>1, <2>1, <3>2
      <4> QED  BY <3>2, <4>1
    <3> QED  BY <3>1, <3>2
  <2>3. ASSUME NEW s \in 1..Len(Consumes)
        PROVE  TopicMatches(Consumes[s], TopicOf[m.event]) <=>
                 \E r \in 1..Len(runs) : runs[r].n = m.n /\ runs[r].sub = s
    BY DEF IInv, DoneInv
  <2> QED  BY <2>1, <2>2, <2>3
<1>4. OrderInv'
  <2>1. \A k \in 1..Len(inbox) : inbox[k].n <= published
    BY DEF IInv, OrderInv
  <2>2. \A j, k \in 1..Len(inbox) : j < k => inbox[j].n < inbox[k].n
    BY DEF IInv, OrderInv
  <2>3. \A m \in handled : m.n <= published /\ \A k \in 1..Len(inbox) : m.n < inbox[k].n
    BY DEF IInv, OrderInv
  <2>4. ASSUME NEW r \in 1..Len(runs')
        PROVE  /\ runs'[r].n <= published /\ runs'[r].n <= current.n
               /\ \A k \in 1..Len(inbox) : runs'[r].n < inbox[k].n
    <3>1. CASE r \in 1..Len(runs) /\ runs'[r] = runs[r]
      BY <3>1 DEF IInv, OrderInv
    <3>2. CASE runs'[r].n = current.n
      BY <1>1, <3>2
    <3> QED  BY <3>1, <3>2
  <2> QED  BY <1>1, <2>1, <2>2, <2>3, <2>4 DEF OrderInv
<1>5. Loop!TypeOK' /\ SpinInv'
  BY LoopKept
<1> QED  BY <1>2, <1>3, <1>4, <1>5 DEF IInv, TypeOK, MessageTypeOK

LEMMA SkipKeeps ==
  ASSUME IInv, SkipSubscription
  PROVE  IInv'
<1>1. /\ MessageTypeOK /\ current # None /\ ~current.busy /\ ~Consumed
      /\ current.next <= Len(Consumes)
      /\ current' = [current EXCEPT !.next = @ + 1]
      /\ UNCHANGED <<stream, inbox, runs, handled, published>> /\ UNCHANGED loopVars
  BY TypeParts DEF SkipSubscription, InHand, IInv
<1>2. current \in Current
  BY <1>1 DEF MessageTypeOK
<1> DEFINE d == [n |-> current.n, event |-> current.event, next |-> current.next + 1,
                 busy |-> current.busy]
<1>3. current' = d /\ d \in Current
  <2>1. /\ Len(Consumes) \in Nat /\ current.next \in Nat
        /\ current.next + 1 \in 1..(Len(Consumes) + 1)
    BY <1>1, <1>2, CurrentParts, SubscriberAssumption
  <2>2. d \in Current
    BY <1>2, <2>1, CurrentParts DEF Current
  <2>3. current' = d
    BY <1>1, <1>2, CurrentParts DEF Current
  <2> QED  BY <2>2, <2>3
<1>4. d.n = current.n /\ d.event = current.event /\ d.next = current.next + 1
      /\ d.busy = FALSE
  BY <1>1, <1>2, CurrentParts
<1> HIDE DEF d
<1>5. HandInv'
  <2>1. current.event # Undecodable /\ current.next \in Nat
    BY <1>1, <1>2, CurrentParts DEF IInv, HandInv
  <2>2. ASSUME NEW r \in 1..Len(runs), runs[r].n = current.n
        PROVE  runs[r].sub < current.next /\ runs[r].sub < current.next + 1
    <3>1. runs[r].sub < current.next
      BY <1>1, <2>2 DEF IInv, HandInv
    <3>2. runs[r].sub \in Nat
      BY <1>1, RecordsAre
    <3> QED  BY <2>1, <3>1, <3>2
  <2>3. ASSUME NEW s \in 1..Len(Consumes), s < current.next + 1
        PROVE  TopicMatches(Consumes[s], TopicOf[current.event]) <=>
                 \E r \in 1..Len(runs) : runs[r].n = current.n /\ runs[r].sub = s
    <3>1. CASE s < current.next
      BY <1>1, <3>1 DEF IInv, HandInv
    <3>2. CASE s = current.next
      <4>1. ~ TopicMatches(Consumes[s], TopicOf[current.event])
        BY <1>1, <3>2 DEF Consumed
      <4>2. \A r \in 1..Len(runs) : ~ (runs[r].n = current.n /\ runs[r].sub = s)
        BY <2>1, <2>2, <3>2
      <4> QED  BY <4>1, <4>2
    <3> QED  BY <2>1, <2>3, <3>1, <3>2
  <2> QED  BY <1>1, <1>3, <1>4, <2>1, <2>2, <2>3 DEF HandInv
<1>6. /\ runs' \in Seq(Run) /\ Len(runs) \in Nat
      /\ \A j, k \in 1..Len(runs') : j < k =>
           \/ runs'[j].n < runs'[k].n
           \/ runs'[j].n = runs'[k].n /\ runs'[j].sub < runs'[k].sub
  BY <1>1 DEF MessageTypeOK, IInv, OrderInv
<1> QED  BY <1>1, <1>3, <1>4, <1>5, <1>6, HandOver

LEMMA StartRunKeeps ==
  ASSUME IInv, StartRun
  PROVE  IInv'
<1> DEFINE run == [n |-> current.n, sub |-> current.next]
<1>1. /\ MessageTypeOK /\ current # None /\ ~current.busy /\ Consumed
      /\ current.next <= Len(Consumes)
      /\ current' = [current EXCEPT !.busy = TRUE] /\ runs' = Append(runs, run)
      /\ UNCHANGED <<stream, inbox, handled, published>> /\ UNCHANGED loopVars
  BY TypeParts DEF StartRun, InHand, IInv
<1>2. current \in Current /\ current.n \in Nat /\ current.next \in Nat
  BY <1>1, CurrentParts DEF MessageTypeOK
<1> DEFINE d == [n |-> current.n, event |-> current.event, next |-> current.next,
                 busy |-> TRUE]
<1>3. current' = d /\ d \in Current
  <2>1. d \in Current
    BY <1>2, CurrentParts DEF Current
  <2>2. current' = d
    BY <1>1, <1>2, CurrentParts DEF Current
  <2> QED  BY <2>1, <2>2
<1>4. d.n = current.n /\ d.event = current.event /\ d.next = current.next
      /\ d.busy = TRUE
  BY <1>2, CurrentParts
<1> HIDE DEF d
<1>5. run \in Run /\ run.n = current.n /\ run.sub = current.next
  <2>1. current.next \in DOMAIN Consumes /\ current.n \in 1..MaxEvents
    BY <1>1, <1>2, CurrentParts, SubscriberAssumption
  <2> QED  BY <2>1 DEF Run
<1> HIDE DEF run
<1>6. /\ runs \in Seq(Run) /\ runs' \in Seq(Run) /\ Len(runs) \in Nat
      /\ Len(runs') = Len(runs) + 1 /\ runs'[Len(runs) + 1] = run
      /\ \A r \in 1..Len(runs) : runs'[r] = runs[r]
  BY <1>1, <1>5 DEF MessageTypeOK
<1>7. \A r \in 1..Len(runs') : \/ r \in 1..Len(runs) /\ runs'[r] = runs[r]
                               \/ r = Len(runs') /\ runs'[r] = run
  BY <1>6
<1>8. ASSUME NEW r \in 1..Len(runs)
      PROVE  /\ runs[r].n \in Nat /\ runs[r].sub \in Nat
             /\ runs[r].n < current.n \/ (runs[r].n = current.n /\ runs[r].sub < current.next)
  <2>1. runs[r].n \in Nat /\ runs[r].sub \in Nat /\ runs[r].n <= current.n
    BY <1>1, RecordsAre DEF IInv, OrderInv
  <2>2. runs[r].n = current.n => runs[r].sub < current.next
    BY <1>1 DEF IInv, HandInv
  <2> QED  BY <1>2, <2>1, <2>2
<1>9. ASSUME NEW j \in 1..Len(runs'), NEW k \in 1..Len(runs'), j < k
      PROVE  \/ runs'[j].n < runs'[k].n
             \/ runs'[j].n = runs'[k].n /\ runs'[j].sub < runs'[k].sub
  <2>1. j \in 1..Len(runs) /\ runs'[j] = runs[j]
    BY <1>6, <1>7, <1>9
  <2>2. CASE k \in 1..Len(runs) /\ runs'[k] = runs[k]
    BY <1>9, <2>1, <2>2 DEF IInv, OrderInv
  <2>3. CASE runs'[k] = run
    BY <1>5, <1>8, <2>1, <2>3
  <2> QED  BY <1>7, <2>2, <2>3
<1>10. HandInv'
  <2>1. current.event # Undecodable
    BY <1>1 DEF IInv, HandInv
  <2>2. ASSUME NEW r \in 1..Len(runs'), runs'[r].n = current.n
        PROVE  runs'[r].sub < current.next \/ runs'[r].sub = current.next
    BY <1>2, <1>5, <1>7, <1>8, <2>2
  <2>3. ASSUME NEW s \in 1..Len(Consumes), s < current.next \/ s = current.next
        PROVE  TopicMatches(Consumes[s], TopicOf[current.event]) <=>
                 \E r \in 1..Len(runs') : runs'[r].n = current.n /\ runs'[r].sub = s
    <3>1. CASE s < current.next
      <4>1. TopicMatches(Consumes[s], TopicOf[current.event]) <=>
              \E r \in 1..Len(runs) : runs[r].n = current.n /\ runs[r].sub = s
        BY <1>1, <3>1 DEF IInv, HandInv
      <4>2. ASSUME NEW r \in 1..Len(runs), runs[r].n = current.n, runs[r].sub = s
            PROVE  \E i \in 1..Len(runs') : runs'[i].n = current.n /\ runs'[i].sub = s
        <5>1. r \in 1..Len(runs') /\ runs'[r] = runs[r]
          BY <1>6
        <5> QED  BY <4>2, <5>1
      <4>3. ASSUME NEW r \in 1..Len(runs'), runs'[r].n = current.n, runs'[r].sub = s
            PROVE  \E i \in 1..Len(runs) : runs[i].n = current.n /\ runs[i].sub = s
        <5>1. runs'[r] # run
          BY <1>2, <1>5, <3>1, <4>3
        <5> QED  BY <1>7, <4>3, <5>1
      <4> QED  BY <4>1, <4>2, <4>3
    <3>2. CASE s = current.next
      <4>1. TopicMatches(Consumes[s], TopicOf[current.event])
        BY <1>1, <3>2 DEF Consumed
      <4>2. Len(runs) + 1 \in 1..Len(runs')
        BY <1>6
      <4> QED  BY <1>5, <1>6, <3>2, <4>1, <4>2
    <3> QED  BY <2>3, <3>1, <3>2
  <2> QED  BY <1>1, <1>3, <1>4, <2>1, <2>2, <2>3 DEF HandInv
<1>11. /\ Len(runs') \in Nat /\ Len(runs) <= Len(runs')
       /\ \A r \in 1..Len(runs') : \/ r \in 1..Len(runs) /\ runs'[r] = runs[r]
                                   \/ r = Len(runs') /\ runs'[r].n = current.n
  BY <1>5, <1>6, <1>7
<1> QED  BY <1>1, <1>3, <1>4, <1>6, <1>9, <1>10, <1>11, HandOver


LEMMA EndRunKeeps ==
  ASSUME IInv, EndRun
  PROVE  IInv'
<1>1. /\ MessageTypeOK /\ current # None /\ current.busy
      /\ current' = [current EXCEPT !.busy = FALSE, !.next = @ + 1]
      /\ UNCHANGED <<stream, inbox, runs, handled, published>> /\ UNCHANGED loopVars
  BY TypeParts DEF EndRun, IInv
<1>2. current \in Current
  BY <1>1 DEF MessageTypeOK
<1> DEFINE d == [n |-> current.n, event |-> current.event, next |-> current.next + 1,
                 busy |-> FALSE]
<1>3. current' = d /\ d \in Current
  <2>1. /\ Len(Consumes) \in Nat /\ current.next \in Nat
        /\ current.next + 1 \in 1..(Len(Consumes) + 1)
    BY <1>1, <1>2, CurrentParts, SubscriberAssumption DEF IInv, HandInv
  <2>2. d \in Current
    BY <1>2, <2>1, CurrentParts DEF Current
  <2> DEFINE moved == [n |-> current.n, event |-> current.event,
                       next |-> current.next + 1, busy |-> current.busy]
  <2>3. [current EXCEPT !.next = @ + 1] = moved
    BY <1>2, CurrentParts DEF Current
  <2>4. moved \in Current
    BY <1>2, <2>1, CurrentParts DEF Current
  <2>5. current' = [[current EXCEPT !.next = @ + 1] EXCEPT !.busy = FALSE]
    BY <1>1, <1>2 DEF Current
  <2>6. /\ moved.n = current.n /\ moved.event = current.event
        /\ moved.next = current.next + 1
    OBVIOUS
  <2> HIDE DEF moved
  <2>7. [moved EXCEPT !.busy = FALSE] =
          [n |-> moved.n, event |-> moved.event, next |-> moved.next, busy |-> FALSE]
    BY <2>4, CurrentParts DEF Current
  <2>8. current' = d
    BY <2>3, <2>5, <2>6, <2>7
  <2> QED  BY <2>2, <2>8
<1>4. d.n = current.n /\ d.event = current.event /\ d.next = current.next + 1
      /\ d.busy = FALSE
  BY <1>2, CurrentParts
<1> HIDE DEF d
<1>5. HandInv'
  <2>1. current.event # Undecodable /\ current.next \in Nat
    BY <1>1, <1>2, CurrentParts DEF IInv, HandInv
  <2>2. ASSUME NEW r \in 1..Len(runs), runs[r].n = current.n
        PROVE  runs[r].sub < current.next + 1
    <3>1. runs[r].sub < current.next \/ runs[r].sub = current.next
      BY <1>1, <2>2 DEF IInv, HandInv
    <3>2. runs[r].sub \in Nat
      BY <1>1, RecordsAre
    <3> QED  BY <2>1, <3>1, <3>2
  <2>3. ASSUME NEW s \in 1..Len(Consumes), s < current.next + 1
        PROVE  TopicMatches(Consumes[s], TopicOf[current.event]) <=>
                 \E r \in 1..Len(runs) : runs[r].n = current.n /\ runs[r].sub = s
    <3>1. s < current.next \/ s = current.next
      BY <2>1, <2>3
    <3> QED  BY <1>1, <3>1 DEF IInv, HandInv
  <2> QED  BY <1>1, <1>3, <1>4, <2>1, <2>2, <2>3 DEF HandInv
<1>6. /\ runs' \in Seq(Run) /\ Len(runs) \in Nat
      /\ \A j, k \in 1..Len(runs') : j < k =>
           \/ runs'[j].n < runs'[k].n
           \/ runs'[j].n = runs'[k].n /\ runs'[j].sub < runs'[k].sub
  BY <1>1 DEF MessageTypeOK, IInv, OrderInv
<1> QED  BY <1>1, <1>3, <1>4, <1>5, <1>6, HandOver

LEMMA EndMessageKeeps ==
  ASSUME IInv, EndMessage
  PROVE  IInv'
<1> DEFINE m == [n |-> current.n, event |-> current.event]
<1>1. /\ MessageTypeOK /\ current # None /\ ~current.busy
      /\ current.next > Len(Consumes)
      /\ handled' = handled \cup {m} /\ current' = None
      /\ UNCHANGED <<stream, inbox, runs, published>> /\ UNCHANGED loopVars
  BY TypeParts DEF EndMessage, InHand, IInv
<1>2. /\ current \in Current /\ current.n \in Nat /\ current.next \in Nat
      /\ current.event # Undecodable
  BY <1>1, CurrentParts DEF MessageTypeOK, IInv, HandInv
<1>3. m \in Message /\ m.n = current.n /\ m.event = current.event
  BY <1>2, CurrentParts DEF Message
<1> HIDE DEF m
<1>4. MessageTypeOK'
  BY <1>1, <1>3 DEF MessageTypeOK
<1>5. HandInv'
  BY <1>1 DEF HandInv
<1>6. DoneInv'
  <2>1. ASSUME NEW s \in 1..Len(Consumes)
        PROVE  TopicMatches(Consumes[s], TopicOf[m.event]) <=>
                 \E r \in 1..Len(runs) : runs[r].n = m.n /\ runs[r].sub = s
    <3>1. s < current.next
      BY <1>1, <1>2, SubscriberAssumption
    <3> QED  BY <1>1, <1>3, <3>1 DEF IInv, HandInv
  <2>2. \A d \in handled :
          /\ d.event # Undecodable
          /\ \A s \in 1..Len(Consumes) :
               TopicMatches(Consumes[s], TopicOf[d.event]) <=>
                 \E r \in 1..Len(runs) : runs[r].n = d.n /\ runs[r].sub = s
    BY DEF IInv, DoneInv
  <2> QED  BY <1>1, <1>2, <1>3, <2>1, <2>2 DEF DoneInv
<1>7. OrderInv'
  <2>1. /\ m.n <= published
        /\ \A k \in 1..Len(inbox) : m.n < inbox[k].n
    BY <1>1, <1>3 DEF IInv, OrderInv
  <2> QED  BY <1>1, <2>1 DEF IInv, OrderInv
<1>8. Loop!TypeOK' /\ SpinInv'
  BY <1>1, LoopKept
<1> QED  BY <1>4, <1>5, <1>6, <1>7, <1>8 DEF IInv, TypeOK, MessageTypeOK

LEMMA StutterKeeps ==
  ASSUME IInv, UNCHANGED vars
  PROVE  IInv'
<1>1. /\ UNCHANGED loopVars
      /\ UNCHANGED <<stream, inbox, current, runs, handled, published>>
  BY DEF vars, messageVars
<1>2. stream' \in {"none", "open", "lost"}
  BY <1>1, TypeParts DEF IInv, MessageTypeOK
<1>3. Loop!TypeOK' /\ SpinInv'
  BY <1>1, LoopKept
<1>4. MessageTypeOK' /\ HandInv' /\ DoneInv' /\ OrderInv'
  BY <1>1, <1>2, MessagesKept
<1> QED  BY <1>3, <1>4 DEF IInv, TypeOK, MessageTypeOK

LEMMA StepKeeps ==
  ASSUME IInv, [Next]_vars
  PROVE  IInv'
<1>1. CASE \E e \in Events : Publish(e)
  BY <1>1, PublishKeeps
<1>2. CASE Connect \/ LoseConnection \/ EndSession \/ Reconnect \/ Tick
  BY <1>2, LoopStepsKeep
<1>3. CASE Receive
  BY <1>3, ReceiveKeeps
<1>4. CASE SkipSubscription
  BY <1>4, SkipKeeps
<1>5. CASE StartRun
  BY <1>5, StartRunKeeps
<1>6. CASE EndRun
  BY <1>6, EndRunKeeps
<1>7. CASE EndMessage
  BY <1>7, EndMessageKeeps
<1>8. CASE UNCHANGED vars
  BY <1>8, StutterKeeps
<1> QED
  BY <1>1, <1>2, <1>3, <1>4, <1>5, <1>6, <1>7, <1>8 DEF Next, Handle

\* The inductive invariant holds in every state that the subscriber reaches.
THEOREM Invariance == Spec => []IInv
<1>1. Init => IInv
  BY InitHolds
<1>2. IInv /\ [Next]_vars => IInv'
  BY StepKeeps
<1> QED  BY <1>1, <1>2, PTL DEF Spec

\* The phases of the loop, its backoff within its bounds, the stream, the inbox,
\* the message in hand and what was run keep their types (run_subscriber,
\* run_with_reconnect).
THEOREM TypeCorrect == Spec => []TypeOK
<1>1. IInv => TypeOK
  BY DEF IInv
<1> QED  BY <1>1, Invariance, PTL

\* Whatever the broker does, however often a session fails and whenever, the loop
\* begins no more sessions than the time that went by and the sleeps between
\* them allow (run_with_reconnect).
THEOREM LoopDoesNotSpin == Spec => []NeverBusyLoops
<1>1. IInv => NeverBusyLoops
  BY SpinSound, TypeParts DEF IInv, NeverBusyLoops
<1> QED  BY <1>1, Invariance, PTL

-----------------------------------------------------------------------------
(***************************************************************************)
(* Whom a message is for is told from its topic.  TopicOf and Matching are *)
(* of SoRX, which makes the topic of an event of its capability: that      *)
(* topic_matches finds the subscribed capabilities again is asked of the   *)
(* topics in use, as two capabilities may share a topic.                   *)
(***************************************************************************)
TopicsTell ==
  \A e \in Events \ {Undecodable}, s \in 1..Len(Consumes) :
    TopicMatches(Consumes[s], TopicOf[e]) <=> Consumes[s] \in Matching[e]

\* If the topics tell the capabilities, each message that is done with was run for
\* exactly the subscriptions that it was published for, once, in the order of
\* publication and of the subscriptions, over any number of reconnects and of
\* runs that fail (run_subscriber).
THEOREM HandledOnceInOrder ==
  ASSUME TopicsTell
  PROVE  Spec => []EachOnceInOrder
<1>1. IInv => EachOnceInOrder
  <2> SUFFICES ASSUME IInv
               PROVE  EachOnceInOrder
    OBVIOUS
  <2>1. \A j, k \in 1..Len(runs) : j < k =>
          \/ runs[j].n < runs[k].n
          \/ runs[j].n = runs[k].n /\ runs[j].sub < runs[k].sub
    BY DEF IInv, OrderInv
  <2>2. ASSUME NEW m \in handled, NEW s \in 1..Len(Consumes)
        PROVE  Consumes[s] \in Matching[m.event] <=>
                 \E r \in 1..Len(runs) : runs[r].n = m.n /\ runs[r].sub = s
    <3>1. m.event \in Events /\ m.event # Undecodable
      BY MessageParts DEF IInv, TypeOK, DoneInv
    <3>2. TopicMatches(Consumes[s], TopicOf[m.event]) <=>
            \E r \in 1..Len(runs) : runs[r].n = m.n /\ runs[r].sub = s
      BY DEF IInv, DoneInv
    <3> QED  BY <3>1, <3>2 DEF TopicsTell
  <2> QED  BY <2>1, <2>2 DEF EachOnceInOrder
<1> QED  BY <1>1, Invariance, PTL

=============================================================================
