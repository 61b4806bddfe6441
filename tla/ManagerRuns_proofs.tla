------------------------- MODULE ManagerRuns_proofs --------------------------
(***************************************************************************)
(* Proofs about ManagerRuns, for any number of threads and every plan of   *)
(* the pack.  What is done at SoRX is traced back to the request that asked*)
(* for it through the run, the call, and the request that SoRX got and that*)
(* nobody waits for; a call that returned success is traced forward to its *)
(* effect through the status of the answer.                                *)
(***************************************************************************)
EXTENDS ManagerRuns, WellFoundedInduction, TLAPS

\* Who has a call under way has a run, which the runtime did not refuse, and
\* what is under way at SoRX is something that is sent.
ShapeInv ==
  /\ \A t \in Threads :
       /\ phase[t] # "idle" => action[t] # None /\ job[t] # None
       /\ action[t] # None => RequestOf(action[t]) # None
       /\ job[t] # None => Plan[job[t].run.input] # None
  /\ \A a \in late : RequestOf(a) # None
  /\ \A n \in 1..Len(history) : Plan[history[n].input] # None

\* Nothing is on its way to SoRX that was not asked for.
AskedInv ==
  /\ \A t \in Threads : job[t] # None =>
       \A k \in 1..Len(ToApply(job[t].run)) : ToApply(job[t].run)[k] \in asked
  /\ \A t \in Threads : action[t] # None => action[t] \in asked
  /\ late \subseteq asked
  /\ OnlyAskedForIsDone

\* What SoRX has done is what it has seen the keys of, once each.
KeyInv ==
  \A a \in Actions : times[a] <= 1 /\ (times[a] > 0 <=> a.key \in keys)

Done(a) == a.operation = "invoke" => times[a] > 0 \/ a \in hollow

\* The actions of a run before its next are done, except perhaps the last of
\* them: that is under way, or the run has its error.
DoneAt(t) ==
  job[t] # None =>
    LET acts == ToApply(job[t].run)  last == job[t].next - 1 IN
    /\ last <= Len(acts)
    /\ \A k \in 1..Len(acts) : k < last => Done(acts[k])
    /\ phase[t] # "idle" => last > 0 /\ action[t] = acts[last]
    /\ phase[t] = "idle" /\ GoesOn(t) /\ last > 0 => Done(acts[last])

\* An answer that counts as success is to something that was done.
ReplyAt(t) ==
  reply[t] # None =>
    /\ phase[t] = "wait"
    /\ reply[t].status \in {200, 302} => Done(action[t])

DoneInv == \A t \in Threads : DoneAt(t) /\ ReplyAt(t)

\* The store is the newest runs of all that succeeded.
NewestRunsAreKept ==
  /\ Len(runs) = IF Len(history) < Cap THEN Len(history) ELSE Cap
  /\ \A n \in 1..Len(runs) : runs[n] = history[n]

-----------------------------------------------------------------------------
(***************************************************************************)
(* The least of a set of numbers, and find_run.                            *)
(***************************************************************************)
Before == {p \in Nat \X Nat : p[1] < p[2]}

LEMMA NoneBeforeForever == IsWellFoundedOn(Before, Nat)
BY NatLessThanWellFounded DEF OpToRel, Before

LEMMA Least ==
  ASSUME NEW S, S \subseteq Nat, S # {}
  PROVE  \E n \in S : \A k \in S : n <= k
<1>1. PICK n \in S : \A k \in S : ~ (<<k, n>> \in Before)
  <2>1. \E n \in S : \A k \in S : ~ (<<k, n>> \in Before)
    BY NoneBeforeForever, WFMin
  <2> QED  BY <2>1
<1>2. ASSUME NEW k \in S  PROVE n <= k
  <2>1. ~ (<<k, n>> \in Before) /\ <<k, n>> \in Nat \X Nat
    BY <1>1
  <2>2. ~ (k < n)
    BY <2>1 DEF Before
  <2> QED  BY <2>2
<1> QED  BY <1>2

\* The newest of the stored runs that have the id.
LEMMA Found ==
  ASSUME TypeOK, NEW id
  PROVE  /\ FindRun(id) \in Run \cup {None}
         /\ (\E n \in 1..Len(runs) : runs[n].id = id) =>
              \E n \in 1..Len(runs) :
                /\ runs[n].id = id /\ FindRun(id) = runs[n]
                /\ \A k \in 1..Len(runs) : runs[k].id = id => n <= k
         /\ ~ (\E n \in 1..Len(runs) : runs[n].id = id) => FindRun(id) = None
<1> DEFINE same == {n \in 1..Len(runs) : runs[n].id = id}
           least == CHOOSE n \in same : \A k \in same : n <= k
<1>1. Len(runs) \in Nat /\ \A n \in 1..Len(runs) : runs[n] \in Run
  BY DEF TypeOK
<1>2. same \subseteq Nat
  BY <1>1
<1>3. FindRun(id) = IF same = {} THEN None ELSE runs[least]
  BY DEF FindRun
<1>4. CASE same = {}
  <2>1. ~ \E n \in 1..Len(runs) : runs[n].id = id
    BY <1>4
  <2> QED  BY <1>3, <1>4, <2>1
<1>5. CASE same # {}
  <2>1. least \in same /\ \A k \in same : least <= k
    <3> HIDE DEF same
    <3>1. \E n \in same : \A k \in same : n <= k
      BY <1>2, <1>5, Least
    <3> QED  BY <3>1
  <2>2. FindRun(id) = runs[least]
    BY <1>3, <1>5
  <2> HIDE DEF least
  <2> QED  BY <1>1, <2>1, <2>2
<1> QED  BY <1>4, <1>5

-----------------------------------------------------------------------------
(***************************************************************************)
(* Requests to SoRX.                                                       *)
(***************************************************************************)
LEMMA ActionParts ==
  ASSUME NEW a \in Actions
  PROVE  /\ a.operation \in {"dry_run", "invoke"}
         /\ a.target \in {"business_action", "generated_route"}
         /\ a.key \in Keys /\ a.key # None /\ a # None
BY SorxAssumption DEF Action

LEMMA RequestParts ==
  ASSUME NEW a \in Actions
  PROVE  /\ RequestOf(a) # None =>
              /\ RequestOf(a).key = a.key
              /\ RequestOf(a).path = "dry-run" <=> a.operation = "dry_run"
         /\ a.operation = "invoke" => RequestOf(a) # None
<1>1. a \in Action
  BY SorxAssumption
<1>2. CASE a.operation = "dry_run" /\ a.target = "business_action"
  BY <1>1, <1>2 DEF RequestOf, Action
<1>3. CASE a.operation = "dry_run" /\ a.target = "generated_route"
  BY <1>1, <1>3 DEF RequestOf, Action
<1>4. CASE a.operation = "invoke" /\ a.target = "business_action"
  <2>1. RequestOf(a) = [path |-> "invoke", name |-> a.name, version |-> a.version,
                        hash |-> a.hash, key |-> a.key]
    BY <1>1, <1>4 DEF RequestOf, CapabilityRequest, Action
  <2>2. RequestOf(a) \in Sent
    BY <1>1, <2>1 DEF Sent, Action
  <2> QED  BY <1>4, <2>1, <2>2, SorxAssumption
<1>5. CASE a.operation = "invoke" /\ a.target = "generated_route"
  <2>1. RequestOf(a) = [path |-> "route", name |-> a.name, version |-> None,
                        hash |-> None, key |-> a.key]
    BY <1>1, <1>5 DEF RequestOf, Action
  <2>2. RequestOf(a) \in Sent
    BY <1>1, <2>1 DEF Sent, Action
  <2> QED  BY <1>5, <2>1, <2>2, SorxAssumption
<1> QED  BY <1>2, <1>3, <1>4, <1>5, ActionParts

\* Carrying out an action keeps what was done, does it if it is not just tried,
\* and does nothing else.
LEMMA CarriedOut ==
  ASSUME CallsTypeOK, KeyInv, NEW a \in Actions, RequestOf(a) # None, CarryOut(a)
  PROVE  /\ keys' \subseteq Keys /\ times' \in [Actions -> Nat]
         /\ KeyInv'
         /\ \A b \in Actions : times[b] > 0 => times'[b] > 0
         /\ \A b \in Actions : times'[b] > 0 => times[b] > 0 \/ b = a
         /\ a.operation = "invoke" => times'[a] > 0
<1>1. /\ RequestOf(a).key = a.key
      /\ RequestOf(a).path = "dry-run" <=> a.operation = "dry_run"
      /\ a.key \in Keys /\ a.key # None
  BY RequestParts, ActionParts
<1>2. keys \subseteq Keys /\ times \in [Actions -> Nat]
  BY DEF CallsTypeOK
<1>3. CASE UNCHANGED <<keys, times>>
  <2>1. a.operation = "dry_run" \/ a.key \in keys
    BY <1>1, <1>2, <1>3 DEF CarryOut
  <2>2. a.operation = "invoke" => times[a] > 0
    BY <2>1 DEF KeyInv
  <2> QED  BY <1>2, <1>3, <2>2 DEF KeyInv
<1>4. CASE /\ a.key \notin keys
           /\ keys' = keys \cup {a.key}
           /\ times' = [times EXCEPT ![a] = @ + 1]
  <2>1. times[a] = 0
    BY <1>2, <1>4 DEF KeyInv
  <2>2. \A b \in Actions : times'[b] = IF b = a THEN 1 ELSE times[b]
    BY <1>2, <1>4, <2>1
  <2>3. \A b \in Actions : b.key = a.key => b = a
    BY SorxAssumption
  <2>4. KeyInv'
    BY <1>2, <1>4, <2>2, <2>3 DEF KeyInv
  <2> QED  BY <1>1, <1>2, <1>4, <2>2, <2>4
<1> QED
  <2>1. {a.key} \ {None} = {a.key}
    BY <1>1
  <2> QED  BY <1>1, <1>3, <1>4, <2>1 DEF CarryOut

\* The actions that a run applies.
LEMMA PlanParts ==
  ASSUME NEW r \in Run, Plan[r.input] # None
  PROVE  /\ ToApply(r) \in Seq(Actions)
         /\ Len(ToApply(r)) \in Nat
         /\ \A k \in 1..Len(ToApply(r)) : ToApply(r)[k] \in Actions
         /\ \A k \in 1..Len(ToApply(r)) : ~r.dry /\ ToApply(r) = Plan[r.input]
<1>1. r.input \in Inputs /\ r.dry \in BOOLEAN
  BY DEF Run
<1>2. Plan[r.input] \in Seq(Actions)
  BY <1>1, ManagerAssumption
<1>3. CASE r.dry
  BY <1>3 DEF ToApply
<1>4. CASE ~r.dry
  BY <1>2, <1>4 DEF ToApply
<1> QED  BY <1>1, <1>3, <1>4

\* The parts of a run under way.
LEMMA JobParts ==
  ASSUME TypeOK, ShapeInv, NEW t \in Threads, job[t] # None
  PROVE  /\ job[t] \in Job /\ job[t].run \in Run /\ job[t].next \in Nat \ {0}
         /\ ToApply(job[t].run) \in Seq(Actions)
         /\ Len(ToApply(job[t].run)) \in Nat
         /\ \A k \in 1..Len(ToApply(job[t].run)) : ToApply(job[t].run)[k] \in Actions
<1>1. job[t] \in Job /\ job[t].run \in Run /\ job[t].next \in Nat \ {0}
  BY DEF TypeOK, Job
<1>2. Plan[job[t].run.input] # None
  BY DEF ShapeInv
<1> QED  BY <1>1, <1>2, PlanParts

\* A request that starts a run has an input that is not refused.
LEMMA StartParts ==
  ASSUME NEW route, NEW b \in Bodies, NEW part \in {"none", "some", "all"},
         EarlyError(route, b, part) = None
  PROVE  /\ InputOf(route, b) \in Inputs
         /\ Plan[InputOf(route, b)] # None
         /\ InputOf(route, b) \in {b.input, b.json, b.payload, b.whole} \ {None}
<1>1. /\ b.input \in Inputs \cup {None} /\ b.json \in Inputs \cup {None}
      /\ b.payload \in Inputs \cup {None} /\ b.whole \in Inputs
  BY ManagerAssumption DEF Body
<1>2. /\ InputOf(route, b) \in Inputs \cup {None}
      /\ InputOf(route, b) \in {b.input, b.json, b.payload, b.whole} \cup {None}
  BY <1>1 DEF InputOf, OrElse
<1>3. part = "all"
  BY ManagerAssumption DEF EarlyError
<1>4. InputOf(route, b) # None
  BY <1>3, ManagerAssumption DEF EarlyError
<1>5. InputOf(route, b) \notin BrokenTexts
  BY <1>3, <1>4, ManagerAssumption DEF EarlyError
<1>6. Plan[InputOf(route, b)] # None
  BY <1>2, <1>3, <1>4, <1>5, ManagerAssumption DEF EarlyError
<1> QED  BY <1>2, <1>4, <1>6

-----------------------------------------------------------------------------
(***************************************************************************)
(* Types.                                                                  *)
(***************************************************************************)
Results == {"none", "ok"} \cup ClientErrors \cup Codes

ManagerTypeOK ==
  /\ serving \in BOOLEAN
  /\ job \in [Threads -> Job \cup {None}]
  /\ answer \in [Threads -> Answer]
  /\ runs \in Seq(Run)
  /\ accepted \in 0..MaxRequests
  /\ history \in Seq(Run)
  /\ asked \subseteq Actions

LEMMA TypeParts ==
  /\ TypeOK <=> CallsTypeOK /\ ManagerTypeOK
  /\ TypeOK' <=> CallsTypeOK' /\ ManagerTypeOK'
BY DEF TypeOK, ManagerTypeOK

LEMMA ReturnTypes ==
  ASSUME CallsTypeOK, NEW t \in Threads, NEW result \in Results, Return(t, result)
  PROVE  /\ phase' \in [Threads -> {"idle", "connect", "write", "wait"}]
         /\ action' \in [Threads -> Actions \cup {None}]
         /\ reply' \in [Threads -> Reply \cup {None}]
         /\ arrived' \in [Threads -> 0..4]
         /\ silent' \in [Threads -> BOOLEAN]
         /\ outcome' \in [Threads -> Results]
BY DEF CallsTypeOK, Return, Results

\* What a client that leaves leaves behind.
LEMMA LeavesTypes ==
  ASSUME CallsTypeOK, ShapeInv, NEW t \in Threads, NEW result \in Results,
         Leaves(t, result)
  PROVE  /\ CallsTypeOK'
         /\ action[t] \in Actions
         /\ late' \subseteq late \cup {action[t]}
<1>1. Return(t, result)
  BY DEF Leaves
<1>2. action[t] \in Actions
  BY DEF Leaves, ShapeInv, CallsTypeOK
<1>3. late' \subseteq late \cup {action[t]} /\ UNCHANGED <<url, keys, times, hollow>>
  BY DEF Leaves
<1> QED  BY <1>1, <1>2, <1>3, ReturnTypes DEF CallsTypeOK, Results

LEMMA ParseResult ==
  ASSUME NEW r \in Reply \cup {None}, NEW n \in 0..4
  PROVE  /\ Parse(r, n) \in Results
         /\ Parse(r, n) \in {"none", "ok"} => r # None /\ r.status \in {200, 302}
<1>1. r # None => r \in Reply
  OBVIOUS
<1>2. r # None => /\ r.status \in {200, 302, 409, 503, None} /\ r.code \in Codes
                  /\ Status(r) < 400 => r.status \in {200, 302}
  BY <1>1 DEF Reply, Status
<1> QED  BY <1>2, SorxAssumption DEF Parse, Results, ClientErrors

\* A client that waits leaves with success only after an answer that looks like it.
LEMMA LeavesResult ==
  ASSUME CallsTypeOK, NEW t \in Threads, Closed(t) \/ Reset(t) \/ TimesOut(t)
  PROVE  \E result \in Results :
           /\ Leaves(t, result)
           /\ result \in {"none", "ok"} =>
                reply[t] # None /\ reply[t].status \in {200, 302}
<1>1. CASE Closed(t)
  <2>1. reply[t] \in Reply \cup {None} /\ arrived[t] \in 0..4
    BY DEF CallsTypeOK
  <2> DEFINE result == Parse(reply[t], arrived[t])
  <2>2. /\ result \in Results
        /\ result \in {"none", "ok"} => reply[t] # None /\ reply[t].status \in {200, 302}
    BY <2>1, ParseResult
  <2>3. Leaves(t, result)
    BY <1>1 DEF Closed
  <2> HIDE DEF result
  <2> QED  BY <2>2, <2>3
<1>2. CASE Reset(t) \/ TimesOut(t)
  <2>1. Leaves(t, "io_error")
    BY <1>2 DEF Reset, TimesOut
  <2>2. "io_error" \in Results /\ "io_error" \notin {"none", "ok"}
    BY DEF Results, ClientErrors
  <2> QED  BY <2>1, <2>2
<1> QED  BY <1>1, <1>2

LEMMA StartCallTypes ==
  ASSUME CallsTypeOK, NEW t \in Threads, NEW a \in Actions, StartCall(t, a)
  PROVE  CallsTypeOK'
<1>1. CASE RequestOf(a) = None
  <2>1. Return(t, "ok") /\ "ok" \in Results
    BY <1>1 DEF StartCall, Results
  <2> QED  BY <2>1, ReturnTypes DEF StartCall, CallsTypeOK, Results, sorxVars
<1>2. CASE RequestOf(a) # None /\ url # "http"
  <2>1. Return(t, UrlError) /\ UrlError \in Results
    BY <1>2 DEF StartCall, Results, UrlError, ClientErrors
  <2> QED  BY <2>1, ReturnTypes DEF StartCall, CallsTypeOK, Results, sorxVars
<1>3. CASE RequestOf(a) # None /\ url = "http"
  BY <1>3 DEF StartCall, CallsTypeOK, sorxVars
<1> QED  BY <1>1, <1>2, <1>3

LEMMA ClientStepTypes ==
  ASSUME CallsTypeOK, ShapeInv, NEW t \in Threads, ClientStep(t)
  PROVE  CallsTypeOK'
<1>1. CASE ConnectFails(t)
  <2>1. Return(t, "sorx_connect_failed") /\ "sorx_connect_failed" \in Results
    BY <1>1 DEF ConnectFails, Results, ClientErrors
  <2> QED  BY <1>1, <2>1, ReturnTypes DEF ConnectFails, CallsTypeOK, Results, sorxVars
<1>2. CASE WriteFails(t)
  <2>1. Return(t, "io_error") /\ "io_error" \in Results
    BY <1>2 DEF WriteFails, Results, ClientErrors
  <2> QED  BY <1>2, <2>1, ReturnTypes DEF WriteFails, CallsTypeOK, Results, sorxVars
<1>3. CASE Closed(t) \/ Reset(t) \/ TimesOut(t)
  <2>1. PICK result \in Results : Leaves(t, result)
    BY <1>3, LeavesResult
  <2> QED  BY <2>1, LeavesTypes
<1>4. CASE Connected(t) \/ Written(t)
  BY <1>4 DEF Connected, Written, CallsTypeOK, sorxVars
<1>5. CASE Arrive(t)
  <2>1. arrived[t] \in 0..3
    BY <1>5 DEF Arrive, CallsTypeOK
  <2>2. arrived' \in [Threads -> 0..4]
    BY <1>5, <2>1 DEF Arrive, CallsTypeOK
  <2> QED  BY <1>5, <2>2 DEF Arrive, HearsByte, CallsTypeOK, sorxVars
<1>6. CASE Trickle(t) \/ Silence(t)
  BY <1>6 DEF Trickle, Silence, HearsByte, CallsTypeOK, sorxVars
<1> QED  BY <1>1, <1>2, <1>3, <1>4, <1>5, <1>6 DEF ClientStep

LEMMA SorxStepTypes ==
  ASSUME CallsTypeOK, ShapeInv, KeyInv, SorxStep
  PROVE  CallsTypeOK' /\ KeyInv'
<1>1. ASSUME NEW t \in Threads, NEW r \in Replies, Answers(t, r)
      PROVE  CallsTypeOK' /\ KeyInv'
  <2>1. action[t] \in Actions /\ RequestOf(action[t]) # None
    BY <1>1 DEF Answers, ShapeInv, CallsTypeOK
  <2>2. keys' \subseteq Keys /\ times' \in [Actions -> Nat] /\ KeyInv'
    BY <1>1, <2>1, CarriedOut DEF Answers, CallsTypeOK, KeyInv
  <2>3. reply' \in [Threads -> Reply \cup {None}] /\ hollow' \subseteq Actions
    BY <1>1, <2>1, SorxAssumption DEF Answers, CallsTypeOK
  <2> QED  BY <1>1, <2>2, <2>3 DEF Answers, CallsTypeOK
<1>2. ASSUME NEW a \in Actions, HandlesLate(a)
      PROVE  CallsTypeOK' /\ KeyInv'
  <2>1. RequestOf(a) # None
    BY <1>2 DEF HandlesLate, ShapeInv
  <2>2. keys' \subseteq Keys /\ times' \in [Actions -> Nat] /\ KeyInv'
    BY <1>2, <2>1, CarriedOut DEF HandlesLate, CallsTypeOK, KeyInv
  <2> QED  BY <1>2, <2>2 DEF HandlesLate, CallsTypeOK, callVars
<1> QED  BY <1>1, <1>2 DEF SorxStep

LEMMA RespondsTypes ==
  ASSUME ManagerTypeOK, NEW t \in Threads, NEW status \in {200, 204, 400, 404, 500},
         NEW run \in Run \cup {None}, Responds(t, status, run)
  PROVE  answer' \in [Threads -> Answer]
BY DEF ManagerTypeOK, Responds, Answer

LEMMA AcceptsTypes ==
  ASSUME ManagerTypeOK, NEW t \in Threads, Accepts(t)
  PROVE  accepted' \in 0..MaxRequests
BY ManagerAssumption DEF ManagerTypeOK, Accepts

LEMMA ErrorStatusType == \A code : ErrorStatus(code) \in {400, 404, 500}
BY DEF ErrorStatus

LEMMA WantedParts ==
  ASSUME NEW b \in Bodies
  PROVE  /\ Wanted(b) \subseteq Actions
         /\ \A i \in {b.input, b.json, b.payload, b.whole} \ {None} :
              Plan[i] # None /\ "apply" \in {b.mode, b.operation} =>
                \A k \in 1..Len(Plan[i]) : Plan[i][k] \in Wanted(b)
<1>1. {b.input, b.json, b.payload, b.whole} \ {None} \subseteq Inputs
  BY ManagerAssumption DEF Body
<1>2. \A i \in Inputs : Plan[i] # None => Plan[i] \in Seq(Actions)
  BY ManagerAssumption
<1>3. \A i \in Inputs : Plan[i] # None =>
        /\ Range(Plan[i]) \subseteq Actions
        /\ \A k \in 1..Len(Plan[i]) : Plan[i][k] \in Range(Plan[i])
  BY <1>2 DEF Range
<1> QED  BY <1>1, <1>3 DEF Wanted

LEMMA PostTypes ==
  ASSUME TypeOK, NEW t \in Threads, NEW route, NEW b \in Bodies, NEW id \in RunIds,
         Post(t, route, b, id)
  PROVE  TypeOK'
<1>1. ManagerTypeOK /\ CallsTypeOK
  BY TypeParts
<1>2. accepted' \in 0..MaxRequests /\ asked' \subseteq Actions
  BY <1>1, AcceptsTypes, WantedParts DEF Post, ManagerTypeOK
<1>3. PICK part \in {"none", "some", "all"} :
        IF EarlyError(route, b, part) # None
        THEN /\ Responds(t, ErrorStatus(EarlyError(route, b, part)), None)
             /\ UNCHANGED <<job, outcome>>
        ELSE /\ StartRun(t, route, b, id)
             /\ outcome' = [outcome EXCEPT ![t] = "none"]
             /\ answer' = [answer EXCEPT ![t] = [status |-> 0, run |-> None]]
  BY DEF Post
<1>4. /\ job' \in [Threads -> Job \cup {None}]
      /\ answer' \in [Threads -> Answer]
      /\ outcome' \in [Threads -> Results]
  <2>1. CASE EarlyError(route, b, part) # None
    <3>1. ErrorStatus(EarlyError(route, b, part)) \in {200, 204, 400, 404, 500}
      BY ErrorStatusType
    <3> QED  BY <1>1, <1>3, <2>1, <3>1, RespondsTypes DEF ManagerTypeOK, CallsTypeOK, Results
  <2>2. CASE EarlyError(route, b, part) = None
    <3> DEFINE new == [run |-> [id |-> id, input |-> InputOf(route, b),
                               dry |-> ~Applies(route, b)],
                       next |-> 1]
    <3>1. InputOf(route, b) \in Inputs
      BY <2>2, StartParts
    <3>2. (~Applies(route, b)) \in BOOLEAN
      OBVIOUS
    <3>3. new \in Job
      BY <3>1, <3>2 DEF Job, Run
    <3>4. job' = [job EXCEPT ![t] = new]
      BY <1>3, <2>2 DEF StartRun
    <3>5. [status |-> 0, run |-> None] \in Answer
      BY DEF Answer
    <3> HIDE DEF new
    <3> QED
      BY <1>1, <1>3, <2>2, <3>3, <3>4, <3>5 DEF ManagerTypeOK, CallsTypeOK, Results
  <2> QED  BY <2>1, <2>2
<1> QED
  BY <1>1, <1>2, <1>4, TypeParts DEF Post, ManagerTypeOK, CallsTypeOK, Results, sorxVars

LEMMA TypeStep ==
  ASSUME TypeOK, ShapeInv, KeyInv, [Next]_vars
  PROVE  TypeOK'
<1>0. ManagerTypeOK /\ CallsTypeOK
  BY TypeParts
<1>1. ASSUME NEW t \in Threads, Views(t)  PROVE TypeOK'
  <2>1. answer' \in [Threads -> Answer]
    BY <1>0, <1>1, RespondsTypes DEF Views
  <2> QED
    BY <1>0, <1>1, <2>1, AcceptsTypes, TypeParts
    DEF Views, ManagerTypeOK, CallsTypeOK, callVars, sorxVars
<1>2. ASSUME NEW t \in Threads, NEW id \in RunIds, GetRun(t, id)  PROVE TypeOK'
  <2>1. answer' \in [Threads -> Answer]
    BY <1>0, <1>2, RespondsTypes, Found DEF GetRun
  <2> QED
    BY <1>0, <1>2, <2>1, AcceptsTypes, TypeParts
    DEF GetRun, ManagerTypeOK, CallsTypeOK, callVars, sorxVars
<1>3. ASSUME NEW t \in Threads, ApplyNext(t)  PROVE TypeOK'
  <2> DEFINE acts == ToApply(job[t].run)
  <2>1. /\ job[t] \in Job /\ job[t].next \in 1..Len(acts)
        /\ acts[job[t].next] \in Actions
        /\ StartCall(t, acts[job[t].next])
    BY <1>3, JobParts DEF ApplyNext, Running
  <2>2. CallsTypeOK'
    BY <1>0, <2>1, StartCallTypes
  <2>3. [job[t] EXCEPT !.next = @ + 1] \in Job
    BY <2>1 DEF Job
  <2>4. job' \in [Threads -> Job \cup {None}]
    BY <1>0, <1>3, <2>3 DEF ApplyNext, ManagerTypeOK
  <2> QED  BY <1>0, <1>3, <2>2, <2>4, TypeParts DEF ApplyNext, ManagerTypeOK
<1>4. ASSUME NEW t \in Threads, Fails(t)  PROVE TypeOK'
  <2>1. answer' \in [Threads -> Answer]
    BY <1>0, <1>4, RespondsTypes, ErrorStatusType DEF Fails
  <2> QED
    BY <1>0, <1>4, <2>1, TypeParts
    DEF Fails, Ends, ManagerTypeOK, CallsTypeOK, sorxVars
<1>5. ASSUME NEW t \in Threads, Finishes(t)  PROVE TypeOK'
  <2>1. job[t].run \in Run
    BY <1>5, JobParts DEF Finishes, Running
  <2>2. answer' \in [Threads -> Answer]
    BY <1>0, <1>5, <2>1, RespondsTypes DEF Finishes
  <2>3. <<job[t].run>> \o runs \in Seq(Run) /\ history' \in Seq(Run)
    BY <1>0, <1>5, <2>1 DEF Finishes, ManagerTypeOK
  <2>4. runs' \in Seq(Run)
    BY <1>5, <2>3, ManagerAssumption DEF Finishes, PushRun
  <2> QED
    BY <1>0, <1>5, <2>2, <2>3, <2>4, TypeParts
    DEF Finishes, Ends, ManagerTypeOK, CallsTypeOK, sorxVars
<1>6. ASSUME NEW t \in Threads, Calls(t)  PROVE TypeOK'
  BY <1>0, <1>6, ClientStepTypes, TypeParts DEF Calls, ManagerTypeOK, managerVars
<1>7. CASE AcceptFails
  BY <1>0, <1>7, TypeParts
  DEF AcceptFails, ManagerTypeOK, CallsTypeOK, callVars, sorxVars
<1>8. CASE SorxStep /\ UNCHANGED managerVars
  BY <1>0, <1>8, SorxStepTypes, TypeParts DEF ManagerTypeOK, managerVars
<1>9. CASE UNCHANGED vars
  BY <1>0, <1>9, TypeParts
  DEF vars, managerVars, callVars, sorxVars, ManagerTypeOK, CallsTypeOK
<1> QED
  BY <1>1, <1>2, <1>3, <1>4, <1>5, <1>6, <1>7, <1>8, <1>9, PostTypes DEF Next, Serve

-----------------------------------------------------------------------------
(***************************************************************************)
(* The shape of calls and runs.                                            *)
(***************************************************************************)
LEMMA ShapeStep ==
  ASSUME TypeOK, ShapeInv, [Next]_vars
  PROVE  ShapeInv'
<1>0. ManagerTypeOK /\ CallsTypeOK
  BY TypeParts
<1>1. ASSUME NEW t \in Threads, Views(t) \/ \E id \in RunIds : GetRun(t, id)
      PROVE  ShapeInv'
  BY <1>1 DEF Views, GetRun, ShapeInv, callVars, sorxVars
<1>2. ASSUME NEW t \in Threads, NEW route, NEW b \in Bodies, NEW id \in RunIds,
             Post(t, route, b, id)
      PROVE  ShapeInv'
  <2>1. PICK part \in {"none", "some", "all"} :
          \/ UNCHANGED job
          \/ EarlyError(route, b, part) = None /\ StartRun(t, route, b, id)
    BY <1>2 DEF Post
  <2>2. \A u \in Threads : job'[u] # None => Plan[job'[u].run.input] # None
    <3>1. CASE UNCHANGED job
      BY <3>1 DEF ShapeInv
    <3>2. CASE EarlyError(route, b, part) = None /\ StartRun(t, route, b, id)
      <4>1. Plan[InputOf(route, b)] # None
        BY <3>2, StartParts
      <4> QED  BY <1>0, <3>2, <4>1 DEF StartRun, ShapeInv, ManagerTypeOK
    <3> QED  BY <2>1, <3>1, <3>2
  <2>3. phase[t] = "idle" /\ job[t] = None /\ \A u \in Threads \ {t} : job'[u] = job[u]
    BY <1>0, <1>2, <2>1 DEF Post, Accepts, Free, StartRun, ManagerTypeOK
  <2>4. UNCHANGED <<phase, action, late, history>>
    BY <1>2 DEF Post, sorxVars
  <2> QED  BY <2>2, <2>3, <2>4 DEF ShapeInv
<1>3. ASSUME NEW t \in Threads, ApplyNext(t)  PROVE ShapeInv'
  <2> DEFINE a == ToApply(job[t].run)[job[t].next]
  <2>1. /\ job[t] \in Job /\ job[t] # None /\ a \in Actions /\ a # None
        /\ StartCall(t, a)
    BY <1>3, JobParts, ActionParts DEF ApplyNext, Running
  <2> HIDE DEF a
  <2>2. [job[t] EXCEPT !.next = @ + 1] \in Job
    BY <2>1 DEF Job
  <2>3. /\ \A u \in Threads : job[u] # None => job'[u] # None
        /\ \A u \in Threads : job'[u] # None =>
              job[u] # None /\ job'[u].run = job[u].run
    BY <1>0, <1>3, <2>1, <2>2, ManagerAssumption DEF ApplyNext, ManagerTypeOK, Job
  <2>4. /\ \A u \in Threads \ {t} : phase'[u] = phase[u] /\ action'[u] = action[u]
        /\ \/ phase'[t] = "idle" /\ action'[t] = None
           \/ RequestOf(a) # None /\ action'[t] = a
    BY <1>0, <2>1 DEF StartCall, Return, CallsTypeOK
  <2>5. late' = late /\ history' = history
    BY <1>3, <2>1 DEF ApplyNext, StartCall, sorxVars
  <2> QED  BY <2>1, <2>3, <2>4, <2>5 DEF ShapeInv
<1>4. ASSUME NEW t \in Threads, Fails(t)  PROVE ShapeInv'
  <2>1. /\ phase[t] = "idle" /\ job'[t] = None
        /\ \A u \in Threads \ {t} : job'[u] = job[u]
    BY <1>0, <1>4 DEF Fails, Ends, Running, ManagerTypeOK
  <2> QED  BY <1>4, <2>1 DEF Fails, Ends, ShapeInv, sorxVars
<1>5. ASSUME NEW t \in Threads, Finishes(t)  PROVE ShapeInv'
  <2>1. /\ phase[t] = "idle" /\ job[t] # None /\ job'[t] = None
        /\ \A u \in Threads \ {t} : job'[u] = job[u]
    BY <1>0, <1>5 DEF Finishes, Ends, Running, ManagerTypeOK
  <2>2. /\ Len(history') = Len(history) + 1
        /\ history'[1] = job[t].run
        /\ \A n \in 2..Len(history') : history'[n] = history[n - 1]
    BY <1>0, <1>5, <2>1, JobParts DEF Finishes, ManagerTypeOK
  <2>3. Len(history) \in Nat
    BY <1>0 DEF ManagerTypeOK
  <2>4. ASSUME NEW n \in 1..Len(history')  PROVE Plan[history'[n].input] # None
    <3>1. CASE n = 1
      BY <2>1, <2>2, <3>1 DEF ShapeInv
    <3>2. CASE n # 1
      <4>1. n \in 2..Len(history') /\ n - 1 \in 1..Len(history)
        BY <2>2, <2>3, <3>2
      <4> QED  BY <2>2, <4>1 DEF ShapeInv
    <3> QED  BY <3>1, <3>2
  <2> QED  BY <1>5, <2>1, <2>4 DEF Finishes, Ends, ShapeInv, sorxVars
<1>6. ASSUME NEW t \in Threads, Calls(t)  PROVE ShapeInv'
  <2>1. UNCHANGED <<job, history>>
    BY <1>6 DEF Calls, managerVars
  <2>2. CASE \E result : Return(t, result)
    <3>1. /\ phase'[t] = "idle" /\ action'[t] = None
          /\ \A u \in Threads \ {t} : phase'[u] = phase[u] /\ action'[u] = action[u]
      BY <1>0, <2>2 DEF Return, CallsTypeOK
    <3>2. \/ late' = late
          \/ late' \subseteq late \cup {action[t]} /\ phase[t] = "wait"
      BY <1>6, <2>2
      DEF Calls, ClientStep, ConnectFails, WriteFails, Closed, Reset, TimesOut, Leaves,
          Connected, Written, Arrive, Trickle, Silence, HearsByte, sorxVars
    <3>3. \A x \in late' : RequestOf(x) # None
      BY <3>2 DEF ShapeInv
    <3> QED  BY <2>1, <3>1, <3>3 DEF ShapeInv
  <2>3. CASE Connected(t) \/ Written(t)
    <3>1. /\ phase[t] # "idle" /\ action' = action /\ late' = late
          /\ \A u \in Threads \ {t} : phase'[u] = phase[u]
      BY <1>0, <2>3 DEF Connected, Written, CallsTypeOK, sorxVars
    <3> QED  BY <2>1, <3>1 DEF ShapeInv
  <2>4. CASE Arrive(t) \/ Trickle(t) \/ Silence(t)
    BY <2>1, <2>4 DEF Arrive, Trickle, Silence, HearsByte, ShapeInv, sorxVars
  <2> QED
    BY <1>6, <2>2, <2>3, <2>4
    DEF Calls, ClientStep, ConnectFails, WriteFails, Closed, Reset, TimesOut, Leaves
<1>7. CASE AcceptFails
  BY <1>7 DEF AcceptFails, ShapeInv, callVars, sorxVars
<1>8. CASE SorxStep /\ UNCHANGED managerVars
  <2>1. UNCHANGED <<phase, action, job, history>> /\ late' \subseteq late
    BY <1>8 DEF SorxStep, Answers, HandlesLate, callVars, managerVars
  <2> QED  BY <2>1 DEF ShapeInv
<1>9. CASE UNCHANGED vars
  BY <1>9 DEF vars, managerVars, callVars, sorxVars, ShapeInv
<1> QED
  BY <1>1, <1>2, <1>3, <1>4, <1>5, <1>6, <1>7, <1>8, <1>9 DEF Next, Serve

\* Only SoRX changes what it has and did.
LEMMA OthersLeaveSorx ==
  ASSUME [Next]_vars, ~SorxStep
  PROVE  UNCHANGED <<keys, times, hollow>>
<1>1. ASSUME NEW t \in Threads, Views(t)  PROVE UNCHANGED <<keys, times, hollow>>
  BY <1>1 DEF Views, sorxVars
<1>2. ASSUME NEW t \in Threads, NEW id \in RunIds, GetRun(t, id)
      PROVE  UNCHANGED <<keys, times, hollow>>
  BY <1>2 DEF GetRun, sorxVars
<1>3. ASSUME NEW t \in Threads, NEW route, NEW b \in Bodies, NEW id \in RunIds,
             Post(t, route, b, id)
      PROVE  UNCHANGED <<keys, times, hollow>>
  BY <1>3 DEF Post, sorxVars
<1>4. ASSUME NEW t \in Threads, ApplyNext(t)  PROVE UNCHANGED <<keys, times, hollow>>
  BY <1>4 DEF ApplyNext, StartCall, sorxVars
<1>5. ASSUME NEW t \in Threads, Fails(t) \/ Finishes(t)
      PROVE  UNCHANGED <<keys, times, hollow>>
  BY <1>5 DEF Fails, Finishes, Ends, sorxVars
<1>6. ASSUME NEW t \in Threads, Calls(t)  PROVE UNCHANGED <<keys, times, hollow>>
  <2>1. ClientStep(t)
    BY <1>6 DEF Calls
  <2> QED
    BY <2>1 DEF ClientStep, ConnectFails, WriteFails, Closed, Reset, TimesOut, Leaves,
                Connected, Written, Arrive, Trickle, Silence, HearsByte, sorxVars
<1>7. CASE AcceptFails
  BY <1>7 DEF AcceptFails, sorxVars
<1>8. CASE UNCHANGED vars
  BY <1>8 DEF vars, sorxVars
<1> QED
  BY <1>1, <1>2, <1>3, <1>4, <1>5, <1>6, <1>7, <1>8 DEF Next, Serve

LEMMA KeyStep ==
  ASSUME TypeOK, ShapeInv, KeyInv, [Next]_vars
  PROVE  KeyInv'
<1>1. CASE SorxStep
  BY <1>1, SorxStepTypes, TypeParts
<1>2. CASE UNCHANGED <<keys, times>>
  BY <1>2 DEF KeyInv
<1> QED
  BY <1>1, <1>2, OthersLeaveSorx

-----------------------------------------------------------------------------
(***************************************************************************)
(* From the effect back to the request.                                    *)
(***************************************************************************)
LEMMA AskedPost ==
  ASSUME TypeOK, ShapeInv, AskedInv, NEW t \in Threads, NEW route, NEW b \in Bodies,
         NEW id \in RunIds, Post(t, route, b, id)
  PROVE  AskedInv'
<1>1. asked' = asked \cup Wanted(b) /\ UNCHANGED <<action, late, times>>
  BY DEF Post, sorxVars
<1>2. PICK part \in {"none", "some", "all"} :
        \/ UNCHANGED job
        \/ EarlyError(route, b, part) = None /\ StartRun(t, route, b, id)
  BY DEF Post
<1>3. \A u \in Threads : job'[u] # None =>
        \A k \in 1..Len(ToApply(job'[u].run)) : ToApply(job'[u].run)[k] \in asked'
  <2>1. CASE UNCHANGED job
    BY <1>1, <2>1 DEF AskedInv
  <2>2. CASE EarlyError(route, b, part) = None /\ StartRun(t, route, b, id)
    <3> DEFINE in == InputOf(route, b)
               run == [id |-> id, input |-> in, dry |-> ~Applies(route, b)]
    <3>1. /\ in \in {b.input, b.json, b.payload, b.whole} \ {None}
          /\ Plan[in] # None
      BY <2>2, StartParts
    <3>2. Applies(route, b) => "apply" \in {b.mode, b.operation}
      BY DEF Applies, OrElse
    <3>3. ASSUME Applies(route, b), NEW k \in 1..Len(Plan[in])
          PROVE  Plan[in][k] \in Wanted(b)
      BY <3>1, <3>2, <3>3, WantedParts
    <3>4. \A k \in 1..Len(ToApply(run)) : ToApply(run)[k] \in asked'
      <4>1. CASE Applies(route, b)
        <5>1. ToApply(run) = Plan[in]
          BY <4>1 DEF ToApply
        <5> HIDE DEF run, in
        <5> QED  BY <1>1, <3>3, <4>1, <5>1
      <4>2. CASE ~Applies(route, b)
        <5>1. ToApply(run) = <<>>
          BY <4>2 DEF ToApply
        <5> HIDE DEF run
        <5> QED  BY <5>1
      <4> QED  BY <4>1, <4>2
    <3>5. /\ job'[t].run = run
          /\ \A u \in Threads \ {t} : job'[u] = job[u]
      BY <2>2 DEF StartRun, TypeOK
    <3> HIDE DEF run
    <3> QED  BY <1>1, <3>4, <3>5 DEF AskedInv
  <2> QED  BY <1>2, <2>1, <2>2
<1> QED  BY <1>1, <1>3 DEF AskedInv, OnlyAskedForIsDone

LEMMA AskedSorx ==
  ASSUME TypeOK, ShapeInv, KeyInv, AskedInv, SorxStep, UNCHANGED managerVars
  PROVE  AskedInv'
<1>0. CallsTypeOK
  BY TypeParts
<1>1. /\ UNCHANGED <<action, job, asked>> /\ late' \subseteq late
  BY DEF SorxStep, Answers, HandlesLate, callVars, managerVars
<1>2. ASSUME NEW a \in Actions, a \in asked, RequestOf(a) # None, CarryOut(a)
      PROVE  OnlyAskedForIsDone'
  BY <1>0, <1>1, <1>2, CarriedOut DEF OnlyAskedForIsDone, AskedInv
<1>3. ASSUME times' = times  PROVE OnlyAskedForIsDone'
  BY <1>1, <1>3 DEF OnlyAskedForIsDone, AskedInv
<1>4. ASSUME NEW t \in Threads, NEW r \in Replies, Answers(t, r)
      PROVE  OnlyAskedForIsDone'
  <2>1. action[t] \in Actions /\ action[t] \in asked /\ RequestOf(action[t]) # None
    BY <1>0, <1>4 DEF Answers, ShapeInv, AskedInv, CallsTypeOK
  <2>2. CASE CarryOut(action[t])
    BY <1>2, <2>1, <2>2
  <2>3. CASE times' = times
    BY <1>3, <2>3
  <2> QED  BY <1>4, <2>2, <2>3 DEF Answers
<1>5. ASSUME NEW a \in Actions, HandlesLate(a)
      PROVE  OnlyAskedForIsDone'
  <2>1. a \in asked /\ RequestOf(a) # None
    BY <1>5 DEF HandlesLate, ShapeInv, AskedInv
  <2>2. CASE CarryOut(a)
    BY <1>2, <2>1, <2>2
  <2>3. CASE times' = times
    BY <1>3, <2>3
  <2> QED  BY <1>5, <2>2, <2>3 DEF HandlesLate
<1>6. OnlyAskedForIsDone'
  BY <1>4, <1>5 DEF SorxStep
<1> QED  BY <1>1, <1>6 DEF AskedInv

LEMMA AskedStep ==
  ASSUME TypeOK, ShapeInv, KeyInv, AskedInv, [Next]_vars
  PROVE  AskedInv'
<1>0. ManagerTypeOK /\ CallsTypeOK
  BY TypeParts
<1>1. ASSUME NEW t \in Threads, Views(t) \/ \E id \in RunIds : GetRun(t, id)
      PROVE  AskedInv'
  BY <1>1 DEF Views, GetRun, AskedInv, OnlyAskedForIsDone, callVars, sorxVars
<1>2. ASSUME NEW t \in Threads, ApplyNext(t)  PROVE AskedInv'
  <2> DEFINE a == ToApply(job[t].run)[job[t].next]
  <2>1. /\ job[t] # None /\ job[t] \in Job /\ a \in asked /\ StartCall(t, a)
    BY <1>2, JobParts DEF ApplyNext, Running, AskedInv
  <2> HIDE DEF a
  <2>2. \A u \in Threads : job'[u] # None => job[u] # None /\ job'[u].run = job[u].run
    BY <1>0, <1>2, <2>1 DEF ApplyNext, ManagerTypeOK, Job
  <2>3. \A u \in Threads : action'[u] \in {action[u], None, a}
    BY <1>0, <2>1 DEF StartCall, Return, CallsTypeOK
  <2>4. UNCHANGED <<asked, late, times>>
    BY <1>2, <2>1 DEF ApplyNext, StartCall, sorxVars
  <2> QED  BY <2>1, <2>2, <2>3, <2>4 DEF AskedInv, OnlyAskedForIsDone
<1>3. ASSUME NEW t \in Threads, Fails(t) \/ Finishes(t)  PROVE AskedInv'
  <2>1. \A u \in Threads : job'[u] \in {job[u], None}
    BY <1>0, <1>3 DEF Fails, Finishes, Ends, ManagerTypeOK
  <2>2. UNCHANGED <<asked, action, late, times>>
    BY <1>3 DEF Fails, Finishes, Ends, sorxVars
  <2> QED  BY <2>1, <2>2 DEF AskedInv, OnlyAskedForIsDone
<1>4. ASSUME NEW t \in Threads, Calls(t)  PROVE AskedInv'
  <2>1. UNCHANGED <<job, asked>>
    BY <1>4 DEF Calls, managerVars
  <2>2. CASE Closed(t) \/ Reset(t) \/ TimesOut(t)
    <3>1. PICK result : Leaves(t, result)
      BY <1>0, <2>2, LeavesResult
    <3>2. \A u \in Threads : action'[u] \in {action[u], None}
      BY <1>0, <3>1 DEF Leaves, Return, CallsTypeOK
    <3>3. late' \subseteq late \cup {action[t]} /\ action[t] \in asked /\ times' = times
      BY <3>1 DEF Leaves, ShapeInv, AskedInv
    <3> QED  BY <2>1, <3>2, <3>3 DEF AskedInv, OnlyAskedForIsDone
  <2>3. CASE ~ (Closed(t) \/ Reset(t) \/ TimesOut(t))
    <3>1. \A u \in Threads : action'[u] \in {action[u], None}
      BY <1>0, <1>4, <2>3
      DEF Calls, ClientStep, ConnectFails, WriteFails, Connected, Written, Arrive,
          Trickle, Silence, HearsByte, Return, CallsTypeOK
    <3>2. late' = late /\ times' = times
      BY <1>4, <2>3
      DEF Calls, ClientStep, ConnectFails, WriteFails, Connected, Written, Arrive,
          Trickle, Silence, HearsByte, sorxVars
    <3> QED  BY <2>1, <3>1, <3>2 DEF AskedInv, OnlyAskedForIsDone
  <2> QED  BY <2>2, <2>3
<1>5. CASE AcceptFails
  BY <1>5 DEF AcceptFails, AskedInv, OnlyAskedForIsDone, callVars, sorxVars
<1>6. CASE UNCHANGED vars
  BY <1>6 DEF vars, managerVars, callVars, sorxVars, AskedInv, OnlyAskedForIsDone
<1> QED
  BY <1>1, <1>2, <1>3, <1>4, <1>5, <1>6, AskedPost, AskedSorx DEF Next, Serve

-----------------------------------------------------------------------------
(***************************************************************************)
(* From the stored run to the effect.                                      *)
(***************************************************************************)
Grows ==
  /\ \A a \in Actions : times[a] > 0 => times'[a] > 0
  /\ hollow \subseteq hollow'

LEMMA GrowsStep ==
  ASSUME TypeOK, ShapeInv, KeyInv, [Next]_vars
  PROVE  Grows
<1>0. CallsTypeOK
  BY TypeParts
<1>1. ASSUME NEW t \in Threads, NEW r \in Replies, Answers(t, r)  PROVE Grows
  <2>1. action[t] \in Actions /\ RequestOf(action[t]) # None
    BY <1>0, <1>1 DEF Answers, ShapeInv, CallsTypeOK
  <2>2. CASE CarryOut(action[t])
    BY <1>0, <1>1, <2>1, <2>2, CarriedOut DEF Answers, Grows
  <2>3. CASE times' = times
    BY <1>1, <2>3 DEF Answers, Grows
  <2> QED  BY <1>1, <2>2, <2>3 DEF Answers
<1>2. ASSUME NEW a \in Actions, HandlesLate(a)  PROVE Grows
  <2>1. RequestOf(a) # None
    BY <1>2 DEF HandlesLate, ShapeInv
  <2>2. CASE CarryOut(a)
    BY <1>0, <1>2, <2>1, <2>2, CarriedOut DEF HandlesLate, Grows
  <2>3. CASE times' = times
    BY <1>2, <2>3 DEF HandlesLate, Grows
  <2> QED  BY <1>2, <2>2, <2>3 DEF HandlesLate
<1>3. CASE UNCHANGED <<times, hollow>>
  BY <1>3 DEF Grows
<1> QED
  BY <1>1, <1>2, <1>3, OthersLeaveSorx DEF SorxStep

\* A thread that does not move keeps what is done for it.
LEMMA DoneKept ==
  ASSUME TypeOK, ShapeInv, Grows, NEW t \in Threads, DoneAt(t), ReplyAt(t),
         job'[t] = job[t], phase'[t] = phase[t], action'[t] = action[t],
         outcome'[t] = outcome[t]
  PROVE  /\ DoneAt(t)'
         /\ reply'[t] = reply[t] => ReplyAt(t)'
<1>1. DoneAt(t)'
  <2> SUFFICES ASSUME job[t] # None  PROVE DoneAt(t)'
    BY DEF DoneAt
  <2> DEFINE acts == ToApply(job[t].run)
             last == job[t].next - 1
  <2>1. /\ Len(acts) \in Nat /\ last \in Nat
        /\ \A k \in 1..Len(acts) : acts[k] \in Actions
    BY JobParts
  <2>2. /\ last <= Len(acts)
        /\ \A k \in 1..Len(acts) : k < last => Done(acts[k])
        /\ phase[t] # "idle" => last > 0 /\ action[t] = acts[last]
        /\ phase[t] = "idle" /\ GoesOn(t) /\ last > 0 => Done(acts[last])
    BY DEF DoneAt
  <2>3. \A a \in Actions : Done(a) =>
          (a.operation = "invoke" => times'[a] > 0 \/ a \in hollow')
    BY DEF Grows, Done
  <2>4. /\ \A k \in 1..Len(acts) : k < last =>
             (acts[k].operation = "invoke" => times'[acts[k]] > 0 \/ acts[k] \in hollow')
        /\ phase[t] = "idle" /\ GoesOn(t) /\ last > 0 =>
             (acts[last].operation = "invoke" =>
                times'[acts[last]] > 0 \/ acts[last] \in hollow')
    <3>1. last > 0 => last \in 1..Len(acts)
      BY <2>1, <2>2
    <3> HIDE DEF acts, last
    <3> QED  BY <2>1, <2>2, <2>3, <3>1
  <2> QED  BY <2>2, <2>4 DEF DoneAt, GoesOn, Done
<1>2. ASSUME reply'[t] = reply[t]  PROVE ReplyAt(t)'
  <2>1. action[t] # None => action[t] \in Actions
    BY DEF TypeOK, CallsTypeOK
  <2>2. phase[t] = "wait" => action[t] # None
    BY DEF ShapeInv
  <2> QED  BY <1>2, <2>1, <2>2 DEF ReplyAt, Grows, Done
<1> QED  BY <1>1, <1>2

LEMMA DonePost ==
  ASSUME TypeOK, ShapeInv, DoneInv, Grows, NEW t \in Threads, NEW route,
         NEW b \in Bodies, NEW id \in RunIds, Post(t, route, b, id)
  PROVE  DoneInv'
<1>1. ASSUME NEW u \in Threads, u # t  PROVE DoneAt(u)' /\ ReplyAt(u)'
  BY <1>1, DoneKept DEF Post, StartRun, DoneInv, TypeOK, CallsTypeOK
<1>2. DoneAt(t)' /\ ReplyAt(t)'
  <2>1. PICK part \in {"none", "some", "all"} :
          \/ UNCHANGED <<job, outcome>>
          \/ EarlyError(route, b, part) = None /\ StartRun(t, route, b, id)
    BY DEF Post
  <2>2. phase[t] = "idle" /\ UNCHANGED <<phase, action, reply>>
    BY DEF Post, Accepts, Free
  <2>3. CASE UNCHANGED <<job, outcome>>
    BY <2>2, <2>3, DoneKept DEF DoneInv
  <2>4. CASE EarlyError(route, b, part) = None /\ StartRun(t, route, b, id)
    <3> DEFINE in == InputOf(route, b)
               run == [id |-> id, input |-> in, dry |-> ~Applies(route, b)]
    <3>1. job'[t] = [run |-> run, next |-> 1]
      BY <2>4 DEF StartRun, TypeOK
    <3>2. in \in Inputs /\ Plan[in] # None
      BY <2>4, StartParts
    <3>3. (~Applies(route, b)) \in BOOLEAN
      OBVIOUS
    <3>4. run \in Run /\ Plan[run.input] # None
      BY <3>2, <3>3 DEF Run
    <3> HIDE DEF run
    <3>5. Len(ToApply(run)) \in Nat
      BY <3>4, PlanParts
    <3>6. DoneAt(t)'
      BY <2>2, <3>1, <3>5 DEF DoneAt
    <3>7. reply[t] = None
      BY <2>2 DEF DoneInv, ReplyAt
    <3> QED  BY <2>2, <3>6, <3>7 DEF ReplyAt
  <2> QED  BY <2>1, <2>3, <2>4
<1> QED  BY <1>1, <1>2 DEF DoneInv

LEMMA DoneApply ==
  ASSUME TypeOK, ShapeInv, DoneInv, Grows, NEW t \in Threads, ApplyNext(t)
  PROVE  DoneInv'
<1> DEFINE acts == ToApply(job[t].run)
           next == job[t].next
<1>1. /\ job[t] # None /\ phase[t] = "idle" /\ GoesOn(t)
      /\ job[t] \in Job /\ next \in Nat \ {0} /\ Len(acts) \in Nat /\ next <= Len(acts)
      /\ \A k \in 1..Len(acts) : acts[k] \in Actions
      /\ StartCall(t, acts[next])
      /\ UNCHANGED <<times, hollow>>
  BY JobParts DEF ApplyNext, Running, StartCall, sorxVars
<1>2. job' = [job EXCEPT ![t].next = @ + 1]
  BY DEF ApplyNext
<1>3. job'[t] # None => job'[t].next = next + 1 /\ job'[t].run = job[t].run
  BY <1>1, <1>2 DEF TypeOK, Job
<1>4. ASSUME NEW u \in Threads, u # t  PROVE DoneAt(u)' /\ ReplyAt(u)'
  <2>1. UNCHANGED <<job[u], phase[u], action[u], outcome[u], reply[u]>>
    BY <1>1, <1>2, <1>4 DEF TypeOK, CallsTypeOK, StartCall, Return
  <2> QED  BY <2>1, <1>4, DoneKept DEF DoneInv
<1>5. \A k \in 1..Len(acts) : k < next => Done(acts[k])
  <2>1. DoneAt(t)
    BY DEF DoneInv
  <2>2. /\ \A k \in 1..Len(acts) : k < next - 1 => Done(acts[k])
        /\ next - 1 > 0 => Done(acts[next - 1])
    BY <1>1, <2>1 DEF DoneAt
  <2> HIDE DEF acts, next
  <2>3. ASSUME NEW k \in 1..Len(acts), k < next  PROVE Done(acts[k])
    <3>1. k < next - 1 \/ (k = next - 1 /\ next - 1 > 0)
      BY <1>1, <2>3
    <3> QED  BY <2>2, <3>1
  <2> QED  BY <2>3
<1>6. /\ phase'[t] # "idle" => action'[t] = acts[next]
      /\ phase'[t] = "idle" /\ outcome'[t] \in {"none", "ok"} =>
           acts[next].operation # "invoke"
      /\ reply'[t] = None
  <2>1. acts[next] \in Actions
    BY <1>1
  <2>2. reply[t] = None
    BY <1>1 DEF DoneInv, ReplyAt
  <2> HIDE DEF acts, next
  <2>3. CASE RequestOf(acts[next]) = None
    BY <1>1, <2>1, <2>3, RequestParts DEF StartCall, Return, TypeOK, CallsTypeOK
  <2>4. CASE RequestOf(acts[next]) # None /\ url # "http"
    BY <1>1, <2>4 DEF StartCall, Return, UrlError, TypeOK, CallsTypeOK
  <2>5. CASE RequestOf(acts[next]) # None /\ url = "http"
    BY <1>1, <2>2, <2>5 DEF StartCall, TypeOK, CallsTypeOK
  <2> QED  BY <2>3, <2>4, <2>5
<1>7. DoneAt(t)'
  <2> SUFFICES ASSUME job'[t] # None  PROVE DoneAt(t)'
    BY DEF DoneAt
  <2>1. ToApply(job'[t].run) = acts /\ job'[t].next - 1 = next
    BY <1>1, <1>3
  <2>2. \A k \in 1..Len(acts) : k < next =>
          (acts[k].operation = "invoke" => times'[acts[k]] > 0 \/ acts[k] \in hollow')
    BY <1>1, <1>5 DEF Done
  <2> HIDE DEF acts, next
  <2> QED  BY <1>1, <1>6, <2>1, <2>2 DEF DoneAt, GoesOn, Done
<1>8. ReplyAt(t)'
  BY <1>6 DEF ReplyAt
<1> QED  BY <1>4, <1>7, <1>8 DEF DoneInv

LEMMA DoneReturn ==
  ASSUME TypeOK, ShapeInv, DoneInv, Grows, NEW t \in Threads, phase[t] # "idle",
         NEW result, Return(t, result), UNCHANGED <<job, times, hollow>>,
         result \in {"none", "ok"} => reply[t] # None /\ reply[t].status \in {200, 302}
  PROVE  DoneInv'
<1>1. ASSUME NEW u \in Threads, u # t  PROVE DoneAt(u)' /\ ReplyAt(u)'
  <2>1. UNCHANGED <<job[u], phase[u], action[u], outcome[u], reply[u]>>
    BY <1>1 DEF TypeOK, CallsTypeOK, Return
  <2> QED  BY <2>1, <1>1, DoneKept DEF DoneInv
<1>2. phase'[t] = "idle" /\ outcome'[t] = result /\ reply'[t] = None
  BY DEF TypeOK, CallsTypeOK, Return
<1>3. result \in {"none", "ok"} => Done(action[t])
  BY DEF DoneInv, ReplyAt
<1>4. DoneAt(t)
  BY DEF DoneInv
<1>5. DoneAt(t)'
  BY <1>2, <1>3, <1>4 DEF DoneAt, GoesOn, Done
<1> QED  BY <1>1, <1>2, <1>5 DEF DoneInv, ReplyAt

LEMMA DoneCalls ==
  ASSUME TypeOK, ShapeInv, DoneInv, Grows, NEW t \in Threads, Calls(t)
  PROVE  DoneInv'
<1>1. UNCHANGED <<job, times, hollow>>
  BY DEF Calls, ClientStep, ConnectFails, Connected, WriteFails, Written, Arrive,
         Trickle, Silence, HearsByte, Closed, Reset, TimesOut, Leaves, managerVars,
         sorxVars
<1>2. CASE ConnectFails(t)
  BY <1>1, <1>2, DoneReturn DEF ConnectFails
<1>3. CASE WriteFails(t)
  BY <1>1, <1>3, DoneReturn DEF WriteFails
<1>4. CASE Closed(t) \/ Reset(t) \/ TimesOut(t)
  <2>1. PICK result :
          /\ Leaves(t, result)
          /\ result \in {"none", "ok"} => reply[t] # None /\ reply[t].status \in {200, 302}
    BY <1>4, TypeParts, LeavesResult
  <2> QED  BY <1>1, <2>1, DoneReturn DEF Leaves
<1>5. CASE \/ Connected(t) \/ Written(t)
           \/ Arrive(t) \/ Trickle(t) \/ Silence(t)
  <2>1. UNCHANGED <<action, reply, outcome>>
    BY <1>5 DEF Connected, Written, Arrive, Trickle, Silence, HearsByte
  <2>2. /\ phase[t] # "idle" /\ phase'[t] # "idle"
        /\ phase[t] = "wait" => phase'[t] = "wait"
    BY <1>5 DEF Connected, Written, Arrive, Trickle, Silence, HearsByte, TypeOK,
                CallsTypeOK
  <2>3. ASSUME NEW u \in Threads, u # t  PROVE DoneAt(u)' /\ ReplyAt(u)'
    <3>1. phase'[u] = phase[u]
      BY <1>5, <2>3 DEF Connected, Written, Arrive, Trickle, Silence, HearsByte, TypeOK,
                        CallsTypeOK
    <3> QED  BY <1>1, <2>1, <3>1, DoneKept DEF DoneInv
  <2>4. DoneAt(t)'
    BY <1>1, <2>1, <2>2 DEF DoneInv, DoneAt, GoesOn, Done
  <2>5. ReplyAt(t)'
    BY <1>1, <2>1, <2>2 DEF DoneInv, ReplyAt, Done
  <2> QED  BY <2>3, <2>4, <2>5 DEF DoneInv
<1> QED  BY <1>2, <1>3, <1>4, <1>5 DEF Calls, ClientStep

LEMMA DoneSorx ==
  ASSUME TypeOK, ShapeInv, KeyInv, DoneInv, Grows, SorxStep, UNCHANGED managerVars
  PROVE  DoneInv'
<1>0. CallsTypeOK
  BY TypeParts
<1>1. UNCHANGED <<job, phase, action, outcome>>
  BY DEF SorxStep, Answers, HandlesLate, callVars, managerVars
<1>2. ASSUME NEW u \in Threads
      PROVE  DoneAt(u)' /\ (reply'[u] = reply[u] => ReplyAt(u)')
  BY <1>1, DoneKept DEF DoneInv
<1>3. ASSUME NEW t \in Threads, NEW r \in Replies, Answers(t, r)
      PROVE  ReplyAt(t)' /\ \A u \in Threads \ {t} : reply'[u] = reply[u]
  <2>1. /\ action[t] \in Actions /\ RequestOf(action[t]) # None
        /\ phase[t] = "wait" /\ reply'[t] = r
        /\ \A u \in Threads \ {t} : reply'[u] = reply[u]
    BY <1>0, <1>3 DEF Answers, ShapeInv, CallsTypeOK
  <2>2. CASE r.status \in {200, 302} /\ ~Genuine(r)
    <3>1. action[t] \in hollow'
      BY <1>3, <2>2 DEF Answers
    <3> QED  BY <1>1, <2>1, <3>1 DEF ReplyAt, Done
  <2>3. CASE Genuine(r)
    <3>1. CarryOut(action[t])
      BY <1>3, <2>3 DEF Answers
    <3>2. action[t].operation = "invoke" => times'[action[t]] > 0
      BY <1>0, <2>1, <3>1, CarriedOut
    <3> QED  BY <1>1, <2>1, <3>2 DEF ReplyAt, Done
  <2>4. CASE r.status \notin {200, 302}
    BY <1>1, <2>1, <2>4 DEF ReplyAt
  <2> QED  BY <2>1, <2>2, <2>3, <2>4
<1>4. ASSUME NEW a \in Actions, HandlesLate(a)  PROVE reply' = reply
  BY <1>4 DEF HandlesLate, callVars
<1> QED  BY <1>2, <1>3, <1>4 DEF SorxStep, DoneInv

LEMMA DoneStep ==
  ASSUME TypeOK, ShapeInv, KeyInv, DoneInv, [Next]_vars
  PROVE  DoneInv'
<1>0. Grows
  BY GrowsStep
<1>1. ASSUME NEW t \in Threads, Views(t) \/ \E id \in RunIds : GetRun(t, id)
      PROVE  DoneInv'
  BY <1>0, <1>1, DoneKept DEF Views, GetRun, DoneInv, callVars
<1>2. ASSUME NEW t \in Threads, Fails(t) \/ Finishes(t)  PROVE DoneInv'
  <2>1. job'[t] = None /\ \A u \in Threads \ {t} : job'[u] = job[u]
    BY <1>2 DEF Fails, Finishes, Ends, TypeOK
  <2>2. /\ UNCHANGED <<phase, action, reply, times, hollow>>
        /\ \A u \in Threads \ {t} : outcome'[u] = outcome[u]
    BY <1>2 DEF Fails, Finishes, Ends, TypeOK, CallsTypeOK, sorxVars
  <2>3. ASSUME NEW u \in Threads, u # t  PROVE DoneAt(u)' /\ ReplyAt(u)'
    BY <1>0, <2>1, <2>2, <2>3, DoneKept DEF DoneInv
  <2>4. DoneAt(t)'
    BY <2>1 DEF DoneAt
  <2>5. ReplyAt(t)'
    BY <2>2 DEF DoneInv, ReplyAt, Done
  <2> QED  BY <2>3, <2>4, <2>5 DEF DoneInv
<1>3. CASE AcceptFails
  BY <1>0, <1>3, DoneKept DEF AcceptFails, DoneInv, callVars
<1>4. CASE UNCHANGED vars
  BY <1>0, <1>4, DoneKept DEF vars, DoneInv, callVars, managerVars
<1> QED
  BY <1>0, <1>1, <1>2, <1>3, <1>4, DonePost, DoneApply, DoneCalls, DoneSorx
  DEF Next, Serve

\* A run that is stored has come past all its actions.
LEMMA StoredStep ==
  ASSUME TypeOK, ShapeInv, KeyInv, DoneInv, StoredRunsDidAll, [Next]_vars
  PROVE  StoredRunsDidAll'
<1>0. Grows
  BY GrowsStep
<1>1. ASSUME NEW n \in 1..Len(history), NEW k \in 1..Len(ToApply(history[n]))
      PROVE  LET a == ToApply(history[n])[k] IN
             a.operation = "invoke" => times'[a] > 0 \/ a \in hollow'
  <2>1. history[n] \in Run /\ Plan[history[n].input] # None
    BY DEF TypeOK, ShapeInv
  <2>2. ToApply(history[n])[k] \in Actions
    BY <2>1, PlanParts
  <2> QED  BY <1>0, <2>2 DEF StoredRunsDidAll, Grows
<1>2. CASE history' = history
  BY <1>1, <1>2 DEF StoredRunsDidAll
<1>3. ASSUME NEW t \in Threads, Finishes(t)  PROVE StoredRunsDidAll'
  <2> DEFINE run == job[t].run
             acts == ToApply(run)
  <2>1. /\ job[t] # None /\ run \in Run /\ job[t].next \in Nat \ {0} /\ Len(acts) \in Nat
        /\ job[t].next > Len(acts) /\ phase[t] = "idle" /\ GoesOn(t)
        /\ UNCHANGED <<times, hollow>>
    BY <1>3, JobParts DEF Finishes, Ends, Running, sorxVars
  <2>2. ASSUME NEW k \in 1..Len(acts)  PROVE Done(acts[k])
    <3>1. DoneAt(t)
      BY DEF DoneInv
    <3>2. k < job[t].next - 1 \/ k = job[t].next - 1
      BY <2>1
    <3>3. CASE k < job[t].next - 1
      BY <2>1, <3>1, <3>3 DEF DoneAt
    <3>4. CASE k = job[t].next - 1
      BY <2>1, <3>1, <3>4 DEF DoneAt
    <3> QED  BY <3>2, <3>3, <3>4
  <2>3. /\ Len(history) \in Nat
        /\ Len(history') = Len(history) + 1
        /\ history'[1] = run
        /\ \A n \in 2..Len(history') : history'[n] = history[n - 1]
    BY <1>3, <2>1 DEF Finishes, TypeOK
  <2> HIDE DEF acts, run
  <2>4. ASSUME NEW n \in 1..Len(history'), NEW k \in 1..Len(ToApply(history'[n]))
        PROVE  LET a == ToApply(history'[n])[k] IN
               a.operation = "invoke" => times'[a] > 0 \/ a \in hollow'
    <3>1. CASE n = 1
      <4>1. ToApply(history'[n]) = acts
        BY <2>3, <3>1 DEF acts
      <4> QED  BY <2>1, <2>2, <2>4, <4>1 DEF Done
    <3>2. CASE n # 1
      <4>1. n - 1 \in 1..Len(history) /\ history'[n] = history[n - 1]
        BY <2>3, <3>2
      <4> QED  BY <1>1, <2>4, <4>1
    <3> QED  BY <3>1, <3>2
  <2> QED  BY <2>4 DEF StoredRunsDidAll
<1> QED
  BY <1>2, <1>3
  DEF Next, Serve, Views, GetRun, Post, ApplyNext, Fails, Calls, AcceptFails, vars,
      managerVars

-----------------------------------------------------------------------------
(***************************************************************************)
(* The store of runs.                                                      *)
(***************************************************************************)
LEMMA NewestStep ==
  ASSUME TypeOK, ShapeInv, NewestRunsAreKept, [Next]_vars
  PROVE  NewestRunsAreKept'
<1>1. CASE UNCHANGED <<runs, history>>
  BY <1>1 DEF NewestRunsAreKept
<1>2. ASSUME NEW t \in Threads, Finishes(t)  PROVE NewestRunsAreKept'
  <2> DEFINE run == job[t].run
             pushed == <<run>> \o runs
  <2>1. run \in Run
    BY <1>2, JobParts DEF Finishes, Running
  <2>2. Len(runs) \in Nat /\ Len(history) \in Nat /\ Cap \in Nat \ {0}
    BY ManagerAssumption DEF TypeOK
  <2>3. /\ pushed \in Seq(Run)
        /\ Len(pushed) = Len(runs) + 1
        /\ pushed[1] = run
        /\ \A n \in 2..Len(pushed) : pushed[n] = runs[n - 1]
    BY <2>1 DEF TypeOK
  <2>4. /\ Len(history') = Len(history) + 1
        /\ history'[1] = run
        /\ \A n \in 2..Len(history') : history'[n] = history[n - 1]
    BY <1>2, <2>1 DEF Finishes, TypeOK
  <2>5. runs' = IF Len(pushed) > Cap THEN SubSeq(pushed, 1, Cap) ELSE pushed
    BY <1>2 DEF Finishes, PushRun
  <2> HIDE DEF run, pushed
  <2>6. /\ Len(runs') = IF Len(pushed) > Cap THEN Cap ELSE Len(pushed)
        /\ \A n \in 1..Len(runs') : runs'[n] = pushed[n]
    BY <2>2, <2>3, <2>5
  <2>7. \A n \in 1..Len(runs') : n <= Len(pushed)
    BY <2>2, <2>3, <2>6
  <2>8. ASSUME NEW n \in 1..Len(runs')  PROVE runs'[n] = history'[n]
    <3>1. CASE n = 1
      BY <2>3, <2>4, <2>6, <3>1
    <3>2. CASE n # 1
      <4>1. n - 1 \in 1..Len(runs) /\ n \in 2..Len(pushed)
        BY <2>2, <2>3, <2>6, <2>7, <3>2
      <4>2. Len(runs) <= Len(history)
        BY <2>2 DEF NewestRunsAreKept
      <4>3. n \in 2..Len(history')
        BY <2>2, <2>3, <2>4, <4>1, <4>2
      <4> QED  BY <2>3, <2>4, <2>6, <4>1, <4>3 DEF NewestRunsAreKept
    <3> QED  BY <3>1, <3>2
  <2>9. Len(runs') = IF Len(history') < Cap THEN Len(history') ELSE Cap
    BY <2>2, <2>3, <2>4, <2>6 DEF NewestRunsAreKept
  <2> QED  BY <2>8, <2>9 DEF NewestRunsAreKept
<1> QED
  BY <1>1, <1>2
  DEF Next, Serve, Views, GetRun, Post, ApplyNext, Fails, Calls, AcceptFails, vars,
      managerVars

-----------------------------------------------------------------------------
(***************************************************************************)
(* Theorems.                                                               *)
(***************************************************************************)
IInv ==
  /\ TypeOK
  /\ ShapeInv
  /\ KeyInv
  /\ AskedInv
  /\ DoneInv
  /\ StoredRunsDidAll
  /\ NewestRunsAreKept

LEMMA InvInit == Init => IInv
<1> SUFFICES ASSUME Init PROVE IInv
  OBVIOUS
<1>1. CallsTypeOK
  BY DEF Init, CallsInit, CallsTypeOK
<1>2. ManagerTypeOK
  <2>1. [status |-> 0, run |-> None] \in Answer
    BY DEF Answer
  <2>2. runs \in Seq(Run) /\ history \in Seq(Run)
    BY DEF Init
  <2>3. accepted \in 0..MaxRequests
    BY ManagerAssumption DEF Init
  <2> QED  BY <2>1, <2>2, <2>3 DEF Init, ManagerTypeOK
<1>3. ShapeInv
  BY DEF Init, CallsInit, ShapeInv
<1>4. KeyInv /\ AskedInv
  BY DEF Init, CallsInit, KeyInv, AskedInv, OnlyAskedForIsDone
<1>5. DoneInv
  BY DEF Init, CallsInit, DoneInv, DoneAt, ReplyAt
<1>6. StoredRunsDidAll /\ NewestRunsAreKept
  BY ManagerAssumption DEF Init, StoredRunsDidAll, NewestRunsAreKept
<1> QED  BY <1>1, <1>2, <1>3, <1>4, <1>5, <1>6, TypeParts DEF IInv

LEMMA InvStep == IInv /\ [Next]_vars => IInv'
BY TypeStep, ShapeStep, KeyStep, AskedStep, DoneStep, StoredStep, NewestStep DEF IInv

LEMMA Invariance == Spec => []IInv
BY InvInit, InvStep, PTL DEF Spec

\* Every state of the manager, its calls and SoRX is well formed.
THEOREM TypeCorrect == Spec => []TypeOK
<1>1. IInv => TypeOK
  BY DEF IInv
<1> QED  BY Invariance, <1>1, PTL

\* Whatever SoRX does, and however late, a request asked for it to be applied
\* (submit_manager, create_run, input_mode_from_body).
THEOREM OnlyAskedFor == Spec => []OnlyAskedForIsDone
<1>1. IInv => OnlyAskedForIsDone
  BY DEF IInv, AskedInv
<1> QED  BY Invariance, <1>1, PTL

\* Runs of the same input, after timeouts and while SoRX still works on the
\* requests of those that gave up, do nothing twice (apply_pack_action).
THEOREM DoneOnce == Spec => []NothingTwice
<1>1. IInv => NothingTwice
  BY DEF IInv, KeyInv, NothingTwice
<1> QED  BY Invariance, <1>1, PTL

\* A stored run did all it was to do, but for what a redirect or a page that is not
\* SoRX's answered (run_loaded_pack, parse_http_json_response).
THEOREM StoredDidAll == Spec => []StoredRunsDidAll
<1>1. IInv => StoredRunsDidAll
  BY DEF IInv
<1> QED  BY Invariance, <1>1, PTL

\* A run is found by its id exactly as long as it is among the newest Cap, unless
\* a newer one has the id (push_run, find_run).
THEOREM KeptAreFound == Spec => []RunsAreFound
<1>1. ASSUME IInv, NEW id \in RunIds
      PROVE  LET kept == {n \in 1..Len(history) : n <= Cap /\ history[n].id = id} IN
             IF kept = {} THEN FindRun(id) = None
             ELSE \E n \in kept : FindRun(id) = history[n] /\ \A k \in kept : n <= k
  <2>1. TypeOK /\ NewestRunsAreKept
    BY <1>1 DEF IInv
  <2>2. Len(history) \in Nat /\ Cap \in Nat \ {0} /\ Len(runs) \in Nat
    BY <2>1, ManagerAssumption DEF TypeOK
  <2>3. /\ \A n \in 1..Len(runs) : n \in 1..Len(history) /\ n <= Cap
        /\ \A n \in 1..Len(history) : n <= Cap => n \in 1..Len(runs)
        /\ \A n \in 1..Len(runs) : runs[n] = history[n]
    BY <2>1, <2>2 DEF NewestRunsAreKept
  <2>4. CASE \E n \in 1..Len(runs) : runs[n].id = id
    <3>1. PICK n \in 1..Len(runs) :
            /\ runs[n].id = id /\ FindRun(id) = runs[n]
            /\ \A k \in 1..Len(runs) : runs[k].id = id => n <= k
      BY <2>1, <2>4, Found
    <3> QED  BY <2>3, <3>1
  <2>5. CASE ~ \E n \in 1..Len(runs) : runs[n].id = id
    <3>1. FindRun(id) = None
      BY <2>1, <2>5, Found
    <3> QED  BY <2>3, <2>5, <3>1
  <2> QED  BY <2>4, <2>5
<1>2. IInv => RunsAreFound
  BY <1>1 DEF RunsAreFound
<1> QED  BY Invariance, <1>2, PTL
=============================================================================
