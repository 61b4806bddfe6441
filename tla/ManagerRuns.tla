----------------------------- MODULE ManagerRuns -----------------------------
(***************************************************************************)
(* ManagerRuntime: one operational pack behind the manager's HTTP server.  *)
(* A thread per connection reads a request, runs the pack on its input by  *)
(* calls to SoRX (SorxCalls), stores the report of a run that succeeded and*)
(* answers.  Only the last Cap reports are kept.                           *)
(***************************************************************************)
EXTENDS SorxCalls, Sequences, SequencesExt

CONSTANTS
  Inputs,       \* inputs of runs
  Plan,         \* Plan[i]: the actions that the decisions on i apply, in order;
                \* None if the runtime refuses the input
  BrokenTexts,  \* inputs that are texts and hold no JSON
  Bodies,       \* bodies of POST requests
  RunIds,       \* ids made of readings of the clock
  Cap,          \* how many runs are kept, 20
  MaxRequests,  \* bound: connections accepted in a behaviour
  MaxApplies    \* bound: those of them, the first, that may ask to apply

Modes == {"apply", "dry_run", "number", None}

\* A JSON body: the values of the fields that are looked at, None where there is
\* none, and what the body as a whole is as an input.
Body == [input : Inputs \cup {None}, json : Inputs \cup {None},
         payload : Inputs \cup {None}, whole : Inputs,
         mode : Modes, operation : Modes]

Run == [id : RunIds, input : Inputs, dry : BOOLEAN]

\* A run under way and the number of its next action.
Job == [run : Run, next : Nat \ {0}]

ASSUME ManagerAssumption ==
  /\ Plan \in [Inputs -> Seq(Actions) \cup {None}]
  /\ BrokenTexts \subseteq Inputs
  /\ Bodies \subseteq Body
  /\ Cap \in Nat \ {0} /\ MaxRequests \in Nat /\ MaxApplies \in Nat
  /\ None \notin Inputs \cup Run \cup Job \cup Seq(Actions)
  /\ None \notin {"missing_body", "json_error", "missing_input", "invalid_input"}

VARIABLES
  serving,    \* whether the process runs
  job,        \* the run that each thread is busy with, None if none
  answer,     \* what each thread answered to its last connection
  runs,       \* the stored runs, newest first
  accepted,   \* connections accepted so far
  history,    \* observation: all runs that were ever stored, newest first
  asked       \* observation: actions of inputs that were sent to be applied

managerVars == <<serving, job, answer, runs, accepted, history, asked>>
vars == <<managerVars, callVars, sorxVars>>

\* An answer; status 0 is a connection that was closed without one.
Answer == [status : {0, 200, 204, 400, 404, 500}, run : Run \cup {None}]

TypeOK ==
  /\ CallsTypeOK
  /\ serving \in BOOLEAN
  /\ job \in [Threads -> Job \cup {None}]
  /\ answer \in [Threads -> Answer]
  /\ runs \in Seq(Run)
  /\ accepted \in 0..MaxRequests
  /\ history \in Seq(Run)
  /\ asked \subseteq Actions

Init ==
  /\ CallsInit
  /\ serving = TRUE
  /\ job = [t \in Threads |-> None]
  /\ answer = [t \in Threads |-> [status |-> 0, run |-> None]]
  /\ runs = <<>>
  /\ accepted = 0
  /\ history = <<>>
  /\ asked = {}

-----------------------------------------------------------------------------
(***************************************************************************)
(* What a request asks for.                                                *)
(***************************************************************************)

\* Of two fields the first that is there.
OrElse(x, y) == IF x # None THEN x ELSE y

\* Mutant: a mode that is not "dry_run" applies.
AppliesUnlessDry(route, b) ==
  IF route = "submit" THEN OrElse(b.mode, b.operation) # "dry_run"
  ELSE b.mode # "dry_run"

\* submit_manager and input_mode_from_body.  Only submit looks at the operation,
\* and a mode that is no text hides it.
Applies(route, b) ==
  IF route = "submit" THEN OrElse(b.mode, b.operation) = "apply"
  ELSE b.mode = "apply"

\* The input of a run; None if there is none.
InputOf(route, b) ==
  IF route = "submit" THEN OrElse(b.input, OrElse(b.json, b.payload))
  ELSE OrElse(b.input, b.whole)

ErrorStatus(code) ==
  CASE code \in {"not_found", "run_not_found"} -> 404
    [] code \in {"missing_body", "missing_input", "json_error",
                 "unknown_input_shape", "invalid_input", "invalid_batch_input",
                 "secret_like_value"} -> 400
    [] OTHER -> 500

\* The error that a run ends with before its first action, None if it has one:
\* the body may be cut off, before it starts or in the middle.
EarlyError(route, b, part) ==
  LET input == InputOf(route, b) IN
  CASE part = "none" -> "missing_body"
    [] part = "some" -> "json_error"
    [] part = "all" /\ input = None -> "missing_input"
    [] part = "all" /\ input \in BrokenTexts -> "json_error"
    [] part = "all" /\ input \in Inputs \ BrokenTexts ->
         IF Plan[input] = None THEN "invalid_input" ELSE None

\* What a client could mean by a body, if it says "apply" anywhere.
Wanted(b) ==
  IF "apply" \in {b.mode, b.operation}
  THEN UNION {Range(Plan[i]) : i \in {j \in {b.input, b.json, b.payload, b.whole} \ {None} :
                                        Plan[j] # None}}
  ELSE {}

-----------------------------------------------------------------------------
(***************************************************************************)
(* The store of runs.                                                      *)
(***************************************************************************)

\* Mutant: the newest run goes to the back, where runs are dropped.
PushBack(r) ==
  runs' = SubSeq(Append(runs, r), 1, IF Len(runs) < Cap THEN Len(runs) + 1 ELSE Cap)

\* push_run
PushRun(r) ==
  LET pushed == <<r>> \o runs
  IN runs' = IF Len(pushed) > Cap THEN SubSeq(pushed, 1, Cap) ELSE pushed

\* Mutant: the search starts with the oldest run.
FindRunOldest(id) ==
  LET same == {n \in 1..Len(runs) : runs[n].id = id}
  IN IF same = {} THEN None ELSE runs[CHOOSE n \in same : \A k \in same : n >= k]

\* find_run
FindRun(id) ==
  LET same == {n \in 1..Len(runs) : runs[n].id = id}
  IN IF same = {} THEN None ELSE runs[CHOOSE n \in same : \A k \in same : n <= k]

-----------------------------------------------------------------------------
(***************************************************************************)
(* One connection.  Its request is read by a single read, which may end in *)
(* the middle: of the body, which is then no JSON, before it, or of the    *)
(* request line, which then names another route.                           *)
(***************************************************************************)
Free(t) == serving /\ job[t] = None /\ phase[t] = "idle"

Accepts(t) ==
  /\ Free(t)
  /\ accepted < MaxRequests
  /\ accepted' = accepted + 1

\* The answer is written, or the connection is gone.
Responds(t, status, run) ==
  \E s \in {0, status} :
    answer' = [answer EXCEPT ![t] = [status |-> s, run |-> IF s = 0 THEN None ELSE run]]

\* The routes that only read, OPTIONS, and those that there are not.
Views(t) ==
  /\ Accepts(t)
  /\ \E status \in {200, 204, 404} : Responds(t, status, None)
  /\ UNCHANGED <<serving, job, runs, history, asked, callVars, sorxVars>>

\* get_run and decision_card
GetRun(t, id) ==
  /\ Accepts(t)
  /\ Responds(t, IF FindRun(id) = None THEN 404 ELSE 200, FindRun(id))
  /\ UNCHANGED <<serving, job, runs, history, asked, callVars, sorxVars>>

\* The id of the run is the clock's reading when the context is made, before the
\* run: another run may have read the same.
StartRun(t, route, b, id) ==
  job' = [job EXCEPT ![t] =
            [run |-> [id |-> id, input |-> InputOf(route, b), dry |-> ~Applies(route, b)],
             next |-> 1]]

\* The actions that a run applies: a dry run skips them all.
ToApply(run) == IF run.dry THEN <<>> ELSE Plan[run.input]

\* submit_manager and create_run, as far as the first action.
Post(t, route, b, id) ==
  /\ Accepts(t)
  /\ Applies(route, b) => accepted < MaxApplies
  /\ asked' = asked \cup Wanted(b)
  /\ \E part \in {"none", "some", "all"} :
       IF EarlyError(route, b, part) # None
       THEN /\ Responds(t, ErrorStatus(EarlyError(route, b, part)), None)
            /\ UNCHANGED <<job, outcome>>
       ELSE /\ StartRun(t, route, b, id)
            /\ outcome' = [outcome EXCEPT ![t] = "none"]
            /\ answer' = [answer EXCEPT ![t] = [status |-> 0, run |-> None]]
  /\ UNCHANGED <<serving, runs, history, url, phase, action, reply, arrived,
                 silent, sorxVars>>

\* The thread has answered and ends.
Ends(t) ==
  /\ job' = [job EXCEPT ![t] = None]
  /\ outcome' = [outcome EXCEPT ![t] = "none"]
  /\ UNCHANGED <<serving, accepted, asked, url, phase, action, reply, arrived,
                 silent, sorxVars>>

Running(t) == serving /\ job[t] # None /\ phase[t] = "idle"

\* Mutant: an error of one action does not end the run.
GoesOnAnyway(t) == TRUE

GoesOn(t) == outcome[t] \in {"none", "ok"}

\* The next action of the run is applied.
ApplyNext(t) ==
  /\ Running(t)
  /\ GoesOn(t)
  /\ job[t].next <= Len(ToApply(job[t].run))
  /\ job' = [job EXCEPT ![t].next = @ + 1]
  /\ StartCall(t, ToApply(job[t].run)[job[t].next])
  /\ UNCHANGED <<serving, answer, runs, accepted, history, asked>>

\* An action failed, or a line of the audit could not be written: the run is over
\* and nothing is stored.
Fails(t) ==
  /\ Running(t)
  /\ Responds(t, ErrorStatus(IF GoesOn(t) THEN "io_error" ELSE outcome[t]), None)
  /\ Ends(t)
  /\ UNCHANGED <<runs, history>>

\* All was done: the report is stored, then the answer is written.
Finishes(t) ==
  /\ Running(t)
  /\ GoesOn(t)
  /\ job[t].next > Len(ToApply(job[t].run))
  /\ PushRun(job[t].run)
  /\ history' = <<job[t].run>> \o history
  /\ Responds(t, 200, job[t].run)
  /\ Ends(t)

\* accept fails, and start_manager_server returns: the process ends with all its
\* threads and their runs.
AcceptFails ==
  /\ serving
  /\ serving' = FALSE
  /\ UNCHANGED <<job, answer, runs, accepted, history, asked, callVars, sorxVars>>

Calls(t) ==
  /\ serving
  /\ ClientStep(t)
  /\ UNCHANGED managerVars

Serve(t) == ApplyNext(t) \/ Fails(t) \/ Finishes(t) \/ Calls(t)

Next ==
  \/ \E t \in Threads :
       \/ Views(t)
       \/ \E id \in RunIds : GetRun(t, id)
       \/ \E route \in {"submit", "create_run"}, b \in Bodies, id \in RunIds :
            Post(t, route, b, id)
       \/ Serve(t)
  \/ AcceptFails
  \/ SorxStep /\ UNCHANGED managerVars

Spec == Init /\ [][Next]_vars

\* What a thread does without help from SoRX: the connect is given up by the
\* operating system, the request fits in the buffers of the connection, and a read
\* is given up after ten seconds.
Own(t) ==
  \/ ApplyNext(t)
  \/ Fails(t)
  \/ Finishes(t)
  \/ /\ serving
     /\ \/ ConnectFails(t) \/ Connected(t) \/ WriteFails(t) \/ Written(t)
        \/ Silence(t) \/ TimesOut(t)
     /\ UNCHANGED managerVars

\* Threads are scheduled.
FairSpec == Spec /\ \A t \in Threads : WF_vars(Own(t))

-----------------------------------------------------------------------------
(***************************************************************************)
(* Properties.                                                             *)
(***************************************************************************)

\* Nothing is done at SoRX that no request asked to apply, whatever the mode, the
\* operation and the place of the input in its body, and however late SoRX does
\* it (submit_manager, create_run, input_mode_from_body).
OnlyAskedForIsDone == \A a \in Actions : times[a] > 0 => a \in asked

\* A stored run that was to be applied has been: each of its actions was carried
\* out by SoRX, or answered with a redirect or a page that is not SoRX's, empty or
\* cut short, which the client takes for success (run_loaded_pack,
\* parse_http_json_response, push_run).
StoredRunsDidAll ==
  \A n \in 1..Len(history) :
    \A k \in 1..Len(ToApply(history[n])) :
      LET a == ToApply(history[n])[k] IN
      a.operation = "invoke" => times[a] > 0 \/ a \in hollow

\* However often runs of an input are started, time out and are started again,
\* while SoRX still does what nobody waits for: the key of the action goes with
\* each request and keeps it from being done twice (apply_pack_action, request).
NothingTwice == \A a \in Actions : times[a] <= 1

\* A run is found by its id as long as no more than Cap - 1 runs were stored
\* after it and none of them has the same id; then the newest of that id is
\* found (push_run, find_run).
RunsAreFound ==
  \A id \in RunIds :
    LET kept == {n \in 1..Len(history) : n <= Cap /\ history[n].id = id} IN
    IF kept = {} THEN FindRun(id) = None
    ELSE \E n \in kept : FindRun(id) = history[n] /\ \A k \in kept : n <= k

\* Every run ends, and its thread answers or closes the connection, whether SoRX
\* answers or not; the only thing that can hold it for ever is an answer that keeps
\* coming and has no end, for the ten seconds are those of one read (request).
RequestsAreAnswered ==
  \A t \in Threads :
    \/ []<>(job[t] = None \/ ~serving)
    \/ <>[](phase[t] = "wait") /\ []<>(~silent[t])
=============================================================================
