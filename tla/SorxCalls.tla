----------------------------- MODULE SorxCalls ------------------------------
(***************************************************************************)
(* HttpSorxClient and the capability client over it: how an action that a  *)
(* run applies becomes one HTTP exchange with SoRX, and what the run is    *)
(* told of it.  Each thread has a call under way or none.  SoRX may die,   *)
(* be slow or lose its connection at any point of the exchange, and it may *)
(* do what it was asked long after the client has stopped waiting.         *)
(***************************************************************************)
EXTENDS Naturals, FiniteSets

CONSTANTS
  Threads,     \* threads that call SoRX
  Actions,     \* the proposed actions of all inputs
  Names,       \* ids of business actions and paths of generated routes
  Versions,    \* versions of business actions
  Hashes,      \* contract hashes
  Keys,        \* idempotency keys
  Codes,       \* error codes that SoRX answers with
  Replies,     \* the answers of SoRX, or of what stands between
  None         \* the absent value

\* A ProposedAction.
Action == [target : {"business_action", "generated_route"},
           operation : {"dry_run", "invoke"}, name : Names,
           version : Versions, hash : Hashes, key : Keys]

\* What is sent to SoRX.
Sent == [path : {"dry-run", "invoke", "route"}, name : Names,
         version : Versions \cup {None}, hash : Hashes \cup {None},
         key : Keys \cup {None}]

\* An answer; a status line without a number has status None.
Reply == [status : {200, 302, 409, 503, None},
          body : {"result", "error", "text", "empty"}, code : Codes]

ASSUME SorxAssumption ==
  /\ Actions \subseteq Action
  /\ Replies \subseteq Reply
  /\ None \notin Versions \cup Hashes \cup Keys \cup Sent \cup Reply \cup Actions
  /\ Codes \cap {"none", "ok"} = {}
  \* The keys that decisions carry tell actions apart.
  /\ \A a, b \in Actions : a.key = b.key => a = b

VARIABLES
  url,        \* how the base url reads: "http", "https" or "no_host"
  phase,      \* of each thread's call
  action,     \* the action that it is for, None if there is no call
  reply,      \* the answer of SoRX, None while there is none
  arrived,    \* how much of it has come: 1 is a part of the head, 2 the head,
              \* 3 a part of the body, 4 all of that
  silent,     \* whether the ten seconds for the next byte are over
  outcome,    \* what the last call of each thread returned
  late,       \* SoRX: actions received whose clients no longer wait
  keys,       \* SoRX: the idempotency keys it has seen
  times,      \* observation: how often each action was carried out
  hollow      \* observation: actions with an answer that looks like success and
              \* is not that of SoRX

callVars == <<url, phase, action, reply, arrived, silent, outcome>>
sorxVars == <<late, keys, times, hollow>>
callsVars == <<callVars, sorxVars>>

ClientErrors == {"unsupported_sorx_url", "invalid_sorx_url", "io_error",
                 "sorx_connect_failed", "invalid_sorx_response", "json_error",
                 "sorx_http_error"}

CallsTypeOK ==
  /\ url \in {"http", "https", "no_host"}
  /\ phase \in [Threads -> {"idle", "connect", "write", "wait"}]
  /\ action \in [Threads -> Actions \cup {None}]
  /\ reply \in [Threads -> Reply \cup {None}]
  /\ arrived \in [Threads -> 0..4]
  /\ silent \in [Threads -> BOOLEAN]
  /\ outcome \in [Threads -> {"none", "ok"} \cup ClientErrors \cup Codes]
  /\ late \subseteq Actions
  /\ keys \subseteq Keys
  /\ times \in [Actions -> Nat]
  /\ hollow \subseteq Actions

CallsInit ==
  /\ url \in {"http", "https", "no_host"}
  /\ phase = [t \in Threads |-> "idle"]
  /\ action = [t \in Threads |-> None]
  /\ reply = [t \in Threads |-> None]
  /\ arrived = [t \in Threads |-> 0]
  /\ silent = [t \in Threads |-> FALSE]
  /\ outcome = [t \in Threads |-> "none"]
  /\ late = {}
  /\ keys = {}
  /\ times = [a \in Actions |-> 0]
  /\ hollow = {}

-----------------------------------------------------------------------------
(***************************************************************************)
(* From an action to a request.                                            *)
(***************************************************************************)

\* Mutant: the key is not handed on by the capability client.
CapabilityRequestUnkeyed(a) ==
  [path |-> "invoke", name |-> a.name, version |-> a.version, hash |-> a.hash,
   key |-> None]

\* capability_business_action_call.  The version and the contract hash are those
\* of the action, which always has them; the capability that the pack declares
\* has no say.
CapabilityRequest(a) ==
  [path |-> "invoke", name |-> a.name, version |-> a.version, hash |-> a.hash,
   key |-> a.key]

\* apply_pack_action; None when nothing is sent.
RequestOf(a) ==
  CASE a.operation = "dry_run" /\ a.target = "business_action" ->
         [path |-> "dry-run", name |-> a.name, version |-> a.version,
          hash |-> a.hash, key |-> a.key]
    [] a.operation = "dry_run" /\ a.target = "generated_route" -> None
    [] a.operation = "invoke" /\ a.target = "business_action" ->
         CapabilityRequest(a)
    [] a.operation = "invoke" /\ a.target = "generated_route" ->
         [path |-> "route", name |-> a.name, version |-> None, hash |-> None,
          key |-> a.key]

\* ParsedHttpUrl::parse
UrlError == IF url = "https" THEN "unsupported_sorx_url" ELSE "invalid_sorx_url"

-----------------------------------------------------------------------------
(***************************************************************************)
(* From an answer to a result.                                             *)
(***************************************************************************)

\* The answer of SoRX to what it carried out.  A redirect, a page or nothing at
\* all comes from what stands between.
Genuine(r) == r.status = 200 /\ r.body = "result"

\* Mutant: a status that cannot be read counts as success.
StatusOrOk(r) == IF r.status = None THEN 200 ELSE r.status

\* A status that cannot be read counts as 500.
Status(r) == IF r.status = None THEN 500 ELSE r.status

\* parse_http_json_response of what arrived before the connection was closed.
\* The body is parsed before the status is looked at, and one that is empty, or
\* that did not come, is an empty object.
Parse(r, n) ==
  IF r = None \/ n < 2 THEN "invalid_sorx_response"
  ELSE IF n = 3 \/ (n = 4 /\ r.body = "text") THEN "json_error"
  ELSE IF Status(r) < 400 THEN "ok"
  ELSE IF n = 4 /\ r.body = "error" THEN r.code
  ELSE "sorx_http_error"

-----------------------------------------------------------------------------
(***************************************************************************)
(* HttpSorxClient::request                                                 *)
(***************************************************************************)
Return(t, result) ==
  /\ phase' = [phase EXCEPT ![t] = "idle"]
  /\ action' = [action EXCEPT ![t] = None]
  /\ reply' = [reply EXCEPT ![t] = None]
  /\ arrived' = [arrived EXCEPT ![t] = 0]
  /\ silent' = [silent EXCEPT ![t] = FALSE]
  /\ outcome' = [outcome EXCEPT ![t] = result]

\* apply_pack_action is called.
StartCall(t, a) ==
  /\ phase[t] = "idle"
  /\ IF RequestOf(a) = None
     THEN Return(t, "ok")
     ELSE IF url # "http" THEN Return(t, UrlError)
     ELSE /\ phase' = [phase EXCEPT ![t] = "connect"]
          /\ action' = [action EXCEPT ![t] = a]
          /\ UNCHANGED <<reply, arrived, silent, outcome>>
  /\ UNCHANGED <<url, sorxVars>>

ConnectFails(t) ==
  /\ phase[t] = "connect"
  /\ Return(t, "sorx_connect_failed")
  /\ UNCHANGED <<url, sorxVars>>

Connected(t) ==
  /\ phase[t] = "connect"
  /\ phase' = [phase EXCEPT ![t] = "write"]
  /\ UNCHANGED <<url, action, reply, arrived, silent, outcome, sorxVars>>

\* The connection breaks before SoRX has the whole request.
WriteFails(t) ==
  /\ phase[t] = "write"
  /\ Return(t, "io_error")
  /\ UNCHANGED <<url, sorxVars>>

Written(t) ==
  /\ phase[t] = "write"
  /\ phase' = [phase EXCEPT ![t] = "wait"]
  /\ UNCHANGED <<url, action, reply, arrived, silent, outcome, sorxVars>>

\* read_to_string reads until the connection is closed; set_read_timeout is for
\* each of its reads.
HearsByte(t) ==
  /\ phase[t] = "wait"
  /\ reply[t] # None
  /\ silent' = [silent EXCEPT ![t] = FALSE]
  /\ UNCHANGED <<url, phase, action, reply, outcome, sorxVars>>

\* The next part of the answer comes.
Arrive(t) ==
  /\ HearsByte(t)
  /\ arrived[t] < IF reply[t].body = "empty" THEN 2 ELSE 4
  /\ arrived' = [arrived EXCEPT ![t] = @ + 1]

\* More of the same part comes, a byte at a time it may be.
Trickle(t) ==
  /\ HearsByte(t)
  /\ silent[t]
  /\ arrived[t] \in {1, 3}
  /\ UNCHANGED arrived

\* Time goes by without a byte.
Silence(t) ==
  /\ phase[t] = "wait"
  /\ ~silent[t]
  /\ silent' = [silent EXCEPT ![t] = TRUE]
  /\ UNCHANGED <<url, phase, action, reply, arrived, outcome, sorxVars>>

\* SoRX may still do what it has been sent.
Leaves(t, result) ==
  /\ phase[t] = "wait"
  /\ Return(t, result)
  /\ late' = IF reply[t] = None THEN late \cup {action[t]} ELSE late
  /\ UNCHANGED <<url, keys, times, hollow>>

\* The connection is closed, by SoRX or on the way, early or in time.
Closed(t) == Leaves(t, Parse(reply[t], arrived[t]))

\* The connection is reset: what has arrived is dropped, all of the answer though
\* it may be.
Reset(t) == Leaves(t, "io_error")

\* Mutant: no read timeout is set.
TimesOutNever(t) == FALSE /\ UNCHANGED callsVars

\* Ten seconds without a byte and without the end of the connection.
TimesOut(t) == silent[t] /\ Leaves(t, "io_error")

-----------------------------------------------------------------------------
(***************************************************************************)
(* SoRX.  A key that it has seen before is answered and not acted upon.    *)
(***************************************************************************)
CarryOut(a) ==
  LET r == RequestOf(a) IN
  IF r.path = "dry-run" \/ (r.key # None /\ r.key \in keys)
  THEN UNCHANGED <<keys, times>>
  ELSE /\ keys' = keys \cup ({r.key} \ {None})
       /\ times' = [times EXCEPT ![a] = @ + 1]

\* What is carried out is answered as such; any other answer may come before the
\* effect, after it or without it.
Answers(t, r) ==
  /\ phase[t] = "wait"
  /\ reply[t] = None
  /\ reply' = [reply EXCEPT ![t] = r]
  /\ hollow' = IF r.status \in {200, 302} /\ ~Genuine(r)
               THEN hollow \cup {action[t]} ELSE hollow
  /\ \/ CarryOut(action[t])
     \/ ~Genuine(r) /\ UNCHANGED <<keys, times>>
  /\ UNCHANGED <<url, phase, action, arrived, silent, outcome, late>>

\* What nobody waits for is carried out, or not.
HandlesLate(a) ==
  /\ a \in late
  /\ late' = late \ {a}
  /\ \/ CarryOut(a)
     \/ UNCHANGED <<keys, times>>
  /\ UNCHANGED <<callVars, hollow>>

ClientStep(t) ==
  ConnectFails(t) \/ Connected(t) \/ WriteFails(t) \/ Written(t) \/ Arrive(t)
    \/ Trickle(t) \/ Silence(t) \/ Closed(t) \/ Reset(t) \/ TimesOut(t)

SorxStep ==
  \/ \E t \in Threads, r \in Replies : Answers(t, r)
  \/ \E a \in Actions : HandlesLate(a)
=============================================================================
