---------------------------- MODULE MCManagerRuns ----------------------------
(***************************************************************************)
(* An input of two actions, one that is refused and a text that is no JSON,*)
(* in bodies whose fields agree, disagree or are missing.                  *)
(***************************************************************************)
EXTENDS ManagerRuns

CONSTANTS pay, case, v1, h1, k1, k2, good, refused, broken, whole, t1, t2, r1, r2

Pay == [target |-> "business_action", operation |-> "invoke", name |-> pay,
        version |-> v1, hash |-> h1, key |-> k1]
Case == [target |-> "generated_route", operation |-> "invoke", name |-> case,
         version |-> v1, hash |-> h1, key |-> k2]

MCActions == {Pay, Case}

MCPlan == (good :> <<Pay, Case>>) @@ (refused :> None) @@ (broken :> None)
            @@ (whole :> None)

MCReplies ==
  {[status |-> 200, body |-> "result", code |-> "not_found"],
   [status |-> 200, body |-> "empty", code |-> "not_found"],
   [status |-> None, body |-> "error", code |-> "not_found"]}

Empty == [input |-> None, json |-> None, payload |-> None, whole |-> whole,
          mode |-> None, operation |-> None]

MCBodies ==
  {[Empty EXCEPT !.input = good, !.mode = "apply", !.operation = "dry_run"],
   [Empty EXCEPT !.payload = good, !.operation = "apply"],
   [Empty EXCEPT !.json = good, !.mode = "number"],
   [Empty EXCEPT !.input = refused, !.mode = "apply"],
   [Empty EXCEPT !.json = broken, !.input = broken]}
=============================================================================
