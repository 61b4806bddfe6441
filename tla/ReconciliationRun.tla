-------------------------- MODULE ReconciliationRun --------------------------
(***************************************************************************)
(* The runs of operational packs: run_loaded_pack.  Each bank transaction  *)
(* of the input is decided on; the actions that a decision proposes are    *)
(* applied in SoRX or skipped, one at a time, and each step is put in the  *)
(* audit trail.  Any number of runs, of any deployments of the daemon, go  *)
(* on at a time and append to the same file.  The first error ends a run,  *)
(* and the process may be killed at any step.  A pack for bulk_ingest has  *)
(* its records created between two events, with none of its own.           *)
(***************************************************************************)
EXTENDS Naturals, Sequences, FiniteSets

CONSTANTS
  Runs,             \* the runs, each of which is of one input
  TransactionIds,   \* ids of bank transactions
  Inputs,           \* what callers submit
  None              \* the absent value

VARIABLES
  pc,        \* where each run is: an event that it writes, or a step
  input,     \* the input of each run
  dryRun,    \* whether it only skips
  at,        \* the decision and the action that each run is at
  applied,   \* applied_actions
  skipped,   \* skipped_actions
  report,    \* what a run that succeeded returns
  half,      \* whether the text of the event is written and its newline is not
  tail,      \* the runs with text on the last, unended line of the file
  broken,    \* the runs with text on a line that is not one whole event
  made,      \* SoRX: the actions applied, each with its idempotency key
  ingested,  \* SoRX: the records of each bulk ingest that were created
  hollow,    \* observation: what of each run went well without SoRX
  trail,     \* observation: the events that each run wrote, in order
  carried    \* observation: the actions of each run that SoRX carried out

runVars == <<pc, input, dryRun, at, applied, skipped, report, half>>
fileVars == <<tail, broken, trail>>
sorxVars == <<made, ingested, hollow, carried>>
vars == <<runVars, fileVars, sorxVars>>

-----------------------------------------------------------------------------
(***************************************************************************)
(* Decisions.  references: which of the two known tenants' references the  *)
(* text of the transaction contains; due: its amount is that of the rent   *)
(* due, within the tolerance.                                              *)
(***************************************************************************)
References == {"TEN-001", "TEN-002"}

Transaction == [id : TransactionIds, references : SUBSET References,
                due : BOOLEAN]

\* The pack that is run, and its input.  shape: what detect_input finds, or that
\* run_bulk_ingest finds no error in the batch; an input with a field that looks
\* like a secret is "secret".  records: the operations planned for the batch.
Input == [capability : {"bulk_ingest", "reconciliation"},
          shape : {"transactions", "batch", "unknown", "secret"},
          transactions : Seq(Transaction), records : Nat]

\* What a caller is told of a run that succeeded.
Report == [applied : Nat, skipped : Nat]

ASSUME InputAssumption ==
  /\ Inputs \subseteq Input
  /\ None \notin Inputs \cup Report

\* decide_transaction
Outcome(t) ==
  IF "TEN-001" \in t.references /\ t.due THEN "matched"
  ELSE IF "TEN-002" \in t.references THEN "partial_payment"
  ELSE "unmatched"

Confidence(outcome) ==
  CASE outcome = "matched" -> 95
    [] outcome = "partial_payment" -> 82
    [] outcome = "unmatched" -> 30

RequiresApproval(outcome) == outcome # "matched"

ActionIds == {"record_rent_payment", "reconciliation_case.create"}

ProposedActions(outcome) ==
  CASE outcome = "matched" -> <<"record_rent_payment">>
    [] outcome = "partial_payment" ->
         <<"record_rent_payment", "reconciliation_case.create">>
    [] outcome = "unmatched" -> <<"reconciliation_case.create">>

\* Mutant: the confidence alone decides.
AutoApplyByConfidence(outcome) == Confidence(outcome) >= 80

\* decide: PolicyOutcome::AutoApply; all else requires approval.
AutoApply(outcome) ==
  /\ ~RequiresApproval(outcome)
  /\ outcome = "matched"
  /\ Confidence(outcome) >= 85

TransactionAt(r, i) == input[r].transactions[i]

ActionsAt(r, i) == ProposedActions(Outcome(TransactionAt(r, i)))

Key == TransactionIds \X ActionIds

\* Mutant: the key is made for the run.
IdempotencyKeyOfRun(r, pos) ==
  <<r, TransactionAt(r, pos[1]).id, ActionsAt(r, pos[1])[pos[2]]>>

IdempotencyKey(r, pos) ==
  <<TransactionAt(r, pos[1]).id, ActionsAt(r, pos[1])[pos[2]]>>

-----------------------------------------------------------------------------
Events == {"run.started", "input.accepted", "decision.created",
           "action.applied", "action.skipped", "run.completed"}

Ends == {"returned", "failed", "killed"}

Event == [event : Events, at : Nat \X Nat]

TypeOK ==
  /\ pc \in [Runs -> {"idle", "bulk_ingest", "apply"} \cup Events \cup Ends]
  /\ input \in [Runs -> Inputs \cup {None}]
  /\ dryRun \in [Runs -> BOOLEAN]
  /\ at \in [Runs -> Nat \X Nat]
  /\ applied \in [Runs -> Nat]
  /\ skipped \in [Runs -> Nat]
  /\ report \in [Runs -> Report \cup {None}]
  /\ half \in [Runs -> BOOLEAN]
  /\ tail \subseteq Runs
  /\ broken \subseteq Runs
  /\ made \subseteq [key : Key, run : Runs, at : Nat \X Nat]
  /\ trail \in [Runs -> Seq(Event)]
  /\ ingested \in [Runs -> SUBSET Nat]
  /\ hollow \in [Runs -> SUBSET (Nat \X Nat)]
  /\ carried \in [Runs -> SUBSET (Nat \X Nat)]

Init ==
  /\ pc = [r \in Runs |-> "idle"]
  /\ input = [r \in Runs |-> None]
  /\ dryRun = [r \in Runs |-> FALSE]
  /\ at = [r \in Runs |-> <<0, 0>>]
  /\ applied = [r \in Runs |-> 0]
  /\ skipped = [r \in Runs |-> 0]
  /\ report = [r \in Runs |-> None]
  /\ half = [r \in Runs |-> FALSE]
  /\ tail = {}
  /\ broken = {}
  /\ made = {}
  /\ trail = [r \in Runs |-> <<>>]
  /\ ingested = [r \in Runs |-> {}]
  /\ hollow = [r \in Runs |-> {}]
  /\ carried = [r \in Runs |-> {}]

-----------------------------------------------------------------------------
\* The run goes on to write an event, or to a call.
Goto(r, stage, pos) ==
  /\ pc' = [pc EXCEPT ![r] = stage]
  /\ at' = [at EXCEPT ![r] = pos]

\* An error ends the run; its counts and decisions are lost.
Fail(r) ==
  /\ pc' = [pc EXCEPT ![r] = "failed"]
  /\ half' = [half EXCEPT ![r] = FALSE]
  /\ UNCHANGED <<input, dryRun, at, applied, skipped, report>>

Begin(r, in, dry) ==
  /\ pc[r] = "idle"
  /\ input' = [input EXCEPT ![r] = in]
  /\ dryRun' = [dryRun EXCEPT ![r] = dry]
  /\ Goto(r, IF in.shape = "secret" THEN "failed" ELSE "run.started", <<0, 0>>)
  /\ UNCHANGED <<applied, skipped, report, half, fileVars, sorxVars>>

(***************************************************************************)
(* write_event.  writeln! to a File is one write for the text and one for  *)
(* the newline.                                                            *)
(***************************************************************************)
Text(r) ==
  /\ tail' = tail \cup {r}
  /\ broken' = IF tail = {} THEN broken ELSE broken \cup tail \cup {r}

WriteText(r) ==
  /\ pc[r] \in Events
  /\ ~half[r]
  /\ half' = [half EXCEPT ![r] = TRUE]
  /\ Text(r)
  /\ trail' = [trail EXCEPT ![r] = Append(@, [event |-> pc[r], at |-> at[r]])]
  /\ UNCHANGED <<pc, input, dryRun, at, applied, skipped, report, sorxVars>>

EndLine(r, event) ==
  /\ pc[r] = event
  /\ half[r]
  /\ half' = [half EXCEPT ![r] = FALSE]
  /\ tail' = {}
  /\ UNCHANGED <<broken, trail>>

\* The file cannot be opened, or a disk that is full takes a part of the text
\* or no newline.
WriteFails(r) ==
  /\ pc[r] \in Events
  /\ \/ UNCHANGED <<tail, broken>>
     \/ /\ ~half[r]
        /\ tail' = tail \cup {r}
        /\ broken' = broken \cup tail \cup {r}
  /\ Fail(r)
  /\ UNCHANGED <<trail, sorxVars>>

-----------------------------------------------------------------------------
(***************************************************************************)
(* run_loaded_pack, from one event to the next.                            *)
(***************************************************************************)
\* The i-th decision, or the end of them.
GotoDecision(r, i) ==
  /\ IF i <= Len(input[r].transactions)
     THEN Goto(r, "decision.created", <<i, 0>>)
     ELSE Goto(r, "run.completed", <<0, 0>>)
  /\ UNCHANGED skipped

\* Mutant: a decision has one action.
GotoActionFirst(r, i, j) ==
  IF j > 1 THEN GotoDecision(r, i + 1)
  ELSE IF dryRun[r] \/ ~AutoApply(Outcome(TransactionAt(r, i)))
  THEN /\ Goto(r, "action.skipped", <<i, j>>)
       /\ skipped' = [skipped EXCEPT ![r] = @ + 1]
  ELSE Goto(r, "apply", <<i, j>>) /\ UNCHANGED skipped

\* Mutant: what a dry run skips is not counted.
GotoActionUncounted(r, i, j) ==
  IF j > Len(ActionsAt(r, i)) THEN GotoDecision(r, i + 1)
  ELSE IF dryRun[r] \/ ~AutoApply(Outcome(TransactionAt(r, i)))
  THEN /\ Goto(r, "action.skipped", <<i, j>>)
       /\ skipped' = [skipped EXCEPT ![r] = IF dryRun[r] THEN @ ELSE @ + 1]
  ELSE Goto(r, "apply", <<i, j>>) /\ UNCHANGED skipped

\* The j-th action of the i-th decision, or the next decision.
GotoAction(r, i, j) ==
  IF j > Len(ActionsAt(r, i)) THEN GotoDecision(r, i + 1)
  ELSE IF dryRun[r] \/ ~AutoApply(Outcome(TransactionAt(r, i)))
  THEN /\ Goto(r, "action.skipped", <<i, j>>)
       /\ skipped' = [skipped EXCEPT ![r] = @ + 1]
  ELSE Goto(r, "apply", <<i, j>>) /\ UNCHANGED skipped

Started(r) ==
  /\ EndLine(r, "run.started")
  /\ IF input[r].capability = "bulk_ingest"
     THEN Goto(r, "bulk_ingest", <<0, 0>>)
     ELSE IF input[r].shape = "transactions"
     THEN Goto(r, "input.accepted", <<0, 0>>)
     ELSE Goto(r, "failed", <<0, 0>>)
  /\ UNCHANGED <<input, dryRun, applied, skipped, report, sorxVars>>

Accepted(r) ==
  /\ EndLine(r, "input.accepted")
  /\ GotoDecision(r, 1)
  /\ UNCHANGED <<input, dryRun, applied, report, sorxVars>>

Decided(r) ==
  /\ EndLine(r, "decision.created")
  /\ GotoAction(r, at[r][1], 1)
  /\ UNCHANGED <<input, dryRun, applied, report, sorxVars>>

Noted(r) ==
  /\ EndLine(r, "action.applied") \/ EndLine(r, "action.skipped")
  /\ GotoAction(r, at[r][1], at[r][2] + 1)
  /\ UNCHANGED <<input, dryRun, applied, report, sorxVars>>

Completed(r) ==
  /\ EndLine(r, "run.completed")
  /\ pc' = [pc EXCEPT ![r] = "returned"]
  /\ report' = [report EXCEPT ![r] = [applied |-> applied[r],
                                      skipped |-> skipped[r]]]
  /\ UNCHANGED <<input, dryRun, at, applied, skipped, sorxVars>>

-----------------------------------------------------------------------------
(***************************************************************************)
(* apply_pack_action.  SoRX applies nothing under a key that it has seen.  *)
(***************************************************************************)
SorxApplies(r) ==
  LET key == IdempotencyKey(r, at[r]) IN
  /\ made' = IF \E x \in made : x.key = key THEN made
             ELSE made \cup {[key |-> key, run |-> r, at |-> at[r]]}
  /\ carried' = [carried EXCEPT ![r] = @ \cup {at[r]}]

\* Mutant: only the report tells of what was applied.
ApplySucceedsUnaudited(r) ==
  /\ pc[r] = "apply"
  /\ SorxApplies(r)
  /\ applied' = [applied EXCEPT ![r] = @ + 1]
  /\ GotoAction(r, at[r][1], at[r][2] + 1)
  /\ UNCHANGED <<input, dryRun, report, half, ingested, hollow, fileVars>>

ApplySucceeds(r) ==
  /\ pc[r] = "apply"
  /\ SorxApplies(r)
  /\ applied' = [applied EXCEPT ![r] = @ + 1]
  /\ Goto(r, "action.applied", at[r])
  /\ UNCHANGED <<input, dryRun, skipped, report, half, ingested, hollow,
                 fileVars>>

\* A redirect or an empty page is a success of the call, and SoRX has not been
\* asked for anything.
ApplyIsHollow(r) ==
  /\ pc[r] = "apply"
  /\ hollow' = [hollow EXCEPT ![r] = @ \cup {at[r]}]
  /\ applied' = [applied EXCEPT ![r] = @ + 1]
  /\ Goto(r, "action.applied", at[r])
  /\ UNCHANGED <<input, dryRun, skipped, report, half, made, ingested, carried,
                 fileVars>>

\* Mutant: a call that fails is taken for one that was made.
ApplyFailsUnseen(r) ==
  /\ pc[r] = "apply"
  /\ (SorxApplies(r) /\ UNCHANGED <<ingested, hollow>>) \/ UNCHANGED sorxVars
  /\ applied' = [applied EXCEPT ![r] = @ + 1]
  /\ Goto(r, "action.applied", at[r])
  /\ UNCHANGED <<input, dryRun, skipped, report, half, fileVars>>

\* SoRX refuses, cannot be reached, or applies the action and answers late.
ApplyFails(r) ==
  /\ pc[r] = "apply"
  /\ (SorxApplies(r) /\ UNCHANGED <<ingested, hollow>>) \/ UNCHANGED sorxVars
  /\ Fail(r)
  /\ UNCHANGED fileVars

-----------------------------------------------------------------------------
(***************************************************************************)
(* run_bulk_ingest, as the run sees it: one call after the other, and no   *)
(* event.  What it sends, in which order and under which keys, is the      *)
(* module BulkIngest.  In hollow, the k-th record is at <<0, k>>.          *)
(***************************************************************************)
\* Mutant: only the decisions of a reconciliation look at the flag.
ExecutesDryRun(r) ==
  pc[r] = "bulk_ingest" /\ input[r].shape = "batch"

Executes(r) ==
  pc[r] = "bulk_ingest" /\ input[r].shape = "batch" /\ ~dryRun[r]

\* The report, whatever it says, is followed by run.completed.
ReportBulk(r) ==
  /\ Goto(r, "run.completed", <<0, 0>>)
  /\ UNCHANGED <<input, dryRun, applied, report, half, fileVars, made, hollow,
                 carried>>

\* parse_bindings is the only error that is not a report.
BulkIsRefused(r) ==
  /\ pc[r] = "bulk_ingest"
  /\ applied[r] = 0
  /\ Goto(r, "failed", <<0, 0>>)
  /\ UNCHANGED <<input, dryRun, applied, skipped, report, half, fileVars,
                 sorxVars>>

\* validation_failed and planned: a dry run counts its plan as skipped, be it
\* valid or what there is of it.
BulkIsPlanned(r) ==
  /\ pc[r] = "bulk_ingest"
  /\ ~Executes(r)
  /\ \E n \in 0..input[r].records :
       /\ input[r].shape = "batch" => n = input[r].records
       /\ skipped' = [skipped EXCEPT ![r] = IF dryRun[r] THEN n ELSE 0]
  /\ ReportBulk(r)
  /\ UNCHANGED ingested

SorxIngests(r) ==
  ingested' = [ingested EXCEPT ![r] = @ \cup {applied[r] + 1}]

\* An operation that succeeds, be it because SoRX created the record.
IngestSucceeds(r) ==
  /\ Executes(r)
  /\ applied[r] < input[r].records
  /\ applied' = [applied EXCEPT ![r] = @ + 1]
  /\ \/ SorxIngests(r) /\ UNCHANGED hollow
     \/ /\ hollow' = [hollow EXCEPT ![r] = @ \cup {<<0, applied[r] + 1>>}]
        /\ UNCHANGED ingested
  /\ UNCHANGED <<pc, input, dryRun, at, skipped, report, half, fileVars, made,
                 carried>>

\* Mutant: the operation is taken for completed before its call is made.
IngestFailsCounted(r) ==
  /\ Executes(r)
  /\ applied[r] < input[r].records
  /\ SorxIngests(r) \/ UNCHANGED ingested
  /\ applied' = [applied EXCEPT ![r] = @ + 1]
  /\ Goto(r, "run.completed", <<0, 0>>)
  /\ UNCHANGED <<input, dryRun, skipped, report, half, fileVars, made, hollow,
                 carried>>

\* partial_failure.
IngestFails(r) ==
  /\ Executes(r)
  /\ applied[r] < input[r].records
  /\ SorxIngests(r) \/ UNCHANGED ingested
  /\ ReportBulk(r)
  /\ UNCHANGED skipped

IngestEnds(r) ==
  /\ Executes(r)
  /\ applied[r] = input[r].records
  /\ ReportBulk(r)
  /\ UNCHANGED <<skipped, ingested>>

-----------------------------------------------------------------------------

\* The process is killed, and with it all runs that go on.
Kill ==
  /\ pc' = [r \in Runs |-> IF pc[r] \in {"idle"} \cup Ends THEN pc[r]
                           ELSE "killed"]
  /\ half' = [r \in Runs |-> FALSE]
  /\ UNCHANGED <<input, dryRun, at, applied, skipped, report, fileVars,
                 sorxVars>>

Step(r) ==
  \/ WriteText(r) \/ WriteFails(r)
  \/ Started(r) \/ Accepted(r) \/ Decided(r) \/ Noted(r) \/ Completed(r)
  \/ ApplySucceeds(r) \/ ApplyIsHollow(r) \/ ApplyFails(r)
  \/ BulkIsRefused(r) \/ BulkIsPlanned(r)
  \/ IngestSucceeds(r) \/ IngestFails(r) \/ IngestEnds(r)

Next ==
  \/ \E r \in Runs :
       \/ \E in \in Inputs, dry \in BOOLEAN : Begin(r, in, dry)
       \/ Step(r)
  \/ Kill

Spec == Init /\ [][Next]_vars

-----------------------------------------------------------------------------
(***************************************************************************)
(* Properties.                                                             *)
(***************************************************************************)
Wrote(r, event, pos) ==
  \E k \in DOMAIN trail[r] : trail[r][k] = [event |-> event, at |-> pos]

\* The trail claims nothing that SoRX was not made to do, except for what a
\* redirect or an empty page told the run.
AuditedWereMade ==
  \A r \in Runs : \A k \in DOMAIN trail[r] :
    trail[r][k].event = "action.applied" =>
      \/ \E x \in made : x.key = IdempotencyKey(r, trail[r][k].at)
      \/ trail[r][k].at \in hollow[r]

Reconciles(r) == input[r] # None /\ input[r].capability = "reconciliation"

\* What SoRX did for a reconciliation is in the trail, behind the decision that
\* led to it ("Decision created before SORX mutation"); only the action at which
\* a run stopped may be missing, and none is once a run has returned.  (A bulk
\* ingest has its records created without a word in the trail.)
EffectsAreInTrail ==
  \A r \in Runs : Reconciles(r) => \A pos \in carried[r] :
    /\ Wrote(r, "decision.created", <<pos[1], 0>>)
    /\ Wrote(r, "action.applied", pos) \/ (pos = at[r] /\ pc[r] # "returned")

\* The trail of a reconciliation that says it was completed accounts for every
\* action of every decision once: it was applied or it was skipped.
CompletedTrailIsWhole ==
  \A r \in Runs :
    Wrote(r, "run.completed", <<0, 0>>) /\ Reconciles(r)
    => \A i \in DOMAIN input[r].transactions :
         \A j \in DOMAIN ActionsAt(r, i) :
           Cardinality({k \in DOMAIN trail[r] :
             /\ trail[r][k].at = <<i, j>>
             /\ trail[r][k].event \in {"action.applied", "action.skipped"}}) = 1

CountOf(r, event) ==
  Cardinality({k \in DOMAIN trail[r] : trail[r][k].event = event})

\* The report of a reconciliation and its trail tell the same.
ReportMatchesTrail ==
  \A r \in Runs : report[r] # None /\ Reconciles(r) =>
    /\ report[r].applied = CountOf(r, "action.applied")
    /\ report[r].skipped = CountOf(r, "action.skipped")

\* The report of a bulk ingest is all that is told of it, and tells it all: the
\* first operations, as many as it counts, were made (or were said to be), and
\* of the others at most the one that failed; those of a dry run were skipped.
BulkReportIsWhole ==
  \A r \in Runs : report[r] # None /\ ~Reconciles(r) =>
    LET n == report[r].applied IN
    /\ \A k \in 1..n : k \in ingested[r] \/ <<0, k>> \in hollow[r]
    /\ \A k \in ingested[r] : k <= n \/ (k = n + 1 /\ n < input[r].records)
    /\ input[r].shape = "batch" =>
         report[r].skipped = IF dryRun[r] THEN input[r].records ELSE 0

\* What is told of a run that ended well is complete: the trail of a
\* reconciliation by itself, its report next to the trail, and the report of a
\* bulk ingest next to what SoRX has.
TrailIsWhole ==
  CompletedTrailIsWhole /\ ReportMatchesTrail /\ BulkReportIsWhole

\* SoRX is made to do nothing that requires approval, and nothing by a dry run.
OnlyApprovedAreMade ==
  /\ \A x \in made :
       ~RequiresApproval(Outcome(TransactionAt(x.run, x.at[1])))
  /\ \A r \in Runs : dryRun[r] => carried[r] = {} /\ ingested[r] = {}

\* However often a transaction is submitted, at the same time or again after a
\* failure, its payment is recorded once.
AppliedOnce ==
  \A x, y \in made :
    /\ TransactionAt(x.run, x.at[1]).id = TransactionAt(y.run, y.at[1]).id
    /\ ActionsAt(x.run, x.at[1])[x.at[2]] = ActionsAt(y.run, y.at[1])[y.at[2]]
    => x = y

\* As long as no run has failed or been killed, every line of audit.jsonl is
\* one event, whatever runs write to it at a time.
TrailIsLines ==
  (\A r \in Runs : pc[r] \notin {"failed", "killed"}) => broken = {}
=============================================================================
