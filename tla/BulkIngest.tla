----------------------------- MODULE BulkIngest -----------------------------
(***************************************************************************)
(* The bulk_ingest runs of operational packs.  A batch of records is       *)
(* validated, its creations are sorted by the references between records,  *)
(* and SoRX is called once per record, in that order, under an idempotency *)
(* key; the first call that fails ends the run without a rollback.  A call *)
(* that is answered by a redirect or an empty page has not failed, though  *)
(* nothing was created.  The caller sends the batch, or what is left of    *)
(* it, again.  Several runs go on at a time, and the process may be killed *)
(* at any step.                                                            *)
(***************************************************************************)
EXTENDS Naturals, Sequences

CONSTANTS
  Collections,    \* collections of records, numbered in the order of their names
  Ids,            \* what the primary id of a record, or a reference, can be
  BatchIds,       \* batch ids that callers choose
  Batches,        \* the batches that callers send
  Runs,           \* the runs that may go on at a time
  MaxRuns,        \* bound: batches sent in a behaviour
  MaxMisled,      \* bound: calls that someone else answers in a behaviour
  None            \* the absent value

VARIABLES
  phase,       \* where each run is
  batch,       \* the batch of each run
  dryRun,      \* whether it only plans
  sorted,      \* sort_plan: the operations placed so far, in order
  completed,   \* execute_plan: how many of them succeeded
  report,      \* the last report of each run
  hollow,      \* observed: operations whose call went well without SoRX
  created,     \* SoRX: the records created, each with its idempotency key
  sent,        \* batches sent so far
  misled       \* calls that someone else answered so far

runVars == <<phase, batch, dryRun, sorted, completed, report, hollow>>
vars == <<runVars, created, sent, misled>>

-----------------------------------------------------------------------------
(***************************************************************************)
(* Batches.  A row is a record at an index of a collection; its id is None *)
(* if it has no primary id field; refs are the collections and ids that    *)
(* its other fields named after a collection refer to.                     *)
(***************************************************************************)
Row == [coll : Collections, index : Nat, id : Ids \cup {None},
        refs : SUBSET (Collections \X Ids)]

\* valid: the batch passes the schema, collection, count and action checks.
\* requireUniqueIds and validateReferences are options of the pack.
Batch == [id : BatchIds, rows : SUBSET Row, valid : BOOLEAN,
          requireUniqueIds : BOOLEAN, validateReferences : BOOLEAN]

ASSUME BatchAssumption ==
  /\ Batches \subseteq Batch
  /\ Collections \subseteq Nat
  /\ MaxRuns \in Nat
  /\ MaxMisled \in Nat
  /\ None \notin Ids
  /\ None \notin Batches

\* op_id: the collection with the id of the record, or else with its index.
OpId(row) == <<row.coll, IF row.id # None THEN row.id ELSE row.index>>

OpIds(b) == {OpId(row) : row \in b.rows}

DependencyIds(row) == {ref[2] : ref \in row.refs}

KnownIds(b) == {row.id : row \in b.rows} \ {None}

Before(x, y) ==
  x.coll < y.coll \/ (x.coll = y.coll /\ x.index < y.index)

\* Collections are lists: of some rows of a batch one is the last.
ASSUME RowsAssumption ==
  \A b \in Batches : \A rows \in SUBSET b.rows :
    rows # {} => \E x \in rows : \A y \in rows \ {x} : Before(y, x)

\* The last of the rows in the order of the plan: what collecting them into a
\* map keeps of those with the same key.
LastOf(rows) == CHOOSE x \in rows : \A y \in rows \ {x} : Before(y, x)

\* plan_by_op
RowOf(b, op) == LastOf({row \in b.rows : OpId(row) = op})

\* op_by_id: the part of the op_id after the colon, whatever it is.
OpById(b, id) == OpId(LastOf({row \in b.rows : OpId(row)[2] = id}))

\* The operations that sort_plan has op wait for.
Dependencies(b, op) ==
  {OpById(b, id) : id \in UNION {DependencyIds(row) \cap KnownIds(b) :
                                   row \in {x \in b.rows : OpId(x) = op}}}

\* validate_ids
IdsAreValid(b) ==
  /\ b.requireUniqueIds \/ b.validateReferences =>
       \A row \in b.rows : row.id # None
  /\ \A x, y \in b.rows : x.id = y.id /\ x.id # None => x = y

\* validate_references
ReferencesAreValid(b) ==
  b.validateReferences =>
    \A row \in b.rows : \A ref \in row.refs :
      \E target \in b.rows : target.coll = ref[1] /\ target.id = ref[2]

Validates(b) == b.valid /\ IdsAreValid(b) /\ ReferencesAreValid(b)

-----------------------------------------------------------------------------
Op == Collections \X (Ids \cup Nat)

Key == BatchIds \X Op

Report == [status : {"validation_failed", "planned", "completed",
                     "partial_failure"},
           batch : Batches, plan : Seq(Op), completed : Nat,
           hollow : SUBSET Op]

\* gaps: what was hollow in the run that created the record.
Record == [key : Key, batch : Batches, row : Row, gaps : SUBSET Op]

TypeOK ==
  /\ phase \in [Runs -> {"idle", "sort", "execute"}]
  /\ batch \in [Runs -> Batches \cup {None}]
  /\ dryRun \in [Runs -> BOOLEAN]
  /\ sorted \in [Runs -> Seq(Op)]
  /\ completed \in [Runs -> Nat]
  /\ report \in [Runs -> Report \cup {None}]
  /\ hollow \in [Runs -> SUBSET Op]
  /\ created \subseteq Record
  /\ sent \in Nat
  /\ misled \in Nat

Init ==
  /\ phase = [r \in Runs |-> "idle"]
  /\ batch = [r \in Runs |-> None]
  /\ dryRun = [r \in Runs |-> FALSE]
  /\ sorted = [r \in Runs |-> <<>>]
  /\ completed = [r \in Runs |-> 0]
  /\ report = [r \in Runs |-> None]
  /\ hollow = [r \in Runs |-> {}]
  /\ created = {}
  /\ sent = 0
  /\ misled = 0

\* A batch that parses is validated and sort_plan begins, errors or not.
Submit(r, b, dry) ==
  /\ phase[r] = "idle"
  /\ sent < MaxRuns
  /\ sent' = sent + 1
  /\ phase' = [phase EXCEPT ![r] = "sort"]
  /\ batch' = [batch EXCEPT ![r] = b]
  /\ dryRun' = [dryRun EXCEPT ![r] = dry]
  /\ sorted' = [sorted EXCEPT ![r] = <<>>]
  /\ completed' = [completed EXCEPT ![r] = 0]
  /\ report' = [report EXCEPT ![r] = None]
  /\ hollow' = [hollow EXCEPT ![r] = {}]
  /\ UNCHANGED <<created, misled>>

-----------------------------------------------------------------------------
(***************************************************************************)
(* sort_plan.  An operation is queued when its indegree reaches 0, that is *)
(* when all it waits for has been placed.  Which of the queued ones comes  *)
(* next is left open.                                                      *)
(***************************************************************************)
Placed(r) == {sorted[r][i] : i \in DOMAIN sorted[r]}

\* Mutant: an operation is queued when the first of its dependencies is placed.
QueuedAfterOne(r, op) ==
  /\ op \in OpIds(batch[r]) \ Placed(r)
  /\ \/ Dependencies(batch[r], op) = {}
     \/ Dependencies(batch[r], op) \cap Placed(r) # {}

Queued(r, op) ==
  /\ op \in OpIds(batch[r]) \ Placed(r)
  /\ Dependencies(batch[r], op) \subseteq Placed(r)

Place(r, op) ==
  /\ phase[r] = "sort"
  /\ Queued(r, op)
  /\ sorted' = [sorted EXCEPT ![r] = Append(@, op)]
  /\ UNCHANGED <<phase, batch, dryRun, completed, report, hollow, created,
                 sent, misled>>

\* The run ends with a report.
Finish(r, status) ==
  /\ phase' = [phase EXCEPT ![r] = "idle"]
  /\ report' = [report EXCEPT ![r] =
                  [status |-> status, batch |-> batch[r], plan |-> sorted[r],
                   completed |-> completed[r], hollow |-> hollow[r]]]
  /\ UNCHANGED completed

\* Mutant: operations on a cycle are left out of the plan without an error.
PlanIsValidUnsorted(r) == Validates(batch[r])

\* No validation error and no dependency cycle.
PlanIsValid(r) == Validates(batch[r]) /\ Placed(r) = OpIds(batch[r])

\* Mutant: the sort goes on until everything has been placed.
EndSortOfAll(r) ==
  /\ phase[r] = "sort"
  /\ Placed(r) = OpIds(batch[r])
  /\ IF PlanIsValid(r) /\ ~dryRun[r]
     THEN /\ phase' = [phase EXCEPT ![r] = "execute"]
          /\ UNCHANGED <<completed, report>>
     ELSE Finish(r, IF PlanIsValid(r) THEN "planned" ELSE "validation_failed")
  /\ UNCHANGED <<batch, dryRun, sorted, hollow, created, sent, misled>>

\* The queue is empty: the plan is refused, only reported, or executed.
EndSort(r) ==
  /\ phase[r] = "sort"
  /\ \A op \in OpIds(batch[r]) : ~Queued(r, op)
  /\ IF PlanIsValid(r) /\ ~dryRun[r]
     THEN /\ phase' = [phase EXCEPT ![r] = "execute"]
          /\ UNCHANGED <<completed, report>>
     ELSE Finish(r, IF PlanIsValid(r) THEN "planned" ELSE "validation_failed")
  /\ UNCHANGED <<batch, dryRun, sorted, hollow, created, sent, misled>>

-----------------------------------------------------------------------------
(***************************************************************************)
(* execute_plan.  SoRX creates nothing under a key that it has seen.       *)
(***************************************************************************)
NextOp(r) == sorted[r][completed[r] + 1]

\* Mutant: the key is made for the attempt.
IdempotencyKeyOfAttempt(r, op) == <<<<batch[r].id, sent>>, op>>

IdempotencyKey(r, op) == <<batch[r].id, op>>

SorxCreates(r, op) ==
  LET key == IdempotencyKey(r, op) IN
  created' = IF \E x \in created : x.key = key THEN created
             ELSE created \cup {[key |-> key, batch |-> batch[r],
                                 row |-> RowOf(batch[r], op),
                                 gaps |-> hollow[r]]}

InvokeSucceeds(r) ==
  /\ phase[r] = "execute"
  /\ completed[r] < Len(sorted[r])
  /\ SorxCreates(r, NextOp(r))
  /\ completed' = [completed EXCEPT ![r] = @ + 1]
  /\ UNCHANGED <<phase, batch, dryRun, sorted, report, hollow, sent, misled>>

\* A redirect or an empty page: any status below 400 is a success of the call,
\* and SoRX has not been asked for anything.
InvokeIsHollow(r) ==
  /\ phase[r] = "execute"
  /\ completed[r] < Len(sorted[r])
  /\ misled < MaxMisled
  /\ misled' = misled + 1
  /\ hollow' = [hollow EXCEPT ![r] = @ \cup {NextOp(r)}]
  /\ completed' = [completed EXCEPT ![r] = @ + 1]
  /\ UNCHANGED <<phase, batch, dryRun, sorted, report, created, sent>>

\* Mutant: a call that fails is taken for one that was made.
InvokeFailsUnseen(r) ==
  /\ phase[r] = "execute"
  /\ completed[r] < Len(sorted[r])
  /\ \/ SorxCreates(r, NextOp(r))
     \/ UNCHANGED created
  /\ completed' = [completed EXCEPT ![r] = @ + 1]
  /\ UNCHANGED <<phase, batch, dryRun, sorted, report, hollow, sent, misled>>

\* SoRX cannot be reached or refuses, or creates the record and its answer is
\* late: 10 seconds without a byte are an error like any other.
InvokeFails(r) ==
  /\ phase[r] = "execute"
  /\ completed[r] < Len(sorted[r])
  /\ \/ SorxCreates(r, NextOp(r))
     \/ UNCHANGED created
  /\ Finish(r, "partial_failure")
  /\ UNCHANGED <<batch, dryRun, sorted, hollow, sent, misled>>

Complete(r) ==
  /\ phase[r] = "execute"
  /\ completed[r] = Len(sorted[r])
  /\ Finish(r, "completed")
  /\ UNCHANGED <<batch, dryRun, sorted, hollow, created, sent, misled>>

\* The process is killed: no report, and SoRX keeps what it has.
Kill ==
  /\ phase' = [r \in Runs |-> "idle"]
  /\ batch' = [r \in Runs |-> None]
  /\ dryRun' = [r \in Runs |-> FALSE]
  /\ sorted' = [r \in Runs |-> <<>>]
  /\ completed' = [r \in Runs |-> 0]
  /\ report' = [r \in Runs |-> None]
  /\ hollow' = [r \in Runs |-> {}]
  /\ UNCHANGED <<created, sent, misled>>

Step(r) ==
  \/ phase[r] = "sort" /\ \E op \in OpIds(batch[r]) : Place(r, op)
  \/ EndSort(r)
  \/ InvokeSucceeds(r)
  \/ InvokeIsHollow(r)
  \/ InvokeFails(r)
  \/ Complete(r)

Next ==
  \/ \E r \in Runs :
       \/ \E b \in Batches, dry \in BOOLEAN : Submit(r, b, dry)
       \/ Step(r)
  \/ Kill

Spec == Init /\ [][Next]_vars

\* A run's thread keeps running, and every call of SoRX returns: that is
\* assumed of what answers it, for only 10 seconds without a byte end a call.
FairSpec == Spec /\ \A r \in Runs : WF_vars(Step(r))

-----------------------------------------------------------------------------
(***************************************************************************)
(* Properties.                                                             *)
(***************************************************************************)

\* Every row has a primary id: what the rows of a batch need so that their
\* operations cannot be mistaken for one another.
Identified(b) == \A row \in b.rows : row.id # None

\* At no moment, not after a failure, a kill or a second attempt either, does
\* SoRX have a record without those of its batch that it refers to: unless the
\* run that created it had been told by someone else (a redirect, an empty
\* page) that they were made.
ReferencesFirst ==
  \A x \in created : Identified(x.batch) =>
    \A target \in x.batch.rows :
      target.id \in DependencyIds(x.row) =>
        \/ \E y \in created : y.key = <<x.batch.id, OpId(target)>>
        \/ OpId(target) \in x.gaps

\* A batch sent again, at the same time or after a failure whose effect is not
\* known, creates no record twice.
NothingTwice ==
  \A x, y \in created :
    x.batch.id = y.batch.id /\ OpId(x.row) = OpId(y.row) => x = y

\* What the report of a run says of an operation of its batch holds: SoRX has
\* the record, or it was not SoRX that said so.
ReportedTruly(rep, op) ==
  \/ \E x \in created : x.key = <<rep.batch.id, op>>
  \/ op \in rep.hollow

\* A run that reports "completed" leaves no record of its batch that SoRX was
\* not asked to create, however often the batch had been tried before.
CompletedMeansAll ==
  \A r \in Runs :
    report[r] # None /\ report[r].status = "completed" =>
      \A row \in report[r].batch.rows : ReportedTruly(report[r], OpId(row))

\* The operations reported as completed were made: whoever sends only the rest
\* of the batch loses nothing.
CompletedWereMade ==
  \A r \in Runs : report[r] # None =>
    \A i \in 1..report[r].completed :
      ReportedTruly(report[r], report[r].plan[i])

\* What a report says was made was made: the operations it lists, of which only
\* the rest is sent again, and the whole batch when it says "completed".  The
\* exception is what this very run was told by a redirect or an empty page.
ReportsAreTrue == CompletedMeansAll /\ CompletedWereMade

\* Every run ends, with a report unless it is killed.
RunsEnd == \A r \in Runs : (phase[r] # "idle") ~> (phase[r] = "idle")
=============================================================================
