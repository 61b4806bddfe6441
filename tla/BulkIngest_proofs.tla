-------------------------- MODULE BulkIngest_proofs --------------------------
(***************************************************************************)
(* Proofs about BulkIngest for every set of batches, any number of runs    *)
(* and any number of attempts: SoRX never has a record without those it    *)
(* refers to, creates none twice, and a report claims nothing that SoRX    *)
(* was not asked to create, except for what a redirect or an empty page    *)
(* made the run believe.                                                   *)
(***************************************************************************)
EXTENDS BulkIngest, TLAPS

\* A plan of b in which each operation comes after all that it waits for.
Ordered(b, plan) ==
  \A i \in 1..Len(plan) :
    /\ plan[i] \in OpIds(b)
    /\ \A op \in Dependencies(b, plan[i]) : \E j \in 1..(i - 1) : plan[j] = op

\* Something was created under this key.
Made(made, key) == \E x \in made : x.key = key

\* Something was, or the run was told so by someone else.
Settled(made, gaps, id, op) == Made(made, <<id, op>>) \/ op \in gaps

AllSettled(made, gaps, id, plan, n) ==
  \A i \in 1..n : Settled(made, gaps, id, plan[i])

\* A plan that execute_plan is given.
ValidPlan(b, plan) ==
  Validates(b) /\ {plan[i] : i \in DOMAIN plan} = OpIds(b)

(***************************************************************************)
(* What is placed belongs to the batch, behind all that it waits for.      *)
(***************************************************************************)
SortInv ==
  \A r \in Runs : phase[r] # "idle" =>
    /\ batch[r] \in Batches
    /\ Ordered(batch[r], sorted[r])
    /\ phase[r] = "sort" => completed[r] = 0

(***************************************************************************)
(* Only a valid plan is executed, and its first operations are settled.    *)
(***************************************************************************)
Executing(made, gaps, b, plan, n) ==
  ValidPlan(b, plan) /\ n <= Len(plan) /\ AllSettled(made, gaps, b.id, plan, n)

ExecuteInv ==
  \A r \in Runs : phase[r] = "execute" =>
    Executing(created, hollow[r], batch[r], sorted[r], completed[r])

(***************************************************************************)
(* What is created belongs to a batch that validates, and all that its     *)
(* operation waits for is settled.                                         *)
(***************************************************************************)
Justified(made, x) ==
  /\ Validates(x.batch)
  /\ x.row \in x.batch.rows
  /\ x.key = <<x.batch.id, OpId(x.row)>>
  /\ \A op \in Dependencies(x.batch, OpId(x.row)) :
       Settled(made, x.gaps, x.batch.id, op)

CreatedInv == \A x \in created : Justified(created, x)

KeysInv == \A x, y \in created : x.key = y.key => x = y

(***************************************************************************)
(* What a report claims is settled, and a completed plan is the whole      *)
(* batch.                                                                  *)
(***************************************************************************)
Covers(b, plan, n) ==
  \A row \in b.rows : \E i \in 1..n : plan[i] = OpId(row)

IsTrue(made, rep) ==
  /\ AllSettled(made, rep.hollow, rep.batch.id, rep.plan, rep.completed)
  /\ rep.status = "completed" => Covers(rep.batch, rep.plan, rep.completed)

ReportInv == \A r \in Runs : report[r] # None => IsTrue(created, report[r])

IInv == TypeOK /\ SortInv /\ ExecuteInv /\ CreatedInv /\ KeysInv /\ ReportInv

USE BatchAssumption

-----------------------------------------------------------------------------
(***************************************************************************)
(* Batches and plans.                                                      *)
(***************************************************************************)
\* The operation of a row is a collection with an id or an index.
LEMMA OpIdType ==
  ASSUME NEW b \in Batches, NEW row \in b.rows
  PROVE  row \in Row /\ OpId(row) \in Op
<1>1. row \in Row
  BY DEF Batch
<1> QED
  BY <1>1 DEF Row, OpId, Op

\* plan_by_op has, for each operation, a row of that operation.
LEMMA RowOfOperation ==
  ASSUME NEW b \in Batches, NEW op \in OpIds(b)
  PROVE  RowOf(b, op) \in b.rows /\ OpId(RowOf(b, op)) = op
<1> DEFINE rows == {row \in b.rows : OpId(row) = op}
<1>1. rows # {} /\ rows \in SUBSET b.rows
  BY DEF OpIds
<1>2. \E x \in rows : \A y \in rows \ {x} : Before(y, x)
  BY <1>1, RowsAssumption
<1>3. LastOf(rows) \in rows
  BY <1>2 DEF LastOf
<1> QED
  BY <1>3 DEF RowOf

\* In a valid batch whose rows have ids, op_by_id finds the row that a
\* reference means: the operation of a row waits for the rows it refers to.
LEMMA ReferenceIsDependency ==
  ASSUME NEW b \in Batches, IdsAreValid(b), Identified(b),
         NEW row \in b.rows, NEW target \in b.rows,
         target.id \in DependencyIds(row)
  PROVE  OpId(target) \in Dependencies(b, OpId(row))
<1>1. \A x \in b.rows : x.id # None /\ OpId(x) = <<x.coll, x.id>>
  BY DEF Identified, OpId
<1>2. {x \in b.rows : OpId(x)[2] = target.id} = {target}
  BY <1>1 DEF IdsAreValid
<1>3. LastOf({target}) = target
  BY DEF LastOf
<1>4. OpById(b, target.id) = OpId(target)
  BY <1>2, <1>3 DEF OpById
<1>5. target.id \in KnownIds(b)
  BY <1>1 DEF KnownIds
<1>6. target.id \in UNION {DependencyIds(x) \cap KnownIds(b) :
                             x \in {y \in b.rows : OpId(y) = OpId(row)}}
  BY <1>5
<1> QED
  BY <1>4, <1>6 DEF Dependencies

\* An empty plan is in order.
LEMMA EmptyIsOrdered ==
  ASSUME NEW b
  PROVE  Ordered(b, <<>>)
BY DEF Ordered

\* A plan stays in order when an operation that waits only for what has been
\* placed is put behind it.
LEMMA AppendIsOrdered ==
  ASSUME NEW b, NEW plan \in Seq(Op), Ordered(b, plan),
         NEW op \in Op, op \in OpIds(b),
         \A d \in Dependencies(b, op) : \E j \in 1..Len(plan) : plan[j] = d
  PROVE  Ordered(b, Append(plan, op))
<1> DEFINE longer == Append(plan, op)
<1>1. /\ Len(longer) = Len(plan) + 1
      /\ longer[Len(plan) + 1] = op
      /\ \A j \in 1..Len(plan) : longer[j] = plan[j]
  OBVIOUS
<1> HIDE DEF longer
<1>2. SUFFICES ASSUME NEW i \in 1..Len(longer)
               PROVE  /\ longer[i] \in OpIds(b)
                      /\ \A d \in Dependencies(b, longer[i]) :
                           \E j \in 1..(i - 1) : longer[j] = d
  BY DEF Ordered, longer
<1>3. CASE i = Len(plan) + 1
  <2>1. \A d \in Dependencies(b, op) : \E j \in 1..(i - 1) : longer[j] = d
    BY <1>1, <1>3
  <2> QED
    BY <1>1, <1>3, <2>1
<1>4. CASE i \in 1..Len(plan)
  <2>1. \A j \in 1..i : longer[j] = plan[j]
    BY <1>1, <1>4
  <2>2. \A d \in Dependencies(b, plan[i]) : \E j \in 1..(i - 1) : plan[j] = d
    BY <1>4 DEF Ordered
  <2>3. ASSUME NEW d \in Dependencies(b, longer[i])
        PROVE  \E j \in 1..(i - 1) : longer[j] = d
    <3>1. PICK j \in 1..(i - 1) : plan[j] = d
      BY <1>1, <1>4, <2>2
    <3> QED
      BY <2>1, <3>1
  <2> QED
    BY <1>1, <1>4, <2>3 DEF Ordered
<1> QED
  BY <1>1, <1>3, <1>4

-----------------------------------------------------------------------------
(***************************************************************************)
(* The steps.                                                              *)
(***************************************************************************)
\* Nothing is sorted, made or reported at the beginning.
LEMMA InitIInv == Init => IInv
BY DEF Init, IInv, TypeOK, SortInv, ExecuteInv, CreatedInv, KeysInv, ReportInv

\* A new batch begins with an empty plan and no report.
LEMMA SubmitIInv ==
  ASSUME IInv, NEW r \in Runs, NEW b \in Batches, NEW dry \in BOOLEAN,
         Submit(r, b, dry)
  PROVE  IInv'
<1> USE DEF IInv, Submit
<1>1. TypeOK'
  BY DEF TypeOK
<1>2. SortInv'
  BY EmptyIsOrdered DEF TypeOK, SortInv
<1>3. ExecuteInv'
  BY DEF TypeOK, ExecuteInv
<1>4. CreatedInv' /\ KeysInv'
  BY DEF CreatedInv, KeysInv
<1>5. ReportInv'
  BY DEF TypeOK, ReportInv
<1> QED
  BY <1>1, <1>2, <1>3, <1>4, <1>5

\* What is placed last waits only for what is placed before it.
LEMMA PlaceIInv ==
  ASSUME IInv, NEW r \in Runs, NEW op \in OpIds(batch[r]), Place(r, op)
  PROVE  IInv'
<1> USE DEF IInv, Place
<1>1. sorted[r] \in Seq(Op) /\ batch[r] \in Batches
  BY DEF TypeOK, SortInv
<1>2. op \in Op
  BY <1>1, OpIdType DEF OpIds
<1>3. TypeOK'
  BY <1>1, <1>2 DEF TypeOK
<1>4. Ordered(batch[r], Append(sorted[r], op))
  <2>1. \A d \in Dependencies(batch[r], op) :
          \E j \in 1..Len(sorted[r]) : sorted[r][j] = d
    BY <1>1 DEF Queued, Placed
  <2> QED
    BY <1>1, <1>2, <2>1, AppendIsOrdered DEF SortInv
<1>5. SortInv'
  BY <1>4 DEF TypeOK, SortInv
<1>6. ExecuteInv'
  BY DEF TypeOK, ExecuteInv
<1>7. CreatedInv' /\ KeysInv' /\ ReportInv'
  BY DEF CreatedInv, KeysInv, ReportInv
<1> QED
  BY <1>3, <1>5, <1>6, <1>7

\* A report is a report.
LEMMA FinishType ==
  ASSUME TypeOK, NEW r \in Runs, batch[r] \in Batches,
         NEW status \in {"validation_failed", "planned", "completed",
                         "partial_failure"},
         Finish(r, status)
  PROVE  /\ phase' \in [Runs -> {"idle", "sort", "execute"}]
         /\ report' \in [Runs -> Report \cup {None}]
         /\ completed' \in [Runs -> Nat]
<1>1. [status |-> status, batch |-> batch[r], plan |-> sorted[r],
       completed |-> completed[r], hollow |-> hollow[r]] \in Report
  BY DEF TypeOK, Report
<1> QED
  BY <1>1 DEF TypeOK, Finish

\* A run that finishes leaves the other runs alone, and its own sorting and
\* executing are over.
LEMMA FinishInv ==
  ASSUME TypeOK, SortInv, ExecuteInv, NEW r \in Runs, NEW status,
         Finish(r, status), UNCHANGED <<batch, sorted, hollow>>
  PROVE  /\ SortInv'
         /\ UNCHANGED created => ExecuteInv'
BY DEF TypeOK, SortInv, ExecuteInv, Finish

\* A plan is executed from its beginning, and only a valid one.
LEMMA EndSortIInv ==
  ASSUME IInv, NEW r \in Runs, EndSort(r)
  PROVE  IInv'
<1> USE DEF IInv, EndSort
<1>1. batch[r] \in Batches /\ completed[r] = 0
  BY DEF SortInv
<1>2. CreatedInv' /\ KeysInv'
  BY DEF CreatedInv, KeysInv
<1>3. CASE PlanIsValid(r) /\ ~dryRun[r]
  <2>1. Executing(created, hollow[r], batch[r], sorted[r], completed[r])
    <3>1. ValidPlan(batch[r], sorted[r])
      BY <1>3 DEF PlanIsValid, Placed, ValidPlan
    <3> QED
      BY <1>1, <3>1 DEF TypeOK, Executing, AllSettled
  <2>2. TypeOK'
    BY <1>3 DEF TypeOK
  <2>3. SortInv'
    BY <1>3 DEF TypeOK, SortInv
  <2>4. ExecuteInv'
    BY <1>3, <2>1 DEF TypeOK, ExecuteInv
  <2>5. ReportInv'
    BY <1>3 DEF ReportInv
  <2> QED
    BY <1>2, <2>2, <2>3, <2>4, <2>5
<1>4. CASE ~(PlanIsValid(r) /\ ~dryRun[r])
  <2>1. PICK status \in {"planned", "validation_failed"} : Finish(r, status)
    BY <1>4
  <2>2. TypeOK'
    BY <1>1, <2>1, FinishType DEF TypeOK
  <2>3. SortInv' /\ ExecuteInv'
    BY <2>1, FinishInv
  <2>4. ReportInv'
    <3>1. IsTrue(created, report'[r])
      BY <1>1, <2>1 DEF TypeOK, Finish, IsTrue, AllSettled
    <3> QED
      BY <2>1, <3>1 DEF TypeOK, Finish, ReportInv
  <2> QED
    BY <1>2, <2>2, <2>3, <2>4
<1> QED
  BY <1>3, <1>4

-----------------------------------------------------------------------------
(***************************************************************************)
(* SoRX.                                                                   *)
(***************************************************************************)
\* What is made, executing or true stays so when more is created.
LEMMA MoreIsMade ==
  ASSUME NEW made, NEW more, made \subseteq more
  PROVE  /\ \A key : Made(made, key) => Made(more, key)
         /\ \A gaps, b, plan, n : Executing(made, gaps, b, plan, n) =>
                                    Executing(more, gaps, b, plan, n)
         /\ \A x : Justified(made, x) => Justified(more, x)
         /\ \A rep : IsTrue(made, rep) => IsTrue(more, rep)
<1>1. \A key : Made(made, key) => Made(more, key)
  BY DEF Made
<1>2. \A gaps, id, plan, n : AllSettled(made, gaps, id, plan, n) =>
                              AllSettled(more, gaps, id, plan, n)
  BY <1>1 DEF AllSettled, Settled
<1>3. \A x : Justified(made, x) => Justified(more, x)
  BY <1>1 DEF Justified, Settled
<1> QED
  BY <1>1, <1>2, <1>3 DEF Executing, IsTrue

\* The record that execute_plan sends next.
Creation(r) ==
  [key |-> IdempotencyKey(r, NextOp(r)), batch |-> batch[r],
   row |-> RowOf(batch[r], NextOp(r)), gaps |-> hollow[r]]

\* Everything that the next operation waits for is behind it in the plan, and
\* what is behind it is settled.
LEMMA NextIsJustified ==
  ASSUME IInv, NEW r \in Runs, phase[r] = "execute",
         completed[r] < Len(sorted[r])
  PROVE  /\ Creation(r) \in Record
         /\ Justified(created, Creation(r))
<1> DEFINE b == batch[r]
           plan == sorted[r]
           n == completed[r]
           op == NextOp(r)
<1>1. b \in Batches /\ plan \in Seq(Op) /\ n \in Nat
  BY DEF IInv, TypeOK, SortInv
<1>2. n + 1 \in 1..Len(plan) /\ op = plan[n + 1]
  BY <1>1 DEF NextOp
<1>3. op \in Op /\ op \in OpIds(b)
  <2>1. Ordered(b, plan)
    BY DEF IInv, SortInv
  <2> QED
    BY <1>1, <1>2, <2>1 DEF Ordered
<1>4. RowOf(b, op) \in b.rows /\ OpId(RowOf(b, op)) = op
  BY <1>1, <1>3, RowOfOperation
<1>5. RowOf(b, op) \in Row /\ b.id \in BatchIds
  BY <1>1, <1>4 DEF Batch
<1>6. Executing(created, hollow[r], b, plan, n)
  BY DEF IInv, ExecuteInv
<1>7. Validates(b)
  BY <1>6 DEF Executing, ValidPlan
<1>8. \A d \in Dependencies(b, op) : Settled(created, hollow[r], b.id, d)
  <2>1. SUFFICES ASSUME NEW d \in Dependencies(b, op)
                 PROVE  Settled(created, hollow[r], b.id, d)
    OBVIOUS
  <2>2. PICK j \in 1..n : plan[j] = d
    <3>1. Ordered(b, plan)
      BY DEF IInv, SortInv
    <3>2. \E j \in 1..((n + 1) - 1) : plan[j] = d
      BY <1>2, <3>1 DEF Ordered
    <3> QED
      BY <1>1, <3>2
  <2> QED
    BY <1>6, <2>2 DEF Executing, AllSettled
<1> HIDE DEF b, op
<1>9. Creation(r) = [key |-> <<b.id, op>>, batch |-> b, row |-> RowOf(b, op),
                     gaps |-> hollow[r]]
  BY DEF Creation, IdempotencyKey, b, op
<1>10. <<b.id, op>> \in Key
  BY <1>3, <1>5 DEF Key
<1>11. hollow[r] \in SUBSET Op
  BY DEF IInv, TypeOK
<1>12. Creation(r) \in Record
  BY <1>1, <1>5, <1>9, <1>10, <1>11 DEF Record
<1>13. Justified(created, Creation(r))
  BY <1>4, <1>7, <1>8, <1>9 DEF Justified
<1> QED
  BY <1>12, <1>13

\* SoRX loses nothing, has the record asked for, and has no key twice.
LEMMA SorxCreatesInv ==
  ASSUME IInv, NEW r \in Runs, phase[r] = "execute",
         completed[r] < Len(sorted[r]), SorxCreates(r, NextOp(r))
  PROVE  /\ created \subseteq created'
         /\ created' \subseteq Record
         /\ Made(created', <<batch[r].id, NextOp(r)>>)
         /\ CreatedInv' /\ KeysInv'
<1> DEFINE new == Creation(r)
<1>1. /\ new \in Record
      /\ Justified(created, new)
      /\ new.key = <<batch[r].id, NextOp(r)>>
  BY NextIsJustified DEF Creation, IdempotencyKey
<1>2. created' = IF Made(created, new.key) THEN created
                 ELSE created \cup {new}
  BY DEF SorxCreates, Creation, Made
<1> HIDE DEF new
<1>3. created \subseteq created'
  BY <1>2
<1>4. created' \subseteq Record
  BY <1>1, <1>2 DEF IInv, TypeOK
<1>5. Made(created', new.key)
  BY <1>2 DEF Made
<1>6. CreatedInv'
  <2>1. SUFFICES ASSUME NEW x \in created'
                 PROVE  Justified(created', x)
    BY DEF CreatedInv
  <2>2. Justified(created, x)
    BY <1>1, <1>2 DEF IInv, CreatedInv
  <2> QED
    BY <1>3, <2>2, MoreIsMade
<1>7. KeysInv'
  BY <1>2 DEF IInv, KeysInv, Made
<1> QED
  BY <1>1, <1>3, <1>4, <1>5, <1>6, <1>7

\* A run that goes on after a call has one more operation that is settled.
LEMMA GoesOnIInv ==
  ASSUME IInv, NEW r \in Runs, phase[r] = "execute",
         completed[r] < Len(sorted[r]),
         completed' = [completed EXCEPT ![r] = @ + 1],
         NEW gaps \in SUBSET Op, hollow[r] \subseteq gaps,
         hollow' = [hollow EXCEPT ![r] = gaps],
         UNCHANGED <<phase, batch, dryRun, sorted, report, sent>>,
         misled' \in Nat,
         created \subseteq created', created' \subseteq Record,
         CreatedInv', KeysInv',
         Settled(created', gaps, batch[r].id, NextOp(r))
  PROVE  IInv'
<1> DEFINE n == completed[r]
<1>1. n \in Nat /\ n < Len(sorted[r]) /\ sorted[r] \in Seq(Op)
  BY DEF IInv, TypeOK
<1>2. TypeOK'
  BY <1>1 DEF IInv, TypeOK
<1>3. SortInv'
  BY DEF IInv, TypeOK, SortInv
<1>4. Executing(created', gaps, batch[r], sorted[r], n + 1)
  <2>1. Executing(created', hollow[r], batch[r], sorted[r], n)
    BY MoreIsMade DEF IInv, ExecuteInv
  <2>2. \A i \in 1..(n + 1) : i \in 1..n \/ i = n + 1
    BY <1>1
  <2>3. Settled(created', gaps, batch[r].id, sorted[r][n + 1])
    BY DEF NextOp
  <2>4. \A i \in 1..n : Settled(created', gaps, batch[r].id, sorted[r][i])
    BY <2>1 DEF Executing, AllSettled, Settled
  <2>5. AllSettled(created', gaps, batch[r].id, sorted[r], n + 1)
    BY <2>2, <2>3, <2>4 DEF AllSettled
  <2> QED
    BY <1>1, <2>1, <2>5 DEF Executing
<1>5. ExecuteInv'
  <2>1. SUFFICES ASSUME NEW q \in Runs, phase'[q] = "execute"
                 PROVE  Executing(created', hollow'[q], batch'[q], sorted'[q],
                                  completed'[q])
    BY DEF ExecuteInv
  <2>2. CASE q = r
    BY <1>4, <2>2 DEF IInv, TypeOK
  <2>3. CASE q # r
    <3>1. Executing(created, hollow[q], batch[q], sorted[q], completed[q])
      BY <2>1 DEF IInv, ExecuteInv
    <3>2. completed'[q] = completed[q] /\ hollow'[q] = hollow[q]
      BY <2>3 DEF IInv, TypeOK
    <3> QED
      BY <3>1, <3>2, MoreIsMade
  <2> QED
    BY <2>2, <2>3
<1>6. ReportInv'
  BY MoreIsMade DEF IInv, ReportInv
<1> QED
  BY <1>2, <1>3, <1>5, <1>6 DEF IInv

\* The operation that succeeded is one more that is made.
LEMMA InvokeSucceedsIInv ==
  ASSUME IInv, NEW r \in Runs, InvokeSucceeds(r)
  PROVE  IInv'
<1>1. /\ created \subseteq created'
      /\ created' \subseteq Record
      /\ Made(created', <<batch[r].id, NextOp(r)>>)
      /\ CreatedInv' /\ KeysInv'
  BY SorxCreatesInv DEF InvokeSucceeds
<1>2. /\ hollow[r] \in SUBSET Op
      /\ hollow' = [hollow EXCEPT ![r] = hollow[r]]
      /\ misled' \in Nat
  BY DEF IInv, TypeOK, InvokeSucceeds
<1>3. Settled(created', hollow[r], batch[r].id, NextOp(r))
  BY <1>1 DEF Settled
<1> QED
  BY <1>1, <1>2, <1>3, GoesOnIInv DEF InvokeSucceeds

\* The operation that was answered by someone else is one more of the gaps.
LEMMA InvokeIsHollowIInv ==
  ASSUME IInv, NEW r \in Runs, InvokeIsHollow(r)
  PROVE  IInv'
<1> DEFINE gaps == hollow[r] \cup {NextOp(r)}
<1>1. NextOp(r) \in Op
  <2>1. completed[r] + 1 \in 1..Len(sorted[r]) /\ sorted[r] \in Seq(Op)
    BY DEF IInv, TypeOK, InvokeIsHollow
  <2> QED
    BY <2>1 DEF NextOp
<1>2. /\ gaps \in SUBSET Op
      /\ hollow[r] \subseteq gaps
      /\ hollow' = [hollow EXCEPT ![r] = gaps]
      /\ misled' \in Nat
  BY <1>1 DEF IInv, TypeOK, InvokeIsHollow
<1>3. created' = created /\ created' \subseteq Record
  BY DEF IInv, TypeOK, InvokeIsHollow
<1>4. CreatedInv' /\ KeysInv'
  BY <1>3 DEF IInv, CreatedInv, KeysInv
<1>5. Settled(created', gaps, batch[r].id, NextOp(r))
  BY DEF Settled
<1> HIDE DEF gaps
<1> QED
  BY <1>2, <1>3, <1>4, <1>5, GoesOnIInv DEF InvokeIsHollow

\* A failure reports what was made, whether or not SoRX made the failed one.
LEMMA InvokeFailsIInv ==
  ASSUME IInv, NEW r \in Runs, InvokeFails(r)
  PROVE  IInv'
<1>1. batch[r] \in Batches /\ Executing(created, hollow[r], batch[r], sorted[r], completed[r])
  BY DEF IInv, SortInv, ExecuteInv, InvokeFails
<1>2. /\ created \subseteq created'
      /\ created' \subseteq Record
      /\ CreatedInv' /\ KeysInv'
  <2>1. CASE SorxCreates(r, NextOp(r))
    BY <2>1, SorxCreatesInv DEF InvokeFails
  <2>2. CASE UNCHANGED created
    BY <2>2 DEF IInv, TypeOK, CreatedInv, KeysInv
  <2> QED
    BY <2>1, <2>2 DEF InvokeFails
<1>3. Finish(r, "partial_failure") /\ UNCHANGED <<batch, sorted, dryRun, hollow, sent, misled>>
  BY DEF InvokeFails
<1>4. TypeOK'
  BY <1>1, <1>2, <1>3, FinishType DEF IInv, TypeOK
<1>5. SortInv'
  BY <1>3, FinishInv DEF IInv
<1>6. ExecuteInv'
  <2>1. SUFFICES ASSUME NEW q \in Runs, phase'[q] = "execute"
                 PROVE  Executing(created', hollow'[q], batch'[q], sorted'[q],
                                  completed'[q])
    BY DEF ExecuteInv
  <2>2. phase[q] = "execute"
    BY <1>3, <2>1 DEF IInv, TypeOK, Finish
  <2> QED
    BY <1>2, <1>3, <2>2, MoreIsMade DEF IInv, ExecuteInv, Finish
<1>7. ReportInv'
  <2>1. IsTrue(created', report'[r])
    <3>1. IsTrue(created, report'[r])
      BY <1>1, <1>3 DEF IInv, TypeOK, Finish, IsTrue, Executing
    <3> QED
      BY <1>2, <3>1, MoreIsMade
  <2> QED
    BY <1>2, <1>3, <2>1, MoreIsMade DEF IInv, TypeOK, Finish, ReportInv
<1> QED
  BY <1>2, <1>4, <1>5, <1>6, <1>7 DEF IInv

\* A plan that was executed to its end covers its batch.
LEMMA CompleteIInv ==
  ASSUME IInv, NEW r \in Runs, Complete(r)
  PROVE  IInv'
<1>1. /\ batch[r] \in Batches
      /\ sorted[r] \in Seq(Op)
      /\ completed[r] = Len(sorted[r])
      /\ Executing(created, hollow[r], batch[r], sorted[r], completed[r])
  BY DEF IInv, TypeOK, SortInv, ExecuteInv, Complete
<1>2. Finish(r, "completed") /\ UNCHANGED <<batch, sorted, dryRun, hollow, sent, misled,
                                      created>>
  BY DEF Complete
<1>3. TypeOK'
  BY <1>1, <1>2, FinishType DEF IInv, TypeOK
<1>4. SortInv' /\ ExecuteInv'
  BY <1>2, FinishInv DEF IInv
<1>5. CreatedInv' /\ KeysInv'
  BY <1>2 DEF IInv, CreatedInv, KeysInv
<1>6. ReportInv'
  <2>1. Covers(batch[r], sorted[r], completed[r])
    <3>1. SUFFICES ASSUME NEW row \in batch[r].rows
                   PROVE  \E i \in 1..completed[r] : sorted[r][i] = OpId(row)
      BY DEF Covers
    <3>2. OpId(row) \in {sorted[r][i] : i \in DOMAIN sorted[r]}
      BY <1>1 DEF Executing, ValidPlan, OpIds
    <3>3. DOMAIN sorted[r] = 1..completed[r]
      BY <1>1
    <3> QED
      BY <3>2, <3>3
  <2>2. IsTrue(created, report'[r])
    BY <1>1, <1>2, <2>1 DEF IInv, TypeOK, Finish, IsTrue, Executing
  <2> QED
    BY <1>2, <2>2 DEF IInv, TypeOK, Finish, ReportInv
<1> QED
  BY <1>3, <1>4, <1>5, <1>6 DEF IInv

\* A killed process has no runs and no reports.
LEMMA KillIInv ==
  ASSUME IInv, Kill
  PROVE  IInv'
<1>1. TypeOK'
  BY DEF IInv, TypeOK, Kill
<1> QED
  BY <1>1 DEF IInv, SortInv, ExecuteInv, CreatedInv, KeysInv, ReportInv, Kill

\* Every step preserves the invariant.
LEMMA NextIInv ==
  ASSUME IInv, [Next]_vars
  PROVE  IInv'
<1>1. CASE UNCHANGED vars
  BY <1>1 DEF IInv, TypeOK, SortInv, ExecuteInv, CreatedInv, KeysInv,
              ReportInv, vars, runVars
<1>2. ASSUME NEW r \in Runs, NEW b \in Batches, NEW dry \in BOOLEAN,
             Submit(r, b, dry)
      PROVE  IInv'
  BY <1>2, SubmitIInv
<1>3. ASSUME NEW r \in Runs, NEW op \in OpIds(batch[r]), Place(r, op)
      PROVE  IInv'
  BY <1>3, PlaceIInv
<1>4. ASSUME NEW r \in Runs, EndSort(r)
      PROVE  IInv'
  BY <1>4, EndSortIInv
<1>5. ASSUME NEW r \in Runs, InvokeSucceeds(r)
      PROVE  IInv'
  BY <1>5, InvokeSucceedsIInv
<1>6. ASSUME NEW r \in Runs, InvokeFails(r)
      PROVE  IInv'
  BY <1>6, InvokeFailsIInv
<1>9. ASSUME NEW r \in Runs, InvokeIsHollow(r)
      PROVE  IInv'
  BY <1>9, InvokeIsHollowIInv
<1>7. ASSUME NEW r \in Runs, Complete(r)
      PROVE  IInv'
  BY <1>7, CompleteIInv
<1>8. CASE Kill
  BY <1>8, KillIInv
<1> QED
  BY <1>1, <1>2, <1>3, <1>4, <1>5, <1>6, <1>7, <1>8, <1>9 DEF Next, Step

LEMMA Invariance == Spec => []IInv
BY InitIInv, NextIInv, PTL DEF Spec

-----------------------------------------------------------------------------
(***************************************************************************)
(* What follows from the invariant.                                        *)
(***************************************************************************)
\* The state has its type, in particular every key is that of a batch id and
\* an operation.
THEOREM TypeCorrect == Spec => []TypeOK
<1>1. IInv => TypeOK
  BY DEF IInv
<1> QED
  BY <1>1, Invariance, PTL

\* SoRX never has a record without the records of its batch that it refers to
\* (execute_plan in the order of sort_plan), whatever fails or is tried again,
\* except for those that the run which created it was told, by a redirect or an
\* empty page, had been made (parse_http_json_response takes both for success).
THEOREM ReferencesComeFirst == Spec => []ReferencesFirst
<1>1. IInv => ReferencesFirst
  <2>1. SUFFICES ASSUME IInv, NEW x \in created, Identified(x.batch),
                        NEW target \in x.batch.rows,
                        target.id \in DependencyIds(x.row)
                 PROVE  \/ \E y \in created :
                             y.key = <<x.batch.id, OpId(target)>>
                        \/ OpId(target) \in x.gaps
    BY DEF ReferencesFirst
  <2>2. x.batch \in Batches /\ Justified(created, x)
    <3>1. created \subseteq Record
      BY <2>1 DEF IInv, TypeOK
    <3> QED
      BY <2>1, <3>1 DEF IInv, CreatedInv, Record
  <2>3. OpId(target) \in Dependencies(x.batch, OpId(x.row))
    BY <2>1, <2>2, ReferenceIsDependency DEF Justified, Validates
  <2> QED
    BY <2>2, <2>3 DEF Justified, Settled, Made
<1> QED
  BY <1>1, Invariance, PTL

\* However often a batch is sent, a record of it is created once: the key that
\* invoke_operation makes of batch_id and op_id names the record.
THEOREM CreatedOnce == Spec => []NothingTwice
<1>1. IInv => NothingTwice
  BY DEF IInv, CreatedInv, KeysInv, Justified, NothingTwice
<1> QED
  BY <1>1, Invariance, PTL

\* What a report says was made was made: every row of a batch that is reported
\* "completed", and every operation that is listed by a run that failed, except
\* for what a redirect or an empty page told that very run.
THEOREM ReportsHold == Spec => []ReportsAreTrue
<1>1. IInv => CompletedMeansAll
  <2>1. SUFFICES ASSUME IInv, NEW r \in Runs, report[r] # None,
                        report[r].status = "completed",
                        NEW row \in report[r].batch.rows
                 PROVE  ReportedTruly(report[r], OpId(row))
    BY DEF CompletedMeansAll
  <2>2. IsTrue(created, report[r])
    BY <2>1 DEF IInv, ReportInv
  <2> QED
    BY <2>1, <2>2 DEF IsTrue, Covers, AllSettled, Settled, Made, ReportedTruly
<1>2. IInv => CompletedWereMade
  BY DEF IInv, ReportInv, IsTrue, AllSettled, Settled, Made, ReportedTruly,
         CompletedWereMade
<1>3. IInv => ReportsAreTrue
  BY <1>1, <1>2 DEF ReportsAreTrue
<1> QED
  BY <1>3, Invariance, PTL

=============================================================================
