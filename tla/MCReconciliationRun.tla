------------------------ MODULE MCReconciliationRun ------------------------
(***************************************************************************)
(* Instances of ReconciliationRun for TLC.                                 *)
(***************************************************************************)
EXTENDS ReconciliationRun, TLC

CONSTANTS r1, r2, t1, t2, t3

Paid(id) == [id |-> id, references |-> {"TEN-001"}, due |-> TRUE]
Partial(id) == [id |-> id, references |-> {"TEN-001", "TEN-002"}, due |-> FALSE]
Unknown(id) == [id |-> id, references |-> {}, due |-> TRUE]

Reconcile(transactions) ==
  [capability |-> "reconciliation", shape |-> "transactions",
   transactions |-> transactions, records |-> 0]

Other(capability, shape, records) ==
  [capability |-> capability, shape |-> shape, transactions |-> <<>>,
   records |-> records]

\* A day's batch with one of each outcome, two payments of which one has been
\* submitted twice, no transactions, something else, a secret, and bulk ingests
\* of two records and of what is no batch.
MCInputs ==
  {Reconcile(<<Partial(t2), Paid(t1)>>),
   Reconcile(<<Paid(t1), Paid(t1), Unknown(t3)>>),
   Reconcile(<<>>),
   Other("reconciliation", "unknown", 0), Other("reconciliation", "secret", 0),
   Other("bulk_ingest", "batch", 2), Other("bulk_ingest", "unknown", 1)}

\* Runs differ in nothing but their names.
Symmetry == Permutations(Runs)
=============================================================================
