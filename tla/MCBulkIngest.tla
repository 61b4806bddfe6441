---------------------------- MODULE MCBulkIngest ----------------------------
(***************************************************************************)
(* Instances of BulkIngest for TLC.  Collection 1 holds customers and 2    *)
(* their invoices.  All batches go by the same batch id: they are attempts *)
(* to send the same records.                                               *)
(***************************************************************************)
EXTENDS BulkIngest

CONSTANTS r1, r2, b1

A(coll, index, id, refs) ==
  [coll |-> coll, index |-> index, id |-> id, refs |-> refs]

Options(rows, unique, refs) ==
  [id |-> b1, rows |-> rows, valid |-> TRUE,
   requireUniqueIds |-> unique, validateReferences |-> refs]

\* An invoice, the two customers that it refers to, one of them by the other.
Whole == {A(1, 0, 5, {}), A(1, 1, 6, {<<1, 5>>}),
          A(2, 0, 7, {<<1, 5>>, <<1, 6>>})}

\* What is left of it after the first customer.
Rest == {A(1, 0, 6, {<<1, 5>>}), A(2, 0, 7, {<<1, 5>>, <<1, 6>>})}

\* Two customers that refer to each other.
Circle == {A(1, 0, 5, {<<1, 6>>}), A(1, 1, 6, {<<1, 5>>})}

\* Records without an id of their own, which are known by their index, and one
\* of them by what is the id of another record.
Mistaken == {A(1, 0, 1, {}), A(1, 1, None, {}), A(2, 1, None, {<<1, 1>>})}

MCBatches ==
  {Options(Whole, TRUE, TRUE), Options(Rest, TRUE, FALSE),
   Options(Rest, FALSE, TRUE), Options(Circle, FALSE, FALSE),
   Options(Mistaken, FALSE, FALSE)}

=============================================================================
