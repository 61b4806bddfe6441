----------------------- MODULE ReconciliationRun_proofs -----------------------
(***************************************************************************)
(* Proofs about ReconciliationRun for any number of runs and every set of  *)
(* inputs: what SoRX did is in the trail, what the trail says was applied  *)
(* was, nothing that needs approval is applied, and nothing twice.         *)
(***************************************************************************)
EXTENDS ReconciliationRun, FiniteSetTheorems, TLAPS

\* pos is that of an action that a decision about the input proposes.
IsAction(in, pos) ==
  /\ pos[1] \in DOMAIN in.transactions
  /\ pos[2] \in DOMAIN ProposedActions(Outcome(in.transactions[pos[1]]))

(***************************************************************************)
(* A run is where its input has something for it, and calls SoRX only for  *)
(* an action that may be applied.                                          *)
(***************************************************************************)
Placed(in, dry, stage, pos) ==
  /\ stage = "idle" <=> in = None
  /\ stage = "decision.created" =>
       pos[1] \in DOMAIN in.transactions /\ pos = <<pos[1], 0>>
  /\ stage \in {"apply", "action.applied", "action.skipped"} =>
       IsAction(in, pos)
  /\ stage = "apply" => ~dry /\ AutoApply(Outcome(in.transactions[pos[1]]))

PlacedInv ==
  \A r \in Runs :
    /\ Placed(input[r], dryRun[r], pc[r], at[r])
    /\ half[r] => pc[r] \in Events

(***************************************************************************)
(* What is in the trail t of a run for which the calls for the actions c   *)
(* succeeded or reached SoRX, when the run is at a stage.                  *)
(***************************************************************************)
Has(t, event, pos) == \E k \in DOMAIN t : t[k] = [event |-> event, at |-> pos]

Untold(stage, h) == (stage = "action.applied" /\ ~h) \/ stage \in {"failed", "killed"}

\* What of the actions was carried out or said to be; the rest of what went
\* hollow is records of a bulk ingest.
Done(c, h) == c \cup {p \in h : p[1] # 0}

Told(stage, h, pos, t, c) ==
  /\ stage = "idle" => t = <<>> /\ c = {}
  /\ stage = "decision.created" /\ h => Has(t, "decision.created", pos)
  /\ stage \in {"apply", "action.applied", "action.skipped"} =>
       Has(t, "decision.created", <<pos[1], 0>>)
  /\ stage = "action.applied" => pos \in c
  /\ stage = "action.applied" /\ h => Has(t, "action.applied", pos)
  /\ \A k \in DOMAIN t : t[k].event = "action.applied" => t[k].at \in c
  /\ \A p \in c :
       /\ Has(t, "decision.created", <<p[1], 0>>)
       /\ Has(t, "action.applied", p) \/ (p = pos /\ Untold(stage, h))

TrailInv ==
  \A r \in Runs :
    Told(pc[r], half[r], at[r], trail[r], Done(carried[r], hollow[r]))

(***************************************************************************)
(* What SoRX did it was asked to by a run that may, once under each key.   *)
(***************************************************************************)
Justified(x) ==
  /\ input[x.run] # None
  /\ IsAction(input[x.run], x.at)
  /\ x.key = IdempotencyKey(x.run, x.at)
  /\ ~dryRun[x.run]
  /\ AutoApply(Outcome(TransactionAt(x.run, x.at[1])))

MadeInv == \A x \in made : Justified(x)

KeysInv == \A x, y \in made : x.key = y.key => x = y

CarriedInv ==
  \A r \in Runs : \A pos \in carried[r] :
    \E x \in made : x.key = IdempotencyKey(r, pos)

IInv == TypeOK /\ PlacedInv /\ TrailInv /\ MadeInv /\ KeysInv /\ CarriedInv

USE InputAssumption

-----------------------------------------------------------------------------
(***************************************************************************)
(* Inputs and where a run goes from a decision.                            *)
(***************************************************************************)
LEMMA OutcomeType ==
  ASSUME NEW t
  PROVE  Outcome(t) \in {"matched", "partial_payment", "unmatched"}
BY DEF Outcome

LEMMA ProposedType ==
  ASSUME NEW t, NEW actions, actions = ProposedActions(Outcome(t))
  PROVE  /\ Len(actions) \in Nat
         /\ DOMAIN actions = 1..Len(actions)
         /\ \A j \in DOMAIN actions : actions[j] \in ActionIds
<1>1. CASE actions = <<"record_rent_payment">>
  BY <1>1 DEF ActionIds
<1>2. CASE actions = <<"record_rent_payment", "reconciliation_case.create">>
  BY <1>2 DEF ActionIds
<1>3. CASE actions = <<"reconciliation_case.create">>
  BY <1>3 DEF ActionIds
<1> QED
  BY <1>1, <1>2, <1>3, OutcomeType DEF ProposedActions

LEMMA TransactionType ==
  ASSUME NEW in \in Inputs, NEW i \in DOMAIN in.transactions
  PROVE  /\ in.transactions \in Seq(Transaction)
         /\ i \in Nat
         /\ in.transactions[i].id \in TransactionIds
<1>1. in.transactions \in Seq(Transaction)
  BY DEF Input
<1>2. i \in 1..Len(in.transactions)
  BY <1>1
<1>3. in.transactions[i] \in Transaction
  BY <1>1, <1>2
<1> QED
  BY <1>1, <1>2, <1>3 DEF Transaction

\* The key of an action is made of its transaction and itself.
LEMMA KeyType ==
  ASSUME NEW r \in Runs, NEW pos, input[r] \in Inputs,
         IsAction(input[r], pos)
  PROVE  IdempotencyKey(r, pos) \in Key
<1> DEFINE t == input[r].transactions[pos[1]]
<1>1. t.id \in TransactionIds
  BY TransactionType DEF IsAction
<1>2. ProposedActions(Outcome(t))[pos[2]] \in ActionIds
  BY ProposedType DEF IsAction
<1> QED
  BY <1>1, <1>2 DEF IdempotencyKey, Key, TransactionAt, ActionsAt

\* The stages that follow a decision.
Following == {"run.completed", "decision.created", "apply", "action.skipped"}

LEMMA DecisionFollows ==
  ASSUME TypeOK, NEW r \in Runs, input[r] \in Inputs, NEW i \in Nat \ {0},
         GotoDecision(r, i)
  PROVE  \E stage \in {"run.completed", "decision.created"},
            pos \in Nat \X Nat :
           /\ Goto(r, stage, pos)
           /\ Placed(input[r], dryRun[r], stage, pos)
<1>1. input[r].transactions \in Seq(Transaction) /\ input[r] # None
  BY DEF Input
<1>2. CASE i <= Len(input[r].transactions)
  <2>1. Placed(input[r], dryRun[r], "decision.created", <<i, 0>>)
    BY <1>1, <1>2 DEF Placed
  <2>2. Goto(r, "decision.created", <<i, 0>>) /\ <<i, 0>> \in Nat \X Nat
    BY <1>2 DEF GotoDecision
  <2> QED
    BY <2>1, <2>2
<1>3. CASE ~(i <= Len(input[r].transactions))
  <2>1. Placed(input[r], dryRun[r], "run.completed", <<0, 0>>)
    BY <1>1 DEF Placed
  <2>2. Goto(r, "run.completed", <<0, 0>>) /\ <<0, 0>> \in Nat \X Nat
    BY <1>3 DEF GotoDecision
  <2> QED
    BY <2>1, <2>2
<1> QED
  BY <1>2, <1>3

LEMMA ActionFollows ==
  ASSUME TypeOK, NEW r \in Runs, input[r] \in Inputs,
         NEW i \in DOMAIN input[r].transactions, NEW j \in Nat \ {0},
         GotoAction(r, i, j)
  PROVE  \E stage \in Following, pos \in Nat \X Nat :
           /\ Goto(r, stage, pos)
           /\ Placed(input[r], dryRun[r], stage, pos)
           /\ stage \in {"apply", "action.skipped"} => pos[1] = i
<1>1. input[r].transactions \in Seq(Transaction) /\ input[r] # None /\ i \in Nat \ {0}
  BY DEF Input
<1>2. /\ Len(ActionsAt(r, i)) \in Nat
      /\ DOMAIN ActionsAt(r, i) = 1..Len(ActionsAt(r, i))
  BY ProposedType DEF ActionsAt
<1>3. CASE j > Len(ActionsAt(r, i))
  <2>1. GotoDecision(r, i + 1)
    BY <1>3 DEF GotoAction
  <2> QED
    BY <2>1, <1>1, DecisionFollows DEF Following
<1>4. CASE ~(j > Len(ActionsAt(r, i)))
  <2>1. IsAction(input[r], <<i, j>>)
    BY <1>1, <1>2, <1>4 DEF IsAction, ActionsAt, TransactionAt
  <2>2. <<i, j>> \in Nat \X Nat /\ <<i, j>>[1] = i
    BY <1>1
  <2>3. CASE dryRun[r] \/ ~AutoApply(Outcome(TransactionAt(r, i)))
    <3>1. Goto(r, "action.skipped", <<i, j>>)
      BY <1>4, <2>3 DEF GotoAction
    <3>2. Placed(input[r], dryRun[r], "action.skipped", <<i, j>>)
      BY <1>1, <2>1 DEF Placed
    <3> QED
      BY <3>1, <3>2, <2>2 DEF Following
  <2>4. CASE ~(dryRun[r] \/ ~AutoApply(Outcome(TransactionAt(r, i))))
    <3>1. Goto(r, "apply", <<i, j>>)
      BY <1>4, <2>4 DEF GotoAction
    <3>2. Placed(input[r], dryRun[r], "apply", <<i, j>>)
      BY <1>1, <2>1, <2>2, <2>4 DEF Placed, TransactionAt
    <3> QED
      BY <3>1, <3>2, <2>2 DEF Following
  <2> QED
    BY <2>3, <2>4
<1> QED
  BY <1>3, <1>4

LEMMA SkippedType ==
  ASSUME TypeOK, NEW r \in Runs, NEW i, NEW j,
         GotoAction(r, i, j) \/ GotoDecision(r, i)
  PROVE  skipped' \in [Runs -> Nat]
BY DEF TypeOK, GotoAction, GotoDecision

-----------------------------------------------------------------------------
(***************************************************************************)
(* The trail.                                                              *)
(***************************************************************************)
LEMMA HasAppend ==
  ASSUME NEW t \in Seq(Event), NEW e \in Event, NEW event, NEW pos,
         Has(t, event, pos) \/ e = [event |-> event, at |-> pos]
  PROVE  Has(Append(t, e), event, pos)
<1> DEFINE u == Append(t, e)
<1>1. /\ Len(u) = Len(t) + 1 /\ DOMAIN u = 1..(Len(t) + 1)
      /\ u[Len(t) + 1] = e
      /\ \A k \in DOMAIN t : k \in DOMAIN u /\ u[k] = t[k]
  OBVIOUS
<1>2. Len(t) + 1 \in DOMAIN u
  BY <1>1
<1> HIDE DEF u
<1>3. Has(u, event, pos)
  BY <1>1, <1>2 DEF Has
<1> QED
  BY <1>3 DEF u

\* The text of an event is written.
LEMMA ToldWrites ==
  ASSUME NEW t \in Seq(Event), NEW c, NEW stage \in Events,
         NEW pos \in Nat \X Nat,
         Told(stage, FALSE, pos, t, c)
  PROVE  Told(stage, TRUE, pos,
              Append(t, [event |-> stage, at |-> pos]), c)
<1> DEFINE e == [event |-> stage, at |-> pos]
           u == Append(t, e)
<1>1. e \in Event
  BY DEF Event
<1>2. \A event, p : Has(t, event, p) => Has(u, event, p)
  BY <1>1, HasAppend
<1>3. Has(u, stage, pos)
  BY <1>1, HasAppend
<1>4. \A k \in DOMAIN u :
        u[k].event = "action.applied" =>
          \/ stage = "action.applied" /\ u[k].at = pos
          \/ \E l \in DOMAIN t :
               t[l].event = "action.applied" /\ t[l].at = u[k].at
  <2>1. /\ Len(u) = Len(t) + 1 /\ DOMAIN u = 1..(Len(t) + 1)
        /\ u[Len(t) + 1] = e
        /\ \A k \in DOMAIN t : u[k] = t[k]
    BY <1>1
  <2>2. \A k \in DOMAIN u : k = Len(t) + 1 \/ k \in DOMAIN t
    BY <2>1
  <2>3. e.event = stage /\ e.at = pos
    OBVIOUS
  <2> HIDE DEF u, e
  <2> QED
    BY <2>1, <2>2, <2>3
<1>5. stage # "idle"
  BY DEF Events
<1> HIDE DEF u, e
<1>6. Told(stage, TRUE, pos, u, c)
  BY <1>2, <1>3, <1>4, <1>5 DEF Told, Untold, Events
<1> QED
  BY <1>6 DEF u, e

\* A run goes on when all that SoRX did for it has been told.
LEMMA ToldMoves ==
  ASSUME NEW stage, NEW h \in BOOLEAN, NEW pos, NEW t, NEW c,
         Told(stage, h, pos, t, c), ~Untold(stage, h),
         NEW next, NEW to,
         next \notin {"idle", "action.applied"},
         next \in {"apply", "action.skipped"} =>
           Has(t, "decision.created", <<to[1], 0>>)
  PROVE  Told(next, FALSE, to, t, c)
BY DEF Told, Untold

\* A run is ended, by an error or from outside.
LEMMA ToldEnds ==
  ASSUME NEW stage, NEW h \in BOOLEAN, NEW pos, NEW t, NEW c,
         Told(stage, h, pos, t, c), NEW next \in {"failed", "killed"}
  PROVE  Told(next, FALSE, pos, t, c)
BY DEF Told, Untold

-----------------------------------------------------------------------------
(***************************************************************************)
(* Steps of one run, and what they leave alone.                            *)
(***************************************************************************)
LEMMA LocalStep ==
  ASSUME PlacedInv, TrailInv, NEW r \in Runs,
         \A q \in Runs \ {r} :
           /\ input'[q] = input[q] /\ dryRun'[q] = dryRun[q]
           /\ pc'[q] = pc[q] /\ at'[q] = at[q] /\ half'[q] = half[q]
           /\ trail'[q] = trail[q]
           /\ carried'[q] = carried[q] /\ hollow'[q] = hollow[q],
         Placed(input'[r], dryRun'[r], pc'[r], at'[r]),
         half'[r] => pc'[r] \in Events,
         Told(pc'[r], half'[r], at'[r], trail'[r],
              Done(carried'[r], hollow'[r]))
  PROVE  PlacedInv' /\ TrailInv'
<1>1. PlacedInv'
  <2> SUFFICES ASSUME NEW q \in Runs
               PROVE  /\ Placed(input'[q], dryRun'[q], pc'[q], at'[q])
                      /\ half'[q] => pc'[q] \in Events
    BY DEF PlacedInv
  <2> QED
    BY DEF PlacedInv
<1>2. TrailInv'
  <2> SUFFICES ASSUME NEW q \in Runs
               PROVE  Told(pc'[q], half'[q], at'[q], trail'[q],
                           Done(carried'[q], hollow'[q]))
    BY DEF TrailInv
  <2> QED
    BY DEF TrailInv
<1> QED
  BY <1>1, <1>2

LEMMA SorxUnchanged ==
  ASSUME MadeInv, KeysInv, CarriedInv,
         UNCHANGED <<input, dryRun, made, carried>>
  PROVE  MadeInv' /\ KeysInv' /\ CarriedInv'
BY DEF MadeInv, KeysInv, CarriedInv, Justified, IdempotencyKey, ActionsAt,
       TransactionAt

\* A run that goes to a next stage without a call of SoRX.
LEMMA Moves ==
  ASSUME IInv, NEW r \in Runs, NEW stage, NEW pos,
         Goto(r, stage, pos),
         half' = [half EXCEPT ![r] = FALSE] \/ (half' = half /\ ~half[r]),
         UNCHANGED <<input, dryRun, trail, made, hollow, carried>>,
         ~Untold(pc[r], half[r]),
         stage \notin {"idle", "action.applied"},
         Placed(input[r], dryRun[r], stage, pos),
         stage \in {"apply", "action.skipped"} =>
           Has(trail[r], "decision.created", <<pos[1], 0>>)
  PROVE  PlacedInv' /\ TrailInv' /\ MadeInv' /\ KeysInv' /\ CarriedInv'
<1>1. /\ pc'[r] = stage /\ at'[r] = pos /\ half'[r] = FALSE
      /\ \A q \in Runs \ {r} :
           pc'[q] = pc[q] /\ at'[q] = at[q] /\ half'[q] = half[q]
  BY DEF IInv, TypeOK, Goto
<1>2. Told(pc[r], half[r], at[r], trail[r], Done(carried[r], hollow[r])) /\ half[r] \in BOOLEAN
  BY DEF IInv, TypeOK, TrailInv
<1>3. Told(stage, FALSE, pos, trail[r], Done(carried[r], hollow[r]))
  BY <1>2, ToldMoves
<1>4. PlacedInv' /\ TrailInv'
  BY <1>1, <1>3, LocalStep DEF IInv
<1> QED
  BY <1>4, SorxUnchanged DEF IInv

-----------------------------------------------------------------------------
(***************************************************************************)
(* Each action keeps the invariant.                                        *)
(***************************************************************************)
Kept == PlacedInv' /\ TrailInv' /\ MadeInv' /\ KeysInv' /\ CarriedInv'

LEMMA Initially ==
  ASSUME Init
  PROVE  IInv
<1>1. TypeOK
  BY DEF Init, TypeOK
<1>2. PlacedInv
  BY DEF Init, PlacedInv, Placed
<1>3. TrailInv
  BY DEF Init, TrailInv, Told, Done
<1>4. MadeInv /\ KeysInv /\ CarriedInv
  BY DEF Init, MadeInv, KeysInv, CarriedInv
<1> QED
  BY <1>1, <1>2, <1>3, <1>4 DEF IInv

LEMMA BeginKeeps ==
  ASSUME IInv, NEW r \in Runs, NEW in \in Inputs, NEW dry \in BOOLEAN,
         Begin(r, in, dry)
  PROVE  TypeOK' /\ Kept
<1> DEFINE stage == IF in.shape = "secret" THEN "failed" ELSE "run.started"
<1>1. TypeOK'
  BY DEF IInv, TypeOK, Begin, Goto, fileVars, sorxVars, Events, Ends
<1>2. /\ input'[r] = in /\ dryRun'[r] = dry /\ pc'[r] = stage
      /\ at'[r] = <<0, 0>> /\ half' = half /\ trail' = trail
      /\ carried' = carried /\ hollow' = hollow /\ made' = made
      /\ \A q \in Runs \ {r} :
           /\ input'[q] = input[q] /\ dryRun'[q] = dryRun[q]
           /\ pc'[q] = pc[q] /\ at'[q] = at[q]
  BY DEF IInv, TypeOK, Begin, Goto, fileVars, sorxVars
<1>3. pc[r] = "idle" /\ input[r] = None /\ ~half[r] /\ trail[r] = <<>>
      /\ carried[r] = {} /\ Done(carried[r], hollow[r]) = {}
  BY DEF IInv, PlacedInv, Placed, TrailInv, Told, Done, Begin, Events
<1>4. stage \in {"failed", "run.started"}
  OBVIOUS
<1>5. Placed(in, dry, stage, <<0, 0>>)
  BY <1>4 DEF Placed
<1>6. Told(stage, FALSE, <<0, 0>>, <<>>, {})
  BY <1>4 DEF Told
<1>7. half'[r] = FALSE
  BY <1>2, <1>3 DEF IInv, TypeOK
<1> HIDE DEF stage
<1>8. PlacedInv' /\ TrailInv'
  BY <1>2, <1>3, <1>5, <1>6, <1>7, LocalStep DEF IInv
<1>9. MadeInv'
  <2> SUFFICES ASSUME NEW x \in made
               PROVE  Justified(x)'
    BY <1>2 DEF MadeInv
  <2>1. Justified(x) /\ x.run \in Runs
    BY DEF IInv, MadeInv, TypeOK
  <2>2. x.run # r
    BY <2>1, <1>3 DEF Justified
  <2> QED
    BY <2>1, <2>2, <1>2
    DEF Justified, IdempotencyKey, ActionsAt, TransactionAt
<1>10. KeysInv'
  BY <1>2 DEF IInv, KeysInv
<1>11. CarriedInv'
  <2> SUFFICES ASSUME NEW q \in Runs, NEW pos \in carried[q]
               PROVE  \E x \in made : x.key = IdempotencyKey(q, pos)'
    BY <1>2 DEF CarriedInv
  <2>1. q # r
    BY <1>3
  <2>2. IdempotencyKey(q, pos)' = IdempotencyKey(q, pos)
    BY <2>1, <1>2 DEF IdempotencyKey, ActionsAt, TransactionAt
  <2>3. \E x \in made : x.key = IdempotencyKey(q, pos)
    BY DEF IInv, CarriedInv
  <2> QED
    BY <2>2, <2>3
<1> QED
  BY <1>1, <1>8, <1>9, <1>10, <1>11 DEF Kept

LEMMA WriteTextKeeps ==
  ASSUME IInv, NEW r \in Runs, WriteText(r)
  PROVE  TypeOK' /\ Kept
<1> DEFINE e == [event |-> pc[r], at |-> at[r]]
<1>1. /\ pc[r] \in Events /\ ~half[r] /\ half[r] \in BOOLEAN
      /\ trail[r] \in Seq(Event) /\ at[r] \in Nat \X Nat
  BY DEF WriteText, IInv, TypeOK
<1>2. e \in Event
  BY <1>1 DEF Event
<1>3. Append(trail[r], e) \in Seq(Event)
  BY <1>1, <1>2
<1>4. trail' = [trail EXCEPT ![r] = Append(trail[r], e)]
  BY DEF WriteText
<1>5. TypeOK'
  <2>1. trail' \in [Runs -> Seq(Event)]
    BY <1>3, <1>4 DEF IInv, TypeOK
  <2>2. half' \in [Runs -> BOOLEAN] /\ tail' \subseteq Runs /\ broken' \subseteq Runs
    BY DEF IInv, TypeOK, WriteText, Text
  <2> QED
    BY <2>1, <2>2 DEF IInv, TypeOK, WriteText, sorxVars
<1>6. /\ half'[r] = TRUE /\ trail'[r] = Append(trail[r], e)
      /\ \A q \in Runs \ {r} : half'[q] = half[q] /\ trail'[q] = trail[q]
  BY <1>4 DEF IInv, TypeOK, WriteText
<1>7. Told(pc[r], FALSE, at[r], trail[r], Done(carried[r], hollow[r]))
  BY <1>1 DEF IInv, TrailInv
<1>8. Told(pc[r], TRUE, at[r], trail'[r], Done(carried[r], hollow[r]))
  <2>1. Told(pc[r], TRUE, at[r], Append(trail[r], e), Done(carried[r], hollow[r]))
    BY <1>1, <1>7, ToldWrites
  <2> QED
    BY <2>1, <1>6
<1>9. /\ pc' = pc /\ at' = at /\ input' = input /\ dryRun' = dryRun
      /\ made' = made /\ carried' = carried /\ hollow' = hollow
  BY DEF WriteText, sorxVars
<1>10. Placed(input'[r], dryRun'[r], pc'[r], at'[r])
  BY <1>9 DEF IInv, PlacedInv
<1>11. PlacedInv' /\ TrailInv'
  BY <1>1, <1>6, <1>8, <1>9, <1>10, LocalStep DEF IInv
<1> QED
  BY <1>5, <1>9, <1>11, SorxUnchanged DEF IInv, Kept

LEMMA WriteFailsKeeps ==
  ASSUME IInv, NEW r \in Runs, WriteFails(r)
  PROVE  TypeOK' /\ Kept
<1>1. TypeOK'
  BY DEF IInv, TypeOK, WriteFails, Fail, sorxVars, Ends
<1>2. /\ pc'[r] = "failed" /\ half'[r] = FALSE /\ at' = at
      /\ input' = input /\ dryRun' = dryRun /\ trail' = trail
      /\ carried' = carried /\ hollow' = hollow /\ made' = made
      /\ \A q \in Runs \ {r} : pc'[q] = pc[q] /\ half'[q] = half[q]
  BY DEF IInv, TypeOK, WriteFails, Fail, sorxVars
<1>3. Told(pc[r], half[r], at[r], trail[r], Done(carried[r], hollow[r])) /\ half[r] \in BOOLEAN
  BY DEF IInv, TypeOK, TrailInv
<1>4. Told("failed", FALSE, at[r], trail[r], Done(carried[r], hollow[r]))
  BY <1>3, ToldEnds
<1>5. input[r] # None
  BY DEF WriteFails, IInv, PlacedInv, Placed, Events
<1>6. Placed(input[r], dryRun[r], "failed", at[r])
  BY <1>5 DEF Placed
<1>7. PlacedInv' /\ TrailInv'
  BY <1>2, <1>4, <1>6, LocalStep DEF IInv
<1> QED
  BY <1>1, <1>2, <1>7, SorxUnchanged DEF IInv, Kept

LEMMA KillKeeps ==
  ASSUME IInv, Kill
  PROVE  TypeOK' /\ Kept
<1>1. TypeOK'
  BY DEF IInv, TypeOK, Kill, fileVars, sorxVars, Ends
<1>2. /\ at' = at /\ input' = input /\ dryRun' = dryRun /\ trail' = trail
      /\ carried' = carried /\ hollow' = hollow /\ made' = made
      /\ \A q \in Runs :
           /\ half'[q] = FALSE
           /\ \/ pc[q] \in {"idle"} \cup Ends /\ pc'[q] = pc[q]
              \/ pc[q] \notin {"idle"} \cup Ends /\ pc'[q] = "killed"
  BY DEF IInv, TypeOK, Kill, fileVars, sorxVars
<1>3. PlacedInv'
  <2> SUFFICES ASSUME NEW q \in Runs
               PROVE  Placed(input[q], dryRun[q], pc'[q], at[q])
    BY <1>2 DEF PlacedInv
  <2>1. Placed(input[q], dryRun[q], pc[q], at[q])
    BY DEF IInv, PlacedInv
  <2> QED
    BY <2>1, <1>2 DEF Placed
<1>4. TrailInv'
  <2> SUFFICES ASSUME NEW q \in Runs
               PROVE  Told(pc'[q], FALSE, at[q], trail[q], Done(carried[q], hollow[q]))
    BY <1>2 DEF TrailInv
  <2>1. Told(pc[q], half[q], at[q], trail[q], Done(carried[q], hollow[q])) /\ half[q] \in BOOLEAN
    BY DEF IInv, TypeOK, TrailInv
  <2>2. CASE pc'[q] = "killed"
    BY <2>1, <2>2, ToldEnds
  <2>3. CASE pc[q] \in {"idle"} \cup Ends /\ pc'[q] = pc[q]
    BY <2>1, <2>3 DEF Told, Untold, Ends
  <2> QED
    BY <2>2, <2>3, <1>2
<1> QED
  BY <1>1, <1>2, <1>3, <1>4, SorxUnchanged DEF IInv, Kept

\* The decision that an action is of has been told, and an action that was
\* applied is told when its line is ended.
LEMMA ToldAtAction ==
  ASSUME IInv, NEW r \in Runs, pc[r] \in Events, half[r]
  PROVE  /\ ~Untold(pc[r], half[r])
         /\ pc[r] \in {"decision.created", "action.applied", "action.skipped"}
            => Has(trail[r], "decision.created", <<at[r][1], 0>>)
         /\ input[r] \in Inputs
         /\ Placed(input[r], dryRun[r], pc[r], at[r])
         /\ at[r] \in Nat \X Nat
<1>1. Told(pc[r], half[r], at[r], trail[r], Done(carried[r], hollow[r]))
  BY DEF IInv, TrailInv
<1>2. Placed(input[r], dryRun[r], pc[r], at[r])
  BY DEF IInv, PlacedInv
<1>3. pc[r] # "idle" /\ pc[r] \notin {"failed", "killed"}
  BY DEF Events
<1>4. input[r] \in Inputs /\ at[r] \in Nat \X Nat
  BY <1>2, <1>3 DEF IInv, TypeOK, Placed
<1>5. pc[r] = "decision.created" => at[r] = <<at[r][1], 0>>
  BY <1>2 DEF Placed
<1> QED
  BY <1>1, <1>2, <1>3, <1>4, <1>5 DEF Told, Untold

LEMMA StartedKeeps ==
  ASSUME IInv, NEW r \in Runs, Started(r)
  PROVE  TypeOK' /\ Kept
<1>1. PICK stage \in {"bulk_ingest", "input.accepted", "failed"} :
        Goto(r, stage, <<0, 0>>)
  BY DEF Started
<1>2. /\ half' = [half EXCEPT ![r] = FALSE] /\ tail' = {}
      /\ UNCHANGED <<input, dryRun, applied, skipped, report, broken, trail,
                     sorxVars>>
      /\ pc[r] = "run.started" /\ half[r]
  BY DEF Started, EndLine
<1>3. TypeOK'
  BY <1>1, <1>2 DEF IInv, TypeOK, Goto, Events, Ends, sorxVars
<1>4. ~Untold(pc[r], half[r]) /\ input[r] \in Inputs
  BY <1>2, ToldAtAction DEF Events
<1>5. Placed(input[r], dryRun[r], stage, <<0, 0>>)
  BY <1>4 DEF Placed
<1>6. stage \notin {"idle", "action.applied", "apply", "action.skipped"}
  OBVIOUS
<1>7. Kept
  BY <1>1, <1>2, <1>4, <1>5, <1>6, Moves DEF Kept, sorxVars
<1> QED
  BY <1>3, <1>7

\* A bulk ingest ends, with an error or with a report.
LEMMA BulkLeaves ==
  ASSUME IInv, NEW r \in Runs, NEW stage \in {"run.completed", "failed"},
         pc[r] = "bulk_ingest", Goto(r, stage, <<0, 0>>),
         UNCHANGED <<input, dryRun, applied, report, half, fileVars, made,
                     hollow, carried>>,
         skipped' \in [Runs -> Nat], ingested' \in [Runs -> SUBSET Nat]
  PROVE  TypeOK' /\ Kept
<1>1. UNCHANGED <<tail, broken, trail>>
  BY DEF fileVars
<1>2. TypeOK'
  BY <1>1 DEF IInv, TypeOK, Goto, Events, Ends
<1>3. ~half[r] /\ ~Untold(pc[r], half[r]) /\ input[r] # None
  BY DEF IInv, PlacedInv, Placed, Untold, Events
<1>4. Placed(input[r], dryRun[r], stage, <<0, 0>>)
  BY <1>3 DEF Placed
<1>5. stage \notin {"idle", "action.applied", "apply", "action.skipped"}
  OBVIOUS
<1>6. Kept
  BY <1>1, <1>3, <1>4, <1>5, Moves DEF Kept
<1> QED
  BY <1>2, <1>6

LEMMA SorxIngestsType ==
  ASSUME TypeOK, NEW r \in Runs, SorxIngests(r) \/ UNCHANGED ingested
  PROVE  ingested' \in [Runs -> SUBSET Nat]
<1>1. ingested \in [Runs -> SUBSET Nat] /\ applied[r] + 1 \in Nat
  BY DEF TypeOK
<1>2. ingested[r] \cup {applied[r] + 1} \in SUBSET Nat
  BY <1>1
<1> QED
  BY <1>1, <1>2 DEF SorxIngests

LEMMA BulkEndsKeeps ==
  ASSUME IInv, NEW r \in Runs,
         BulkIsRefused(r) \/ BulkIsPlanned(r) \/ IngestFails(r) \/ IngestEnds(r)
  PROVE  TypeOK' /\ Kept
<1>1. CASE BulkIsRefused(r)
  BY <1>1, BulkLeaves DEF BulkIsRefused, sorxVars, IInv, TypeOK
<1>2. CASE BulkIsPlanned(r)
  <2>1. skipped' \in [Runs -> Nat]
    <3>1. PICK n \in 0..input[r].records :
            skipped' = [skipped EXCEPT ![r] = IF dryRun[r] THEN n ELSE 0]
      BY <1>2 DEF BulkIsPlanned
    <3>2. n \in Nat
      BY <3>1
    <3> QED
      BY <3>1, <3>2 DEF IInv, TypeOK
  <2> QED
    BY <1>2, <2>1, BulkLeaves DEF BulkIsPlanned, ReportBulk, IInv, TypeOK
<1>3. CASE IngestFails(r)
  <2>1. ingested' \in [Runs -> SUBSET Nat]
    BY <1>3, SorxIngestsType DEF IngestFails, IInv
  <2> QED
    BY <1>3, <2>1, BulkLeaves
    DEF IngestFails, ReportBulk, Executes, IInv, TypeOK
<1>4. CASE IngestEnds(r)
  BY <1>4, BulkLeaves DEF IngestEnds, ReportBulk, Executes, IInv, TypeOK
<1> QED
  BY <1>1, <1>2, <1>3, <1>4

LEMMA IngestSucceedsKeeps ==
  ASSUME IInv, NEW r \in Runs, IngestSucceeds(r)
  PROVE  TypeOK' /\ Kept
<1>1. /\ UNCHANGED <<pc, input, dryRun, at, skipped, report, half, tail, broken,
                     trail, made, carried>>
      /\ applied[r] + 1 \in Nat
  BY DEF IngestSucceeds, fileVars, IInv, TypeOK
<1>2. applied' \in [Runs -> Nat] /\ ingested' \in [Runs -> SUBSET Nat]
  <2>1. ingested' \in [Runs -> SUBSET Nat]
    BY SorxIngestsType DEF IngestSucceeds, IInv
  <2> QED
    BY <1>1, <2>1 DEF IngestSucceeds, IInv, TypeOK
<1>3. \/ hollow' = hollow
      \/ hollow' = [hollow EXCEPT ![r] = @ \cup {<<0, applied[r] + 1>>}]
  BY DEF IngestSucceeds
<1>4. /\ hollow' \in [Runs -> SUBSET (Nat \X Nat)]
      /\ \/ hollow' = hollow
         \/ /\ hollow'[r] = hollow[r] \cup {<<0, applied[r] + 1>>}
            /\ \A q \in Runs \ {r} : hollow'[q] = hollow[q]
  <2>1. hollow \in [Runs -> SUBSET (Nat \X Nat)] /\ <<0, applied[r] + 1>> \in Nat \X Nat
    BY <1>1 DEF IInv, TypeOK
  <2>2. hollow[r] \cup {<<0, applied[r] + 1>>} \in SUBSET (Nat \X Nat)
    BY <2>1
  <2> QED
    BY <1>3, <2>1, <2>2
<1>5. \A q \in Runs : Done(carried'[q], hollow'[q]) = Done(carried[q], hollow[q])
  BY <1>1, <1>4 DEF Done
<1>6. TypeOK'
  BY <1>1, <1>2, <1>4 DEF IInv, TypeOK
<1>7. PlacedInv' /\ TrailInv'
  BY <1>1, <1>5 DEF IInv, PlacedInv, TrailInv
<1> QED
  BY <1>1, <1>6, <1>7, SorxUnchanged DEF IInv, Kept

LEMMA AcceptedKeeps ==
  ASSUME IInv, NEW r \in Runs, Accepted(r)
  PROVE  TypeOK' /\ Kept
<1>1. /\ half' = [half EXCEPT ![r] = FALSE] /\ tail' = {}
      /\ UNCHANGED <<input, dryRun, applied, report, broken, trail, sorxVars>>
      /\ pc[r] = "input.accepted" /\ half[r]
      /\ GotoDecision(r, 1)
  BY DEF Accepted, EndLine
<1>2. ~Untold(pc[r], half[r]) /\ input[r] \in Inputs
  BY <1>1, ToldAtAction DEF Events
<1>3. PICK stage \in {"run.completed", "decision.created"},
           pos \in Nat \X Nat :
        Goto(r, stage, pos) /\ Placed(input[r], dryRun[r], stage, pos)
  BY <1>1, <1>2, DecisionFollows DEF IInv
<1>4. skipped' \in [Runs -> Nat]
  BY <1>1, SkippedType DEF IInv
<1>5. TypeOK'
  BY <1>1, <1>3, <1>4 DEF IInv, TypeOK, Goto, Events, sorxVars
<1>6. stage \notin {"idle", "action.applied", "apply", "action.skipped"}
  OBVIOUS
<1>7. Kept
  BY <1>1, <1>2, <1>3, <1>6, Moves DEF Kept, sorxVars
<1> QED
  BY <1>5, <1>7

\* Decided and Noted: the j-th action of the decision, or what comes after it.
LEMMA GoesToAction ==
  ASSUME IInv, NEW r \in Runs, NEW j \in Nat \ {0}, half[r],
         pc[r] \in {"decision.created", "action.applied", "action.skipped"},
         half' = [half EXCEPT ![r] = FALSE], tail' = {},
         UNCHANGED <<input, dryRun, applied, report, broken, trail, sorxVars>>,
         GotoAction(r, at[r][1], j)
  PROVE  TypeOK' /\ Kept
<1>1. pc[r] \in Events
  BY DEF Events
<1>2. /\ ~Untold(pc[r], half[r]) /\ input[r] \in Inputs
      /\ Has(trail[r], "decision.created", <<at[r][1], 0>>)
      /\ Placed(input[r], dryRun[r], pc[r], at[r])
  BY <1>1, ToldAtAction
<1>3. at[r][1] \in DOMAIN input[r].transactions
  BY <1>2 DEF Placed, IsAction
<1>4. PICK stage \in Following, pos \in Nat \X Nat :
        /\ Goto(r, stage, pos)
        /\ Placed(input[r], dryRun[r], stage, pos)
        /\ stage \in {"apply", "action.skipped"} => pos[1] = at[r][1]
  BY <1>2, <1>3, ActionFollows DEF IInv
<1>5. skipped' \in [Runs -> Nat]
  BY SkippedType DEF IInv
<1>6. TypeOK'
  BY <1>4, <1>5 DEF IInv, TypeOK, Goto, Events, Following, sorxVars
<1>7. stage \notin {"idle", "action.applied"}
  BY DEF Following
<1>8. Kept
  BY <1>2, <1>4, <1>7, Moves DEF Kept, sorxVars
<1> QED
  BY <1>6, <1>8

LEMMA DecidedKeeps ==
  ASSUME IInv, NEW r \in Runs, Decided(r)
  PROVE  TypeOK' /\ Kept
<1>1. 1 \in Nat \ {0}
  OBVIOUS
<1>2. /\ half' = [half EXCEPT ![r] = FALSE] /\ tail' = {}
      /\ UNCHANGED <<input, dryRun, applied, report, broken, trail, sorxVars>>
      /\ pc[r] = "decision.created" /\ half[r]
      /\ GotoAction(r, at[r][1], 1)
  BY DEF Decided, EndLine
<1> QED
  BY <1>1, <1>2, GoesToAction

LEMMA NotedKeeps ==
  ASSUME IInv, NEW r \in Runs, Noted(r)
  PROVE  TypeOK' /\ Kept
<1>1. at[r][2] + 1 \in Nat \ {0}
  BY DEF IInv, TypeOK
<1> QED
  BY <1>1, GoesToAction DEF Noted, EndLine

LEMMA CompletedKeeps ==
  ASSUME IInv, NEW r \in Runs, Completed(r)
  PROVE  TypeOK' /\ Kept
<1>1. /\ half' = [half EXCEPT ![r] = FALSE] /\ tail' = {}
      /\ UNCHANGED <<input, dryRun, at, applied, skipped, broken, trail,
                     sorxVars>>
      /\ pc[r] = "run.completed" /\ half[r]
      /\ pc' = [pc EXCEPT ![r] = "returned"]
      /\ report' = [report EXCEPT ![r] = [applied |-> applied[r],
                                          skipped |-> skipped[r]]]
  BY DEF Completed, EndLine
<1>2. TypeOK'
  <2>1. [applied |-> applied[r], skipped |-> skipped[r]] \in Report
    BY DEF IInv, TypeOK, Report
  <2> QED
    BY <1>1, <2>1 DEF IInv, TypeOK, Ends, sorxVars
<1>3. ~Untold(pc[r], half[r]) /\ input[r] \in Inputs
  BY <1>1, ToldAtAction DEF Events
<1>4. Placed(input[r], dryRun[r], "returned", at[r])
  BY <1>3 DEF Placed
<1>5. Goto(r, "returned", at[r])
  BY <1>1 DEF Goto, IInv, TypeOK
<1>6. "returned" \notin {"idle", "action.applied", "apply", "action.skipped"}
  OBVIOUS
<1>7. Kept
  BY <1>1, <1>3, <1>4, <1>5, <1>6, Moves DEF Kept, sorxVars
<1> QED
  BY <1>2, <1>7

(***************************************************************************)
(* A call of SoRX.                                                         *)
(***************************************************************************)
LEMMA SorxKeeps ==
  ASSUME IInv, NEW r \in Runs, pc[r] = "apply", SorxApplies(r),
         UNCHANGED <<input, dryRun>>
  PROVE  /\ made' \subseteq [key : Key, run : Runs, at : Nat \X Nat]
         /\ carried' = [carried EXCEPT ![r] = @ \cup {at[r]}]
         /\ carried' \in [Runs -> SUBSET (Nat \X Nat)]
         /\ MadeInv' /\ KeysInv' /\ CarriedInv'
<1> DEFINE key == IdempotencyKey(r, at[r])
           new == [key |-> key, run |-> r, at |-> at[r]]
<1>1. Placed(input[r], dryRun[r], "apply", at[r])
  BY DEF IInv, PlacedInv
<1>2. /\ input[r] \in Inputs /\ IsAction(input[r], at[r])
      /\ at[r] \in Nat \X Nat
      /\ input[r] # None /\ ~dryRun[r]
      /\ AutoApply(Outcome(TransactionAt(r, at[r][1])))
  BY <1>1 DEF IInv, TypeOK, Placed, TransactionAt
<1>3. key \in Key
  BY <1>2, KeyType
<1>4. new \in [key : Key, run : Runs, at : Nat \X Nat]
  BY <1>2, <1>3
<1>5. new.key = key /\ new.run = r /\ new.at = at[r]
  OBVIOUS
<1>6. /\ made' = IF \E x \in made : x.key = key THEN made
                 ELSE made \cup {new}
      /\ carried' = [carried EXCEPT ![r] = @ \cup {at[r]}]
  BY DEF SorxApplies
<1>7. Justified(new)
  BY <1>2, <1>5 DEF Justified
<1>8. \A q, pos : IdempotencyKey(q, pos)' = IdempotencyKey(q, pos)
  BY DEF IdempotencyKey, ActionsAt, TransactionAt
<1>9. \A x : Justified(x)' <=> Justified(x)
  BY DEF Justified, IdempotencyKey, ActionsAt, TransactionAt
<1> HIDE DEF key, new
<1>10. made' \subseteq [key : Key, run : Runs, at : Nat \X Nat]
  BY <1>4, <1>6 DEF IInv, TypeOK
<1>11. carried' \in [Runs -> SUBSET (Nat \X Nat)]
  BY <1>2, <1>6 DEF IInv, TypeOK
<1>12. MadeInv'
  BY <1>6, <1>7, <1>9 DEF IInv, MadeInv
<1>13. KeysInv'
  BY <1>5, <1>6 DEF IInv, KeysInv
<1>14. \E x \in made' : x.key = key
  BY <1>5, <1>6
<1>15. CarriedInv'
  <2> SUFFICES ASSUME NEW q \in Runs, NEW pos \in carried'[q]
               PROVE  \E x \in made' : x.key = IdempotencyKey(q, pos)
    BY <1>8 DEF CarriedInv
  <2>1. CASE q = r /\ pos = at[r]
    BY <2>1, <1>14 DEF key
  <2>2. CASE pos \in carried[q]
    BY <2>2, <1>6 DEF IInv, CarriedInv
  <2> QED
    BY <2>1, <2>2, <1>6 DEF IInv, TypeOK
<1> QED
  BY <1>6, <1>10, <1>11, <1>12, <1>13, <1>15

\* The call was made, whatever the run is told of it.
LEMMA AppliesKeeps ==
  ASSUME IInv, NEW r \in Runs, pc[r] = "apply", SorxApplies(r),
         UNCHANGED <<input, dryRun, skipped, report, tail, broken, trail,
                     ingested, hollow>>,
         applied' \in [Runs -> Nat], half' \in [Runs -> BOOLEAN],
         half'[r] = FALSE, \A q \in Runs \ {r} : half'[q] = half[q],
         NEW stage \in {"action.applied", "failed"}, Goto(r, stage, at[r])
  PROVE  TypeOK' /\ Kept
<1>1. /\ made' \subseteq [key : Key, run : Runs, at : Nat \X Nat]
      /\ carried' = [carried EXCEPT ![r] = @ \cup {at[r]}]
      /\ carried' \in [Runs -> SUBSET (Nat \X Nat)]
      /\ MadeInv' /\ KeysInv' /\ CarriedInv'
  BY SorxKeeps
<1>2. TypeOK'
  BY <1>1 DEF IInv, TypeOK, Goto, Events, Ends
<1>3. /\ Placed(input[r], dryRun[r], "apply", at[r])
      /\ Told("apply", half[r], at[r], trail[r], Done(carried[r], hollow[r]))
      /\ half[r] = FALSE
  BY DEF IInv, PlacedInv, TrailInv, TypeOK, Events
<1>4. Told("apply", FALSE, at[r], trail[r], Done(carried[r], hollow[r]))
  BY <1>3
<1>5. Placed(input[r], dryRun[r], stage, at[r])
  BY <1>3 DEF Placed
<1>6. /\ pc'[r] = stage /\ at'[r] = at[r]
      /\ Done(carried'[r], hollow[r]) = Done(carried[r], hollow[r]) \cup {at[r]}
      /\ \A q \in Runs \ {r} :
           pc'[q] = pc[q] /\ at'[q] = at[q] /\ carried'[q] = carried[q]
  BY <1>1 DEF IInv, TypeOK, Goto, Done
<1>7. Told(stage, FALSE, at[r], trail[r], Done(carried'[r], hollow[r]))
  BY <1>4, <1>6 DEF Told, Untold
<1>8. PlacedInv' /\ TrailInv'
  BY <1>5, <1>6, <1>7, LocalStep DEF IInv
<1> QED
  BY <1>1, <1>2, <1>8 DEF Kept

LEMMA ApplySucceedsKeeps ==
  ASSUME IInv, NEW r \in Runs, ApplySucceeds(r)
  PROVE  TypeOK' /\ Kept
<1>1. half[r] = FALSE /\ half' = half
  BY DEF IInv, PlacedInv, TypeOK, ApplySucceeds, Events
<1>2. applied' \in [Runs -> Nat] /\ half' \in [Runs -> BOOLEAN]
  BY <1>1 DEF IInv, TypeOK, ApplySucceeds
<1>3. UNCHANGED <<input, dryRun, skipped, report, tail, broken, trail, ingested,
                  hollow>>
  BY DEF ApplySucceeds, fileVars
<1> QED
  BY <1>1, <1>2, <1>3, AppliesKeeps DEF ApplySucceeds

\* The run is told that the action was applied, and no one was asked to.
LEMMA ApplyIsHollowKeeps ==
  ASSUME IInv, NEW r \in Runs, ApplyIsHollow(r)
  PROVE  TypeOK' /\ Kept
<1>1. /\ UNCHANGED <<input, dryRun, skipped, report, half, tail, broken, trail,
                     made, ingested, carried>>
      /\ pc'[r] = "action.applied" /\ at' = at
      /\ \A q \in Runs \ {r} : pc'[q] = pc[q]
      /\ hollow' = [hollow EXCEPT ![r] = @ \cup {at[r]}]
      /\ at[r] \in Nat \X Nat
  BY DEF ApplyIsHollow, Goto, fileVars, IInv, TypeOK
<1>2. /\ Placed(input[r], dryRun[r], "apply", at[r])
      /\ Told("apply", FALSE, at[r], trail[r], Done(carried[r], hollow[r]))
      /\ half[r] = FALSE
  BY DEF ApplyIsHollow, IInv, PlacedInv, TrailInv, TypeOK, Events
<1>3. input[r] \in Inputs /\ IsAction(input[r], at[r])
  BY <1>2 DEF IInv, TypeOK, Placed
<1>4. at[r][1] # 0
  <2>1. input[r].transactions \in Seq(Transaction)
    BY <1>3 DEF Input
  <2> QED
    BY <1>3, <2>1 DEF IsAction
<1>5. TypeOK'
  <2>1. hollow \in [Runs -> SUBSET (Nat \X Nat)]
    BY DEF IInv, TypeOK
  <2>2. hollow[r] \cup {at[r]} \in SUBSET (Nat \X Nat)
    BY <1>1, <2>1
  <2>3. hollow' \in [Runs -> SUBSET (Nat \X Nat)]
    BY <1>1, <2>1, <2>2
  <2>4. pc' = [pc EXCEPT ![r] = "action.applied"]
        /\ applied' = [applied EXCEPT ![r] = @ + 1]
    BY DEF ApplyIsHollow, Goto
  <2>5. pc' \in [Runs -> {"idle", "bulk_ingest", "apply"} \cup Events \cup Ends]
    BY <2>4 DEF IInv, TypeOK, Events
  <2>6. applied' \in [Runs -> Nat]
    BY <2>4 DEF IInv, TypeOK
  <2> QED
    BY <1>1, <2>3, <2>5, <2>6 DEF IInv, TypeOK
<1>6. /\ hollow'[r] = hollow[r] \cup {at[r]}
      /\ \A q \in Runs \ {r} : hollow'[q] = hollow[q]
  BY <1>1 DEF IInv, TypeOK
<1>7. Done(carried[r], hollow'[r]) = Done(carried[r], hollow[r]) \cup {at[r]}
  BY <1>4, <1>6 DEF Done
<1>8. Told("action.applied", FALSE, at[r], trail[r], Done(carried[r], hollow'[r]))
  BY <1>2, <1>7 DEF Told, Untold
<1>9. Placed(input[r], dryRun[r], "action.applied", at[r])
  BY <1>2 DEF Placed
<1>10. PlacedInv' /\ TrailInv'
  BY <1>1, <1>2, <1>6, <1>8, <1>9, LocalStep DEF IInv
<1> QED
  BY <1>1, <1>5, <1>10, SorxUnchanged DEF IInv, Kept

LEMMA ApplyFailsKeeps ==
  ASSUME IInv, NEW r \in Runs, ApplyFails(r)
  PROVE  TypeOK' /\ Kept
<1>1. /\ half'[r] = FALSE /\ half' \in [Runs -> BOOLEAN]
      /\ \A q \in Runs \ {r} : half'[q] = half[q]
      /\ Goto(r, "failed", at[r])
      /\ UNCHANGED <<input, dryRun, at, applied, skipped, report, tail, broken,
                     trail>>
      /\ pc[r] = "apply"
  BY DEF IInv, TypeOK, ApplyFails, Fail, Goto, fileVars
<1>2. CASE SorxApplies(r) /\ UNCHANGED <<ingested, hollow>>
  BY <1>1, <1>2, AppliesKeeps DEF IInv, TypeOK
<1>3. CASE UNCHANGED sorxVars
  <2>1. UNCHANGED <<made, ingested, hollow, carried>>
    BY <1>3 DEF sorxVars
  <2>2. TypeOK'
    BY <1>1, <2>1 DEF IInv, TypeOK, Goto, Ends
  <2>3. half' = [half EXCEPT ![r] = FALSE]
    BY DEF ApplyFails, Fail
  <2>4. ~Untold(pc[r], half[r]) /\ input[r] # None
    BY <1>1 DEF IInv, PlacedInv, Placed, Untold
  <2>5. Placed(input[r], dryRun[r], "failed", at[r])
    BY <2>4 DEF Placed
  <2>6. "failed" \notin {"idle", "action.applied", "apply", "action.skipped"}
    OBVIOUS
  <2>7. Kept
    BY <1>1, <2>1, <2>3, <2>4, <2>5, <2>6, Moves DEF Kept
  <2> QED
    BY <2>2, <2>7
<1> QED
  BY <1>2, <1>3 DEF ApplyFails

LEMMA NextKeeps ==
  ASSUME IInv, [Next]_vars
  PROVE  IInv'
<1>1. CASE UNCHANGED vars
  <2>1. TypeOK' /\ PlacedInv' /\ TrailInv'
    BY <1>1 DEF IInv, TypeOK, PlacedInv, TrailInv, vars, runVars, fileVars,
                sorxVars
  <2>2. MadeInv' /\ KeysInv' /\ CarriedInv'
    BY <1>1, SorxUnchanged DEF IInv, vars, runVars, sorxVars
  <2> QED
    BY <2>1, <2>2 DEF IInv
<1>2. ASSUME NEW r \in Runs, NEW in \in Inputs, NEW dry \in BOOLEAN,
             Begin(r, in, dry)
      PROVE  IInv'
  BY <1>2, BeginKeeps DEF Kept, IInv
<1>3. ASSUME NEW r \in Runs, Step(r)
      PROVE  TypeOK' /\ Kept
  <2>1. CASE WriteText(r)
    BY <2>1, WriteTextKeeps
  <2>2. CASE WriteFails(r)
    BY <2>2, WriteFailsKeeps
  <2>3. CASE Started(r)
    BY <2>3, StartedKeeps
  <2>4. CASE BulkIsRefused(r) \/ BulkIsPlanned(r) \/ IngestFails(r) \/ IngestEnds(r)
    BY <2>4, BulkEndsKeeps
  <2>5. CASE Accepted(r)
    BY <2>5, AcceptedKeeps
  <2>6. CASE Decided(r)
    BY <2>6, DecidedKeeps
  <2>7. CASE Noted(r)
    BY <2>7, NotedKeeps
  <2>8. CASE Completed(r)
    BY <2>8, CompletedKeeps
  <2>9. CASE ApplySucceeds(r)
    BY <2>9, ApplySucceedsKeeps
  <2>10. CASE ApplyFails(r)
    BY <2>10, ApplyFailsKeeps
  <2>11. CASE ApplyIsHollow(r)
    BY <2>11, ApplyIsHollowKeeps
  <2>12. CASE IngestSucceeds(r)
    BY <2>12, IngestSucceedsKeeps
  <2> QED
    BY <1>3, <2>1, <2>2, <2>3, <2>4, <2>5, <2>6, <2>7, <2>8, <2>9, <2>10, <2>11,
       <2>12
    DEF Step
<1>4. CASE Kill
  BY <1>4, KillKeeps DEF Kept, IInv
<1>5. ASSUME NEW r \in Runs, Step(r)
      PROVE  IInv'
  BY <1>3, <1>5 DEF Kept, IInv
<1> QED
  BY <1>1, <1>2, <1>4, <1>5 DEF Next

LEMMA Invariance == Spec => []IInv
<1>1. IInv /\ [Next]_vars => IInv'
  BY NextKeeps
<1> QED
  BY <1>1, Initially, PTL DEF Spec

-----------------------------------------------------------------------------
(***************************************************************************)
(* Dry runs, and bulk ingests, of which the counts alone tell: a of the    *)
(* operations were made, or were said to be, and of the others at most the *)
(* one that failed, which ends the run.                                    *)
(***************************************************************************)
Bulk(in) == in # None /\ in.capability = "bulk_ingest"

BulkTold(in, dry, stage, a, s, rep, ing, h) ==
  /\ stage \in {"run.started", "bulk_ingest", "run.completed"} \cup Ends
  /\ \A k \in 1..a : k \in ing \/ <<0, k>> \in h
  /\ stage \in {"run.started", "bulk_ingest"} => s = 0 /\ \A k \in ing : k <= a
  /\ stage \in {"run.completed", "returned"} =>
       /\ \A k \in ing : k <= a \/ (k = a + 1 /\ a < in.records)
       /\ in.shape = "batch" => s = IF dry THEN in.records ELSE 0
  /\ rep # None => stage = "returned" /\ rep.applied = a /\ rep.skipped = s

Ingests(in, dry, stage, a, s, rep, ing, h, c) ==
  /\ in = None => a = 0 /\ s = 0 /\ rep = None /\ ing = {}
  /\ dry => c = {} /\ ing = {}
  /\ stage = "bulk_ingest" => Bulk(in)
  /\ Bulk(in) => BulkTold(in, dry, stage, a, s, rep, ing, h)

IngestInv ==
  \A r \in Runs : Ingests(input[r], dryRun[r], pc[r], applied[r], skipped[r],
                         report[r], ingested[r], hollow[r], carried[r])

LEMMA IngestLocal ==
  ASSUME IngestInv, NEW r \in Runs,
         \A q \in Runs \ {r} :
           /\ input'[q] = input[q] /\ dryRun'[q] = dryRun[q] /\ pc'[q] = pc[q]
           /\ applied'[q] = applied[q] /\ skipped'[q] = skipped[q]
           /\ report'[q] = report[q] /\ ingested'[q] = ingested[q]
           /\ hollow'[q] = hollow[q] /\ carried'[q] = carried[q],
         Ingests(input'[r], dryRun'[r], pc'[r], applied'[r], skipped'[r],
                 report'[r], ingested'[r], hollow'[r], carried'[r])
  PROVE  IngestInv'
<1> SUFFICES ASSUME NEW q \in Runs
             PROVE  Ingests(input'[q], dryRun'[q], pc'[q], applied'[q], skipped'[q],
                            report'[q], ingested'[q], hollow'[q], carried'[q])
  BY DEF IngestInv
<1> QED
  BY DEF IngestInv

\* A step of a reconciliation, or of any run that an error ends.
LEMMA IngestElsewhere ==
  ASSUME IInv, IngestInv, NEW r \in Runs, input[r] # None,
         UNCHANGED <<input, dryRun, ingested>>, pc'[r] # "bulk_ingest",
         \/ ~Bulk(input[r])
         \/ /\ pc[r] # "returned" /\ pc'[r] \in {"failed", "killed"}
            /\ UNCHANGED <<applied, report, hollow>>,
         \/ carried' = carried
         \/ ~dryRun[r] /\ \A q \in Runs \ {r} : carried'[q] = carried[q],
         \A q \in Runs \ {r} :
           /\ pc'[q] = pc[q] /\ applied'[q] = applied[q] /\ skipped'[q] = skipped[q]
           /\ report'[q] = report[q] /\ hollow'[q] = hollow[q]
  PROVE  IngestInv'
<1>1. Ingests(input[r], dryRun[r], pc[r], applied[r], skipped[r], report[r],
              ingested[r], hollow[r], carried[r])
  BY DEF IngestInv
<1>2. dryRun[r] => carried'[r] = {} /\ ingested'[r] = {}
  BY <1>1 DEF Ingests
<1>3. Bulk(input[r]) => BulkTold(input[r], dryRun[r], pc'[r], applied'[r], skipped'[r],
                                 report'[r], ingested'[r], hollow'[r])
  BY <1>1 DEF Ingests, BulkTold, Ends
<1>4. Ingests(input'[r], dryRun'[r], pc'[r], applied'[r], skipped'[r],
              report'[r], ingested'[r], hollow'[r], carried'[r])
  BY <1>2, <1>3 DEF Ingests
<1> QED
  BY <1>4, IngestLocal

LEMMA IngestInit ==
  ASSUME Init
  PROVE  IngestInv
BY DEF Init, IngestInv, Ingests, Bulk

LEMMA IngestBegin ==
  ASSUME IInv, IngestInv, NEW r \in Runs, NEW in \in Inputs, NEW dry \in BOOLEAN,
         Begin(r, in, dry)
  PROVE  IngestInv'
<1>1. /\ input'[r] = in /\ dryRun'[r] = dry /\ pc'[r] \in {"failed", "run.started"}
      /\ \A q \in Runs \ {r} :
           input'[q] = input[q] /\ dryRun'[q] = dryRun[q] /\ pc'[q] = pc[q]
      /\ UNCHANGED <<applied, skipped, report, ingested, hollow, carried>>
  BY DEF Begin, Goto, sorxVars, IInv, TypeOK
<1>2. pc[r] = "idle" /\ input[r] = None /\ carried[r] = {} /\ in # None
  BY DEF Begin, IInv, PlacedInv, Placed, TrailInv, Told, Done
<1>3. applied[r] = 0 /\ skipped[r] = 0 /\ report[r] = None /\ ingested[r] = {}
  BY <1>2 DEF IngestInv, Ingests
<1>4. BulkTold(in, dry, pc'[r], 0, 0, None, {}, hollow[r])
  BY <1>1 DEF BulkTold, Ends
<1>5. Ingests(in, dry, pc'[r], 0, 0, None, {}, hollow[r], {})
  BY <1>1, <1>2, <1>4 DEF Ingests
<1> QED
  BY <1>1, <1>2, <1>3, <1>5, IngestLocal

\* The steps from one event to the next, and the calls for actions.
LEMMA IngestGoesOn ==
  ASSUME IInv, IngestInv, NEW r \in Runs,
         \/ Accepted(r) \/ Decided(r) \/ Noted(r)
         \/ ApplySucceeds(r) \/ ApplyIsHollow(r) \/ ApplyFails(r)
  PROVE  IngestInv'
<1>1. pc[r] \in {"input.accepted", "decision.created", "action.applied",
                 "action.skipped", "apply"}
  BY DEF Accepted, Decided, Noted, EndLine, ApplySucceeds, ApplyIsHollow, ApplyFails
<1>2. input[r] # None
  BY <1>1 DEF IInv, PlacedInv, Placed
<1>3. ~Bulk(input[r])
  BY <1>1 DEF IngestInv, Ingests, BulkTold, Ends
<1>4. UNCHANGED <<input, dryRun, ingested>>
  BY DEF Accepted, Decided, Noted, ApplySucceeds, ApplyIsHollow, ApplyFails, Fail,
         sorxVars
<1>5. \/ carried' = carried
      \/ ~dryRun[r] /\ \A q \in Runs \ {r} : carried'[q] = carried[q]
  <2>1. CASE Accepted(r) \/ Decided(r) \/ Noted(r)
    BY <2>1 DEF Accepted, Decided, Noted, sorxVars
  <2>2. CASE ApplySucceeds(r) \/ ApplyIsHollow(r) \/ ApplyFails(r)
    <3>1. ~dryRun[r]
      BY <2>2 DEF ApplySucceeds, ApplyIsHollow, ApplyFails, IInv, PlacedInv, Placed
    <3>2. SorxApplies(r) => \A q \in Runs \ {r} : carried'[q] = carried[q]
      BY DEF SorxApplies, IInv, TypeOK
    <3> QED
      BY <2>2, <3>1, <3>2 DEF ApplySucceeds, ApplyIsHollow, ApplyFails, sorxVars
  <2> QED
    BY <2>1, <2>2
<1>6. /\ pc'[r] # "bulk_ingest"
      /\ \A q \in Runs \ {r} : pc'[q] = pc[q] /\ skipped'[q] = skipped[q]
  <2>1. CASE Accepted(r) \/ Decided(r) \/ Noted(r)
    <3>1. PICK i, j : GotoDecision(r, i) \/ GotoAction(r, i, j)
      BY <2>1 DEF Accepted, Decided, Noted
    <3>2. /\ \E stage \in Following : \E pos : Goto(r, stage, pos)
          /\ skipped' = skipped \/ skipped' = [skipped EXCEPT ![r] = @ + 1]
      BY <3>1 DEF GotoAction, GotoDecision, Following
    <3> QED
      BY <3>2 DEF Following, Goto, IInv, TypeOK
  <2>2. CASE ApplySucceeds(r) \/ ApplyIsHollow(r) \/ ApplyFails(r)
    BY <2>2 DEF ApplySucceeds, ApplyIsHollow, ApplyFails, Fail, Goto, IInv, TypeOK
  <2> QED
    BY <2>1, <2>2
<1>7. \A q \in Runs \ {r} :
        applied'[q] = applied[q] /\ report'[q] = report[q] /\ hollow'[q] = hollow[q]
  <2>1. CASE Accepted(r) \/ Decided(r) \/ Noted(r)
    BY <2>1 DEF Accepted, Decided, Noted, sorxVars
  <2>2. CASE ApplySucceeds(r) \/ ApplyIsHollow(r) \/ ApplyFails(r)
    BY <2>2 DEF ApplySucceeds, ApplyIsHollow, ApplyFails, Fail, sorxVars, IInv, TypeOK
  <2> QED
    BY <2>1, <2>2
<1> QED
  BY <1>2, <1>3, <1>4, <1>5, <1>6, <1>7, IngestElsewhere

LEMMA IngestWrites ==
  ASSUME IInv, IngestInv, NEW r \in Runs, WriteText(r) \/ WriteFails(r)
  PROVE  IngestInv'
<1>1. CASE WriteText(r)
  BY <1>1 DEF WriteText, sorxVars, IngestInv
<1>2. CASE WriteFails(r)
  <2>1. /\ pc[r] # "returned" /\ pc'[r] = "failed"
        /\ \A q \in Runs \ {r} : pc'[q] = pc[q]
        /\ UNCHANGED <<input, dryRun, applied, skipped, report, ingested, hollow,
                       carried>>
    BY <1>2 DEF WriteFails, Fail, Events, sorxVars, IInv, TypeOK
  <2>2. input[r] # None
    BY <1>2 DEF WriteFails, IInv, PlacedInv, Placed, Events
  <2> QED
    BY <2>1, <2>2, IngestElsewhere
<1> QED
  BY <1>1, <1>2

LEMMA IngestStarts ==
  ASSUME IInv, IngestInv, NEW r \in Runs, Started(r)
  PROVE  IngestInv'
<1>1. /\ pc[r] = "run.started"
      /\ \A q \in Runs \ {r} : pc'[q] = pc[q]
      /\ UNCHANGED <<input, dryRun, applied, skipped, report, ingested, hollow,
                     carried>>
      /\ pc'[r] = "bulk_ingest" => input[r].capability = "bulk_ingest"
      /\ input[r].capability = "bulk_ingest" => pc'[r] = "bulk_ingest"
  BY DEF Started, EndLine, Goto, sorxVars, IInv, TypeOK
<1>2. input[r] # None
  BY <1>1 DEF IInv, PlacedInv, Placed
<1>3. CASE Bulk(input[r])
  <2>1. Ingests(input[r], dryRun[r], "run.started", applied[r], skipped[r], report[r],
                ingested[r], hollow[r], carried[r])
    BY <1>1 DEF IngestInv
  <2>2. Ingests(input[r], dryRun[r], "bulk_ingest", applied[r], skipped[r], report[r],
                ingested[r], hollow[r], carried[r])
    BY <1>3, <2>1 DEF Ingests, BulkTold
  <2> QED
    BY <1>1, <1>3, <2>2, IngestLocal DEF Bulk
<1>4. CASE ~Bulk(input[r])
  BY <1>1, <1>2, <1>4, IngestElsewhere DEF Bulk
<1> QED
  BY <1>3, <1>4

LEMMA IngestCompletes ==
  ASSUME IInv, IngestInv, NEW r \in Runs, Completed(r)
  PROVE  IngestInv'
<1> DEFINE rep == [applied |-> applied[r], skipped |-> skipped[r]]
<1>1. /\ pc[r] = "run.completed" /\ pc'[r] = "returned" /\ report'[r] = rep
      /\ \A q \in Runs \ {r} : pc'[q] = pc[q] /\ report'[q] = report[q]
      /\ UNCHANGED <<input, dryRun, applied, skipped, ingested, hollow, carried>>
      /\ rep.applied = applied[r] /\ rep.skipped = skipped[r]
  BY DEF Completed, EndLine, sorxVars, IInv, TypeOK
<1> HIDE DEF rep
<1>2. Ingests(input[r], dryRun[r], "run.completed", applied[r], skipped[r], report[r],
              ingested[r], hollow[r], carried[r])
  BY <1>1 DEF IngestInv
<1>3. input[r] # None
  BY <1>1 DEF IInv, PlacedInv, Placed
<1>4. Bulk(input[r]) => BulkTold(input[r], dryRun[r], "returned", applied[r],
                                 skipped[r], rep, ingested[r], hollow[r])
  BY <1>1, <1>2 DEF Ingests, BulkTold, Ends
<1>5. Ingests(input[r], dryRun[r], "returned", applied[r], skipped[r], rep,
              ingested[r], hollow[r], carried[r])
  BY <1>2, <1>3, <1>4 DEF Ingests
<1> QED
  BY <1>1, <1>5, IngestLocal

\* What is known of a bulk ingest before it has its report.
LEMMA IngestUnderway ==
  ASSUME IInv, IngestInv, NEW r \in Runs, pc[r] = "bulk_ingest"
  PROVE  /\ input[r] # None /\ Bulk(input[r])
         /\ applied[r] \in Nat /\ skipped[r] = 0 /\ report[r] = None
         /\ dryRun[r] => carried[r] = {} /\ ingested[r] = {}
         /\ \A k \in 1..applied[r] : k \in ingested[r] \/ <<0, k>> \in hollow[r]
         /\ \A k \in ingested[r] : k \in Nat /\ k <= applied[r]
<1>1. Ingests(input[r], dryRun[r], "bulk_ingest", applied[r], skipped[r], report[r],
              ingested[r], hollow[r], carried[r])
  BY DEF IngestInv
<1>2. input[r] # None /\ Bulk(input[r])
  BY <1>1 DEF Ingests, Bulk
<1>3. applied[r] \in Nat /\ ingested[r] \subseteq Nat
  BY DEF IInv, TypeOK
<1> QED
  BY <1>1, <1>2, <1>3 DEF Ingests, BulkTold

\* The report is made of the counts as they are.
LEMMA IngestReports ==
  ASSUME IInv, IngestInv, NEW r \in Runs, pc[r] = "bulk_ingest", ReportBulk(r),
         \A q \in Runs \ {r} : skipped'[q] = skipped[q] /\ ingested'[q] = ingested[q],
         ingested[r] \subseteq ingested'[r],
         dryRun[r] => ingested'[r] = ingested[r],
         \A k \in ingested'[r] :
           \/ k \in ingested[r]
           \/ k = applied[r] + 1 /\ applied[r] < input[r].records,
         input[r].shape = "batch" =>
           skipped'[r] = IF dryRun[r] THEN input[r].records ELSE 0
  PROVE  IngestInv'
<1>1. /\ pc'[r] = "run.completed" /\ \A q \in Runs \ {r} : pc'[q] = pc[q]
      /\ UNCHANGED <<input, dryRun, applied, report, hollow, carried>>
  BY DEF ReportBulk, Goto, IInv, TypeOK
<1>2. /\ input[r] # None /\ Bulk(input[r])
      /\ applied[r] \in Nat /\ report[r] = None
      /\ dryRun[r] => carried[r] = {} /\ ingested[r] = {}
      /\ \A k \in 1..applied[r] : k \in ingested[r] \/ <<0, k>> \in hollow[r]
      /\ \A k \in ingested[r] : k \in Nat /\ k <= applied[r]
  BY IngestUnderway
<1>3. BulkTold(input[r], dryRun[r], "run.completed", applied[r], skipped'[r], None,
               ingested'[r], hollow[r])
  BY <1>2 DEF BulkTold
<1>4. Ingests(input[r], dryRun[r], "run.completed", applied[r], skipped'[r], None,
              ingested'[r], hollow[r], carried[r])
  BY <1>2, <1>3 DEF Ingests
<1> QED
  BY <1>1, <1>2, <1>4, IngestLocal

LEMMA IngestBulk ==
  ASSUME IInv, IngestInv, NEW r \in Runs,
         \/ BulkIsRefused(r) \/ BulkIsPlanned(r)
         \/ IngestSucceeds(r) \/ IngestFails(r) \/ IngestEnds(r)
  PROVE  IngestInv'
<1>1. pc[r] = "bulk_ingest"
  BY DEF BulkIsRefused, BulkIsPlanned, IngestSucceeds, IngestFails, IngestEnds, Executes
<1>2. /\ input[r] # None /\ Bulk(input[r])
      /\ applied[r] \in Nat /\ skipped[r] = 0 /\ report[r] = None
      /\ dryRun[r] => carried[r] = {} /\ ingested[r] = {}
      /\ \A k \in 1..applied[r] : k \in ingested[r] \/ <<0, k>> \in hollow[r]
      /\ \A k \in ingested[r] : k \in Nat /\ k <= applied[r]
  BY <1>1, IngestUnderway
<1>3. CASE BulkIsRefused(r)
  <2>1. /\ pc'[r] = "failed" /\ \A q \in Runs \ {r} : pc'[q] = pc[q]
        /\ UNCHANGED <<input, dryRun, applied, skipped, report, ingested, hollow,
                       carried>>
    BY <1>3 DEF BulkIsRefused, Goto, sorxVars, IInv, TypeOK
  <2> QED
    BY <1>1, <1>2, <2>1, IngestElsewhere
<1>4. CASE BulkIsPlanned(r)
  <2>1. PICK n \in 0..input[r].records :
          /\ input[r].shape = "batch" => n = input[r].records
          /\ skipped' = [skipped EXCEPT ![r] = IF dryRun[r] THEN n ELSE 0]
    BY <1>4 DEF BulkIsPlanned
  <2>2. /\ skipped'[r] = IF dryRun[r] THEN n ELSE 0
        /\ \A q \in Runs \ {r} : skipped'[q] = skipped[q]
    BY <2>1 DEF IInv, TypeOK
  <2>3. input[r].shape = "batch" => dryRun[r]
    BY <1>1, <1>4 DEF BulkIsPlanned, Executes
  <2>4. ReportBulk(r) /\ ingested' = ingested
    BY <1>4 DEF BulkIsPlanned
  <2> QED
    BY <1>1, <2>1, <2>2, <2>3, <2>4, IngestReports
<1>5. CASE IngestSucceeds(r)
  <2>1. /\ ~dryRun[r] /\ applied'[r] = applied[r] + 1
        /\ \A q \in Runs \ {r} : applied'[q] = applied[q]
        /\ UNCHANGED <<pc, input, dryRun, skipped, report, carried>>
    BY <1>5 DEF IngestSucceeds, Executes, IInv, TypeOK
  <2>2. /\ \A q \in Runs \ {r} : ingested'[q] = ingested[q] /\ hollow'[q] = hollow[q]
        /\ \/ /\ ingested'[r] = ingested[r] \cup {applied[r] + 1}
              /\ hollow'[r] = hollow[r]
           \/ /\ ingested'[r] = ingested[r]
              /\ hollow'[r] = hollow[r] \cup {<<0, applied[r] + 1>>}
    BY <1>5 DEF IngestSucceeds, SorxIngests, IInv, TypeOK
  <2>3. \A k \in 1..applied'[r] : k \in 1..applied[r] \/ k = applied[r] + 1
    BY <1>2, <2>1
  <2>4. \A k \in 1..applied'[r] : k \in ingested'[r] \/ <<0, k>> \in hollow'[r]
    BY <1>2, <2>2, <2>3
  <2>5. \A k \in ingested'[r] : k <= applied'[r]
    BY <1>2, <2>1, <2>2
  <2>6. BulkTold(input[r], dryRun[r], "bulk_ingest", applied'[r], 0, None,
                 ingested'[r], hollow'[r])
    BY <2>4, <2>5 DEF BulkTold, Ends
  <2>7. Ingests(input[r], dryRun[r], "bulk_ingest", applied'[r], 0, None,
                ingested'[r], hollow'[r], carried[r])
    BY <1>2, <2>1, <2>6 DEF Ingests
  <2> QED
    BY <1>1, <1>2, <2>1, <2>2, <2>7, IngestLocal
<1>6. CASE IngestFails(r)
  <2>1. /\ ~dryRun[r] /\ applied[r] < input[r].records /\ ReportBulk(r)
        /\ skipped' = skipped
    BY <1>6 DEF IngestFails, Executes
  <2>2. /\ \A q \in Runs \ {r} : ingested'[q] = ingested[q]
        /\ \/ ingested'[r] = ingested[r] \cup {applied[r] + 1}
           \/ ingested'[r] = ingested[r]
    BY <1>6 DEF IngestFails, SorxIngests, IInv, TypeOK
  <2> QED
    BY <1>1, <1>2, <2>1, <2>2, IngestReports
<1>7. CASE IngestEnds(r)
  <2>1. ~dryRun[r] /\ ReportBulk(r) /\ UNCHANGED <<skipped, ingested>>
    BY <1>7 DEF IngestEnds, Executes
  <2> QED
    BY <1>1, <1>2, <2>1, IngestReports
<1> QED
  BY <1>3, <1>4, <1>5, <1>6, <1>7

LEMMA IngestKill ==
  ASSUME IInv, IngestInv, Kill
  PROVE  IngestInv'
<1>1. /\ UNCHANGED <<input, dryRun, applied, skipped, report, ingested, hollow, carried>>
      /\ \A q \in Runs :
           \/ pc'[q] = pc[q]
           \/ pc[q] \notin {"idle"} \cup Ends /\ pc'[q] = "killed"
  BY DEF Kill, sorxVars, IInv, TypeOK
<1> SUFFICES ASSUME NEW q \in Runs
             PROVE  Ingests(input[q], dryRun[q], pc'[q], applied[q], skipped[q],
                            report[q], ingested[q], hollow[q], carried[q])
  BY <1>1 DEF IngestInv
<1>2. Ingests(input[q], dryRun[q], pc[q], applied[q], skipped[q], report[q],
              ingested[q], hollow[q], carried[q])
  BY DEF IngestInv
<1> QED
  BY <1>1, <1>2 DEF Ingests, BulkTold, Ends

LEMMA IngestNext ==
  ASSUME IInv, IngestInv, [Next]_vars
  PROVE  IngestInv'
<1>1. CASE UNCHANGED vars
  BY <1>1 DEF IngestInv, vars, runVars, sorxVars
<1>2. ASSUME NEW r \in Runs, NEW in \in Inputs, NEW dry \in BOOLEAN, Begin(r, in, dry)
      PROVE  IngestInv'
  BY <1>2, IngestBegin
<1>3. ASSUME NEW r \in Runs, Step(r)
      PROVE  IngestInv'
  BY <1>3, IngestWrites, IngestStarts, IngestGoesOn, IngestCompletes, IngestBulk DEF Step
<1>4. CASE Kill
  BY <1>4, IngestKill
<1> QED
  BY <1>1, <1>2, <1>3, <1>4 DEF Next

LEMMA IngestInvariance == Spec => []IngestInv
<1>1. IInv /\ IngestInv /\ [Next]_vars => IngestInv'
  BY IngestNext
<1> QED
  BY <1>1, IngestInit, Invariance, PTL DEF Spec

-----------------------------------------------------------------------------
(***************************************************************************)
(* The theorems.                                                           *)
(***************************************************************************)
\* Every variable keeps its type; what SoRX has done is under the keys of
\* transactions and actions (business_action, generated_route).
THEOREM TypeCorrect == Spec => []TypeOK
<1>1. IInv => TypeOK
  BY DEF IInv
<1> QED
  BY <1>1, Invariance, PTL

\* The trail of a run claims no action that SoRX was not made to do, unless the
\* call for it ended well without SoRX (run_loaded_pack writes
\* operax.action.applied after a call that is no error, and a redirect or an
\* empty page is none).
THEOREM AuditIsTrue == Spec => []AuditedWereMade
<1>1. IInv => AuditedWereMade
  <2> SUFFICES ASSUME IInv, NEW r \in Runs, NEW k \in DOMAIN trail[r],
                      trail[r][k].event = "action.applied"
               PROVE  \/ \E x \in made : x.key = IdempotencyKey(r, trail[r][k].at)
                      \/ trail[r][k].at \in hollow[r]
    BY DEF AuditedWereMade
  <2>1. trail[r][k].at \in Done(carried[r], hollow[r])
    BY DEF IInv, TrailInv, Told
  <2> QED
    BY <2>1 DEF IInv, CarriedInv, Done
<1> QED
  BY <1>1, Invariance, PTL

\* Whatever fails, each action that SoRX did for a reconciliation has its decision
\* in the trail, and itself unless it is the one at which the run stopped (the
\* order of the calls in run_loaded_pack; run_bulk_ingest writes no events).
THEOREM AuditIsWhole == Spec => []EffectsAreInTrail
<1>1. IInv => EffectsAreInTrail
  <2> SUFFICES ASSUME IInv, NEW r \in Runs, NEW pos \in carried[r]
               PROVE  /\ Wrote(r, "decision.created", <<pos[1], 0>>)
                      /\ \/ Wrote(r, "action.applied", pos)
                         \/ pos = at[r] /\ pc[r] # "returned"
    BY DEF EffectsAreInTrail
  <2>1. Told(pc[r], half[r], at[r], trail[r], Done(carried[r], hollow[r]))
    BY DEF IInv, TrailInv
  <2>2. /\ Has(trail[r], "decision.created", <<pos[1], 0>>)
        /\ \/ Has(trail[r], "action.applied", pos)
           \/ pos = at[r] /\ Untold(pc[r], half[r])
    BY <2>1 DEF Told, Done
  <2>3. Untold(pc[r], half[r]) => pc[r] # "returned"
    BY DEF Untold
  <2> QED
    BY <2>2, <2>3 DEF Has, Wrote
<1> QED
  BY <1>1, Invariance, PTL

\* decide and the dry_run of a request keep what needs approval, and
\* everything of a dry run, be it of transactions or of records, from SoRX.
THEOREM ApprovalIsRespected == Spec => []OnlyApprovedAreMade
<1>1. IInv /\ IngestInv => OnlyApprovedAreMade
  BY DEF IInv, MadeInv, Justified, AutoApply, IngestInv, Ingests, OnlyApprovedAreMade
<1> QED
  BY <1>1, Invariance, IngestInvariance, PTL

\* However often and however concurrently a transaction is submitted, each of
\* its actions is applied once.
THEOREM PaidOnce == Spec => []AppliedOnce
<1>1. IInv => AppliedOnce
  <2> SUFFICES ASSUME IInv, NEW x \in made, NEW y \in made,
                 TransactionAt(x.run, x.at[1]).id
                   = TransactionAt(y.run, y.at[1]).id,
                 ActionsAt(x.run, x.at[1])[x.at[2]]
                   = ActionsAt(y.run, y.at[1])[y.at[2]]
               PROVE  x = y
    BY DEF AppliedOnce
  <2>1. Justified(x) /\ Justified(y)
    BY DEF IInv, MadeInv
  <2>2. x.key = y.key
    BY <2>1 DEF Justified, IdempotencyKey
  <2> QED
    BY <2>2 DEF IInv, KeysInv
<1> QED
  BY <1>1, Invariance, PTL


-----------------------------------------------------------------------------
(***************************************************************************)
(* The trail of a run by itself.  An event tells of an action; the actions *)
(* are told of one after the other, so that those before the front of the  *)
(* run are told of once and those from there on are not.                   *)
(***************************************************************************)
Tells(e) == e.event \in {"action.applied", "action.skipped"}

ToldOnce(t, pos) ==
  \E k \in DOMAIN t :
    /\ Tells(t[k]) /\ t[k].at = pos
    /\ \A l \in DOMAIN t : Tells(t[l]) /\ t[l].at = pos => l = k

Before(p, q) == p[1] < q[1] \/ (p[1] = q[1] /\ p[2] < q[2])

ToldUpTo(in, t, front) ==
  /\ \A k \in DOMAIN t : Tells(t[k]) => Before(t[k].at, front)
  /\ \A i \in DOMAIN in.transactions :
       \A j \in DOMAIN ProposedActions(Outcome(in.transactions[i])) :
         Before(<<i, j>>, front) => ToldOnce(t, <<i, j>>)

ToldAll(in, t) ==
  \A i \in DOMAIN in.transactions :
    \A j \in DOMAIN ProposedActions(Outcome(in.transactions[i])) :
      ToldOnce(t, <<i, j>>)

Underway == {"run.started", "input.accepted", "decision.created", "apply",
             "action.applied", "action.skipped"}

Front(stage, h, pos) ==
  IF stage \in {"action.applied", "action.skipped"} /\ h
  THEN <<pos[1], pos[2] + 1>> ELSE pos

Complete(in, stage, h, pos, t) ==
  /\ stage = "bulk_ingest" => in.capability = "bulk_ingest"
  /\ stage \in {"run.started", "input.accepted"} => pos = <<0, 0>>
  /\ stage \in Underway => ToldUpTo(in, t, Front(stage, h, pos))
  /\ stage = "run.completed" /\ in.capability # "bulk_ingest" => ToldAll(in, t)
  /\ Has(t, "run.completed", <<0, 0>>) =>
       /\ stage \in {"run.completed"} \cup Ends
       /\ in.capability # "bulk_ingest" => ToldAll(in, t)

CompleteInv ==
  \A r \in Runs : Complete(input[r], pc[r], half[r], at[r], trail[r])

\* The counts of a run, but for a bulk ingest, are those of its trail, but for what
\* it is about to tell.
Count(t, event) == Cardinality({k \in DOMAIN t : t[k].event = event})

Pending(stage, h, event) == IF stage = event /\ ~h THEN 1 ELSE 0

Counted(stage, h, t, a, s, rep) ==
  /\ stage \notin {"failed", "killed"} =>
       /\ a = Count(t, "action.applied") + Pending(stage, h, "action.applied")
       /\ s = Count(t, "action.skipped") + Pending(stage, h, "action.skipped")
  /\ rep # None => /\ stage = "returned"
                   /\ rep.applied = Count(t, "action.applied")
                   /\ rep.skipped = Count(t, "action.skipped")

CountInv ==
  \A r \in Runs : ~Bulk(input[r]) =>
    Counted(pc[r], half[r], trail[r], applied[r], skipped[r], report[r])

LEMMA Appended ==
  ASSUME NEW t \in Seq(Event), NEW e \in Event, NEW u, u = Append(t, e)
  PROVE  /\ Len(t) \in Nat /\ Len(t) + 1 \notin DOMAIN t
         /\ DOMAIN t = 1..Len(t) /\ DOMAIN u = DOMAIN t \cup {Len(t) + 1}
         /\ u[Len(t) + 1] = e
         /\ \A k \in DOMAIN t : u[k] = t[k]
         /\ u \in Seq(Event)
<1>1. DOMAIN u = 1..(Len(t) + 1)
  OBVIOUS
<1> QED  BY <1>1

LEMMA CountType ==
  ASSUME NEW t \in Seq(Event), NEW event
  PROVE  IsFiniteSet({k \in DOMAIN t : t[k].event = event}) /\ Count(t, event) \in Nat
<1>1. IsFiniteSet(1..Len(t))
  BY FS_Interval
<1>2. {k \in DOMAIN t : t[k].event = event} \in SUBSET (1..Len(t))
  OBVIOUS
<1> QED  BY <1>1, <1>2, FS_Subset, FS_CardinalityType DEF Count

LEMMA CountAppend ==
  ASSUME NEW t \in Seq(Event), NEW e \in Event, NEW event
  PROVE  Count(Append(t, e), event) =
           Count(t, event) + IF e.event = event THEN 1 ELSE 0
<1> DEFINE u == Append(t, e)
           n == Len(t) + 1
           A == {k \in DOMAIN t : t[k].event = event}
           B == {k \in DOMAIN u : u[k].event = event}
<1>1. /\ n \notin DOMAIN t /\ DOMAIN u = DOMAIN t \cup {n} /\ u[n] = e
      /\ \A k \in DOMAIN t : u[k] = t[k]
  BY Appended
<1>2. IsFiniteSet(A) /\ Cardinality(A) \in Nat
  BY CountType DEF Count
<1> HIDE DEF u, n
<1>3. n \notin A
  BY <1>1
<1>4. CASE e.event = event
  <2>1. B = A \cup {n}
    BY <1>1, <1>4
  <2> HIDE DEF A, B
  <2>2. Cardinality(B) = Cardinality(A) + 1
    BY <1>2, <1>3, <2>1, FS_AddElement
  <2> QED  BY <1>4, <2>2 DEF Count, A, B, u
<1>5. CASE e.event # event
  <2>1. B = A
    BY <1>1, <1>5
  <2> HIDE DEF A, B
  <2>2. Cardinality(B) = Cardinality(A) + 0
    BY <1>2, <2>1
  <2> QED  BY <1>5, <2>2 DEF Count, A, B, u
<1> QED  BY <1>4, <1>5

\* Another event leaves alone what is told of the actions.
LEMMA ToldOnceKept ==
  ASSUME NEW t \in Seq(Event), NEW e \in Event, NEW pos, ToldOnce(t, pos),
         Tells(e) => e.at # pos
  PROVE  ToldOnce(Append(t, e), pos)
<1> DEFINE u == Append(t, e)
           n == Len(t) + 1
<1>1. /\ n \notin DOMAIN t /\ DOMAIN u = DOMAIN t \cup {n} /\ u[n] = e
      /\ \A k \in DOMAIN t : u[k] = t[k]
  BY Appended
<1>2. PICK k \in DOMAIN t :
        /\ Tells(t[k]) /\ t[k].at = pos
        /\ \A l \in DOMAIN t : Tells(t[l]) /\ t[l].at = pos => l = k
  BY DEF ToldOnce
<1> HIDE DEF u, n
<1>3. ToldOnce(u, pos)
  BY <1>1, <1>2 DEF ToldOnce
<1> QED  BY <1>3 DEF u

LEMMA ToldAllKept ==
  ASSUME NEW t \in Seq(Event), NEW e \in Event, NEW in, ToldAll(in, t), ~Tells(e)
  PROVE  ToldAll(in, Append(t, e))
BY ToldOnceKept DEF ToldAll

LEMMA ToldUpToKept ==
  ASSUME NEW t \in Seq(Event), NEW e \in Event, NEW in, NEW front,
         ToldUpTo(in, t, front), ~Tells(e)
  PROVE  ToldUpTo(in, Append(t, e), front)
<1> DEFINE u == Append(t, e)
<1>1. /\ DOMAIN u = DOMAIN t \cup {Len(t) + 1} /\ u[Len(t) + 1] = e
      /\ \A k \in DOMAIN t : u[k] = t[k]
  BY Appended
<1>2. \A pos : ToldOnce(t, pos) => ToldOnce(u, pos)
  BY ToldOnceKept
<1> HIDE DEF u
<1>3. ToldUpTo(in, u, front)
  BY <1>1, <1>2 DEF ToldUpTo
<1> QED  BY <1>3 DEF u

\* The action at the front is told of.
LEMMA FrontTold ==
  ASSUME NEW t \in Seq(Event), NEW e \in Event, NEW in,
         ToldUpTo(in, t, e.at), Tells(e)
  PROVE  ToldUpTo(in, Append(t, e), <<e.at[1], e.at[2] + 1>>)
<1> DEFINE u == Append(t, e)
           n == Len(t) + 1
           f == e.at
           g == <<f[1], f[2] + 1>>
<1>1. /\ n \notin DOMAIN t /\ DOMAIN u = DOMAIN t \cup {n} /\ u[n] = e
      /\ \A k \in DOMAIN t : u[k] = t[k] /\ t[k] \in Event
  BY Appended
<1>2. f \in Nat \X Nat /\ g[1] = f[1] /\ g[2] = f[2] + 1
  BY DEF Event
<1>3. \A p \in Nat \X Nat : Before(p, f) => Before(p, g) /\ p # f
  BY <1>2 DEF Before
<1>4. Before(f, g)
  BY <1>2 DEF Before
<1>5. \A k \in DOMAIN t : t[k].at \in Nat \X Nat
  BY <1>1 DEF Event
<1>6. \A k \in DOMAIN t : Tells(t[k]) => Before(t[k].at, g) /\ t[k].at # f
  BY <1>3, <1>5 DEF ToldUpTo
<1>7. \A k \in DOMAIN u : Tells(u[k]) => Before(u[k].at, g)
  <2> HIDE DEF u, n, g
  <2> QED  BY <1>1, <1>4, <1>6
<1>8. ToldOnce(u, f)
  <2> HIDE DEF u, n, g
  <2> QED  BY <1>1, <1>6 DEF ToldOnce
<1>9. ASSUME NEW i \in DOMAIN in.transactions,
             NEW j \in DOMAIN ProposedActions(Outcome(in.transactions[i])),
             Before(<<i, j>>, g)
      PROVE  ToldOnce(u, <<i, j>>)
  <2>1. CASE <<i, j>> = f
    BY <1>8, <2>1
  <2>2. CASE Before(<<i, j>>, f)
    <3>1. ToldOnce(t, <<i, j>>)
      BY <2>2 DEF ToldUpTo
    <3>2. f # <<i, j>>
      BY <1>2, <2>2 DEF Before
    <3> QED  BY <3>1, <3>2, ToldOnceKept
  <2>3. j \in Nat
    BY ProposedType
  <2>4. i < f[1] \/ (i = f[1] /\ j < f[2] + 1)
    BY <1>2, <1>9 DEF Before
  <2>5. Before(<<i, j>>, f) \/ (i = f[1] /\ j = f[2])
    BY <1>2, <2>3, <2>4 DEF Before
  <2>6. i = f[1] /\ j = f[2] => <<i, j>> = f
    BY <1>2
  <2> QED  BY <2>1, <2>2, <2>5, <2>6
<1> QED  BY <1>7, <1>9 DEF ToldUpTo


\* The front moves on over what is no action of the input.
LEMMA FrontMoves ==
  ASSUME NEW in, NEW t \in Seq(Event), NEW f \in Nat \X Nat, NEW g \in Nat \X Nat,
         ToldUpTo(in, t, f), Before(f, g),
         \A i \in DOMAIN in.transactions :
           \A j \in DOMAIN ProposedActions(Outcome(in.transactions[i])) :
             Before(<<i, j>>, g) => Before(<<i, j>>, f)
  PROVE  ToldUpTo(in, t, g)
<1>1. \A k \in DOMAIN t : t[k].at \in Nat \X Nat
  <2>1. \A k \in DOMAIN t : t[k] \in Event
    OBVIOUS
  <2> QED  BY <2>1 DEF Event
<1>2. \A p \in Nat \X Nat : Before(p, f) => Before(p, g)
  BY DEF Before
<1> QED  BY <1>1, <1>2 DEF ToldUpTo

\* Where a run goes, what is before it is told.
Reaches(in, t, stage, pos) ==
  /\ stage \in Underway => ToldUpTo(in, t, pos)
  /\ stage = "run.completed" => ToldAll(in, t)

LEMMA DecisionReaches ==
  ASSUME TypeOK, NEW r \in Runs, input[r] \in Inputs, NEW i \in Nat \ {0},
         GotoDecision(r, i), ToldUpTo(input[r], trail[r], <<i, 0>>)
  PROVE  /\ \E stage \in {"run.completed", "decision.created"}, pos \in Nat \X Nat :
              Goto(r, stage, pos) /\ Reaches(input[r], trail[r], stage, pos)
         /\ skipped' = skipped
<1>1. input[r].transactions \in Seq(Transaction)
  BY DEF Input
<1>2. CASE i <= Len(input[r].transactions)
  <2>1. Goto(r, "decision.created", <<i, 0>>) /\ <<i, 0>> \in Nat \X Nat
    BY <1>2 DEF GotoDecision
  <2>2. Reaches(input[r], trail[r], "decision.created", <<i, 0>>)
    BY DEF Reaches
  <2> QED  BY <2>1, <2>2 DEF GotoDecision
<1>3. CASE ~(i <= Len(input[r].transactions))
  <2>1. Goto(r, "run.completed", <<0, 0>>) /\ <<0, 0>> \in Nat \X Nat
    BY <1>3 DEF GotoDecision
  <2>2. \A k \in DOMAIN input[r].transactions : k < i
    BY <1>1, <1>3
  <2>3. \A k, j : k < i => Before(<<k, j>>, <<i, 0>>)
    BY DEF Before
  <2>4. ToldAll(input[r], trail[r])
    BY <2>2, <2>3 DEF ToldAll, ToldUpTo
  <2>5. Reaches(input[r], trail[r], "run.completed", <<0, 0>>)
    BY <2>4 DEF Reaches, Underway
  <2> QED  BY <2>1, <2>5 DEF GotoDecision
<1> QED  BY <1>2, <1>3

LEMMA ActionReaches ==
  ASSUME TypeOK, NEW r \in Runs, input[r] \in Inputs,
         NEW i \in DOMAIN input[r].transactions, NEW j \in Nat \ {0},
         GotoAction(r, i, j), ToldUpTo(input[r], trail[r], <<i, j>>)
  PROVE  \E stage \in Following, pos \in Nat \X Nat :
           /\ Goto(r, stage, pos)
           /\ Reaches(input[r], trail[r], stage, pos)
           /\ skipped'[r] = skipped[r] + Pending(stage, FALSE, "action.skipped")
           /\ \A q \in Runs \ {r} : skipped'[q] = skipped[q]
<1>1. /\ i \in Nat /\ i + 1 \in Nat \ {0} /\ trail[r] \in Seq(Event) /\ skipped[r] \in Nat
      /\ <<i, j>> \in Nat \X Nat /\ <<i + 1, 0>> \in Nat \X Nat
  <2>1. i \in Nat \ {0}
    BY TransactionType
  <2>2. trail[r] \in Seq(Event) /\ skipped[r] \in Nat
    BY DEF TypeOK
  <2> QED  BY <2>1, <2>2
<1>2. /\ Len(ActionsAt(r, i)) \in Nat
      /\ DOMAIN ActionsAt(r, i) = 1..Len(ActionsAt(r, i))
  BY ProposedType DEF ActionsAt
<1>3. CASE j > Len(ActionsAt(r, i))
  <2>1. GotoDecision(r, i + 1)
    BY <1>3 DEF GotoAction
  <2>2. Before(<<i, j>>, <<i + 1, 0>>)
    BY <1>1 DEF Before
  <2>3. ASSUME NEW k \in DOMAIN input[r].transactions,
               NEW l \in DOMAIN ProposedActions(Outcome(input[r].transactions[k])),
               Before(<<k, l>>, <<i + 1, 0>>)
        PROVE  Before(<<k, l>>, <<i, j>>)
    <3>1. k \in Nat /\ l \in Nat
      BY TransactionType, ProposedType
    <3>2. k < i + 1
      BY <1>1, <2>3, <3>1 DEF Before
    <3>3. k < i \/ (k = i /\ l < j)
      <4>1. CASE k = i
        <5>1. l \in DOMAIN ActionsAt(r, i)
          BY <4>1 DEF ActionsAt, TransactionAt
        <5> QED  BY <1>2, <1>3, <3>1, <4>1, <5>1
      <4> QED  BY <1>1, <3>1, <3>2, <4>1
    <3> QED  BY <3>3 DEF Before
  <2>4. ToldUpTo(input[r], trail[r], <<i + 1, 0>>)
    BY <1>1, <2>2, <2>3, FrontMoves
  <2>5. /\ \E stage \in {"run.completed", "decision.created"}, pos \in Nat \X Nat :
             Goto(r, stage, pos) /\ Reaches(input[r], trail[r], stage, pos)
        /\ skipped' = skipped
    BY <1>1, <2>1, <2>4, DecisionReaches
  <2> QED  BY <1>1, <2>5 DEF Following, Pending
<1>4. CASE ~(j > Len(ActionsAt(r, i))) /\ (dryRun[r] \/ ~AutoApply(Outcome(TransactionAt(r, i))))
  <2>1. /\ Goto(r, "action.skipped", <<i, j>>)
        /\ skipped' = [skipped EXCEPT ![r] = @ + 1]
    BY <1>4 DEF GotoAction
  <2>2. Reaches(input[r], trail[r], "action.skipped", <<i, j>>)
    BY DEF Reaches
  <2>3. /\ skipped'[r] = skipped[r] + Pending("action.skipped", FALSE, "action.skipped")
        /\ \A q \in Runs \ {r} : skipped'[q] = skipped[q]
    BY <2>1 DEF TypeOK, Pending
  <2> QED  BY <1>1, <2>1, <2>2, <2>3 DEF Following
<1>5. CASE ~(j > Len(ActionsAt(r, i))) /\ ~(dryRun[r] \/ ~AutoApply(Outcome(TransactionAt(r, i))))
  <2>1. Goto(r, "apply", <<i, j>>) /\ skipped' = skipped
    BY <1>5 DEF GotoAction
  <2>2. Reaches(input[r], trail[r], "apply", <<i, j>>)
    BY DEF Reaches
  <2>3. skipped'[r] = skipped[r] + Pending("apply", FALSE, "action.skipped")
    BY <1>1, <2>1 DEF Pending
  <2> QED  BY <1>1, <2>1, <2>2, <2>3 DEF Following
<1> QED  BY <1>3, <1>4, <1>5

\* The text of an event is written.
LEMMA CompleteWrites ==
  ASSUME NEW in, NEW stage \in Events, NEW pos \in Nat \X Nat, NEW t \in Seq(Event),
         Complete(in, stage, FALSE, pos, t)
  PROVE  Complete(in, stage, TRUE, pos, Append(t, [event |-> stage, at |-> pos]))
<1> DEFINE e == [event |-> stage, at |-> pos]
           u == Append(t, e)
<1>1. e \in Event /\ e.event = stage /\ e.at = pos
  BY DEF Event
<1> HIDE DEF e
<1>2. /\ DOMAIN u = DOMAIN t \cup {Len(t) + 1} /\ u[Len(t) + 1] = e
      /\ \A k \in DOMAIN t : u[k] = t[k]
  BY <1>1, Appended
<1>3. stage # "bulk_ingest" /\ stage \notin Ends
  BY DEF Events, Ends
<1>4. stage \in {"run.started", "input.accepted"} => pos = <<0, 0>>
  BY DEF Complete
<1>5. stage \in Underway => ToldUpTo(in, u, Front(stage, TRUE, pos))
  <2> SUFFICES ASSUME stage \in Underway
               PROVE  ToldUpTo(in, u, Front(stage, TRUE, pos))
    OBVIOUS
  <2>1. ToldUpTo(in, t, pos)
    BY DEF Complete, Front
  <2>2. CASE Tells(e)
    <3>1. ToldUpTo(in, u, <<pos[1], pos[2] + 1>>)
      BY <1>1, <2>1, <2>2, FrontTold
    <3> QED  BY <1>1, <2>2, <3>1 DEF Front, Tells
  <2>3. CASE ~Tells(e)
    <3>1. ToldUpTo(in, u, pos)
      BY <1>1, <2>1, <2>3, ToldUpToKept
    <3> QED  BY <1>1, <2>3, <3>1 DEF Front, Tells
  <2> QED  BY <2>2, <2>3
<1>6. stage = "run.completed" /\ in.capability # "bulk_ingest" => ToldAll(in, u)
  BY <1>1, ToldAllKept DEF Complete, Tells
<1>7. Has(u, "run.completed", <<0, 0>>) => stage = "run.completed"
  <2> SUFFICES ASSUME stage # "run.completed", Has(u, "run.completed", <<0, 0>>)
               PROVE  FALSE
    OBVIOUS
  <2>1. PICK k \in DOMAIN u : u[k] = [event |-> "run.completed", at |-> <<0, 0>>]
    BY DEF Has
  <2> HIDE DEF u
  <2>2. u[k].event = "run.completed"
    BY <2>1
  <2>3. k \in DOMAIN t /\ t[k] = u[k]
    BY <1>1, <1>2, <2>2
  <2>4. Has(t, "run.completed", <<0, 0>>)
    BY <2>1, <2>3 DEF Has
  <2> QED  BY <1>3, <2>4 DEF Complete
<1> HIDE DEF u
<1>8. Complete(in, stage, TRUE, pos, u)
  BY <1>3, <1>4, <1>5, <1>6, <1>7 DEF Complete
<1> QED  BY <1>8 DEF u, e

LEMMA CountedWrites ==
  ASSUME NEW stage \in Events, NEW pos \in Nat \X Nat, NEW t \in Seq(Event),
         NEW a, NEW s, NEW rep, Counted(stage, FALSE, t, a, s, rep)
  PROVE  Counted(stage, TRUE, Append(t, [event |-> stage, at |-> pos]), a, s, rep)
<1> DEFINE e == [event |-> stage, at |-> pos]
           u == Append(t, e)
<1>1. e \in Event /\ e.event = stage
  BY DEF Event
<1> HIDE DEF e
<1>2. \A event : Count(u, event) = Count(t, event) + IF stage = event THEN 1 ELSE 0
  BY <1>1, CountAppend
<1>3. \A event : Count(t, event) \in Nat
  BY CountType
<1>4. stage \notin {"failed", "killed", "returned"}
  BY DEF Events
<1> HIDE DEF u
<1>5. /\ a = Count(t, "action.applied") + Pending(stage, FALSE, "action.applied")
      /\ s = Count(t, "action.skipped") + Pending(stage, FALSE, "action.skipped")
      /\ rep = None
  BY <1>4 DEF Counted
<1>6. \A event : Count(t, event) + Pending(stage, FALSE, event) =
                   Count(u, event) + Pending(stage, TRUE, event)
  BY <1>2, <1>3 DEF Pending
<1>7. Counted(stage, TRUE, u, a, s, rep)
  BY <1>4, <1>5, <1>6 DEF Counted
<1> QED  BY <1>7 DEF u, e


-----------------------------------------------------------------------------
(***************************************************************************)
(* Each action keeps the trail whole.                                      *)
(***************************************************************************)
Whole == CompleteInv /\ CountInv

LEMMA WholeLocal ==
  ASSUME Whole, NEW r \in Runs,
         \A q \in Runs \ {r} :
           /\ input'[q] = input[q] /\ pc'[q] = pc[q] /\ half'[q] = half[q]
           /\ at'[q] = at[q] /\ trail'[q] = trail[q] /\ applied'[q] = applied[q]
           /\ skipped'[q] = skipped[q] /\ report'[q] = report[q],
         Complete(input'[r], pc'[r], half'[r], at'[r], trail'[r]),
         ~Bulk(input'[r]) =>
           Counted(pc'[r], half'[r], trail'[r], applied'[r], skipped'[r], report'[r])
  PROVE  Whole'
<1>1. CompleteInv'
  <2> SUFFICES ASSUME NEW q \in Runs
               PROVE  Complete(input'[q], pc'[q], half'[q], at'[q], trail'[q])
    BY DEF CompleteInv
  <2> QED  BY DEF Whole, CompleteInv
<1>2. CountInv'
  <2> SUFFICES ASSUME NEW q \in Runs, ~Bulk(input'[q])
               PROVE  Counted(pc'[q], half'[q], trail'[q], applied'[q], skipped'[q],
                              report'[q])
    BY DEF CountInv, Bulk
  <2> QED  BY DEF Whole, CountInv, Bulk
<1> QED  BY <1>1, <1>2 DEF Whole

\* A run that goes on, with its last event told.
GoesOn(r) ==
  /\ pc[r] \notin {"idle", "run.completed"} \cup Ends
  /\ pc[r] \in {"action.applied", "action.skipped"} => half[r]
  /\ half'[r] = FALSE /\ UNCHANGED <<input, trail, report>>
  /\ \A q \in Runs \ {r} :
       half'[q] = half[q] /\ applied'[q] = applied[q] /\ skipped'[q] = skipped[q]

GoesTo(r, stage, pos) ==
  /\ Goto(r, stage, pos)
  /\ stage \in {"bulk_ingest", "run.completed"} \cup Underway /\ stage # "run.started"
  /\ stage = "bulk_ingest" => input[r].capability = "bulk_ingest"
  /\ stage = "input.accepted" => pos = <<0, 0>>
  /\ \/ Reaches(input[r], trail[r], stage, pos)
     \/ input[r].capability = "bulk_ingest" /\ stage \notin Underway
  /\ ~Bulk(input[r]) =>
       /\ applied'[r] = applied[r] + Pending(stage, FALSE, "action.applied")
       /\ skipped'[r] = skipped[r] + Pending(stage, FALSE, "action.skipped")

LEMMA WholeMoves ==
  ASSUME IInv, Whole, NEW r \in Runs, NEW stage, NEW pos, GoesOn(r), GoesTo(r, stage, pos)
  PROVE  Whole'
<1>1. /\ pc'[r] = stage /\ at'[r] = pos /\ trail' = trail /\ input' = input
      /\ \A q \in Runs \ {r} : pc'[q] = pc[q] /\ at'[q] = at[q]
      /\ trail[r] \in Seq(Event) /\ applied[r] \in Nat /\ skipped[r] \in Nat
  BY DEF IInv, TypeOK, Goto, GoesOn, GoesTo
<1>2. ~Has(trail[r], "run.completed", <<0, 0>>)
  BY DEF Whole, CompleteInv, Complete, GoesOn
<1>3. Complete(input[r], stage, FALSE, pos, trail[r])
  BY <1>2 DEF Complete, Reaches, Front, GoesTo
<1>4. /\ pc[r] \notin {"failed", "killed", "returned"}
      /\ Pending(pc[r], half[r], "action.applied") = 0
      /\ Pending(pc[r], half[r], "action.skipped") = 0
  BY DEF Pending, Ends, GoesOn
<1>5. ~Bulk(input[r]) =>
        /\ applied[r] = Count(trail[r], "action.applied") + 0
        /\ skipped[r] = Count(trail[r], "action.skipped") + 0
        /\ report[r] = None
  BY <1>4 DEF Whole, CountInv, Counted
<1>6. /\ Count(trail[r], "action.applied") \in Nat
      /\ Count(trail[r], "action.skipped") \in Nat
  BY <1>1, CountType
<1>7. ~Bulk(input[r]) =>
        /\ applied[r] = Count(trail[r], "action.applied")
        /\ skipped[r] = Count(trail[r], "action.skipped")
  BY <1>5, <1>6
<1>8. ~Bulk(input[r]) =>
        Counted(stage, FALSE, trail[r], applied'[r], skipped'[r], report[r])
  BY <1>5, <1>7, Zenon DEF Counted, GoesTo
<1> QED  BY <1>1, <1>3, <1>8, WholeLocal DEF GoesOn

\* A run that an error ends.
LEMMA WholeFails ==
  ASSUME IInv, Whole, NEW r \in Runs, NEW pos, Goto(r, "failed", pos),
         \A q \in Runs \ {r} : half'[q] = half[q],
         UNCHANGED <<input, trail, applied, skipped, report>>, pc[r] # "returned"
  PROVE  Whole'
<1>1. /\ pc'[r] = "failed" /\ trail' = trail /\ input' = input
      /\ \A q \in Runs \ {r} : pc'[q] = pc[q] /\ at'[q] = at[q]
  BY DEF IInv, TypeOK, Goto
<1>2. Complete(input'[r], pc'[r], half'[r], at'[r], trail'[r])
  BY <1>1 DEF Whole, CompleteInv, Complete, Underway, Ends
<1>3. ~Bulk(input'[r]) =>
        Counted(pc'[r], half'[r], trail'[r], applied'[r], skipped'[r], report'[r])
  BY <1>1 DEF Whole, CountInv, Counted
<1> QED  BY <1>1, <1>2, <1>3, WholeLocal

LEMMA WholeInit ==
  ASSUME Init
  PROVE  Whole
<1> SUFFICES ASSUME NEW r \in Runs
             PROVE  /\ Complete(input[r], pc[r], half[r], at[r], trail[r])
                    /\ Counted(pc[r], half[r], trail[r], applied[r], skipped[r], report[r])
  BY DEF Whole, CompleteInv, CountInv
<1>1. /\ pc[r] = "idle" /\ trail[r] = <<>> /\ applied[r] = 0 /\ skipped[r] = 0
      /\ report[r] = None
  BY DEF Init
<1>2. Complete(input[r], pc[r], half[r], at[r], trail[r])
  BY <1>1 DEF Complete, Has, Underway
<1>3. \A event : Count(<<>>, event) = 0
  <2> SUFFICES ASSUME NEW event
               PROVE  Count(<<>>, event) = 0
    OBVIOUS
  <2>1. {k \in DOMAIN <<>> : <<>>[k].event = event} = {}
    OBVIOUS
  <2> QED  BY <2>1, FS_EmptySet DEF Count
<1> QED  BY <1>1, <1>2, <1>3 DEF Counted, Pending

LEMMA WholeBegin ==
  ASSUME IInv, Whole, NEW r \in Runs, NEW in \in Inputs, NEW dry \in BOOLEAN,
         Begin(r, in, dry)
  PROVE  Whole'
<1> DEFINE stage == IF in.shape = "secret" THEN "failed" ELSE "run.started"
<1>1. /\ pc'[r] = stage /\ at'[r] = <<0, 0>> /\ half' = half /\ trail' = trail
      /\ input'[r] = in /\ applied' = applied /\ skipped' = skipped /\ report' = report
      /\ \A q \in Runs \ {r} :
           input'[q] = input[q] /\ pc'[q] = pc[q] /\ at'[q] = at[q]
  BY DEF IInv, TypeOK, Begin, Goto, fileVars
<1>2. pc[r] = "idle" /\ ~half[r] /\ trail[r] = <<>> /\ half[r] \in BOOLEAN
  BY DEF IInv, TypeOK, PlacedInv, TrailInv, Told, Begin, Events
<1>3. stage \in {"failed", "run.started"}
  OBVIOUS
<1> HIDE DEF stage
<1>4. \A i \in DOMAIN in.transactions :
        \A j \in DOMAIN ProposedActions(Outcome(in.transactions[i])) :
          ~Before(<<i, j>>, <<0, 0>>)
  BY TransactionType, ProposedType DEF Before
<1>5. ToldUpTo(in, <<>>, <<0, 0>>)
  BY <1>4 DEF ToldUpTo
<1>6. Complete(in, stage, half[r], <<0, 0>>, <<>>)
  BY <1>2, <1>3, <1>5 DEF Complete, Has, Front, Underway
<1>7. Counted(stage, half[r], <<>>, applied[r], skipped[r], report[r])
  <2>1. Counted("idle", half[r], <<>>, applied[r], skipped[r], report[r])
    <3>1. ~Bulk(input[r])
      BY <1>2 DEF IInv, PlacedInv, Placed, Bulk
    <3> QED  BY <1>2, <3>1 DEF Whole, CountInv
  <2> QED  BY <1>3, <2>1 DEF Counted, Pending
<1> QED  BY <1>1, <1>2, <1>6, <1>7, WholeLocal

LEMMA WholeWriteText ==
  ASSUME IInv, Whole, NEW r \in Runs, WriteText(r)
  PROVE  Whole'
<1> DEFINE e == [event |-> pc[r], at |-> at[r]]
<1>1. /\ pc[r] \in Events /\ half[r] = FALSE
      /\ trail[r] \in Seq(Event) /\ at[r] \in Nat \X Nat
  BY DEF WriteText, IInv, TypeOK
<1>2. trail' = [trail EXCEPT ![r] = Append(trail[r], e)]
  BY DEF WriteText
<1>3. /\ half'[r] = TRUE /\ trail'[r] = Append(trail[r], e)
      /\ UNCHANGED <<pc, input, at, applied, skipped, report>>
      /\ \A q \in Runs \ {r} : half'[q] = half[q] /\ trail'[q] = trail[q]
  BY <1>2 DEF IInv, TypeOK, WriteText
<1>4. Complete(input[r], pc[r], TRUE, at[r], Append(trail[r], e))
  <2>1. Complete(input[r], pc[r], FALSE, at[r], trail[r])
    BY <1>1 DEF Whole, CompleteInv
  <2> QED  BY <1>1, <2>1, CompleteWrites
<1>5. ~Bulk(input[r]) =>
        Counted(pc[r], TRUE, Append(trail[r], e), applied[r], skipped[r], report[r])
  <2>1. ~Bulk(input[r]) =>
          Counted(pc[r], FALSE, trail[r], applied[r], skipped[r], report[r])
    BY <1>1 DEF Whole, CountInv
  <2> QED  BY <1>1, <2>1, CountedWrites
<1> HIDE DEF e
<1> QED  BY <1>3, <1>4, <1>5, WholeLocal

LEMMA WholeKill ==
  ASSUME IInv, Whole, Kill
  PROVE  Whole'
<1>1. /\ UNCHANGED <<input, trail, at, applied, skipped, report>>
      /\ \A q \in Runs :
           /\ half'[q] = FALSE
           /\ \/ pc[q] \in {"idle"} \cup Ends /\ pc'[q] = pc[q]
              \/ pc[q] \notin {"idle"} \cup Ends /\ pc'[q] = "killed"
  BY DEF IInv, TypeOK, Kill, fileVars
<1> SUFFICES ASSUME NEW r \in Runs
             PROVE  /\ Complete(input[r], pc'[r], FALSE, at[r], trail[r])
                    /\ ~Bulk(input[r]) => Counted(pc'[r], FALSE, trail[r], applied[r],
                                                  skipped[r], report[r])
  BY <1>1 DEF Whole, CompleteInv, CountInv, Bulk
<1>2. /\ Complete(input[r], pc[r], half[r], at[r], trail[r])
      /\ ~Bulk(input[r]) =>
           Counted(pc[r], half[r], trail[r], applied[r], skipped[r], report[r])
  BY DEF Whole, CompleteInv, CountInv
<1>3. CASE pc[r] \in {"idle"} \cup Ends /\ pc'[r] = pc[r]
  BY <1>2, <1>3 DEF Complete, Counted, Pending, Ends, Underway
<1>4. CASE pc[r] \notin {"idle"} \cup Ends /\ pc'[r] = "killed"
  BY <1>2, <1>4 DEF Complete, Counted, Ends, Underway
<1> QED  BY <1>1, <1>3, <1>4


LEMMA WholeWriteFails ==
  ASSUME IInv, Whole, NEW r \in Runs, WriteFails(r)
  PROVE  Whole'
<1>1. Goto(r, "failed", at[r])
  BY DEF WriteFails, Fail, Goto, IInv, TypeOK
<1>2. /\ \A q \in Runs \ {r} : half'[q] = half[q]
      /\ UNCHANGED <<input, trail, applied, skipped, report>> /\ pc[r] # "returned"
  BY DEF WriteFails, Fail, IInv, TypeOK, Events
<1> QED  BY <1>1, <1>2, WholeFails

LEMMA WholeStarted ==
  ASSUME IInv, Whole, NEW r \in Runs, Started(r)
  PROVE  Whole'
<1>1. /\ pc[r] = "run.started" /\ half[r] /\ half'[r] = FALSE
      /\ \A q \in Runs \ {r} : half'[q] = half[q]
      /\ UNCHANGED <<input, trail, applied, skipped, report>>
      /\ applied[r] \in Nat /\ skipped[r] \in Nat
  BY DEF Started, EndLine, IInv, TypeOK
<1>2. CASE Goto(r, "failed", <<0, 0>>)
  BY <1>1, <1>2, WholeFails
<1>3. PICK stage \in {"bulk_ingest", "input.accepted", "failed"} :
        /\ Goto(r, stage, <<0, 0>>)
        /\ stage = "bulk_ingest" => input[r].capability = "bulk_ingest"
  BY DEF Started
<1>4. CASE stage # "failed"
  <2>1. ToldUpTo(input[r], trail[r], <<0, 0>>)
    BY <1>1 DEF Whole, CompleteInv, Complete, Front, Underway
  <2>2. Reaches(input[r], trail[r], stage, <<0, 0>>)
    BY <1>4, <2>1 DEF Reaches
  <2>3. /\ applied'[r] = applied[r] + Pending(stage, FALSE, "action.applied")
        /\ skipped'[r] = skipped[r] + Pending(stage, FALSE, "action.skipped")
    BY <1>1 DEF Pending
  <2>4. stage \in {"bulk_ingest", "run.completed"} \cup Underway /\ stage # "run.started"
    BY <1>4 DEF Underway
  <2>5. pc[r] \notin {"idle", "run.completed"} \cup Ends
    BY <1>1 DEF Ends
  <2>6. GoesOn(r)
    BY <1>1, <2>5 DEF GoesOn
  <2>7. GoesTo(r, stage, <<0, 0>>)
    BY <1>3, <2>2, <2>3, <2>4 DEF GoesTo
  <2> QED  BY <2>6, <2>7, WholeMoves
<1> QED  BY <1>2, <1>3, <1>4

LEMMA WholeBulk ==
  ASSUME IInv, Whole, NEW r \in Runs,
         \/ BulkIsRefused(r) \/ BulkIsPlanned(r)
         \/ IngestSucceeds(r) \/ IngestFails(r) \/ IngestEnds(r)
  PROVE  Whole'
<1>1. /\ pc[r] = "bulk_ingest" /\ half' = half /\ UNCHANGED <<input, trail, report>>
      /\ \A q \in Runs \ {r} : applied'[q] = applied[q] /\ skipped'[q] = skipped[q]
  BY DEF BulkIsRefused, BulkIsPlanned, IngestSucceeds, IngestFails, IngestEnds,
         ReportBulk, Executes, fileVars, IInv, TypeOK
<1>2. half[r] = FALSE /\ Bulk(input[r])
  BY <1>1 DEF IInv, TypeOK, PlacedInv, Placed, Events, Whole, CompleteInv, Complete, Bulk
<1>3. CASE BulkIsRefused(r)
  BY <1>1, <1>3, WholeFails DEF BulkIsRefused
<1>4. CASE IngestSucceeds(r)
  <2>1. UNCHANGED <<pc, at>>
    BY <1>4 DEF IngestSucceeds
  <2>2. Complete(input'[r], pc'[r], half'[r], at'[r], trail'[r])
    BY <1>1, <2>1 DEF Whole, CompleteInv
  <2> QED  BY <1>1, <1>2, <2>1, <2>2, WholeLocal
<1>5. CASE Goto(r, "run.completed", <<0, 0>>)
  <2>1. "run.completed" \notin Underway
    BY DEF Underway
  <2>2. GoesOn(r)
    BY <1>1, <1>2 DEF GoesOn, Ends
  <2>3. GoesTo(r, "run.completed", <<0, 0>>)
    BY <1>2, <1>5, <2>1 DEF GoesTo, Bulk
  <2> QED  BY <2>2, <2>3, WholeMoves
<1> QED
  BY <1>3, <1>4, <1>5 DEF BulkIsPlanned, IngestFails, IngestEnds, ReportBulk

LEMMA WholeAccepted ==
  ASSUME IInv, Whole, NEW r \in Runs, Accepted(r)
  PROVE  Whole'
<1>1. /\ pc[r] = "input.accepted" /\ half[r] /\ half'[r] = FALSE
      /\ \A q \in Runs \ {r} : half'[q] = half[q]
      /\ UNCHANGED <<input, trail, applied, report>> /\ GotoDecision(r, 1)
      /\ applied[r] \in Nat /\ skipped[r] \in Nat /\ trail[r] \in Seq(Event)
  BY DEF Accepted, EndLine, IInv, TypeOK
<1>2. input[r] \in Inputs
  BY <1>1, ToldAtAction DEF Events
<1>3. ToldUpTo(input[r], trail[r], <<0, 0>>)
  BY <1>1 DEF Whole, CompleteInv, Complete, Front, Underway
<1>4. ToldUpTo(input[r], trail[r], <<1, 0>>)
  <2>1. Before(<<0, 0>>, <<1, 0>>)
    BY DEF Before
  <2>2. \A i \in DOMAIN input[r].transactions : i \in Nat \ {0}
    BY <1>2 DEF Input
  <2>3. \A i \in DOMAIN input[r].transactions :
          \A j \in DOMAIN ProposedActions(Outcome(input[r].transactions[i])) :
            ~Before(<<i, j>>, <<1, 0>>)
    BY <2>2, ProposedType DEF Before
  <2> QED  BY <1>1, <1>3, <2>1, <2>3, FrontMoves
<1>5. skipped' = skipped
  BY <1>1, <1>2, <1>4, DecisionReaches DEF IInv
<1>6. PICK stage \in {"run.completed", "decision.created"}, pos \in Nat \X Nat :
        Goto(r, stage, pos) /\ Reaches(input[r], trail[r], stage, pos)
  BY <1>1, <1>2, <1>4, DecisionReaches DEF IInv
<1>7. /\ applied'[r] = applied[r] + Pending(stage, FALSE, "action.applied")
      /\ skipped'[r] = skipped[r] + Pending(stage, FALSE, "action.skipped")
  BY <1>1, <1>5 DEF Pending
<1>8. /\ stage \in {"bulk_ingest", "run.completed"} \cup Underway
      /\ pc[r] \notin {"idle", "run.completed"} \cup Ends
  BY <1>1 DEF Underway, Ends
<1>9. GoesOn(r)
  BY <1>1, <1>5, <1>8 DEF GoesOn
<1>10. GoesTo(r, stage, pos)
  BY <1>6, <1>7, <1>8 DEF GoesTo
<1> QED  BY <1>9, <1>10, WholeMoves

\* Decided and Noted: the j-th action of the decision, or what comes after it.
LEMMA WholeGoesToAction ==
  ASSUME IInv, Whole, NEW r \in Runs, NEW j \in Nat \ {0}, half[r], half'[r] = FALSE,
         pc[r] \in {"decision.created", "action.applied", "action.skipped"},
         \A q \in Runs \ {r} : half'[q] = half[q],
         UNCHANGED <<input, trail, applied, report>>,
         GotoAction(r, at[r][1], j),
         ToldUpTo(input[r], trail[r], <<at[r][1], j>>)
  PROVE  Whole'
<1>1. pc[r] \in Events /\ pc[r] \notin {"idle", "run.completed"} \cup Ends
  BY DEF Events, Ends
<1>2. /\ input[r] \in Inputs /\ Placed(input[r], dryRun[r], pc[r], at[r])
      /\ applied[r] \in Nat
  BY <1>1, ToldAtAction DEF IInv, TypeOK
<1>3. at[r][1] \in DOMAIN input[r].transactions
  BY <1>2 DEF Placed, IsAction
<1>4. PICK stage \in Following, pos \in Nat \X Nat :
        /\ Goto(r, stage, pos)
        /\ Reaches(input[r], trail[r], stage, pos)
        /\ skipped'[r] = skipped[r] + Pending(stage, FALSE, "action.skipped")
        /\ \A q \in Runs \ {r} : skipped'[q] = skipped[q]
  BY <1>2, <1>3, ActionReaches DEF IInv
<1>5. applied'[r] = applied[r] + Pending(stage, FALSE, "action.applied")
  BY <1>2 DEF Pending, Following
<1>6. /\ stage \in {"bulk_ingest", "run.completed"} \cup Underway
      /\ stage \notin {"run.started", "bulk_ingest", "input.accepted"}
  BY DEF Following, Underway
<1>7. GoesOn(r)
  BY <1>1, <1>4 DEF GoesOn
<1>8. GoesTo(r, stage, pos)
  BY <1>4, <1>5, <1>6 DEF GoesTo
<1> QED  BY <1>7, <1>8, WholeMoves

LEMMA WholeDecided ==
  ASSUME IInv, Whole, NEW r \in Runs, Decided(r)
  PROVE  Whole'
<1>1. /\ pc[r] = "decision.created" /\ half[r] /\ half'[r] = FALSE
      /\ \A q \in Runs \ {r} : half'[q] = half[q]
      /\ UNCHANGED <<input, trail, applied, report>> /\ GotoAction(r, at[r][1], 1)
      /\ trail[r] \in Seq(Event)
  BY DEF Decided, EndLine, IInv, TypeOK
<1>2. Placed(input[r], dryRun[r], pc[r], at[r]) /\ at[r] \in Nat \X Nat
  BY <1>1, ToldAtAction DEF Events
<1>3. ToldUpTo(input[r], trail[r], <<at[r][1], 0>>)
  <2>1. ToldUpTo(input[r], trail[r], at[r])
    BY <1>1 DEF Whole, CompleteInv, Complete, Front, Underway
  <2> QED  BY <1>1, <1>2, <2>1 DEF Placed
<1>4. ToldUpTo(input[r], trail[r], <<at[r][1], 1>>)
  <2> DEFINE f == <<at[r][1], 0>>
             g == <<at[r][1], 1>>
  <2>1. f \in Nat \X Nat /\ g \in Nat \X Nat /\ Before(f, g)
    BY <1>2 DEF Before
  <2>2. ASSUME NEW i \in DOMAIN input[r].transactions,
               NEW j \in DOMAIN ProposedActions(Outcome(input[r].transactions[i])),
               Before(<<i, j>>, g)
        PROVE  Before(<<i, j>>, f)
    <3>1. j \in Nat \ {0}
      BY ProposedType
    <3> QED  BY <2>2, <3>1 DEF Before
  <2>3. trail[r] \in Seq(Event) /\ ToldUpTo(input[r], trail[r], f)
    BY <1>1, <1>3
  <2> HIDE DEF f, g
  <2>4. ToldUpTo(input[r], trail[r], g)
    BY <2>1, <2>2, <2>3, FrontMoves
  <2> QED  BY <2>4 DEF g
<1>5. 1 \in Nat \ {0}
  OBVIOUS
<1> QED  BY <1>1, <1>4, <1>5, WholeGoesToAction

LEMMA WholeNoted ==
  ASSUME IInv, Whole, NEW r \in Runs, Noted(r)
  PROVE  Whole'
<1>1. /\ pc[r] \in {"action.applied", "action.skipped"} /\ half[r] /\ half'[r] = FALSE
      /\ \A q \in Runs \ {r} : half'[q] = half[q]
      /\ UNCHANGED <<input, trail, applied, report>>
      /\ GotoAction(r, at[r][1], at[r][2] + 1)
      /\ at[r][2] + 1 \in Nat \ {0}
  BY DEF Noted, EndLine, IInv, TypeOK
<1>2. ToldUpTo(input[r], trail[r], <<at[r][1], at[r][2] + 1>>)
  BY <1>1 DEF Whole, CompleteInv, Complete, Front, Underway
<1> QED  BY <1>1, <1>2, WholeGoesToAction

LEMMA WholeCompleted ==
  ASSUME IInv, Whole, NEW r \in Runs, Completed(r)
  PROVE  Whole'
<1> DEFINE rep == [applied |-> applied[r], skipped |-> skipped[r]]
<1>1. /\ pc[r] = "run.completed" /\ half[r] /\ half'[r] = FALSE /\ pc'[r] = "returned"
      /\ UNCHANGED <<input, at, trail, applied, skipped>>
      /\ \A q \in Runs \ {r} :
           half'[q] = half[q] /\ pc'[q] = pc[q] /\ report'[q] = report[q]
      /\ report'[r] = rep
      /\ trail[r] \in Seq(Event)
  BY DEF Completed, EndLine, IInv, TypeOK
<1>2. Complete(input[r], "returned", FALSE, at[r], trail[r])
  <2>1. Complete(input[r], "run.completed", half[r], at[r], trail[r])
    BY <1>1 DEF Whole, CompleteInv
  <2> QED  BY <2>1 DEF Complete, Ends, Underway
<1>3. ~Bulk(input[r]) =>
        Counted("returned", FALSE, trail[r], applied[r], skipped[r], rep)
  <2> SUFFICES ASSUME ~Bulk(input[r])
               PROVE  Counted("returned", FALSE, trail[r], applied[r], skipped[r], rep)
    OBVIOUS
  <2>1. /\ applied[r] = Count(trail[r], "action.applied") + 0
        /\ skipped[r] = Count(trail[r], "action.skipped") + 0
    BY <1>1 DEF Whole, CountInv, Counted, Pending
  <2>2. /\ Count(trail[r], "action.applied") \in Nat
        /\ Count(trail[r], "action.skipped") \in Nat
    BY <1>1, CountType
  <2> QED  BY <2>1, <2>2 DEF Counted, Pending
<1> HIDE DEF rep
<1> QED  BY <1>1, <1>2, <1>3, WholeLocal

LEMMA WholeApplySucceeds ==
  ASSUME IInv, Whole, NEW r \in Runs, ApplySucceeds(r) \/ ApplyIsHollow(r)
  PROVE  Whole'
<1>1. /\ pc[r] = "apply" /\ half' = half /\ Goto(r, "action.applied", at[r])
      /\ UNCHANGED <<input, trail, skipped, report>>
      /\ applied'[r] = applied[r] + 1 /\ \A q \in Runs \ {r} : applied'[q] = applied[q]
      /\ skipped[r] \in Nat
  BY DEF ApplySucceeds, ApplyIsHollow, fileVars, IInv, TypeOK
<1>2. half[r] = FALSE
  BY <1>1 DEF IInv, TypeOK, PlacedInv, Events
<1>3. ToldUpTo(input[r], trail[r], at[r])
  BY <1>1 DEF Whole, CompleteInv, Complete, Front, Underway
<1>4. Reaches(input[r], trail[r], "action.applied", at[r])
  BY <1>3 DEF Reaches
<1>5. /\ applied'[r] = applied[r] + Pending("action.applied", FALSE, "action.applied")
      /\ skipped'[r] = skipped[r] + Pending("action.applied", FALSE, "action.skipped")
  BY <1>1 DEF Pending
<1>6. /\ "action.applied" \in Underway
      /\ pc[r] \notin {"idle", "run.completed"} \cup Ends
  BY <1>1 DEF Underway, Ends
<1>7. GoesOn(r)
  BY <1>1, <1>2, <1>6 DEF GoesOn
<1>8. GoesTo(r, "action.applied", at[r])
  BY <1>1, <1>4, <1>5, <1>6 DEF GoesTo
<1> QED  BY <1>7, <1>8, WholeMoves

LEMMA WholeApplyFails ==
  ASSUME IInv, Whole, NEW r \in Runs, ApplyFails(r)
  PROVE  Whole'
<1>1. Goto(r, "failed", at[r])
  BY DEF ApplyFails, Fail, Goto, IInv, TypeOK
<1>2. /\ \A q \in Runs \ {r} : half'[q] = half[q]
      /\ UNCHANGED <<input, trail, applied, skipped, report>> /\ pc[r] # "returned"
  BY DEF ApplyFails, Fail, fileVars, IInv, TypeOK
<1> QED  BY <1>1, <1>2, WholeFails

LEMMA WholeNext ==
  ASSUME IInv, Whole, [Next]_vars
  PROVE  Whole'
<1>1. CASE UNCHANGED vars
  BY <1>1 DEF Whole, CompleteInv, CountInv, Bulk, vars, runVars, fileVars
<1>2. ASSUME NEW r \in Runs, NEW in \in Inputs, NEW dry \in BOOLEAN, Begin(r, in, dry)
      PROVE  Whole'
  BY <1>2, WholeBegin
<1>3. ASSUME NEW r \in Runs, Step(r)
      PROVE  Whole'
  BY <1>3, WholeWriteText, WholeWriteFails, WholeStarted, WholeBulk,
     WholeAccepted, WholeDecided, WholeNoted, WholeCompleted, WholeApplySucceeds,
     WholeApplyFails DEF Step
<1>4. CASE Kill
  BY <1>4, WholeKill
<1> QED  BY <1>1, <1>2, <1>3, <1>4 DEF Next

\* A reconciliation that says it was completed has told of every action of every
\* decision once, and its report counts what its trail tells; a bulk ingest, which
\* has no trail of its own, reports the operations that were made or said to be and
\* misses at most the one that failed, whatever other runs did and whenever the
\* process was killed (run_loaded_pack, execute_plan).
THEOREM TrailOfARunIsWhole == Spec => []TrailIsWhole
<1>1. Init => Whole
  BY WholeInit
<1>2. IInv /\ Whole /\ [Next]_vars => Whole'
  BY WholeNext
<1>3. IInv /\ Whole /\ IngestInv => TrailIsWhole
  <2> SUFFICES ASSUME IInv, Whole, IngestInv
               PROVE  TrailIsWhole
    OBVIOUS
  <2>1. CompletedTrailIsWhole
    <3> SUFFICES ASSUME NEW r \in Runs, Wrote(r, "run.completed", <<0, 0>>),
                        Reconciles(r), NEW i \in DOMAIN input[r].transactions,
                        NEW j \in DOMAIN ActionsAt(r, i)
                 PROVE  Cardinality({k \in DOMAIN trail[r] :
                          /\ trail[r][k].at = <<i, j>>
                          /\ trail[r][k].event \in {"action.applied", "action.skipped"}}) = 1
      BY DEF CompletedTrailIsWhole
    <3> DEFINE S == {k \in DOMAIN trail[r] :
                       /\ trail[r][k].at = <<i, j>>
                       /\ trail[r][k].event \in {"action.applied", "action.skipped"}}
    <3>1. ToldAll(input[r], trail[r])
      BY DEF Whole, CompleteInv, Complete, Wrote, Has, Reconciles
    <3>2. ToldOnce(trail[r], <<i, j>>)
      BY <3>1 DEF ToldAll, ActionsAt, TransactionAt
    <3>3. PICK k : S = {k}
      BY <3>2 DEF ToldOnce, Tells
    <3> QED  BY <3>3, FS_Singleton
  <2>2. ReportMatchesTrail
    BY DEF Whole, CountInv, Counted, Count, ReportMatchesTrail, CountOf, Reconciles,
           Bulk
  <2>3. BulkReportIsWhole
    <3> SUFFICES ASSUME NEW r \in Runs, report[r] # None, ~Reconciles(r)
                 PROVE  /\ \A k \in 1..report[r].applied :
                             k \in ingested[r] \/ <<0, k>> \in hollow[r]
                        /\ \A k \in ingested[r] :
                             \/ k <= report[r].applied
                             \/ /\ k = report[r].applied + 1
                                /\ report[r].applied < input[r].records
                        /\ input[r].shape = "batch" =>
                             report[r].skipped = IF dryRun[r] THEN input[r].records ELSE 0
      BY DEF BulkReportIsWhole
    <3>1. Ingests(input[r], dryRun[r], pc[r], applied[r], skipped[r], report[r],
                  ingested[r], hollow[r], carried[r])
      BY DEF IngestInv
    <3>2. input[r] \in Inputs
      BY <3>1 DEF Ingests, IInv, TypeOK
    <3>3. input[r] \in Input /\ input[r] # None
      BY <3>2
    <3>4. input[r].capability \in {"bulk_ingest", "reconciliation"}
      BY <3>3 DEF Input
    <3>5. Bulk(input[r])
      BY <3>3, <3>4 DEF Bulk, Reconciles
    <3> QED  BY <3>1, <3>5 DEF Ingests, BulkTold
  <2> QED  BY <2>1, <2>2, <2>3 DEF TrailIsWhole
<1> QED  BY <1>1, <1>2, <1>3, Invariance, IngestInvariance, PTL DEF Spec

=============================================================================
