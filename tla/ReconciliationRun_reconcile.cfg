SPECIFICATION Spec
CONSTANTS
  r1 = r1
  r2 = r2
  t1 = t1
  t2 = t2
  t3 = t3
  None = None
  Runs = {r1, r2}
  TransactionIds = {t1, t2, t3}
  Inputs <- MCInputs
SYMMETRY Symmetry
\* Runs end.
CHECK_DEADLOCK FALSE
INVARIANT AuditedWereMade EffectsAreInTrail TrailIsWhole OnlyApprovedAreMade AppliedOnce
