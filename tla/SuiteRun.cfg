\* Four cases, trajectory costs around the ceiling of 3, a clock that can
\* run out between any two steps.
SPECIFICATION Spec
CONSTANTS
  NumCases = 4
  Incapable <- MCIncapable
  Costs <- MCCosts
  MaxUsd = 3
  MaxWall = 2
INVARIANTS
  TypeOK
  SpendIsEvidenced
  BudgetSkipsAreATail
  BudgetFlagIsExact
PROPERTIES
  Returns
  ImplementsBudgetedRun
CHECK_DEADLOCK FALSE
