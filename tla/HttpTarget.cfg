\* Two cases, alone or with another client, one restart.
SPECIFICATION Spec
CONSTANTS
  None = None
  Cases = 2
  Costs <- MCCosts
  Approving = {TRUE, FALSE}
  Sharing = {TRUE, FALSE}
  MaxOthers = 1
  MaxParks = 3
  MaxRestarts = 1
INVARIANTS
  TypeOK
  OwnRecord
  ChargesAreCovered
  ChargeIsTheRuns
PROPERTIES
  EveryCaseEnds
CHECK_DEADLOCK FALSE
