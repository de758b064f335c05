\* Two commands, budget 3, with and without a limit, one or two epochs.
SPECIFICATION Spec
CONSTANTS
  MaxUsd = 3
  Whole = Whole
  NoLimit = Whole
  Limits <- MCLimits
  DatasetSize = 3
  Epochs <- MCEpochs
  LastCall = 2
  MaxRuns = 2
INVARIANTS
  TypeOK
  SpendIsBounded
  SummariesArePaidFor
  LedgerIsWholeOrLoud
CHECK_DEADLOCK FALSE
