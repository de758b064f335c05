\* Is every run that spent money in the ledger.
SPECIFICATION Spec
CONSTANTS
  MaxUsd = 3
  Whole = Whole
  NoLimit = Whole
  Limits <- MCLimits
  DatasetSize = 3
  Epochs <- MCEpochs
  LastCall = 2
  MaxRuns = 2
INVARIANTS
  EveryLiveRunIsRecorded
CHECK_DEADLOCK FALSE
