\* Two cases, two judges, three rows.
SPECIFICATION Spec
CONSTANTS
  NotSet = NotSet
  J1 = J1
  J2 = J2
  HHEM = HHEM
  T1 = T1
  T2 = T2
  Judges <- MCJudges
  Semantic <- MCSemantic
  MaxCases = 2
  Scale = 2
  RequireSwap = TRUE
  MinSwap = 2
  SwapMetric <- MCSwapMetric
  Rows <- MCRows
  SuiteDirs <- MCSuiteDirs
  PublicDirs <- MCPublicDirs
  Targets <- MCTargets
  Speeds <- MCSpeeds
  RunKinds <- MCRunKinds
  GraderSets <- MCGraderSets
  Samples <- MCSamples
  Kappas = {0, 2}
  KappaFloor = 2
  MinPairSwap = 1
  MaxCommands = 4
INVARIANTS
  TypeOK
  FloorsHoldOnTheCases
  JudgeRowsNeedProof
  RegressionsCompareOneTarget
  JudgesCannotRescue
PROPERTIES
  FreshBaselineNeverBlocks
  NoObjectionNoDrop
CHECK_DEADLOCK FALSE
