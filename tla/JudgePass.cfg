\* Two passes over three cases, side by side or not, one snapshot update,
\* crashes anywhere.
SPECIFICATION Spec
CONSTANTS
  J1 = J1
  J2 = J2
  HHEM = HHEM
  V1 = V1
  V2 = V2
  p1 = p1
  p2 = p2
  Passes <- MCPasses
  Judges <- MCJudges
  Semantic <- MCSemantic
  MaxCases = 4
  Scale = 12
  Cases <- MCCases
  EmptyAnswer <- MCEmptyAnswer
  GraderLists <- MCGraderLists
  Samples = {1, 4}
  Versions <- MCVersions
  MaxUpdates = 1
  Serials = {TRUE, FALSE}
INVARIANTS
  TypeOK
  OneJudgeResident
  PaidOnce
  StoredVerdictsAreCached
  NoVerdictIsInvented
CHECK_DEADLOCK FALSE
