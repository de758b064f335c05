\* Two runs, one judge pass, two stems, any overlap and any crashes.
SPECIFICATION Spec
CONSTANTS
  None = None
  r1 = r1
  r2 = r2
  j = j
  Runs <- MCRuns
  JudgePasses <- MCJudgePasses
  Stems = {s1, s2}
  Size <- MCSize
INVARIANTS
  TypeOK
  RecordsAreKept
  LatestIsTheLastPromoted
PROPERTIES
  OnlyRunsChangeTheRun
  WritersEnd
CHECK_DEADLOCK FALSE
