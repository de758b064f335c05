\* Three jobs, two baseline files, two attempts.
SPECIFICATION Spec
CONSTANTS
  None = None
  j1 = j1
  j2 = j2
  j3 = j3
  toolcall = toolcall
  memory = memory
  Jobs <- MCJobs
  Suites <- MCSuites
  MaxAttempts = 2
SYMMETRY Alike
INVARIANTS
  TypeOK
  ReachesMainOnce
PROPERTIES
  NoUpdateIsLost
CHECK_DEADLOCK FALSE
