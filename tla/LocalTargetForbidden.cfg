\* The forbidden_tools dimension against its description.
SPECIFICATION Spec
CONSTANTS
  None = None
  Granted <- MCGranted
  Gated <- MCGated
  Ungranted <- MCUngranted
  SessionLists <- MCSessionLists
  FaultLists <- MCFaultLists
  StepCaps <- MCStepCaps
  Expects <- MCExpects
INVARIANTS
  ForbiddenToolsWereNotCalled
CHECK_DEADLOCK FALSE
