\* One or two sessions, up to two faults, caps of two and three steps.
SPECIFICATION Spec
CONSTANTS
  None = None
  Granted <- MCGranted
  Gated <- MCGated
  Ungranted <- MCUngranted
  SessionLists <- MCSessionLists
  FaultLists <- MCFaultLists
  StepCaps <- MCStepCaps
  Expects <- MCExpects
INVARIANTS
  TypeOK
  StepsAreTheCalls
  OneFaultPerCall
  RecoveryIsEarned
  RepliesStayInTheirSession
CHECK_DEADLOCK FALSE
