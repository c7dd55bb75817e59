\* The native Windows program: three inputs, one failing audio call, three screens.
SPECIFICATION Spec
CONSTANTS
  Top = 4
  Half = 2
  Steps = {1, 2}
  Large = 3
  Screens <- MCScreens
  None = None
  MaxInputs = 3
  MaxFaults = 1
INVARIANTS
  ConfirmedEverywhere
  SurfacesFit
PROPERTIES
  StepsItsOwnWay
  ComesToRest
CHECK_DEADLOCK FALSE
