\* The GTK and AppKit hosts: any two inputs, two retries.
SPECIFICATION UnixSpec
CONSTANTS
  Systems <- BothSystems
  Top = 4
  Half = 2
  Step = 3
  Modifiers = {"CtrlAlt", "Alt"}
  Looks = {"light", "dark"}
  None = None
  MaxRetries = 2
  MaxInputs = 2
INVARIANTS
  ReadyIsConfirmed
PROPERTIES
  SurfacesCatchUp
CHECK_DEADLOCK FALSE
