CONSTANTS
  Sources <- MCSources
  Stages <- MCStages
  Closing <- MCClosing
  MaxStages = 3
  MaxYielded = 14
SPECIFICATION Spec
INVARIANTS YieldsExpected EndingsAgree
CHECK_DEADLOCK FALSE
