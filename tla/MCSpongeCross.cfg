CONSTANTS
  Rate = 2
  Capacity = 1
  MaxCalls = 4
  None = None
  Rescue = FALSE
  ModulusBits = 18
  EmulatedBits = 11
  Counts = {}
  Zero <- MCZero
  Elements <- MCElements
  Inputs <- MCInputs
  Requests <- MCRequests
  Add <- MCAdd
  PermCell <- MCPermCell
SPECIFICATION CrossSpec
CHECK_DEADLOCK FALSE
INVARIANTS OutputsAgree StatesMeet GadgetFollows NoBitTwice
