CONSTANTS
  Rate = 2
  Capacity = 1
  MaxCalls = 2
  Rescue = TRUE
  ModulusBits = 18
  EmulatedBits = 11
  Counts = {}
  Zero <- MCZero
  Elements <- MCElements
  Inputs <- MCInputs
  Requests <- MCRequests
  Add <- MCAdd
  PermCell <- MCPermCell
SPECIFICATION CrossSpec
CHECK_DEADLOCK FALSE
INVARIANTS PermutesUnlessDone
