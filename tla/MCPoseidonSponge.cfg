CONSTANTS
  Rate = 3
  Capacity = 1
  Zero = 0
  Elements <- MCElements
  Inputs <- MCInputs
  Counts <- MCCounts
  Add <- MCAdd
  PermCell <- MCPermCell
SPECIFICATION Spec
INVARIANTS TypeOK DuplexDiscipline IndexSeparates
PROPERTIES CallsReturn
