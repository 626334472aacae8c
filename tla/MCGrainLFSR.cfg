SPECIFICATION Spec
CONSTANTS
  Size = 80
  Taps <- MCTaps
  Warmup = 160
  Fields <- MCFields
  Rates = {1, 2, 3}
INVARIANTS NumbersFromStream QualifiesIffDistinct
PROPERTIES ImplementsShiftRegister Returns
CHECK_DEADLOCK FALSE
