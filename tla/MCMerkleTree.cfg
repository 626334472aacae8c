CONSTANTS
  Height = 4
  Leaves <- MCLeaves
  Initials <- MCInitials
  DefaultLeaf <- MCDefaultLeaf
  DefaultInner <- MCDefaultInner
  LeafHash <- MCLeafHash
  Convert <- MCConvert
  Evaluate <- MCEvaluate
  Compress <- MCCompress
  None = None
SPECIFICATION Spec
INVARIANTS TypeOK Consistent
PROPERTIES ImplementsVector AllOrNothing CheckUpdateDecides CallsReturn
