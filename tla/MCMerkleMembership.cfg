CONSTANTS
  Height = 4
  MaxReplaces = 1
  Leaves <- MCLeaves
  Initials <- MCInitials
  Queries <- MCQueries
  Positions <- MCPositions
  DefaultLeaf <- MCDefaultLeaf
  LeafHash <- MCLeafHash
  Convert <- MCConvert
  Evaluate <- MCEvaluate
  Compress <- MCCompress
SPECIFICATION GadgetSpec
INVARIANTS PathSpeaksTruth CoPathSpeaksTruth CountsMatter CoPathPartitions GadgetFollowsVerify PositionBinds UpdateSpeaksTruth
