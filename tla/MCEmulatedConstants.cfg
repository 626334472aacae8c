CONSTANTS
  Characteristic = 16777259
  ElemBytes = 3
  FpBytes = 4
  MaxItems = 2
  Items <- MCItems
  Moduli = {5, 11, 13, 23, 29}
  WordBits = 2
  LimbBits = 2
  MaxInputs = 3
  Samples <- MCSamples
  P = 17
  Width = 2
  Alpha = 5
  AlphaInv = 13
  FullRounds = 3
  PartialRounds = 2
  Ark <- MCArk
  Rounds = 1
  Arc <- MCArc
  Mds <- MCMds
  Starts <- MCStarts
  MaxPermutations = 2
  MaxBytes = 200
  ZeroByte = ZeroByte
  Marker = Marker
  Lengths <- MCLengths
  Message <- MCMessage
  LengthByte <- MCLengthByte
  BlakeLengths <- MCBlakeLengths
  InputByte <- MCInputByte
  BlakeZero = BlakeZero
  HashOrder = 2203
  WindowSize = 3
  NumWindows = 11
  HashInputs <- MCHashInputs
  Order = 5
  Generator = 2
  Challenge <- MCChallenge
  Messages = {0, 1}
  Randomness <- MCRandomness
  MaxRandomizations = 2
SPECIFICATION PrimitivesSpec
CHECK_DEADLOCK FALSE
INVARIANTS ConstantsReconstructed
