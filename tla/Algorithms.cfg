SPECIFICATION Spec
CONSTANTS
  Results <- MCResults
  Unusable = Unusable
  CandidateLimit = 3
  MinimumScore = 90
  MinimumMargin = 15
  Lengths <- MCLengths
  SafeSizes = {32, 35}
  SegmentLengths = {2, 5}
  SampleRate = 4
  FrameSize = 2
  Reserve = 8
  Header = 2
  Packet = 2
  Drift = 1
  Radix = 10
  Digits = 1
  Identities = {i1, i2}
  Limit = 2
  WindowSeconds = 2
  LastSecond = 4
INVARIANT SelectionIsClear
INVARIANT PiecesWhole
INVARIANT WithinLimit
CHECK_DEADLOCK FALSE
