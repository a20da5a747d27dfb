SPECIFICATION FairSpec
CONSTANTS
  Processes = {p1, p2}
  Command = p2
  Roles = {"ableton", "listening"}
  Segmented = {"ableton"}
  Bytes = {a, b}
  Nothing = Nothing
  MaxFaults = 2
CONSTRAINT CommandAcquires
INVARIANT TypeOK
INVARIANT DoneIsWhole
INVARIANT CompleteIsValid
PROPERTY UndoRestores
PROPERTY MasterKept
PROPERTY ScratchRecovers
