SPECIFICATION FairSpec
CONSTANTS
  Processes = {p1}
  Roles = {"ableton", "listening"}
  Segmented = {"ableton"}
  Bytes = {a, b}
  Nothing = Nothing
  MaxFaults = 1
PROPERTY AttemptsFinish
