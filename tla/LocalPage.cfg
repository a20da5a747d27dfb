SPECIFICATION Spec
CONSTANTS
  Jobs = {1, 2}
  Previews = {p1}
  song = song
  other = other
  Unreadable = Unreadable
  Rows <- MCRows
  Manual = Manual
INVARIANT TypeOK
INVARIANT PauseHolds
INVARIANT ImportOnce
PROPERTY AnswersBell
PROPERTY RungJobsRun
