SPECIFICATION Spec
CONSTANTS
  Jobs = {1, 2}
  Workers = {w1, w2}
  Users = {u1}
  Profiles <- MainProfiles
  NoWorker = NoWorker
  Gone = Gone
  StartsOverlap = FALSE
CONSTRAINT SecondPlain
INVARIANT TypeOK
INVARIANT OneWorkerAtATime
INVARIANT PinnedPastResolution
INVARIANT CompletedAsRecorded
PROPERTY OutcomeIsFinal
PROPERTY RestartsRequeue
