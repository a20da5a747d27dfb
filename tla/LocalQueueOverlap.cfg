SPECIFICATION Spec
CONSTANTS
  Jobs = {1, 2}
  Workers = {w1, w2}
  Users = {u1}
  Profiles <- ArchiveOnly
  NoWorker = NoWorker
  Gone = Gone
  StartsOverlap = TRUE
INVARIANT OneWorkerAtATime
