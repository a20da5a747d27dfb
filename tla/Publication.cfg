SPECIFICATION FairSpec
CONSTANTS
  Workers = {w1, w2}
  NoWorker = NoWorker
  FileCount = 2
  Digests = {a, b}
  Deployments <- AloneOrTogether
  MaxPasses = 2
  LeasesMayLapse = TRUE
INVARIANT TypeOK
INVARIANT OfferIntact
INVARIANT LeftoversEndFirst
PROPERTY PublicationFrozen
PROPERTY FollowsLifecycle
PROPERTY ClosedOutputsGo
