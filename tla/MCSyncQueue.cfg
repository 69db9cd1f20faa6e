SPECIFICATION FairSpec
CONSTANTS
  Blobs = {b1, b2, b3, b4}
  MaxConcurrentSyncs = 2
INVARIANTS
  TypeOK
  InProgressExact
  BoundedConcurrency
PROPERTIES
  QueuedIsFetched
  ImplementsSingleFlight
