SPECIFICATION FairSpec
CONSTANTS
  n1 = n1
  n2 = n2
  n3 = n3
  b1 = b1
  b2 = b2
  NoNode = NoNode
  NoBlob = NoBlob
  Nodes <- Pair
  Blobs = {b1}
  Home <- HomeFirst
  ConfigPeers <- Mesh
  MaxConcurrentSyncs = 1
  ShareLimit = 1
  FaultModels = {{"request"}, {"crash", "request", "reply", "db"}}
  MaxFaults = 3
INVARIANTS
  TypeOK
  NoResurrection
  CompletedFetchIsStored
  CountIsOfBlobs
  DeliveredIfMild
PROPERTIES
  TombstonesStay
  QueuesImplemented
  StoreImplemented
  RoundsRecur
  AddedIsMarked
  Replicates
