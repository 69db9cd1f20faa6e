SPECIFICATION Spec
CONSTANTS
  n1 = n1
  n2 = n2
  n3 = n3
  b1 = b1
  b2 = b2
  NoNode = NoNode
  NoBlob = NoBlob
  Nodes <- Pair
  Blobs = {b1}
  Home <- HomeFirst
  ConfigPeers <- Mesh
  MaxConcurrentSyncs = 1
  ShareLimit = 1
  FaultModels = {{}}
  MaxFaults = 0
INVARIANT
  AnyNodeServes
