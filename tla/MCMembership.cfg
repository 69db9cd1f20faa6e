\* Three nodes that start, end and start again as often as they like.
SPECIFICATION FairSpec
CONSTANTS
  n1 = n1
  n2 = n2
  n3 = n3
  NoNode = NoNode
  Nodes <- Trio
  Config <- TrioConfig
  FixedId <- TrioFixed
  MaxStarts = 2
INVARIANTS
  TypeOK
  NotItself
  NamesItsNode
  OneIdPerNode
  MeetsWhoIsThere
PROPERTIES
  StartsComplete
