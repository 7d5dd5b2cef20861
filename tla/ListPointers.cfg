SPECIFICATION FairSpec
CONSTANTS
  Nodes = {n1, n2, n3}
  ListHead = ListHead
  LocalHead = LocalHead
INVARIANTS ListWhole LocalWhole
PROPERTIES OwnWrites LoopEnds
