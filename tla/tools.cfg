SPECIFICATION FairToolsSpec
CONSTANTS
  n1 = n1
  n2 = n2
  Nodes <- TwoNodes
  Caller = migration
  MaxMade = 2
  MaxFaults = 1
INVARIANTS ToolsTypeOK HeldStays WorkIsSafe NothingLeft NilMeansGone
PROPERTIES WorkEnds
