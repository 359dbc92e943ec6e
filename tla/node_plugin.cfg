SPECIFICATION FairSpec
CONSTANTS
  None = None
  n1 = n1
  n2 = n2
  nobody = nobody
  Nodes <- TwoNodes
  Here <- ThisNode
  Names <- AnyName
  Values = {a, b}
  MaxFaults = 2
INVARIANTS PluginTypeOK
PROPERTIES RegisteredComplete RegisteredAtLast
