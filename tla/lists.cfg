SPECIFICATION Spec
CONSTANTS
  NIL = NIL
  h1 = h1
  h2 = h2
  n1 = n1
  n2 = n2
  n3 = n3
  n4 = n4
  Heads <- TwoLists
  Nodes <- FourNodes
INVARIANTS
  ChainsAgree
PROPERTIES
  ImplementsLists
