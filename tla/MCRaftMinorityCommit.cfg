\* A leader commits what only it holds.
SPECIFICATION AnySpec
CONSTANTS
  n1 = n1
  n2 = n2
  n3 = n3
  c1 = c1
  Node = {n1, n2, n3}
  Command = {c1}
  Nil = Nil
  MaxTerm = 2
  MaxElections = 1
  MaxRequests = 7
  MaxLog = 2
SYMMETRY Symmetry
CHECK_DEADLOCK FALSE
CONSTRAINT Scenario
INVARIANT
  CommittedOnMajority
