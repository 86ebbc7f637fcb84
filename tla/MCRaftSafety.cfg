\* Every election of two terms; one leader after another with one entry each;
\* and two leaders in conflict.
SPECIFICATION AnySpec
CONSTANTS
  n1 = n1
  n2 = n2
  n3 = n3
  c1 = c1
  Node = {n1, n2, n3}
  Command = {c1}
  Nil = Nil
  MaxTerm = 2
  MaxElections = 6
  MaxRequests = 6
  MaxLog = 2
SYMMETRY Symmetry
CHECK_DEADLOCK FALSE
CONSTRAINT Scenario
INVARIANTS
  ElectionSafety
  TypeOK
  LogMatching
  SafeUnlessOverstated
PROPERTIES
  LeaderAppendOnly
