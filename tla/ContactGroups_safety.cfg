\* Two overlapping requests over two numbers, two contacts and one group.
CONSTANTS
  n1 = n1
  n2 = n2
  x1 = x1
  x2 = x2
  g1 = g1
  k1 = k1
  k2 = k2
  Numbers = {n1, n2}
  Unformatted = {n1}
  Contacts = {x1, x2}
  Groups = {g1}
  Names = {"team"}
  Lists <- MCLists
  Calls = {k1, k2}
  MaxFaults = 1
SYMMETRY Symmetry
SPECIFICATION Spec
INVARIANTS TypeOK MembershipAgrees
PROPERTIES NoMemberLost
CHECK_DEADLOCK FALSE
