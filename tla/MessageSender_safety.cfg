\* One account, two concurrent calls of up to two rows of two recipients.
CONSTANTS
  u1 = u1
  c1 = c1
  i1 = i1
  i2 = i2
  k1 = k1
  k2 = k2
  Users = {u1}
  Clients = {c1}
  Owner <- MCOwner
  Instances = {i1, i2}
  Calls = {k1, k2}
  RowCounts = {1, 2}
  Sizes = {0, 2}
  Limit = 1
  MaxRequests = 2
  MaxFaults = 1
SYMMETRY Symmetry
SPECIFICATION Spec
INVARIANTS TypeOK FlagHasSender OverrunBounded
