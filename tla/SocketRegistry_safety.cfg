\* Three socket ids of two users, three requests at once.
CONSTANTS
  w1 = w1
  w2 = w2
  w3 = w3
  u1 = u1
  u2 = u2
  k1 = k1
  k2 = k2
  k3 = k3
  Sockets = {w1, w2, w3}
  Users = {u1, u2}
  Checks = {k1, k2, k3}
SYMMETRY Symmetry
SPECIFICATION GatewaySpec
INVARIANTS GatewayTypeOK ReachesUser HearsOwnBroadcasts
CHECK_DEADLOCK FALSE
