\* Two users, one plan that changes its terms, two operations at a time.
CONSTANTS
  u1 = u1
  u2 = u2
  r1 = r1
  r2 = r2
  r3 = r3
  k1 = k1
  k2 = k2
  k3 = k3
  t1 = t1
  t2 = t2
  Users = {u1, u2}
  Plans = {"basic"}
  Terms = {t1, t2}
  Requests = {r1, r2}
  Calls = {k1, k2}
  Free = "free"
SYMMETRY Symmetry
SPECIFICATION Spec
INVARIANTS TypeOK StatusMatchesPlan RenewedOnce TermsWereAsked
CHECK_DEADLOCK FALSE
