\* Two accounts and two Client objects; a message to a group of both, and a short one to one account.
CONSTANTS
  a1 = a1
  a2 = a2
  c1 = c1
  c2 = c2
  m1 = m1
  m2 = m2
  s1 = s1
  s2 = s2
  k1 = k1
  k2 = k2
  Accounts = {a1, a2}
  Clients = {c1, c2}
  Messages = {m1, m2}
  Recipients <- MCRecipients
  Ignored = {}
  Stamped = {m1, m2}
  Texts = {"price", "ok"}
  Keywords = {k1, k2}
  Text <- MCText
  Kind <- MCKind
  Match <- MCMatch
  RuleLists <- MCRuleLists
  Slots = {s1, s2}
  Buffer = 0
  Threshold = 1
  KeepIds = 1
  MaxTime = 2
SYMMETRY Symmetry
SPECIFICATION Spec
INVARIANTS TypeOK OnceALife OutageUnanswered RuleIsBest
CHECK_DEADLOCK FALSE
