\* Two browser tabs that serve every kind of call, five calls between them.
CONSTANTS
  a1 = a1
  b1 = b1
  a2 = a2
  t1 = t1
  t2 = t2
  Offer = {a1, b1, a2}
  Recipients <- TwoLists
  Creators = {t1, t2}
  Editors = {t1, t2}
  Senders = {t1, t2}
  Cancellers = {t1, t2}
  Deciders = {t1, t2}
  Pasters = {t1, t2}
  Correctors = {t1, t2}
  Syncs = {}
  MaxCalls = 5
  MaxReplies = 1
  Extractions = {"price", "no price", "nothing"}
  None = None
  Typed = Typed
SYMMETRY Interchangeable
SPECIFICATION Spec
PROPERTY OnlyOvertakenWritesLeaveTheDeal
CHECK_DEADLOCK FALSE
