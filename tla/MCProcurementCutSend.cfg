\* A send is cut off after its offers were saved.
CONSTANTS
  a1 = a1
  b1 = b1
  a2 = a2
  t1 = t1
  t2 = t2
  Offer = {a1, b1}
  Recipients <- OneList
  Creators = {t1, t2}
  Editors = {}
  Senders = {t1, t2}
  Cancellers = {}
  Deciders = {}
  Pasters = {}
  Correctors = {}
  Syncs = {}
  MaxCalls = 5
  MaxReplies = 1
  Extractions = {"price", "no price", "nothing"}
  None = None
  Typed = Typed
SYMMETRY Interchangeable
SPECIFICATION Spec
INVARIANTS ReachedMeansSent
CHECK_DEADLOCK FALSE
