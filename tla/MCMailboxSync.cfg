\* A scheduled pass and one the owner starts, or a reply he pastes; two replies of one
\* supplier.
CONSTANTS
  a1 = a1
  b1 = b1
  t1 = t1
  i1 = i1
  i2 = i2
  Offer = {a1}
  Recipients <- OneList
  Creators = {t1}
  Editors = {}
  Senders = {t1}
  Cancellers = {}
  Deciders = {}
  Pasters = {t1}
  Correctors = {}
  Syncs = {i1, b1}
  Manual = {b1}
  MaxCalls = 3
  MaxReplies = 2
  MaxPerSync <- MCMaxPerSync
  MaxFailures = 1
  MaxConnects = 2
  Extractions = {"nothing"}
  None = None
  Typed = Typed
SPECIFICATION MailboxSpec
INVARIANT BehindTheCursorIsSettled
PROPERTY AnswersNeverGoBack
CHECK_DEADLOCK FALSE
