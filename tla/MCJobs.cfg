\* Two server instances that poll the mailbox with one reply in it, one that
\* sweeps the index and one job that reconciles it, and what must happen.
CONSTANTS
  a1 = a1
  b1 = b1
  t1 = t1
  i1 = i1
  i2 = i2
  Offer = {a1}
  Recipients <- OneList
  Creators = {t1}
  Editors = {}
  Senders = {t1}
  Cancellers = {}
  Deciders = {}
  Pasters = {}
  Correctors = {}
  Syncs = {i1, i2}
  Manual = {}
  MaxCalls = 2
  MaxReplies = 1
  MaxPerSync <- MCMaxPerSync
  MaxFailures = 2
  MaxConnects = 2
  Extractions = {"nothing"}
  None = None
  Typed = Typed
  Jobs = {"poll", "index"}
  Source = {"faq", "product"}
  Silent = {"product"}
  Text = {"a", "b"}
  Sweeper = {"i1"}
  Reconciler = {"cron"}
  MaxEmbedFailures = 2
  MaxIndexed = 2
  MaxCrashes = 1
SPECIFICATION JobsSpec
INVARIANTS OnePassAtATime DocumentsTellTheTruth
PROPERTIES EveryReplyIsReached DeadGrantIsNoticed IndexCatchesUp
CHECK_DEADLOCK FALSE
