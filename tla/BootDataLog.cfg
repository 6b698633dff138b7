SPECIFICATION Spec
CONSTANTS
  EntriesPerPage = 2
  Policies = {p1}
  DefaultPolicy = p1
  LcState = "dev"
  AllowedInProd = FALSE
  CounterMod = 16
  Erased = Erased
  Torn = Torn
  NoData = NoData
  MaxCounter = 10
  MaxFaults = 2
INVARIANTS
  TypeOK
  NewestIsFound
  NeverTraps
  WritesHitErasedWords
  AnswerIsDurable
PROPERTIES
  NeverRollsBack
  AtomicRecord
