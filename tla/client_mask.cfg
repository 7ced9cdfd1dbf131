SPECIFICATION Spec
CONSTANTS
 h1 = h1
 h2 = h2
 a1 = a1
 Nil = Nil
 Guest = Guest
 Hosts = {h1, h2}
 Accounts = {}
 Batches <- QueriesAndMask
 MaxSockets = 2
 MaxMask = 1
 MaxSeq = 5
 StrPoolSize = 1
 LookupPoolSize = 1
INVARIANTS AnswersMatch CacheNotOlderThanMask
PROPERTY AnswersInOrder
CHECK_DEADLOCK FALSE
