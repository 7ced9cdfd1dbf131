SPECIFICATION FairSpec
CONSTANTS
 h1 = h1
 h2 = h2
 a1 = a1
 Nil = Nil
 Guest = Guest
 Hosts = {h1}
 Accounts = {a1}
 Batches <- Dialogs
 MaxSockets = 2
 MaxMask = 0
 MaxSeq = 6
 StrPoolSize = 1
 LookupPoolSize = 1
INVARIANTS TypeOK OutstandingIsFront AnswersAreBodies HandshakeFirst
PROPERTIES KeepsContract ConnectionEnds
CHECK_DEADLOCK FALSE
