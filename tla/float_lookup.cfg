SPECIFICATION FairSpec
CONSTANTS
 w1 = w1
 w2 = w2
 Nil = Nil
 Words = {w1, w2}
 NetDicts <- OneDict
 NetPoolSize = 1
 Forms <- FormsOf
 MaxLookups = 2
 Seqs = {1, 2, 3}
 Offers <- QueriesAndOther
 AnswersTo <- AnswersOf
INVARIANTS TypeOK WaitingMeansExpecting ShowsTheWord EachSourceOnce TimerOfWaiting PlacedOnce ExpectedIsComing
PROPERTY LookupEnds
CHECK_DEADLOCK FALSE
