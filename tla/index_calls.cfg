SPECIFICATION Spec
CONSTANTS
 Word <- SomeWords
 Small <- SmallLetters
 LastAscii = 3
 EntrPerPage = 2
 MaxWords = 5
INVARIANTS TypeOK PageHoldsItsWords SuggestsClosestInMemory
PROPERTY KeepsPromise
