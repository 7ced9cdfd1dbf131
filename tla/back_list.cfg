SPECIFICATION Spec
CONSTANTS
 a = a
 b = b
 c = c
 Words = {a, b, c}
 Blank = Blank
 Nil = Nil
 MaxBack = 4
 MaxHistory = 2
INVARIANTS ButtonsAgree HistoryOfDistinctWords BackReturns
PROPERTY KeepsTrail
