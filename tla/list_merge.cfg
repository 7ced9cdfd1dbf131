SPECIFICATION ListSpec
CONSTANTS
 Word <- SomeWords
 Small <- NoCase
 LastAscii = 4
 EntrPerPage = 1
 WordsInFile <- Sizes
 Synonyms = {3}
 Rows = 2
 NextRows = 2
 PrevRows = 2
 Served <- ServedWords
 ByDictionary <- ThirdBelongsToFirst
 Queries <- Misspelt
 Patterns <- SomePatterns
 Matches = 2
 MaxFuzzyDistance = 3
 MaxPerFile = 2
INVARIANT ClosestIsShown
PROPERTY ListsTheUnion
