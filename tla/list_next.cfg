SPECIFICATION ListSpec
CONSTANTS
 Word <- MoreWords
 Small <- NoCase
 LastAscii = 4
 EntrPerPage = 2
 WordsInFile <- SmallSizes
 Synonyms = {3}
 Rows = 2
 NextRows = 2
 PrevRows = 2
 Served <- ServedWords
 ByDictionary <- ThirdBelongsToFirst
 Queries <- Misspelt
 Patterns <- SomePatterns
 Matches = 2
 MaxFuzzyDistance = 3
 MaxPerFile = 2
PROPERTY NextFollows
