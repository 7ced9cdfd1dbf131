SPECIFICATION StorageSpec
CONSTANTS
 d1 = d1
 d2 = d2
 f1 = f1
 f2 = f2
 f3 = f3
 f4 = f4
 b1 = b1
 b2 = b2
 Nil = Nil
 Bad = Bad
 Stray = Stray
 Dicts = {d1, d2}
 Setups <- SomeSetups
 Word <- Words
 Key <- Named
 Small <- NoCase
 LastAscii = 4
 EntrPerPage = 2
 Button <- Buttons
 File <- Files
 FileCacheSize = 1
 ResCacheSize = 1
INVARIANTS CountsItsHolders GivesItsResource
SYMMETRY Symmetry
