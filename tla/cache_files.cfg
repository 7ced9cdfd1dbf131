SPECIFICATION CacheSpec
CONSTANTS
 d1 = d1
 d2 = d2
 Nil = Nil
 UserCache = UserCache
 Dicts <- TwoDicts
 MaxSlot = 3
 MaxTime = 2
 MaxVersion = 1
INVARIANTS OffsetsFitTheIndex SavedIsFound
SYMMETRY Symmetry
