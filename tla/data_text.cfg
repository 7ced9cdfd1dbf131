SPECIFICATION Spec
CONSTANTS
 Length = 7
 ChunkLength = 2
 Articles <- SomeArticles
 DictCacheSize = 2
 WordDataCacheNum = 2
 MaxInt = 1
INVARIANTS TypeOK ChunksAreText ArticlesAreText
