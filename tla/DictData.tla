------------------------------ MODULE DictData ------------------------------
(***************************************************************************)
(* The articles of one dictionary: DictBase (lib/dictbase.cpp) over a file *)
(* that dictzip compressed in chunks (dictData, lib/dictziplib.cpp).  An   *)
(* article is named by its offset and size in the text.  A read inflates   *)
(* the chunks it touches one after the other into a cache of a few chunks, *)
(* from which another read may be served; articles read whole are kept in  *)
(* a ring, by their offset.                                                *)
(*                                                                         *)
(* The text is taken to have its own position as every byte, so that no    *)
(* byte can be mistaken for another.  A read is one call: its loop is      *)
(* taken here turn by turn, and nothing else of the dictionary moves until *)
(* it returns.  Rearranging an article by sametypesequence is left out.    *)
(***************************************************************************)
EXTENDS Integers, CachePool

CONSTANTS Length,             \* bytes of text
          ChunkLength,        \* bytes of text in a chunk, but for the last one
          Articles,           \* what index entries point to: offset and size
          DictCacheSize,      \* DICT_CACHE_SIZE
          WordDataCacheNum,   \* WORDDATA_CACHE_NUM
          MaxInt              \* INT_MAX

ASSUME DictDataAssumption ==
  /\ Length \in Nat \ {0} /\ ChunkLength \in Nat \ {0}
  /\ DictCacheSize \in Nat \ {0} /\ WordDataCacheNum \in Nat \ {0}
  /\ MaxInt \in Nat
  /\ Articles \subseteq [offset : Nat, size : Nat]
  /\ \A a \in Articles : a.offset + a.size <= Length

VARIABLES cache,       \* the chunks in memory
          stamp,       \* the static counter all dictionaries share
          inflating,   \* zStream has met no data error: after one it inflates no more
          words,       \* the articles kept by GetWordData
          op,          \* the call under way: GetWordData, SearchData or none
          article, i, pt, buffer,  \* its argument, next chunk, bytes copied, and result
          answer,      \* the last result
          beyond       \* history: a chunk after the last one was read

fileVars == <<cache, stamp, inflating, beyond>>
callVars == <<op, article, i, pt, buffer>>
vars == <<cache, stamp, inflating, words, op, article, i, pt, buffer, answer, beyond>>

Garbage == -1      \* a byte that nothing was written to

Blank(size) == [q \in 0 .. (size - 1) |-> Garbage]
TextOf(a) == [q \in 0 .. (a.size - 1) |-> a.offset + q]

NoArticle == [offset |-> 0, size |-> 0]
Answer(a, data) == [article |-> a, data |-> data]

------------------------------------------------------------------------------
(* The file and the chunks in memory. *)

IsChunk(k) == k * ChunkLength < Length

ChunkSize(k) ==
  IF (k + 1) * ChunkLength <= Length THEN ChunkLength ELSE Length - k * ChunkLength

FirstChunk(a) == a.offset \div ChunkLength
LastChunk(a) == (a.offset + a.size) \div ChunkLength

(* Where in chunk k the article begins and ends. *)
FromEveryTime(a, k) == a.offset % ChunkLength                     \* mutant
From(a, k) == IF k = FirstChunk(a) THEN a.offset % ChunkLength ELSE 0
Upto(a, k) == IF k = LastChunk(a) THEN (a.offset + a.size) % ChunkLength ELSE ChunkLength

CacheIds == 0 .. (DictCacheSize - 1)

First(S) == CHOOSE j \in S : \A k \in S : j <= k

Holding(k) == {j \in CacheIds : cache[j].chunk = k}

(* The slots whose stamp the scan finds least; a stamp of INT_MAX is never
   less than the one it starts with.                                      *)
Stalest == {j \in CacheIds : cache[j].stamp < MaxInt
                             /\ \A k \in CacheIds : cache[j].stamp <= cache[k].stamp}

Target(k) == IF Holding(k) # {} THEN First(Holding(k))
             ELSE IF Stalest # {} THEN First(Stalest) ELSE 0

(* ++stamp, in an int *)
NextStamp == IF stamp = MaxInt THEN -MaxInt - 1 ELSE stamp + 1

(* What inflating chunk k over the bytes `old' of a slot gives.  Past the
   last chunk, `chunks' and `offsets' are read beyond their ends: nothing
   may come of it, or bytes that are no deflate data reach zStream.       *)
Inflated(k, old) ==
  {[buf   |-> IF inflating /\ IsChunk(k)
              THEN [o \in DOMAIN old |-> IF o < ChunkSize(k) THEN k * ChunkLength + o ELSE old[o]]
              ELSE old,
    count |-> IF inflating /\ IsChunk(k) THEN ChunkSize(k) ELSE 0,
    ok    |-> ok] : ok \in IF IsChunk(k) THEN {inflating} ELSE {inflating, FALSE}}

(* What reading chunk k gives: from a slot that has it, or inflated. *)
ChunkRead(k) ==
  IF Holding(k) # {}
  THEN {[buf |-> cache[Target(k)].buf, count |-> cache[Target(k)].count, ok |-> inflating]}
  ELSE Inflated(k, cache[Target(k)].buf)

FilledOldCount(j, k, r) ==                                        \* mutant
  [cache EXCEPT ![j] = [@ EXCEPT !.chunk = k, !.stamp = NextStamp, !.buf = r.buf]]

Filled(j, k, r) ==
  [cache EXCEPT ![j] = [chunk |-> k, stamp |-> NextStamp, buf |-> r.buf, count |-> r.count]]

(* memcpy from the chunk's bytes into the result *)
Copied(buf, from, n) ==
  [q \in DOMAIN buffer |-> IF pt <= q /\ q < pt + n THEN buf[from + q - pt] ELSE buffer[q]]

------------------------------------------------------------------------------
Init ==
  /\ cache = [j \in CacheIds |-> [chunk |-> -1, stamp |-> -1, buf |-> Blank(ChunkLength), count |-> 0]]
  /\ stamp = 0 /\ inflating = TRUE /\ beyond = FALSE
  /\ words = EmptyPool
  /\ op = "none" /\ article = NoArticle /\ i = 0 /\ pt = 0 /\ buffer = Blank(0)
  /\ answer = Answer(NoArticle, Blank(0))

Begin(call, a) ==
  /\ op = "none"
  /\ op' = call /\ article' = a
  /\ i' = FirstChunk(a) /\ pt' = 0 /\ buffer' = Blank(a.size)
  /\ UNCHANGED <<fileVars, words, answer>>

(* GetWordData of an article that was kept, and of another. *)
Kept(a) ==
  /\ op = "none" /\ IsCached(words, a.offset)
  /\ answer' = Answer(a, Cached(words, a.offset))
  /\ UNCHANGED <<fileVars, callVars, words>>

GetWordData(a) == Kept(a) \/ (~IsCached(words, a.offset) /\ Begin("GetWordData", a))

(* SearchData, for which articles are read but not kept. *)
SearchData(a) == Begin("SearchData", a)

(* One turn of the loop of dictData::read. *)
ReadChunk ==
  /\ op # "none" /\ i <= LastChunk(article)
  /\ LET n == Upto(article, i) - From(article, i)
     IN \E r \in ChunkRead(i) :
          /\ cache' = Filled(Target(i), i, r)
          /\ inflating' = r.ok
          /\ buffer' = Copied(r.buf, From(article, i), n)
          /\ pt' = pt + n
  /\ stamp' = NextStamp
  /\ i' = i + 1
  /\ beyond' = (beyond \/ ~IsChunk(i))
  /\ UNCHANGED <<words, op, article, answer>>

(* The read is done; GetWordData keeps what was read. *)
Return ==
  /\ op # "none" /\ i > LastChunk(article)
  /\ answer' = Answer(article, buffer)
  /\ words' = IF op = "GetWordData"
              THEN SavePool(words, WordDataCacheNum, article.offset, buffer) ELSE words
  /\ op' = "none" /\ article' = NoArticle /\ i' = 0 /\ pt' = 0 /\ buffer' = Blank(0)
  /\ UNCHANGED fileVars

(* Another dictionary reads a chunk. *)
OtherReads ==
  /\ op = "none"
  /\ stamp' = NextStamp
  /\ UNCHANGED <<cache, inflating, beyond, callVars, words, answer>>

Next ==
  \/ \E a \in Articles : GetWordData(a) \/ SearchData(a)
  \/ ReadChunk \/ Return \/ OtherReads

Spec == Init /\ [][Next]_vars

------------------------------------------------------------------------------
(* Properties. *)

(* Every variable holds what its declaration lets it hold. *)
TypeOK ==
  /\ \A j \in CacheIds : cache[j].chunk \in Nat \cup {-1} /\ cache[j].count \in 0 .. ChunkLength
  /\ stamp \in (-MaxInt - 1) .. MaxInt
  /\ words \in [slot : {words.slot}, pos : Slots(WordDataCacheNum)]
  /\ DOMAIN words.slot \subseteq Slots(WordDataCacheNum)

(* A slot of the cache holds the text of the chunk it is said to hold, and
   as many bytes of it as are counted, whichever chunk was there before.  *)
ChunksAreText ==
  ~beyond => \A j \in CacheIds : LET c == cache[j] IN
    c.chunk # -1 => /\ c.count = ChunkSize(c.chunk)
                    /\ \A o \in 0 .. (c.count - 1) : c.buf[o] = c.chunk * ChunkLength + o

(* What is handed out for an entry of the index is the article the entry
   points to, over however many chunks it lies and from wherever they and
   the article were kept.                                                 *)
ArticlesAreText == ~beyond => answer.data = TextOf(answer.article)
==============================================================================
