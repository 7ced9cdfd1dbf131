--------------------------- MODULE DictFilesProofs ---------------------------
(***************************************************************************)
(* Theorems about the files of a dictionary: DictData, for every text,     *)
(* length of chunks, set of articles, number of slots and width of the     *)
(* stamps; and CacheFiles, for any dictionaries of one name, names in a    *)
(* chain, versions and times, with crashes anywhere.                       *)
(*                                                                         *)
(* ArticlesAreText is not inductive.  IInv adds where in the result and in *)
(* the text the loop of dictData::read stands, that what was copied so far *)
(* is text, that the chunks in memory are, and that so is every article in *)
(* the ring: all this only until a chunk after the last one is read, after *)
(* which zStream may be spoilt.                                            *)
(***************************************************************************)
EXTENDS DictData, CacheFiles, CachePoolProofs, TLAPS

(* No two entries point to the same offset with different sizes. *)
OffsetsTell == \A a, b \in Articles : a.offset = b.offset => a = b

Data == UNION {[0 .. (size - 1) -> Int] : size \in Nat}

Stamps == (-MaxInt - 1) .. MaxInt

ChunkSlot == [chunk : Nat \cup {-1}, stamp : Stamps,
              buf : [0 .. (ChunkLength - 1) -> Int], count : 0 .. ChunkLength]

Types ==
  /\ cache \in [CacheIds -> ChunkSlot]
  /\ stamp \in Stamps /\ inflating \in BOOLEAN /\ beyond \in BOOLEAN
  /\ words \in Pool(WordDataCacheNum, Nat, Data)
  /\ answer \in [article : [offset : Nat, size : Nat], data : Data]

(* What a slot says of itself is true. *)
HoldsText(c) ==
  c.chunk # -1 => /\ IsChunk(c.chunk)
                  /\ c.count = ChunkSize(c.chunk)
                  /\ \A o \in 0 .. (c.count - 1) : c.buf[o] = c.chunk * ChunkLength + o

CacheInv == ~beyond => inflating /\ \A j \in CacheIds : HoldsText(cache[j])

(* How much of a is copied when the loop comes to chunk k. *)
Progress(a, k) == IF k = FirstChunk(a) THEN 0
                  ELSE IF k = LastChunk(a) + 1 THEN a.size
                  ELSE k * ChunkLength - a.offset

LoopInv ==
  op # "none" =>
    /\ article \in Articles
    /\ i \in Nat /\ FirstChunk(article) <= i /\ i <= LastChunk(article) + 1
    /\ pt = Progress(article, i)
    /\ buffer \in [0 .. (article.size - 1) -> Int]
    /\ ~beyond => \A q \in 0 .. (article.size - 1) : q < pt => buffer[q] = article.offset + q

IsKept(e) == \E a \in Articles : e.key = a.offset /\ e.data = TextOf(a)

WordsInv == ~beyond => \A e \in Elements(words) : IsKept(e)

(* This much holds whatever the entries are. *)
FileInv == Types /\ CacheInv /\ LoopInv /\ WordsInv

IInv == FileInv /\ ArticlesAreText

------------------------------------------------------------------------------
(* Arithmetic of chunks. *)

(* Where a position lies: its chunk, and its place in the chunk. *)
LEMMA Division ==
  ASSUME NEW n \in Nat
  PROVE  /\ n \div ChunkLength \in Nat
         /\ n % ChunkLength \in 0 .. (ChunkLength - 1)
         /\ n = (n \div ChunkLength) * ChunkLength + (n % ChunkLength)
<1>1. ChunkLength \in Nat \ {0}
  BY DictDataAssumption
<1>2. QED
  BY <1>1, DivMod

(* A chunk of the text has bytes, and no more than ChunkLength. *)
LEMMA ChunkSizes ==
  ASSUME NEW k \in Nat, IsChunk(k)
  PROVE  ChunkSize(k) \in 1 .. ChunkLength
<1>1. (k + 1) * ChunkLength = k * ChunkLength + ChunkLength /\ k * ChunkLength \in Nat
  BY DictDataAssumption
<1>2. QED
  BY <1>1, DictDataAssumption DEF IsChunk, ChunkSize

(* The part of an article that lies in chunk k: it lies in the bytes the
   chunk has, follows on what was copied before, and leaves nothing out.  *)
LEMMA Pieces ==
  ASSUME NEW a \in Articles, NEW k \in Nat, FirstChunk(a) <= k, k <= LastChunk(a)
  PROVE  /\ From(a, k) \in Nat /\ Upto(a, k) \in Nat
         /\ From(a, k) <= Upto(a, k)
         /\ Upto(a, k) <= ChunkLength
         /\ IsChunk(k) => Upto(a, k) <= ChunkSize(k)
         /\ Progress(a, k) \in Nat
         /\ Progress(a, k + 1) = Progress(a, k) + Upto(a, k) - From(a, k)
         /\ Progress(a, k + 1) <= a.size
         /\ k * ChunkLength + From(a, k) = a.offset + Progress(a, k)
<1> DEFINE C == ChunkLength
           start == a.offset
           end == a.offset + a.size
           F == FirstChunk(a)
           L == LastChunk(a)
           FC == F * C
           LC == L * C
           kC == k * C
           sr == start % C
           er == end % C
<1>1. start \in Nat /\ end \in Nat /\ a.size \in Nat /\ end <= Length
      /\ C \in Nat \ {0} /\ Length \in Nat
  BY DictDataAssumption
<1>2. F \in Nat /\ sr \in 0 .. (C - 1) /\ start = FC + sr
  BY <1>1, Division DEF FirstChunk
<1>3. L \in Nat /\ er \in 0 .. (C - 1) /\ end = LC + er
  BY <1>1, Division DEF LastChunk
<1>4. kC \in Nat /\ (k + 1) * C = kC + C
  BY <1>1
<1>5. k # F => kC >= FC + C
  <2>1. SUFFICES ASSUME k # F PROVE kC >= FC + C
    OBVIOUS
  <2>2. F + 1 <= k
    BY <1>2, <2>1
  <2>3. (F + 1) * C <= kC
    BY <1>1, <1>2, <2>2, TimesMonotonic
  <2>4. (F + 1) * C = FC + C
    BY <1>1, <1>2
  <2>5. QED
    BY <1>1, <1>2, <1>4, <2>3, <2>4
<1>6. k # L => kC + C <= LC
  <2>1. SUFFICES ASSUME k # L PROVE kC + C <= LC
    OBVIOUS
  <2>2. k + 1 <= L
    BY <1>3, <2>1
  <2>3. QED
    BY <1>1, <1>3, <1>4, <2>2, TimesMonotonic
<1>7. FC \in Nat /\ LC \in Nat /\ (k = F => kC = FC) /\ (k = L => kC = LC)
  <2>1. FC \in Nat
    BY <1>1, <1>2
  <2>2. LC \in Nat
    BY <1>1, <1>3
  <2>3. (k = F => kC = FC) /\ (k = L => kC = LC)
    OBVIOUS
  <2>4. QED
    BY <2>1, <2>2, <2>3
<1>8. From(a, k) = IF k = F THEN sr ELSE 0
  BY DEF From
<1>9. Upto(a, k) = IF k = L THEN er ELSE C
  BY DEF Upto
<1>10. Progress(a, k) = IF k = F THEN 0 ELSE kC - start
  BY <1>2, <1>3 DEF Progress
<1> HIDE DEF FC, LC, kC, sr, er
<1>11. Progress(a, k + 1) = IF k = L THEN a.size ELSE kC + C - start
  <2>1. k + 1 # F /\ (k = L <=> k + 1 = L + 1)
    BY <1>2, <1>3
  <2>2. Progress(a, k + 1) = IF k + 1 = F THEN 0 ELSE IF k + 1 = L + 1 THEN a.size
                             ELSE (k + 1) * C - start
    BY DEF Progress
  <2>3. (k + 1) * C = kC + C
    BY <1>4
  <2> HIDE DEF C, start, F, L
  <2>4. QED
    BY <1>1, <1>4, <2>1, <2>2, <2>3
<1>12. IsChunk(k) => ChunkSize(k) = IF kC + C <= Length THEN C ELSE Length - kC
  BY <1>1, <1>4 DEF ChunkSize
<1> HIDE DEF C, start, end, F, L, FC, LC, kC, sr, er
<1>13. end = start + a.size
  BY DEF start, end
<1>14. From(a, k) \in Nat /\ Upto(a, k) \in Nat /\ From(a, k) <= Upto(a, k) /\ Upto(a, k) <= C
  <2>1. CASE k = F /\ k = L
    BY <1>1, <1>2, <1>3, <1>7, <1>8, <1>9, <1>13, <2>1
  <2>2. CASE k # F \/ k # L
    BY <1>1, <1>2, <1>3, <1>8, <1>9, <2>2
  <2>3. QED
    BY <2>1, <2>2
<1>15. IsChunk(k) => Upto(a, k) <= ChunkSize(k)
  <2>1. CASE k = L
    BY <1>1, <1>3, <1>4, <1>7, <1>9, <1>12, <1>13, <2>1
  <2>2. CASE k # L
    BY <1>1, <1>3, <1>4, <1>6, <1>7, <1>9, <1>12, <2>2
  <2>3. QED
    BY <2>1, <2>2
<1>16. Progress(a, k) \in Nat
  BY <1>1, <1>2, <1>4, <1>5, <1>7, <1>10
<1>17. Progress(a, k + 1) = Progress(a, k) + Upto(a, k) - From(a, k)
       /\ Progress(a, k + 1) <= a.size
       /\ kC + From(a, k) = start + Progress(a, k)
  <2>1. CASE k = F /\ k = L
    BY <1>1, <1>2, <1>3, <1>4, <1>7, <1>8, <1>9, <1>10, <1>11, <1>13, <2>1
  <2>2. CASE k = F /\ k # L
    BY <1>1, <1>2, <1>3, <1>4, <1>6, <1>7, <1>8, <1>9, <1>10, <1>11, <1>13, <2>2
  <2>3. CASE k # F /\ k = L
    BY <1>1, <1>2, <1>3, <1>4, <1>5, <1>7, <1>8, <1>9, <1>10, <1>11, <1>13, <2>3
  <2>4. CASE k # F /\ k # L
    BY <1>1, <1>2, <1>3, <1>4, <1>6, <1>7, <1>8, <1>9, <1>10, <1>11, <1>13, <2>4
  <2>5. QED
    BY <2>1, <2>2, <2>3, <2>4
<1>18. QED
  BY <1>14, <1>15, <1>16, <1>17 DEF C, start, kC

------------------------------------------------------------------------------
(* The cache. *)

(* What First chooses is there to be chosen: numbers have a least one. *)
LEMMA FirstIsElement ==
  ASSUME NEW S \in SUBSET Nat, S # {}
  PROVE  First(S) \in S
<1>1. PICK j \in S : \A k \in S : ~ <<k, j>> \in OpToRel(<, Nat)
  BY NatLessThanWellFounded, WFMin
<1>2. \A k \in S : ~ (k < j)
  BY <1>1 DEF OpToRel
<1>3. \A k \in S : j <= k
  BY <1>2
<1>4. QED
  BY <1>3 DEF First

(* The scan of the slots ends at one that has the chunk, if there is one. *)
LEMMA TargetIsSlot ==
  ASSUME NEW k
  PROVE  /\ Target(k) \in CacheIds
         /\ Holding(k) # {} => cache[Target(k)].chunk = k
<1>1. Holding(k) \subseteq CacheIds /\ Stalest \subseteq CacheIds
  BY DEF Holding, Stalest
<1>2. CacheIds \subseteq Nat /\ 0 \in CacheIds
  BY DictDataAssumption DEF CacheIds
<1>3. CASE Holding(k) # {}
  <2>1. Target(k) \in Holding(k)
    BY <1>1, <1>2, <1>3, FirstIsElement DEF Target
  <2>2. QED
    BY <2>1 DEF Holding
<1>4. CASE Holding(k) = {} /\ Stalest # {}
  BY <1>1, <1>2, <1>4, FirstIsElement DEF Target
<1>5. CASE Holding(k) = {} /\ Stalest = {}
  BY <1>2, <1>5 DEF Target
<1>6. QED
  BY <1>3, <1>4, <1>5

(* A chunk of the text that is read is text, kept or newly inflated. *)
LEMMA ChunkReadIsText ==
  ASSUME Types, CacheInv, NEW k \in Nat, NEW r \in ChunkRead(k)
  PROVE  /\ r.buf \in [0 .. (ChunkLength - 1) -> Int]
         /\ r.count \in 0 .. ChunkLength
         /\ r.ok \in BOOLEAN
         /\ ~beyond /\ IsChunk(k) =>
              /\ r.ok /\ r.count = ChunkSize(k)
              /\ \A o \in 0 .. (r.count - 1) : r.buf[o] = k * ChunkLength + o
<1> DEFINE c == cache[Target(k)]
<1>1. Target(k) \in CacheIds /\ c \in ChunkSlot
  BY TargetIsSlot DEF Types
<1>2. CASE Holding(k) # {}
  <2>1. r = [buf |-> c.buf, count |-> c.count, ok |-> inflating]
    BY <1>2 DEF ChunkRead
  <2>2. c.chunk = k
    BY <1>2, TargetIsSlot
  <2>3. ~beyond => inflating /\ HoldsText(c)
    BY <1>1 DEF CacheInv
  <2>4. inflating \in BOOLEAN
    BY DEF Types
  <2>5. QED
    BY <1>1, <2>1, <2>2, <2>3, <2>4 DEF ChunkSlot, HoldsText
<1>3. CASE Holding(k) = {} /\ inflating /\ IsChunk(k)
  <2> DEFINE text == [o \in DOMAIN c.buf |-> IF o < ChunkSize(k) THEN k * ChunkLength + o
                                             ELSE c.buf[o]]
  <2>1. r.buf = text /\ r.count = ChunkSize(k) /\ r.ok = TRUE
    BY <1>3 DEF ChunkRead, Inflated
  <2>2. DOMAIN c.buf = 0 .. (ChunkLength - 1) /\ c.buf \in [0 .. (ChunkLength - 1) -> Int]
    BY <1>1 DEF ChunkSlot
  <2>3. ChunkSize(k) \in 1 .. ChunkLength /\ ChunkLength \in Nat
    BY <1>3, ChunkSizes, DictDataAssumption
  <2>4. k * ChunkLength \in Nat
    BY DictDataAssumption
  <2>5. text \in [0 .. (ChunkLength - 1) -> Int]
    BY <2>2, <2>3, <2>4
  <2>6. \A o \in 0 .. (ChunkSize(k) - 1) : text[o] = k * ChunkLength + o
    BY <2>2, <2>3
  <2> HIDE DEF text
  <2>7. r.ok \in BOOLEAN /\ r.ok
    BY <2>1, Zenon
  <2>8. r.buf \in [0 .. (ChunkLength - 1) -> Int] /\ r.count \in 0 .. ChunkLength
    BY <2>1, <2>3, <2>5
  <2>9. r.count = ChunkSize(k) /\ \A o \in 0 .. (r.count - 1) : r.buf[o] = k * ChunkLength + o
    BY <2>1, <2>6
  <2>10. QED
    BY <2>7, <2>8, <2>9
<1>4. CASE Holding(k) = {} /\ ~(inflating /\ IsChunk(k))
  <2>0. PICK ok \in {inflating, FALSE} : r = [buf |-> c.buf, count |-> 0, ok |-> ok]
    BY <1>4 DEF ChunkRead, Inflated
  <2>1. r.buf = c.buf /\ r.count = 0 /\ r.ok \in {inflating, FALSE}
    BY <2>0
  <2>2. ~beyond /\ IsChunk(k) => FALSE
    BY <1>4 DEF CacheInv
  <2>3. inflating \in BOOLEAN
    BY DEF Types
  <2>4. r.ok \in BOOLEAN
    BY <2>1, <2>3, Zenon
  <2>5. r.buf \in [0 .. (ChunkLength - 1) -> Int] /\ r.count \in 0 .. ChunkLength
    BY <1>1, <2>1, DictDataAssumption DEF ChunkSlot
  <2>6. QED
    BY <2>2, <2>4, <2>5, Zenon
<1>5. QED
  BY <1>2, <1>3, <1>4

(* Counted on, a stamp is still an int. *)
LEMMA NextStampIsStamp == stamp \in Stamps => NextStamp \in Stamps
  BY DictDataAssumption DEF Stamps, NextStamp

------------------------------------------------------------------------------
(* The invariant, action by action. *)

(* An article does not end before the chunk it begins in. *)
LEMMA FirstBeforeLast ==
  ASSUME NEW a \in Articles
  PROVE  FirstChunk(a) \in Nat /\ LastChunk(a) \in Nat /\ FirstChunk(a) <= LastChunk(a)
<1> DEFINE F == FirstChunk(a)
           L == LastChunk(a)
           FC == F * ChunkLength
           LC == L * ChunkLength
<1>1. a.offset \in Nat /\ a.size \in Nat /\ ChunkLength \in Nat \ {0}
  BY DictDataAssumption
<1>2. F \in Nat /\ FC <= a.offset /\ FC \in Nat
  BY <1>1, Division DEF FirstChunk
<1>3. L \in Nat /\ a.offset + a.size < LC + ChunkLength /\ LC \in Nat
  BY <1>1, Division DEF LastChunk
<1>4. SUFFICES ASSUME L + 1 <= F PROVE FALSE
  BY <1>2, <1>3
<1>5. (L + 1) * ChunkLength <= FC
  BY <1>1, <1>2, <1>3, <1>4, TimesMonotonic
<1>6. (L + 1) * ChunkLength = LC + ChunkLength
  BY <1>1, <1>3
<1> HIDE DEF F, L, FC, LC
<1>7. QED
  BY <1>1, <1>2, <1>3, <1>5, <1>6

(* An article, its text, and any result of its size. *)
LEMMA ArticleFacts ==
  ASSUME NEW a \in Articles
  PROVE  a \in [offset : Nat, size : Nat] /\ a.offset \in Nat /\ a.size \in Nat
         /\ TextOf(a) \in [0 .. (a.size - 1) -> Int]
         /\ [0 .. (a.size - 1) -> Int] \subseteq Data
  BY DictDataAssumption DEF TextOf, Data

(* With nothing in the caches there is nothing that could be wrong. *)
LEMMA InitHolds == Init => IInv
<1> SUFFICES ASSUME Init PROVE IInv
  OBVIOUS
<1> USE DEF Init
<1>1. cache \in [CacheIds -> ChunkSlot]
  BY DictDataAssumption DEF ChunkSlot, Blank, Garbage, Stamps
<1>2. stamp \in Stamps
  BY DictDataAssumption DEF Stamps
<1>8. inflating \in BOOLEAN /\ beyond \in BOOLEAN
  BY Zenon
<1>3. words \in Pool(WordDataCacheNum, Nat, Data) /\ Elements(words) = {}
  BY EmptyPoolIsPool, DictDataAssumption
<1>4. Blank(0) \in [0 .. (0 - 1) -> Int] /\ Blank(0) = TextOf(NoArticle)
  BY DEF Blank, Garbage, TextOf, NoArticle
<1>5. answer \in [article : [offset : Nat, size : Nat], data : Data]
  BY <1>4 DEF Answer, NoArticle, Data
<1>6. ArticlesAreText
  BY <1>4 DEF ArticlesAreText, Answer
<1>7. CacheInv
  BY DEF CacheInv, HoldsText
<1>9. QED
  BY <1>1, <1>2, <1>3, <1>5, <1>6, <1>7, <1>8 DEF IInv, FileInv, Types, LoopInv, WordsInv

(* A read begins with nothing copied. *)
LEMMA BeginKeeps ==
  ASSUME FileInv, NEW a \in Articles, NEW call \in {"GetWordData", "SearchData"}, Begin(call, a)
  PROVE  FileInv' /\ UNCHANGED <<answer, beyond>>
<1> USE DEF Begin, fileVars
<1>1. Types' /\ CacheInv' /\ WordsInv'
  BY DEF FileInv, Types, CacheInv, WordsInv, Elements
<1>2. i' \in Nat /\ FirstChunk(a) <= i' /\ i' <= LastChunk(a) + 1
  BY FirstBeforeLast
<1>3. pt' = Progress(a, i') /\ pt' = 0
  BY DEF Progress
<1>4. buffer' \in [0 .. (a.size - 1) -> Int]
  BY DEF Blank, Garbage
<1>5. LoopInv'
  <2>1. article' = a
    OBVIOUS
  <2>2. \A q \in 0 .. (a.size - 1) : ~(q < pt')
    BY <1>3, ArticleFacts
  <2>3. QED
    BY <1>2, <1>3, <1>4, <2>1, <2>2 DEF LoopInv, Progress, FirstChunk, LastChunk
<1>6. QED
  BY <1>1, <1>5 DEF FileInv

(* What comes from the ring was put there for the same offset. *)
LEMMA KeptKeeps ==
  ASSUME FileInv, NEW a \in Articles, Kept(a)
  PROVE  /\ FileInv'
         /\ OffsetsTell => ArticlesAreText'
<1> USE DEF Kept, fileVars, callVars
<1>1. words \in Pool(WordDataCacheNum, Nat, Data) /\ WordDataCacheNum \in Nat
  BY DictDataAssumption DEF FileInv, Types
<1>2. PICK e \in Elements(words) : e.key = a.offset /\ Cached(words, a.offset) = e.data
  BY <1>1, CachedIsElement
<1>3. e.data \in Data
  BY <1>1, PoolShape DEF Elements
<1>4. answer' = [article |-> a, data |-> e.data]
  BY <1>2 DEF Answer
<1>5. answer' \in [article : [offset : Nat, size : Nat], data : Data]
  BY <1>3, <1>4, ArticleFacts
<1>6. FileInv'
  BY <1>5 DEF FileInv, Types, CacheInv, LoopInv, WordsInv, Elements
<1>7. ASSUME OffsetsTell, ~beyond PROVE e.data = TextOf(a)
  <2>1. IsKept(e)
    BY <1>7 DEF FileInv, WordsInv
  <2>2. PICK b \in Articles : e.key = b.offset /\ e.data = TextOf(b)
    BY <2>1 DEF IsKept
  <2>3. a = b
    BY <1>2, <1>7, <2>2 DEF OffsetsTell
  <2>4. QED
    BY <2>2, <2>3
<1>8. QED
  BY <1>4, <1>6, <1>7 DEF ArticlesAreText

(* When the loop is done all of the article is copied. *)
LEMMA ReturnKeeps ==
  ASSUME FileInv, Return
  PROVE  FileInv' /\ ArticlesAreText'
<1> USE DEF Return, fileVars
<1>1. /\ article \in Articles /\ i = LastChunk(article) + 1 /\ pt = Progress(article, i)
      /\ buffer \in [0 .. (article.size - 1) -> Int]
      /\ ~beyond => \A q \in 0 .. (article.size - 1) : q < pt => buffer[q] = article.offset + q
  <2>1. LastChunk(article) \in Nat
    BY FirstBeforeLast DEF FileInv, LoopInv
  <2>2. QED
    BY <2>1 DEF FileInv, LoopInv
<1>2. FirstChunk(article) \in Nat /\ LastChunk(article) \in Nat
      /\ FirstChunk(article) <= LastChunk(article)
  BY <1>1, FirstBeforeLast
<1>3. pt = article.size
  BY <1>1, <1>2 DEF Progress
<1>4. ~beyond => buffer = TextOf(article)
  <2>1. SUFFICES ASSUME ~beyond PROVE buffer = TextOf(article)
    OBVIOUS
  <2>2. \A q \in 0 .. (article.size - 1) : buffer[q] = article.offset + q
    BY <1>1, <1>3, <2>1, ArticleFacts
  <2>3. QED
    BY <1>1, <2>2 DEF TextOf
<1>5. buffer \in Data /\ article.offset \in Nat /\ article \in [offset : Nat, size : Nat]
  BY <1>1, ArticleFacts
<1>6. /\ words' \in Pool(WordDataCacheNum, Nat, Data)
      /\ Elements(words') \subseteq Elements(words) \cup {[key |-> article.offset, data |-> buffer]}
  <2>1. words \in Pool(WordDataCacheNum, Nat, Data)
    BY DEF FileInv, Types
  <2>2. CASE op = "GetWordData"
    BY <1>5, <2>1, <2>2, SavePoolIsPool, DictDataAssumption
  <2>3. CASE op # "GetWordData"
    BY <2>1, <2>3
  <2>4. QED
    BY <2>2, <2>3
<1>7. WordsInv'
  <2>1. SUFFICES ASSUME ~beyond, NEW e \in Elements(words') PROVE IsKept(e)
    BY DEF WordsInv, Elements, IsKept
  <2>2. CASE e \in Elements(words)
    BY <2>1, <2>2 DEF FileInv, WordsInv
  <2>3. CASE e = [key |-> article.offset, data |-> buffer]
    BY <1>1, <1>4, <2>1, <2>3 DEF IsKept
  <2>4. QED
    BY <1>6, <2>2, <2>3
<1>8. answer' = [article |-> article, data |-> buffer]
  BY DEF Answer
<1>9. Types'
  BY <1>5, <1>6, <1>8 DEF FileInv, Types
<1>10. CacheInv' /\ LoopInv'
  BY DEF FileInv, CacheInv, LoopInv
<1>11. ArticlesAreText'
  BY <1>4, <1>8 DEF ArticlesAreText
<1>12. QED
  BY <1>7, <1>9, <1>10, <1>11 DEF FileInv

(* Another dictionary's read only counts the stamp on. *)
LEMMA OtherReadsKeeps ==
  ASSUME FileInv, OtherReads
  PROVE  FileInv' /\ UNCHANGED <<answer, beyond>>
<1> USE DEF OtherReads, callVars
<1>1. stamp' \in Stamps
  BY NextStampIsStamp DEF FileInv, Types
<1>2. QED
  BY <1>1 DEF FileInv, Types, CacheInv, LoopInv, WordsInv, Elements

(* A turn of the loop copies the part of the article that lies in one chunk
   and leaves in the cache what it inflated.                              *)
LEMMA ReadChunkKeeps ==
  ASSUME FileInv, ReadChunk
  PROVE  FileInv' /\ UNCHANGED answer /\ (beyond => beyond')
<1> DEFINE a == article
           from == From(a, i)
           n == Upto(a, i) - from
           t == Target(i)
<1>1. /\ Types /\ CacheInv /\ WordsInv
      /\ a \in Articles /\ i \in Nat /\ FirstChunk(a) <= i /\ i <= LastChunk(a)
      /\ pt = Progress(a, i)
      /\ buffer \in [0 .. (a.size - 1) -> Int]
      /\ ~beyond => \A q \in 0 .. (a.size - 1) : q < pt => buffer[q] = a.offset + q
  BY DEF FileInv, LoopInv, ReadChunk
<1>2. /\ stamp' = NextStamp /\ i' = i + 1 /\ beyond' = (beyond \/ ~IsChunk(i))
      /\ words' = words /\ op' = op /\ article' = article /\ answer' = answer
      /\ pt' = pt + n
  BY DEF ReadChunk
<1>3. PICK r \in ChunkRead(i) : cache' = Filled(t, i, r) /\ inflating' = r.ok
                               /\ buffer' = Copied(r.buf, from, n)
  BY DEF ReadChunk
<1>4. /\ r.buf \in [0 .. (ChunkLength - 1) -> Int]
      /\ r.count \in 0 .. ChunkLength
      /\ r.ok \in BOOLEAN
      /\ ~beyond /\ IsChunk(i) =>
           /\ r.ok /\ r.count = ChunkSize(i)
           /\ \A o \in 0 .. (r.count - 1) : r.buf[o] = i * ChunkLength + o
  BY <1>1, ChunkReadIsText
<1>5. /\ from \in Nat /\ n \in Nat /\ from + n <= ChunkLength
      /\ IsChunk(i) => from + n <= ChunkSize(i)
      /\ pt \in Nat /\ Progress(a, i + 1) = pt + n /\ pt + n <= a.size
      /\ i * ChunkLength + from = a.offset + pt
  <2> DEFINE upto == Upto(a, i)
  <2>1. /\ from \in Nat /\ upto \in Nat /\ from <= upto /\ upto <= ChunkLength
        /\ IsChunk(i) => upto <= ChunkSize(i)
        /\ pt \in Nat /\ Progress(a, i + 1) = pt + upto - from /\ Progress(a, i + 1) <= a.size
        /\ i * ChunkLength + from = a.offset + pt
    BY <1>1, Pieces
  <2>2. n = upto - from
    OBVIOUS
  <2> HIDE DEF upto, from, n, a
  <2>3. QED
    BY <2>1, <2>2
<1>6. a.offset \in Nat /\ a.size \in Nat /\ i * ChunkLength \in Nat /\ ChunkLength \in Nat
  BY <1>1, ArticleFacts, DictDataAssumption
<1>7. t \in CacheIds
  BY TargetIsSlot
<1>8. stamp' \in Stamps
  BY <1>1, <1>2, NextStampIsStamp DEF Types
<1>9. ~beyond' => ~beyond /\ IsChunk(i)
  BY <1>2, Zenon
<1>10. beyond' \in BOOLEAN /\ inflating' \in BOOLEAN
  <2>1. beyond' \in BOOLEAN
    BY <1>2, Zenon
  <2>2. inflating' \in BOOLEAN
    BY <1>3, <1>4, Zenon
  <2>3. QED
    BY <2>1, <2>2, Zenon
<1>11. /\ cache' \in [CacheIds -> ChunkSlot]
       /\ \A j \in CacheIds : j # t => cache'[j] = cache[j]
       /\ cache'[t] = [chunk |-> i, stamp |-> stamp', buf |-> r.buf, count |-> r.count]
  <2> DEFINE new == [chunk |-> i, stamp |-> stamp', buf |-> r.buf, count |-> r.count]
  <2>1. new \in ChunkSlot
    BY <1>1, <1>4, <1>8 DEF ChunkSlot
  <2>2. cache' = [cache EXCEPT ![t] = new]
    BY <1>2, <1>3 DEF Filled
  <2>3. cache \in [CacheIds -> ChunkSlot]
    BY <1>1 DEF Types
  <2> HIDE DEF new, t
  <2>4. cache'[t] = new
    BY <1>7, <2>2, <2>3
  <2>5. cache' \in [CacheIds -> ChunkSlot] /\ \A j \in CacheIds : j # t => cache'[j] = cache[j]
    BY <1>7, <2>1, <2>2, <2>3
  <2>6. QED
    BY <2>4, <2>5 DEF new
<1>12. CacheInv'
  <2>1. SUFFICES ASSUME ~beyond' PROVE inflating' /\ \A j \in CacheIds : HoldsText(cache'[j])
    BY DEF CacheInv, HoldsText, IsChunk, ChunkSize, CacheIds
  <2>2. inflating'
    BY <1>3, <1>4, <1>9, <2>1, Zenon
  <2>3. ASSUME NEW j \in CacheIds, j # t PROVE HoldsText(cache'[j])
    BY <1>1, <1>9, <1>11, <2>1, <2>3 DEF CacheInv
  <2>4. HoldsText(cache'[t])
    BY <1>4, <1>9, <1>11, <2>1 DEF HoldsText
  <2>5. QED
    BY <2>2, <2>3, <2>4
<1>13. /\ buffer' \in [0 .. (a.size - 1) -> Int]
       /\ ~beyond' => \A q \in 0 .. (a.size - 1) : q < pt' => buffer'[q] = a.offset + q
  <2>1. buffer' = [q \in 0 .. (a.size - 1) |->
                     IF pt <= q /\ q < pt + n THEN r.buf[from + q - pt] ELSE buffer[q]]
    BY <1>1, <1>3 DEF Copied
  <2> HIDE DEF from, n, a
  <2>2. ASSUME NEW q \in 0 .. (a.size - 1), pt <= q, q < pt + n
        PROVE  /\ from + q - pt \in 0 .. (ChunkLength - 1)
               /\ IsChunk(i) => from + q - pt \in 0 .. (ChunkSize(i) - 1)
               /\ i * ChunkLength + (from + q - pt) = a.offset + q
    <3> DEFINE base == i * ChunkLength
               size == ChunkSize(i)
    <3>1. base \in Nat /\ base + from = a.offset + pt /\ (IsChunk(i) => size \in Nat)
      <4>1. IsChunk(i) => size \in 1 .. ChunkLength
        BY <1>1, ChunkSizes
      <4>2. QED
        BY <1>5, <1>6, <4>1
    <3>2. q \in Nat
      BY <1>6
    <3>3. IsChunk(i) => from + n <= size
      BY <1>5
    <3> HIDE DEF base, size
    <3>4. from + q - pt \in 0 .. (ChunkLength - 1) /\ base + (from + q - pt) = a.offset + q
      BY <1>5, <1>6, <2>2, <3>1, <3>2
    <3>5. IsChunk(i) => from + q - pt \in 0 .. (size - 1)
      BY <1>5, <2>2, <3>1, <3>2, <3>3
    <3>6. QED
      BY <3>4, <3>5 DEF base, size
  <2>3. ASSUME NEW q \in 0 .. (a.size - 1) PROVE buffer'[q] \in Int
    <3>1. CASE pt <= q /\ q < pt + n
      BY <1>4, <2>1, <2>2, <3>1
    <3>2. CASE ~(pt <= q /\ q < pt + n)
      BY <1>1, <2>1, <3>2 DEF a
    <3>3. QED
      BY <3>1, <3>2
  <2>4. ASSUME ~beyond', NEW q \in 0 .. (a.size - 1), q < pt'
        PROVE  buffer'[q] = a.offset + q
    <3>1. CASE pt <= q
      <4>1. q < pt + n
        BY <1>2, <2>4 DEF n, from, a
      <4>2. buffer'[q] = r.buf[from + q - pt]
        BY <2>1, <3>1, <4>1
      <4>3. QED
        BY <1>4, <1>9, <2>2, <2>4, <3>1, <4>1, <4>2
    <3>2. CASE ~(pt <= q)
      <4>1. q < pt
        BY <1>5, <1>6, <3>2
      <4>2. QED
        BY <1>1, <1>9, <2>1, <2>4, <3>2, <4>1 DEF a
    <3>3. QED
      BY <3>1, <3>2
  <2>5. buffer' \in [0 .. (a.size - 1) -> Int]
    BY <2>1, <2>3
  <2>6. QED
    BY <2>4, <2>5
<1>14. LoopInv'
  <2>1. i' \in Nat /\ FirstChunk(a) <= i' /\ i' <= LastChunk(a) + 1
    BY <1>1, <1>2, FirstBeforeLast
  <2>2. pt' = Progress(a, i')
    BY <1>2, <1>5
  <2> HIDE DEF a
  <2>3. article' = a
    BY <1>2 DEF a
  <2>4. a \in Articles
    BY <1>1 DEF a
  <2>5. QED
    BY <1>13, <2>1, <2>2, <2>3, <2>4 DEF LoopInv, Progress, FirstChunk, LastChunk
<1>15. WordsInv'
  BY <1>1, <1>2, <1>9 DEF WordsInv, Elements, IsKept
<1>16. Types'
  BY <1>1, <1>2, <1>8, <1>10, <1>11 DEF Types
<1>17. QED
  BY <1>2, <1>12, <1>14, <1>15, <1>16 DEF FileInv

(* Every step keeps the invariant, whatever the index entries are but for
   the articles handed out, which need every offset to tell the article.  *)
LEMMA NextKeeps ==
  ASSUME FileInv, [Next]_vars
  PROVE  /\ FileInv'
         /\ OffsetsTell /\ ArticlesAreText => ArticlesAreText'
<1> DEFINE Same == UNCHANGED answer /\ (beyond => beyond')
<1>1. Same => (ArticlesAreText => ArticlesAreText')
  BY DEF ArticlesAreText
<1>2. ASSUME NEW a \in Articles, GetWordData(a)
      PROVE  FileInv' /\ (OffsetsTell /\ ArticlesAreText => ArticlesAreText')
  <2>1. CASE Kept(a)
    BY <2>1, KeptKeeps
  <2>2. CASE Begin("GetWordData", a)
    BY <1>1, <2>2, BeginKeeps
  <2>3. QED
    BY <1>2, <2>1, <2>2 DEF GetWordData
<1>3. ASSUME NEW a \in Articles, SearchData(a)
      PROVE  FileInv' /\ (OffsetsTell /\ ArticlesAreText => ArticlesAreText')
  BY <1>1, <1>3, BeginKeeps DEF SearchData
<1>4. CASE ReadChunk
  BY <1>1, <1>4, ReadChunkKeeps
<1>5. CASE Return
  BY <1>5, ReturnKeeps
<1>6. CASE OtherReads
  BY <1>1, <1>6, OtherReadsKeeps
<1>7. CASE UNCHANGED vars
  BY <1>1, <1>7 DEF vars, FileInv, Types, CacheInv, LoopInv, WordsInv, Elements
<1>8. QED
  BY <1>2, <1>3, <1>4, <1>5, <1>6, <1>7 DEF Next

------------------------------------------------------------------------------
(* The cache and the loop of dictData::read keep their word for every file
   and every set of articles: the invariant on which the rest stands.     *)
THEOREM FileInvariance == Spec => []FileInv
<1>1. Init => FileInv
  BY InitHolds DEF IInv
<1>2. FileInv /\ [Next]_vars => FileInv'
  BY NextKeeps
<1>3. QED
  BY <1>1, <1>2, PTL DEF Spec

(* Every variable holds what its declaration lets it hold, the stamps in
   the width of an int and the ring of articles within its places.        *)
THEOREM DataTypeCorrect == Spec => []TypeOK
<1>1. FileInv => TypeOK
  <2>1. SUFFICES ASSUME FileInv PROVE TypeOK
    OBVIOUS
  <2>2. \A j \in CacheIds : cache[j].chunk \in Nat \cup {-1} /\ cache[j].count \in 0 .. ChunkLength
    BY <2>1 DEF FileInv, Types, ChunkSlot
  <2>3. /\ words \in [slot : {words.slot}, pos : Slots(WordDataCacheNum)]
        /\ DOMAIN words.slot \subseteq Slots(WordDataCacheNum)
    BY <2>1, PoolShape, DictDataAssumption DEF FileInv, Types
  <2>4. QED
    BY <2>1, <2>2, <2>3 DEF FileInv, Types, TypeOK, Stamps
<1>2. QED
  BY <1>1, FileInvariance, PTL

(* While no chunk after the last one is read, every slot of the cache holds
   the text of the chunk it is said to hold.                              *)
THEOREM ChunksAreRight == Spec => []ChunksAreText
<1>1. FileInv => ChunksAreText
  BY DEF FileInv, CacheInv, HoldsText, ChunksAreText
<1>2. QED
  BY <1>1, FileInvariance, PTL

(* If no two entries point to the same offset with different sizes, what is
   handed out for an entry is its article, for every file and dictionary. *)
THEOREM ArticlesAreRight ==
  ASSUME OffsetsTell
  PROVE  Spec => []ArticlesAreText
<1>1. Init => IInv
  BY InitHolds
<1>2. IInv /\ [Next]_vars => IInv'
  BY NextKeeps DEF IInv
<1>3. IInv => ArticlesAreText
  BY DEF IInv
<1>4. QED
  BY <1>1, <1>2, <1>3, PTL DEF Spec

(* If the last chunk is not full, no read goes past it, so that the premise
   of ChunksAreText and ArticlesAreText never fails.                      *)
THEOREM ReadsStayInside ==
  ASSUME Length % ChunkLength # 0
  PROVE  Spec => []~beyond
<1>1. ASSUME NEW a \in Articles, NEW k \in Nat, k <= LastChunk(a)
      PROVE  IsChunk(k)
  <2> DEFINE end == a.offset + a.size
             L == LastChunk(a)
             Q == Length \div ChunkLength
             LC == L * ChunkLength
             QC == Q * ChunkLength
  <2>1. end \in Nat /\ end <= Length /\ Length \in Nat /\ ChunkLength \in Nat \ {0}
    BY DictDataAssumption
  <2>2. L \in Nat /\ LC \in Nat /\ LC <= end
    BY <2>1, Division DEF LastChunk
  <2>3. Length % ChunkLength \in Nat /\ Length % ChunkLength > 0
    BY <2>1, Division
  <2>4. Q \in Nat /\ QC \in Nat /\ Length = QC + (Length % ChunkLength)
    BY <2>1, Division
  <2>5. k * ChunkLength <= LC /\ k * ChunkLength \in Nat
    BY <1>1, <2>1, <2>2, TimesMonotonic
  <2>6. LC # Length
    <3>1. L <= Q \/ Q + 1 <= L
      BY <2>2, <2>4
    <3>2. CASE L <= Q
      <4>1. LC <= QC
        BY <2>1, <2>2, <2>4, <3>2, TimesMonotonic
      <4> HIDE DEF LC, QC, L, Q
      <4>2. QED
        BY <2>2, <2>3, <2>4, <4>1
    <3>3. CASE Q + 1 <= L
      <4>1. (Q + 1) * ChunkLength <= LC /\ (Q + 1) * ChunkLength = QC + ChunkLength
        BY <2>1, <2>2, <2>4, <3>3, TimesMonotonic
      <4>2. Length % ChunkLength < ChunkLength
        BY <2>1, Division
      <4> HIDE DEF LC, QC, L, Q
      <4>3. QED
        BY <2>1, <2>2, <2>3, <2>4, <4>1, <4>2
    <3>4. QED
      BY <3>1, <3>2, <3>3
  <2> HIDE DEF LC, L, end
  <2>7. QED
    BY <2>1, <2>2, <2>5, <2>6 DEF IsChunk
<1>2. Init => ~beyond
  BY DEF Init
<1>3. FileInv /\ ~beyond /\ [Next]_vars => ~beyond'
  <2>1. SUFFICES ASSUME FileInv, ~beyond, [Next]_vars PROVE ~beyond'
    OBVIOUS
  <2>2. CASE ReadChunk
    <3>1. article \in Articles /\ i \in Nat /\ i <= LastChunk(article)
      BY <2>1, <2>2 DEF FileInv, LoopInv, ReadChunk
    <3>2. IsChunk(i)
      BY <1>1, <3>1
    <3>3. QED
      BY <2>1, <2>2, <3>2, Zenon DEF ReadChunk
  <2>3. CASE ~ReadChunk
    BY <2>1, <2>3 DEF Next, GetWordData, SearchData, Kept, Begin, Return, OtherReads, vars, fileVars
  <2>4. QED
    BY <2>2, <2>3
<1>4. QED
  BY <1>2, <1>3, FileInvariance, PTL DEF Spec

------------------------------------------------------------------------------
(* The cache files of word indexes. *)

Typed ==
  /\ clock \in Nat
  /\ index \in [Dicts -> [version : Nat, mtime : Nat]]
  /\ files \in [Places -> {Nil} \cup CacheFile]
  /\ loaded \in [Dicts -> {Nil} \cup [table : Tables, open : Nat]]
  /\ saving \in {Nil} \cup [dict : Dicts, table : Tables, place : Places]

\* A file on disk that could be taken for the cache of an index is one of it.
FilesFit ==
  \A q \in Places, d \in Dicts :
    Usable(files[q], d) /\ d \notin misdated => files[q].table = TableOf(d)

\* The file being written names no index yet, and what is to go into it still fits.
SavingFits ==
  saving # Nil =>
    /\ saving \in [dict : Dicts, table : Tables, place : Places]
    /\ files[saving.place] \in CacheFile
    /\ files[saving.place].url = Nil
    /\ files[saving.place].table \in {Nil, saving.table}
    /\ saving.dict \notin misdated => saving.table = TableOf(saving.dict)

\* The table in memory fits the index that is about to be opened.
OpeningFits ==
  opening # Nil =>
    /\ opening \in [dict : Dicts, table : Tables]
    /\ opening.dict \notin misdated /\ opening.dict \notin overtaken
         => opening.table = TableOf(opening.dict)

Inv == Typed /\ FilesFit /\ SavingFits /\ OpeningFits /\ OffsetsFitTheIndex

LEMMA TableTyped ==
  ASSUME Typed, NEW d \in Dicts
  PROVE  TableOf(d) \in Tables
  BY DEF TableOf, Tables, Typed

LEMMA InitInv == CacheInit => Inv
<1> SUFFICES ASSUME CacheInit PROVE Inv
  OBVIOUS
<1>1. Leftover \subseteq {Nil} \cup CacheFile
  BY DEF Leftover, CacheFile, Tables
<1>2. PICK f \in [Dicts -> Leftover] :
        files = [q \in Places |-> IF q[2] = 1 /\ q[1] \in Dicts THEN f[q[1]] ELSE Nil]
  BY DEF CacheInit
<1>3. \A q \in Places : files[q] \in Leftover
  BY <1>2 DEF Leftover
<1>4. Typed
  BY <1>1, <1>2, <1>3 DEF CacheInit, Typed
<1>5. FilesFit
  <2>1. ASSUME NEW q \in Places, NEW d \in Dicts, Usable(files[q], d)
        PROVE  files[q].table = TableOf(d)
    <3>1. PICK e \in Dicts : files[q] = [table |-> <<e, 0>>, url |-> e, mtime |-> 0]
      <4>1. files[q] \in Leftover /\ files[q] # Nil
        BY <1>3, <2>1 DEF Usable, Complete
      <4>2. files[q] # [table |-> Nil, url |-> Nil, mtime |-> 0]
        BY <2>1 DEF Usable, Complete
      <4>3. QED
        BY <4>1, <4>2, Zenon DEF Leftover
    <3>2. e = d
      BY <2>1, <3>1 DEF Usable
    <3>3. QED
      BY <3>1, <3>2 DEF CacheInit, TableOf
  <2>2. QED
    BY <2>1 DEF FilesFit
<1>6. SavingFits /\ OpeningFits /\ OffsetsFitTheIndex
  BY DEF CacheInit, SavingFits, OpeningFits, OffsetsFitTheIndex
<1>7. QED
  BY <1>4, <1>5, <1>6 DEF Inv

-----------------------------------------------------------------------------
\* A dictionary whose load begins is not in use yet.
LEMMA BeginningFits ==
  ASSUME Inv, NEW d \in Dicts, BeginsLoad(d), UNCHANGED <<loaded, misdated>>
  PROVE  OffsetsFitTheIndex'
  BY DEF Inv, BeginsLoad, OffsetsFitTheIndex

\* The table of a cache, or the one computed, fits the index as it is now.
LEMMA FromCacheKeeps ==
  ASSUME Inv, NEW d \in Dicts, LoadCached(d) \/ LoadUnsaved(d)
  PROVE  Inv'
<1>1. PICK t \in Tables :
        opening' = [dict |-> d, table |-> t] /\ (d \notin misdated => t = TableOf(d))
  <2>1. CASE LoadCached(d)
    <3>1. PICK q \in Found(d) : opening' = [dict |-> d, table |-> files[q].table]
      BY <2>1 DEF LoadCached
    <3>2. q \in Places /\ Usable(files[q], d)
      BY <3>1 DEF Found, Stops, Places
    <3>3. files[q].table \in Tables /\ (d \notin misdated => files[q].table = TableOf(d))
      BY <3>2 DEF Usable, Complete, Inv, Typed, FilesFit, CacheFile
    <3>4. QED
      BY <3>1, <3>3
  <2>2. CASE LoadUnsaved(d)
    BY <2>2, TableTyped DEF LoadUnsaved, Inv
  <2>3. QED
    BY <2>1, <2>2
<1>2. UNCHANGED <<clock, index, files, loaded, saving, misdated>> /\ BeginsLoad(d)
  BY DEF LoadCached, LoadUnsaved
<1>3. OpeningFits'
  BY <1>1, <1>2 DEF OpeningFits, TableOf
<1>4. QED
  BY <1>2, <1>3, BeginningFits DEF Inv, Typed, FilesFit, SavingFits, TableOf, Usable

LEMMA LoadIndexKeeps ==
  ASSUME Inv, NEW d \in Dicts, LoadIndex(d)
  PROVE  Inv'
<1> DEFINE empty == [table |-> Nil, url |-> Nil, mtime |-> clock]
<1>1. PICK q \in SavePlaces(SaveDir(d), d) :
        /\ files' = [files EXCEPT ![q] = empty]
        /\ saving' = [dict |-> d, table |-> TableOf(d), place |-> q]
  BY DEF LoadIndex
<1>2. q \in Places
  BY <1>1 DEF SavePlaces, Stops, SaveDir, Places
<1>3. empty \in CacheFile /\ empty.url = Nil /\ empty.table = Nil
  BY DEF Inv, Typed, CacheFile
<1>4. UNCHANGED <<clock, index, loaded, opening, misdated>> /\ BeginsLoad(d)
  BY DEF LoadIndex
<1> HIDE DEF empty
<1>5. Typed'
  BY <1>1, <1>2, <1>3, <1>4, TableTyped DEF Inv, Typed
<1>6. FilesFit'
  BY <1>1, <1>2, <1>3, <1>4, CacheAssumption
  DEF Inv, Typed, FilesFit, Usable, Complete, TableOf
<1>7. SavingFits'
  BY <1>1, <1>2, <1>3, <1>4, TableTyped DEF Inv, Typed, SavingFits, TableOf
<1>8. OpeningFits'
  BY <1>4 DEF BeginsLoad, Idle, OpeningFits
<1>9. QED
  BY <1>4, <1>5, <1>6, <1>7, <1>8, BeginningFits DEF Inv

\* Any file written but the one that is named says nothing of an index.
LEMMA WriteTableKeeps ==
  ASSUME Inv, WriteTable
  PROVE  Inv'
<1> DEFINE p == saving.place
           f == [files[p] EXCEPT !.table = saving.table, !.mtime = clock]
<1>1. saving # Nil /\ p \in Places /\ files[p] \in CacheFile /\ files[p].url = Nil
  BY DEF WriteTable, Inv, SavingFits
<1>2. files' = [files EXCEPT ![p] = f]
  BY <1>1 DEF WriteTable, Inv, Typed
<1>3. f \in CacheFile /\ f.url = Nil /\ f.table = saving.table
  BY <1>1 DEF CacheFile, Inv, Typed, SavingFits
<1>4. UNCHANGED <<clock, index, loaded, saving, opening, misdated, overtaken>>
  BY DEF WriteTable
<1> HIDE DEF p, f
<1>5. Typed'
  BY <1>1, <1>2, <1>3, <1>4 DEF Inv, Typed
<1>6. FilesFit'
  BY <1>1, <1>2, <1>3, <1>4, CacheAssumption
  DEF Inv, Typed, FilesFit, Usable, Complete, TableOf
<1>7. files'[p] = f
  BY <1>1, <1>2 DEF Inv, Typed
<1>8. SavingFits'
  BY <1>3, <1>4, <1>7 DEF p, Inv, SavingFits, TableOf
<1>9. QED
  BY <1>4, <1>5, <1>6, <1>8 DEF Inv, OffsetsFitTheIndex, OpeningFits, TableOf

LEMMA WriteTextKeeps ==
  ASSUME Inv, WriteText
  PROVE  Inv'
<1> DEFINE p == saving.place
           d == saving.dict
           f == [files[p] EXCEPT !.url = d, !.mtime = clock]
<1>1. /\ saving # Nil /\ p \in Places /\ d \in Dicts
      /\ files[p] \in CacheFile /\ files[p].table = saving.table
      /\ saving.table \in Tables
      /\ d \notin misdated => saving.table = TableOf(d)
  BY DEF WriteText, Inv, SavingFits
<1>2. files' = [files EXCEPT ![p] = f]
  BY <1>1 DEF WriteText, Inv, Typed
<1>3. f \in CacheFile /\ f.url = d /\ f.table = saving.table
  BY <1>1 DEF CacheFile, Inv, Typed
<1>4. opening' = [dict |-> d, table |-> saving.table]
  BY DEF WriteText
<1>5. saving' = Nil /\ UNCHANGED <<clock, index, loaded, misdated, overtaken>>
  BY DEF WriteText
<1> HIDE DEF p, d, f
<1>6. Typed'
  BY <1>1, <1>2, <1>3, <1>5 DEF Inv, Typed
<1>7. FilesFit'
  <2>1. ASSUME NEW q \in Places, NEW e \in Dicts, Usable(files[q], e)', e \notin misdated
        PROVE  files'[q].table = TableOf(e)
    <3>1. CASE q = p
      <4>1. files'[q] = f
        BY <1>1, <1>2, <3>1 DEF Inv, Typed
      <4>2. e = d
        BY <1>3, <2>1, <4>1 DEF Usable
      <4>3. QED
        BY <1>1, <1>3, <2>1, <4>1, <4>2
    <3>2. CASE q # p
      <4>1. files'[q] = files[q]
        BY <1>1, <1>2, <3>2 DEF Inv, Typed
      <4>2. Usable(files[q], e)
        BY <1>5, <2>1, <4>1 DEF Usable
      <4>3. QED
        BY <2>1, <4>1, <4>2 DEF Inv, FilesFit
    <3>3. QED
      BY <3>1, <3>2
  <2>2. QED
    BY <1>5, <2>1 DEF FilesFit, TableOf
<1>8. SavingFits'
  BY <1>5 DEF SavingFits
<1>9. OpeningFits'
  BY <1>1, <1>4, <1>5 DEF OpeningFits, TableOf
<1>10. QED
  BY <1>5, <1>6, <1>7, <1>8, <1>9 DEF Inv, OffsetsFitTheIndex

\* The table that is taken into use fits the index, unless that was replaced.
LEMMA OpenIndexKeeps ==
  ASSUME Inv, OpenIndex
  PROVE  Inv'
<1> DEFINE d == opening.dict
           l == [table |-> opening.table, open |-> index[d].version]
<1>1. opening # Nil /\ d \in Dicts /\ l \in [table : Tables, open : Nat]
  BY DEF OpenIndex, Inv, Typed, OpeningFits
<1>2. d \notin misdated /\ d \notin overtaken => l.table = <<d, l.open>>
  BY <1>1 DEF Inv, OpeningFits, TableOf
<1>3. /\ loaded' = [loaded EXCEPT ![d] = l] /\ opening' = Nil
      /\ UNCHANGED <<clock, index, files, saving, misdated, overtaken>>
  BY DEF OpenIndex
<1> HIDE DEF d, l
<1>4. Typed' /\ OffsetsFitTheIndex'
  BY <1>1, <1>2, <1>3 DEF Inv, Typed, OffsetsFitTheIndex
<1>5. QED
  BY <1>3, <1>4 DEF Inv, FilesFit, SavingFits, OpeningFits, TableOf, Usable

-----------------------------------------------------------------------------
\* What is dropped of tables in use and of files leaves the rest as it was.
LEMMA DroppingKeeps ==
  ASSUME Inv, UNCHANGED <<clock, index, misdated, overtaken>>,
         loaded' \in [Dicts -> {Nil} \cup [table : Tables, open : Nat]],
         \A d \in Dicts : loaded'[d] \in {Nil, loaded[d]},
         files' \in [Places -> {Nil} \cup CacheFile],
         \A q \in Places : files'[q] \in {Nil, files[q]},
         saving' = Nil, opening' = Nil
  PROVE  Inv'
<1>1. Typed'
  BY DEF Inv, Typed
<1>2. FilesFit'
  BY DEF Inv, FilesFit, Usable, Complete, TableOf
<1>3. SavingFits' /\ OpeningFits' /\ OffsetsFitTheIndex'
  BY DEF Inv, SavingFits, OpeningFits, OffsetsFitTheIndex
<1>4. QED
  BY <1>1, <1>2, <1>3 DEF Inv

LEMMA DropKeeps ==
  ASSUME Inv, CleanCache \/ Crash \/ \E d \in Dicts : Unload(d)
  PROVE  Inv'
<1>1. CASE CleanCache
  BY <1>1, DroppingKeeps DEF CleanCache, Idle, Inv, Typed
<1>2. CASE Crash
  BY <1>2, DroppingKeeps DEF Crash, Inv, Typed
<1>3. ASSUME NEW d \in Dicts, Unload(d)
      PROVE  Inv'
  BY <1>3, DroppingKeeps DEF Unload, Idle, Inv, Typed
<1>4. QED
  BY <1>1, <1>2, <1>3

LEMMA InstallKeeps ==
  ASSUME Inv, NEW d \in Dicts, NEW date \in Nat, Install(d, date)
  PROVE  Inv'
<1>1. /\ index' = [index EXCEPT ![d] = [version |-> @.version + 1, mtime |-> date]]
      /\ UNCHANGED <<clock, files, loaded, saving, opening>>
      /\ misdated \subseteq misdated' /\ overtaken \subseteq overtaken'
  BY DEF Install
<1>2. d \notin misdated' =>
        /\ \A q \in Places : files[q] # Nil /\ files[q].url = d => ~ (files[q].mtime >= date)
        /\ saving # Nil => saving.dict # d
  BY DEF Install
<1>0. d \notin overtaken' => (opening # Nil => opening.dict # d)
  BY DEF Install
<1>3. /\ index'[d].mtime = date
      /\ \A e \in Dicts \ {d} : index'[e] = index[e]
      /\ index' \in [Dicts -> [version : Nat, mtime : Nat]]
  BY <1>1 DEF Inv, Typed
<1>4. FilesFit'
  <2>1. ASSUME NEW q \in Places, NEW e \in Dicts, Usable(files[q], e)', e \notin misdated'
        PROVE  files[q].table = TableOf(e)'
    <3>1. CASE e = d
      BY <1>1, <1>2, <1>3, <2>1, <3>1 DEF Usable, Complete
    <3>2. CASE e # d
      BY <1>1, <1>3, <2>1, <3>2 DEF Inv, FilesFit, Usable, TableOf
    <3>3. QED
      BY <3>1, <3>2
  <2>2. QED
    BY <1>1, <2>1 DEF FilesFit
<1>5. SavingFits'
  BY <1>1, <1>2, <1>3 DEF Inv, SavingFits, TableOf
<1>6. OpeningFits'
  BY <1>0, <1>1, <1>3 DEF Inv, OpeningFits, TableOf
<1>7. QED
  BY <1>1, <1>3, <1>4, <1>5, <1>6 DEF Inv, Typed, OffsetsFitTheIndex

LEMMA NextInv ==
  ASSUME Inv, [CacheNext]_cacheVars
  PROVE  Inv'
<1>1. ASSUME NEW d \in Dicts, LoadCached(d) \/ LoadIndex(d) \/ LoadUnsaved(d)
      PROVE  Inv'
  BY <1>1, FromCacheKeeps, LoadIndexKeeps
<1>2. CASE WriteTable \/ WriteText \/ OpenIndex
  BY <1>2, WriteTableKeeps, WriteTextKeeps, OpenIndexKeeps
<1>3. CASE CleanCache \/ Crash \/ \E d \in Dicts : Unload(d)
  BY <1>3, DropKeeps
<1>4. ASSUME NEW d \in Dicts, NEW date \in 0 .. MaxTime, Install(d, date)
      PROVE  Inv'
  BY <1>4, InstallKeeps, CacheAssumption
<1>5. CASE Tick
  BY <1>5 DEF Tick, Inv, Typed, FilesFit, SavingFits, OpeningFits, OffsetsFitTheIndex, Usable, TableOf
<1>6. CASE UNCHANGED cacheVars
  BY <1>6 DEF cacheVars, Inv, Typed, FilesFit, SavingFits, OpeningFits, OffsetsFitTheIndex, Usable, TableOf
<1>7. QED
  BY <1>1, <1>2, <1>3, <1>4, <1>5, <1>6 DEF CacheNext

(* No crash, older version, copied or torn file gives an index offsets of  *)
(* another: what could be taken for its cache was computed from it, unless *)
(* its date hides that it changed; and what was in memory when it was      *)
(* opened still was, unless it was replaced in the middle of that load.    *)
THEOREM OffsetsAlwaysFitTheIndex == CacheSpec => []OffsetsFitTheIndex
<1>1. Inv => OffsetsFitTheIndex
  BY DEF Inv
<1>2. QED
  BY InitInv, NextInv, <1>1, PTL DEF CacheSpec

-----------------------------------------------------------------------------
\* A cache of d that the walk comes to, unless a torn file stops it before.
Stands(d, q) ==
  /\ q[1] \in {d, UserCache} /\ Usable(files[q], d)
  /\ \A n \in 1 .. (q[2] - 1) : files[<<q[1], n>>] # Nil /\ files[<<q[1], n>>].url # d

SavedStand == \A d \in saved : \E q \in Places : Stands(d, q)

\* What is being written will stand.
SavingStands ==
  saving # Nil =>
    /\ saving.place[1] \in {saving.dict, UserCache}
    /\ files[saving.place] # Nil
    /\ \A n \in 1 .. (saving.place[2] - 1) :
         PassedBy(files[<<saving.place[1], n>>], saving.dict)

Dated == \A d \in Dicts : index[d].mtime <= clock

SavedInv == Inv /\ saved \subseteq Dicts /\ Dated /\ SavedStand /\ SavingStands

LEMMA ChainInPlaces ==
  ASSUME NEW q \in Places
  PROVE  /\ q = <<q[1], q[2]>> /\ q[1] \in Dicts \cup {UserCache} /\ q[2] \in Nat
         /\ \A n \in 1 .. (q[2] - 1) : <<q[1], n>> \in Places /\ <<q[1], n>> # q
  BY CacheAssumption DEF Places

\* As long as it stands it is found, if no torn file is in the way.
LEMMA StandingIsFound ==
  ASSUME NEW d \in Dicts, NEW q \in Places, Stands(d, q),
         \A n \in 1 .. (q[2] - 1) : Complete(files[<<q[1], n>>])
  PROVE  q \in Stops(q[1], d) /\ Found(d) # {}
<1>1. q \in {q[1]} \X (1 .. MaxSlot)
  BY DEF Places
<1>2. ~ PassedBy(files[q], d) /\ \A n \in 1 .. (q[2] - 1) : PassedBy(files[<<q[1], n>>], d)
  BY DEF Stands, PassedBy, Usable
<1>3. q \in Stops(q[1], d)
  BY <1>1, <1>2 DEF Stops
<1>4. q \in Stops(d, d) \cup Stops(UserCache, d) /\ Usable(files[q], d)
  BY <1>3 DEF Stands
<1>5. QED
  BY <1>3, <1>4, Zenon DEF Found

\* The place a save is begun at is not that of a cache that stands.
LEMMA SavesElsewhere ==
  ASSUME SavedInv, NEW d \in Dicts, NEW e \in Dicts, NEW q \in Places, Stands(d, q),
         LoadIndex(e), NEW p \in SavePlaces(SaveDir(e), e)
  PROVE  p # q
<1> SUFFICES ASSUME p = q
             PROVE  FALSE
  OBVIOUS
<1>1. /\ ~ PassedBy(files[q], e)
      /\ \A n \in 1 .. (q[2] - 1) : PassedBy(files[<<q[1], n>>], e)
      /\ Found(e) = {}
  BY DEF SavePlaces, Stops, LoadIndex
<1>2. d = e
  BY <1>1 DEF Stands, Usable, PassedBy
<1>3. QED
  BY <1>1, <1>2, StandingIsFound DEF PassedBy

LEMMA LoadIndexKeepsStanding ==
  ASSUME SavedInv, NEW e \in Dicts, LoadIndex(e)
  PROVE  SavedInv'
<1> DEFINE empty == [table |-> Nil, url |-> Nil, mtime |-> clock]
<1>1. PICK p \in SavePlaces(SaveDir(e), e) :
        /\ files' = [files EXCEPT ![p] = empty]
        /\ saving' = [dict |-> e, table |-> TableOf(e), place |-> p]
  BY DEF LoadIndex
<1>2. p \in Places /\ p[1] \in {e, UserCache} /\ \A n \in 1 .. (p[2] - 1) : PassedBy(files[<<p[1], n>>], e)
  BY <1>1 DEF SavePlaces, Stops, SaveDir, Places
<1>3. empty # Nil /\ empty.url = Nil
  BY CacheAssumption DEF SavedInv, Inv, Typed, CacheFile
<1>4. UNCHANGED <<clock, index, saved>> /\ Inv'
  BY LoadIndexKeeps DEF LoadIndex, SavedInv
<1> HIDE DEF empty
<1>5. files'[p] = empty /\ \A q \in Places : q # p => files'[q] = files[q]
  BY <1>1, <1>2 DEF SavedInv, Inv, Typed
<1>6. ASSUME NEW d \in saved
      PROVE  \E q \in Places : Stands(d, q)'
  <2>1. PICK q \in Places : Stands(d, q)
    BY <1>6 DEF SavedInv, SavedStand
  <2>2. d \in Dicts /\ d # Nil
    BY CacheAssumption DEF SavedInv
  <2>3. files'[q] = files[q]
    BY <1>1, <1>5, <2>1, <2>2, SavesElsewhere
  <2>4. \A n \in 1 .. (q[2] - 1) : files'[<<q[1], n>>] # Nil /\ files'[<<q[1], n>>].url # d
    BY <1>3, <1>5, <2>1, <2>2, ChainInPlaces DEF Stands
  <2>5. QED
    BY <1>4, <2>1, <2>3, <2>4 DEF Stands, Usable
<1>7. SavingStands'
  <2>1. \A n \in 1 .. (p[2] - 1) : PassedBy(files'[<<p[1], n>>], e)
    BY <1>2, <1>5, ChainInPlaces
  <2>2. QED
    BY <1>1, <1>2, <1>3, <1>5, <2>1 DEF SavingStands
<1>8. QED
  BY <1>4, <1>6, <1>7 DEF SavedInv, SavedStand, Dated

\* Writing into the file that names nothing moves no cache that stands, and
\* what is written last makes it one.
LEMMA WritingKeepsStanding ==
  ASSUME SavedInv, WriteTable \/ WriteText
  PROVE  SavedInv'
<1>0. PICK p, e : p = saving.place /\ e = saving.dict
  OBVIOUS
<1>1. /\ saving # Nil /\ p \in Places /\ e \in Dicts /\ files[p] \in CacheFile
      /\ files[p].url = Nil /\ saving.table \in Tables
  BY <1>0 DEF WriteTable, WriteText, SavedInv, Inv, SavingFits
<1>2. UNCHANGED <<clock, index>> /\ Inv' /\ clock \in Nat
  BY WriteTableKeeps, WriteTextKeeps DEF WriteTable, WriteText, SavedInv, Inv, Typed
<1>3. PICK f \in CacheFile :
        /\ files' = [files EXCEPT ![p] = f]
        /\ WriteTable => f.url = Nil
        /\ WriteText => f.url = e /\ f.table # Nil /\ f.mtime = clock
  <2>1. CASE WriteTable
    <3> DEFINE f == [files[p] EXCEPT !.table = saving.table, !.mtime = clock]
    <3>1. files' = [files EXCEPT ![p] = f] /\ ~ WriteText
      BY <1>0, <1>1, <2>1, CacheAssumption DEF WriteTable, WriteText, SavedInv, Inv, Typed
    <3>2. f \in CacheFile /\ f.url = Nil
      BY <1>1, <1>2 DEF CacheFile
    <3>3. QED
      BY <3>1, <3>2
  <2>2. CASE WriteText
    <3> DEFINE f == [files[p] EXCEPT !.url = e, !.mtime = clock]
    <3>1. files[p].table # Nil /\ ~ WriteTable
      BY <1>0, <2>2 DEF WriteText, WriteTable
    <3>2. files' = [files EXCEPT ![p] = f]
      BY <1>0, <1>1, <2>2 DEF WriteText, SavedInv, Inv, Typed
    <3>3. f \in CacheFile /\ f.url = e /\ f.mtime = clock /\ f.table # Nil
      BY <1>1, <1>2, <3>1 DEF CacheFile
    <3>4. QED
      BY <3>1, <3>2, <3>3
  <2>3. QED
    BY <2>1, <2>2
<1>4. f # Nil
  BY <1>3, CacheAssumption
<1>5. files'[p] = f /\ \A q \in Places : q # p => files'[q] = files[q]
  BY <1>1, <1>3 DEF SavedInv, Inv, Typed
<1>6. /\ p[1] \in {e, UserCache}
      /\ \A n \in 1 .. (p[2] - 1) : files'[<<p[1], n>>] = files[<<p[1], n>>]
                                   /\ PassedBy(files[<<p[1], n>>], e)
  BY <1>0, <1>1, <1>5, ChainInPlaces DEF SavedInv, SavingStands
<1>7. ASSUME NEW d \in saved, ~ (WriteText /\ d = e)
      PROVE  \E q \in Places : Stands(d, q)'
  <2>1. PICK q \in Places : Stands(d, q)
    BY <1>7 DEF SavedInv, SavedStand
  <2>2. d \in Dicts /\ d # Nil
    BY CacheAssumption DEF SavedInv
  <2>3. files'[q] = files[q]
    BY <1>1, <1>5, <2>1, <2>2 DEF Stands, Usable
  <2>4. f.url # d
    BY <1>3, <1>7, <2>2
  <2>5. \A n \in 1 .. (q[2] - 1) : files'[<<q[1], n>>] # Nil /\ files'[<<q[1], n>>].url # d
    BY <1>4, <1>5, <2>1, <2>4, ChainInPlaces DEF Stands
  <2>6. QED
    BY <1>2, <2>1, <2>3, <2>5 DEF Stands, Usable
<1>8. ASSUME WriteText
      PROVE  Stands(e, p)'
  <2>1. Usable(f, e)'
    BY <1>1, <1>2, <1>3, <1>4, <1>8, CacheAssumption DEF Usable, Complete, SavedInv, Dated
  <2>2. \A n \in 1 .. (p[2] - 1) : files'[<<p[1], n>>] # Nil /\ files'[<<p[1], n>>].url # e
    BY <1>6 DEF PassedBy, Complete
  <2>3. QED
    BY <1>5, <1>6, <2>1, <2>2 DEF Stands, Usable
<1>9. SavedStand' /\ saved' \subseteq Dicts
  <2>1. CASE WriteTable /\ ~ WriteText
    BY <1>7, <2>1 DEF SavedStand, WriteTable, SavedInv
  <2>2. CASE WriteText
    <3>1. saved' = saved \cup {e}
      BY <1>0, <2>2 DEF WriteText
    <3>2. QED
      BY <1>1, <1>7, <1>8, <2>2, <3>1 DEF SavedStand, SavedInv
  <2>3. QED
    BY <2>1, <2>2
<1>10. SavingStands'
  <2>1. CASE WriteText
    BY <2>1 DEF WriteText, SavingStands
  <2>2. CASE WriteTable
    <3>1. saving' = saving
      BY <2>2 DEF WriteTable
    <3>2. QED
      BY <1>0, <1>4, <1>5, <1>6, <3>1 DEF SavingStands
  <2>3. QED
    BY <2>1, <2>2
<1>11. QED
  BY <1>2, <1>9, <1>10 DEF SavedInv, Dated

\* What neither writes nor empties a file leaves all that stands.
LEMMA OtherKeepsStanding ==
  ASSUME SavedInv, Inv', files' = files, saved' \subseteq saved, Dated',
         saving' \in {saving, Nil},
         \A d \in saved' : index'[d].mtime = index[d].mtime
  PROVE  SavedInv'
<1>1. ASSUME NEW d \in saved'
      PROVE  \E q \in Places : Stands(d, q)'
  BY <1>1 DEF SavedInv, SavedStand, Stands, Usable
<1>2. QED
  BY <1>1 DEF SavedInv, SavedStand, SavingStands

LEMMA NextKeepsStanding ==
  ASSUME SavedInv, [CacheNext]_cacheVars
  PROVE  SavedInv'
<1>1. Inv'
  BY NextInv DEF SavedInv
<1>2. CASE CleanCache
  BY <1>1, <1>2 DEF CleanCache, Idle, SavedInv, SavedStand, SavingStands, Dated
<1>3. ASSUME NEW d \in Dicts, NEW date \in 0 .. MaxTime, Install(d, date)
      PROVE  SavedInv'
  <2>1. /\ index' = [index EXCEPT ![d] = [version |-> @.version + 1, mtime |-> date]]
        /\ date <= clock /\ saved' = saved \ {d} /\ UNCHANGED <<clock, files, saving>>
    BY <1>3 DEF Install
  <2>2. /\ index'[d].mtime = date
        /\ \A e \in Dicts \ {d} : index'[e] = index[e]
    BY <2>1 DEF SavedInv, Inv, Typed
  <2>3. Dated' /\ \A e \in saved' : index'[e].mtime = index[e].mtime
    BY <2>1, <2>2 DEF SavedInv, Dated
  <2>4. QED
    BY <1>1, <2>1, <2>3, OtherKeepsStanding
<1>4. CASE Tick
  BY <1>1, <1>4, OtherKeepsStanding DEF Tick, SavedInv, Dated, Inv, Typed
<1>5. CASE \/ Crash \/ OpenIndex \/ UNCHANGED cacheVars
           \/ \E d \in Dicts : LoadCached(d) \/ LoadUnsaved(d) \/ Unload(d)
  BY <1>1, <1>5, OtherKeepsStanding
  DEF Crash, OpenIndex, cacheVars, LoadCached, LoadUnsaved, Unload, SavedInv, Dated
<1>6. QED
  BY <1>2, <1>3, <1>4, <1>5, LoadIndexKeepsStanding, WritingKeepsStanding DEF CacheNext

(* A cache once saved is found again, whatever the other dictionaries of   *)
(* the name save, tear or replace, as long as no torn file is left before  *)
(* it: a place is taken over only from a file the walk stops at, and it    *)
(* stops at no one else's cache.                                           *)
THEOREM SavedCachesAreFound == CacheSpec => []SavedIsFound
<1>1. SavedInv => SavedIsFound
  <2> SUFFICES ASSUME SavedInv, NEW d \in saved,
                      \A q \in Places : q[1] \in {d, UserCache} => files[q] = Nil \/ Complete(files[q])
               PROVE  Found(d) # {}
    BY DEF SavedIsFound
  <2>1. PICK q \in Places : Stands(d, q)
    BY DEF SavedInv, SavedStand
  <2>2. \A n \in 1 .. (q[2] - 1) : Complete(files[<<q[1], n>>])
    BY <2>1, ChainInPlaces DEF Stands
  <2>3. QED
    BY <2>1, <2>2, StandingIsFound DEF SavedInv
<1>2. CacheInit => SavedInv
  BY InitInv DEF CacheInit, SavedInv, SavedStand, SavingStands, Dated
<1>3. QED
  BY <1>1, <1>2, NextKeepsStanding, PTL DEF CacheSpec
==============================================================================
