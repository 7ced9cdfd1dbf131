----------------------------- MODULE IndexFile ------------------------------
(***************************************************************************)
(* A loaded index under class Dict.  A compressed one is in memory whole   *)
(* (compressed_index); any other is read through its one page in memory    *)
(* (offset_index; synonym_file is the same code).  The promise is          *)
(* WordIndex's; what could break it is the page some earlier call left in  *)
(* memory, the short last page, and words that have several articles and   *)
(* lie across pages.                                                       *)
(***************************************************************************)
EXTENDS PagedIndex

CONSTANT MaxWords                  \* bound: words in the index

ASSUME MaxWordsAssumption == MaxWords \in Nat \ {0}

VARIABLES index, compressed, page, answer

file == <<index, compressed>>
vars == <<file, page, answer>>

NoPage == [idx |-> -1, entries |-> [s \in 0..(EntrPerPage - 1) |-> Dangling]]

\* Slip: the last word of the index is not read at the start.
LoadOffsetsUnread == ~compressed /\ page = NoPage

\* offset_index::load() ends by reading the last word of the index.
LoadOffsets == ~compressed /\ page = LoadPage(index, NoPage, LastPage(index))

LoadCompressed == compressed /\ page = NoPage

\* index_file::Create, then load() of the one created.
Init == /\ index \in SortedSeqs(MaxWords)
        /\ compressed \in BOOLEAN
        /\ LoadOffsets \/ LoadCompressed
        /\ answer = [op |-> "none"]

Positions == 0..(Len(index) - 1)

Reads(p) == page' = IF compressed THEN page ELSE LoadPage(index, page, p)

GetKey(i) ==
    /\ Reads(PageOf(i))
    /\ answer' = [op |-> "key", idx |-> i,
                  word |-> IF compressed THEN KeyAt(index, i) ELSE page'.entries[Slot(i)]]
    /\ UNCHANGED file

LookupWord(w) ==
    LET r == IF compressed THEN LookupInMemory(index, w) ELSE Lookup(index, page.idx, w)
    IN  /\ Reads(r.page)
        /\ answer' = [op |-> "lookup", word |-> w, found |-> r.found,
                      idx |-> r.idx, suggest |-> r.suggest]
        /\ UNCHANGED file

\* The last word read is the one arrived at, or the first of the index.
WordPrev(i) ==
    LET r == GetWordPrev(index, i)
    IN  /\ Reads(IF i = InvalidIndex THEN page.idx ELSE PageOf(r.idx))
        /\ answer' = [op |-> "prev", idx |-> i, found |-> r.found, to |-> r.idx]
        /\ UNCHANGED file

\* The last word read is the one arrived at, or the last of the index.
WordNext(i) ==
    LET n == GetWordNext(index, i)
    IN  /\ Reads(IF n = InvalidIndex THEN LastPage(index) ELSE PageOf(n))
        /\ answer' = [op |-> "next", idx |-> i, to |-> n]
        /\ UNCHANGED file

\* Reads down to the word before the copies, then up to the word after them.
OrigWordCount(i) ==
    LET r == GetOrigWordCount(index, i)
        last == Len(index) - 1
        below == IF r.idx = 0 THEN 0 ELSE r.idx - 1
        above == IF r.idx + r.count > last THEN last ELSE r.idx + r.count
    IN  /\ Reads(PageOf(IF i = last THEN below ELSE above))
        /\ answer' = [op |-> "count", idx |-> i, to |-> r.idx, count |-> r.count]
        /\ UNCHANGED file

Next == \/ \E i \in Positions : GetKey(i) \/ WordNext(i) \/ OrigWordCount(i)
        \/ \E w \in Word : LookupWord(w)
        \/ \E i \in Positions \cup {InvalidIndex} : WordPrev(i)

Spec == Init /\ [][Next]_vars
-----------------------------------------------------------------------------
TypeOK ==
    /\ index \in SortedSeqs(MaxWords)
    /\ compressed \in BOOLEAN
    /\ compressed \/ page.idx \in 0..LastPage(index)
    /\ DOMAIN page.entries = 0..(EntrPerPage - 1)
    /\ answer.op \in {"none", "key", "lookup", "prev", "next", "count"}

(* The page in memory holds the words of the page it is taken for, all of  *)
(* them and in their places, whatever was read before (load_page).         *)
PageHoldsItsWords ==
    \A i \in Positions :
        PageOf(i) = page.idx => page.entries[Slot(i)] = KeyAt(index, i)

(* Through any order of calls, an index of either kind answers what an     *)
(* index promises: the word at a position, where a word is or would come,  *)
(* the words beside it and how many articles it has (stddict.cpp:822-831). *)
Promise == INSTANCE WordIndex
KeepsPromise == Promise!Spec

(* The position suggested for a word that is not there is that of a word   *)
(* that shares as long a beginning with it as any word of the index does   *)
(* ("index of the closest word in the index", stddict.cpp:830), in an      *)
(* index in memory, whose search only looks back from where the word would *)
(* come (compressed_index::lookup); as long as the words have no capitals  *)
(* beyond ASCII, which the order tells from small letters and the length   *)
(* of a beginning does not.  An index read by pages compares with whatever *)
(* page is in memory (stddict.cpp:892).                                    *)
SuggestsClosestInMemory ==
    /\ compressed
    /\ answer.op = "lookup" /\ AsciiCase(answer.word)
    /\ \A i \in Positions : AsciiCase(KeyAt(index, i))
    => \A i \in Positions :
         PrefixMatch[answer.word][KeyAt(index, i)]
             <= PrefixMatch[answer.word][KeyAt(index, answer.suggest)]
=============================================================================
