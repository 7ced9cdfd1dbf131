----------------------------- MODULE PagedIndex -----------------------------
(***************************************************************************)
(* How one index is read and searched (lib/stddict.cpp).  An index file    *)
(* that is not compressed stays on disk (offset_index, and synonym_file    *)
(* for .syn files, which is the same code): its words are grouped in pages *)
(* of EntrPerPage, one page is in memory, and loading another overwrites   *)
(* it.  A compressed index is held in memory whole (compressed_index).     *)
(*                                                                         *)
(* An index is the sequence of its words; positions are the code's,        *)
(* starting from 0.  The operators are pure: one that reads through pages  *)
(* takes the number of the page in memory and returns the number of the    *)
(* page its last read leaves there.                                        *)
(***************************************************************************)
EXTENDS WordOrder

CONSTANT EntrPerPage

ASSUME EntrPerPageAssumption == EntrPerPage \in Nat \ {0}

UnsetIndex == -1
InvalidIndex == -100

KeyAt(index, i) == index[i + 1]

PageOf(i) == i \div EntrPerPage
Slot(i) == i % EntrPerPage
LastPage(index) == PageOf(Len(index) - 1)           \* npages - 2

\* Slip: a full last page is taken for an empty one.
NentrByRemainder(index, p) == IF p = LastPage(index) THEN Slot(Len(index)) ELSE EntrPerPage

\* Entries on page p: the last page may be short.
Nentr(index, p) ==
    IF p = LastPage(index) /\ Slot(Len(index)) # 0 THEN Slot(Len(index)) ELSE EntrPerPage

\* The key pointers filled in for page p; those past its end point into the
\* buffer of an older page.
Entries(index, p) ==
    [s \in 0..(EntrPerPage - 1) |->
        IF s < Nentr(index, p) THEN KeyAt(index, p * EntrPerPage + s) ELSE Dangling]

LoadPage(index, page, p) ==
    IF p = page.idx THEN page ELSE [idx |-> p, entries |-> Entries(index, p)]

FirstOnPageKey(index, p) == KeyAt(index, p * EntrPerPage)

\* The loop all lookups share: `cmp` compares the word sought with the key at
\* each place.  A word not found belongs after `prev` and before `next`.
BinarySearch(cmp, first, last) ==
    LET Step[range \in (first..(last + 1)) \X ((first - 1)..last)] ==
            LET from == range[1]
                to == range[2]
                mid == (from + to) \div 2
            IN  IF from > to THEN [found |-> FALSE, next |-> from, prev |-> to]
                ELSE CASE cmp[mid] > 0 -> Step[<<mid + 1, to>>]
                       [] cmp[mid] < 0 -> Step[<<from, mid - 1>>]
                       [] OTHER        -> [found |-> TRUE, next |-> mid, prev |-> mid]
    IN  Step[<<first, last>>]

\* From the word after the one sought, back over the words that share no
\* shorter a beginning with it.
SuggestBack(index, w, start, p) ==
    LET Back[at \in (0..start) \X (0..Len(w)) \X (0..LastPage(index))] ==
            LET i == at[1]
                best == at[2]
                loaded == at[3]
                prevLoaded == IF Slot(i) = 0 THEN PageOf(i - 1) ELSE loaded
                back == PrefixMatch[w][Entries(index, prevLoaded)[Slot(i - 1)]]
            IN  IF i = 0 THEN [suggest |-> i, page |-> loaded]
                ELSE IF back = 0 \/ back < best THEN [suggest |-> i, page |-> prevLoaded]
                ELSE Back[<<i - 1, back, prevLoaded>>]
    IN  Back[<<start, PrefixMatch[w][Entries(index, p)[Slot(start)]], p>>]

Result(found, i, suggest, page) ==
    [found |-> found, idx |-> i, suggest |-> suggest, page |-> page]

\* The word is on page p, after its first word, or nowhere.
LookupOnPage(index, p, w) ==
    LET cmp == [s \in 1..(Nentr(index, p) - 1) |-> StardictStrcmp[w][Entries(index, p)[s]]]
        r == BinarySearch(cmp, 1, Nentr(index, p) - 1)
        i == p * EntrPerPage + r.next
        near == SuggestBack(index, w, i, p)
    IN  IF r.found THEN Result(TRUE, i, i, p) ELSE Result(FALSE, i, near.suggest, near.page)

FirstKey(index) == Head(index)
LastKey(index) == index[Len(index)]
Within(index, w) == ~Before(w, FirstKey(index)) /\ ~Before(LastKey(index), w)

\* offset_index::lookup, synonym_file::lookup
Lookup(index, loaded, w) ==
    LET pages == 0..LastPage(index)
        r == BinarySearch([p \in pages |-> StardictStrcmp[w][FirstOnPageKey(index, p)]],
                          0, LastPage(index))
    IN  CASE Before(w, FirstKey(index)) -> Result(FALSE, 0, 0, loaded)
          [] Before(LastKey(index), w)  ->
                Result(FALSE, InvalidIndex, Len(index) - 1, loaded)
          [] Within(index, w)           ->
                IF r.found
                THEN Result(TRUE, r.next * EntrPerPage, r.next * EntrPerPage, loaded)
                ELSE LookupOnPage(index, r.prev, w)

\* Slip: goes back over words that share less.
SuggestFarBack(index, w, start) ==
    LET Back[i \in 0..start] ==
            IF i = 0 \/ PrefixMatch[w][KeyAt(index, i - 1)] = 0 THEN i ELSE Back[i - 1]
    IN  Back[start]

\* compressed_index::lookup: the same search over the whole index, as over one
\* page; collation_file::lookup is the same code over another order.
SuggestInMemory(index, w, start) ==
    LET Back[at \in (0..start) \X (0..Len(w))] ==
            LET i == at[1]
                best == at[2]
                back == PrefixMatch[w][KeyAt(index, i - 1)]
            IN  IF i = 0 \/ back = 0 \/ back < best THEN i ELSE Back[<<i - 1, back>>]
    IN  Back[<<start, PrefixMatch[w][KeyAt(index, start)]>>]

LookupInMemory(index, w) ==
    LET last == Len(index) - 1
        r == BinarySearch([i \in 0..last |-> StardictStrcmp[w][KeyAt(index, i)]], 0, last)
        i == r.next
    IN  CASE Before(w, FirstKey(index)) -> Result(FALSE, 0, 0, 0)
          [] Before(LastKey(index), w)  -> Result(FALSE, InvalidIndex, last, 0)
          [] Within(index, w)           ->
                IF r.found THEN Result(TRUE, i, i, 0)
                ELSE Result(FALSE, i, SuggestInMemory(index, w, i), 0)
-----------------------------------------------------------------------------
(* What class Dict does with one index.                                    *)

\* GetWordPrev: over the other copies of the word at i to the word before.
GetWordPrev(index, i) ==
    LET Back[j \in 0..Len(index)] ==
            IF j = 0 THEN [found |-> FALSE, idx |-> 0]
            ELSE IF KeyAt(index, j - 1) # KeyAt(index, i) THEN [found |-> TRUE, idx |-> j - 1]
            ELSE Back[j - 1]
    IN  IF i = InvalidIndex THEN [found |-> TRUE, idx |-> Len(index) - 1] ELSE Back[i]

\* Slip: the next position, be it another copy of the word.
GetWordNextCopy(index, i) == IF i = Len(index) - 1 THEN InvalidIndex ELSE i + 1

\* GetWordNext: to the first copy of the word after, or off the end.
GetWordNext(index, i) ==
    LET On[j \in 0..(Len(index) - 1)] ==
            IF j = Len(index) - 1 THEN InvalidIndex
            ELSE IF KeyAt(index, j + 1) # KeyAt(index, i) THEN j + 1 ELSE On[j + 1]
    IN  On[i]

\* GetOrigWordCount: how many copies of the word at i there are, and the first.
GetOrigWordCount(index, i) ==
    LET Down[j \in 0..i] ==
            IF j > 0 /\ KeyAt(index, j - 1) = KeyAt(index, i) THEN Down[j - 1] ELSE j
        Up[j \in i..(Len(index) - 1)] ==
            IF j < Len(index) - 1 /\ KeyAt(index, j + 1) = KeyAt(index, i) THEN Up[j + 1] ELSE j
    IN  [count |-> Up[i] - Down[i] + 1, idx |-> Down[i]]
=============================================================================
