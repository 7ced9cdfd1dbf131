------------------------------ MODULE WordList ------------------------------
(***************************************************************************)
(* The word list of the main window over several dictionaries: class Libs  *)
(* merges their index and synonym files on the fly (lib/stddict.cpp) and   *)
(* AppCore fills the list from the word typed and from its ends            *)
(* (stardict.cpp, mainwin.cpp).                                            *)
(*                                                                         *)
(* The merge keeps a position in every file and a bare pointer to the      *)
(* smallest word seen so far.  The pointer leads into the page its file    *)
(* has in memory, so each file's page is followed here, and a pointer is   *)
(* read through the page that is there when it is read.                    *)
(*                                                                         *)
(* Files are numbered in the order the loops visit them, the index files   *)
(* of the dictionaries before their synonym files; a dictionary without    *)
(* synonyms has no second file.  The words are of a script without case    *)
(* (Chinese, say), so that the search for similar words has no other       *)
(* spelling of a word to try.                                              *)
(***************************************************************************)
EXTENDS PagedIndex, EditDistance, TLC
LOCAL INSTANCE SequencesExt
LOCAL INSTANCE FiniteSetsExt
LOCAL INSTANCE Functions

CONSTANTS WordsInFile,  \* bound: words in each file, a sequence
          Synonyms,     \* the files that are synonym files
          Rows, NextRows, PrevRows,
          Served,       \* words a StarDict server may list
          ByDictionary, \* the files in the order of the dictionaries
          Queries,      \* words that may be misspelt
          Patterns,     \* what a pattern stands for: the words that match it
          Matches,      \* MAX_FUZZY_MATCH_ITEM
          MaxFuzzyDistance, \* MAX_FUZZY_DISTANCE
          MaxPerFile    \* MAX_MATCH_ITEM_PER_LIB

Files == DOMAIN WordsInFile

ASSUME FilesAssumption == WordsInFile \in Seq(Nat \ {0}) /\ WordsInFile # <<>>

ASSUME SynonymsAssumption == Synonyms \subseteq Files

VARIABLES indexOf,      \* the words of each file
          list,         \* ListWin: the rows
          typed,        \* delayed_word_
          looked,       \* the word SimpleLookupToTextWin was last asked for
          list_word_type,
          fuzzyWord     \* what the rows of a search for similar words are like

listVars == <<indexOf, list, typed, looked, list_word_type, fuzzyWord>>

None == [file |-> 0, idx |-> UnsetIndex]
-----------------------------------------------------------------------------
(* The state of a call into Libs: the position and the page in memory of   *)
(* each file, and poCurrentWord.                                           *)
Start(cur) == [cur |-> cur, page |-> [f \in Files |-> -1], best |-> None]

\* poGetWord, poGetSynonymWord
Load(c, f, i) == [c EXCEPT !.page[f] = PageOf(i)]

\* The text a word pointer leads to now.
Deref(c, p) == IF c.page[p.file] = PageOf(p.idx) THEN KeyAt(indexOf[p.file], p.idx)
                                                 ELSE Dangling

\* What poCurrentWord leads to once the word at i of f was read.
Best(c, f, i) == Deref(Load(c, f, i), c.best)

\* One turn of a selecting loop: the word at i of f is read, and replaces
\* poCurrentWord if it is `better`.
Consider(c, f, i, better) ==
    LET read == Load(c, f, i)
    IN  IF c.best = None \/ better THEN [read EXCEPT !.best = [file |-> f, idx |-> i]]
                                   ELSE read

\* The loop over the files: `c` before the first, `turn` for each.
EachFile(c, turn(_, _)) ==
    LET After[f \in 0..Len(WordsInFile)] ==
            IF f = 0 THEN c ELSE turn(After[f - 1], f)
    IN  After[Len(WordsInFile)]

Stands(c, f) == c.cur[f] >= 0 /\ c.cur[f] < Len(indexOf[f])

\* poGetCurrentWord: the first of the least words the positions stand on
GetCurrentWord(c) ==
    LET Select(s, f) ==
            IF ~Stands(s, f) THEN s
            ELSE Consider(s, f, s.cur[f],
                          Before(KeyAt(indexOf[f], s.cur[f]), Best(s, f, s.cur[f])))
    IN  EachFile([c EXCEPT !.best = None], Select)

\* GetWordNext reads on to the word it moves to, or to the last of the file.
MoveOn(c, f) ==
    LET n == GetWordNext(indexOf[f], c.cur[f])
        read == Load(c, f, IF n = InvalidIndex THEN Len(indexOf[f]) - 1 ELSE n)
    IN  [read EXCEPT !.cur[f] = n]

\* The position of f leaves the word poCurrentWord leads to, if it stands on
\* a copy of it.
LeaveBest(c, f) ==
    LET i == c.cur[f]
    IN  IF f = c.best.file \/ ~Stands(c, f) THEN c
        ELSE IF Best(c, f, i) = KeyAt(indexOf[f], i) THEN MoveOn(Load(c, f, i), f)
        ELSE Load(c, f, i)

\* Slip: the file poCurrentWord points into moves on before it is compared.
MoveOnFromFirst(c) == EachFile(MoveOn(c, c.best.file), LeaveBest)

\* All positions on a copy of poCurrentWord move on, that of the file it
\* points into last.
MoveOnFrom(c) == MoveOn(EachFile(c, LeaveBest), c.best.file)

\* poGetNextWord
AfterLeast(c) == IF c.best = None THEN c ELSE GetCurrentWord(MoveOnFrom(c))
GetNextWord(c) == AfterLeast(GetCurrentWord(c))

CanGoBack(c, f) == c.cur[f] = InvalidIndex \/ (c.cur[f] > 0 /\ c.cur[f] < Len(indexOf[f]))

Prev(c, f) == GetWordPrev(indexOf[f], c.cur[f])

\* The word of f before its position, when there is one, is considered.
ConsiderPrev(c, f) ==
    LET Read(p) ==
            IF p.found
            THEN Consider(c, f, p.idx, Before(Best(c, f, p.idx), KeyAt(indexOf[f], p.idx)))
            ELSE Load(c, f, p.idx)
    IN  IF CanGoBack(c, f) THEN Read(Prev(c, f)) ELSE c

\* The position of f goes back to the word chosen, if that is what it has there.
BackToBest(c, f) ==
    LET Read(p) ==
            IF p.found /\ Best(c, f, p.idx) = KeyAt(indexOf[f], p.idx)
            THEN [Load(c, f, p.idx) EXCEPT !.cur[f] = p.idx]
            ELSE Load(c, f, p.idx)
    IN  IF f # c.best.file /\ CanGoBack(c, f) THEN Read(Prev(c, f)) ELSE c

ReadBest(c) == Load([c EXCEPT !.cur[c.best.file] = c.best.idx], c.best.file, c.best.idx)

\* poGetPreWord: the greatest of the words before the positions; the positions
\* before which it stands go back to it.
BackToGreatest(c) == IF c.best = None THEN c ELSE ReadBest(EachFile(c, BackToBest))
GetPreWord(c) == BackToGreatest(EachFile([c EXCEPT !.best = None], ConsiderPrev))

InsertLast(rows, w) == Append(rows, w)
Prepend(rows, w) == <<w>> \o rows

\* One more row, of the word a call has chosen; `last` puts it at the end.
AddRow(r, c, last) ==
    IF c.best = None THEN [r EXCEPT !.done = TRUE]
    ELSE [call |-> c, done |-> FALSE,
          rows |-> IF last THEN InsertLast(r.rows, Deref(c, c.best))
                           ELSE Prepend(r.rows, Deref(c, c.best))]

\* At most n words after the positions, or before them, from calls that go on
\* from each other's positions.
Listing(c, n, forward) ==
    LET Row(r, k) ==
            IF r.done THEN r
            ELSE AddRow(r, IF forward THEN GetNextWord(r.call) ELSE GetPreWord(r.call), forward)
        none == [call |-> c, done |-> FALSE, rows |-> <<>>]
    IN  FoldLeft(Row, none, [k \in 1..n |-> k]).rows
-----------------------------------------------------------------------------
(* AppCore and the list window.                                            *)

Found(w) == [f \in Files |-> Lookup(indexOf[f], -1, w)]
Positioned(w) == Start([f \in Files |-> Found(w)[f].idx])

\* ListWords: the first row is where the positions stand, the others follow.
FirstRow(c) == IF c.best = None THEN <<>> ELSE <<Deref(c, c.best)>>
ListWords(c) ==
    LET first == FirstRow(GetCurrentWord(c))
    IN  IF first = <<>> THEN <<>> ELSE first \o Listing(c, Rows - 1, TRUE)

\* Slip: what the index suggests is taken as it is.
NotImproved(w, f, suggest) == suggest

\* LookupSimilarWord ends by comparing the words around the place where the
\* word would come; of synonym files it does not.
Closer(w, f, suggest, i) ==
    IF PrefixMatch[w][KeyAt(indexOf[f], i)] > PrefixMatch[w][KeyAt(indexOf[f], suggest)]
    THEN i ELSE suggest

Improved(w, f, suggest) ==
    LET prev == Prev(Positioned(w), f)
        next == Found(w)[f].idx
        before == IF prev.found THEN Closer(w, f, suggest, prev.idx) ELSE suggest
    IN  IF f \in Synonyms THEN suggest
        ELSE IF next = InvalidIndex THEN before ELSE Closer(w, f, before, next)

Suggested(w) == [f \in Files |-> Improved(w, f, Found(w)[f].suggest)]

\* GetSuggestWord
GetSuggestWord(w) ==
    LET Worse(u, v) == \/ PrefixMatch[w][v] > PrefixMatch[w][u]
                       \/ PrefixMatch[w][v] = PrefixMatch[w][u] /\ Before(v, u)
        Select(s, f) ==
            Consider(s, f, s.cur[f], Worse(Best(s, f, s.cur[f]), KeyAt(indexOf[f], s.cur[f])))
        c == EachFile(Start(Suggested(w)), Select)
    IN  Deref(c, c.best)

ListInit ==
    /\ indexOf \in {x \in [Files -> UNION {SortedSeqs(WordsInFile[f]) : f \in Files}] :
                    \A f \in Files : Len(x[f]) <= WordsInFile[f]}
    /\ list = <<>>
    /\ typed = <<>>
    /\ looked = <<>>
    /\ list_word_type = "empty"
    /\ fuzzyWord = <<>>

\* on_word_change_timeout, with and without showfirst_when_notfound
TypeWord(w, showfirst) ==
    LET find == \E f \in Files : Found(w)[f].found
        word == IF ~find /\ showfirst THEN GetSuggestWord(w) ELSE w
    IN  /\ typed' = w
        /\ looked' = word
        /\ list' = ListWords(Positioned(word))
        /\ list_word_type' = "normal"
        /\ UNCHANGED <<indexOf, fuzzyWord>>

\* do_next on the last row: ListNextWords
DoNext ==
    /\ list # <<>> /\ list_word_type = "normal"
    /\ list' = Listing(Positioned(list[Len(list)]), NextRows, TRUE)
    /\ UNCHANGED <<indexOf, typed, looked, list_word_type, fuzzyWord>>

\* do_prev on the first row: ListPreWords
DoPrev ==
    /\ list # <<>> /\ list_word_type = "normal"
    /\ list' = Listing(Positioned(Head(list)), PrevRows, FALSE)
    /\ UNCHANGED <<indexOf, typed, looked, list_word_type, fuzzyWord>>

\* A server's list of words arrives: on_stardict_client_next_end and the like
\* do not ask which list it was for.
MergeWordList(served) ==
    /\ typed # <<>>
    /\ list' = SortSeq(list \o SetToSeq(served \ ToSet(list)), Before)
    /\ UNCHANGED <<indexOf, typed, looked, list_word_type, fuzzyWord>>
-----------------------------------------------------------------------------
(* Similar words, and patterns.                                            *)

\* The distance computed for w under a limit, a table like the comparisons
Measured ==
    [q \in Queries, w \in Word, limit \in 1..MaxFuzzyDistance |->
        CalEditDistance(ToLower(Beginning(w, q)), ToLower(q), limit)]

NoMatch == [word |-> Dangling, far |-> MaxFuzzyDistance]

\* Slip: the limit becomes the distance of the word that came last.
LimitOfLast(slots, at) == slots[at].far

\* The limit is the distance of the worst of the words kept.
LimitOf(slots, at) == Max({slots[j].far : j \in DOMAIN slots})

\* The word found takes the place of the last of those at the limit.
Place(kept, w, far) ==
    LET at == Max({1} \cup {j \in 1..Matches : kept.slots[j].far = kept.limit})
        slots == [kept.slots EXCEPT ![at] = [word |-> w, far |-> far]]
    IN  [slots |-> slots, limit |-> LimitOf(slots, at)]

\* A word whose length or distance reaches the limit, or that is among those
\* kept already, is passed over.
PassedOver(q, kept, w, far) ==
    \/ Len(w) - Len(q) >= kept.limit \/ Len(q) - Len(w) >= kept.limit
    \/ far >= kept.limit \/ far >= Len(q)
    \/ \E j \in 1..Matches : kept.slots[j].word = w

\* LookupWithFuzzy: a turn of its loop, the loop, and what it returns, in order
Keep(q, kept, w) ==
    IF PassedOver(q, kept, w, Measured[q, w, kept.limit]) THEN kept
    ELSE Place(kept, w, Measured[q, w, kept.limit])

KeptMatches(q) ==
    LET words == FlattenSeq([k \in DOMAIN ByDictionary |-> indexOf[ByDictionary[k]]])
        Turn(kept, w) == Keep(q, kept, w)
    IN  FoldLeft(Turn, [slots |-> [j \in 1..Matches |-> NoMatch],
                        limit |-> MaxFuzzyDistance], words).slots

Ordered(slots) ==
    LET Less(a, b) == a.far < b.far \/ (a.far = b.far /\ Before(a.word, b.word))
        Matched(a) == a.word # Dangling
    IN  SortSeq(SelectSeq(slots, Matched), Less)

WordsOf(slots) == [j \in DOMAIN slots |-> slots[j].word]

LookupWithFuzzy(q) == WordsOf(Ordered(KeptMatches(q)))

\* The rows found are listed, and the article of the first is shown.
ShowFound(rows, kind) ==
    /\ list' = rows
    /\ list_word_type' = kind
    /\ looked' = IF rows = <<>> THEN looked ELSE Head(rows)
    /\ UNCHANGED <<indexOf, typed>>

LookupWithFuzzyToMainWin(q) ==
    ShowFound(LookupWithFuzzy(q), "fuzzy") /\ fuzzyWord' = q

\* Dict::LookupWithRule, LookupWithRuleSynonym: the first words that match
MatchingWords(f, p) ==
    LET InPattern(w) == w \in p
        all == SelectSeq(indexOf[f], InPattern)
    IN  SubSeq(all, 1, IF Len(all) < MaxPerFile THEN Len(all) ELSE MaxPerFile)

\* Libs::LookupWithRule
MatchedWords(p) == SetToSortSeq(UNION {ToSet(MatchingWords(f, p)) : f \in Files}, Before)

LookupWithRuleToMainWin(p) ==
    ShowFound(MatchedWords(p), "pattern") /\ UNCHANGED fuzzyWord

\* The server's similar words arrive, and are ordered with the rows shown,
\* whatever those are, by their likeness to the word last searched.
MergeFuzzyList(served) ==
    LET far(w) == Measured[fuzzyWord, w, MaxFuzzyDistance]
        Less(u, w) == far(u) < far(w) \/ (far(u) = far(w) /\ Before(u, w))
    IN  /\ fuzzyWord # <<>>
        /\ list' = SortSeq(list \o SetToSeq(served \ ToSet(list)), Less)
        /\ UNCHANGED <<indexOf, typed, looked, list_word_type, fuzzyWord>>

ListNext == \/ \E w \in Word, showfirst \in BOOLEAN : TypeWord(w, showfirst)
        \/ DoNext
        \/ DoPrev
        \/ \E served \in SUBSET Served \ {{}} : MergeWordList(served) \/ MergeFuzzyList(served)
        \/ \E q \in Queries : LookupWithFuzzyToMainWin(q)
        \/ \E p \in Patterns : LookupWithRuleToMainWin(p)

ListSpec == ListInit /\ [][ListNext]_listVars
-----------------------------------------------------------------------------
LocalWords == UNION {Range(indexOf[f]) : f \in Files}

(* The list is what it would be if the words of all the files were sorted  *)
(* together: no word skipped, none twice, whatever copies of a word the    *)
(* files have and however their pages lie; similar words are shown by      *)
(* their likeness, none left out that is liker than one that is shown,     *)
(* whatever the limits cut short; and no row is read from a page that is   *)
(* gone (poGetNextWord, poGetPreWord: "GetWordNext will change             *)
(* poCurrentWord's content, so do it at the last", stddict.cpp:2368).      *)
Merged == INSTANCE SortedList WITH words <- LocalWords
ListsTheUnion == Merged!Spec

(* When another word is looked up for the one typed, it begins like it as  *)
(* far as any headword does (LookupSimilarWord makes up for what the index *)
(* suggested, GetSuggestWord for what the other dictionaries did), if none *)
(* of the words has capitals beyond ASCII: see WordOrder.                  *)
ClosestIsShown ==
    /\ list_word_type = "normal" /\ typed # looked
    /\ AsciiCase(typed)
    /\ \A f \in Files : \A i \in 0..(Len(indexOf[f]) - 1) : AsciiCase(KeyAt(indexOf[f], i))
    => \A f \in Files \ Synonyms : \A i \in 0..(Len(indexOf[f]) - 1) :
           PrefixMatch[typed][KeyAt(indexOf[f], i)] <= PrefixMatch[typed][looked]

(* Going on from the last row leaves out no word of the dictionaries       *)
(* ("read word, ... return next word", stddict.cpp:2268).                  *)
NextFollows ==
    [][DoNext => \A w \in LocalWords :
            Before(list[Len(list)], w) => list' # <<>> /\ ~Before(w, Head(list'))]_listVars
=============================================================================
