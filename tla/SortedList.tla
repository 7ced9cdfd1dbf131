----------------------------- MODULE SortedList -----------------------------
(***************************************************************************)
(* What the word list of the main window promises its user: the words of   *)
(* all the dictionaries as one sorted list, each once, of which the window *)
(* shows a part and moves on from either end; or the words most like one   *)
(* that may be misspelt, the likest first; or those of a pattern.  Words   *)
(* only a server has are merged into what is shown; going on from one of   *)
(* them, the next word may be left out.                                    *)
(***************************************************************************)
EXTENDS EditDistance
LOCAL INSTANCE SequencesExt

CONSTANTS Rows,         \* rows listed from a word on (LIST_WIN_ROW_NUM)
          NextRows,     \* rows listed after the last (AppCore::ListNextWords)
          PrevRows,     \* rows listed before the first (AppCore::ListPreWords)
          Matches,      \* similar words listed (MAX_FUZZY_MATCH_ITEM)
          MaxFuzzyDistance,
          Queries,      \* words that may be misspelt
          Patterns      \* for each pattern, the words that match it

VARIABLES words,        \* the words of all the dictionaries
          list,         \* the words shown
          typed,        \* the word typed
          looked,       \* the word looked up for it
          list_word_type,
          fuzzyWord     \* the word of the last search for similar ones

vars == <<words, list, typed, looked, list_word_type, fuzzyWord>>

Sorted == [set \in SUBSET Word |-> SetToSortSeq(set, Before)]

FirstRows(n, set) == SubSeq(Sorted[set], 1, IF Cardinality(set) < n THEN Cardinality(set) ELSE n)
LastRows(n, set) == LET s == Sorted[set]
                    IN  IF Len(s) < n THEN s ELSE SubSeq(s, Len(s) - n + 1, Len(s))

NotBefore(w) == {u \in words : ~Before(u, w)}

Init == list = <<>> /\ list_word_type = "empty" /\ fuzzyWord = <<>>

\* A word that no dictionary has may be replaced by one of theirs.
TypeWord ==
    /\ list_word_type' = "normal"
    /\ typed' \in Word
    /\ looked' # typed' => typed' \notin words /\ looked' \in words
    /\ list' = FirstRows(Rows, NotBefore(looked'))
    /\ UNCHANGED fuzzyWord

DoNext ==
    /\ list # <<>> /\ list_word_type = "normal"
    /\ UNCHANGED <<typed, looked, list_word_type, fuzzyWord>>
    /\ LET last == list[Len(list)]
           follow == NotBefore(last) \ {last}
       IN  list' \in {FirstRows(NextRows, follow)} \cup
                     {FirstRows(NextRows, follow \ {f}) :
                         f \in IF last \in words THEN {} ELSE ToSet(FirstRows(1, follow))}

DoPrev ==
    /\ list # <<>> /\ list_word_type = "normal"
    /\ UNCHANGED <<typed, looked, list_word_type, fuzzyWord>>
    /\ list' = LastRows(PrevRows, words \ NotBefore(Head(list)))

Merge ==
    /\ UNCHANGED <<typed, looked, list_word_type, fuzzyWord>>
    /\ list' = Sorted[ToSet(list')]
    /\ ToSet(list) \subseteq ToSet(list')

\* Of the words found, the article of the first is shown.
FirstIsShown == looked' = IF list' = <<>> THEN looked ELSE Head(list')

\* How unlike a word is to one that is looked for, a table like the comparisons
Far == [q \in Queries, w \in Word |-> Distance(ToLower(Beginning(w, q)), ToLower(q))]

(* Similar words come in the order of their distances.  Beyond the limit   *)
(* those are not known, and the order is any.                              *)
Liker(q, u, w) ==
    /\ Far[q, u] < MaxFuzzyDistance
    /\ \/ Far[q, u] < Far[q, w]
       \/ Far[q, u] = Far[q, w] /\ Before(u, w)

BySimilarity(q, rows) ==
    /\ IsInjective(rows)
    /\ \A i, j \in DOMAIN rows :
         i < j => Liker(q, rows[i], rows[j]) \/ Far[q, rows[j]] >= MaxFuzzyDistance

Similar(q, w, limit) ==
    Far[q, w] < limit /\ Far[q, w] < Len(q) /\ Len(w) - Len(q) < limit /\ Len(q) - Len(w) < limit

(* The similar words, of which one that is left out is no liker than the   *)
(* last that is shown.                                                     *)
LookupSimilar ==
    /\ list_word_type' = "fuzzy"
    /\ fuzzyWord' \in Queries
    /\ LET q == fuzzyWord'
           worst == IF Len(list') < Matches THEN MaxFuzzyDistance ELSE Far[q, list'[Matches]]
       IN  /\ BySimilarity(q, list')
           /\ \A w \in ToSet(list') : w \in words /\ Similar(q, w, MaxFuzzyDistance)
           /\ \A w \in words \ ToSet(list') : ~Similar(q, w, worst)
           /\ Len(list') <= Matches
    /\ FirstIsShown
    /\ UNCHANGED typed

(* Words of a pattern: all, or some with the first among them.             *)
LookupPattern ==
    /\ list_word_type' = "pattern"
    /\ \E p \in Patterns :
         /\ ToSet(list') \subseteq p \cap words
         /\ FirstRows(1, p \cap words) = FirstRows(1, ToSet(list'))
    /\ list' = Sorted[ToSet(list')]
    /\ FirstIsShown
    /\ UNCHANGED <<typed, fuzzyWord>>

MergeSimilar ==
    /\ fuzzyWord # <<>>
    /\ UNCHANGED <<typed, looked, list_word_type, fuzzyWord>>
    /\ ToSet(list) \subseteq ToSet(list')
    /\ BySimilarity(fuzzyWord, list')

Next ==
    /\ \/ TypeWord \/ DoNext \/ DoPrev \/ Merge
       \/ LookupSimilar \/ LookupPattern \/ MergeSimilar
    /\ UNCHANGED words

Spec == Init /\ [][Next]_vars
=============================================================================
