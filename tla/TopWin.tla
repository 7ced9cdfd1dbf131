------------------------------- MODULE TopWin -------------------------------
(***************************************************************************)
(* The words behind the entry of the main window (class TopWin of          *)
(* mainwin.cpp): the list the Back and Forward buttons walk, and the       *)
(* history of the combo box, which is saved when the window is closed.     *)
(* Where the text was scrolled to is left out.                             *)
(***************************************************************************)
EXTENDS Integers, Sequences

CONSTANTS
  Words,       \* texts of the entry
  Blank,       \* the empty text
  Nil,
  MaxBack,     \* MAX_BACK_WORD_ITEM_NUM
  MaxHistory   \* MAX_HISTORY_WORD_ITEM_NUM

ASSUME TopWinAssumption ==
  /\ Blank \notin Words /\ Nil \notin Words /\ Blank # Nil
  /\ MaxBack \in Nat \ {0, 1} /\ MaxHistory \in Nat \ {0}

VARIABLES
  entry,     \* the text of the entry
  back,      \* BackList, BackList_index, sensitivity of back_button and forward_button
  history,   \* the rows of WordCombo
  file,      \* dictionary/history
  queried    \* history: the word queried last, the one before it, and whether both are
             \* in BackList, as far as Back and Forward have not been used since

vars == <<entry, back, history, file, queried>>

Shortest(m, n) == IF m < n THEN m ELSE n

\* Fault: what is ahead of the index is kept.
InsertBackListAhead(b, w) ==
  IF w = Blank \/ (b.list # <<>> /\ b.list[1] = w) THEN b
  ELSE [list |-> SubSeq(<<w>> \o b.list, 1, Shortest(MaxBack, Len(b.list) + 1)), index |-> 0,
        back |-> b.back \/ b.list # <<>>, forward |-> FALSE]

\* Nothing for the word at the front, even when the index is not there.
InsertBackList(b, w) ==
  IF w = Blank \/ (b.list # <<>> /\ b.list[1] = w) THEN b
  ELSE LET rest == SubSeq(b.list, b.index + 1, Len(b.list))
       IN  [list |-> SubSeq(<<w>> \o rest, 1, Shortest(MaxBack, Len(rest) + 1)), index |-> 0,
            back |-> b.back \/ rest # <<>>, forward |-> FALSE]

\* The word is queried, and InsertBackList is called with it.
Query(q, b, w) ==
  IF w \in {Blank, q.word} THEN q
  ELSE [word |-> w, before |-> q.word,
        kept |-> q.kept /\ (b.list # <<>> => b.list[1] # w)]

\* Row i becomes the first one.
MovedUp(h, i) ==
  [j \in DOMAIN h |-> IF j = 1 THEN h[i] ELSE IF j <= i THEN h[j - 1] ELSE h[j]]

Pushed(h, w) == <<w>> \o SubSeq(h, 1, Shortest(MaxHistory - 1, Len(h)))

\* Fault: a word that is there already is put in front once more.
InsertHisListTwice(h, w) == IF w = Blank THEN h ELSE Pushed(h, w)

InsertHisList(h, w) ==
  IF w = Blank THEN h
  ELSE IF \E i \in DOMAIN h : h[i] = w THEN MovedUp(h, CHOOSE i \in DOMAIN h : h[i] = w)
  ELSE Pushed(h, w)

-----------------------------------------------------------------------------
NoBack == [list |-> <<>>, index |-> 0, back |-> FALSE, forward |-> FALSE]

\* Nothing is known of the words queried before, but that the list has this one.
Walked(w) == [word |-> w, before |-> Nil, kept |-> TRUE]

Init ==
  /\ entry = Blank /\ back = NoBack /\ history = <<>> /\ file = <<>>
  /\ queried = Walked(Nil)

\* on_entry_changed: neither list knows of what is typed, whether it is looked up after
\* a while or not; it counts as queried when it is entered or left.
Type(t) ==
  /\ t # entry
  /\ entry' = t
  /\ UNCHANGED <<back, history, file, queried>>

\* TopWinEnterWord, PlayCallback, Space, and the searches of Go and its menu
Enter ==
  /\ entry # Blank
  /\ history' = InsertHisList(history, entry)
  /\ back' = InsertBackList(back, entry)
  /\ queried' = Query(queried, back, entry)
  /\ UNCHANGED <<entry, file>>

\* clear_entry and a letter typed elsewhere in the window: the text is left for another
\* that no list knows of yet.
Leave(t) ==
  /\ history' = InsertHisList(history, entry)
  /\ back' = InsertBackList(back, entry)
  /\ queried' = Query(queried, back, entry)
  /\ entry' = t
  /\ UNCHANGED file

\* on_link_click: the word that is left is put in the list, the one the link leads to is
\* not.
FollowLink(w) ==
  /\ w # entry
  /\ history' = InsertHisList(history, entry)
  /\ back' = InsertBackList(back, entry)
  /\ queried' = [Query(Query(queried, back, entry), back, w) EXCEPT !.kept = FALSE]
  /\ entry' = w
  /\ UNCHANGED file

\* Fault: the word that is left for the one clicked is not put in the list.
ListClickOnly(w) ==
  /\ history' = InsertHisList(InsertHisList(history, entry), w)
  /\ back' = InsertBackList(back, w)
  /\ queried' = Query(Query(queried, back, entry), InsertBackList(back, entry), w)
  /\ entry' = w
  /\ UNCHANGED file

\* ListClick and Query, for a word of the list or from another window
ListClick(w) ==
  /\ history' = InsertHisList(InsertHisList(history, entry), w)
  /\ back' = InsertBackList(InsertBackList(back, entry), w)
  /\ queried' = Query(Query(queried, back, entry), InsertBackList(back, entry), w)
  /\ entry' = w
  /\ UNCHANGED file

\* do_back: from the button, which must be sensitive, or by Alt+Left.
DoBack ==
  /\ back.index + 1 < Len(back.list)
  /\ history' = InsertHisList(history, entry)
  /\ back' = [back EXCEPT !.index = @ + 1,
                          !.back = @ /\ back.index + 2 < Len(back.list),
                          !.forward = TRUE]
  /\ entry' = back.list[back.index + 2]
  /\ queried' = Walked(entry')
  /\ UNCHANGED file

\* Fault: the Forward button is switched off a word late.
DoForwardLate ==
  /\ back.list # <<>> /\ back.index > 0
  /\ history' = InsertHisList(history, entry)
  /\ back' = [back EXCEPT !.index = @ - 1, !.back = TRUE]
  /\ entry' = back.list[back.index]
  /\ queried' = Walked(entry')
  /\ UNCHANGED file

\* do_forward
DoForward ==
  /\ back.list # <<>> /\ back.index > 0
  /\ history' = InsertHisList(history, entry)
  /\ back' = [back EXCEPT !.index = @ - 1, !.back = TRUE,
                          !.forward = @ /\ back.index > 1]
  /\ entry' = back.list[back.index]
  /\ queried' = Walked(entry')
  /\ UNCHANGED file

\* LocalSmartLookupToFloat: a word that was scanned
Scanned(w) ==
  /\ history' = InsertHisList(history, w)
  /\ UNCHANGED <<entry, back, file, queried>>

\* on_clear_history_menu_item_activate
ClearHistory ==
  /\ history' = <<>>
  /\ UNCHANGED <<entry, back, file, queried>>

\* Destroy, with SaveHistory, and Create, with LoadHistory
Restart ==
  /\ file' = InsertHisList(history, entry)
  /\ history' = file'
  /\ entry' = Blank /\ back' = NoBack /\ queried' = Walked(Nil)

\* The end of the process without Destroy
Crash ==
  /\ history' = file
  /\ entry' = Blank /\ back' = NoBack /\ queried' = Walked(Nil)
  /\ UNCHANGED file

Next ==
  \/ \E t \in Words \cup {Blank} : Type(t) \/ Leave(t)
  \/ \E w \in Words : FollowLink(w) \/ ListClick(w) \/ Scanned(w)
  \/ Enter \/ DoBack \/ DoForward
  \/ ClearHistory \/ Restart \/ Crash

Spec == Init /\ [][Next]_vars

-----------------------------------------------------------------------------
BackType == [list : Seq(Words), index : Nat, back : BOOLEAN, forward : BOOLEAN]

\* The state has the types the code declares.
TypeOK ==
  /\ entry \in Words \cup {Blank}
  /\ back \in BackType
  /\ history \in Seq(Words) /\ file \in Seq(Words)

\* The index points into the list, which is never longer than its maximum, and the
\* buttons tell whether there is a word to go to on either side of it: each operation
\* changes them by what it alone knows of the list.
ButtonsAgree ==
  /\ Len(back.list) <= MaxBack
  /\ back.index < Len(back.list) \/ (back.list = <<>> /\ back.index = 0)
  /\ back.back = (back.index + 1 < Len(back.list))
  /\ back.forward = (back.index > 0)

Distinct(h) == \A i, j \in DOMAIN h : h[i] = h[j] => i = j

\* No word stands twice in the history, here or in the file, and neither is too long, in
\* whatever order words are looked up, scanned, walked back to and saved.
HistoryOfDistinctWords ==
  /\ Distinct(history) /\ Len(history) <= MaxHistory
  /\ Distinct(file) /\ Len(file) <= MaxHistory

\* Back leads to the word that was queried before the last one (the manual: "Go back to
\* the word you queried before."), entered, clicked or left, in whatever order, wherever
\* the list is cut and however far it was walked back before; unless one of the two was
\* reached by a link, or was the newest word of a list that had been walked back: those
\* are not put in the list.
BackReturns ==
  queried.kept /\ queried.before # Nil
  => /\ back.index + 1 < Len(back.list)
     /\ back.list[back.index + 2] = queried.before

\* The list, its index and the entry are a trail of visited words and the word shown.
TheTrail ==
  INSTANCE Trail WITH Visitable <- Words, Nowhere <- Nil, Max <- MaxBack,
    trail <- [past |-> SubSeq(back.list, back.index + 2, Len(back.list)),
              present |-> IF back.list = <<>> THEN Nil ELSE back.list[back.index + 1],
              future |-> SubSeq(back.list, 1, back.index)],
    shown <- entry

\* A step back and a step forward undo one another and show the present word, and a visit
\* forgets the future only; a link is a visit of the word it is on, not of the one it
\* leads to, and the newest word is not visited again.
KeepsTrail == TheTrail!Spec
=============================================================================
