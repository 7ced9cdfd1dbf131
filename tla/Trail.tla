------------------------------- MODULE Trail --------------------------------
(***************************************************************************)
(* What a list of visited words with a Back and a Forward button promises: *)
(* a step back shows the word visited before the present one and keeps the *)
(* present one as the first of the future, a step forward is its inverse,  *)
(* and a visit puts the present behind it and forgets the future.  A word  *)
(* may be shown without being visited: a step back then leads past the     *)
(* present one, which is not shown either.  The oldest words are forgotten *)
(* when there are more than Max.                                           *)
(***************************************************************************)
EXTENDS Integers, Sequences

CONSTANTS Visitable, Blank, Nowhere, Max

VARIABLES
  trail,  \* past, nearest first; present; future, nearest last
  shown   \* the word that is shown, visited or not

Visited(t, w) ==
  LET behind == IF t.present = Nowhere THEN t.past ELSE <<t.present>> \o t.past
  IN  [past |-> SubSeq(behind, 1, IF Len(behind) < Max THEN Len(behind) ELSE Max - 1),
       present |-> w, future |-> <<>>]

\* The word visited last: the end of the future, of which the present may be short.
Newest(t) == IF t.future = <<>> THEN t.present ELSE t.future[1]

\* The newest word is not visited again, not even from a word before it: the present
\* stays where it is, and is then not the word that is shown.
After(t, w) == IF w \in {Blank, Newest(t)} THEN t ELSE Visited(t, w)

Start == [past |-> <<>>, present |-> Nowhere, future |-> <<>>]

Init == trail = Start /\ shown = Blank

\* A word is shown that may be visited later, or never.
Show(w) == shown' = w /\ UNCHANGED trail

Visit == trail' = After(trail, shown) /\ UNCHANGED shown

\* The word that is shown is visited when it is left; the one it is left for, by a link
\* or for a text to be typed, is not.
Leave(w) == trail' = After(trail, shown) /\ shown' = w

\* A word that is clicked is visited after the one it was clicked from.
Click(w) == trail' = After(After(trail, shown), w) /\ shown' = w

Back ==
  /\ trail.past # <<>>
  /\ trail' = [past |-> Tail(trail.past), present |-> Head(trail.past),
               future |-> Append(trail.future, trail.present)]
  /\ shown' = Head(trail.past)

Forward ==
  /\ trail.future # <<>>
  /\ LET n == Len(trail.future)
     IN  /\ trail' = [past |-> <<trail.present>> \o trail.past, present |-> trail.future[n],
                      future |-> SubSeq(trail.future, 1, n - 1)]
         /\ shown' = trail.future[n]

\* The program is started again.
Restart == trail' = Start /\ shown' = Blank

Next ==
  \/ \E w \in Visitable \cup {Blank} : Show(w) \/ Leave(w)
  \/ \E w \in Visitable : Click(w)
  \/ Visit \/ Back \/ Forward \/ Restart

Spec == Init /\ [][Next]_<<trail, shown>>
=============================================================================
