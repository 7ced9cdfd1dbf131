----------------------------- MODULE WordIndex ------------------------------
(***************************************************************************)
(* What an index promises its dictionary, whichever way it is stored: the  *)
(* comments of idxsyn_file and of offset_index::lookup (lib/stddict.h and  *)
(* lib/stddict.cpp) as a specification.  `answer` is the last answer the   *)
(* index gave; an index never changes once loaded.                         *)
(***************************************************************************)
EXTENDS PagedIndex

VARIABLES index, answer

vars == <<index, answer>>

Positions == 0..(Len(index) - 1)
Words == {KeyAt(index, i) : i \in Positions}

Greater(w) == {u \in Words : Before(w, u)}
Smaller(w) == {u \in Words : Before(u, w)}

IsLeast(u, words) == u \in words /\ \A v \in words : ~Before(v, u)
IsGreatest(u, words) == u \in words /\ \A v \in words : ~Before(u, v)

Init == answer = [op |-> "none"]

RightKey(a) == a.word = KeyAt(index, a.idx)

\* A word is found exactly when the index has it; the position is one of its
\* copies, or the first of the next word, or INVALID_INDEX after the last.
RightLookup(a) ==
    /\ a.found <=> a.word \in Words
    /\ a.suggest \in Positions
    /\ a.found => a.idx = a.suggest /\ RightKey(a)
    /\ ~a.found =>
          IF a.idx = InvalidIndex THEN Greater(a.word) = {}
          ELSE /\ a.idx \in Positions
               /\ IsLeast(KeyAt(index, a.idx), Greater(a.word))
               /\ \A j \in 0..(a.idx - 1) : Before(KeyAt(index, j), a.word)

\* To a copy of the word before; before INVALID_INDEX comes the last word.
RightPrev(a) ==
    LET smaller == IF a.idx = InvalidIndex THEN Words ELSE Smaller(KeyAt(index, a.idx))
    IN  /\ a.found <=> smaller # {}
        /\ a.found => IsGreatest(KeyAt(index, a.to), smaller)

\* To the first copy, so that going on from there loses none.
RightNext(a) ==
    LET greater == Greater(KeyAt(index, a.idx))
    IN  IF a.to = InvalidIndex THEN greater = {}
        ELSE /\ IsLeast(KeyAt(index, a.to), greater)
             /\ \A j \in 0..(a.to - 1) : KeyAt(index, j) \notin greater

\* All the copies, from the first.
RightCount(a) ==
    {j \in Positions : KeyAt(index, j) = KeyAt(index, a.idx)} = a.to..(a.to + a.count - 1)

Right(a) == CASE a.op = "key"       -> RightKey(a)
              [] a.op = "lookup"    -> RightLookup(a)
              [] a.op = "prev"      -> RightPrev(a)
              [] a.op = "next"      -> RightNext(a)
              [] a.op = "count"     -> RightCount(a)

Next == Right(answer') /\ UNCHANGED index

Spec == Init /\ [][Next]_vars
=============================================================================
