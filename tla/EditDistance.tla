---------------------------- MODULE EditDistance ----------------------------
(***************************************************************************)
(* How unlike two words are (lib/edit-distance.cpp): the number of letters *)
(* to delete, to insert, to change, or to swap with the next.  The         *)
(* computation is told a limit and may give up as soon as the distance is  *)
(* seen to reach it; how it does so is CalEditDistance, what it promises   *)
(* of the distances below the limit is stated with Distance.               *)
(***************************************************************************)
EXTENDS WordOrder
LOCAL INSTANCE SequencesExt
LOCAL INSTANCE FiniteSetsExt

\* s without the first n letters, and without the last that t ends with too
Behind(n, s) == SubSeq(s, n + 1, Len(s))
WithoutEnd(s, t) == SubSeq(s, 1, Len(s) - SharedPrefix(Reverse(s), Reverse(t)))

\* What is left of s when the letters that begin, then those that end, both
\* words are taken away.
Core(s, t) == WithoutEnd(Behind(SharedPrefix(s, t), s), Behind(SharedPrefix(s, t), t))

\* d: cell [j, i] is the distance of the first j letters of t and i of s.
Matrix(s, t) ==
    LET d[j \in 0..Len(t), i \in 0..Len(s)] ==
            IF i = 0 \/ j = 0 THEN i + j
            ELSE LET cost  == IF s[i] = t[j] THEN 0 ELSE 1
                     least == Min({d[j - 1, i] + 1, d[j, i - 1] + 1, d[j - 1, i - 1] + cost})
                     swaps == i >= 2 /\ j >= 2 /\ s[i - 1] = t[j] /\ s[i] = t[j - 1]
                 IN  IF swaps /\ least - d[j - 2, i - 2] = 2 THEN least - 1 ELSE least
    IN  d

\* The cells of d come in growing rectangles, whose last cells lie on the
\* diagonal that ends in the last cell of all: one at the limit is the last.
LastCell(d, n, iLenDif, limit) ==
    LET reached == {i \in 1..n : d[iLenDif + i, i] >= limit}
        i == Min({n} \cup reached)
    IN  d[iLenDif + i, i]

Rectangles(short, long, limit) ==
    IF short = <<>> \/ Len(long) - Len(short) >= limit THEN Len(long) - Len(short)
    ELSE LastCell(Matrix(short, long), Len(short), Len(long) - Len(short), limit)

ShorterFirst(s, t, limit) ==
    IF Len(t) < Len(s) THEN Rectangles(t, s, limit) ELSE Rectangles(s, t, limit)

CalEditDistance(s, t, limit) == ShorterFirst(Core(s, t), Core(t, s), limit)
-----------------------------------------------------------------------------
(* The least number of deletions, insertions, changes and swaps of         *)
(* neighbours that make t of s, each letter being touched once.            *)
Distance(s, t) ==
    LET far[i \in 0..Len(s), j \in 0..Len(t)] ==
            IF i = 0 \/ j = 0 THEN i + j
            ELSE Min({far[i - 1, j] + 1, far[i, j - 1] + 1,
                      far[i - 1, j - 1] + (IF s[i] = t[j] THEN 0 ELSE 1)} \cup
                     {far[i - 2, j - 2] + 1 :
                         k \in {n \in {2} : i >= n /\ j >= n /\ s[i - 1] = t[j] /\ s[i] = t[j - 1]}})
    IN  far[Len(s), Len(t)]

\* A word longer than the one that is looked for is compared as far as that
\* one goes.
Beginning(w, q) == SubSeq(w, 1, IF Len(w) < Len(q) THEN Len(w) ELSE Len(q))

\* Below the limit the distance is exact, and at or above it no less is said.
IsDistanceUpTo(limit, n, s, t) ==
    IF Distance(s, t) < limit THEN n = Distance(s, t) ELSE n >= limit
=============================================================================
