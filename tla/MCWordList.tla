----------------------------- MODULE MCWordList -----------------------------
(***************************************************************************)
(* WordList over words of two letters (2 and 4), for two dictionaries, one *)
(* of which has synonyms (the third file).                                 *)
(***************************************************************************)
EXTENDS WordList

SomeWords == {<<2>>, <<2, 4>>, <<2, 4, 4>>, <<4>>}
MoreWords == SomeWords \cup {<<2, 2>>}

Sizes == <<2, 2, 1>>
SmallSizes == <<2, 1, 1>>

\* The words have no case.
NoCase == [c \in {} |-> c]

ServedWords == {<<2, 4>>}

ThirdBelongsToFirst == <<1, 3, 2>>
Misspelt == {<<4, 2, 4>>}
SomePatterns == {{<<2, 4>>, <<2, 4, 4>>, <<4>>}}

ShortWords == UNION {[1..n -> {2, 4}] : n \in 0..4}

(* Of words of up to four letters, whatever the limit, the computation     *)
(* that gives up early is right below it (lib/edit-distance.cpp).          *)
ASSUME DistanceUpToTheLimit ==
    \A s, t \in ShortWords : \A limit \in 1..4 :
        IsDistanceUpTo(limit, CalEditDistance(s, t, limit), s, t)
=============================================================================
