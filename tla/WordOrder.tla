------------------------------ MODULE WordOrder ------------------------------
(***************************************************************************)
(* The words of a dictionary and the two ways StarDict compares them: the  *)
(* order of an index file (stardict_strcmp) and the length of a common     *)
(* beginning (prefix_match).  A letter is the number of a character.  The  *)
(* order folds the capitals of ASCII only and goes by bytes, which are in  *)
(* the order of the characters; the common beginning folds all capitals.   *)
(***************************************************************************)
EXTENDS Integers, Sequences, FiniteSets

CONSTANTS Word,         \* the words in sight: non-empty sequences of letters
          Small,        \* the small letter of each capital
          LastAscii     \* the last character of ASCII

ASSUME WordAssumption == \A w \in Word : w \in Seq(Nat) /\ w # <<>>

ASSUME CaseAssumption == \A c \in DOMAIN Small : Small[c] \in Nat

\* What a key pointer reads once its page is gone: no word.
Dangling == <<>>

Text == Word \cup {Dangling}

\* Every letter in `capitals` is made small.
Folded(w, capitals) == [i \in DOMAIN w |-> IF w[i] \in capitals THEN Small[w[i]] ELSE w[i]]

\* g_unichar_tolower of each letter, and g_ascii_tolower of each byte
ToLower(w) == Folded(w, DOMAIN Small)
AsciiLower(w) == Folded(w, {c \in DOMAIN Small : c <= LastAscii})

\* A word without other capitals: both are the same to it.
AsciiCase(w) == AsciiLower(w) = ToLower(w)

SharedPrefix(s, t) ==
    LET same == {k \in 0..Len(s) : k <= Len(t) /\ SubSeq(s, 1, k) = SubSeq(t, 1, k)}
    IN  CHOOSE n \in same : \A k \in same : k <= n

\* strcmp: the shorter of two words of which one begins the other, or the one
\* with the smaller of the first letters that differ
Strcmp(s, t) ==
    LET Differ(k) ==
            IF k = Len(s) THEN -1
            ELSE IF k < Len(t) /\ s[k + 1] < t[k + 1] THEN -1
            ELSE 1
    IN  IF s = t THEN 0 ELSE Differ(SharedPrefix(s, t))

\* The order of the words, without the case of ASCII first; tables, so that TLC
\* computes each comparison once.
StardictStrcmp ==
    [s \in Text |-> [t \in Text |->
        IF AsciiLower(s) = AsciiLower(t) THEN Strcmp(s, t)
                                         ELSE Strcmp(AsciiLower(s), AsciiLower(t))]]

PrefixMatch == [s \in Text |-> [t \in Text |-> SharedPrefix(ToLower(s), ToLower(t))]]

Before(s, t) == StardictStrcmp[s][t] < 0

\* What an index file holds: words in order, a word as often as it has articles.
InOrder(words) ==
    \A i \in 1..(Len(words) - 1) : ~Before(words[i + 1], words[i])

SortedSeqs(n) ==
    {s \in UNION {[1..k -> Word] : k \in 1..n} : InOrder(s)}
=============================================================================
