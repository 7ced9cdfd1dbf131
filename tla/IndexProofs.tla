----------------------------- MODULE IndexProofs -----------------------------
(***************************************************************************)
(* Theorems about IndexFile, for every set of words, size of pages and     *)
(* length of an index; about Storage, whose databases have such an index,  *)
(* for any dictionaries, keys, buttons and sizes of the rings; and about   *)
(* the word that WordList looks up for one that no dictionary has.         *)
(*                                                                         *)
(* What makes them go through is the order of words: that it is one        *)
(* (BeforeTransitive, BeforeIsTotal) and that of three words in order the  *)
(* middle one shares the longer beginning with the last (BetweenMatches).  *)
(* The recursive functions of PagedIndex are shown to exist and to stop    *)
(* where they should by counting what is left: searches by halves in       *)
(* SearchIsDefined and SearchFinds, walks along the index in WalkIsDefined *)
(* and WalkEndsWithin.  The invariant of the file itself is short: the     *)
(* page in memory is the one it is taken for.  That of the storage says    *)
(* that the count of a temporary file is the number of its holders, and    *)
(* that what a ring or a button holds belongs to its key.                  *)
(***************************************************************************)
EXTENDS WordList, IndexFile, Storage, CachePoolProofs, FiniteSetTheorems, SequenceTheorems, TLAPS

------------------------------------------------------------------------------
(* The order of words. *)

(* Two texts are the same up to n letters. *)
Agree(s, t, n) ==
  /\ n \in Nat /\ n <= Len(s) /\ n <= Len(t)
  /\ \A k \in 1 .. n : s[k] = t[k]

(* They differ after n letters, and s comes first. *)
LessAt(s, t, n) ==
  /\ Agree(s, t, n) /\ n < Len(t)
  /\ n = Len(s) \/ (n < Len(s) /\ s[n + 1] < t[n + 1])

Less(s, t) == \E n \in Nat : LessAt(s, t, n)

(* How far two texts are the same is where they first differ. *)
LEMMA SharedPrefixIs ==
  ASSUME NEW s \in Seq(Nat), NEW t \in Seq(Nat)
  PROVE  /\ Agree(s, t, SharedPrefix(s, t))
         /\ \A m : Agree(s, t, m) => m <= SharedPrefix(s, t)
<1> DEFINE P == {k \in 0 .. Len(s) : k <= Len(t) /\ SubSeq(s, 1, k) = SubSeq(t, 1, k)}
           Out == {k \in Nat : k # 0 /\ ~ Agree(s, t, k)}
<1>1. Len(s) \in Nat /\ Len(t) \in Nat
  OBVIOUS
<1>2. ASSUME NEW k \in 0 .. Len(s), k <= Len(t)
      PROVE  SubSeq(s, 1, k) = SubSeq(t, 1, k) <=> \A j \in 1 .. k : s[j] = t[j]
  <2>1. SubSeq(s, 1, k) = [j \in 1 .. k |-> s[j]] /\ SubSeq(t, 1, k) = [j \in 1 .. k |-> t[j]]
    BY <1>1, <1>2
  <2>2. QED
    BY <2>1
<1>3. \A k : k \in P <=> k \in Nat /\ Agree(s, t, k)
  BY <1>1, <1>2 DEF Agree
<1>4. Len(s) + 1 \in Out
  BY <1>1 DEF Agree
<1>5. PICK m \in Out : \A k \in Out : m <= k
  <2>1. Out \in SUBSET Nat /\ Out # {}
    BY <1>4
  <2> HIDE DEF Out
  <2>2. QED
    BY <2>1, LeastNumber
<1>6. m \in Nat /\ m # 0 /\ ~ Agree(s, t, m) /\ m - 1 \in Nat
  BY <1>5
<1>7. \A k \in Nat : k # 0 /\ k < m => Agree(s, t, k)
  BY <1>5, <1>6
<1>8. \A k \in Nat : k >= m => ~ Agree(s, t, k)
  BY <1>1, <1>6 DEF Agree
<1>9. P = 0 .. (m - 1)
  <2>1. Agree(s, t, 0)
    BY <1>1 DEF Agree
  <2>2. \A k : k \in 0 .. (m - 1) <=> k \in Nat /\ k < m
    BY <1>6
  <2>3. \A k : k \in P <=> k \in 0 .. (m - 1)
    <3> HIDE DEF P
    <3> QED
      BY <1>3, <1>6, <1>7, <1>8, <2>1, <2>2
  <2> HIDE DEF P
  <2>4. QED
    BY <2>3, Zenon
<1>10. SharedPrefix(s, t) = m - 1
  <2>1. SharedPrefix(s, t) = CHOOSE n \in P : \A k \in P : k <= n
    BY DEF SharedPrefix
  <2> HIDE DEF P
  <2>2. \A n \in P : (\A k \in P : k <= n) <=> n = m - 1
    BY <1>6, <1>9
  <2>3. m - 1 \in P
    BY <1>6, <1>9
  <2>4. QED
    BY <2>1, <2>2, <2>3
<1>11. Agree(s, t, m - 1)
  BY <1>1, <1>6, <1>7 DEF Agree
<1>12. \A k : Agree(s, t, k) => k <= m - 1
  BY <1>6, <1>8 DEF Agree
<1>13. QED
  BY <1>10, <1>11, <1>12

(* strcmp tells the order of two texts. *)
LEMMA StrcmpIs ==
  ASSUME NEW s \in Seq(Nat), NEW t \in Seq(Nat)
  PROVE  /\ Strcmp(s, t) \in {-1, 0, 1}
         /\ Strcmp(s, t) = 0 <=> s = t
         /\ Strcmp(s, t) < 0 <=> Less(s, t)
         /\ Strcmp(s, t) > 0 <=> Less(t, s)
<1> DEFINE n == SharedPrefix(s, t)
<1>1. Agree(s, t, n) /\ \A m : Agree(s, t, m) => m <= n
  BY SharedPrefixIs
<1>2. Len(s) \in Nat /\ Len(t) \in Nat /\ n \in Nat
  BY <1>1 DEF Agree
<1> HIDE DEF n
<1>3. ~ Agree(s, t, n + 1)
  BY <1>1, <1>2
<1>4. CASE s = t
  <2>1. \A m \in Nat : ~ LessAt(s, t, m) /\ ~ LessAt(t, s, m)
    BY <1>2, <1>4 DEF LessAt
  <2>2. QED
    BY <1>4, <2>1 DEF Strcmp, Less
<1>5. CASE s # t
  <2>1. ~ (n = Len(s) /\ n = Len(t))
    <3> SUFFICES ASSUME n = Len(s), n = Len(t) PROVE FALSE
      OBVIOUS
    <3>1. \A k \in 1 .. Len(s) : s[k] = t[k]
      BY <1>1 DEF Agree
    <3>2. Len(s) = Len(t)
      OBVIOUS
    <3>3. QED
      BY <1>5, <3>1, <3>2, SeqEqual
  <2>2. n < Len(s) /\ n < Len(t) => s[n + 1] # t[n + 1]
    <3> SUFFICES ASSUME n < Len(s), n < Len(t), s[n + 1] = t[n + 1] PROVE FALSE
      OBVIOUS
    <3>1. \A k \in 1 .. (n + 1) : s[k] = t[k]
      BY <1>1, <1>2 DEF Agree
    <3>2. QED
      BY <1>2, <1>3, <3>1 DEF Agree
  <2>3. n < Len(s) => s[n + 1] \in Nat
    BY <1>2
  <2>4. n < Len(t) => t[n + 1] \in Nat
    BY <1>2
  <2>5. n <= Len(s) /\ n <= Len(t) /\ \A k \in 1 .. n : s[k] = t[k]
    BY <1>1 DEF Agree
  <2>6. \A m : LessAt(s, t, m) \/ LessAt(t, s, m) => m = n
    <3> SUFFICES ASSUME NEW m, LessAt(s, t, m) \/ LessAt(t, s, m) PROVE m = n
      OBVIOUS
    <3>1. m \in Nat /\ m <= Len(s) /\ m <= Len(t) /\ Agree(s, t, m)
      BY DEF LessAt, Agree
    <3>2. m <= n
      BY <1>1, <3>1
    <3>3. CASE m < n
      <4>1. m + 1 \in 1 .. n /\ m < Len(s) /\ m < Len(t)
        BY <1>2, <2>5, <3>1, <3>3
      <4>2. s[m + 1] = t[m + 1] /\ s[m + 1] \in Nat
        BY <1>2, <2>5, <4>1
      <4>3. QED
        BY <4>1, <4>2, <3>1 DEF LessAt
    <3>4. QED
      BY <1>2, <3>1, <3>2, <3>3
  <2>7. Agree(t, s, n)
    BY <1>1, <2>5 DEF Agree
  <2>8. Less(s, t) <=> LessAt(s, t, n)
    BY <1>2, <2>6 DEF Less
  <2>9. Less(t, s) <=> LessAt(t, s, n)
    BY <1>2, <2>6 DEF Less
  <2>10. Strcmp(s, t) = IF n = Len(s) THEN -1
                        ELSE IF n < Len(t) /\ s[n + 1] < t[n + 1] THEN -1 ELSE 1
    BY <1>5 DEF Strcmp, n
  <2>11. QED
    BY <1>1, <1>2, <1>5, <2>1, <2>2, <2>3, <2>4, <2>5, <2>7, <2>8, <2>9, <2>10 DEF LessAt
<1>6. QED
  BY <1>4, <1>5

(* It is transitive. *)
LEMMA LessTransitive ==
  ASSUME NEW s \in Seq(Nat), NEW t \in Seq(Nat), NEW u \in Seq(Nat), Less(s, t), Less(t, u)
  PROVE  Less(s, u)
<1>1. PICK m \in Nat : LessAt(s, t, m)
  BY DEF Less
<1>2. PICK n \in Nat : LessAt(t, u, n)
  BY DEF Less
<1> DEFINE k == IF m < n THEN m ELSE n
<1>3. Len(s) \in Nat /\ Len(t) \in Nat /\ Len(u) \in Nat
  OBVIOUS
<1>4. (\A j \in 1 .. Len(s) : s[j] \in Nat) /\ (\A j \in 1 .. Len(t) : t[j] \in Nat)
      /\ (\A j \in 1 .. Len(u) : u[j] \in Nat)
  OBVIOUS
<1>5. k \in Nat /\ k <= m /\ k <= n
  OBVIOUS
<1>6. Agree(s, u, k)
  BY <1>1, <1>2, <1>3, <1>5 DEF LessAt, Agree
<1>7. k < Len(u)
  BY <1>2, <1>3 DEF LessAt, Agree
<1>8. k = Len(s) \/ (k < Len(s) /\ s[k + 1] < u[k + 1])
  <2>1. CASE m < n
    <3>1. m + 1 \in 1 .. n /\ t[m + 1] = u[m + 1]
      BY <1>2, <2>1 DEF LessAt, Agree
    <3>2. QED
      BY <1>1, <2>1, <3>1 DEF LessAt
  <2>2. CASE n < m
    <3>1. n + 1 \in 1 .. m /\ s[n + 1] = t[n + 1] /\ n < Len(s) /\ n < Len(t)
      BY <1>1, <1>3, <2>2 DEF LessAt, Agree
    <3>2. QED
      BY <1>2, <1>3, <2>2, <3>1 DEF LessAt
  <2>3. CASE m = n
    <3>1. m < Len(t) /\ n < Len(t) /\ t[n + 1] < u[n + 1] /\ n < Len(u)
      BY <1>1, <1>2, <1>3, <2>3 DEF LessAt
    <3>2. CASE m = Len(s)
      BY <2>3, <3>2
    <3>3. CASE m # Len(s)
      <4>1. m < Len(s) /\ s[m + 1] < t[m + 1]
        BY <1>1, <3>3 DEF LessAt
      <4>2. s[m + 1] \in Nat /\ t[m + 1] \in Nat /\ u[m + 1] \in Nat
        BY <1>3, <1>4, <2>3, <3>1, <4>1
      <4>3. QED
        BY <2>3, <3>1, <4>1, <4>2
    <3>4. QED
      BY <3>2, <3>3
  <2>4. QED
    BY <2>1, <2>2, <2>3
<1>9. QED
  BY <1>5, <1>6, <1>7, <1>8 DEF Less, LessAt

(* A text that lies between two others has as much in common with each of
   them as they have with each other, or more.                            *)
LEMMA BetweenIsCloser ==
  ASSUME NEW a \in Seq(Nat), NEW b \in Seq(Nat), NEW c \in Seq(Nat),
         (~ Less(b, a) /\ ~ Less(c, b)) \/ (~ Less(a, b) /\ ~ Less(b, c))
  PROVE  SharedPrefix(c, a) <= SharedPrefix(c, b)
<1> DEFINE n == SharedPrefix(c, a)
           m == SharedPrefix(c, b)
<1>1. Agree(c, a, n)
  BY SharedPrefixIs
<1>2. Agree(c, b, m) /\ \A k : Agree(c, b, k) => k <= m
  BY SharedPrefixIs
<1> HIDE DEF n, m
<1>3. Len(a) \in Nat /\ Len(b) \in Nat /\ Len(c) \in Nat /\ n \in Nat /\ m \in Nat
  BY <1>1, <1>2 DEF Agree
<1> SUFFICES ASSUME m < n PROVE FALSE
  BY <1>3 DEF n, m
<1>4. m < Len(c) /\ m < Len(a) /\ c[m + 1] = a[m + 1] /\ m + 1 \in 1 .. n
  BY <1>1, <1>3 DEF Agree
<1>5. Agree(b, a, m) /\ Agree(a, b, m) /\ Agree(b, c, m) /\ Agree(c, b, m)
  BY <1>1, <1>2, <1>3 DEF Agree
<1>6. CASE m = Len(b)
  <2>1. LessAt(b, a, m) /\ LessAt(b, c, m)
    BY <1>4, <1>5, <1>6 DEF LessAt
  <2>2. QED
    BY <1>3, <2>1 DEF Less
<1>7. CASE m # Len(b)
  <2>1. m < Len(b)
    BY <1>2, <1>3, <1>7 DEF Agree
  <2>2. b[m + 1] \in Nat /\ c[m + 1] \in Nat
    BY <1>3, <1>4, <2>1
  <2>3. b[m + 1] # c[m + 1]
    <3> SUFFICES ASSUME b[m + 1] = c[m + 1] PROVE FALSE
      OBVIOUS
    <3>1. Agree(c, b, m + 1)
      BY <1>2, <1>3, <1>4, <2>1 DEF Agree
    <3>2. QED
      BY <1>2, <1>3, <3>1
  <2>4. CASE b[m + 1] < c[m + 1]
    <3>1. LessAt(b, a, m) /\ LessAt(b, c, m)
      BY <1>4, <1>5, <2>1, <2>4 DEF LessAt
    <3>2. QED
      BY <1>3, <3>1 DEF Less
  <2>5. CASE b[m + 1] > c[m + 1]
    <3>1. LessAt(a, b, m) /\ LessAt(c, b, m)
      BY <1>4, <1>5, <2>1, <2>2, <2>5 DEF LessAt
    <3>2. QED
      BY <1>3, <3>1 DEF Less
  <2>6. QED
    BY <2>2, <2>3, <2>4, <2>5
<1>8. QED
  BY <1>6, <1>7

LEMMA LowerIsText ==
  ASSUME NEW w \in Seq(Nat)
  PROVE  /\ ToLower(w) \in Seq(Nat) /\ Len(ToLower(w)) = Len(w)
         /\ AsciiLower(w) \in Seq(Nat)
<1>1. DOMAIN w = 1 .. Len(w) /\ Len(w) \in Nat
  OBVIOUS
<1>2. ASSUME NEW capitals \in SUBSET DOMAIN Small
      PROVE  Folded(w, capitals) \in Seq(Nat) /\ Len(Folded(w, capitals)) = Len(w)
  <2> DEFINE letter(k) == IF w[k] \in capitals THEN Small[w[k]] ELSE w[k]
  <2>1. \A k \in 1 .. Len(w) : letter(k) \in Nat
    BY CaseAssumption
  <2>2. Folded(w, capitals) = [k \in 1 .. Len(w) |-> letter(k)]
    BY <1>1 DEF Folded
  <2> HIDE DEF letter
  <2>3. QED
    BY <1>1, <2>1, <2>2
<1>3. QED
  BY <1>2 DEF ToLower, AsciiLower

LEMMA TextIsText == Text \subseteq Seq(Nat)
<1>1. \A w \in Word : w \in Seq(Nat)
  BY WordAssumption
<1>2. << >> \in Seq(Nat)
  OBVIOUS
<1>3. QED
  BY <1>1, <1>2 DEF Text, Dangling

(* stardict_strcmp without case first, then with. *)
LEMMA BeforeIs ==
  ASSUME NEW s \in Text, NEW t \in Text
  PROVE  /\ StardictStrcmp[s][t] \in {-1, 0, 1}
         /\ StardictStrcmp[s][t] = 0 <=> s = t
         /\ StardictStrcmp[s][t] > 0 <=> Before(t, s)
         /\ Before(s, t) <=> \/ Less(AsciiLower(s), AsciiLower(t))
                             \/ AsciiLower(s) = AsciiLower(t) /\ Less(s, t)
<1>1. s \in Seq(Nat) /\ t \in Seq(Nat)
  BY TextIsText
<1>2. AsciiLower(s) \in Seq(Nat) /\ AsciiLower(t) \in Seq(Nat)
  BY <1>1, LowerIsText
<1>3. StardictStrcmp[s][t] =
        IF AsciiLower(s) = AsciiLower(t) THEN Strcmp(s, t) ELSE Strcmp(AsciiLower(s), AsciiLower(t))
  BY DEF StardictStrcmp
<1>4. StardictStrcmp[t][s] =
        IF AsciiLower(t) = AsciiLower(s) THEN Strcmp(t, s) ELSE Strcmp(AsciiLower(t), AsciiLower(s))
  BY DEF StardictStrcmp
<1>5. /\ Strcmp(s, t) \in {-1, 0, 1}
      /\ Strcmp(s, t) = 0 <=> s = t
      /\ Strcmp(s, t) < 0 <=> Less(s, t)
      /\ Strcmp(s, t) > 0 <=> Less(t, s)
  BY <1>1, StrcmpIs
<1>6. Strcmp(t, s) < 0 <=> Less(t, s)
  BY <1>1, StrcmpIs
<1>7. /\ Strcmp(AsciiLower(s), AsciiLower(t)) \in {-1, 0, 1}
      /\ Strcmp(AsciiLower(s), AsciiLower(t)) = 0 <=> AsciiLower(s) = AsciiLower(t)
      /\ Strcmp(AsciiLower(s), AsciiLower(t)) < 0 <=> Less(AsciiLower(s), AsciiLower(t))
      /\ Strcmp(AsciiLower(s), AsciiLower(t)) > 0 <=> Less(AsciiLower(t), AsciiLower(s))
  BY <1>2, StrcmpIs
<1>8. Strcmp(AsciiLower(t), AsciiLower(s)) < 0 <=> Less(AsciiLower(t), AsciiLower(s))
  BY <1>2, StrcmpIs
<1>9. AsciiLower(s) = AsciiLower(t) => ~ Less(AsciiLower(s), AsciiLower(t))
  BY <1>7
<1>10. QED
  BY <1>3, <1>4, <1>5, <1>6, <1>7, <1>8, <1>9 DEF Before

LEMMA BeforeTransitive ==
  ASSUME NEW s \in Text, NEW t \in Text, NEW u \in Text, Before(s, t), Before(t, u)
  PROVE  Before(s, u)
<1>1. s \in Seq(Nat) /\ t \in Seq(Nat) /\ u \in Seq(Nat)
  BY TextIsText
<1>2. AsciiLower(s) \in Seq(Nat) /\ AsciiLower(t) \in Seq(Nat) /\ AsciiLower(u) \in Seq(Nat)
  BY <1>1, LowerIsText
<1>3. Less(AsciiLower(s), AsciiLower(t)) \/ (AsciiLower(s) = AsciiLower(t) /\ Less(s, t))
  BY BeforeIs
<1>4. Less(AsciiLower(t), AsciiLower(u)) \/ (AsciiLower(t) = AsciiLower(u) /\ Less(t, u))
  BY BeforeIs
<1>5. Less(s, t) /\ Less(t, u) => Less(s, u)
  BY <1>1, LessTransitive
<1>6. Less(AsciiLower(s), AsciiLower(t)) /\ Less(AsciiLower(t), AsciiLower(u))
        => Less(AsciiLower(s), AsciiLower(u))
  BY <1>2, LessTransitive
<1>7. Less(AsciiLower(s), AsciiLower(u)) \/ (AsciiLower(s) = AsciiLower(u) /\ Less(s, u))
  BY <1>3, <1>4, <1>5, <1>6
<1>8. QED
  BY <1>7, BeforeIs

(* One of two words comes before the other, or they are the same. *)
LEMMA BeforeIsTotal ==
  ASSUME NEW s \in Text, NEW t \in Text
  PROVE  /\ ~ Before(s, s)
         /\ Before(s, t) => ~ Before(t, s) /\ s # t
         /\ s # t => Before(s, t) \/ Before(t, s)
         /\ StardictStrcmp[s][t] \in Int
<1>1. /\ StardictStrcmp[s][t] \in {-1, 0, 1}
      /\ StardictStrcmp[s][t] = 0 <=> s = t
      /\ StardictStrcmp[s][t] > 0 <=> Before(t, s)
  BY BeforeIs
<1>2. StardictStrcmp[s][s] = 0
  BY BeforeIs
<1>3. StardictStrcmp[s][t] < 0 <=> Before(s, t)
  BY DEF Before
<1>4. ~ Before(s, s)
  BY <1>2 DEF Before
<1>5. QED
  BY <1>1, <1>3, <1>4

(* Of words in order, the one between is as close to each of the others, if
   they have no capitals beyond ASCII.                                     *)
LEMMA BetweenMatches ==
  ASSUME NEW u \in Text, NEW v \in Text, NEW w \in Text,
         AsciiCase(u), AsciiCase(v), AsciiCase(w),
         (~ Before(v, u) /\ ~ Before(w, v)) \/ (~ Before(u, v) /\ ~ Before(v, w))
  PROVE  PrefixMatch[w][u] <= PrefixMatch[w][v]
<1>1. u \in Seq(Nat) /\ v \in Seq(Nat) /\ w \in Seq(Nat)
  BY TextIsText
<1>2. ToLower(u) \in Seq(Nat) /\ ToLower(v) \in Seq(Nat) /\ ToLower(w) \in Seq(Nat)
  BY <1>1, LowerIsText
<1>3. \/ ~ Less(ToLower(v), ToLower(u)) /\ ~ Less(ToLower(w), ToLower(v))
      \/ ~ Less(ToLower(u), ToLower(v)) /\ ~ Less(ToLower(v), ToLower(w))
  BY BeforeIs DEF AsciiCase
<1>4. SharedPrefix(ToLower(w), ToLower(u)) <= SharedPrefix(ToLower(w), ToLower(v))
  BY <1>2, <1>3, BetweenIsCloser
<1>5. QED
  BY <1>4 DEF PrefixMatch

LEMMA PrefixMatchIs ==
  ASSUME NEW s \in Text, NEW t \in Text
  PROVE  /\ PrefixMatch[s][t] \in 0 .. Len(s)
         /\ PrefixMatch[s][t] <= PrefixMatch[s][s]
<1>1. s \in Seq(Nat) /\ t \in Seq(Nat)
  BY TextIsText
<1>2. ToLower(s) \in Seq(Nat) /\ ToLower(t) \in Seq(Nat) /\ Len(ToLower(s)) = Len(s)
  BY <1>1, LowerIsText
<1>3. Agree(ToLower(s), ToLower(t), SharedPrefix(ToLower(s), ToLower(t)))
  BY <1>2, SharedPrefixIs
<1>4. /\ Agree(ToLower(s), ToLower(s), SharedPrefix(ToLower(s), ToLower(s)))
      /\ \A m : Agree(ToLower(s), ToLower(s), m) => m <= SharedPrefix(ToLower(s), ToLower(s))
  BY <1>2, SharedPrefixIs
<1>5. Agree(ToLower(s), ToLower(s), SharedPrefix(ToLower(s), ToLower(t)))
  BY <1>3 DEF Agree
<1>6. SharedPrefix(ToLower(s), ToLower(t)) <= SharedPrefix(ToLower(s), ToLower(s))
  BY <1>4, <1>5
<1>7. SharedPrefix(ToLower(s), ToLower(t)) \in 0 .. Len(s)
  BY <1>1, <1>2, <1>3 DEF Agree
<1>8. QED
  BY <1>6, <1>7 DEF PrefixMatch

------------------------------------------------------------------------------
(* An index. *)

Places(ws) == 0 .. (Len(ws) - 1)

(* It has words. *)
Listed(ws) ==
  /\ ws \in Seq(Word) /\ Len(ws) \in Nat \ {0}
  /\ \A k \in Places(ws) : KeyAt(ws, k) \in Word

(* What is known of an index whatever its bound. *)
Sorted(ws) ==
  /\ ws \in Seq(Word) /\ Len(ws) \in Nat \ {0}
  /\ \A k \in Places(ws) : KeyAt(ws, k) \in Word
  /\ \A j, k \in Places(ws) : j <= k => ~ Before(KeyAt(ws, k), KeyAt(ws, j))

LEMMA SortedIsListed ==
  ASSUME NEW ws, Sorted(ws)
  PROVE  Listed(ws)
BY DEF Sorted, Listed

LEMMA SortedSeqsAreSorted ==
  ASSUME NEW n, NEW ws \in SortedSeqs(n)
  PROVE  Sorted(ws)
<1>1. PICK m \in 1 .. n : ws \in [1 .. m -> Word]
  BY DEF SortedSeqs
<1>2. InOrder(ws)
  BY DEF SortedSeqs
<1>3. m \in Nat \ {0}
  BY <1>1
<1>4. ws \in Seq(Word) /\ Len(ws) = m
  BY <1>1, <1>3
<1>5. \A k \in Places(ws) : KeyAt(ws, k) \in Word
  BY <1>1, <1>3, <1>4 DEF Places, KeyAt
<1>6. \A k \in 1 .. (m - 1) : ~ Before(KeyAt(ws, k), KeyAt(ws, k - 1))
  <2> TAKE k \in 1 .. (m - 1)
  <2>1. ~ Before(ws[k + 1], ws[k])
    BY <1>2, <1>4 DEF InOrder
  <2>2. (k - 1) + 1 = k
    BY <1>3
  <2>3. QED
    BY <2>1, <2>2 DEF KeyAt
<1>7. Word \subseteq Text
  BY DEF Text
<1>8. ASSUME NEW j \in Places(ws)
      PROVE  \A k \in Places(ws) : j <= k => ~ Before(KeyAt(ws, k), KeyAt(ws, j))
  <2> DEFINE L == (m - 1) - j
             T == {d \in 0 .. L : ~ Before(KeyAt(ws, j + d), KeyAt(ws, j))}
  <2>1. L \in Nat /\ j \in Nat /\ j + 0 = j
    BY <1>3, <1>4, <1>8 DEF Places
  <2>2. 0 \in T
    <3>1. ~ Before(KeyAt(ws, j), KeyAt(ws, j))
      BY <1>5, <1>7, <1>8, BeforeIsTotal
    <3>2. QED
      BY <2>1, <3>1
  <2>3. ASSUME NEW d \in 1 .. L, d - 1 \in T PROVE d \in T
    <3> DEFINE x == KeyAt(ws, j)
               y == KeyAt(ws, j + (d - 1))
               z == KeyAt(ws, j + d)
    <3>1. ~ Before(y, x)
      BY <2>3
    <3>2. j + d \in 1 .. (m - 1) /\ (j + d) - 1 = j + (d - 1)
      BY <1>3, <2>1, <2>3
    <3>3. ~ Before(z, y)
      BY <1>6, <3>2
    <3>4. x \in Text /\ y \in Text /\ z \in Text
      <4>1. j + d \in Places(ws) /\ j + (d - 1) \in Places(ws)
        BY <1>3, <1>4, <2>1, <2>3 DEF Places
      <4>2. QED
        BY <1>5, <1>7, <1>8, <4>1
    <3> HIDE DEF x, y, z
    <3>5. ~ Before(z, x)
      <4>1. CASE z = y
        BY <3>1, <4>1
      <4>2. CASE z # y
        <5>1. Before(y, z)
          BY <3>3, <3>4, <4>2, BeforeIsTotal
        <5>2. Before(z, x) => Before(y, x)
          BY <3>4, <5>1, BeforeTransitive
        <5>3. QED
          BY <3>1, <5>2
      <4>3. QED
        BY <4>1, <4>2
    <3>6. QED
      BY <3>5 DEF x, z
  <2>4. \A d \in 0 .. L : d \in T
    <3> HIDE DEF T, L
    <3> QED
      BY <2>1, <2>2, <2>3, CountingUp
  <2> SUFFICES ASSUME NEW k \in Places(ws), j <= k PROVE ~ Before(KeyAt(ws, k), KeyAt(ws, j))
    OBVIOUS
  <2>5. k - j \in 0 .. L /\ j + (k - j) = k
    BY <1>3, <1>4, <2>1 DEF Places
  <2>6. QED
    BY <2>4, <2>5
<1>9. QED
  BY <1>3, <1>4, <1>5, <1>8 DEF Sorted

------------------------------------------------------------------------------
(* Loops. *)

(* A loop over states D with results V: a turn, given what each state comes
   to, says what this one comes to, and looks only at smaller ones.       *)
IsLoop(D, V, L, size, turn) ==
  /\ V # {} /\ L \in Nat /\ size \in [D -> 0 .. L] /\ turn \in [D -> [[D -> V] -> V]]
  /\ \A x \in D : \A f, g \in [D -> V] :
       (\A y \in D : size[y] < size[x] => f[y] = g[y]) => turn[x][f] = turn[x][g]

(* It is defined: the recursive function that TLA+ chooses for it exists. *)
LEMMA LoopIsDefined ==
  ASSUME NEW D, NEW V, NEW L, NEW size, NEW turn, IsLoop(D, V, L, size, turn)
  PROVE  \E f \in [D -> V] : \A x \in D : f[x] = turn[x][f]
<1> DEFINE Done(f, n) == \A x \in D : size[x] < n => f[x] = turn[x][f]
           T == {n \in 0 .. (L + 1) : \E f \in [D -> V] : Done(f, n)}
<1> USE DEF IsLoop
<1>1. 0 \in T
  <2>1. PICK v : v \in V
    OBVIOUS
  <2> DEFINE f == [x \in D |-> v]
  <2>2. f \in [D -> V]
    BY <2>1
  <2>3. \A x \in D : ~ (size[x] < 0)
    OBVIOUS
  <2> HIDE DEF f
  <2>4. QED
    BY <2>2, <2>3
<1>2. ASSUME NEW k \in 1 .. (L + 1), k - 1 \in T PROVE k \in T
  <2>1. PICK f \in [D -> V] : Done(f, k - 1)
    BY <1>2
  <2> DEFINE g == [x \in D |-> IF size[x] < k THEN turn[x][f] ELSE f[x]]
  <2>2. g \in [D -> V]
    OBVIOUS
  <2>3. \A y \in D : size[y] < k - 1 => g[y] = f[y]
    <3> TAKE y \in D
    <3> SUFFICES ASSUME size[y] < k - 1 PROVE g[y] = f[y]
      OBVIOUS
    <3>1. size[y] < k
      OBVIOUS
    <3>2. f[y] = turn[y][f]
      BY <2>1
    <3>3. QED
      BY <3>1, <3>2
  <2>4. ASSUME NEW x \in D, size[x] < k PROVE g[x] = turn[x][g]
    <3>1. g[x] = turn[x][f]
      BY <2>4
    <3>2. \A y \in D : size[y] < size[x] => f[y] = g[y]
      BY <2>3, <2>4
    <3> HIDE DEF g
    <3>3. turn[x][f] = turn[x][g]
      BY <2>2, <3>2
    <3>4. QED
      BY <3>1, <3>3
  <2> HIDE DEF g
  <2>5. Done(g, k)
    BY <2>4
  <2>6. QED
    BY <2>2, <2>5
<1>3. L + 1 \in T
  <2>1. L + 1 \in Nat
    OBVIOUS
  <2> HIDE DEF T
  <2>2. \A k \in 0 .. (L + 1) : k \in T
    BY <1>1, <1>2, <2>1, CountingUp
  <2>3. QED
    BY <2>1, <2>2
<1>4. PICK f \in [D -> V] : Done(f, L + 1)
  BY <1>3
<1>5. \A x \in D : f[x] = turn[x][f]
  BY <1>4
<1>6. QED
  BY <1>5

(* The ranges a search of first..last may come to, what it gives, and a
   turn of its loop.                                                      *)
Ranges(first, last) == (first .. (last + 1)) \X ((first - 1) .. last)

SearchResult == [found : BOOLEAN, next : Int, prev : Int]

SearchTurn(cmp, range, Step) ==
  LET from == range[1]
      to == range[2]
      mid == (from + to) \div 2
  IN  IF from > to THEN [found |-> FALSE, next |-> from, prev |-> to]
      ELSE CASE cmp[mid] > 0 -> Step[<<mid + 1, to>>]
             [] cmp[mid] < 0 -> Step[<<from, mid - 1>>]
             [] OTHER        -> [found |-> TRUE, next |-> mid, prev |-> mid]

RangeSize(range) == IF range[1] > range[2] THEN 0 ELSE (range[2] - range[1]) + 1

(* The halves of a range are smaller. *)
LEMMA Halves ==
  ASSUME NEW first \in Int, NEW last \in Int, NEW range \in Ranges(first, last),
         range[1] <= range[2]
  PROVE  LET mid == (range[1] + range[2]) \div 2
         IN  /\ mid \in range[1] .. range[2]
             /\ <<mid + 1, range[2]>> \in Ranges(first, last)
             /\ <<range[1], mid - 1>> \in Ranges(first, last)
             /\ RangeSize(<<mid + 1, range[2]>>) < RangeSize(range)
             /\ RangeSize(<<range[1], mid - 1>>) < RangeSize(range)
<1> DEFINE from == range[1]
           to == range[2]
           mid == (from + to) \div 2
<1>1. from \in first .. (last + 1) /\ to \in (first - 1) .. last /\ from <= to
  BY DEF Ranges
<1>2. from \in Int /\ to \in Int
  BY <1>1
<1> HIDE DEF from, to
<1>3. mid \in from .. to
  BY <1>1, <1>2
<1> HIDE DEF mid
<1>4. mid + 1 \in first .. (last + 1) /\ mid - 1 \in (first - 1) .. last
  BY <1>1, <1>2, <1>3
<1>5. <<mid + 1, to>> \in Ranges(first, last) /\ <<from, mid - 1>> \in Ranges(first, last)
  BY <1>1, <1>4 DEF Ranges
<1>6. RangeSize(range) = (to - from) + 1
  BY <1>1, <1>2 DEF RangeSize, from, to
<1>7. RangeSize(<<mid + 1, to>>) < (to - from) + 1
  BY <1>1, <1>2, <1>3 DEF RangeSize
<1>8. RangeSize(<<from, mid - 1>>) < (to - from) + 1
  BY <1>1, <1>2, <1>3 DEF RangeSize
<1>9. QED
  BY <1>3, <1>5, <1>6, <1>7, <1>8 DEF from, to, mid

LEMMA SearchIsDefined ==
  ASSUME NEW first \in Int, NEW last \in Int, first <= last + 1, NEW cmp
  PROVE  \E Step :
           /\ BinarySearch(cmp, first, last) = Step[<<first, last>>]
           /\ \A range \in Ranges(first, last) : Step[range] = SearchTurn(cmp, range, Step)
<1> DEFINE D == Ranges(first, last)
           V == SearchResult
           L == (last - first) + 1
           size == [range \in D |-> RangeSize(range)]
           turn == [range \in D |-> [f \in [D -> V] |-> SearchTurn(cmp, range, f)]]
<1>1. L \in Nat
  OBVIOUS
<1>2. V # {}
  <2>1. [found |-> TRUE, next |-> 0, prev |-> 0] \in V
    BY DEF SearchResult
  <2>2. QED
    BY <2>1
<1>3. size \in [D -> 0 .. L]
  <2> SUFFICES ASSUME NEW range \in D PROVE RangeSize(range) \in 0 .. L
    OBVIOUS
  <2>1. range[1] \in first .. (last + 1) /\ range[2] \in (first - 1) .. last
    BY DEF Ranges
  <2>2. QED
    BY <2>1 DEF RangeSize
<1>4. ASSUME NEW range \in D, NEW f \in [D -> V] PROVE SearchTurn(cmp, range, f) \in V
  <2>1. range[1] \in Int /\ range[2] \in Int
    BY DEF Ranges
  <2>2. CASE range[1] > range[2]
    BY <2>1, <2>2 DEF SearchTurn, SearchResult
  <2>3. CASE ~ (range[1] > range[2])
    <3> DEFINE mid == (range[1] + range[2]) \div 2
    <3>0. range[1] <= range[2]
      BY <2>1, <2>3
    <3>1. mid \in range[1] .. range[2] /\ <<mid + 1, range[2]>> \in D /\ <<range[1], mid - 1>> \in D
      BY <3>0, Halves
    <3> HIDE DEF mid, D
    <3>2. [found |-> TRUE, next |-> mid, prev |-> mid] \in V
      BY <2>1, <3>1 DEF SearchResult
    <3>3. f[<<mid + 1, range[2]>>] \in V /\ f[<<range[1], mid - 1>>] \in V
      BY <3>1
    <3>4. SearchTurn(cmp, range, f) =
            CASE cmp[mid] > 0 -> f[<<mid + 1, range[2]>>]
              [] cmp[mid] < 0 -> f[<<range[1], mid - 1>>]
              [] OTHER        -> [found |-> TRUE, next |-> mid, prev |-> mid]
      BY <2>3 DEF SearchTurn, mid
    <3> HIDE DEF V
    <3>5. QED
      BY <3>2, <3>3, <3>4
  <2>4. QED
    BY <2>2, <2>3
<1>5. turn \in [D -> [[D -> V] -> V]]
  BY <1>4
<1>6. ASSUME NEW range \in D, NEW f \in [D -> V], NEW g \in [D -> V],
             \A y \in D : size[y] < size[range] => f[y] = g[y]
      PROVE  turn[range][f] = turn[range][g]
  <2>1. range[1] \in Int /\ range[2] \in Int
    BY DEF Ranges
  <2>2. CASE range[1] > range[2]
    BY <2>2 DEF SearchTurn
  <2>3. CASE ~ (range[1] > range[2])
    <3> DEFINE mid == (range[1] + range[2]) \div 2
    <3>1. /\ <<mid + 1, range[2]>> \in D /\ <<range[1], mid - 1>> \in D
          /\ RangeSize(<<mid + 1, range[2]>>) < RangeSize(range)
          /\ RangeSize(<<range[1], mid - 1>>) < RangeSize(range)
      BY <2>1, <2>3, Halves
    <3> HIDE DEF mid, D
    <3>2. f[<<mid + 1, range[2]>>] = g[<<mid + 1, range[2]>>]
          /\ f[<<range[1], mid - 1>>] = g[<<range[1], mid - 1>>]
      BY <1>6, <3>1
    <3>3. SearchTurn(cmp, range, f) = SearchTurn(cmp, range, g)
      BY <2>3, <3>2 DEF SearchTurn, mid
    <3>4. QED
      BY <3>3
  <2>4. QED
    BY <2>2, <2>3
<1>7. PICK f \in [D -> V] : \A range \in D : f[range] = turn[range][f]
  <2>1. \A x \in D : \A f, g \in [D -> V] :
          (\A y \in D : size[y] < size[x] => f[y] = g[y]) => turn[x][f] = turn[x][g]
    BY <1>6
  <2> HIDE DEF D, V, L, size, turn
  <2>. IsLoop(D, V, L, size, turn)
    BY <1>1, <1>2, <1>3, <1>5, <2>1 DEF IsLoop
  <2>2. \E f \in [D -> V] : \A x \in D : f[x] = turn[x][f]
    BY LoopIsDefined
  <2>3. QED
    BY <2>2
<1>8. f = [range \in D |-> SearchTurn(cmp, range, f)]
  <2>1. \A range \in D : turn[range][f] = SearchTurn(cmp, range, f)
    OBVIOUS
  <2> HIDE DEF D, V, turn
  <2>2. QED
    BY <1>7, <2>1
<1> DEFINE Step == CHOOSE g : g = [range \in D |-> SearchTurn(cmp, range, g)]
<1>9. Step = [range \in D |-> SearchTurn(cmp, range, Step)]
  <2> HIDE DEF D
  <2> QED
    BY <1>8
<1>10. BinarySearch(cmp, first, last) = Step[<<first, last>>]
  BY DEF BinarySearch, SearchTurn, Ranges
<1>11. QED
  BY <1>9, <1>10

(* What a search over from..to should give. *)
Finds(cmp, from, to, r) ==
  /\ r.found \in BOOLEAN
  /\ r.found => r.next \in from .. to /\ r.prev = r.next /\ cmp[r.next] = 0
  /\ ~ r.found => /\ r.next \in from .. (to + 1) /\ r.prev = r.next - 1
                  /\ \A k \in from .. to : /\ k < r.next => cmp[k] > 0
                                           /\ k >= r.next => cmp[k] < 0

(* The words are in order. *)
Falling(cmp, first, last) ==
  /\ cmp \in [first .. last -> Int]
  /\ \A j, k \in first .. last : j <= k => /\ cmp[j] < 0 => cmp[k] < 0
                                           /\ cmp[k] > 0 => cmp[j] > 0

LEMMA SearchFinds ==
  ASSUME NEW first \in Int, NEW last \in Int, first <= last + 1, NEW cmp, Falling(cmp, first, last)
  PROVE  Finds(cmp, first, last, BinarySearch(cmp, first, last))
<1>1. PICK Step :
        /\ BinarySearch(cmp, first, last) = Step[<<first, last>>]
        /\ \A range \in Ranges(first, last) : Step[range] = SearchTurn(cmp, range, Step)
  BY SearchIsDefined
<1> DEFINE L == (last - first) + 1
           Good(range) == range[1] <= range[2] + 1 => Finds(cmp, range[1], range[2], Step[range])
           T == {n \in 0 .. L : \A range \in Ranges(first, last) : RangeSize(range) <= n => Good(range)}
<1>2. L \in Nat
  OBVIOUS
<1>3. \A range \in Ranges(first, last) : range[1] \in Int /\ range[2] \in Int
                                         /\ first <= range[1] /\ range[2] <= last
  BY DEF Ranges
<1>4. ASSUME NEW range \in Ranges(first, last), range[1] > range[2] PROVE Good(range)
  <2> DEFINE from == range[1]
             to == range[2]
  <2>1. Step[range] = [found |-> FALSE, next |-> from, prev |-> to]
    BY <1>1, <1>4 DEF SearchTurn
  <2>2. from \in Int /\ to \in Int
    BY <1>3
  <2> SUFFICES ASSUME from <= to + 1 PROVE Finds(cmp, from, to, Step[range])
    OBVIOUS
  <2>3. from = to + 1
    BY <1>4, <2>2
  <2> HIDE DEF from, to
  <2>4. QED
    BY <2>1, <2>2, <2>3 DEF Finds
<1>5. 0 \in T
  <2> SUFFICES ASSUME NEW range \in Ranges(first, last), RangeSize(range) <= 0 PROVE Good(range)
    BY <1>2
  <2>1. range[1] > range[2]
    BY <1>3 DEF RangeSize
  <2> HIDE DEF Good
  <2>2. QED
    BY <1>4, <2>1
<1>6. ASSUME NEW n \in 1 .. L, n - 1 \in T PROVE n \in T
  <2> SUFFICES ASSUME NEW range \in Ranges(first, last), RangeSize(range) <= n PROVE Good(range)
    BY <1>2
  <2> DEFINE from == range[1]
             to == range[2]
             mid == (from + to) \div 2
  <2>1. CASE from > to
    <3> HIDE DEF Good
    <3> QED
      BY <1>4, <2>1
  <2>2. CASE ~ (from > to)
    <3>1. from \in Int /\ to \in Int /\ from <= to /\ first <= from /\ to <= last
      BY <1>3, <2>2
    <3>2. /\ mid \in from .. to
          /\ <<mid + 1, to>> \in Ranges(first, last) /\ <<from, mid - 1>> \in Ranges(first, last)
          /\ RangeSize(<<mid + 1, to>>) < RangeSize(range)
          /\ RangeSize(<<from, mid - 1>>) < RangeSize(range)
      BY <3>1, Halves
    <3>3. Step[range] = CASE cmp[mid] > 0 -> Step[<<mid + 1, to>>]
                          [] cmp[mid] < 0 -> Step[<<from, mid - 1>>]
                          [] OTHER        -> [found |-> TRUE, next |-> mid, prev |-> mid]
      BY <1>1, <2>2 DEF SearchTurn
    <3> HIDE DEF mid
    <3>4. \A r \in Ranges(first, last) : RangeSize(r) \in Int
      BY <1>3 DEF RangeSize
    <3>5. \A r \in Ranges(first, last) : RangeSize(r) < RangeSize(range) => Good(r)
      <4> TAKE r \in Ranges(first, last)
      <4> HAVE RangeSize(r) < RangeSize(range)
      <4>1. RangeSize(r) <= n - 1
        BY <3>4
      <4> HIDE DEF Good
      <4>2. QED
        BY <1>6, <4>1
    <3> SUFFICES Finds(cmp, from, to, Step[range])
      OBVIOUS
    <3>6. mid \in first .. last /\ cmp[mid] \in Int /\ mid \in Int
      BY <3>1, <3>2 DEF Falling
    <3> DEFINE low == <<from, mid - 1>>
               high == <<mid + 1, to>>
    <3>7. /\ high[1] = mid + 1 /\ high[2] = to /\ low[1] = from /\ low[2] = mid - 1
          /\ high[1] <= high[2] + 1 /\ low[1] <= low[2] + 1
      BY <3>1, <3>2, <3>6
    <3>8. Finds(cmp, mid + 1, to, Step[high]) /\ Finds(cmp, from, mid - 1, Step[low])
      <4> HIDE DEF from, to
      <4> QED
        BY <3>2, <3>5, <3>7
    <3> HIDE DEF from, to, low, high
    <3>9. CASE cmp[mid] > 0
      <4>1. Step[range] = Step[high]
        BY <3>3, <3>6, <3>9 DEF high
      <4>2. \A k \in from .. mid : cmp[k] > 0
        BY <3>1, <3>6, <3>9 DEF Falling
      <4>3. \A k \in from .. to : k \in from .. mid \/ k \in (mid + 1) .. to
        BY <3>1, <3>6
      <4> DEFINE r == Step[high]
      <4>4. Finds(cmp, mid + 1, to, r)
        BY <3>8
      <4> HIDE DEF r
      <4>5. Finds(cmp, from, to, r)
        BY <3>1, <3>2, <3>6, <4>2, <4>3, <4>4 DEF Finds
      <4>6. QED
        BY <4>1, <4>5 DEF r
    <3>10. CASE cmp[mid] < 0
      <4>1. Step[range] = Step[low]
        BY <3>3, <3>6, <3>10 DEF low
      <4>2. \A k \in mid .. to : cmp[k] < 0
        BY <3>1, <3>6, <3>10 DEF Falling
      <4>3. \A k \in from .. to : k \in from .. (mid - 1) \/ k \in mid .. to
        BY <3>1, <3>6
      <4> DEFINE r == Step[low]
      <4>4. Finds(cmp, from, mid - 1, r)
        BY <3>8
      <4> HIDE DEF r
      <4>5. Finds(cmp, from, to, r)
        BY <3>1, <3>2, <3>6, <4>2, <4>3, <4>4 DEF Finds
      <4>6. QED
        BY <4>1, <4>5 DEF r
    <3>11. CASE ~ (cmp[mid] > 0) /\ ~ (cmp[mid] < 0)
      <4>1. Step[range] = [found |-> TRUE, next |-> mid, prev |-> mid]
        BY <3>3, <3>11
      <4>2. cmp[mid] = 0
        BY <3>6, <3>11
      <4>3. QED
        BY <3>2, <4>1, <4>2 DEF Finds
    <3>12. QED
      BY <3>9, <3>10, <3>11
  <2>3. QED
    BY <2>1, <2>2
<1>7. \A n \in 0 .. L : n \in T
  <2> HIDE DEF T, L
  <2> QED
    BY <1>2, <1>5, <1>6, CountingUp
<1>8. /\ <<first, last>> \in Ranges(first, last) /\ RangeSize(<<first, last>>) <= L
      /\ <<first, last>>[1] = first /\ <<first, last>>[2] = last
  BY DEF Ranges, RangeSize
<1>9. Good(<<first, last>>)
  <2>1. L \in T
    BY <1>2, <1>7
  <2> HIDE DEF Good, L
  <2>2. QED
    BY <1>8, <2>1
<1>10. QED
  BY <1>1, <1>8, <1>9

------------------------------------------------------------------------------
(* Pages. *)

Pages(ws) == 0 .. LastPage(ws)

(* Every place lies on one page, and there in one slot that is in use. *)
LEMMA PlaceOnPage ==
  ASSUME NEW k \in Nat
  PROVE  /\ PageOf(k) \in Nat /\ Slot(k) \in 0 .. (EntrPerPage - 1)
         /\ k = PageOf(k) * EntrPerPage + Slot(k)
  BY EntrPerPageAssumption, DivMod DEF PageOf, Slot

LEMMA PageOrder ==
  ASSUME NEW j \in Nat, NEW k \in Nat, j <= k
  PROVE  PageOf(j) <= PageOf(k)
<1>1. /\ PageOf(j) \in Nat /\ Slot(j) \in 0 .. (EntrPerPage - 1)
      /\ j = PageOf(j) * EntrPerPage + Slot(j)
  BY PlaceOnPage
<1>2. /\ PageOf(k) \in Nat /\ Slot(k) \in 0 .. (EntrPerPage - 1)
      /\ k = PageOf(k) * EntrPerPage + Slot(k)
  BY PlaceOnPage
<1> SUFFICES ASSUME PageOf(k) < PageOf(j) PROVE FALSE
  BY <1>1, <1>2
<1>3. (PageOf(k) + 1) * EntrPerPage <= PageOf(j) * EntrPerPage
  BY <1>1, <1>2, EntrPerPageAssumption, TimesMonotonic
<1>4. (PageOf(k) + 1) * EntrPerPage = PageOf(k) * EntrPerPage + EntrPerPage
      /\ PageOf(j) * EntrPerPage \in Nat /\ PageOf(k) * EntrPerPage \in Nat
  BY <1>1, <1>2, EntrPerPageAssumption
<1>5. QED
  BY <1>1, <1>2, <1>3, <1>4, EntrPerPageAssumption

(* A page has as many entries as there are words before the next page or
   the end.                                                               *)
LEMMA PageEnds ==
  ASSUME NEW ws, Listed(ws), NEW p \in Pages(ws)
  PROVE  /\ p \in Nat /\ LastPage(ws) \in Nat /\ p * EntrPerPage \in Places(ws)
         /\ Nentr(ws, p) \in 1 .. EntrPerPage
         /\ p = LastPage(ws) => p * EntrPerPage + Nentr(ws, p) = Len(ws)
         /\ p # LastPage(ws) => /\ Nentr(ws, p) = EntrPerPage
                                /\ p * EntrPerPage + EntrPerPage = (p + 1) * EntrPerPage
                                /\ (p + 1) * EntrPerPage \in Places(ws)
<1> DEFINE E == EntrPerPage
           N == Len(ws)
           lp == LastPage(ws)
           sl == Slot(N - 1)
           lE == lp * E
           pE == p * E
<1>1. N \in Nat \ {0} /\ E \in Nat \ {0}
  BY EntrPerPageAssumption DEF Listed
<1>2. lp \in Nat /\ sl \in 0 .. (E - 1) /\ N - 1 = lE + sl
  <2>1. N - 1 \in Nat
    BY <1>1
  <2>2. QED
    BY <2>1, PlaceOnPage DEF LastPage
<1>3. p \in Nat /\ p <= lp
  BY <1>2 DEF Pages
<1>4. lE \in Nat /\ pE \in Nat /\ pE <= lE
  BY <1>1, <1>2, <1>3, TimesMonotonic
<1>5. p # lp => (p + 1) * E = pE + E /\ (p + 1) * E <= lE /\ (p + 1) * E \in Nat
  <2> SUFFICES ASSUME p # lp PROVE (p + 1) * E = pE + E /\ (p + 1) * E <= lE /\ (p + 1) * E \in Nat
    OBVIOUS
  <2>1. p + 1 \in Nat /\ p + 1 <= lp
    BY <1>2, <1>3
  <2>2. (p + 1) * E <= lE
    BY <1>1, <1>2, <2>1, TimesMonotonic
  <2>3. (p + 1) * E = pE + E
    BY <1>1, <1>3
  <2>4. QED
    BY <1>1, <1>4, <2>2, <2>3
<1>6. IF sl + 1 = E THEN Slot(N) = 0 ELSE Slot(N) = sl + 1
  <2>1. CASE sl + 1 = E
    <3>1. (lp + 1) * E = lE + E
      BY <1>1, <1>2
    <3>2. N = (lp + 1) * E + 0
      BY <1>1, <1>2, <1>4, <2>1, <3>1
    <3>3. lp + 1 \in Nat /\ 0 \in 0 .. (E - 1)
      BY <1>1, <1>2
    <3>4. N % E = 0
      BY <1>1, <3>2, <3>3, DivModUnique
    <3>5. QED
      BY <2>1, <3>4 DEF Slot
  <2>2. CASE sl + 1 # E
    <3>1. N = lE + (sl + 1) /\ sl + 1 \in 0 .. (E - 1)
      BY <1>1, <1>2, <1>4, <2>2
    <3>2. N % E = sl + 1
      <4> DEFINE r == sl + 1
      <4>1. N = lp * E + r /\ r \in 0 .. (E - 1)
        BY <3>1
      <4> HIDE DEF r, sl, N, E
      <4>2. N % E = r
        BY <1>1, <1>2, <4>1, DivModUnique
      <4>3. QED
        BY <4>2 DEF r
    <3>3. QED
      BY <2>2, <3>2 DEF Slot
  <2>3. QED
    BY <2>1, <2>2
<1>7. Nentr(ws, p) = IF p = lp THEN sl + 1 ELSE E
  BY <1>2, <1>6 DEF Nentr
<1> HIDE DEF E, N, lp, sl, lE, pE
<1>8. /\ pE \in 0 .. (N - 1)
      /\ (IF p = lp THEN sl + 1 ELSE E) \in 1 .. E
      /\ p = lp => pE + (sl + 1) = N
      /\ p # lp => pE + E = (p + 1) * E /\ (p + 1) * E \in 0 .. (N - 1)
  <2>1. p = lp => pE = lE
    BY DEF pE, lE
  <2>2. QED
    BY <1>1, <1>2, <1>3, <1>4, <1>5, <2>1
<1>9. QED
  BY <1>2, <1>3, <1>7, <1>8 DEF E, N, lp, pE, Places

(* What is in a slot of a page that is in use. *)
LEMMA OnPage ==
  ASSUME NEW ws, Listed(ws), NEW p \in Pages(ws)
  PROVE  /\ \A s \in 0 .. (EntrPerPage - 1) : Entries(ws, p)[s] \in Text
         /\ DOMAIN Entries(ws, p) = 0 .. (EntrPerPage - 1)
         /\ \A s \in 0 .. (Nentr(ws, p) - 1) :
              /\ p * EntrPerPage + s \in Places(ws)
              /\ PageOf(p * EntrPerPage + s) = p
              /\ Entries(ws, p)[s] = KeyAt(ws, p * EntrPerPage + s)
<1>1. /\ p \in Nat /\ LastPage(ws) \in Nat /\ p * EntrPerPage \in Places(ws)
      /\ Nentr(ws, p) \in 1 .. EntrPerPage
      /\ p = LastPage(ws) => p * EntrPerPage + Nentr(ws, p) = Len(ws)
      /\ p # LastPage(ws) => /\ Nentr(ws, p) = EntrPerPage
                             /\ p * EntrPerPage + EntrPerPage = (p + 1) * EntrPerPage
                             /\ (p + 1) * EntrPerPage \in Places(ws)
  BY PageEnds
<1>2. EntrPerPage \in Nat \ {0} /\ Len(ws) \in Nat \ {0}
  BY EntrPerPageAssumption DEF Listed
<1>3. ASSUME NEW s \in 0 .. (Nentr(ws, p) - 1)
      PROVE  p * EntrPerPage + s \in Places(ws) /\ PageOf(p * EntrPerPage + s) = p
             /\ KeyAt(ws, p * EntrPerPage + s) \in Word /\ s \in 0 .. (EntrPerPage - 1)
             /\ s < Nentr(ws, p)
  <2>1. s \in 0 .. (EntrPerPage - 1) /\ s < Nentr(ws, p)
    BY <1>1, <1>2
  <2>2. p * EntrPerPage + s \in Places(ws)
    <3> DEFINE a == p * EntrPerPage
    <3>1. a \in Places(ws) /\ (p = LastPage(ws) => a + Nentr(ws, p) = Len(ws))
          /\ (p # LastPage(ws) => Nentr(ws, p) = EntrPerPage /\ a + EntrPerPage \in Places(ws))
      BY <1>1
    <3> HIDE DEF a
    <3>2. a + s \in Places(ws)
      BY <1>1, <1>2, <3>1 DEF Places
    <3>3. QED
      BY <3>2 DEF a
  <2>3. PageOf(p * EntrPerPage + s) = p
    BY <1>1, <1>2, <2>1, DivModUnique DEF PageOf
  <2>4. QED
    BY <2>1, <2>2, <2>3 DEF Listed
<1>4. ASSUME NEW s \in 0 .. (EntrPerPage - 1) PROVE Entries(ws, p)[s] \in Text
  <2>1. CASE s < Nentr(ws, p)
    <3>1. s \in 0 .. (Nentr(ws, p) - 1)
      BY <1>1, <1>2, <2>1
    <3>2. Entries(ws, p)[s] = KeyAt(ws, p * EntrPerPage + s)
      BY <2>1 DEF Entries
    <3>3. QED
      BY <1>3, <3>1, <3>2 DEF Text
  <2>2. CASE ~ (s < Nentr(ws, p))
    BY <2>2 DEF Entries, Text
  <2>3. QED
    BY <2>1, <2>2
<1>5. QED
  BY <1>3, <1>4 DEF Entries

LEMMA PlaceOnItsPage ==
  ASSUME NEW ws, Listed(ws), NEW k \in Places(ws)
  PROVE  /\ k \in Nat /\ PageOf(k) \in Pages(ws) /\ Slot(k) \in 0 .. (Nentr(ws, PageOf(k)) - 1)
         /\ Slot(k) \in 0 .. (EntrPerPage - 1)
         /\ Entries(ws, PageOf(k))[Slot(k)] = KeyAt(ws, k)
<1> DEFINE p == PageOf(k)
<1>1. Len(ws) \in Nat \ {0} /\ EntrPerPage \in Nat \ {0}
  BY EntrPerPageAssumption DEF Listed
<1>2. k \in Nat /\ k <= Len(ws) - 1 /\ Len(ws) - 1 \in Nat
  BY <1>1 DEF Places
<1>3. p \in Nat /\ Slot(k) \in 0 .. (EntrPerPage - 1) /\ k = p * EntrPerPage + Slot(k)
  BY <1>2, PlaceOnPage
<1>4. p \in Pages(ws)
  <2>1. PageOf(k) <= LastPage(ws) /\ LastPage(ws) \in Nat
    BY <1>2, PageOrder, PlaceOnPage DEF LastPage
  <2>2. QED
    BY <1>3, <2>1 DEF Pages
<1> HIDE DEF p
<1>5. /\ Nentr(ws, p) \in 1 .. EntrPerPage
      /\ p = LastPage(ws) => p * EntrPerPage + Nentr(ws, p) = Len(ws)
      /\ p # LastPage(ws) => Nentr(ws, p) = EntrPerPage
  BY <1>4, PageEnds
<1>6. Slot(k) < Nentr(ws, p)
  <2>1. p * EntrPerPage \in Nat
    BY <1>1, <1>3
  <2>2. QED
    BY <1>1, <1>2, <1>3, <1>5, <2>1
<1>7. Slot(k) \in 0 .. (Nentr(ws, p) - 1)
  BY <1>1, <1>3, <1>5, <1>6
<1>8. Entries(ws, p)[Slot(k)] = KeyAt(ws, p * EntrPerPage + Slot(k))
  BY <1>4, <1>7, OnPage
<1>9. QED
  BY <1>2, <1>3, <1>4, <1>7, <1>8 DEF p

------------------------------------------------------------------------------
(* Walks: loops that, at each state, end with a result or go on to another. *)

Walks(f, D, ends, next, result) ==
  \A x \in D : f[x] = IF ends[x] THEN result[x] ELSE f[next[x]]

IsWalk(D, L, size, ends, next) ==
  /\ L \in Nat /\ size \in [D -> 0 .. L]
  /\ \A x \in D : ~ ends[x] => next[x] \in D /\ size[next[x]] < size[x]

LEMMA WalkIsDefined ==
  ASSUME NEW D, NEW L, NEW size, NEW ends, NEW next, NEW result, IsWalk(D, L, size, ends, next)
  PROVE  \E f : DOMAIN f = D /\ f = [x \in D |-> f[x]] /\ Walks(f, D, ends, next, result)
<1> DEFINE V == {result[x] : x \in D} \cup {0}
           turn == [x \in D |-> [f \in [D -> V] |-> IF ends[x] THEN result[x] ELSE f[next[x]]]]
<1>1. V # {} /\ L \in Nat /\ size \in [D -> 0 .. L]
  BY DEF IsWalk
<1>2. turn \in [D -> [[D -> V] -> V]]
  <2> SUFFICES ASSUME NEW x \in D, NEW f \in [D -> V]
               PROVE  (IF ends[x] THEN result[x] ELSE f[next[x]]) \in V
    OBVIOUS
  <2>1. result[x] \in V
    OBVIOUS
  <2> HIDE DEF V
  <2>2. QED
    BY <2>1 DEF IsWalk
<1>3. \A x \in D : \A f, g \in [D -> V] :
        (\A y \in D : size[y] < size[x] => f[y] = g[y]) => turn[x][f] = turn[x][g]
  BY DEF IsWalk
<1>4. \A x \in D : \A f \in [D -> V] : turn[x][f] = IF ends[x] THEN result[x] ELSE f[next[x]]
  OBVIOUS
<1> HIDE DEF V, turn
<1>5. IsLoop(D, V, L, size, turn)
  BY <1>1, <1>2, <1>3 DEF IsLoop
<1>6. PICK f \in [D -> V] : \A x \in D : f[x] = turn[x][f]
  BY <1>5, LoopIsDefined
<1>7. QED
  BY <1>4, <1>6 DEF Walks

(* A walk that begins among some states, and from these only goes to them,
   ends among them.                                                       *)
LEMMA WalkEndsWithin ==
  ASSUME NEW D, NEW L, NEW size, NEW ends, NEW next, NEW result, IsWalk(D, L, size, ends, next),
         NEW f, Walks(f, D, ends, next, result),
         NEW I \in SUBSET D, \A x \in I : ~ ends[x] => next[x] \in I
  PROVE  \A x \in I : \E y \in I : ends[y] /\ f[x] = result[y]
<1> DEFINE Good(x) == \E y \in I : ends[y] /\ f[x] = result[y]
           T == {n \in 0 .. L : \A x \in I : size[x] <= n => Good(x)}
<1>1. L \in Nat /\ \A x \in D : size[x] \in 0 .. L
  BY DEF IsWalk
<1>2. ASSUME NEW x \in I, ends[x] PROVE Good(x)
  BY <1>2 DEF Walks
<1>3. ASSUME NEW x \in I, ~ ends[x], Good(next[x]) PROVE Good(x)
  <2>1. f[x] = f[next[x]]
    BY <1>3 DEF Walks
  <2>2. QED
    BY <1>3, <2>1
<1>4. \A x \in I : ~ ends[x] => next[x] \in I /\ size[next[x]] < size[x] /\ size[next[x]] \in 0 .. L
  BY <1>1 DEF IsWalk
<1> HIDE DEF Good
<1>5. 0 \in T
  <2>1. \A x \in I : size[x] <= 0 => ends[x]
    BY <1>1, <1>4
  <2>2. QED
    BY <1>1, <1>2, <2>1
<1>6. ASSUME NEW k \in 1 .. L, k - 1 \in T PROVE k \in T
  <2> SUFFICES ASSUME NEW x \in I, size[x] <= k PROVE Good(x)
    BY <1>1
  <2>1. CASE ends[x]
    BY <1>2, <2>1
  <2>2. CASE ~ ends[x]
    <3>1. next[x] \in I /\ size[next[x]] <= k - 1
      BY <1>1, <1>4, <2>2
    <3>2. Good(next[x])
      BY <1>6, <3>1
    <3>3. QED
      BY <1>3, <2>2, <3>2
  <2>3. QED
    BY <2>1, <2>2
<1>7. L \in T
  <2> HIDE DEF T
  <2>1. \A k \in 0 .. L : k \in T
    BY <1>1, <1>5, <1>6, CountingUp
  <2>2. QED
    BY <1>1, <2>1
<1>8. QED
  BY <1>1, <1>7 DEF Good

(* The words before the n-th come closer to w as they go on. *)
ComesCloser(ws, w, n) ==
  \A j, k \in 0 .. (n - 1) :
    j <= k => PrefixMatch[w][KeyAt(ws, j)] <= PrefixMatch[w][KeyAt(ws, k)]

(* If the words before the one sought do so, the walk back in memory ends at
   a closest word.                                                        *)
LEMMA SuggestInMemoryIs ==
  ASSUME NEW ws, Sorted(ws), NEW w \in Word, NEW start \in Places(ws)
  PROVE  /\ SuggestInMemory(ws, w, start) \in 0 .. start
         /\ ComesCloser(ws, w, start) =>
              \A j \in 0 .. start : PrefixMatch[w][KeyAt(ws, j)]
                                     <= PrefixMatch[w][KeyAt(ws, SuggestInMemory(ws, w, start))]
<1> DEFINE m(k) == PrefixMatch[w][KeyAt(ws, k)]
           D == (0 .. start) \X (0 .. Len(w))
           size == [at \in D |-> at[1]]
           ends == [at \in D |-> at[1] = 0 \/ m(at[1] - 1) = 0 \/ m(at[1] - 1) < at[2]]
           next == [at \in D |-> <<at[1] - 1, m(at[1] - 1)>>]
           result == [at \in D |-> at[1]]
           I == {at \in D : at[2] = m(at[1]) /\ \A j \in at[1] .. start : m(j) <= at[2]}
<1>1. start \in Nat /\ \A k \in 0 .. start : k \in Places(ws) /\ KeyAt(ws, k) \in Text
  BY DEF Sorted, Places, Text
<1>2. \A k \in 0 .. start : m(k) \in 0 .. Len(w)
  BY <1>1, PrefixMatchIs DEF Text
<1>3. Len(w) \in Nat
  BY WordAssumption
<1>4. ASSUME ComesCloser(ws, w, start)
      PROVE  \A j, k \in 0 .. (start - 1) : j <= k => m(j) <= m(k)
  BY <1>4 DEF ComesCloser
<1> HIDE DEF m
<1>5. \A at \in D : at[1] \in 0 .. start /\ at[2] \in 0 .. Len(w)
  OBVIOUS
<1>6. ASSUME NEW at \in D, ~ ends[at]
      PROVE  /\ at[1] - 1 \in 0 .. start /\ m(at[1] - 1) \in 0 .. Len(w)
             /\ next[at] = <<at[1] - 1, m(at[1] - 1)>> /\ next[at] \in D
             /\ m(at[1] - 1) >= at[2]
  <2>1. at[1] # 0 /\ ~ (m(at[1] - 1) < at[2])
    BY <1>6
  <2>2. at[1] - 1 \in 0 .. start /\ m(at[1] - 1) \in 0 .. Len(w)
    BY <1>1, <1>2, <1>5, <2>1
  <2>3. QED
    BY <1>3, <1>5, <2>1, <2>2
<1>7. IsWalk(D, start, size, ends, next)
  <2>1. size \in [D -> 0 .. start]
    BY <1>5
  <2>2. ASSUME NEW at \in D, ~ ends[at] PROVE next[at] \in D /\ size[next[at]] < size[at]
    BY <1>1, <1>5, <1>6, <2>2
  <2>3. QED
    BY <1>1, <2>1, <2>2 DEF IsWalk
<1> DEFINE Turn(at, g) == IF at[1] = 0 \/ m(at[1] - 1) = 0 \/ m(at[1] - 1) < at[2] THEN at[1]
                          ELSE g[<<at[1] - 1, m(at[1] - 1)>>]
           Back == CHOOSE g : g = [at \in D |-> Turn(at, g)]
<1>8. Back = [at \in D |-> Turn(at, Back)]
  <2>1. PICK g : DOMAIN g = D /\ g = [at \in D |-> g[at]] /\ Walks(g, D, ends, next, result)
    <3> HIDE DEF D, size, ends, next, result
    <3> QED
      BY <1>7, WalkIsDefined
  <2>2. \A at \in D : g[at] = Turn(at, g)
    BY <2>1 DEF Walks
  <2>3. g = [at \in D |-> Turn(at, g)]
    <3> HIDE DEF D, Turn
    <3> QED
      BY <2>1, <2>2
  <2> HIDE DEF D, Turn
  <2>4. QED
    BY <2>3
<1>9. SuggestInMemory(ws, w, start) = Back[<<start, m(start)>>]
  BY DEF SuggestInMemory, m
<1>10. Walks(Back, D, ends, next, result)
  <2> HIDE DEF Back
  <2> QED
    BY <1>8 DEF Walks
<1> HIDE DEF Back
<1>11. <<start, m(start)>> \in I
  BY <1>1, <1>2
<1>12. ASSUME NEW at \in I, ~ ends[at] PROVE next[at] \in I
  <2> DEFINE i1 == at[1]
  <2>1. /\ i1 - 1 \in 0 .. start /\ m(i1 - 1) \in 0 .. Len(w)
        /\ next[at] = <<i1 - 1, m(i1 - 1)>> /\ next[at] \in D
        /\ m(i1 - 1) >= at[2]
    BY <1>6, <1>12
  <2>2. at[2] \in Int /\ \A j \in i1 .. start : m(j) <= at[2] /\ m(j) \in Int
    BY <1>2, <1>5
  <2>3. \A j \in (i1 - 1) .. start : m(j) <= m(i1 - 1)
    <3> TAKE j \in (i1 - 1) .. start
    <3>1. CASE j = i1 - 1
      BY <2>1, <3>1
    <3>2. CASE j # i1 - 1
      BY <2>1, <2>2, <3>2
    <3>3. QED
      BY <3>1, <3>2
  <2>4. next[at][1] = i1 - 1 /\ next[at][2] = m(i1 - 1)
    BY <2>1
  <2> HIDE DEF next, i1, D
  <2>5. QED
    BY <2>1, <2>3, <2>4
<1>13. PICK at \in I : ends[at] /\ Back[<<start, m(start)>>] = result[at]
  <2>1. I \in SUBSET D /\ \A x \in I : ~ ends[x] => next[x] \in I
    BY <1>12
  <2> HIDE DEF D, size, ends, next, result, I
  <2>2. \A x \in I : \E y \in I : ends[y] /\ Back[x] = result[y]
    BY <1>7, <1>10, <2>1, WalkEndsWithin
  <2>3. QED
    BY <1>11, <2>2
<1> DEFINE r == at[1]
<1>14. /\ r \in 0 .. start /\ at[2] = m(r) /\ Back[<<start, m(start)>>] = r
       /\ \A j \in r .. start : m(j) <= m(r)
       /\ r = 0 \/ m(r - 1) = 0 \/ m(r - 1) < m(r)
  BY <1>13
<1> HIDE DEF r, I, ends, result, D
<1>15. ASSUME ComesCloser(ws, w, start), NEW j \in 0 .. start PROVE m(j) <= m(r)
  <2>1. CASE j >= r
    BY <1>1, <1>14, <2>1
  <2>2. CASE j < r
    <3>1. j \in 0 .. (start - 1) /\ r - 1 \in 0 .. (start - 1) /\ j <= r - 1
      BY <1>1, <1>14, <2>2
    <3>2. m(j) <= m(r - 1)
      BY <1>4, <1>15, <3>1
    <3>3. m(j) \in Nat /\ m(r - 1) \in Nat /\ m(r) \in Nat
      BY <1>1, <1>2, <1>3, <1>14, <3>1
    <3>4. m(r - 1) <= m(r)
      BY <1>1, <1>14, <2>2, <3>3
    <3>5. QED
      BY <3>2, <3>3, <3>4
  <2>3. QED
    BY <1>1, <1>14, <2>1, <2>2
<1>16. SuggestInMemory(ws, w, start) = r
  BY <1>9, <1>14
<1>17. QED
  BY <1>14, <1>15, <1>16 DEF m

(* The walk back over pages ends at a word of the index, and leaves a page
   of it in memory; which word, depends on the page it begins with.       *)
LEMMA SuggestBackIs ==
  ASSUME NEW ws, Sorted(ws), NEW w \in Word, NEW start \in Places(ws), NEW p \in Pages(ws)
  PROVE  /\ SuggestBack(ws, w, start, p).suggest \in 0 .. start
         /\ SuggestBack(ws, w, start, p).page \in Pages(ws)
<1> DEFINE D == (0 .. start) \X (0 .. Len(w)) \X Pages(ws)
           loaded(at) == IF Slot(at[1]) = 0 THEN PageOf(at[1] - 1) ELSE at[3]
           back(at) == PrefixMatch[w][Entries(ws, loaded(at))[Slot(at[1] - 1)]]
           size == [at \in D |-> at[1]]
           ends == [at \in D |-> at[1] = 0 \/ back(at) = 0 \/ back(at) < at[2]]
           next == [at \in D |-> <<at[1] - 1, back(at), loaded(at)>>]
           result == [at \in D |-> [suggest |-> at[1],
                                    page |-> IF at[1] = 0 THEN at[3] ELSE loaded(at)]]
<1>1. start \in Nat /\ (\A k \in 0 .. start : k \in Places(ws)) /\ Len(w) \in Nat
  BY WordAssumption DEF Sorted, Places
<1>2. \A at \in D : at[1] \in 0 .. start /\ at[2] \in 0 .. Len(w) /\ at[3] \in Pages(ws)
  OBVIOUS
<1>3. ASSUME NEW at \in D, at[1] # 0 PROVE loaded(at) \in Pages(ws) /\ back(at) \in 0 .. Len(w)
  <2>1. at[1] - 1 \in Places(ws) /\ at[1] \in Places(ws)
    BY <1>1, <1>2, <1>3
  <2>2. PageOf(at[1] - 1) \in Pages(ws) /\ Slot(at[1] - 1) \in 0 .. (EntrPerPage - 1)
    BY <2>1, PlaceOnItsPage, SortedIsListed
  <2>3. loaded(at) \in Pages(ws)
    BY <1>2, <2>2
  <2> HIDE DEF loaded
  <2>4. Entries(ws, loaded(at))[Slot(at[1] - 1)] \in Text
    BY <2>2, <2>3, OnPage, SortedIsListed
  <2>5. QED
    BY <2>3, <2>4, PrefixMatchIs DEF Text
<1> HIDE DEF loaded, back
<1>4. ASSUME NEW at \in D, ~ ends[at]
      PROVE  next[at] \in D /\ next[at][1] = at[1] - 1
  <2>1. at[1] # 0
    BY <1>4
  <2>2. at[1] - 1 \in 0 .. start
    BY <1>1, <1>2, <2>1
  <2>3. QED
    BY <1>3, <2>1, <2>2
<1>5. IsWalk(D, start, size, ends, next)
  <2>1. size \in [D -> 0 .. start]
    BY <1>2
  <2>2. ASSUME NEW at \in D, ~ ends[at] PROVE next[at] \in D /\ size[next[at]] < size[at]
    <3>1. next[at] \in D /\ next[at][1] = at[1] - 1
      BY <1>4, <2>2
    <3>2. at[1] - 1 < at[1]
      BY <1>2
    <3> HIDE DEF D, next
    <3>3. QED
      BY <3>1, <3>2
  <2>3. QED
    BY <1>1, <2>1, <2>2 DEF IsWalk
<1> DEFINE Turn(at, g) == IF at[1] = 0 THEN [suggest |-> at[1], page |-> at[3]]
                          ELSE IF back(at) = 0 \/ back(at) < at[2]
                          THEN [suggest |-> at[1], page |-> loaded(at)]
                          ELSE g[<<at[1] - 1, back(at), loaded(at)>>]
           Back == CHOOSE g : g = [at \in D |-> Turn(at, g)]
<1>6. Back = [at \in D |-> Turn(at, Back)]
  <2>1. PICK g : DOMAIN g = D /\ g = [at \in D |-> g[at]] /\ Walks(g, D, ends, next, result)
    <3> HIDE DEF D, size, ends, next, result
    <3> QED
      BY <1>5, WalkIsDefined
  <2>2. \A at \in D : g[at] = Turn(at, g)
    BY <2>1 DEF Walks
  <2>3. g = [at \in D |-> Turn(at, g)]
    <3> HIDE DEF D, Turn
    <3> QED
      BY <2>1, <2>2
  <2> HIDE DEF D, Turn
  <2>4. QED
    BY <2>3
<1> DEFINE best == PrefixMatch[w][Entries(ws, p)[Slot(start)]]
<1>7. SuggestBack(ws, w, start, p) = Back[<<start, best, p>>]
  BY DEF SuggestBack, back, loaded, Pages
<1>8. Walks(Back, D, ends, next, result)
  <2> HIDE DEF Back
  <2> QED
    BY <1>6 DEF Walks
<1> HIDE DEF Back
<1>9. <<start, best, p>> \in D
  <2>1. Slot(start) \in 0 .. (EntrPerPage - 1)
    BY PlaceOnItsPage, SortedIsListed
  <2>2. Entries(ws, p)[Slot(start)] \in Text
    BY <2>1, OnPage, SortedIsListed
  <2>3. best \in 0 .. Len(w)
    BY <2>2, PrefixMatchIs DEF Text
  <2> HIDE DEF best
  <2>4. QED
    BY <1>1, <2>3
<1>10. PICK at \in D : ends[at] /\ Back[<<start, best, p>>] = result[at]
  <2>1. D \in SUBSET D /\ \A x \in D : ~ ends[x] => next[x] \in D
    BY <1>4
  <2> HIDE DEF D, size, ends, next, result
  <2>2. \A x \in D : \E y \in D : ends[y] /\ Back[x] = result[y]
    BY <1>5, <1>8, <2>1, WalkEndsWithin
  <2>3. QED
    BY <1>9, <2>2
<1>11. result[at].suggest \in 0 .. start /\ result[at].page \in Pages(ws)
  BY <1>2, <1>3
<1>12. QED
  BY <1>7, <1>10, <1>11

(* GetWordPrev goes back over the copies of the word. *)
LEMMA GetWordPrevIs ==
  ASSUME NEW ws, Sorted(ws), NEW pos \in Places(ws)
  PROVE  LET r == GetWordPrev(ws, pos)
         IN  /\ r.found \in BOOLEAN /\ r.idx \in 0 .. pos
             /\ r.found => /\ r.idx < pos /\ KeyAt(ws, r.idx) # KeyAt(ws, pos)
                           /\ \A k \in (r.idx + 1) .. pos : KeyAt(ws, k) = KeyAt(ws, pos)
             /\ ~ r.found => \A k \in 0 .. pos : KeyAt(ws, k) = KeyAt(ws, pos)
<1> DEFINE D == 0 .. Len(ws)
           size == [j \in D |-> j]
           ends == [j \in D |-> j = 0 \/ KeyAt(ws, j - 1) # KeyAt(ws, pos)]
           next == [j \in D |-> j - 1]
           result == [j \in D |-> IF j = 0 THEN [found |-> FALSE, idx |-> 0]
                                           ELSE [found |-> TRUE, idx |-> j - 1]]
           I == {j \in 0 .. pos : \A k \in j .. pos : KeyAt(ws, k) = KeyAt(ws, pos)}
<1>1. Len(ws) \in Nat /\ pos \in Nat /\ pos \in D /\ pos # InvalidIndex /\ I \in SUBSET D
  BY DEF Sorted, Places, InvalidIndex
<1>2. IsWalk(D, Len(ws), size, ends, next)
  BY <1>1 DEF IsWalk
<1> DEFINE Turn(j, g) == IF j = 0 THEN [found |-> FALSE, idx |-> 0]
                         ELSE IF KeyAt(ws, j - 1) # KeyAt(ws, pos) THEN [found |-> TRUE, idx |-> j - 1]
                         ELSE g[j - 1]
           Back == CHOOSE g : g = [j \in D |-> Turn(j, g)]
<1>3. Back = [j \in D |-> Turn(j, Back)]
  <2>1. PICK g : DOMAIN g = D /\ g = [j \in D |-> g[j]] /\ Walks(g, D, ends, next, result)
    <3> HIDE DEF D, size, ends, next, result
    <3> QED
      BY <1>2, WalkIsDefined
  <2>2. \A j \in D : g[j] = Turn(j, g)
    BY <2>1 DEF Walks
  <2>3. g = [j \in D |-> Turn(j, g)]
    <3> HIDE DEF D, Turn
    <3> QED
      BY <2>1, <2>2
  <2> HIDE DEF D, Turn
  <2>4. QED
    BY <2>3
<1>4. GetWordPrev(ws, pos) = Back[pos]
  BY <1>1 DEF GetWordPrev
<1>5. Walks(Back, D, ends, next, result)
  <2> HIDE DEF Back
  <2> QED
    BY <1>3 DEF Walks
<1> HIDE DEF Back
<1>6. PICK j \in I : ends[j] /\ Back[pos] = result[j]
  <2>1. ASSUME NEW x \in I, ~ ends[x] PROVE next[x] \in I
    <3>1. x \in D /\ x \in 0 .. pos
      BY <1>1
    <3>2. ~ (x = 0 \/ KeyAt(ws, x - 1) # KeyAt(ws, pos)) /\ next[x] = x - 1
      BY <2>1, <3>1
    <3>3. x # 0 /\ KeyAt(ws, x - 1) = KeyAt(ws, pos) /\ x - 1 \in 0 .. pos /\ next[x] = x - 1
      BY <1>1, <3>1, <3>2
    <3>4. \A k \in (x - 1) .. pos : k = x - 1 \/ k \in x .. pos
      BY <1>1, <3>3
    <3>5. \A k \in (x - 1) .. pos : KeyAt(ws, k) = KeyAt(ws, pos)
      BY <3>3, <3>4
    <3>6. QED
      BY <3>3, <3>5
  <2>2. pos \in I
    BY <1>1
  <2>3. I \in SUBSET D /\ \A x \in I : ~ ends[x] => next[x] \in I
    BY <1>1, <2>1
  <2> HIDE DEF D, size, ends, next, result, I
  <2>4. \A x \in I : \E y \in I : ends[y] /\ Back[x] = result[y]
    BY <1>2, <1>5, <2>3, WalkEndsWithin
  <2>5. QED
    BY <2>2, <2>4
<1>7. j \in 0 .. pos /\ \A k \in j .. pos : KeyAt(ws, k) = KeyAt(ws, pos)
  OBVIOUS
<1>8. Back[pos] = IF j = 0 THEN [found |-> FALSE, idx |-> 0] ELSE [found |-> TRUE, idx |-> j - 1]
  BY <1>1, <1>6
<1>9. j # 0 => KeyAt(ws, j - 1) # KeyAt(ws, pos)
  BY <1>1, <1>6
<1>10. QED
  BY <1>1, <1>4, <1>7, <1>8, <1>9

(* GetWordNext goes on to the first word after the copies. *)
LEMMA GetWordNextIs ==
  ASSUME NEW ws, Sorted(ws), NEW pos \in Places(ws)
  PROVE  LET n == GetWordNext(ws, pos)
         IN  \/ /\ n = InvalidIndex
                /\ \A k \in Places(ws) : k >= pos => KeyAt(ws, k) = KeyAt(ws, pos)
             \/ /\ n \in Places(ws) /\ n > pos /\ n # InvalidIndex
                /\ KeyAt(ws, n) # KeyAt(ws, pos)
                /\ \A k \in pos .. (n - 1) : KeyAt(ws, k) = KeyAt(ws, pos)
<1> DEFINE last == Len(ws) - 1
           D == 0 .. last
           size == [j \in D |-> last - j]
           ends == [j \in D |-> j = last \/ KeyAt(ws, j + 1) # KeyAt(ws, pos)]
           next == [j \in D |-> j + 1]
           result == [j \in D |-> IF j = last THEN InvalidIndex ELSE j + 1]
           I == {j \in pos .. last : \A k \in pos .. j : KeyAt(ws, k) = KeyAt(ws, pos)}
<1>1. last \in Nat /\ pos \in Nat /\ pos \in D /\ I \in SUBSET D /\ Places(ws) = 0 .. last
  BY DEF Sorted, Places
<1>2. IsWalk(D, last, size, ends, next)
  <2> HIDE DEF last
  <2>1. size \in [D -> 0 .. last]
    BY <1>1
  <2>2. ASSUME NEW x \in D, ~ ends[x] PROVE next[x] \in D /\ size[next[x]] < size[x]
    <3>1. x \in 0 .. last /\ x # last
      BY <2>2
    <3>2. x + 1 \in D /\ next[x] = x + 1 /\ size[x + 1] = last - (x + 1) /\ size[x] = last - x
      BY <1>1, <3>1
    <3>3. QED
      BY <1>1, <3>1, <3>2
  <2>3. QED
    BY <1>1, <2>1, <2>2 DEF IsWalk
<1> DEFINE Turn(j, g) == IF j = last THEN InvalidIndex
                         ELSE IF KeyAt(ws, j + 1) # KeyAt(ws, pos) THEN j + 1 ELSE g[j + 1]
           On == CHOOSE g : g = [j \in D |-> Turn(j, g)]
<1>3. On = [j \in D |-> Turn(j, On)]
  <2>1. PICK g : DOMAIN g = D /\ g = [j \in D |-> g[j]] /\ Walks(g, D, ends, next, result)
    <3> HIDE DEF D, size, ends, next, result
    <3> QED
      BY <1>2, WalkIsDefined
  <2>2. \A j \in D : g[j] = Turn(j, g)
    BY <2>1 DEF Walks
  <2>3. g = [j \in D |-> Turn(j, g)]
    <3> HIDE DEF D, Turn
    <3> QED
      BY <2>1, <2>2
  <2> HIDE DEF D, Turn
  <2>4. QED
    BY <2>3
<1>4. GetWordNext(ws, pos) = On[pos]
  BY <1>1 DEF GetWordNext
<1>5. Walks(On, D, ends, next, result)
  <2> HIDE DEF On
  <2> QED
    BY <1>3 DEF Walks
<1> HIDE DEF On, last
<1>6. PICK j \in I : ends[j] /\ On[pos] = result[j]
  <2>1. ASSUME NEW x \in I, ~ ends[x] PROVE next[x] \in I
    <3>1. x \in D /\ x \in pos .. last
      BY <1>1
    <3>2. ~ (x = last \/ KeyAt(ws, x + 1) # KeyAt(ws, pos)) /\ next[x] = x + 1
      BY <2>1, <3>1
    <3>3. x # last /\ KeyAt(ws, x + 1) = KeyAt(ws, pos) /\ x + 1 \in pos .. last /\ next[x] = x + 1
      BY <1>1, <3>1, <3>2
    <3>4. \A k \in pos .. (x + 1) : k = x + 1 \/ k \in pos .. x
      BY <1>1, <3>3
    <3>5. \A k \in pos .. (x + 1) : KeyAt(ws, k) = KeyAt(ws, pos)
      BY <3>3, <3>4
    <3>6. QED
      BY <3>3, <3>5
  <2>2. pos \in I
    BY <1>1
  <2>3. I \in SUBSET D /\ \A x \in I : ~ ends[x] => next[x] \in I
    BY <1>1, <2>1
  <2> HIDE DEF D, size, ends, next, result, I
  <2>4. \A x \in I : \E y \in I : ends[y] /\ On[x] = result[y]
    BY <1>2, <1>5, <2>3, WalkEndsWithin
  <2>5. QED
    BY <2>2, <2>4
<1>7. j \in pos .. last /\ \A k \in pos .. j : KeyAt(ws, k) = KeyAt(ws, pos)
  OBVIOUS
<1>8. On[pos] = IF j = last THEN InvalidIndex ELSE j + 1
  BY <1>1, <1>6
<1>9. j # last => KeyAt(ws, j + 1) # KeyAt(ws, pos)
  BY <1>1, <1>6
<1>10. CASE j = last
  <2>1. \A k \in Places(ws) : k >= pos => k \in pos .. j
    BY <1>1, <1>10
  <2>2. QED
    BY <1>4, <1>7, <1>8, <1>10, <2>1
<1>11. CASE j # last
  <2>1. /\ GetWordNext(ws, pos) = j + 1 /\ j + 1 \in Places(ws) /\ j + 1 > pos
        /\ j + 1 # InvalidIndex /\ (j + 1) - 1 = j
    BY <1>1, <1>4, <1>7, <1>8, <1>11 DEF InvalidIndex
  <2>2. QED
    BY <1>7, <1>9, <1>11, <2>1
<1>12. QED
  BY <1>10, <1>11

(* GetOrigWordCount counts the copies around the word, from the first. *)
LEMMA GetOrigWordCountIs ==
  ASSUME NEW ws, Sorted(ws), NEW pos \in Places(ws)
  PROVE  \E lo \in 0 .. pos, hi \in pos .. (Len(ws) - 1) :
           /\ GetOrigWordCount(ws, pos) = [count |-> (hi - lo) + 1, idx |-> lo]
           /\ \A k \in lo .. hi : KeyAt(ws, k) = KeyAt(ws, pos)
           /\ lo > 0 => KeyAt(ws, lo - 1) # KeyAt(ws, pos)
           /\ hi < Len(ws) - 1 => KeyAt(ws, hi + 1) # KeyAt(ws, pos)
<1> DEFINE last == Len(ws) - 1
           D == 0 .. pos
           size == [j \in D |-> j]
           ends == [j \in D |-> ~ (j > 0 /\ KeyAt(ws, j - 1) = KeyAt(ws, pos))]
           next == [j \in D |-> j - 1]
           result == [j \in D |-> j]
           I == {j \in D : \A k \in j .. pos : KeyAt(ws, k) = KeyAt(ws, pos)}
           D2 == pos .. last
           size2 == [j \in D2 |-> last - j]
           ends2 == [j \in D2 |-> ~ (j < last /\ KeyAt(ws, j + 1) = KeyAt(ws, pos))]
           next2 == [j \in D2 |-> j + 1]
           I2 == {j \in D2 : \A k \in pos .. j : KeyAt(ws, k) = KeyAt(ws, pos)}
           result2 == [j \in D2 |-> j]
           Turn(j, g) == IF j > 0 /\ KeyAt(ws, j - 1) = KeyAt(ws, pos) THEN g[j - 1] ELSE j
           Down == CHOOSE g : g = [j \in D |-> Turn(j, g)]
           Turn2(j, g) == IF j < last /\ KeyAt(ws, j + 1) = KeyAt(ws, pos) THEN g[j + 1] ELSE j
           Up == CHOOSE g : g = [j \in D2 |-> Turn2(j, g)]
<1>1. last \in Nat /\ pos \in Nat /\ pos <= last
  BY DEF Sorted, Places
<1>2. GetOrigWordCount(ws, pos) = [count |-> (Up[pos] - Down[pos]) + 1, idx |-> Down[pos]]
  BY <1>1 DEF GetOrigWordCount
<1> HIDE DEF last
<1>3. IsWalk(D, pos, size, ends, next)
  <2>1. size \in [D -> 0 .. pos]
    BY <1>1
  <2>2. ASSUME NEW x \in D, ~ ends[x] PROVE next[x] \in D /\ size[next[x]] < size[x]
    <3>1. x \in 0 .. pos /\ x > 0
      BY <2>2
    <3>2. x - 1 \in D /\ next[x] = x - 1 /\ size[x - 1] = x - 1 /\ size[x] = x
      BY <1>1, <3>1
    <3>3. QED
      BY <1>1, <3>1, <3>2
  <2>3. QED
    BY <1>1, <2>1, <2>2 DEF IsWalk
<1>4. IsWalk(D2, last, size2, ends2, next2)
  <2>1. size2 \in [D2 -> 0 .. last]
    BY <1>1
  <2>2. ASSUME NEW x \in D2, ~ ends2[x] PROVE next2[x] \in D2 /\ size2[next2[x]] < size2[x]
    <3>1. x \in pos .. last /\ x < last
      BY <2>2
    <3>2. x + 1 \in D2 /\ next2[x] = x + 1 /\ size2[x + 1] = last - (x + 1) /\ size2[x] = last - x
      BY <1>1, <3>1
    <3>3. QED
      BY <1>1, <3>1, <3>2
  <2>3. QED
    BY <1>1, <2>1, <2>2 DEF IsWalk
<1>5. Walks(Down, D, ends, next, result)
  <2>1. PICK g : DOMAIN g = D /\ g = [j \in D |-> g[j]] /\ Walks(g, D, ends, next, result)
    <3> HIDE DEF D, size, ends, next, result
    <3> QED
      BY <1>3, WalkIsDefined
  <2>2. \A j \in D : g[j] = Turn(j, g)
    BY <2>1 DEF Walks
  <2>3. g = [j \in D |-> Turn(j, g)]
    <3> HIDE DEF D, Turn
    <3> QED
      BY <2>1, <2>2
  <2>4. Down = [j \in D |-> Turn(j, Down)]
    <3> HIDE DEF D, Turn
    <3> QED
      BY <2>3
  <2> HIDE DEF Down
  <2>5. QED
    BY <2>4 DEF Walks
<1>6. Walks(Up, D2, ends2, next2, result2)
  <2>1. PICK g : DOMAIN g = D2 /\ g = [j \in D2 |-> g[j]] /\ Walks(g, D2, ends2, next2, result2)
    <3> HIDE DEF D2, size2, ends2, next2, result2
    <3> QED
      BY <1>4, WalkIsDefined
  <2>2. \A j \in D2 : g[j] = Turn2(j, g)
    BY <2>1 DEF Walks
  <2>3. g = [j \in D2 |-> Turn2(j, g)]
    <3> HIDE DEF D2, Turn2
    <3> QED
      BY <2>1, <2>2
  <2>4. Up = [j \in D2 |-> Turn2(j, Up)]
    <3> HIDE DEF D2, Turn2
    <3> QED
      BY <2>3
  <2> HIDE DEF Up
  <2>5. QED
    BY <2>4 DEF Walks
<1> HIDE DEF Down, Up
<1>7. PICK lo \in I : ends[lo] /\ Down[pos] = result[lo]
  <2>1. ASSUME NEW x \in I, ~ ends[x] PROVE next[x] \in I
    <3>1. x \in D /\ x \in 0 .. pos
      BY <1>1
    <3>2. x > 0 /\ KeyAt(ws, x - 1) = KeyAt(ws, pos) /\ next[x] = x - 1
      BY <2>1, <3>1
    <3>3. x - 1 \in 0 .. pos /\ \A k \in (x - 1) .. pos : k = x - 1 \/ k \in x .. pos
      BY <1>1, <3>1, <3>2
    <3>4. QED
      BY <3>2, <3>3
  <2>2. pos \in I
    BY <1>1
  <2>3. I \in SUBSET D /\ \A x \in I : ~ ends[x] => next[x] \in I
    BY <2>1
  <2> HIDE DEF D, size, ends, next, result, I
  <2>4. \A x \in I : \E y \in I : ends[y] /\ Down[x] = result[y]
    BY <1>3, <1>5, <2>3, WalkEndsWithin
  <2>5. QED
    BY <2>2, <2>4
<1>8. PICK hi \in I2 : ends2[hi] /\ Up[pos] = result2[hi]
  <2>1. ASSUME NEW x \in I2, ~ ends2[x] PROVE next2[x] \in I2
    <3>1. x \in D2 /\ x \in pos .. last
      BY <1>1
    <3>2. x < last /\ KeyAt(ws, x + 1) = KeyAt(ws, pos) /\ next2[x] = x + 1
      BY <2>1, <3>1
    <3>3. x + 1 \in pos .. last /\ \A k \in pos .. (x + 1) : k = x + 1 \/ k \in pos .. x
      BY <1>1, <3>1, <3>2
    <3>4. QED
      BY <3>2, <3>3
  <2>2. pos \in I2
    BY <1>1
  <2>3. I2 \in SUBSET D2 /\ \A x \in I2 : ~ ends2[x] => next2[x] \in I2
    BY <2>1
  <2> HIDE DEF D2, size2, ends2, next2, result2, I2
  <2>4. \A x \in I2 : \E y \in I2 : ends2[y] /\ Up[x] = result2[y]
    BY <1>4, <1>6, <2>3, WalkEndsWithin
  <2>5. QED
    BY <2>2, <2>4
<1>9. /\ lo \in 0 .. pos /\ Down[pos] = lo
      /\ \A k \in lo .. pos : KeyAt(ws, k) = KeyAt(ws, pos)
      /\ lo > 0 => KeyAt(ws, lo - 1) # KeyAt(ws, pos)
  BY <1>7
<1>10. /\ hi \in pos .. last /\ Up[pos] = hi
       /\ \A k \in pos .. hi : KeyAt(ws, k) = KeyAt(ws, pos)
       /\ hi < last => KeyAt(ws, hi + 1) # KeyAt(ws, pos)
  BY <1>8
<1>11. \A k \in lo .. hi : k \in lo .. pos \/ k \in pos .. hi
  BY <1>1, <1>9, <1>10
<1>12. QED
  BY <1>2, <1>9, <1>10, <1>11 DEF last

(* In a sorted index a word that lies between two copies is one of them. *)
LEMMA CopiesAreTogether ==
  ASSUME NEW ws, Sorted(ws), NEW j \in Places(ws), NEW k \in Places(ws), NEW l \in Places(ws),
         j <= k, k <= l, KeyAt(ws, j) = KeyAt(ws, l)
  PROVE  KeyAt(ws, k) = KeyAt(ws, j)
<1>1. KeyAt(ws, j) \in Text /\ KeyAt(ws, k) \in Text
  BY DEF Sorted, Text
<1>2. ~ Before(KeyAt(ws, k), KeyAt(ws, j)) /\ ~ Before(KeyAt(ws, l), KeyAt(ws, k))
  BY DEF Sorted
<1>3. QED
  BY <1>1, <1>2, BeforeIsTotal

------------------------------------------------------------------------------
(* The lookup of a word. *)

(* What a lookup of w should give: w where it is, or the first word after it,
   and somewhere in the index to suggest.                                  *)
IsAnswer(ws, w, r) ==
  /\ r.found \in BOOLEAN /\ r.suggest \in Places(ws)
  /\ r.found => r.idx = r.suggest /\ KeyAt(ws, r.idx) = w
  /\ ~ r.found =>
       \/ r.idx = InvalidIndex /\ \A k \in Places(ws) : Before(KeyAt(ws, k), w)
       \/ /\ r.idx \in Places(ws) /\ r.idx # InvalidIndex /\ Before(w, KeyAt(ws, r.idx))
          /\ \A k \in 0 .. (r.idx - 1) : Before(KeyAt(ws, k), w)

LEMMA BeforeOrAfter ==
  ASSUME NEW u \in Text, NEW v \in Text, NEW w \in Text, ~ Before(v, u)
  PROVE  /\ Before(w, u) => Before(w, v)
         /\ Before(v, w) => Before(u, w)
BY BeforeTransitive, BeforeIsTotal

LEMMA ComparedIs ==
  ASSUME NEW s \in Text, NEW t \in Text
  PROVE  /\ StardictStrcmp[s][t] \in Int
         /\ StardictStrcmp[s][t] = 0 <=> s = t
         /\ StardictStrcmp[s][t] > 0 <=> Before(t, s)
         /\ StardictStrcmp[s][t] < 0 <=> Before(s, t)
BY BeforeIs, BeforeIsTotal DEF Before

(* The words before one that comes before w. *)
LEMMA AllBefore ==
  ASSUME NEW ws, Sorted(ws), NEW w \in Text, NEW k \in Places(ws), Before(KeyAt(ws, k), w)
  PROVE  \A j \in 0 .. k : j \in Places(ws) /\ Before(KeyAt(ws, j), w)
<1> TAKE j \in 0 .. k
<1>1. j \in Places(ws) /\ j <= k
  BY DEF Places, Sorted
<1>2. KeyAt(ws, j) \in Text /\ KeyAt(ws, k) \in Text /\ ~ Before(KeyAt(ws, k), KeyAt(ws, j))
  BY <1>1 DEF Sorted, Text
<1>3. QED
  BY <1>1, <1>2, BeforeOrAfter

LEMMA FirstAndLast ==
  ASSUME NEW ws, Sorted(ws)
  PROVE  /\ 0 \in Places(ws) /\ FirstKey(ws) = KeyAt(ws, 0)
         /\ Len(ws) - 1 \in Places(ws) /\ LastKey(ws) = KeyAt(ws, Len(ws) - 1)
         /\ \A k \in Places(ws) : k \in 0 .. (Len(ws) - 1) /\ k # InvalidIndex
<1>1. Len(ws) \in Nat \ {0} /\ (Len(ws) - 1) + 1 = Len(ws)
  BY DEF Sorted
<1>2. QED
  BY <1>1 DEF FirstKey, LastKey, KeyAt, Places, InvalidIndex

(* Before the first word and after the last, as both kinds of index do. *)
LEMMA OutsideIs ==
  ASSUME NEW ws, Sorted(ws), NEW w \in Text, NEW p
  PROVE  /\ Before(w, FirstKey(ws)) => IsAnswer(ws, w, Result(FALSE, 0, 0, p))
         /\ Before(LastKey(ws), w) =>
              IsAnswer(ws, w, Result(FALSE, InvalidIndex, Len(ws) - 1, p))
<1>1. ASSUME Before(w, FirstKey(ws)) PROVE IsAnswer(ws, w, Result(FALSE, 0, 0, p))
  BY <1>1, FirstAndLast DEF IsAnswer, Result
<1>2. ASSUME Before(LastKey(ws), w)
      PROVE  IsAnswer(ws, w, Result(FALSE, InvalidIndex, Len(ws) - 1, p))
  <2>1. \A k \in Places(ws) : Before(KeyAt(ws, k), w)
    BY <1>2, FirstAndLast, AllBefore
  <2>2. QED
    BY <2>1, FirstAndLast DEF IsAnswer, Result
<1>3. QED
  BY <1>1, <1>2

(* Words of which the order and the common beginnings speak alike. *)
AllAscii(ws, w) == AsciiCase(w) /\ \A j \in Places(ws) : AsciiCase(KeyAt(ws, j))

(* No word of the index begins like w for longer than the one at k. *)
Closest(ws, w, k) ==
  AllAscii(ws, w) =>
    \A j \in Places(ws) : PrefixMatch[w][KeyAt(ws, j)] <= PrefixMatch[w][KeyAt(ws, k)]

LEMMA ClosestOutside ==
  ASSUME NEW ws, Sorted(ws), NEW w \in Text
  PROVE  /\ Before(w, FirstKey(ws)) => Closest(ws, w, 0)
         /\ Before(LastKey(ws), w) => Closest(ws, w, Len(ws) - 1)
<1> DEFINE last == Len(ws) - 1
<1>1. /\ 0 \in Places(ws) /\ last \in Places(ws)
      /\ \A k \in Places(ws) : /\ KeyAt(ws, k) \in Text
                               /\ ~ Before(KeyAt(ws, k), KeyAt(ws, 0))
                               /\ ~ Before(KeyAt(ws, last), KeyAt(ws, k))
  BY FirstAndLast DEF Sorted, Text
<1>2. ASSUME Before(w, FirstKey(ws)) PROVE Closest(ws, w, 0)
  <2>1. ~ Before(KeyAt(ws, 0), w)
    BY <1>1, <1>2, FirstAndLast, BeforeIsTotal
  <2>2. QED
    BY <1>1, <2>1, BetweenMatches DEF Closest, AllAscii
<1>3. ASSUME Before(LastKey(ws), w) PROVE Closest(ws, w, last)
  <2>1. ~ Before(w, KeyAt(ws, last))
    BY <1>1, <1>3, FirstAndLast, BeforeIsTotal
  <2>2. QED
    BY <1>1, <2>1, BetweenMatches DEF Closest, AllAscii
<1>4. QED
  BY <1>2, <1>3

(* compressed_index::lookup: what it suggests is a closest word. *)
LEMMA LookupInMemoryIs ==
  ASSUME NEW ws, Sorted(ws), NEW w \in Word
  PROVE  /\ IsAnswer(ws, w, LookupInMemory(ws, w))
         /\ Closest(ws, w, LookupInMemory(ws, w).suggest)
<1> DEFINE last == Len(ws) - 1
           cmp == [i \in 0 .. last |-> StardictStrcmp[w][KeyAt(ws, i)]]
           r == BinarySearch(cmp, 0, last)
<1>1. last \in Nat /\ Places(ws) = 0 .. last /\ \A k \in 0 .. last : KeyAt(ws, k) \in Text
  BY DEF Sorted, Places, Text
<1>2. w \in Text
  BY DEF Text
<1>3. CASE Before(w, FirstKey(ws)) \/ Before(LastKey(ws), w)
  <2>1. FirstKey(ws) \in Text /\ LastKey(ws) \in Text /\ ~ Before(LastKey(ws), FirstKey(ws))
    BY <1>1, FirstAndLast DEF Sorted
  <2>2. ~ (Before(w, FirstKey(ws)) /\ Before(LastKey(ws), w))
    BY <1>2, <2>1, BeforeOrAfter, BeforeIsTotal
  <2>3. \/ /\ Before(w, FirstKey(ws)) /\ ~ Before(LastKey(ws), w) /\ ~ Within(ws, w)
           /\ LookupInMemory(ws, w) = Result(FALSE, 0, 0, 0)
        \/ /\ ~ Before(w, FirstKey(ws)) /\ Before(LastKey(ws), w) /\ ~ Within(ws, w)
           /\ LookupInMemory(ws, w) = Result(FALSE, InvalidIndex, last, 0)
    BY <1>3, <2>2 DEF LookupInMemory, Within
  <2>4. /\ Before(w, FirstKey(ws)) => /\ IsAnswer(ws, w, Result(FALSE, 0, 0, 0))
                                      /\ Closest(ws, w, 0)
        /\ Before(LastKey(ws), w) => /\ IsAnswer(ws, w, Result(FALSE, InvalidIndex, last, 0))
                                     /\ Closest(ws, w, last)
    BY <1>2, OutsideIs, ClosestOutside
  <2>5. /\ Result(FALSE, 0, 0, 0).suggest = 0
        /\ Result(FALSE, InvalidIndex, last, 0).suggest = last
    BY DEF Result
  <2>6. QED
    BY <2>3, <2>4, <2>5
<1>4. CASE ~ Before(w, FirstKey(ws)) /\ ~ Before(LastKey(ws), w)
  <2>1. LookupInMemory(ws, w) =
          IF r.found THEN Result(TRUE, r.next, r.next, 0)
          ELSE Result(FALSE, r.next, SuggestInMemory(ws, w, r.next), 0)
    BY <1>4 DEF LookupInMemory, Within
  <2>2. \A k \in 0 .. last : /\ cmp[k] = StardictStrcmp[w][KeyAt(ws, k)] /\ cmp[k] \in Int
                             /\ cmp[k] = 0 <=> w = KeyAt(ws, k)
                             /\ cmp[k] > 0 <=> Before(KeyAt(ws, k), w)
                             /\ cmp[k] < 0 <=> Before(w, KeyAt(ws, k))
    BY <1>1, <1>2, ComparedIs
  <2>3. Falling(cmp, 0, last)
    <3>1. \A j, k \in 0 .. last :
            j <= k => KeyAt(ws, j) \in Text /\ KeyAt(ws, k) \in Text
                      /\ ~ Before(KeyAt(ws, k), KeyAt(ws, j))
      BY <1>1 DEF Sorted
    <3>2. cmp \in [0 .. last -> Int]
      BY <2>2
    <3> HIDE DEF cmp
    <3>3. QED
      BY <1>2, <2>2, <3>1, <3>2, BeforeOrAfter DEF Falling
  <2>4. Finds(cmp, 0, last, r)
    <3>1. 0 \in Int /\ last \in Int /\ 0 <= last + 1
      BY <1>1
    <3> HIDE DEF cmp, last
    <3>2. QED
      BY <2>3, <3>1, SearchFinds
  <2> HIDE DEF cmp, r
  <2>5. CASE r.found
    <3>1. r.next \in 0 .. last /\ KeyAt(ws, r.next) = w
      BY <2>2, <2>4, <2>5 DEF Finds
    <3>2. Closest(ws, w, r.next)
      BY <1>1, <1>2, <3>1, PrefixMatchIs DEF Closest
    <3>3. QED
      BY <1>1, <2>1, <2>5, <3>1, <3>2 DEF IsAnswer, Result
  <2>6. CASE ~ r.found
    <3> DEFINE n == r.next
    <3>1. n \in 0 .. (last + 1) /\ \A k \in 0 .. last : /\ k < n => Before(KeyAt(ws, k), w)
                                                        /\ k >= n => Before(w, KeyAt(ws, k))
      BY <2>2, <2>4, <2>6 DEF Finds
    <3>2. n # last + 1
      BY <1>1, <1>4, <3>1, FirstAndLast
    <3>3. n \in 0 .. last /\ Before(w, KeyAt(ws, n)) /\ n # InvalidIndex
      BY <1>1, <3>1, <3>2 DEF InvalidIndex
    <3>4. \A k \in 0 .. (n - 1) : k \in 0 .. last /\ Before(KeyAt(ws, k), w)
      BY <1>1, <3>1, <3>3
    <3>5. /\ SuggestInMemory(ws, w, n) \in 0 .. n
          /\ AllAscii(ws, w) =>
               \A j \in 0 .. n : PrefixMatch[w][KeyAt(ws, j)]
                                   <= PrefixMatch[w][KeyAt(ws, SuggestInMemory(ws, w, n))]
      <4>1. AllAscii(ws, w) => ComesCloser(ws, w, n)
        <5> SUFFICES ASSUME AllAscii(ws, w), NEW j \in 0 .. (n - 1), NEW k \in 0 .. (n - 1), j <= k
                     PROVE  PrefixMatch[w][KeyAt(ws, j)] <= PrefixMatch[w][KeyAt(ws, k)]
          BY DEF ComesCloser
        <5>1. /\ KeyAt(ws, j) \in Text /\ KeyAt(ws, k) \in Text
              /\ AsciiCase(KeyAt(ws, j)) /\ AsciiCase(KeyAt(ws, k)) /\ AsciiCase(w)
              /\ ~ Before(KeyAt(ws, k), KeyAt(ws, j)) /\ ~ Before(w, KeyAt(ws, k))
          BY <1>1, <1>2, <3>4, BeforeIsTotal DEF Sorted, AllAscii
        <5>2. QED
          BY <1>2, <5>1, BetweenMatches
      <4>2. n \in Places(ws)
        BY <1>1, <3>3
      <4> HIDE DEF n
      <4>3. QED
        BY <4>1, <4>2, SuggestInMemoryIs
    <3>6. SuggestInMemory(ws, w, n) \in Places(ws)
      BY <1>1, <3>3, <3>5
    <3>7. LookupInMemory(ws, w) = Result(FALSE, n, SuggestInMemory(ws, w, n), 0)
      BY <2>1, <2>6
    <3> HIDE DEF n
    <3>8. Closest(ws, w, SuggestInMemory(ws, w, n))
      <4> SUFFICES ASSUME AllAscii(ws, w), NEW j \in Places(ws)
                   PROVE  PrefixMatch[w][KeyAt(ws, j)]
                            <= PrefixMatch[w][KeyAt(ws, SuggestInMemory(ws, w, n))]
        BY DEF Closest
      <4>1. CASE j <= n
        BY <1>1, <3>3, <3>5, <4>1
      <4>2. CASE n < j
        <5> DEFINE sg == SuggestInMemory(ws, w, n)
        <5>1. KeyAt(ws, j) \in Text /\ KeyAt(ws, n) \in Text /\ KeyAt(ws, sg) \in Text
          BY <1>1, <3>3, <3>6
        <5>2. ~ Before(KeyAt(ws, j), KeyAt(ws, n)) /\ ~ Before(KeyAt(ws, n), w)
          <6>1. n \in Places(ws) /\ n <= j
            BY <1>1, <3>3, <4>2
          <6>2. QED
            BY <1>2, <3>3, <5>1, <6>1, BeforeIsTotal DEF Sorted
        <5>7. AsciiCase(KeyAt(ws, j)) /\ AsciiCase(KeyAt(ws, n)) /\ AsciiCase(w)
          BY <1>1, <3>3 DEF AllAscii
        <5>3. PrefixMatch[w][KeyAt(ws, j)] <= PrefixMatch[w][KeyAt(ws, n)]
          BY <1>2, <5>1, <5>2, <5>7, BetweenMatches
        <5>4. PrefixMatch[w][KeyAt(ws, n)] <= PrefixMatch[w][KeyAt(ws, sg)]
          BY <1>1, <3>3, <3>5
        <5>5. /\ PrefixMatch[w][KeyAt(ws, j)] \in Int /\ PrefixMatch[w][KeyAt(ws, n)] \in Int
              /\ PrefixMatch[w][KeyAt(ws, sg)] \in Int
          BY <1>2, <5>1, PrefixMatchIs
        <5> HIDE DEF sg
        <5>6. QED
          BY <5>3, <5>4, <5>5 DEF sg
      <4>3. QED
        BY <1>1, <3>3, <4>1, <4>2
    <3>9. QED
      BY <1>1, <3>3, <3>4, <3>6, <3>7, <3>8 DEF IsAnswer, Result
  <2>7. QED
    BY <2>4, <2>5, <2>6 DEF Finds
<1>5. QED
  BY <1>3, <1>4

(* offset_index::lookup on the page p that the word sought must be on. *)
LEMMA LookupOnPageIs ==
  ASSUME NEW ws, Sorted(ws), NEW w \in Word, NEW p \in Pages(ws),
         Before(KeyAt(ws, p * EntrPerPage), w), ~ Before(LastKey(ws), w),
         p # LastPage(ws) => Before(w, KeyAt(ws, (p + 1) * EntrPerPage))
  PROVE  /\ IsAnswer(ws, w, LookupOnPage(ws, p, w))
         /\ LookupOnPage(ws, p, w).page \in Pages(ws)
<1> DEFINE E == EntrPerPage
           n == Nentr(ws, p)
           base == p * E
           cmp == [s \in 1 .. (n - 1) |-> StardictStrcmp[w][Entries(ws, p)[s]]]
           r == BinarySearch(cmp, 1, n - 1)
           i == base + r.next
           near == SuggestBack(ws, w, i, p)
<1>1. w \in Text /\ EntrPerPage \in Nat \ {0}
  BY EntrPerPageAssumption DEF Text
<1>2. /\ p \in Nat /\ base \in Int /\ n \in 1 .. EntrPerPage /\ n \in Int
      /\ p = LastPage(ws) => base + n = Len(ws)
      /\ p # LastPage(ws) => n = E /\ base + E = (p + 1) * E /\ (p + 1) * E \in Places(ws)
  BY <1>1, PageEnds, SortedIsListed DEF Places
<1>3. \A s \in 0 .. (n - 1) : /\ base + s \in Places(ws)
                              /\ Entries(ws, p)[s] = KeyAt(ws, base + s)
                              /\ KeyAt(ws, base + s) \in Text
  BY OnPage, SortedIsListed DEF Sorted, Text
<1>4. LookupOnPage(ws, p, w) = IF r.found THEN Result(TRUE, i, i, p)
                               ELSE Result(FALSE, i, near.suggest, near.page)
  BY DEF LookupOnPage
<1>5. /\ Places(ws) = 0 .. (Len(ws) - 1) /\ Len(ws) - 1 \in Nat
      /\ \A k \in Places(ws) : KeyAt(ws, k) \in Text
      /\ LastKey(ws) = KeyAt(ws, Len(ws) - 1)
  BY FirstAndLast DEF Places, Sorted, Text
<1> HIDE DEF base, n
<1>6. \A s \in 1 .. (n - 1) : /\ cmp[s] = StardictStrcmp[w][KeyAt(ws, base + s)] /\ cmp[s] \in Int
                              /\ cmp[s] = 0 <=> w = KeyAt(ws, base + s)
                              /\ cmp[s] > 0 <=> Before(KeyAt(ws, base + s), w)
                              /\ cmp[s] < 0 <=> Before(w, KeyAt(ws, base + s))
  <2> TAKE s \in 1 .. (n - 1)
  <2>1. s \in 0 .. (n - 1)
    BY <1>2
  <2>2. KeyAt(ws, base + s) \in Text /\ cmp[s] = StardictStrcmp[w][KeyAt(ws, base + s)]
    BY <1>3, <2>1
  <2> HIDE DEF cmp
  <2>3. QED
    BY <1>1, <2>2, ComparedIs
<1>7. Falling(cmp, 1, n - 1)
  <2>1. \A j, k \in 1 .. (n - 1) :
          j <= k => /\ KeyAt(ws, base + j) \in Text /\ KeyAt(ws, base + k) \in Text
                    /\ ~ Before(KeyAt(ws, base + k), KeyAt(ws, base + j))
    <3> TAKE j, k \in 1 .. (n - 1)
    <3> HAVE j <= k
    <3>1. j \in 0 .. (n - 1) /\ k \in 0 .. (n - 1) /\ base + j <= base + k
      BY <1>2
    <3>2. QED
      BY <1>3, <3>1 DEF Sorted
  <2>2. cmp \in [1 .. (n - 1) -> Int]
    BY <1>6
  <2> HIDE DEF cmp
  <2>3. QED
    BY <1>1, <1>6, <2>1, <2>2, BeforeOrAfter DEF Falling
<1>8. Finds(cmp, 1, n - 1, r)
  <2>1. 1 \in Int /\ n - 1 \in Int /\ 1 <= (n - 1) + 1
    BY <1>2
  <2> HIDE DEF cmp
  <2>2. QED
    BY <1>7, <2>1, SearchFinds
<1> HIDE DEF cmp, r
<1>9. CASE r.found
  <2>1. r.next \in 1 .. (n - 1) /\ KeyAt(ws, i) = w
    BY <1>6, <1>8, <1>9 DEF Finds
  <2>2. i \in Places(ws)
    BY <1>2, <1>3, <2>1
  <2>3. QED
    BY <1>4, <1>9, <2>1, <2>2 DEF IsAnswer, Result
<1>10. CASE ~ r.found
  <2> DEFINE x == r.next
  <2>1. x \in 1 .. n /\ \A s \in 1 .. (n - 1) : /\ s < x => Before(KeyAt(ws, base + s), w)
                                                /\ s >= x => Before(w, KeyAt(ws, base + s))
    <3>1. (n - 1) + 1 = n
      BY <1>2
    <3>2. QED
      BY <1>6, <1>8, <1>10, <3>1 DEF Finds
  <2> HIDE DEF x
  <2>2. \A s \in 0 .. (n - 1) : s < x => Before(KeyAt(ws, base + s), w)
    <3>1. base + 0 = base /\ Before(KeyAt(ws, base), w)
      BY <1>2 DEF base
    <3>2. QED
      BY <1>2, <2>1, <3>1
  <2>3. base + x \in Places(ws) /\ Before(w, KeyAt(ws, base + x))
    <3>1. CASE x <= n - 1
      <4>1. x \in 0 .. (n - 1) /\ x \in 1 .. (n - 1)
        BY <1>2, <2>1, <3>1
      <4>2. QED
        BY <1>3, <2>1, <4>1
    <3>2. CASE x = n /\ p = LastPage(ws)
      <4>1. n - 1 \in 0 .. (n - 1) /\ n - 1 < x /\ base + (n - 1) = Len(ws) - 1
        BY <1>2, <1>5, <3>2
      <4>2. Before(LastKey(ws), w)
        BY <1>5, <2>2, <4>1
      <4>3. QED
        BY <4>2
    <3>3. CASE x = n /\ p # LastPage(ws)
      BY <1>2, <3>3
    <3>4. QED
      BY <1>2, <2>1, <3>1, <3>2, <3>3
  <2>4. \A k \in 0 .. ((base + x) - 1) : Before(KeyAt(ws, k), w)
    <3>1. x - 1 \in 0 .. (n - 1) /\ x - 1 < x /\ base + (x - 1) = (base + x) - 1
      BY <1>2, <2>1
    <3>2. (base + x) - 1 \in Places(ws) /\ Before(KeyAt(ws, (base + x) - 1), w)
      BY <1>3, <2>2, <3>1
    <3>3. QED
      BY <1>1, <3>2, AllBefore
  <2>5. near.suggest \in 0 .. i /\ near.page \in Pages(ws)
    <3>1. i \in Places(ws)
      BY <2>3 DEF x
    <3> HIDE DEF i
    <3>2. QED
      BY <3>1, SuggestBackIs
  <2>6. near.suggest \in Places(ws) /\ i # InvalidIndex /\ i \in Places(ws)
    BY <1>5, <2>3, <2>5 DEF x, InvalidIndex
  <2> HIDE DEF near, i
  <2>7. IsAnswer(ws, w, Result(FALSE, i, near.suggest, near.page))
    BY <2>3, <2>4, <2>6 DEF IsAnswer, Result, i, x
  <2>8. LookupOnPage(ws, p, w) = Result(FALSE, i, near.suggest, near.page)
    BY <1>4, <1>10
  <2>9. QED
    BY <2>5, <2>7, <2>8 DEF Result
<1>11. QED
  BY <1>8, <1>9, <1>10 DEF Finds

(* offset_index::lookup, synonym_file::lookup: the answer does not depend on
   the page in memory, but for what is suggested.                          *)
LEMMA LookupIs ==
  ASSUME NEW ws, Sorted(ws), NEW w \in Word, NEW loaded
  PROVE  /\ IsAnswer(ws, w, Lookup(ws, loaded, w))
         /\ Lookup(ws, loaded, w).page \in Pages(ws) \cup {loaded}
<1> DEFINE last == LastPage(ws)
           cmp == [p \in 0 .. last |-> StardictStrcmp[w][FirstOnPageKey(ws, p)]]
           r == BinarySearch(cmp, 0, last)
<1>1. w \in Text /\ EntrPerPage \in Nat \ {0}
  BY EntrPerPageAssumption DEF Text
<1>2. 0 \in Places(ws) /\ PageOf(0) = 0 /\ last \in Nat
  <2>1. 0 \in Places(ws) /\ Len(ws) - 1 \in Nat
    BY FirstAndLast DEF Places, Sorted
  <2>2. PageOf(0) = 0
    BY <1>1 DEF PageOf
  <2>3. QED
    BY <2>1, <2>2, PlaceOnPage DEF LastPage
<1>3. \A p \in 0 .. last : /\ p \in Nat /\ p * EntrPerPage \in Places(ws)
                           /\ FirstOnPageKey(ws, p) = KeyAt(ws, p * EntrPerPage)
                           /\ FirstOnPageKey(ws, p) \in Text
  BY PageEnds, SortedIsListed DEF Pages, FirstOnPageKey, Sorted, Text
<1>4. CASE Before(w, FirstKey(ws)) \/ Before(LastKey(ws), w)
  <2>1. FirstKey(ws) \in Text /\ LastKey(ws) \in Text /\ ~ Before(LastKey(ws), FirstKey(ws))
    BY FirstAndLast DEF Sorted, Text, Places
  <2>2. ~ (Before(w, FirstKey(ws)) /\ Before(LastKey(ws), w))
    BY <1>1, <2>1, BeforeOrAfter, BeforeIsTotal
  <2>3. \/ /\ Before(w, FirstKey(ws)) /\ ~ Before(LastKey(ws), w) /\ ~ Within(ws, w)
           /\ Lookup(ws, loaded, w) = Result(FALSE, 0, 0, loaded)
        \/ /\ ~ Before(w, FirstKey(ws)) /\ Before(LastKey(ws), w) /\ ~ Within(ws, w)
           /\ Lookup(ws, loaded, w) = Result(FALSE, InvalidIndex, Len(ws) - 1, loaded)
    BY <1>4, <2>2 DEF Lookup, Within
  <2>4. /\ Result(FALSE, 0, 0, loaded).page = loaded
        /\ Result(FALSE, InvalidIndex, Len(ws) - 1, loaded).page = loaded
    BY DEF Result
  <2>5. QED
    BY <1>1, <2>3, <2>4, OutsideIs
<1>5. CASE ~ Before(w, FirstKey(ws)) /\ ~ Before(LastKey(ws), w)
  <2>1. Lookup(ws, loaded, w) =
          IF r.found THEN Result(TRUE, r.next * EntrPerPage, r.next * EntrPerPage, loaded)
          ELSE LookupOnPage(ws, r.prev, w)
    BY <1>5 DEF Lookup, Within
  <2>2. \A p \in 0 .. last : /\ cmp[p] \in Int
                             /\ cmp[p] = 0 <=> w = KeyAt(ws, p * EntrPerPage)
                             /\ cmp[p] > 0 <=> Before(KeyAt(ws, p * EntrPerPage), w)
                             /\ cmp[p] < 0 <=> Before(w, KeyAt(ws, p * EntrPerPage))
    BY <1>1, <1>3, ComparedIs
  <2>3. Falling(cmp, 0, last)
    <3>1. \A j, k \in 0 .. last :
            j <= k => /\ KeyAt(ws, j * EntrPerPage) \in Text /\ KeyAt(ws, k * EntrPerPage) \in Text
                      /\ ~ Before(KeyAt(ws, k * EntrPerPage), KeyAt(ws, j * EntrPerPage))
      <4> TAKE j, k \in 0 .. last
      <4> HAVE j <= k
      <4>1. j * EntrPerPage <= k * EntrPerPage
        BY <1>1, <1>3, TimesMonotonic
      <4>2. QED
        BY <1>3, <4>1 DEF Sorted
    <3>2. cmp \in [0 .. last -> Int]
      BY <2>2
    <3> HIDE DEF cmp, last
    <3>3. QED
      BY <1>1, <2>2, <3>1, <3>2, BeforeOrAfter DEF Falling
  <2>4. Finds(cmp, 0, last, r)
    <3>1. 0 \in Int /\ last \in Int /\ 0 <= last + 1
      BY <1>2
    <3> HIDE DEF cmp, last
    <3>2. QED
      BY <2>3, <3>1, SearchFinds
  <2> HIDE DEF cmp, r
  <2>5. CASE r.found
    <3> DEFINE k == r.next * EntrPerPage
    <3>1. k \in Places(ws) /\ KeyAt(ws, k) = w
      BY <1>3, <2>2, <2>4, <2>5 DEF Finds
    <3>2. Lookup(ws, loaded, w) = Result(TRUE, k, k, loaded)
      BY <2>1, <2>5
    <3> HIDE DEF k
    <3>3. QED
      BY <3>1, <3>2 DEF IsAnswer, Result
  <2>6. CASE ~ r.found
    <3> DEFINE p == r.prev
    <3>1. /\ r.next \in 0 .. (last + 1) /\ p = r.next - 1
          /\ \A k \in 0 .. last : /\ k < r.next => Before(KeyAt(ws, k * EntrPerPage), w)
                                  /\ k >= r.next => Before(w, KeyAt(ws, k * EntrPerPage))
      BY <2>2, <2>4, <2>6 DEF Finds
    <3>2. r.next # 0
      <4>1. FirstKey(ws) = KeyAt(ws, 0 * EntrPerPage) /\ 0 \in 0 .. last
        BY <1>1, <1>2, FirstAndLast
      <4>2. QED
        BY <1>5, <3>1, <4>1
    <3>3. p \in 0 .. last /\ Before(KeyAt(ws, p * EntrPerPage), w)
      BY <1>2, <3>1, <3>2
    <3>4. p # last => p + 1 \in 0 .. last /\ p + 1 = r.next
      BY <1>2, <3>1, <3>3
    <3>5. p # last => Before(w, KeyAt(ws, (p + 1) * EntrPerPage))
      BY <1>2, <3>1, <3>4
    <3>6. Lookup(ws, loaded, w) = LookupOnPage(ws, p, w) /\ p \in Pages(ws)
      BY <2>1, <2>6, <3>3 DEF Pages
    <3> HIDE DEF p
    <3>7. QED
      BY <1>5, <3>3, <3>5, <3>6, LookupOnPageIs
  <2>7. QED
    BY <2>4, <2>5, <2>6 DEF Finds
<1>6. QED
  BY <1>4, <1>5

------------------------------------------------------------------------------
(* What an index promises, of the answers of one that is loaded. *)

(* The module of the promise speaks of the same words. *)
LEMMA SameWords ==
  /\ \A ws, i : Promise!KeyAt(ws, i) = KeyAt(ws, i)
  /\ \A u, v : Promise!Before(u, v) <=> Before(u, v)
  /\ Promise!Positions = Places(index)
  /\ Promise!Words = {KeyAt(index, i) : i \in Places(index)}
  /\ Promise!InvalidIndex = InvalidIndex
<1>1. \A u, v : Promise!Before(u, v) <=> Before(u, v)
  <2>1. \A u, v : Promise!SharedPrefix(u, v) = SharedPrefix(u, v)
    BY Zenon DEF Promise!SharedPrefix, SharedPrefix
  <2>2. \A u, v : Promise!Strcmp(u, v) = Strcmp(u, v)
    BY <2>1, Zenon DEF Promise!Strcmp, Strcmp
  <2>3. \A u : Promise!AsciiLower(u) = AsciiLower(u)
    BY Zenon DEF Promise!AsciiLower, AsciiLower, Promise!Folded, Folded
  <2>4. Promise!Text = Text
    BY Zenon DEF Promise!Text, Text, Promise!Dangling, Dangling
  <2>5. Promise!StardictStrcmp = StardictStrcmp
    BY <2>2, <2>3, <2>4, Zenon DEF Promise!StardictStrcmp, StardictStrcmp
  <2>6. QED
    BY <2>5, Zenon DEF Promise!Before, Before
<1>2. QED
  BY <1>1 DEF Promise!KeyAt, KeyAt, Promise!Positions, Places, Promise!Words,
              Promise!InvalidIndex, InvalidIndex

LEMMA LookupIsRight ==
  ASSUME Sorted(index), NEW w \in Word, NEW a, a.word = w, IsAnswer(index, w, a)
  PROVE  Promise!RightLookup(a)
<1>1. \A k \in Places(index) : KeyAt(index, k) \in Text /\ KeyAt(index, k) \in Promise!Words
  BY SameWords DEF Sorted, Text
<1>2. w \in Text /\ Promise!InvalidIndex = InvalidIndex /\ Promise!Positions = Places(index)
  BY SameWords DEF Text
<1>3. Promise!Greater(w) = {u \in Promise!Words : Before(w, u)}
  BY SameWords DEF Promise!Greater
<1>4. CASE a.found
  <2>1. a.idx = a.suggest /\ a.suggest \in Places(index) /\ KeyAt(index, a.idx) = w
    BY <1>4 DEF IsAnswer
  <2>2. QED
    BY <1>1, <1>2, <1>4, <2>1, SameWords DEF Promise!RightLookup, Promise!RightKey
<1>5. CASE ~ a.found /\ a.idx = InvalidIndex
  <2>1. /\ a.suggest \in Places(index) /\ a.idx \notin Places(index)
        /\ \A k \in Places(index) : Before(KeyAt(index, k), w)
    BY <1>5 DEF IsAnswer, Places, InvalidIndex
  <2>2. \A u \in Promise!Words : Before(u, w) /\ u \in Text
    BY <1>1, <2>1, SameWords
  <2>3. w \notin Promise!Words /\ Promise!Greater(w) = {}
    BY <1>2, <1>3, <2>2, BeforeIsTotal
  <2>4. QED
    BY <1>2, <1>5, <2>1, <2>3 DEF Promise!RightLookup
<1>6. CASE ~ a.found /\ a.idx # InvalidIndex
  <2> DEFINE n == a.idx
  <2>1. /\ a.suggest \in Places(index) /\ n \in Places(index) /\ n \in Nat
        /\ Before(w, KeyAt(index, n))
        /\ \A k \in 0 .. (n - 1) : Before(KeyAt(index, k), w)
    BY <1>6 DEF IsAnswer, Places
  <2>2. \A k \in Places(index) : \/ k \in 0 .. (n - 1) /\ Before(KeyAt(index, k), w)
                                 \/ n <= k /\ ~ Before(KeyAt(index, k), KeyAt(index, n))
    BY <2>1 DEF Places, Sorted
  <2>3. \A k \in Places(index) : \/ Before(KeyAt(index, k), w)
                                 \/ Before(w, KeyAt(index, k)) /\ ~ Before(KeyAt(index, k), KeyAt(index, n))
    BY <1>1, <1>2, <2>1, <2>2, BeforeOrAfter
  <2>4. w \notin Promise!Words
    BY <1>1, <1>2, <2>3, SameWords, BeforeIsTotal
  <2>5. \A u \in Promise!Greater(w) : ~ Before(u, KeyAt(index, n))
    BY <1>1, <1>2, <1>3, <2>3, SameWords, BeforeIsTotal
  <2>6. Promise!IsLeast(KeyAt(index, n), Promise!Greater(w))
    BY <1>1, <1>3, <2>1, <2>5, SameWords DEF Promise!IsLeast
  <2>7. QED
    BY <1>2, <1>6, <2>1, <2>4, <2>6, SameWords DEF Promise!RightLookup
<1>7. QED
  BY <1>4, <1>5, <1>6

LEMMA PrevIsRight ==
  ASSUME Sorted(index), NEW i \in Places(index) \cup {InvalidIndex}, NEW a, a.idx = i,
         a.found = GetWordPrev(index, i).found, a.to = GetWordPrev(index, i).idx
  PROVE  /\ Promise!RightPrev(a)
         /\ i # InvalidIndex => a.to \in Places(index)
<1> DEFINE key(k) == KeyAt(index, k)
<1>1. /\ \A k \in Places(index) : key(k) \in Text /\ key(k) \in Promise!Words
      /\ \A u \in Promise!Words : \E k \in Places(index) : u = key(k)
      /\ \A j, k \in Places(index) : j <= k => ~ Before(key(k), key(j))
  BY SameWords DEF Sorted, Text
<1>2. Promise!InvalidIndex = InvalidIndex /\ Places(index) = 0 .. (Len(index) - 1) /\ Len(index) - 1 \in Nat
  BY SameWords DEF Sorted, Places
<1>3. CASE i = InvalidIndex
  <2> DEFINE last == Len(index) - 1
  <2>1. a.found = TRUE /\ a.to = last
    BY <1>3 DEF GetWordPrev
  <2>2. last \in Places(index) /\ \A k \in Places(index) : k <= last
    BY <1>2
  <2>3. \A u \in Promise!Words : ~ Before(key(last), u)
    BY <1>1, <2>2
  <2>4. Promise!IsGreatest(KeyAt(index, last), Promise!Words)
    BY <1>1, <2>2, <2>3, SameWords DEF Promise!IsGreatest
  <2> HIDE DEF last
  <2>5. Promise!RightPrev(a)
    BY <1>1, <1>2, <1>3, <2>1, <2>2, <2>4, SameWords DEF Promise!RightPrev
  <2>6. QED
    BY <1>3, <2>5
<1>4. CASE i # InvalidIndex
  <2> DEFINE smaller == Promise!Smaller(KeyAt(index, i))
  <2>1. i \in Places(index) /\ smaller = {u \in Promise!Words : Before(u, key(i))}
    BY <1>4, SameWords DEF Promise!Smaller
  <2>2. /\ a.found \in BOOLEAN /\ a.to \in 0 .. i
        /\ a.found => /\ a.to < i /\ key(a.to) # key(i)
                      /\ \A k \in (a.to + 1) .. i : key(k) = key(i)
        /\ ~ a.found => \A k \in 0 .. i : key(k) = key(i)
    BY <2>1, GetWordPrevIs
  <2>3. a.to \in Places(index) /\ a.to <= i /\ i \in Nat
    BY <1>2, <2>1, <2>2
  <2>4. \A k \in Places(index) : key(k) = key(i) \/ k > i => ~ Before(key(k), key(i))
    <3> TAKE k \in Places(index)
    <3>1. k > i => i <= k
      BY <1>2, <2>1
    <3>2. QED
      BY <1>1, <2>1, <3>1, BeforeIsTotal
  <2>5. CASE a.found
    <3>1. Before(key(a.to), key(i))
      BY <1>1, <2>1, <2>2, <2>3, <2>5, BeforeIsTotal
    <3>2. \A k \in Places(index) : \/ k <= a.to
                                   \/ k \in (a.to + 1) .. i
                                   \/ k > i
      BY <1>2, <2>3
    <3>3. \A k \in Places(index) : Before(key(k), key(i)) => k <= a.to
      BY <2>2, <2>4, <2>5, <3>2
    <3>4. \A u \in smaller : ~ Before(key(a.to), u)
      <4> SUFFICES ASSUME NEW u \in smaller PROVE ~ Before(key(a.to), u)
        OBVIOUS
      <4>1. PICK k \in Places(index) : u = key(k)
        BY <1>1, <2>1
      <4>2. k <= a.to
        BY <2>1, <3>3, <4>1
      <4>3. QED
        BY <1>1, <2>3, <4>1, <4>2
    <3>5. key(a.to) \in smaller
      BY <1>1, <2>1, <2>3, <3>1
    <3>6. Promise!IsGreatest(KeyAt(index, a.to), smaller)
      BY <3>4, <3>5, SameWords DEF Promise!IsGreatest
    <3> HIDE DEF smaller
    <3>7. QED
      BY <1>2, <1>4, <2>3, <2>5, <3>5, <3>6, SameWords DEF Promise!RightPrev, smaller
  <2>6. CASE ~ a.found
    <3>1. \A k \in Places(index) : k \in 0 .. i \/ k > i
      BY <1>2, <2>3
    <3>2. smaller = {}
      BY <1>1, <2>1, <2>2, <2>4, <2>6, <3>1
    <3> HIDE DEF smaller
    <3>3. QED
      BY <1>2, <1>4, <2>3, <2>6, <3>2, SameWords DEF Promise!RightPrev, smaller
  <2>7. QED
    BY <2>5, <2>6
<1>5. QED
  BY <1>3, <1>4

LEMMA NextIsRight ==
  ASSUME Sorted(index), NEW i \in Places(index), NEW a, a.idx = i, a.to = GetWordNext(index, i)
  PROVE  /\ Promise!RightNext(a)
         /\ a.to # InvalidIndex => a.to \in Places(index)
<1> DEFINE key(k) == KeyAt(index, k)
           n == a.to
           greater == Promise!Greater(KeyAt(index, i))
<1>1. /\ \A k \in Places(index) : key(k) \in Text /\ key(k) \in Promise!Words
      /\ \A u \in Promise!Words : \E k \in Places(index) : u = key(k)
      /\ \A j, k \in Places(index) : j <= k => ~ Before(key(k), key(j))
  BY SameWords DEF Sorted, Text
<1>2. /\ Promise!InvalidIndex = InvalidIndex /\ Places(index) = 0 .. (Len(index) - 1)
      /\ Len(index) - 1 \in Nat /\ i \in Nat
  BY SameWords DEF Sorted, Places
<1>3. greater = {u \in Promise!Words : Before(key(i), u)}
  BY SameWords DEF Promise!Greater
<1>4. \A k \in Places(index) : k <= i \/ key(k) = key(i) => ~ Before(key(i), key(k))
  BY <1>1, BeforeIsTotal
<1>5. CASE n = InvalidIndex
  <2>1. \A k \in Places(index) : k >= i => key(k) = key(i)
    BY <1>2, <1>5, GetWordNextIs DEF InvalidIndex
  <2>2. \A k \in Places(index) : k <= i \/ k >= i
    BY <1>2
  <2>3. \A k \in Places(index) : ~ Before(key(i), key(k))
    BY <1>4, <2>1, <2>2
  <2>4. greater = {}
    BY <1>1, <1>3, <2>3
  <2> HIDE DEF greater
  <2>5. QED
    BY <1>2, <1>5, <2>4, SameWords DEF Promise!RightNext, greater
<1>6. CASE n # InvalidIndex
  <2>1. /\ n \in Places(index) /\ n > i /\ key(n) # key(i)
        /\ \A k \in i .. (n - 1) : key(k) = key(i)
    BY <1>6, GetWordNextIs
  <2>2. \A k \in Places(index) : k <= i \/ k \in i .. (n - 1) \/ n <= k
    BY <1>2, <2>1
  <2>3. \A k \in Places(index) : ~ (n <= k) => ~ Before(key(i), key(k))
    BY <1>4, <2>1, <2>2
  <2>4. Before(key(i), key(n))
    <3>1. i <= n
      BY <1>2, <2>1
    <3>2. QED
      BY <1>1, <2>1, <3>1, BeforeIsTotal
  <2>5. \A u \in greater : ~ Before(u, key(n))
    <3> SUFFICES ASSUME NEW u \in greater PROVE ~ Before(u, key(n))
      OBVIOUS
    <3>1. PICK k \in Places(index) : u = key(k)
      BY <1>1, <1>3
    <3>2. n <= k
      BY <1>3, <2>3, <3>1
    <3>3. QED
      BY <1>1, <2>1, <3>1, <3>2
  <2>6. Promise!IsLeast(key(n), greater)
    BY <1>1, <1>3, <2>1, <2>4, <2>5, SameWords DEF Promise!IsLeast
  <2>7. \A j \in 0 .. (n - 1) : key(j) \notin greater
    <3>1. \A j \in 0 .. (n - 1) : j \in Places(index) /\ ~ (n <= j)
      BY <1>2, <2>1
    <3>2. QED
      BY <1>3, <2>3, <3>1
  <2> HIDE DEF greater
  <2>8. Promise!RightNext(a)
    BY <1>2, <1>6, <2>6, <2>7, SameWords DEF Promise!RightNext, greater
  <2>9. QED
    BY <2>1, <2>8
<1>7. QED
  BY <1>5, <1>6

LEMMA CountIsRight ==
  ASSUME Sorted(index), NEW i \in Places(index), NEW a, a.idx = i,
         a.to = GetOrigWordCount(index, i).idx, a.count = GetOrigWordCount(index, i).count
  PROVE  /\ Promise!RightCount(a)
         /\ a.to \in Places(index) /\ a.count \in Nat /\ a.to + a.count \in 0 .. Len(index)
<1>1. PICK lo \in 0 .. i, hi \in i .. (Len(index) - 1) :
           /\ GetOrigWordCount(index, i) = [count |-> (hi - lo) + 1, idx |-> lo]
           /\ \A k \in lo .. hi : KeyAt(index, k) = KeyAt(index, i)
           /\ lo > 0 => KeyAt(index, lo - 1) # KeyAt(index, i)
           /\ hi < Len(index) - 1 => KeyAt(index, hi + 1) # KeyAt(index, i)
  BY GetOrigWordCountIs
<1>2. /\ Places(index) = 0 .. (Len(index) - 1) /\ Len(index) \in Nat /\ i \in Nat
      /\ lo \in Int /\ hi \in Int /\ lo <= i /\ i <= hi /\ 0 <= lo /\ hi <= Len(index) - 1
  BY DEF Places, Sorted
<1>3. a.to = lo /\ a.count = (hi - lo) + 1
  BY <1>1
<1>4. a.to \in Places(index) /\ a.count \in Nat /\ a.to + a.count = hi + 1
  BY <1>2, <1>3
<1>5. a.to .. (a.to + a.count - 1) = lo .. hi
  BY <1>2, <1>3
<1>6. ASSUME NEW j \in Places(index), KeyAt(index, j) = KeyAt(index, i) PROVE j \in lo .. hi
  <2>1. CASE j < lo
    <3>1. /\ lo > 0 /\ lo - 1 \in Places(index) /\ j <= lo - 1 /\ lo - 1 <= i
      BY <1>2, <2>1
    <3>2. KeyAt(index, lo - 1) = KeyAt(index, i)
      BY <1>6, <3>1, CopiesAreTogether
    <3>3. QED
      BY <1>1, <3>1, <3>2
  <2>2. CASE hi < j
    <3>1. /\ hi < Len(index) - 1 /\ hi + 1 \in Places(index) /\ i <= hi + 1 /\ hi + 1 <= j
      BY <1>2, <2>2
    <3>2. KeyAt(index, hi + 1) = KeyAt(index, i)
      BY <1>6, <3>1, CopiesAreTogether
    <3>3. QED
      BY <1>1, <3>1, <3>2
  <2>3. QED
    BY <1>2, <2>1, <2>2
<1>7. \A j \in lo .. hi : j \in Places(index)
  BY <1>2
<1>8. {j \in Places(index) : KeyAt(index, j) = KeyAt(index, i)} = lo .. hi
  BY <1>1, <1>6, <1>7
<1>9. Promise!RightCount(a)
  BY <1>1, <1>5, <1>8, SameWords DEF Promise!RightCount
<1>10. QED
  BY <1>2, <1>4, <1>9

------------------------------------------------------------------------------
(* The invariant: the page in memory is the one it is taken for, and a
   compressed index has none.                                              *)
IInv ==
  /\ TypeOK
  /\ compressed => page = NoPage
  /\ ~ compressed => page.entries = Entries(index, page.idx)

LEMMA IndexIsSorted ==
  ASSUME IInv
  PROVE  Sorted(index) /\ Positions = Places(index)
BY SortedSeqsAreSorted DEF IInv, TypeOK, Positions, Places

LEMMA Starts == Init => IInv
<1> SUFFICES ASSUME Init PROVE IInv
  OBVIOUS
<1>1. index \in SortedSeqs(MaxWords) /\ compressed \in BOOLEAN /\ answer.op = "none" /\ Sorted(index)
  BY SortedSeqsAreSorted DEF Init
<1>2. CASE LoadCompressed
  BY <1>1, <1>2 DEF LoadCompressed, IInv, TypeOK, NoPage
<1>3. CASE LoadOffsets
  <2> DEFINE p == LastPage(index)
  <2>1. p \in Pages(index) /\ p \in Nat
    <3>1. Len(index) - 1 \in Nat
      BY <1>1 DEF Sorted
    <3>2. p \in Nat
      BY <3>1, PlaceOnPage DEF LastPage
    <3>3. QED
      BY <3>2 DEF Pages
  <2>2. NoPage.idx = -1
    BY DEF NoPage
  <2>3. page = [idx |-> p, entries |-> Entries(index, p)]
    BY <1>3, <2>1, <2>2 DEF LoadOffsets, LoadPage
  <2>4. DOMAIN Entries(index, p) = 0 .. (EntrPerPage - 1)
    BY <1>1, <2>1, OnPage, SortedIsListed
  <2> HIDE DEF p
  <2>5. QED
    BY <1>1, <1>3, <2>1, <2>3, <2>4 DEF LoadOffsets, IInv, TypeOK, Pages
<1>4. QED
  BY <1>2, <1>3 DEF Init

(* Whatever page of the index a call leaves in memory. *)
LEMMA ReadsKeeps ==
  ASSUME IInv, NEW p, ~ compressed => p \in Pages(index) \cup {page.idx}, Reads(p), UNCHANGED file,
         answer'.op \in {"none", "key", "lookup", "prev", "next", "count"}
  PROVE  /\ IInv'
         /\ ~ compressed => page'.idx = p /\ page'.entries = Entries(index, p)
<1>1. index' = index /\ compressed' = compressed /\ compressed \in BOOLEAN
  BY DEF file, IInv, TypeOK
<1>2. CASE compressed
  <2>1. page' = page
    BY <1>2 DEF Reads
  <2>2. QED
    BY <1>1, <1>2, <2>1 DEF IInv, TypeOK, NoPage
<1>3. CASE ~ compressed
  <2>1. page' = LoadPage(index, page, p) /\ p \in Pages(index)
    BY <1>3 DEF Reads, IInv, TypeOK, Pages
  <2>2. page'.idx = p /\ page'.entries = Entries(index, p)
    BY <1>3, <2>1 DEF LoadPage, IInv
  <2>3. DOMAIN Entries(index, p) = 0 .. (EntrPerPage - 1)
    BY <2>1, IndexIsSorted, OnPage, SortedIsListed
  <2>4. TypeOK'
    BY <1>1, <1>3, <2>1, <2>2, <2>3 DEF IInv, TypeOK, Pages, LastPage
  <2>5. QED
    BY <1>1, <1>3, <2>2, <2>4 DEF IInv, Entries, Nentr, LastPage
<1>4. QED
  BY <1>1, <1>2, <1>3

(* What one call does: it keeps the invariant, gives the answer promised, and
   an index in memory suggests a closest word.                             *)
StepIsRight ==
  /\ IInv' /\ index' = index
  /\ Promise!Right(answer')
  /\ SuggestsClosestInMemory'

LEMMA KeyStep ==
  ASSUME IInv, NEW i \in Positions, GetKey(i)
  PROVE  StepIsRight
<1>1. /\ Sorted(index) /\ i \in Places(index) /\ index' = index /\ compressed' = compressed
      /\ answer' = [op |-> "key", idx |-> i,
                    word |-> IF compressed THEN KeyAt(index, i) ELSE page'.entries[Slot(i)]]
  BY IndexIsSorted DEF GetKey, file
<1>2. /\ PageOf(i) \in Pages(index)
      /\ Entries(index, PageOf(i))[Slot(i)] = KeyAt(index, i)
  BY <1>1, PlaceOnItsPage, SortedIsListed
<1>3. /\ IInv'
      /\ ~ compressed => page'.entries = Entries(index, PageOf(i))
  <2>1. Reads(PageOf(i)) /\ UNCHANGED file /\ answer'.op = "key"
    BY <1>1 DEF GetKey
  <2>2. QED
    BY <1>2, <2>1, ReadsKeeps
<1>4. answer'.op = "key" /\ answer'.idx = i /\ answer'.word = KeyAt(index, i)
  BY <1>1, <1>2, <1>3
<1>5. Promise!Right(answer')
  BY <1>4, SameWords DEF Promise!Right, Promise!RightKey
<1>6. QED
  BY <1>1, <1>3, <1>4, <1>5 DEF StepIsRight, SuggestsClosestInMemory

LEMMA LookupStep ==
  ASSUME IInv, NEW w \in Word, LookupWord(w)
  PROVE  StepIsRight
<1> DEFINE r == IF compressed THEN LookupInMemory(index, w) ELSE Lookup(index, page.idx, w)
<1>1. /\ Sorted(index) /\ Positions = Places(index) /\ index' = index /\ compressed' = compressed
      /\ Positions' = Positions /\ compressed \in BOOLEAN
      /\ Reads(r.page) /\ UNCHANGED file
      /\ answer' = [op |-> "lookup", word |-> w, found |-> r.found,
                    idx |-> r.idx, suggest |-> r.suggest]
  BY IndexIsSorted DEF LookupWord, file, Positions, IInv, TypeOK
<1>2. /\ IsAnswer(index, w, r)
      /\ compressed => Closest(index, w, r.suggest)
      /\ ~ compressed => r.page \in Pages(index) \cup {page.idx}
  BY <1>1, LookupInMemoryIs, LookupIs
<1> HIDE DEF r
<1>3. /\ answer'.op = "lookup" /\ answer'.word = w /\ answer'.found = r.found
      /\ answer'.idx = r.idx /\ answer'.suggest = r.suggest
  BY <1>1
<1>4. IInv'
  BY <1>1, <1>2, <1>3, ReadsKeeps
<1>5. IsAnswer(index, w, answer')
  BY <1>2, <1>3 DEF IsAnswer
<1>6. Promise!Right(answer')
  BY <1>1, <1>3, <1>5, LookupIsRight DEF Promise!Right
<1>7. SuggestsClosestInMemory'
  BY <1>1, <1>2, <1>3 DEF SuggestsClosestInMemory, Closest, AllAscii
<1>8. QED
  BY <1>1, <1>4, <1>6, <1>7 DEF StepIsRight

LEMMA PrevStep ==
  ASSUME IInv, NEW i \in Positions \cup {InvalidIndex}, WordPrev(i)
  PROVE  StepIsRight
<1> DEFINE r == GetWordPrev(index, i)
           p == IF i = InvalidIndex THEN page.idx ELSE PageOf(r.idx)
<1>1. /\ Sorted(index) /\ i \in Places(index) \cup {InvalidIndex}
      /\ index' = index /\ compressed' = compressed
      /\ Reads(p) /\ UNCHANGED file
      /\ answer' = [op |-> "prev", idx |-> i, found |-> r.found, to |-> r.idx]
  BY IndexIsSorted DEF WordPrev, file
<1>2. /\ answer'.op = "prev" /\ answer'.idx = i /\ answer'.found = r.found /\ answer'.to = r.idx
  BY <1>1
<1>3. Promise!RightPrev(answer') /\ (i # InvalidIndex => answer'.to \in Places(index))
  BY <1>1, <1>2, PrevIsRight
<1>4. p \in Pages(index) \cup {page.idx}
  <2>1. CASE i = InvalidIndex
    BY <2>1
  <2>2. CASE i # InvalidIndex
    BY <1>1, <1>2, <1>3, <2>2, PlaceOnItsPage, SortedIsListed
  <2>3. QED
    BY <2>1, <2>2
<1> HIDE DEF p, r
<1>5. IInv'
  BY <1>1, <1>2, <1>4, ReadsKeeps
<1>6. Promise!Right(answer')
  BY <1>2, <1>3 DEF Promise!Right
<1>7. QED
  BY <1>1, <1>2, <1>5, <1>6 DEF StepIsRight, SuggestsClosestInMemory

LEMMA NextStep ==
  ASSUME IInv, NEW i \in Positions, WordNext(i)
  PROVE  StepIsRight
<1> DEFINE n == GetWordNext(index, i)
           p == IF n = InvalidIndex THEN LastPage(index) ELSE PageOf(n)
<1>1. /\ Sorted(index) /\ i \in Places(index) /\ index' = index /\ compressed' = compressed
      /\ Reads(p) /\ UNCHANGED file
      /\ answer' = [op |-> "next", idx |-> i, to |-> n]
  BY IndexIsSorted DEF WordNext, file
<1>2. /\ answer'.op = "next" /\ answer'.idx = i /\ answer'.to = n
  BY <1>1
<1>3. Promise!RightNext(answer') /\ (n # InvalidIndex => n \in Places(index))
  BY <1>1, <1>2, NextIsRight
<1> HIDE DEF n
<1>4. p \in Pages(index)
  <2>1. LastPage(index) \in Pages(index)
    BY <1>1, FirstAndLast, PlaceOnItsPage, SortedIsListed DEF LastPage
  <2>2. QED
    BY <1>1, <1>3, <2>1, PlaceOnItsPage, SortedIsListed
<1> HIDE DEF p
<1>5. IInv'
  BY <1>1, <1>2, <1>4, ReadsKeeps
<1>6. Promise!Right(answer')
  BY <1>2, <1>3 DEF Promise!Right
<1>7. QED
  BY <1>1, <1>2, <1>5, <1>6 DEF StepIsRight, SuggestsClosestInMemory

LEMMA CountStep ==
  ASSUME IInv, NEW i \in Positions, OrigWordCount(i)
  PROVE  StepIsRight
<1> DEFINE r == GetOrigWordCount(index, i)
           last == Len(index) - 1
           below == IF r.idx = 0 THEN 0 ELSE r.idx - 1
           above == IF r.idx + r.count > last THEN last ELSE r.idx + r.count
           k == IF i = last THEN below ELSE above
<1>1. /\ Sorted(index) /\ i \in Places(index) /\ index' = index /\ compressed' = compressed
      /\ Reads(PageOf(k)) /\ UNCHANGED file
      /\ answer' = [op |-> "count", idx |-> i, to |-> r.idx, count |-> r.count]
  BY IndexIsSorted DEF OrigWordCount, file
<1>2. /\ answer'.op = "count" /\ answer'.idx = i /\ answer'.to = r.idx /\ answer'.count = r.count
  BY <1>1
<1>3. Promise!RightCount(answer') /\ r.idx \in Places(index) /\ r.count \in Nat
  BY <1>1, <1>2, CountIsRight
<1> HIDE DEF r
<1>4. k \in Places(index)
  BY <1>1, <1>3 DEF Places, Sorted
<1> HIDE DEF k
<1>5. IInv'
  BY <1>1, <1>2, <1>4, PlaceOnItsPage, SortedIsListed, ReadsKeeps
<1>6. Promise!Right(answer')
  BY <1>2, <1>3 DEF Promise!Right
<1>7. QED
  BY <1>1, <1>2, <1>5, <1>6 DEF StepIsRight, SuggestsClosestInMemory

LEMMA EveryStep ==
  ASSUME IInv, Next
  PROVE  StepIsRight
BY KeyStep, LookupStep, PrevStep, NextStep, CountStep DEF Next

(* The invariant, with what follows of it at every moment. *)
THEOREM Invariance == Spec => []IInv
<1>1. Init => IInv
  BY Starts
<1>2. IInv /\ [Next]_vars => IInv'
  <2> SUFFICES ASSUME IInv, [Next]_vars PROVE IInv'
    OBVIOUS
  <2>1. CASE Next
    BY <2>1, EveryStep DEF StepIsRight
  <2>2. CASE UNCHANGED vars
    BY <2>2 DEF vars, file, IInv, TypeOK, NoPage, Entries, Nentr, LastPage
  <2>3. QED
    BY <2>1, <2>2
<1>3. QED
  BY <1>1, <1>2, PTL DEF Spec

(* TypeOK: the page in memory is one of the index, in every reachable state. *)
THEOREM TypeCorrect == Spec => []TypeOK
<1>1. IInv => TypeOK
  BY DEF IInv
<1>2. QED
  BY <1>1, Invariance, PTL

(* PageHoldsItsWords: whatever was read before, the page in memory holds the
   words of the page it is taken for (load_page).                          *)
THEOREM PageIsRight == Spec => []PageHoldsItsWords
<1>1. IInv => PageHoldsItsWords
  <2> SUFFICES ASSUME IInv, NEW i \in Positions, PageOf(i) = page.idx
               PROVE  page.entries[Slot(i)] = KeyAt(index, i)
    BY DEF PageHoldsItsWords
  <2>1. i \in Places(index) /\ Sorted(index)
    BY IndexIsSorted
  <2>2. PageOf(i) \in Nat /\ Entries(index, PageOf(i))[Slot(i)] = KeyAt(index, i)
    BY <2>1, PlaceOnItsPage, SortedIsListed, PlaceOnPage
  <2>3. ~ compressed
    BY <2>2 DEF IInv, NoPage
  <2>4. QED
    BY <2>2, <2>3 DEF IInv
<1>2. QED
  BY <1>1, Invariance, PTL

(* SuggestsClosestInMemory: what an index in memory suggests for a word that
   it has not is a word that begins like it for as long as any (the walk back
   of compressed_index::lookup), if no word has capitals beyond ASCII.     *)
THEOREM SuggestsClosest == Spec => []SuggestsClosestInMemory
<1>1. Init => SuggestsClosestInMemory
  BY DEF Init, SuggestsClosestInMemory
<1>2. IInv /\ SuggestsClosestInMemory /\ [Next]_vars => SuggestsClosestInMemory'
  <2> SUFFICES ASSUME IInv, SuggestsClosestInMemory, [Next]_vars PROVE SuggestsClosestInMemory'
    OBVIOUS
  <2>1. CASE Next
    BY <2>1, EveryStep DEF StepIsRight
  <2>2. CASE UNCHANGED vars
    BY <2>2 DEF vars, file, SuggestsClosestInMemory, Positions
  <2>3. QED
    BY <2>1, <2>2
<1>3. QED
  BY <1>1, <1>2, Invariance, PTL DEF Spec

(* KeepsPromise: an index of either kind, read in any order, whichever page
   the calls before left in memory, answers what an index promises.        *)
THEOREM ImplementsWordIndex == Spec => KeepsPromise
<1>1. Init => Promise!Init
  BY DEF Init, Promise!Init
<1>2. IInv /\ [Next]_vars => [Promise!Next]_(Promise!vars)
  <2> SUFFICES ASSUME IInv, [Next]_vars PROVE [Promise!Next]_(Promise!vars)
    OBVIOUS
  <2>1. CASE Next
    BY <2>1, EveryStep DEF StepIsRight, Promise!Next
  <2>2. CASE UNCHANGED vars
    BY <2>2 DEF vars, file, Promise!vars
  <2>3. QED
    BY <2>1, <2>2
<1>3. QED
  BY <1>1, <1>2, Invariance, PTL DEF Spec, KeepsPromise, Promise!Spec

------------------------------------------------------------------------------
(* The index of a database of resources: its keys are in the order of strcmp. *)

InStrcmpOrder(ws) ==
  /\ Listed(ws)
  /\ \A j, k \in Places(ws) : j <= k => ~ Less(KeyAt(ws, k), KeyAt(ws, j))

LEMMA IndexIsInOrder ==
  ASSUME NEW ws \in Seq(Word), IsIndex(ws)
  PROVE  InStrcmpOrder(ws)
<1>1. Len(ws) \in Nat \ {0} /\ DOMAIN ws = 1 .. Len(ws)
  BY DEF IsIndex
<1>2. \A k \in Places(ws) : k + 1 \in DOMAIN ws /\ KeyAt(ws, k) \in Word
  BY <1>1 DEF Places, KeyAt
<1>3. Listed(ws)
  BY <1>1, <1>2 DEF Listed
<1>4. ASSUME NEW j \in Places(ws), NEW k \in Places(ws), j <= k
      PROVE  ~ Less(KeyAt(ws, k), KeyAt(ws, j))
  <2>1. j + 1 <= k + 1
    BY <1>1, <1>4 DEF Places
  <2>2. Strcmp(KeyAt(ws, k), KeyAt(ws, j)) >= 0
    BY <1>2, <2>1 DEF IsIndex, KeyAt
  <2>3. KeyAt(ws, k) \in Seq(Nat) /\ KeyAt(ws, j) \in Seq(Nat)
    BY <1>2, WordAssumption
  <2>4. QED
    BY <2>2, <2>3, StrcmpIs
<1>5. QED
  BY <1>3, <1>4 DEF InStrcmpOrder

(* A word compares with keys in order as with the greater of them, or less. *)
LEMMA LessOrNot ==
  ASSUME NEW u \in Seq(Nat), NEW v \in Seq(Nat), NEW w \in Seq(Nat), ~ Less(v, u)
  PROVE  /\ Less(w, u) => Less(w, v)
         /\ Less(v, w) => Less(u, w)
<1>1. u = v \/ Less(u, v)
  BY StrcmpIs
<1>2. QED
  BY <1>1, LessTransitive

(* Keys at some places of an index, in order, and how a word compares. *)
IsSample(ws, w, first, last, at, cmp) ==
  /\ InStrcmpOrder(ws) /\ w \in Word
  /\ first \in Int /\ last \in Int /\ first <= last + 1
  /\ \A k \in first .. last : at[k] \in Places(ws) /\ cmp[k] = Strcmp(w, KeyAt(ws, at[k]))
  /\ \A j, k \in first .. last : j <= k => at[j] <= at[k]
  /\ cmp = [k \in first .. last |-> cmp[k]]

(* What a search among them finds. *)
SampleFinds(ws, w, first, last, at, r) ==
  /\ r.found <=> \E k \in first .. last : KeyAt(ws, at[k]) = w
  /\ ~ r.found => /\ r.next \in first .. (last + 1) /\ r.prev = r.next - 1
                  /\ \A k \in first .. last : /\ k < r.next => Less(KeyAt(ws, at[k]), w)
                                              /\ k >= r.next => Less(w, KeyAt(ws, at[k]))

LEMMA SampleIsFound ==
  ASSUME NEW ws, NEW w, NEW first, NEW last, NEW at, NEW cmp, IsSample(ws, w, first, last, at, cmp)
  PROVE  SampleFinds(ws, w, first, last, at, BinarySearch(cmp, first, last))
<1> USE DEF IsSample
<1>1. \A k \in Places(ws) : KeyAt(ws, k) \in Seq(Nat)
  BY WordAssumption DEF InStrcmpOrder, Listed
<1>2. w \in Seq(Nat)
  BY WordAssumption
<1>3. \A k \in first .. last : /\ cmp[k] \in Int
                               /\ cmp[k] = 0 <=> w = KeyAt(ws, at[k])
                               /\ cmp[k] < 0 <=> Less(w, KeyAt(ws, at[k]))
                               /\ cmp[k] > 0 <=> Less(KeyAt(ws, at[k]), w)
  <2> TAKE k \in first .. last
  <2> DEFINE t == KeyAt(ws, at[k])
  <2>1. t \in Seq(Nat) /\ cmp[k] = Strcmp(w, t)
    BY <1>1
  <2> HIDE DEF t
  <2>2. /\ cmp[k] \in {-1, 0, 1}
        /\ cmp[k] = 0 <=> w = t
        /\ cmp[k] < 0 <=> Less(w, t)
        /\ cmp[k] > 0 <=> Less(t, w)
    BY <1>2, <2>1, StrcmpIs
  <2>3. QED
    BY <2>2 DEF t
<1>4. Falling(cmp, first, last)
  <2>1. cmp \in [first .. last -> Int]
    BY <1>3
  <2>2. ASSUME NEW j \in first .. last, NEW k \in first .. last, j <= k
        PROVE  (cmp[j] < 0 => cmp[k] < 0) /\ (cmp[k] > 0 => cmp[j] > 0)
    <3> DEFINE u == KeyAt(ws, at[j])
               v == KeyAt(ws, at[k])
    <3>1. u \in Seq(Nat) /\ v \in Seq(Nat) /\ ~ Less(v, u)
      BY <1>1, <2>2 DEF InStrcmpOrder
    <3>2. (Less(w, u) => Less(w, v)) /\ (Less(v, w) => Less(u, w))
      <4> HIDE DEF u, v
      <4> QED
        BY <1>2, <3>1, LessOrNot
    <3>3. QED
      BY <1>3, <3>2
  <2>3. QED
    BY <2>1, <2>2 DEF Falling
<1> DEFINE r == BinarySearch(cmp, first, last)
<1>5. Finds(cmp, first, last, r)
  BY <1>4, SearchFinds
<1> HIDE DEF r
<1>6. r.found => \E k \in first .. last : KeyAt(ws, at[k]) = w
  BY <1>3, <1>5 DEF Finds
<1>7. ~ r.found => /\ r.next \in first .. (last + 1) /\ r.prev = r.next - 1
                   /\ \A k \in first .. last : /\ k < r.next => Less(KeyAt(ws, at[k]), w)
                                               /\ k >= r.next => Less(w, KeyAt(ws, at[k]))
  BY <1>3, <1>5 DEF Finds
<1>8. ~ r.found => ~ \E k \in first .. last : KeyAt(ws, at[k]) = w
  <2> SUFFICES ASSUME ~ r.found, NEW k \in first .. last, KeyAt(ws, at[k]) = w PROVE FALSE
    OBVIOUS
  <2>1. Less(w, w)
    <3>1. k < r.next \/ k >= r.next
      BY <1>7
    <3>2. QED
      BY <1>7, <3>1
  <2>2. QED
    BY <1>2, <2>1, StrcmpIs
<1>9. QED
  BY <1>6, <1>7, <1>8 DEF SampleFinds, r

(* A key of the index is not outside it. *)
LEMMA KeyIsInside ==
  ASSUME NEW ws, InStrcmpOrder(ws), NEW w \in Word
  PROVE  /\ FirstKey(ws) = KeyAt(ws, 0) /\ 0 \in Places(ws)
         /\ Strcmp(w, FirstKey(ws)) >= 0 <=> ~ Less(w, KeyAt(ws, 0))
         /\ \A k \in Places(ws) : KeyAt(ws, k) = w =>
              Strcmp(w, FirstKey(ws)) >= 0 /\ Strcmp(w, LastKey(ws)) <= 0
<1> DEFINE n == Len(ws) - 1
<1>1. Len(ws) \in Nat \ {0} /\ n + 1 = Len(ws) /\ 0 \in Places(ws) /\ n \in Places(ws) /\ n \in Nat
      /\ \A k \in Places(ws) : k \in Nat /\ 0 <= k /\ k <= n
  BY DEF InStrcmpOrder, Listed, Places
<1>2. FirstKey(ws) = KeyAt(ws, 0) /\ LastKey(ws) = KeyAt(ws, n)
  BY <1>1 DEF FirstKey, LastKey, KeyAt, InStrcmpOrder, Listed
<1> HIDE DEF n
<1>3. \A k \in Places(ws) : KeyAt(ws, k) \in Seq(Nat)
  BY WordAssumption DEF InStrcmpOrder, Listed
<1>4. w \in Seq(Nat)
  BY WordAssumption
<1>5. \A t \in Seq(Nat) : /\ Strcmp(w, t) >= 0 <=> ~ Less(w, t)
                          /\ Strcmp(w, t) <= 0 <=> ~ Less(t, w)
  <2> TAKE t \in Seq(Nat)
  <2>1. /\ Strcmp(w, t) \in {-1, 0, 1}
        /\ Strcmp(w, t) < 0 <=> Less(w, t)
        /\ Strcmp(w, t) > 0 <=> Less(t, w)
    BY <1>4, StrcmpIs
  <2>2. QED
    BY <2>1
<1>6. ASSUME NEW k \in Places(ws), KeyAt(ws, k) = w
      PROVE  ~ Less(w, KeyAt(ws, 0)) /\ ~ Less(KeyAt(ws, n), w)
  BY <1>1, <1>6 DEF InStrcmpOrder
<1>7. QED
  BY <1>1, <1>2, <1>3, <1>5, <1>6

(* An index held in memory. *)
LEMMA MemoryLookupIs ==
  ASSUME NEW ws, InStrcmpOrder(ws), NEW w \in Word
  PROVE  MemoryLookup(ws, w) <=> \E k \in Places(ws) : KeyAt(ws, k) = w
<1> DEFINE last == Len(ws) - 1
           at == [k \in 0 .. last |-> k]
           cmp == [k \in 0 .. last |-> Strcmp(w, KeyAt(ws, k))]
           r == BinarySearch(cmp, 0, last)
<1>1. last \in Nat /\ Places(ws) = 0 .. last
  BY DEF InStrcmpOrder, Listed, Places
<1>2. IsSample(ws, w, 0, last, at, cmp)
  BY <1>1 DEF IsSample
<1>3. \A k \in 0 .. last : at[k] = k
  OBVIOUS
<1> HIDE DEF at
<1>4. SampleFinds(ws, w, 0, last, at, r)
  <2> HIDE DEF cmp, last
  <2> QED
    BY <1>2, SampleIsFound
<1>5. r.found <=> \E k \in Places(ws) : KeyAt(ws, k) = w
  BY <1>1, <1>3, <1>4 DEF SampleFinds
<1>6. MemoryLookup(ws, w) <=> /\ Strcmp(w, FirstKey(ws)) >= 0 /\ Strcmp(w, LastKey(ws)) <= 0
                              /\ r.found
  BY DEF MemoryLookup
<1> HIDE DEF r
<1>7. QED
  BY <1>5, <1>6, KeyIsInside

(* An index on disk: among the first keys of the pages, then on one page. *)
LEMMA PagedLookupIs ==
  ASSUME NEW ws, InStrcmpOrder(ws), NEW w \in Word
  PROVE  PagedLookup(ws, w) <=> \E k \in Places(ws) : KeyAt(ws, k) = w
<1> DEFINE E == EntrPerPage
           last == LastPage(ws)
           at == [p \in 0 .. last |-> p * E]
           cmp == [p \in 0 .. last |-> Strcmp(w, FirstOnPageKey(ws, p))]
           r == BinarySearch(cmp, 0, last)
<1>1. Listed(ws) /\ E \in Nat \ {0}
  BY EntrPerPageAssumption DEF InStrcmpOrder
<1>2. last \in Nat /\ Pages(ws) = 0 .. last
  <2>1. Len(ws) - 1 \in Nat
    BY <1>1 DEF Listed
  <2>2. QED
    BY <2>1, PlaceOnPage DEF LastPage, Pages
<1>3. \A p \in 0 .. last : /\ p \in Nat /\ p * E \in Places(ws) /\ p * E \in Nat
                           /\ FirstOnPageKey(ws, p) = KeyAt(ws, p * E)
  <2> TAKE p \in 0 .. last
  <2>1. p \in Nat /\ p * E \in Places(ws)
    BY <1>1, <1>2, PageEnds
  <2>2. p * E \in Nat
    BY <1>1, <2>1
  <2>3. QED
    BY <2>1, <2>2 DEF FirstOnPageKey
<1>4. IsSample(ws, w, 0, last, at, cmp)
  <2>1. \A p \in 0 .. last : at[p] \in Places(ws) /\ cmp[p] = Strcmp(w, KeyAt(ws, at[p]))
    BY <1>3
  <2>2. \A p, q \in 0 .. last : p <= q => at[p] <= at[q]
    BY <1>1, <1>3, TimesMonotonic
  <2>3. cmp = [p \in 0 .. last |-> cmp[p]]
    OBVIOUS
  <2> HIDE DEF at, cmp, last
  <2>4. QED
    BY <1>2, <2>1, <2>2, <2>3 DEF IsSample
<1>5. \A p \in 0 .. last : at[p] = p * E
  OBVIOUS
<1>6. SampleFinds(ws, w, 0, last, at, r)
  <2> HIDE DEF at, cmp, last
  <2> QED
    BY <1>4, SampleIsFound
<1>7. PagedLookup(ws, w) <=> /\ Strcmp(w, FirstKey(ws)) >= 0 /\ Strcmp(w, LastKey(ws)) <= 0
                             /\ r.found \/ KeyOnPage(ws, w, r.prev)
  BY DEF PagedLookup
<1> HIDE DEF at, r, cmp
<1>8. CASE r.found
  <2>1. \E k \in Places(ws) : KeyAt(ws, k) = w
    BY <1>3, <1>5, <1>6, <1>8 DEF SampleFinds
  <2>2. QED
    BY <1>7, <1>8, <2>1, KeyIsInside
<1>9. CASE ~ r.found /\ Less(w, KeyAt(ws, 0))
  BY <1>7, <1>9, KeyIsInside
<1>10. CASE ~ r.found /\ ~ Less(w, KeyAt(ws, 0))
  <2> DEFINE p == r.prev
             n == Nentr(ws, p)
             on == [s \in 1 .. (n - 1) |-> p * E + s]
             with == [s \in 1 .. (n - 1) |-> Strcmp(w, Entries(ws, p)[s])]
  <2>1. /\ r.next \in 0 .. (last + 1) /\ p = r.next - 1
        /\ \A q \in 0 .. last : /\ q < r.next => Less(KeyAt(ws, q * E), w)
                                /\ q >= r.next => Less(w, KeyAt(ws, q * E))
        /\ \A q \in 0 .. last : KeyAt(ws, q * E) # w
    BY <1>5, <1>6, <1>10 DEF SampleFinds
  <2>2. r.next # 0
    <3>1. 0 \in 0 .. last /\ 0 * E = 0
      BY <1>1, <1>2
    <3>2. QED
      BY <1>10, <2>1, <3>1
  <2>3. p \in 0 .. last /\ p \in Pages(ws)
    BY <1>2, <2>1, <2>2
  <2> HIDE DEF p
  <2>4. /\ n \in 1 .. E
        /\ \A s \in 0 .. (n - 1) : /\ p * E + s \in Places(ws)
                                   /\ Entries(ws, p)[s] = KeyAt(ws, p * E + s)
    BY <1>1, <2>3, PageEnds, OnPage
  <2> HIDE DEF n
  <2>5. IsSample(ws, w, 1, n - 1, on, with)
    <3>1. \A s \in 1 .. (n - 1) : on[s] \in Places(ws) /\ with[s] = Strcmp(w, KeyAt(ws, on[s]))
      BY <1>1, <2>4
    <3>2. \A s, u \in 1 .. (n - 1) : s <= u => on[s] <= on[u]
      BY <1>3, <2>3
    <3>3. with = [s \in 1 .. (n - 1) |-> with[s]]
      OBVIOUS
    <3>4. 1 \in Int /\ n - 1 \in Int /\ 1 <= (n - 1) + 1
      BY <1>1, <2>4
    <3> HIDE DEF on, with
    <3>5. QED
      BY <3>1, <3>2, <3>3, <3>4 DEF IsSample
  <2>6. \A s \in 1 .. (n - 1) : on[s] = p * E + s
    OBVIOUS
  <2>7. KeyOnPage(ws, w, p) <=> BinarySearch(with, 1, n - 1).found
    BY DEF KeyOnPage, n
  <2>8. KeyOnPage(ws, w, p) <=> \E s \in 1 .. (n - 1) : KeyAt(ws, p * E + s) = w
    <3> DEFINE found == BinarySearch(with, 1, n - 1)
    <3> HIDE DEF on, with
    <3>1. SampleFinds(ws, w, 1, n - 1, on, found)
      BY <2>5, SampleIsFound
    <3> HIDE DEF found
    <3>2. found.found <=> \E s \in 1 .. (n - 1) : KeyAt(ws, p * E + s) = w
      BY <2>6, <3>1 DEF SampleFinds
    <3>3. QED
      BY <2>7, <3>2 DEF found
  <2>9. KeyOnPage(ws, w, p) => \E k \in Places(ws) : KeyAt(ws, k) = w
    BY <1>1, <2>4, <2>8
  <2>10. ASSUME NEW k \in Places(ws), KeyAt(ws, k) = w
         PROVE  KeyOnPage(ws, w, p)
    <3> DEFINE q == PageOf(k)
               s == Slot(k)
    <3>1. /\ k \in Nat /\ q \in 0 .. last /\ s \in 0 .. (Nentr(ws, q) - 1) /\ s \in 0 .. (E - 1)
          /\ k = q * E + s
      <4>1. k \in Nat /\ q \in Pages(ws) /\ s \in 0 .. (Nentr(ws, q) - 1)
        BY <1>1, PlaceOnItsPage
      <4>2. s \in 0 .. (E - 1) /\ k = q * E + s
        BY <4>1, PlaceOnPage
      <4>3. QED
        BY <1>2, <4>1, <4>2
    <3> HIDE DEF q, s
    <3>2. q * E \in Nat /\ p * E \in Nat /\ q * E \in Places(ws) /\ p * E \in Places(ws)
      BY <1>3, <2>3, <3>1
    <3>3. ~ (q > p)
      <4> SUFFICES ASSUME q > p PROVE FALSE
        OBVIOUS
      <4>1. q >= r.next
        BY <1>2, <2>1, <2>3, <3>1 DEF p
      <4>2. Less(w, KeyAt(ws, q * E))
        BY <2>1, <3>1, <4>1
      <4>3. q * E <= k
        BY <3>1, <3>2
      <4>4. QED
        BY <2>10, <3>2, <4>2, <4>3 DEF InStrcmpOrder
    <3>4. ~ (q < p)
      <4> SUFFICES ASSUME q < p PROVE FALSE
        OBVIOUS
      <4>1. p < r.next
        BY <1>2, <2>1, <2>3 DEF p
      <4>2. Less(KeyAt(ws, p * E), w)
        BY <2>1, <2>3, <4>1
      <4>3. (q + 1) * E <= p * E
        BY <1>1, <1>3, <2>3, <3>1, TimesMonotonic
      <4>4. (q + 1) * E = q * E + E
        BY <1>1, <3>1
      <4>5. k <= p * E
        BY <1>1, <3>1, <3>2, <4>3, <4>4
      <4>6. QED
        BY <2>10, <3>2, <4>2, <4>5 DEF InStrcmpOrder
    <3>5. q = p
      BY <2>3, <3>1, <3>3, <3>4
    <3>6. s # 0
      <4>1. s = 0 => k = p * E
        BY <3>1, <3>2, <3>5
      <4>2. QED
        BY <2>1, <2>3, <2>10, <4>1
    <3>7. s \in 1 .. (n - 1) /\ KeyAt(ws, p * E + s) = w
      BY <1>1, <2>4, <2>10, <3>1, <3>5, <3>6 DEF n
    <3>8. QED
      BY <2>8, <3>7
  <2>11. PagedLookup(ws, w) <=> /\ Strcmp(w, FirstKey(ws)) >= 0 /\ Strcmp(w, LastKey(ws)) <= 0
                                /\ KeyOnPage(ws, w, p)
    BY <1>7, <1>10 DEF p
  <2>12. QED
    BY <2>9, <2>10, <2>11, KeyIsInside
<1>11. QED
  BY <1>8, <1>9, <1>10

------------------------------------------------------------------------------
(* Temporary files and their FileHolders. *)

TempFile == [data : Resource \cup {Bad}, count : Nat \ {0}]

AreFiles(t) == DOMAIN t \subseteq File /\ t \in [DOMAIN t -> TempFile]

(* How many FileHolders a file has; a file without one is not there. *)
Count(t, f) == IF f \in DOMAIN t THEN t[f].count ELSE 0

(* Of the files that stay the contents are the same. *)
SameFiles(t, u) == DOMAIN u \subseteq DOMAIN t /\ \A f \in DOMAIN u : u[f].data = t[f].data

One(f, h) == IF f = h THEN 1 ELSE 0

LEMMA CountIs ==
  ASSUME NEW t, AreFiles(t)
  PROVE  \A f : Count(t, f) \in Nat /\ (f \in DOMAIN t <=> Count(t, f) # 0)
BY DEF AreFiles, TempFile, Count

(* FileBase::AddRef *)
LEMMA AddRefIs ==
  ASSUME NEW t, AreFiles(t), NEW h
  PROVE  /\ AreFiles(AddRef(t, h))
         /\ SameFiles(t, AddRef(t, h)) /\ DOMAIN AddRef(t, h) = DOMAIN t
         /\ \A f : Count(AddRef(t, h), f) =
                     IF f \in DOMAIN t THEN Count(t, f) + One(f, h) ELSE 0
<1> DEFINE u == AddRef(t, h)
<1>1. DOMAIN u = DOMAIN t
  BY DEF AddRef
<1>2. \A f \in DOMAIN t : t[f] \in TempFile
  BY DEF AreFiles
<1>3. ASSUME NEW f \in DOMAIN t
      PROVE  u[f] \in TempFile /\ u[f].data = t[f].data /\ u[f].count = t[f].count + One(f, h)
  <2>1. u[f] = IF f = h THEN [t[f] EXCEPT !.count = @ + 1] ELSE t[f]
    BY DEF AddRef
  <2>2. t[f] \in TempFile
    BY <1>2
  <2>3. QED
    BY <2>1, <2>2 DEF TempFile, One
<1>4. u = [f \in DOMAIN u |-> u[f]]
  BY DEF AddRef
<1> HIDE DEF u
<1>5. AreFiles(u)
  BY <1>1, <1>3, <1>4 DEF AreFiles
<1>6. SameFiles(t, u)
  BY <1>1, <1>3 DEF SameFiles
<1>7. \A f : Count(u, f) = IF f \in DOMAIN t THEN Count(t, f) + One(f, h) ELSE 0
  BY <1>1, <1>3 DEF Count
<1>8. QED
  BY <1>1, <1>5, <1>6, <1>7 DEF u

(* FileBase::Release *)
LEMMA ReleaseIs ==
  ASSUME NEW t, AreFiles(t), NEW h
  PROVE  /\ AreFiles(Release(t, h)) /\ SameFiles(t, Release(t, h))
         /\ \A f : Count(Release(t, h), f) =
                     IF f \in DOMAIN t THEN Count(t, f) - One(f, h) ELSE 0
<1> DEFINE u == Release(t, h)
<1>1. DOMAIN u = {g \in DOMAIN t : g # h \/ t[g].count > 1}
  BY DEF Release
<1>2. \A f \in DOMAIN t : t[f] \in TempFile
  BY DEF AreFiles
<1>3. ASSUME NEW f \in DOMAIN u
      PROVE  u[f] \in TempFile /\ u[f].data = t[f].data /\ u[f].count = t[f].count - One(f, h)
  <2>1. u[f] = IF f = h THEN [t[f] EXCEPT !.count = @ - 1] ELSE t[f]
    BY <1>1 DEF Release
  <2>2. t[f] \in TempFile /\ (f # h \/ t[f].count > 1)
    BY <1>1, <1>2
  <2>3. QED
    BY <2>1, <2>2 DEF TempFile, One
<1>4. u = [f \in DOMAIN u |-> u[f]]
  BY DEF Release
<1>5. DOMAIN u \subseteq DOMAIN t
  BY <1>1
<1>6. \A f \in DOMAIN t : f \notin DOMAIN u => f = h /\ t[f].count = 1
  <2> TAKE f \in DOMAIN t
  <2>1. t[f].count \in Nat \ {0}
    BY <1>2 DEF TempFile
  <2>2. QED
    BY <1>1, <2>1
<1> HIDE DEF u
<1>7. AreFiles(u)
  BY <1>3, <1>4, <1>5 DEF AreFiles
<1>8. SameFiles(t, u)
  BY <1>3, <1>5 DEF SameFiles
<1>9. \A f : Count(u, f) = IF f \in DOMAIN t THEN Count(t, f) - One(f, h) ELSE 0
  BY <1>3, <1>5, <1>6 DEF Count, One
<1>10. QED
  BY <1>7, <1>8, <1>9 DEF u

(* What several FileHolders leave: they cannot be more than are counted. *)
LEMMA ReleaseAllIs ==
  ASSUME NEW t, AreFiles(t), NEW held, IsFiniteSet(DOMAIN held),
         \A f \in DOMAIN t : Cardinality({x \in DOMAIN held : held[x] = f}) <= Count(t, f)
  PROVE  /\ AreFiles(ReleaseAll(t, held)) /\ SameFiles(t, ReleaseAll(t, held))
         /\ \A f : Count(ReleaseAll(t, held), f) =
                     IF f \in DOMAIN t
                     THEN Count(t, f) - Cardinality({x \in DOMAIN held : held[x] = f}) ELSE 0
<1> DEFINE u == ReleaseAll(t, held)
           n(f) == Cardinality({x \in DOMAIN held : held[x] = f})
<1>1. DOMAIN u = {g \in DOMAIN t : t[g].count > n(g)}
  BY DEF ReleaseAll
<1>2. \A f \in DOMAIN t : t[f] \in TempFile
  BY DEF AreFiles
<1>3. \A f : n(f) \in Nat
  <2> TAKE f
  <2>1. {x \in DOMAIN held : held[x] = f} \in SUBSET DOMAIN held
    OBVIOUS
  <2>2. IsFiniteSet({x \in DOMAIN held : held[x] = f})
    BY <2>1, FS_Subset
  <2>3. QED
    BY <2>2, FS_CardinalityType
<1>4. \A f \in DOMAIN u : u[f] = [t[f] EXCEPT !.count = @ - n(f)]
  BY <1>1 DEF ReleaseAll
<1>5. \A f \in DOMAIN t : n(f) <= t[f].count
  BY DEF Count
<1>6. u = [f \in DOMAIN u |-> u[f]]
  BY DEF ReleaseAll
<1> HIDE DEF u, n
<1>7. ASSUME NEW f \in DOMAIN u
      PROVE  u[f] \in TempFile /\ u[f].data = t[f].data /\ u[f].count = t[f].count - n(f)
  <2>1. t[f] \in TempFile /\ t[f].count > n(f)
    BY <1>1, <1>2
  <2>2. QED
    BY <1>3, <1>4, <2>1 DEF TempFile
<1>8. \A f \in DOMAIN t : f \notin DOMAIN u => t[f].count = n(f)
  <2> TAKE f \in DOMAIN t
  <2>1. t[f].count \in Nat \ {0}
    BY <1>2 DEF TempFile
  <2>2. QED
    BY <1>1, <1>3, <1>5, <2>1
<1>9. DOMAIN u \subseteq DOMAIN t
  BY <1>1
<1>10. \A f : Count(u, f) = IF f \in DOMAIN t THEN Count(t, f) - n(f) ELSE 0
  <2> TAKE f
  <2>1. CASE f \in DOMAIN u
    BY <1>7, <1>9, <2>1 DEF Count
  <2>2. CASE f \in DOMAIN t /\ f \notin DOMAIN u
    BY <1>3, <1>8, <2>2 DEF Count
  <2>3. CASE f \notin DOMAIN t
    BY <1>9, <2>3 DEF Count
  <2>4. QED
    BY <2>1, <2>2, <2>3
<1>11. AreFiles(u) /\ SameFiles(t, u)
  BY <1>6, <1>7, <1>9 DEF AreFiles, SameFiles
<1>12. QED
  BY <1>10, <1>11 DEF u, n

LEMMA CreateIs ==
  ASSUME NEW t, AreFiles(t), NEW f \in Unused(t), NEW data \in Resource \cup {Bad}
  PROVE  /\ AreFiles(Create(t, f, data)) /\ f \in DOMAIN Create(t, f, data)
         /\ SameFiles(Create(t, f, data), t) /\ Create(t, f, data)[f].data = data
         /\ DOMAIN Create(t, f, data) = DOMAIN t \cup {f}
         /\ \A g : Count(Create(t, f, data), g) = IF g = f THEN 1 ELSE Count(t, g)
<1> DEFINE u == Create(t, f, data)
<1>1. f \in File /\ f \notin DOMAIN t
  BY DEF Unused
<1>2. \A g \in DOMAIN t : t[g] \in TempFile
  BY DEF AreFiles
<1>3. DOMAIN u = DOMAIN t \cup {f}
  BY DEF Create
<1>4. u[f] = [data |-> data, count |-> 1] /\ \A g \in DOMAIN t : u[g] = t[g]
  BY <1>1 DEF Create
<1>5. [data |-> data, count |-> 1] \in TempFile
  BY DEF TempFile
<1>6. u = [g \in DOMAIN u |-> u[g]]
  BY DEF Create
<1> HIDE DEF u
<1>7. AreFiles(u)
  BY <1>1, <1>2, <1>3, <1>4, <1>5, <1>6 DEF AreFiles
<1>8. SameFiles(u, t)
  BY <1>3, <1>4 DEF SameFiles
<1>9. \A g : Count(u, g) = IF g = f THEN 1 ELSE Count(t, g)
  BY <1>3, <1>4 DEF Count
<1>10. QED
  BY <1>3, <1>4, <1>7, <1>8, <1>9 DEF u

LEMMA SameFilesTransitive ==
  ASSUME NEW t, NEW u, NEW v, SameFiles(t, u), SameFiles(u, v)
  PROVE  SameFiles(t, v)
BY DEF SameFiles

(* A new file is left with two FileHolders, the caller's and the ring's, and
   the file that the ring held in its place is released.                   *)
LEMMA NewFileIs ==
  ASSUME NEW t, AreFiles(t), NEW f \in Unused(t), NEW data \in Resource \cup {Bad}, NEW old, old # f
  PROVE  /\ AreFiles(Kept(Create(t, f, data), f, old))
         /\ SameFiles(Create(t, f, data), Kept(Create(t, f, data), f, old))
         /\ \A g : Count(Kept(Create(t, f, data), f, old), g) =
                     IF g = f THEN 2
                     ELSE IF g \in DOMAIN t THEN Count(t, g) - One(g, old) ELSE 0
<1> DEFINE a == Create(t, f, data)
           b == AddRef(a, f)
           c == Release(b, old)
           d == AddRef(c, f)
           e == Release(d, f)
<1>1. /\ AreFiles(a) /\ f \in DOMAIN a /\ DOMAIN a = DOMAIN t \cup {f}
      /\ \A g : Count(a, g) = IF g = f THEN 1 ELSE Count(t, g)
  BY CreateIs
<1> HIDE DEF a
<1>2. /\ AreFiles(b) /\ SameFiles(a, b) /\ DOMAIN b = DOMAIN a
      /\ \A g : Count(b, g) = IF g \in DOMAIN a THEN Count(a, g) + One(g, f) ELSE 0
  BY <1>1, AddRefIs
<1> HIDE DEF b
<1>3. /\ AreFiles(c) /\ SameFiles(b, c)
      /\ \A g : Count(c, g) = IF g \in DOMAIN b THEN Count(b, g) - One(g, old) ELSE 0
  BY <1>2, ReleaseIs
<1> HIDE DEF c
<1>4. /\ AreFiles(d) /\ SameFiles(c, d) /\ DOMAIN d = DOMAIN c
      /\ \A g : Count(d, g) = IF g \in DOMAIN c THEN Count(c, g) + One(g, f) ELSE 0
  BY <1>3, AddRefIs
<1> HIDE DEF d
<1>5. /\ AreFiles(e) /\ SameFiles(d, e)
      /\ \A g : Count(e, g) = IF g \in DOMAIN d THEN Count(d, g) - One(g, f) ELSE 0
  BY <1>4, ReleaseIs
<1> HIDE DEF e
<1>6. e = Kept(a, f, old)
  BY DEF e, d, c, b, Kept, Assign
<1>7. f \in File /\ f \notin DOMAIN t
  BY DEF Unused
<1>8. \A g : Count(t, g) \in Nat /\ (g \in DOMAIN t <=> Count(t, g) # 0)
  BY CountIs
<1>9. \A g : Count(c, g) \in Nat /\ (g \in DOMAIN c <=> Count(c, g) # 0)
  BY <1>3, CountIs
<1>10. Count(e, f) = 2
  <2>1. Count(a, f) = 1 /\ One(f, f) = 1 /\ One(f, old) = 0
    BY <1>1 DEF One
  <2>2. Count(b, f) = 2
    BY <1>1, <1>2, <2>1
  <2>3. Count(c, f) = 2 /\ f \in DOMAIN c
    BY <1>1, <1>2, <1>3, <1>9, <2>1, <2>2
  <2>4. Count(d, f) = 3 /\ f \in DOMAIN d
    BY <1>4, <2>1, <2>3
  <2>5. QED
    BY <1>5, <2>1, <2>4
<1>11. ASSUME NEW g, g # f
       PROVE  Count(e, g) = IF g \in DOMAIN t THEN Count(t, g) - One(g, old) ELSE 0
  <2>1. One(g, f) = 0 /\ One(g, old) \in {0, 1}
    BY <1>11 DEF One
  <2>2. Count(a, g) = Count(t, g) /\ (g \in DOMAIN a <=> g \in DOMAIN t)
    BY <1>1, <1>11
  <2>3. Count(b, g) = Count(t, g) /\ (g \in DOMAIN b <=> g \in DOMAIN t)
    BY <1>2, <1>8, <2>1, <2>2
  <2>4. Count(c, g) = IF g \in DOMAIN t THEN Count(t, g) - One(g, old) ELSE 0
    BY <1>3, <2>3
  <2>5. Count(d, g) = Count(c, g)
    BY <1>4, <1>9, <2>1
  <2>6. Count(e, g) = Count(d, g)
    <3>1. Count(d, g) \in Nat /\ (g \in DOMAIN d <=> Count(d, g) # 0)
      BY <1>4, CountIs
    <3>2. QED
      BY <1>5, <2>1, <3>1
  <2>7. QED
    BY <2>4, <2>5, <2>6
<1>12. SameFiles(a, e)
  BY <1>2, <1>3, <1>4, <1>5, SameFilesTransitive
<1>13. QED
  BY <1>5, <1>6, <1>10, <1>11, <1>12 DEF a

(* A file of the ring is given to a ResData that held none. *)
LEMMA AgainIs ==
  ASSUME NEW t, AreFiles(t), NEW f \in DOMAIN t
  PROVE  LET u == Release(Assign(AddRef(t, f), Nil, f), f)
         IN  /\ AreFiles(u) /\ SameFiles(t, u)
             /\ \A g : Count(u, g) = Count(t, g) + One(g, f)
<1> DEFINE a == AddRef(t, f)
           b == AddRef(a, f)
           c == Release(b, Nil)
           d == Release(c, f)
<1>1. /\ AreFiles(a) /\ SameFiles(t, a) /\ DOMAIN a = DOMAIN t
      /\ \A g : Count(a, g) = IF g \in DOMAIN t THEN Count(t, g) + One(g, f) ELSE 0
  BY AddRefIs
<1> HIDE DEF a
<1>2. /\ AreFiles(b) /\ SameFiles(a, b) /\ DOMAIN b = DOMAIN a
      /\ \A g : Count(b, g) = IF g \in DOMAIN a THEN Count(a, g) + One(g, f) ELSE 0
  BY <1>1, AddRefIs
<1> HIDE DEF b
<1>3. /\ AreFiles(c) /\ SameFiles(b, c)
      /\ \A g : Count(c, g) = IF g \in DOMAIN b THEN Count(b, g) - One(g, Nil) ELSE 0
  BY <1>2, ReleaseIs
<1> HIDE DEF c
<1>4. /\ AreFiles(d) /\ SameFiles(c, d)
      /\ \A g : Count(d, g) = IF g \in DOMAIN c THEN Count(c, g) - One(g, f) ELSE 0
  BY <1>3, ReleaseIs
<1> HIDE DEF d
<1>5. d = Release(Assign(AddRef(t, f), Nil, f), f)
  BY DEF d, c, b, a, Assign
<1>6. f \in File
  BY DEF AreFiles
<1>7. \A g : Count(t, g) \in Nat /\ (g \in DOMAIN t <=> Count(t, g) # 0)
  BY CountIs
<1>8. \A g : Count(c, g) \in Nat /\ (g \in DOMAIN c <=> Count(c, g) # 0)
  BY <1>3, CountIs
<1>9. ASSUME NEW g PROVE Count(d, g) = Count(t, g) + One(g, f)
  <2>1. CASE g \in DOMAIN t
    <3>1. g # Nil
      BY <2>1, NamesAssumption DEF AreFiles
    <3>2. One(g, f) \in {0, 1} /\ One(g, Nil) = 0
      BY <3>1 DEF One
    <3>3. Count(b, g) = Count(t, g) + One(g, f) + One(g, f)
      BY <1>1, <1>2, <1>7, <2>1, <3>2
    <3>4. Count(c, g) = Count(t, g) + One(g, f) + One(g, f) /\ g \in DOMAIN c
      BY <1>1, <1>2, <1>3, <1>7, <1>8, <2>1, <3>2, <3>3
    <3>5. QED
      BY <1>4, <1>7, <3>2, <3>4
  <2>2. CASE g \notin DOMAIN t
    <3>1. One(g, f) = 0 /\ Count(t, g) = 0
      BY <1>7, <2>2 DEF One
    <3>2. g \notin DOMAIN b
      BY <1>1, <1>2, <2>2
    <3>3. Count(c, g) = 0 /\ g \notin DOMAIN c
      BY <1>3, <1>8, <3>2
    <3>4. QED
      BY <1>4, <3>1, <3>3
  <2>3. QED
    BY <2>1, <2>2
<1>10. SameFiles(t, d)
  BY <1>1, <1>2, <1>3, <1>4, SameFilesTransitive
<1>11. QED
  BY <1>4, <1>5, <1>9, <1>10

------------------------------------------------------------------------------
(* Who holds a file. *)

ButtonsWith(bs, f) == {b \in Button : bs[b] # Nil /\ bs[b].file = f}

SlotsWith(fc, f) ==
  {s \in Dicts \X Slots(FileCacheSize) :
     s[2] \in DOMAIN fc[s[1]].slot /\ fc[s[1]].slot[s[2]].data = f}

AreButtons(bs) == bs \in [Button -> {Nil} \cup ResData]

AreRings(fc) == fc \in [Dicts -> Pool(FileCacheSize, Key, File)]

LEMMA PlacesInRingsAreFinite == IsFiniteSet(Dicts \X Slots(FileCacheSize))
<1>1. FileCacheSize \in Nat /\ IsFiniteSet(Dicts)
  BY StorageAssumption
<1>2. FileCacheSize - 1 \in Int /\ 0 \in Int
  BY <1>1
<1>3. IsFiniteSet(0 .. (FileCacheSize - 1))
  BY <1>2, FS_Interval
<1>4. IsFiniteSet(Slots(FileCacheSize))
  BY <1>3 DEF Slots
<1>5. QED
  BY <1>1, <1>4, FS_Product

LEMMA HoldersAreFinite ==
  ASSUME NEW bs, NEW fc, NEW f
  PROVE  /\ IsFiniteSet(ButtonsWith(bs, f)) /\ Cardinality(ButtonsWith(bs, f)) \in Nat
         /\ IsFiniteSet(SlotsWith(fc, f)) /\ Cardinality(SlotsWith(fc, f)) \in Nat
<1>1. ButtonsWith(bs, f) \in SUBSET Button /\ SlotsWith(fc, f) \in SUBSET (Dicts \X Slots(FileCacheSize))
  BY DEF ButtonsWith, SlotsWith
<1>2. IsFiniteSet(Button)
  BY StorageAssumption
<1>3. IsFiniteSet(ButtonsWith(bs, f)) /\ IsFiniteSet(SlotsWith(fc, f))
  BY <1>1, <1>2, PlacesInRingsAreFinite, FS_Subset
<1>4. QED
  BY <1>3, FS_CardinalityType

(* A ResData that holds nothing counts for no file. *)
LEMMA ButtonWithoutFile ==
  ASSUME NEW bs, AreButtons(bs), NEW b \in Button, NEW r \in ResData, r.file \notin File,
         bs[b] = Nil \/ bs[b].file \notin File
  PROVE  /\ AreButtons([bs EXCEPT ![b] = r])
         /\ \A f \in File : ButtonsWith([bs EXCEPT ![b] = r], f) = ButtonsWith(bs, f)
BY DEF AreButtons, ButtonsWith

LEMMA ButtonTakesFile ==
  ASSUME NEW bs, AreButtons(bs), NEW b \in Button, bs[b] # Nil, bs[b].file = Nil,
         NEW h \in File
  PROVE  /\ AreButtons([bs EXCEPT ![b].file = h])
         /\ \A f \in File : Cardinality(ButtonsWith([bs EXCEPT ![b].file = h], f)) =
                              Cardinality(ButtonsWith(bs, f)) + One(f, h)
<1> DEFINE new == [bs EXCEPT ![b].file = h]
<1>1. bs[b] \in ResData /\ new[b] = [bs[b] EXCEPT !.file = h]
  BY DEF AreButtons
<1>2. new[b] \in ResData /\ new[b].file = h
  BY <1>1 DEF ResData
<1>3. new \in [Button -> {Nil} \cup ResData] /\ \A c \in Button : c # b => new[c] = bs[c]
  BY <1>2 DEF AreButtons
<1>4. Nil \notin File /\ Nil \notin ResData
  BY NamesAssumption
<1> HIDE DEF new
<1>5. ASSUME NEW f \in File
      PROVE  Cardinality(ButtonsWith(new, f)) = Cardinality(ButtonsWith(bs, f)) + One(f, h)
  <2>1. b \notin ButtonsWith(bs, f)
    BY <1>4 DEF ButtonsWith
  <2>2. CASE f = h
    <3>1. ButtonsWith(new, f) = ButtonsWith(bs, f) \cup {b}
      BY <1>2, <1>3, <1>4, <2>2 DEF ButtonsWith
    <3>2. Cardinality(ButtonsWith(bs, f) \cup {b}) = Cardinality(ButtonsWith(bs, f)) + 1
      BY <2>1, HoldersAreFinite, FS_AddElement
    <3>3. QED
      BY <2>2, <3>1, <3>2 DEF One
  <2>3. CASE f # h
    <3>1. ButtonsWith(new, f) = ButtonsWith(bs, f)
      BY <1>2, <1>3, <2>1, <2>3 DEF ButtonsWith
    <3>2. QED
      BY <2>3, <3>1, HoldersAreFinite DEF One
  <2>4. QED
    BY <2>2, <2>3
<1>6. QED
  BY <1>3, <1>5 DEF new, AreButtons

(* What put_in_cache does to a ring. *)
LEMMA SlotTakesFile ==
  ASSUME NEW fc, AreRings(fc), NEW d \in Dicts, NEW w \in Key, NEW h \in File
  PROVE  LET new == [fc EXCEPT ![d] = SavePool(@, FileCacheSize, w, h)]
         IN  /\ AreRings(new)
             /\ \A f \in File :
                  Cardinality(SlotsWith(new, f)) =
                    (Cardinality(SlotsWith(fc, f)) - One(f, Overwritten(fc[d]))) + One(f, h)
<1> DEFINE pool == fc[d]
           new == [fc EXCEPT ![d] = SavePool(@, FileCacheSize, w, h)]
           at == <<d, pool.pos>>
           old == Overwritten(pool)
<1>1. pool \in Pool(FileCacheSize, Key, File)
  BY DEF AreRings
<1>2. new[d] = SavePool(pool, FileCacheSize, w, h) /\ \A e \in Dicts : e # d => new[e] = fc[e]
  BY DEF AreRings
<1>3. new \in [Dicts -> Pool(FileCacheSize, Key, File)]
  <2>1. SavePool(pool, FileCacheSize, w, h) \in Pool(FileCacheSize, Key, File)
    BY <1>1, StorageAssumption, SavePoolIsPool
  <2> HIDE DEF pool
  <2>2. QED
    BY <2>1 DEF pool, AreRings
<1>4. /\ DOMAIN new[d].slot = DOMAIN pool.slot \cup {pool.pos}
      /\ new[d].slot[pool.pos] = [key |-> w, data |-> h]
      /\ \A i \in DOMAIN pool.slot : i # pool.pos => new[d].slot[i] = pool.slot[i]
  BY <1>2 DEF SavePool
<1>5. pool.pos \in Slots(FileCacheSize) /\ DOMAIN pool.slot \subseteq Slots(FileCacheSize)
  BY <1>1, PoolShape
<1> HIDE DEF new
<1>6. ASSUME NEW f \in File
      PROVE  Cardinality(SlotsWith(new, f)) =
               (Cardinality(SlotsWith(fc, f)) - One(f, old)) + One(f, h)
  <2> DEFINE S == SlotsWith(fc, f)
             rest == S \ {at}
  <2>1. IsFiniteSet(S) /\ Cardinality(S) \in Nat
    BY HoldersAreFinite
  <2>2. at \in S <=> f = old
    <3>1. at \in S <=> pool.pos \in DOMAIN pool.slot /\ pool.slot[pool.pos].data = f
      BY <1>5 DEF SlotsWith
    <3>2. f # Nil
      BY NamesAssumption
    <3>3. QED
      BY <3>1, <3>2 DEF Overwritten
  <2>3. IsFiniteSet(rest) /\ Cardinality(rest) = Cardinality(S) - One(f, old)
    <3> HIDE DEF S, at, old
    <3>1. /\ IsFiniteSet(rest)
          /\ Cardinality(rest) = IF at \in S THEN Cardinality(S) - 1 ELSE Cardinality(S)
      BY <2>1, FS_RemoveElement
    <3> HIDE DEF rest
    <3>2. QED
      BY <2>1, <2>2, <3>1 DEF One
  <2>4. SlotsWith(new, f) = IF f = h THEN rest \cup {at} ELSE rest
    <3>1. ASSUME NEW e \in Dicts, NEW i \in Slots(FileCacheSize)
          PROVE  <<e, i>> \in SlotsWith(new, f) <=> IF <<e, i>> = at THEN f = h ELSE <<e, i>> \in S
      <4>1. CASE e # d
        BY <1>2, <4>1 DEF SlotsWith
      <4>2. CASE e = d /\ i # pool.pos
        BY <1>4, <4>2 DEF SlotsWith
      <4>3. CASE e = d /\ i = pool.pos
        BY <1>4, <4>3 DEF SlotsWith
      <4>4. QED
        BY <4>1, <4>2, <4>3
    <3>2. \A s : s \in SlotsWith(new, f) \/ s \in S \/ s = at => s \in Dicts \X Slots(FileCacheSize)
      BY <1>5 DEF SlotsWith
    <3> HIDE DEF S, at
    <3>3. \A s : s \in SlotsWith(new, f) <=> IF s = at THEN f = h ELSE s \in S
      <4> TAKE s
      <4>1. CASE s \in Dicts \X Slots(FileCacheSize)
        <5>1. PICK e \in Dicts, i \in Slots(FileCacheSize) : s = <<e, i>>
          BY <4>1
        <5>2. QED
          BY <3>1, <5>1
      <4>2. CASE s \notin Dicts \X Slots(FileCacheSize)
        BY <3>2, <4>2
      <4>3. QED
        BY <4>1, <4>2
    <3>4. QED
      BY <3>3
  <2> HIDE DEF S
  <2>5. CASE f = h
    <3>1. Cardinality(rest \cup {at}) = Cardinality(rest) + 1
      BY <2>3, FS_AddElement
    <3> HIDE DEF rest
    <3>2. QED
      BY <2>3, <2>4, <2>5, <3>1 DEF One, S
  <2>6. CASE f # h
    <3> HIDE DEF rest
    <3> QED
      BY <2>1, <2>3, <2>4, <2>6 DEF One, S
  <2>7. QED
    BY <2>5, <2>6
<1>7. QED
  BY <1>3, <1>6 DEF new, AreRings

Counted(t, bs, fc) ==
  \A f \in File : Count(t, f) = Cardinality(ButtonsWith(bs, f)) + Cardinality(SlotsWith(fc, f))

LEMMA CountsIsCounted ==
  ASSUME AreFiles(temp)
  PROVE  CountsItsHolders <=> Counted(temp, buttons, fileCache)
<1>1. \A f : Count(temp, f) \in Nat /\ (f \in DOMAIN temp <=> Count(temp, f) # 0)
  BY CountIs
<1>2. \A f : Holders(f) = Cardinality(ButtonsWith(buttons, f)) + Cardinality(SlotsWith(fileCache, f))
  BY DEF Holders, ButtonHolders, SlotHolders, ButtonsWith, SlotsWith
<1>3. QED
  BY <1>1, <1>2 DEF CountsItsHolders, Counted, Count

(* What a button or a ring holds is there. *)
LEMMA HeldIsThere ==
  ASSUME NEW t, NEW bs, NEW fc, AreFiles(t), AreButtons(bs), AreRings(fc), Counted(t, bs, fc)
  PROVE  /\ \A b \in Button : bs[b] # Nil /\ bs[b].file \in File => bs[b].file \in DOMAIN t
         /\ \A d \in Dicts : \A e \in Elements(fc[d]) : e.data \in DOMAIN t
<1>1. ASSUME NEW f \in File, ButtonsWith(bs, f) # {} \/ SlotsWith(fc, f) # {}
      PROVE  f \in DOMAIN t
  <2>1. Cardinality(ButtonsWith(bs, f)) # 0 \/ Cardinality(SlotsWith(fc, f)) # 0
    BY <1>1, HoldersAreFinite, FS_EmptySet
  <2>2. Count(t, f) # 0
    BY <2>1, HoldersAreFinite DEF Counted
  <2>3. QED
    BY <2>2 DEF Count
<1>2. ASSUME NEW b \in Button, bs[b] # Nil, bs[b].file \in File
      PROVE  bs[b].file \in DOMAIN t
  <2>1. b \in ButtonsWith(bs, bs[b].file)
    BY <1>2 DEF ButtonsWith
  <2>2. QED
    BY <1>1, <1>2, <2>1
<1>3. ASSUME NEW d \in Dicts, NEW e \in Elements(fc[d])
      PROVE  e.data \in DOMAIN t
  <2>1. fc[d] \in Pool(FileCacheSize, Key, File)
    BY DEF AreRings
  <2>2. PICK i \in DOMAIN fc[d].slot : e = fc[d].slot[i]
    BY DEF Elements
  <2>3. i \in Slots(FileCacheSize) /\ e.data \in File
    <3>1. DOMAIN fc[d].slot \subseteq Slots(FileCacheSize)
          /\ fc[d].slot \in [DOMAIN fc[d].slot -> [key : Key, data : File]]
      BY <2>1, PoolShape
    <3>2. fc[d].slot[i] \in [key : Key, data : File]
      BY <3>1
    <3>3. QED
      BY <2>2, <3>1, <3>2
  <2>4. <<d, i>> \in SlotsWith(fc, e.data)
    BY <2>2, <2>3 DEF SlotsWith
  <2>5. QED
    BY <1>1, <2>3, <2>4
<1>4. QED
  BY <1>2, <1>3

------------------------------------------------------------------------------
(* The invariant of the storage. *)

(* The dictionary has a resource of this key. *)
HasKey(st, d, w) == \E i \in DOMAIN st[d].keys : st[d].keys[i] = w

(* What may come out for it. *)
Rightly(d, w) == {<<d, w>>, Bad}

(* A slot of a ring holds a file of its key. *)
RingOfFiles(st, t, fc) ==
  \A d \in Dicts : \A e \in Elements(fc[d]) :
    /\ HasKey(st, d, e.key)
    /\ e.data \in DOMAIN t => t[e.data].data \in Rightly(d, e.key)

RingOfData(rc) ==
  \A d \in Dicts : \A e \in Elements(rc[d]) : e.data \in Rightly(d, e.key)

(* What a button holds is of its key, as long as its dictionary is in its place. *)
HoldsItsOwn(st, ls, t, r) ==
  /\ r.iLib \in DOMAIN ls /\ ls[r.iLib] = r.of
  /\ r.file # Nil =>
       /\ HasKey(st, r.of, r.key)
       /\ r.file \in DOMAIN t => t[r.file].data \in Rightly(r.of, r.key)
       /\ r.file \notin File => r.file = <<r.of, r.key>>

ButtonsHoldTheirOwn(st, ls, t, bs) ==
  \A b \in Button : bs[b] # Nil /\ ~ bs[b].moved => HoldsItsOwn(st, ls, t, bs[b])

DialogOfAButton(dl, bs) ==
  dl # Nil /\ dl.alive => bs[dl.button] # Nil

IsDialog(dl) == dl \in {Nil} \cup [button : Button, alive : BOOLEAN]

AreLibs(ls) == DOMAIN ls \subseteq Nat /\ \A i \in DOMAIN ls : ls[i] \in Dicts

AreResRings(rc) == rc \in [Dicts -> Pool(ResCacheSize, Key, Resource \cup {Bad})]

StorageTypes ==
  /\ store \in Setups /\ AreLibs(libs) /\ AreFiles(temp)
  /\ AreRings(fileCache) /\ AreResRings(resCache) /\ AreButtons(buttons)
  /\ IsDialog(dialog)

StorageInv ==
  /\ StorageTypes
  /\ Counted(temp, buttons, fileCache)
  /\ RingOfFiles(store, temp, fileCache) /\ RingOfData(resCache)
  /\ ButtonsHoldTheirOwn(store, libs, temp, buttons)
  /\ DialogOfAButton(dialog, buttons)
  /\ GivesItsResource

(* What holds of the contents of files holds when some of them are removed. *)
LEMMA FilesThatStay ==
  ASSUME NEW t, NEW u, SameFiles(t, u)
  PROVE  /\ \A st, fc : RingOfFiles(st, t, fc) => RingOfFiles(st, u, fc)
         /\ \A st, ls, r : HoldsItsOwn(st, ls, t, r) => HoldsItsOwn(st, ls, u, r)
         /\ \A st, ls, bs : ButtonsHoldTheirOwn(st, ls, t, bs) => ButtonsHoldTheirOwn(st, ls, u, bs)
<1>1. \A st, fc : RingOfFiles(st, t, fc) => RingOfFiles(st, u, fc)
  BY DEF SameFiles, RingOfFiles
<1>2. \A st, ls, r : HoldsItsOwn(st, ls, t, r) => HoldsItsOwn(st, ls, u, r)
  BY DEF SameFiles, HoldsItsOwn
<1>3. QED
  BY <1>1, <1>2 DEF ButtonsHoldTheirOwn

(* What a dictionary is found to have is what it has. *)
LEMMA InStorageIs ==
  ASSUME store \in Setups, NEW d \in Dicts, NEW w \in Key
  PROVE  InStorage(d, w) <=> HasKey(store, d, w)
<1> DEFINE ws == store[d].keys
           form == store[d].form
<1>1. /\ ws \in Seq(Word) /\ form \in {"directory", "paged", "memory"}
      /\ form # "directory" => IsIndex(ws)
  BY StorageAssumption DEF Form
<1>2. w \in Word
  BY StorageAssumption
<1>3. InStorage(d, w) <=> CASE form = "paged"     -> PagedLookup(ws, w)
                            [] form = "memory"    -> MemoryLookup(ws, w)
                            [] form = "directory" -> \E i \in DOMAIN ws : ws[i] = w
  BY DEF InStorage
<1>4. HasKey(store, d, w) <=> \E i \in DOMAIN ws : ws[i] = w
  BY DEF HasKey
<1> HIDE DEF ws, form
<1>5. CASE form = "directory"
  BY <1>3, <1>4, <1>5
<1>6. CASE form # "directory"
  <2>1. InStrcmpOrder(ws)
    BY <1>1, <1>6, IndexIsInOrder
  <2>2. (\E k \in Places(ws) : KeyAt(ws, k) = w) <=> \E i \in DOMAIN ws : ws[i] = w
    <3>1. DOMAIN ws = 1 .. Len(ws) /\ Len(ws) \in Nat
      BY <1>1
    <3>2. \A k \in Places(ws) : k + 1 \in DOMAIN ws
      BY <3>1 DEF Places
    <3>3. \A i \in DOMAIN ws : i - 1 \in Places(ws) /\ (i - 1) + 1 = i
      BY <3>1 DEF Places
    <3>4. QED
      BY <3>2, <3>3 DEF KeyAt
  <2>3. PagedLookup(ws, w) <=> \E k \in Places(ws) : KeyAt(ws, k) = w
    BY <1>2, <2>1, PagedLookupIs
  <2>4. MemoryLookup(ws, w) <=> \E k \in Places(ws) : KeyAt(ws, k) = w
    BY <1>2, <2>1, MemoryLookupIs
  <2>5. QED
    BY <1>1, <1>3, <1>4, <1>6, <2>2, <2>3, <2>4
<1>7. QED
  BY <1>5, <1>6

LEMMA StorageStarts == StorageInit => StorageInv
<1> SUFFICES ASSUME StorageInit PROVE StorageInv
  OBVIOUS
<1> USE DEF StorageInit
<1>1. store \in Setups /\ dialog = Nil /\ given = Nil
  OBVIOUS
<1>2. AreLibs(libs)
  <2>1. PICK n : n = Cardinality(Dicts) /\ n \in Nat
    BY StorageAssumption, FS_CardinalityType
  <2>2. libs \in [1 .. n -> Dicts]
    BY <2>1
  <2>3. QED
    BY <2>1, <2>2 DEF AreLibs
<1>3. DOMAIN temp = {} /\ AreFiles(temp)
  BY DEF AreFiles
<1>4. \A size \in Nat \ {0} : \A kind : EmptyPool \in Pool(size, Key, kind)
  BY EmptyPoolIsPool
<1>5. AreRings(fileCache) /\ AreResRings(resCache)
  BY <1>4, StorageAssumption DEF AreRings, AreResRings, EmptyCaches
<1>6. AreButtons(buttons) /\ \A b \in Button : buttons[b] = Nil
  BY DEF AreButtons
<1>7. \A d \in Dicts : fileCache[d] = EmptyPool /\ resCache[d] = EmptyPool
  BY DEF EmptyCaches
<1>8. DOMAIN EmptyPool.slot = {} /\ Elements(EmptyPool) = {}
  BY DEF EmptyPool, Elements
<1>9. Counted(temp, buttons, fileCache)
  <2>1. \A f : ButtonsWith(buttons, f) = {} /\ SlotsWith(fileCache, f) = {}
    BY <1>6, <1>7, <1>8 DEF ButtonsWith, SlotsWith
  <2>2. \A f : Count(temp, f) = 0
    BY <1>3 DEF Count
  <2>3. Cardinality({}) = 0
    BY FS_EmptySet
  <2>4. \A f : Cardinality(ButtonsWith(buttons, f)) = 0 /\ Cardinality(SlotsWith(fileCache, f)) = 0
    BY <2>1, <2>3
  <2> HIDE DEF StorageInit
  <2>5. QED
    BY <2>2, <2>4 DEF Counted
<1>10. RingOfFiles(store, temp, fileCache) /\ RingOfData(resCache)
  BY <1>7, <1>8 DEF RingOfFiles, RingOfData
<1>11. ButtonsHoldTheirOwn(store, libs, temp, buttons) /\ DialogOfAButton(dialog, buttons)
  BY <1>1, <1>6 DEF ButtonsHoldTheirOwn, DialogOfAButton
<1>12. GivesItsResource
  BY <1>1 DEF GivesItsResource
<1>13. IsDialog(dialog)
  BY <1>1 DEF IsDialog
<1>14. QED
  BY <1>1, <1>2, <1>3, <1>5, <1>6, <1>9, <1>10, <1>11, <1>12, <1>13 DEF StorageInv, StorageTypes

(* What is right to give for a key. *)
RightData(d, w, data) ==
  IF HasKey(store, d, w) THEN data \in Rightly(d, w) ELSE data = Nil

LEMMA GivesRight ==
  ASSUME store' = store, NEW b \in Button, NEW data, given' = Given(b, data),
         ~ buttons[b].moved => RightData(buttons[b].of, buttons[b].key, data)
  PROVE  GivesItsResource'
<1> DEFINE d == buttons[b].of
           w == buttons[b].key
<1>1. given'.for = <<d, w>> /\ given'.moved = buttons[b].moved /\ given'.data = data
  BY DEF Given
<1>2. given'.for[1] = d /\ given'.for[2] = w
  BY <1>1
<1> HIDE DEF d, w
<1>3. ASSUME ~ given'.moved
      PROVE  IF HasKey(store, d, w) THEN given'.data \in {given'.for, Bad} ELSE given'.data = Nil
  <2>1. RightData(d, w, data)
    BY <1>1, <1>3 DEF d, w
  <2>2. QED
    BY <1>1, <2>1 DEF RightData, Rightly
<1>4. (\E i \in DOMAIN store'[given'.for[1]].keys : store'[given'.for[1]].keys[i] = given'.for[2])
        <=> HasKey(store, d, w)
  BY <1>2 DEF HasKey
<1>5. QED
  BY <1>3, <1>4 DEF GivesItsResource

LEMMA GivesNothing ==
  ASSUME given' = Nil
  PROVE  GivesItsResource'
BY DEF GivesItsResource

(* A step that touches neither files nor holders. *)
SameHolders == /\ store' = store /\ libs' = libs /\ temp' = temp /\ fileCache' = fileCache
               /\ buttons' = buttons

LEMMA HoldersStay ==
  ASSUME StorageInv, SameHolders, AreResRings(resCache'), RingOfData(resCache'), IsDialog(dialog'),
         DialogOfAButton(dialog', buttons), GivesItsResource'
  PROVE  StorageInv'
BY DEF StorageInv, StorageTypes, SameHolders

(* Which ResData a step looks at, and what is known of it. *)
LEMMA ButtonIs ==
  ASSUME StorageInv, NEW b \in Button, buttons[b] # Nil
  PROVE  /\ buttons[b] \in ResData /\ buttons[b].key \in Key /\ buttons[b].iLib \in Nat
         /\ buttons[b].of \in Dicts /\ buttons[b].file \in {Nil} \cup File \cup Resource
         /\ InRange(b) => Asked(b) \in Dicts
         /\ ~ buttons[b].moved => /\ InRange(b) /\ Asked(b) = buttons[b].of
                                  /\ HoldsItsOwn(store, libs, temp, buttons[b])
<1>1. buttons[b] \in ResData
  BY DEF StorageInv, StorageTypes, AreButtons
<1>2. /\ buttons[b].key \in Key /\ buttons[b].iLib \in Nat /\ buttons[b].of \in Dicts
      /\ buttons[b].file \in {Nil} \cup File \cup Resource
  BY <1>1 DEF ResData
<1>3. InRange(b) => Asked(b) \in Dicts
  BY DEF StorageInv, StorageTypes, AreLibs, InRange, Asked
<1>4. ~ buttons[b].moved => HoldsItsOwn(store, libs, temp, buttons[b])
  BY DEF StorageInv, ButtonsHoldTheirOwn
<1>5. HoldsItsOwn(store, libs, temp, buttons[b]) => InRange(b) /\ Asked(b) = buttons[b].of
  BY DEF HoldsItsOwn, InRange, Asked
<1>6. QED
  BY <1>1, <1>2, <1>3, <1>4, <1>5

(* ResDict::GetData gives what belongs to the key, and keeps it so. *)
LEMMA DataIsRight ==
  ASSUME StorageInv, NEW d \in Dicts, NEW w \in Key, NEW data \in Data(d, w)
  PROVE  /\ data \in Rightly(d, w) /\ data \in Resource \cup {Bad}
         /\ AreResRings(AfterGetData(d, w, data)) /\ RingOfData(AfterGetData(d, w, data))
<1> DEFINE pool == resCache[d]
           new == SavePool(pool, ResCacheSize, w, data)
<1>1. pool \in Pool(ResCacheSize, Key, Resource \cup {Bad}) /\ ResCacheSize \in Nat \ {0}
  BY StorageAssumption DEF StorageInv, StorageTypes, AreResRings
<1>2. \A e \in Elements(pool) : e.data \in Rightly(d, e.key)
  BY DEF StorageInv, RingOfData
<1>3. AreResRings(resCache) /\ RingOfData(resCache)
  BY DEF StorageInv, StorageTypes
<1>4. CASE IsCached(pool, w)
  <2>1. data = Cached(pool, w)
    BY <1>4 DEF Data
  <2> HIDE DEF pool
  <2>2. PICK e \in Elements(pool) : e.key = w /\ Cached(pool, w) = e.data
    BY <1>1, <1>4, CachedIsElement
  <2>3. data \in Rightly(d, w)
    BY <1>2, <2>1, <2>2
  <2>4. data \in Resource \cup {Bad}
    BY <2>3 DEF Rightly, Resource
  <2>5. AfterGetData(d, w, data) = resCache
    BY <1>4 DEF AfterGetData, pool
  <2>6. QED
    BY <1>3, <2>3, <2>4, <2>5
<1>5. CASE ~ IsCached(pool, w)
  <2>1. data \in Rightly(d, w)
    BY <1>5 DEF Data, Rightly
  <2>2. data \in Resource \cup {Bad}
    BY <2>1 DEF Rightly, Resource
  <2>3. AfterGetData(d, w, data) = [resCache EXCEPT ![d] = new]
    BY <1>5 DEF AfterGetData
  <2>4. /\ new \in Pool(ResCacheSize, Key, Resource \cup {Bad})
        /\ Elements(new) \subseteq Elements(pool) \cup {[key |-> w, data |-> data]}
    <3> HIDE DEF pool
    <3> QED
      BY <1>1, <2>2, SavePoolIsPool
  <2> HIDE DEF new
  <2>5. \A e \in Elements(new) : e.data \in Rightly(d, e.key)
    BY <1>2, <2>1, <2>4
  <2>6. AreResRings([resCache EXCEPT ![d] = new])
    BY <1>3, <2>4 DEF AreResRings
  <2>7. RingOfData([resCache EXCEPT ![d] = new])
    BY <1>3, <2>5 DEF RingOfData, AreResRings
  <2>8. QED
    BY <2>1, <2>2, <2>3, <2>6, <2>7
<1>6. QED
  BY <1>4, <1>5

------------------------------------------------------------------------------
(* The steps. *)

LEMMA AppendStep ==
  ASSUME StorageInv, NEW b \in Button, NEW w \in Key, NEW i \in DOMAIN libs, AppendButton(b, i, w)
  PROVE  StorageInv'
<1> DEFINE r == [iLib |-> i, key |-> w, file |-> Nil, of |-> libs[i], moved |-> FALSE]
<1> USE DEF StorageInv, StorageTypes
<1>1. i \in Nat /\ libs[i] \in Dicts
  BY DEF AreLibs
<1>2. r \in ResData /\ r.file \notin File
  BY <1>1, NamesAssumption DEF ResData
<1>3. /\ buttons' = [buttons EXCEPT ![b] = r] /\ buttons[b] = Nil /\ given' = Nil
      /\ store' = store /\ libs' = libs /\ temp' = temp /\ fileCache' = fileCache
      /\ resCache' = resCache /\ dialog' = dialog
  BY DEF AppendButton
<1>4. AreButtons(buttons)
  OBVIOUS
<1>5. /\ AreButtons(buttons')
      /\ \A f \in File : ButtonsWith(buttons', f) = ButtonsWith(buttons, f)
  <2> HIDE DEF r
  <2> QED
    BY <1>2, <1>3, <1>4, ButtonWithoutFile
<1>6. buttons'[b] = r /\ \A c \in Button : c # b => buttons'[c] = buttons[c]
  BY <1>3, <1>4 DEF AreButtons
<1>7. r # Nil /\ HoldsItsOwn(store, libs, temp, r)
  BY <1>2, NamesAssumption DEF HoldsItsOwn
<1> HIDE DEF r
<1>8. Counted(temp, buttons', fileCache)
  BY <1>5 DEF Counted
<1>9. ButtonsHoldTheirOwn(store, libs, temp, buttons')
  BY <1>6, <1>7 DEF ButtonsHoldTheirOwn
<1>10. DialogOfAButton(dialog, buttons')
  <2>1. dialog # Nil => dialog.button \in Button
    BY DEF IsDialog
  <2>2. DialogOfAButton(dialog, buttons)
    OBVIOUS
  <2>3. QED
    BY <1>6, <1>7, <2>1, <2>2 DEF DialogOfAButton
<1>11. GivesItsResource'
  BY <1>3, GivesNothing
<1>12. IsDialog(dialog')
  BY <1>3
<1>13. QED
  BY <1>3, <1>5, <1>8, <1>9, <1>10, <1>11, <1>12

LEMMA ClearStep ==
  ASSUME StorageInv, ClearText
  PROVE  StorageInv'
<1> DEFINE held == [b \in {c \in Button : buttons[c] # Nil} |-> buttons[b].file]
<1> USE DEF StorageInv, StorageTypes
<1>1. /\ temp' = ReleaseAll(temp, held) /\ buttons' = [b \in Button |-> Nil] /\ given' = Nil
      /\ dialog' = IF dialog = Nil THEN Nil ELSE [dialog EXCEPT !.alive = FALSE]
      /\ store' = store /\ libs' = libs /\ fileCache' = fileCache /\ resCache' = resCache
  BY DEF ClearText
<1>2. \A f : {x \in DOMAIN held : held[x] = f} = ButtonsWith(buttons, f)
  BY DEF ButtonsWith
<1>3. IsFiniteSet(DOMAIN held)
  <2>1. DOMAIN held \in SUBSET Button
    OBVIOUS
  <2> HIDE DEF held
  <2>2. QED
    BY <2>1, StorageAssumption, FS_Subset
<1>4. \A f \in File : /\ Count(temp, f) \in Nat
                      /\ Cardinality(ButtonsWith(buttons, f)) \in Nat
                      /\ Cardinality(SlotsWith(fileCache, f)) \in Nat
                      /\ Count(temp, f) = Cardinality(ButtonsWith(buttons, f))
                                            + Cardinality(SlotsWith(fileCache, f))
  BY CountIs, HoldersAreFinite DEF Counted
<1>5. AreFiles(temp) /\ DOMAIN temp \subseteq File
  BY DEF AreFiles
<1>6. \A f \in DOMAIN temp : Cardinality({x \in DOMAIN held : held[x] = f}) <= Count(temp, f)
  <2> TAKE f \in DOMAIN temp
  <2>1. f \in File
    BY <1>5
  <2>2. Cardinality(ButtonsWith(buttons, f)) <= Count(temp, f)
    BY <1>4, <2>1
  <2> HIDE DEF held
  <2>3. QED
    BY <1>2, <2>2
<1>7. /\ AreFiles(temp') /\ SameFiles(temp, temp')
      /\ \A f : Count(temp', f) =
                  IF f \in DOMAIN temp
                  THEN Count(temp, f) - Cardinality({x \in DOMAIN held : held[x] = f}) ELSE 0
  <2> HIDE DEF held
  <2> QED
    BY <1>1, <1>3, <1>5, <1>6, ReleaseAllIs
<1>8. \A b \in Button : buttons'[b] = Nil
  BY <1>1
<1>9. AreButtons(buttons')
  BY <1>1 DEF AreButtons
<1>10. Counted(temp', buttons', fileCache)
  <2> SUFFICES ASSUME NEW f \in File
               PROVE  Count(temp', f) = Cardinality(ButtonsWith(buttons', f))
                                          + Cardinality(SlotsWith(fileCache, f))
    BY DEF Counted
  <2>1. ButtonsWith(buttons', f) = {}
    BY <1>8 DEF ButtonsWith
  <2>2. Cardinality(ButtonsWith(buttons', f)) = 0
    BY <2>1, FS_EmptySet
  <2>3. Count(temp', f) = IF f \in DOMAIN temp
                          THEN Count(temp, f) - Cardinality(ButtonsWith(buttons, f)) ELSE 0
    BY <1>2, <1>7
  <2>4. f \notin DOMAIN temp => Count(temp, f) = 0
    BY DEF Count
  <2>5. QED
    BY <1>4, <2>2, <2>3, <2>4
<1>11. RingOfFiles(store, temp', fileCache)
  BY <1>7, FilesThatStay
<1>12. ButtonsHoldTheirOwn(store, libs, temp', buttons')
  BY <1>8 DEF ButtonsHoldTheirOwn
<1>13. IsDialog(dialog') /\ DialogOfAButton(dialog', buttons')
  <2>1. CASE dialog = Nil
    BY <1>1, <2>1 DEF IsDialog, DialogOfAButton
  <2>2. CASE dialog # Nil
    <3>1. dialog \in [button : Button, alive : BOOLEAN]
      BY <2>2 DEF IsDialog
    <3>2. dialog' = [button |-> dialog.button, alive |-> FALSE]
      BY <1>1, <2>2, <3>1
    <3>3. QED
      BY <3>1, <3>2 DEF IsDialog, DialogOfAButton
  <2>3. QED
    BY <2>1, <2>2
<1>14. GivesItsResource'
  BY <1>1, GivesNothing
<1>15. QED
  BY <1>1, <1>7, <1>9, <1>10, <1>11, <1>12, <1>13, <1>14

(* The file of a button that holds one. *)
LEMMA PlayHeldStep ==
  ASSUME StorageInv, NEW b \in Button, buttons[b] # Nil, PlayHeld(b),
         UNCHANGED <<store, libs, dialog>>
  PROVE  StorageInv'
<1> DEFINE r == buttons[b]
           data == Content(temp, r.file)
<1>1. /\ SameHolders /\ resCache' = resCache /\ dialog' = dialog
      /\ r.file # Nil /\ given' = Given(b, data)
  BY DEF PlayHeld, SameHolders
<1>2. ~ r.moved => RightData(r.of, r.key, data)
  <2> SUFFICES ASSUME ~ r.moved PROVE RightData(r.of, r.key, data)
    OBVIOUS
  <2>1. HoldsItsOwn(store, libs, temp, r)
    BY ButtonIs
  <2>2. /\ HasKey(store, r.of, r.key)
        /\ r.file \in DOMAIN temp => temp[r.file].data \in Rightly(r.of, r.key)
        /\ r.file \notin File => r.file = <<r.of, r.key>>
    BY <1>1, <2>1 DEF HoldsItsOwn
  <2>3. r.file \in File => r.file \in DOMAIN temp
    BY HeldIsThere DEF StorageInv, StorageTypes
  <2>4. QED
    BY <2>2, <2>3 DEF RightData, Content, Rightly
<1>3. GivesItsResource'
  <2> HIDE DEF data
  <2> QED
    BY <1>1, <1>2, GivesRight DEF SameHolders
<1>4. QED
  BY <1>1, <1>3, HoldersStay DEF StorageInv, StorageTypes

(* The storage of a dictionary that is no longer there. *)
LEMMA PlayPastEndStep ==
  ASSUME StorageInv, NEW b \in Button, buttons[b] # Nil, PlayPastEnd(b),
         UNCHANGED <<store, libs, dialog>>
  PROVE  StorageInv'
<1>1. /\ SameHolders /\ resCache' = resCache /\ dialog' = dialog
      /\ ~ InRange(b) /\ given' = Given(b, Stray)
  BY DEF PlayPastEnd, SameHolders
<1>2. buttons[b].moved
  BY <1>1, ButtonIs
<1>3. GivesItsResource'
  BY <1>1, <1>2, GivesRight DEF SameHolders
<1>4. QED
  BY <1>1, <1>3, HoldersStay DEF StorageInv, StorageTypes

LEMMA PlayUnknownStep ==
  ASSUME StorageInv, NEW b \in Button, buttons[b] # Nil, PlayUnknown(b),
         UNCHANGED <<store, libs, dialog>>
  PROVE  StorageInv'
<1> DEFINE r == buttons[b]
<1>1. /\ SameHolders /\ resCache' = resCache /\ dialog' = dialog
      /\ InRange(b) /\ ~ InStorage(Asked(b), r.key) /\ given' = Given(b, Nil)
  BY DEF PlayUnknown, SameHolders
<1>2. ~ r.moved => RightData(r.of, r.key, Nil)
  <2>1. Asked(b) \in Dicts /\ r.key \in Key /\ store \in Setups
    BY <1>1, ButtonIs DEF StorageInv, StorageTypes
  <2>2. ~ HasKey(store, Asked(b), r.key)
    BY <1>1, <2>1, InStorageIs
  <2>3. ~ r.moved => Asked(b) = r.of
    BY ButtonIs
  <2>4. QED
    BY <2>2, <2>3 DEF RightData
<1>3. GivesItsResource'
  BY <1>1, <1>2, GivesRight DEF SameHolders
<1>4. QED
  BY <1>1, <1>3, HoldersStay DEF StorageInv, StorageTypes

LEMMA PlayNoTempStep ==
  ASSUME StorageInv, NEW b \in Button, buttons[b] # Nil, PlayNoTemp(b),
         UNCHANGED <<store, libs, dialog>>
  PROVE  StorageInv'
<1> DEFINE r == buttons[b]
           d == Asked(b)
           w == r.key
<1>1. /\ SameHolders /\ dialog' = dialog /\ InRange(b) /\ InStorage(d, w) /\ given' = Given(b, Bad)
  BY DEF PlayNoTemp, SameHolders
<1>2. PICK data \in Data(d, w) : resCache' = AfterGetData(d, w, data)
  BY DEF PlayNoTemp
<1>3. d \in Dicts /\ w \in Key /\ store \in Setups
  BY <1>1, ButtonIs DEF StorageInv, StorageTypes
<1>4. AreResRings(resCache') /\ RingOfData(resCache')
  <2> HIDE DEF d, w
  <2> QED
    BY <1>2, <1>3, DataIsRight
<1>5. ~ r.moved => RightData(r.of, r.key, Bad)
  <2>1. HasKey(store, d, w)
    BY <1>1, <1>3, InStorageIs
  <2>2. ~ r.moved => d = r.of
    BY ButtonIs
  <2>3. QED
    BY <2>1, <2>2 DEF RightData, Rightly
<1>6. GivesItsResource'
  BY <1>1, <1>5, GivesRight DEF SameHolders
<1>7. QED
  BY <1>1, <1>4, <1>6, HoldersStay DEF StorageInv, StorageTypes

(* Another file for a button that had none. *)
LEMMA FileForButton ==
  ASSUME StorageInv, NEW b \in Button, buttons[b] # Nil, NEW h \in File \cup Resource,
         buttons' = [buttons EXCEPT ![b].file = h],
         NEW t, NEW u, ButtonsHoldTheirOwn(store, libs, t, buttons), SameFiles(t, u),
         ~ buttons[b].moved =>
            /\ HasKey(store, buttons[b].of, buttons[b].key)
            /\ h \in DOMAIN u => u[h].data \in Rightly(buttons[b].of, buttons[b].key)
            /\ h \notin File => h = <<buttons[b].of, buttons[b].key>>
  PROVE  /\ ButtonsHoldTheirOwn(store, libs, u, buttons')
         /\ DialogOfAButton(dialog, buttons')
<1> DEFINE r == buttons[b]
<1>1. r \in ResData /\ AreButtons(buttons)
  BY ButtonIs DEF StorageInv, StorageTypes
<1>2. buttons'[b] = [r EXCEPT !.file = h] /\ \A c \in Button : c # b => buttons'[c] = buttons[c]
  BY <1>1 DEF AreButtons
<1>3. /\ buttons'[b].iLib = r.iLib /\ buttons'[b].of = r.of /\ buttons'[b].key = r.key
      /\ buttons'[b].moved = r.moved /\ buttons'[b].file = h
  BY <1>1, <1>2 DEF ResData
<1>4. ButtonsHoldTheirOwn(store, libs, u, buttons)
  BY FilesThatStay
<1>5. buttons'[b] # Nil
  <2>1. buttons'[b] \in ResData
    <3>1. buttons'[b] = [iLib |-> r.iLib, key |-> r.key, file |-> h, of |-> r.of, moved |-> r.moved]
      BY <1>1, <1>2 DEF ResData
    <3>2. QED
      BY <1>1, <3>1 DEF ResData
  <2>2. QED
    BY <2>1, NamesAssumption
<1>6. ~ r.moved => HoldsItsOwn(store, libs, u, buttons'[b])
  <2> SUFFICES ASSUME ~ r.moved PROVE HoldsItsOwn(store, libs, u, buttons'[b])
    OBVIOUS
  <2>1. HoldsItsOwn(store, libs, temp, r)
    BY ButtonIs
  <2>2. r.iLib \in DOMAIN libs /\ libs[r.iLib] = r.of
    BY <2>1 DEF HoldsItsOwn
  <2>3. QED
    BY <1>3, <2>2 DEF HoldsItsOwn
<1>7. ButtonsHoldTheirOwn(store, libs, u, buttons')
  BY <1>2, <1>3, <1>4, <1>6 DEF ButtonsHoldTheirOwn
<1>8. DialogOfAButton(dialog, buttons')
  <2>1. (dialog # Nil => dialog.button \in Button) /\ DialogOfAButton(dialog, buttons)
    BY DEF StorageInv, StorageTypes, IsDialog
  <2>2. QED
    BY <1>2, <1>5, <2>1 DEF DialogOfAButton
<1>9. QED
  BY <1>7, <1>8

LEMMA PlayFileStep ==
  ASSUME StorageInv, NEW b \in Button, buttons[b] # Nil, PlayFile(b),
         UNCHANGED <<store, libs, dialog>>
  PROVE  StorageInv'
<1> DEFINE r == buttons[b]
           d == Asked(b)
           w == r.key
           new == [r EXCEPT !.file = <<d, w>>]
<1>1. /\ store' = store /\ libs' = libs /\ dialog' = dialog /\ temp' = temp
      /\ fileCache' = fileCache /\ resCache' = resCache
      /\ InRange(b) /\ InStorage(d, w) /\ r.file = Nil
      /\ buttons' = [buttons EXCEPT ![b].file = <<d, w>>] /\ given' = Given(b, <<d, w>>)
  BY DEF PlayFile
<1>2. d \in Dicts /\ w \in Key /\ store \in Setups /\ r \in ResData /\ AreButtons(buttons)
  BY <1>1, ButtonIs DEF StorageInv, StorageTypes
<1>3. HasKey(store, d, w)
  BY <1>1, <1>2, InStorageIs
<1>4. ~ r.moved => d = r.of
  BY ButtonIs
<1>5. <<d, w>> \in Resource /\ <<d, w>> \notin File
  BY <1>2, NamesAssumption DEF Resource
<1>6. AreButtons(buttons') /\ \A f \in File : ButtonsWith(buttons', f) = ButtonsWith(buttons, f)
  <2>1. new \in ResData /\ new.file \notin File
    BY <1>2, <1>5 DEF ResData
  <2>2. r.file \notin File
    BY <1>1, NamesAssumption
  <2>3. buttons' = [buttons EXCEPT ![b] = new]
    BY <1>1
  <2> HIDE DEF new, r, d, w
  <2>4. QED
    BY <1>2, <2>1, <2>2, <2>3, ButtonWithoutFile DEF r
<1>7. Counted(temp, buttons', fileCache)
  BY <1>6 DEF StorageInv, Counted
<1>8. ButtonsHoldTheirOwn(store, libs, temp, buttons') /\ DialogOfAButton(dialog, buttons')
  <2>1. SameFiles(temp, temp) /\ ButtonsHoldTheirOwn(store, libs, temp, buttons)
    BY DEF SameFiles, StorageInv
  <2>2. <<d, w>> \notin DOMAIN temp
    BY <1>5 DEF StorageInv, StorageTypes, AreFiles
  <2>3. ~ r.moved =>
          /\ HasKey(store, r.of, r.key)
          /\ <<d, w>> \in DOMAIN temp => temp[<<d, w>>].data \in Rightly(r.of, r.key)
          /\ <<d, w>> \notin File => <<d, w>> = <<r.of, r.key>>
    BY <1>3, <1>4, <2>2
  <2> HIDE DEF d, w
  <2>4. QED
    BY <1>1, <1>5, <2>1, <2>3, FileForButton
<1>9. GivesItsResource'
  <2>1. ~ r.moved => RightData(r.of, r.key, <<d, w>>)
    BY <1>3, <1>4 DEF RightData, Rightly
  <2> HIDE DEF d, w
  <2>2. QED
    BY <1>1, <2>1, GivesRight
<1>10. QED
  BY <1>1, <1>6, <1>7, <1>8, <1>9 DEF StorageInv, StorageTypes

LEMMA PlayCachedStep ==
  ASSUME StorageInv, NEW b \in Button, buttons[b] # Nil, PlayCached(b),
         UNCHANGED <<store, libs, dialog>>
  PROVE  StorageInv'
<1> DEFINE r == buttons[b]
           d == Asked(b)
           w == r.key
           f == Cached(fileCache[d], w)
<1>1. /\ store' = store /\ libs' = libs /\ dialog' = dialog
      /\ fileCache' = fileCache /\ resCache' = resCache
      /\ InRange(b) /\ IsCached(fileCache[d], w) /\ r.file = Nil
      /\ temp' = Release(Assign(AddRef(temp, f), Nil, f), f)
      /\ buttons' = [buttons EXCEPT ![b].file = f] /\ given' = Given(b, Content(temp, f))
  BY DEF PlayCached
<1>2. d \in Dicts /\ r \in ResData /\ AreButtons(buttons) /\ AreFiles(temp)
  BY <1>1, ButtonIs DEF StorageInv, StorageTypes
<1>3. PICK e \in Elements(fileCache[d]) : e.key = w /\ f = e.data
  <2>1. fileCache[d] \in Pool(FileCacheSize, Key, File) /\ FileCacheSize \in Nat
    BY <1>2, StorageAssumption DEF StorageInv, StorageTypes, AreRings
  <2> HIDE DEF d, w
  <2>2. QED
    BY <1>1, <2>1, CachedIsElement
<1>4. HasKey(store, d, w) /\ f \in DOMAIN temp /\ temp[f].data \in Rightly(d, w)
  <2>1. e.data \in DOMAIN temp
    BY <1>2, HeldIsThere DEF StorageInv, StorageTypes
  <2>2. HasKey(store, d, e.key) /\ temp[e.data].data \in Rightly(d, e.key)
    BY <1>2, <2>1 DEF StorageInv, RingOfFiles
  <2>3. QED
    BY <1>3, <2>1, <2>2
<1>5. ~ r.moved => d = r.of
  BY ButtonIs
<1> HIDE DEF d, w, f
<1>6. f \in File
  BY <1>2, <1>4 DEF AreFiles
<1>7. /\ AreFiles(temp') /\ SameFiles(temp, temp')
      /\ \A g : Count(temp', g) = Count(temp, g) + One(g, f)
  BY <1>1, <1>2, <1>4, AgainIs
<1>8. /\ AreButtons(buttons')
      /\ \A g \in File : Cardinality(ButtonsWith(buttons', g)) =
                           Cardinality(ButtonsWith(buttons, g)) + One(g, f)
  BY <1>1, <1>2, <1>6, ButtonTakesFile
<1>9. Counted(temp', buttons', fileCache)
  <2> SUFFICES ASSUME NEW g \in File
               PROVE  Count(temp', g) = Cardinality(ButtonsWith(buttons', g))
                                          + Cardinality(SlotsWith(fileCache, g))
    BY DEF Counted
  <2>1. /\ Count(temp', g) = Count(temp, g) + One(g, f)
        /\ Cardinality(ButtonsWith(buttons', g)) = Cardinality(ButtonsWith(buttons, g)) + One(g, f)
        /\ Count(temp, g) = Cardinality(ButtonsWith(buttons, g)) + Cardinality(SlotsWith(fileCache, g))
    BY <1>7, <1>8 DEF StorageInv, Counted
  <2>2. /\ Cardinality(ButtonsWith(buttons, g)) \in Nat /\ Cardinality(SlotsWith(fileCache, g)) \in Nat
        /\ One(g, f) \in Nat
    BY HoldersAreFinite DEF One
  <2>3. QED
    BY <2>1, <2>2
<1>10. RingOfFiles(store, temp', fileCache)
  BY <1>7, FilesThatStay DEF StorageInv
<1>11. temp[f].data \in Rightly(d, w) /\ (f \in DOMAIN temp' => temp'[f].data = temp[f].data)
  BY <1>4, <1>7 DEF SameFiles
<1>12. ButtonsHoldTheirOwn(store, libs, temp', buttons') /\ DialogOfAButton(dialog, buttons')
  <2>1. ~ r.moved =>
          /\ HasKey(store, r.of, r.key)
          /\ f \in DOMAIN temp' => temp'[f].data \in Rightly(r.of, r.key)
          /\ f \notin File => f = <<r.of, r.key>>
    BY <1>4, <1>5, <1>6, <1>11 DEF w
  <2>2. ButtonsHoldTheirOwn(store, libs, temp, buttons)
    BY DEF StorageInv
  <2>3. QED
    BY <1>1, <1>6, <1>7, <2>1, <2>2, FileForButton
<1>13. GivesItsResource'
  <2>1. ~ r.moved => RightData(r.of, r.key, Content(temp, f))
    BY <1>4, <1>5, <1>6 DEF RightData, Content, w
  <2>2. QED
    BY <1>1, <2>1, GivesRight
<1>14. QED
  BY <1>1, <1>7, <1>8, <1>9, <1>10, <1>12, <1>13 DEF StorageInv, StorageTypes

LEMMA PlayNewStep ==
  ASSUME StorageInv, NEW b \in Button, buttons[b] # Nil, PlayNew(b),
         UNCHANGED <<store, libs, dialog>>
  PROVE  StorageInv'
<1> DEFINE r == buttons[b]
           d == Asked(b)
           w == r.key
           old == Overwritten(fileCache[d])
<1>1. /\ store' = store /\ libs' = libs /\ dialog' = dialog
      /\ InRange(b) /\ InStorage(d, w) /\ r.file = Nil
  BY DEF PlayNew
<1>2. PICK data \in Data(d, w), written \in BOOLEAN, f \in Unused(temp) :
        /\ resCache' = AfterGetData(d, w, data)
        /\ temp' = Kept(Create(temp, f, IF written THEN data ELSE Bad), f, old)
        /\ given' = Given(b, IF written THEN data ELSE Bad)
        /\ fileCache' = [fileCache EXCEPT ![d] = SavePool(@, FileCacheSize, w, f)]
        /\ buttons' = [buttons EXCEPT ![b].file = f]
  BY DEF PlayNew
<1> DEFINE what == IF written THEN data ELSE Bad
           made == Create(temp, f, what)
<1>3. /\ d \in Dicts /\ w \in Key /\ store \in Setups /\ r \in ResData /\ AreButtons(buttons)
      /\ AreFiles(temp) /\ AreRings(fileCache)
  BY <1>1, ButtonIs DEF StorageInv, StorageTypes
<1>4. HasKey(store, d, w) /\ (~ r.moved => d = r.of)
  BY <1>1, <1>3, ButtonIs, InStorageIs
<1>5. f \in File /\ f \notin DOMAIN temp
  BY DEF Unused
<1> HIDE DEF d, w
<1>6. /\ data \in Rightly(d, w) /\ data \in Resource \cup {Bad}
      /\ AreResRings(resCache') /\ RingOfData(resCache')
  BY <1>2, <1>3, DataIsRight
<1>7. what \in Rightly(d, w) /\ what \in Resource \cup {Bad}
  BY <1>6 DEF Rightly
<1>8. /\ temp' = Kept(made, f, old)
      /\ given' = Given(b, what)
  BY <1>2
<1> HIDE DEF what
<1>9. /\ \A c \in Button : buttons[c] # Nil => buttons[c].file # f
      /\ \A e \in Elements(fileCache[d]) : e.data # f
      /\ \A x \in Dicts : \A e \in Elements(fileCache[x]) : e.data \in DOMAIN temp
  <2>1. /\ \A c \in Button : buttons[c] # Nil /\ buttons[c].file \in File =>
             buttons[c].file \in DOMAIN temp
        /\ \A x \in Dicts : \A e \in Elements(fileCache[x]) : e.data \in DOMAIN temp
    BY <1>3, HeldIsThere DEF StorageInv
  <2>2. QED
    BY <1>3, <1>5, <2>1
<1>10. old # f
  <2>1. CASE fileCache[d].pos \in DOMAIN fileCache[d].slot
    <3>1. fileCache[d].slot[fileCache[d].pos] \in Elements(fileCache[d])
      BY <2>1 DEF Elements
    <3>2. QED
      BY <1>9, <2>1, <3>1 DEF Overwritten
  <2>2. CASE fileCache[d].pos \notin DOMAIN fileCache[d].slot
    BY <1>5, <2>2, NamesAssumption DEF Overwritten
  <2>3. QED
    BY <2>1, <2>2
<1>11. /\ AreFiles(made) /\ DOMAIN made = DOMAIN temp \cup {f} /\ made[f].data = what
       /\ SameFiles(made, temp)
  BY <1>3, <1>7, CreateIs
<1>12. /\ AreFiles(temp') /\ SameFiles(made, temp')
       /\ \A g : Count(temp', g) =
                   IF g = f THEN 2
                   ELSE IF g \in DOMAIN temp THEN Count(temp, g) - One(g, old) ELSE 0
  <2> HIDE DEF old
  <2> QED
    BY <1>3, <1>7, <1>8, <1>10, NewFileIs
<1>13. /\ AreButtons(buttons')
       /\ \A g \in File : Cardinality(ButtonsWith(buttons', g)) =
                            Cardinality(ButtonsWith(buttons, g)) + One(g, f)
  BY <1>1, <1>2, <1>3, <1>5, ButtonTakesFile
<1>14. /\ AreRings(fileCache')
       /\ \A g \in File : Cardinality(SlotsWith(fileCache', g)) =
                            (Cardinality(SlotsWith(fileCache, g)) - One(g, old)) + One(g, f)
  BY <1>2, <1>3, <1>5, SlotTakesFile
<1> HIDE DEF old, made
<1>15. Counted(temp', buttons', fileCache')
  <2> SUFFICES ASSUME NEW g \in File
               PROVE  Count(temp', g) = Cardinality(ButtonsWith(buttons', g))
                                          + Cardinality(SlotsWith(fileCache', g))
    BY DEF Counted
  <2> DEFINE x == Cardinality(ButtonsWith(buttons, g))
             y == Cardinality(SlotsWith(fileCache, g))
             n == Count(temp, g)
             x1 == Cardinality(ButtonsWith(buttons', g))
             y1 == Cardinality(SlotsWith(fileCache', g))
             n1 == Count(temp', g)
  <2>1. x \in Nat /\ y \in Nat /\ n = x + y
    BY HoldersAreFinite DEF StorageInv, Counted
  <2>2. x1 = x + One(g, f) /\ y1 = (y - One(g, old)) + One(g, f)
    BY <1>13, <1>14
  <2>3. n1 = IF g = f THEN 2 ELSE IF g \in DOMAIN temp THEN n - One(g, old) ELSE 0
    BY <1>12
  <2>4. g \notin DOMAIN temp => n = 0 /\ y1 \in Nat
    <3>1. g \notin DOMAIN temp => n = 0
      BY DEF Count
    <3>2. y1 \in Nat
      BY HoldersAreFinite
    <3>3. QED
      BY <3>1, <3>2
  <2> HIDE DEF x, y, n, x1, y1, n1
  <2>5. n1 = x1 + y1
    <3>1. CASE g = f
      <4>1. One(g, f) = 1 /\ One(g, old) = 0 /\ n = 0
        BY <1>5, <1>10, <2>4, <3>1 DEF One
      <4>2. QED
        BY <2>1, <2>2, <2>3, <3>1, <4>1
    <3>2. CASE g # f
      <4>1. One(g, f) = 0 /\ One(g, old) \in {0, 1}
        BY <3>2 DEF One
      <4>2. QED
        BY <2>1, <2>2, <2>3, <2>4, <3>2, <4>1
    <3>3. QED
      BY <3>1, <3>2
  <2>6. QED
    BY <2>5 DEF x1, y1, n1
<1>16. RingOfFiles(store, made, fileCache) /\ ButtonsHoldTheirOwn(store, libs, made, buttons)
  <2>1. \A g \in DOMAIN made : g # f => g \in DOMAIN temp /\ made[g].data = temp[g].data
    BY <1>11 DEF SameFiles
  <2>2. RingOfFiles(store, temp, fileCache) /\ ButtonsHoldTheirOwn(store, libs, temp, buttons)
    BY DEF StorageInv
  <2>3. RingOfFiles(store, made, fileCache)
    BY <1>5, <1>9, <2>1, <2>2 DEF RingOfFiles
  <2>4. ASSUME NEW c \in Button, buttons[c] # Nil, ~ buttons[c].moved
        PROVE  HoldsItsOwn(store, libs, made, buttons[c])
    <3>1. HoldsItsOwn(store, libs, temp, buttons[c])
      BY <2>2, <2>4 DEF ButtonsHoldTheirOwn
    <3>2. buttons[c].file # f
      BY <1>9, <2>4
    <3>3. QED
      BY <2>1, <3>1, <3>2 DEF HoldsItsOwn
  <2>5. QED
    BY <2>3, <2>4 DEF ButtonsHoldTheirOwn
<1>17. f \in DOMAIN temp' => temp'[f].data = what
  BY <1>11, <1>12 DEF SameFiles
<1>18. RingOfFiles(store, temp', fileCache')
  <2>1. RingOfFiles(store, temp', fileCache)
    BY <1>12, <1>16, FilesThatStay
  <2>2. /\ fileCache'[d] = SavePool(fileCache[d], FileCacheSize, w, f)
        /\ \A x \in Dicts : x # d => fileCache'[x] = fileCache[x]
    BY <1>2, <1>3 DEF AreRings
  <2>3. Elements(fileCache'[d]) \subseteq Elements(fileCache[d]) \cup {[key |-> w, data |-> f]}
    <3>1. fileCache[d] \in Pool(FileCacheSize, Key, File) /\ FileCacheSize \in Nat \ {0}
      BY <1>3, StorageAssumption DEF AreRings
    <3>2. QED
      BY <1>3, <1>5, <2>2, <3>1, SavePoolIsPool
  <2>4. QED
    BY <1>4, <1>7, <1>17, <2>1, <2>2, <2>3 DEF RingOfFiles
<1>19. ButtonsHoldTheirOwn(store, libs, temp', buttons') /\ DialogOfAButton(dialog, buttons')
  <2>1. ~ r.moved =>
          /\ HasKey(store, r.of, r.key)
          /\ f \in DOMAIN temp' => temp'[f].data \in Rightly(r.of, r.key)
          /\ f \notin File => f = <<r.of, r.key>>
    BY <1>4, <1>5, <1>7, <1>17 DEF w
  <2>2. f \in File \cup Resource
    BY <1>5
  <2>3. QED
    BY <1>2, <1>12, <1>16, <2>1, <2>2, FileForButton
<1>20. GivesItsResource'
  <2>1. ~ r.moved => RightData(r.of, r.key, what)
    BY <1>4, <1>7 DEF RightData, w
  <2>2. QED
    BY <1>1, <1>8, <2>1, GivesRight
<1>21. QED
  BY <1>1, <1>6, <1>12, <1>13, <1>14, <1>15, <1>18, <1>19, <1>20 DEF StorageInv, StorageTypes

LEMMA PlayStep ==
  ASSUME StorageInv, NEW b \in Button, Play(b)
  PROVE  StorageInv'
<1>1. buttons[b] # Nil /\ UNCHANGED <<store, libs, dialog>>
  BY DEF Play
<1>2. \/ PlayHeld(b) \/ PlayPastEnd(b) \/ PlayCached(b) \/ PlayNew(b)
      \/ PlayNoTemp(b) \/ PlayFile(b) \/ PlayUnknown(b)
  BY DEF Play
<1>3. QED
  BY <1>1, <1>2, PlayHeldStep, PlayPastEndStep, PlayCachedStep, PlayNewStep, PlayNoTempStep,
     PlayFileStep, PlayUnknownStep

(* The file chooser opens. *)
LEMMA OpenStep ==
  ASSUME StorageInv, NEW b \in Button, OpenDialog(b)
  PROVE  StorageInv'
<1>1. /\ SameHolders /\ resCache' = resCache /\ given' = Nil /\ buttons[b] # Nil
      /\ dialog' = [button |-> b, alive |-> TRUE]
  BY DEF OpenDialog, SameHolders
<1>2. IsDialog(dialog') /\ DialogOfAButton(dialog', buttons)
  BY <1>1 DEF IsDialog, DialogOfAButton
<1>3. GivesItsResource'
  BY <1>1, GivesNothing
<1>4. QED
  BY <1>1, <1>2, <1>3, HoldersStay DEF StorageInv, StorageTypes

LEMMA CancelStep ==
  ASSUME StorageInv, Cancel
  PROVE  StorageInv'
<1>1. SameHolders /\ resCache' = resCache /\ given' = Nil /\ dialog' = Nil
  BY DEF Cancel, SameHolders
<1>2. IsDialog(dialog') /\ DialogOfAButton(dialog', buttons)
  BY <1>1 DEF IsDialog, DialogOfAButton
<1>3. GivesItsResource'
  BY <1>1, GivesNothing
<1>4. QED
  BY <1>1, <1>2, <1>3, HoldersStay DEF StorageInv, StorageTypes

(* The file chooser is answered. *)
LEMMA SaveStep ==
  ASSUME StorageInv, Save
  PROVE  StorageInv'
<1> DEFINE b == dialog.button
           r == buttons[b]
           d == Asked(b)
           w == r.key
<1>1. SameHolders /\ dialog # Nil /\ dialog' = Nil
  BY DEF Save, SameHolders
<1>2. IsDialog(dialog') /\ DialogOfAButton(dialog', buttons)
  BY <1>1 DEF IsDialog, DialogOfAButton
<1>3. b \in Button /\ (dialog.alive => r # Nil)
  BY <1>1 DEF StorageInv, StorageTypes, IsDialog, DialogOfAButton
<1>4. AreResRings(resCache) /\ RingOfData(resCache) /\ store \in Setups
  BY DEF StorageInv, StorageTypes
<1>5. AreResRings(resCache') /\ RingOfData(resCache') /\ GivesItsResource'
  <2>1. CASE ~ dialog.alive
    <3>1. given' = GivenByGone /\ resCache' = resCache
      BY <2>1 DEF Save
    <3>2. given'.gone
      BY <3>1 DEF GivenByGone
    <3>3. QED
      BY <1>4, <3>1, <3>2 DEF GivesItsResource
  <2>2. CASE dialog.alive /\ ~ InRange(b)
    <3>1. given' = Given(b, Stray) /\ resCache' = resCache
      BY <2>2 DEF Save
    <3> HIDE DEF b
    <3>2. r.moved
      BY <1>3, <2>2, ButtonIs
    <3>3. QED
      BY <1>1, <1>3, <1>4, <3>1, <3>2, GivesRight DEF SameHolders
  <2>3. CASE dialog.alive /\ InRange(b)
    <3>1. IF ~ InStorage(d, w)
          THEN given' = Given(b, Nil) /\ resCache' = resCache
          ELSE IF store[d].form = "directory"
          THEN given' = Given(b, <<d, w>>) /\ resCache' = resCache
          ELSE \E data \in Data(d, w) :
                 given' = Given(b, data) /\ resCache' = AfterGetData(d, w, data)
      BY <2>3 DEF Save
    <3> HIDE DEF b
    <3>2. d \in Dicts /\ w \in Key /\ (~ r.moved => d = r.of)
      BY <1>3, <2>3, ButtonIs
    <3> HIDE DEF d, w
    <3>3. InStorage(d, w) <=> HasKey(store, d, w)
      BY <1>4, <3>2, InStorageIs
    <3>4. CASE ~ InStorage(d, w)
      <4>1. ~ r.moved => RightData(r.of, r.key, Nil)
        BY <3>2, <3>3, <3>4 DEF RightData, w
      <4>2. QED
        BY <1>1, <1>3, <1>4, <3>1, <3>4, <4>1, GivesRight DEF SameHolders
    <3>5. CASE InStorage(d, w) /\ store[d].form = "directory"
      <4>1. ~ r.moved => RightData(r.of, r.key, <<d, w>>)
        BY <3>2, <3>3, <3>5 DEF RightData, Rightly, w
      <4>2. QED
        BY <1>1, <1>3, <1>4, <3>1, <3>5, <4>1, GivesRight DEF SameHolders
    <3>6. CASE InStorage(d, w) /\ store[d].form # "directory"
      <4>1. PICK data \in Data(d, w) :
              given' = Given(b, data) /\ resCache' = AfterGetData(d, w, data)
        BY <3>1, <3>6
      <4>2. data \in Rightly(d, w) /\ AreResRings(resCache') /\ RingOfData(resCache')
        BY <3>2, <4>1, DataIsRight
      <4>3. ~ r.moved => RightData(r.of, r.key, data)
        BY <3>2, <3>3, <3>6, <4>2 DEF RightData, w
      <4>4. QED
        BY <1>1, <1>3, <4>1, <4>2, <4>3, GivesRight DEF SameHolders
    <3>7. QED
      BY <3>4, <3>5, <3>6
  <2>4. QED
    BY <2>1, <2>2, <2>3
<1>6. QED
  BY <1>1, <1>2, <1>5, HoldersStay

(* The dictionaries are reloaded. *)
LEMMA ReloadStep ==
  ASSUME StorageInv, NEW new \in LoadLists, NEW all \in BOOLEAN, Reload(new, all)
  PROVE  StorageInv'
<1> DEFINE gone == {d \in Dicts : all \/ ~ \E i \in DOMAIN new : new[i] = d}
           FilesOf(d) == {<<d, s>> : s \in DOMAIN fileCache[d].slot}
           held == [s \in UNION {FilesOf(d) : d \in gone} |-> fileCache[s[1]].slot[s[2]].data]
           now(b) == [buttons[b] EXCEPT
                        !.moved = @ \/ ~ (/\ buttons[b].iLib \in DOMAIN new
                                          /\ new[buttons[b].iLib] = buttons[b].of)]
<1>1. /\ dialog = Nil /\ dialog' = dialog /\ store' = store /\ libs' = new /\ given' = Nil
      /\ temp' = ReleaseAll(temp, held)
      /\ fileCache' = [d \in Dicts |-> IF d \in gone THEN EmptyPool ELSE fileCache[d]]
      /\ resCache' = [d \in Dicts |-> IF d \in gone THEN EmptyPool ELSE resCache[d]]
      /\ buttons' = [b \in Button |-> IF buttons[b] = Nil THEN Nil ELSE now(b)]
  BY DEF Reload
<1>2. /\ AreFiles(temp) /\ AreRings(fileCache) /\ AreResRings(resCache) /\ AreButtons(buttons)
      /\ store \in Setups /\ Counted(temp, buttons, fileCache)
  BY DEF StorageInv, StorageTypes
<1>3. AreLibs(new)
  <2>1. PICK n \in 0 .. Cardinality(Dicts) : new \in [1 .. n -> Dicts]
    BY DEF LoadLists
  <2>2. Cardinality(Dicts) \in Nat
    BY StorageAssumption, FS_CardinalityType
  <2>3. QED
    BY <2>1, <2>2 DEF AreLibs
<1>4. ASSUME NEW b \in Button, buttons[b] # Nil
      PROVE  /\ buttons'[b] \in ResData /\ buttons'[b] # Nil
             /\ buttons'[b].iLib = buttons[b].iLib /\ buttons'[b].key = buttons[b].key
             /\ buttons'[b].file = buttons[b].file /\ buttons'[b].of = buttons[b].of
             /\ ~ buttons'[b].moved => /\ ~ buttons[b].moved
                                       /\ buttons[b].iLib \in DOMAIN new
                                       /\ new[buttons[b].iLib] = buttons[b].of
  <2>1. buttons[b] \in ResData
    BY <1>2, <1>4 DEF AreButtons
  <2>2. buttons'[b] = now(b)
    BY <1>1, <1>4
  <2>3. now(b) \in ResData
    BY <2>1 DEF ResData
  <2>4. QED
    BY <2>1, <2>2, <2>3, NamesAssumption DEF ResData
<1>5. \A b \in Button : buttons[b] = Nil => buttons'[b] = Nil
  BY <1>1
<1>6. AreButtons(buttons')
  <2>1. \A b \in Button : buttons'[b] \in {Nil} \cup ResData
    BY <1>4, <1>5
  <2>2. buttons' = [b \in Button |-> buttons'[b]]
    BY <1>1
  <2>3. QED
    BY <2>1, <2>2 DEF AreButtons
<1>7. \A f : ButtonsWith(buttons', f) = ButtonsWith(buttons, f)
  BY <1>4, <1>5 DEF ButtonsWith
<1>8. \A d \in Dicts : fileCache'[d] = IF d \in gone THEN EmptyPool ELSE fileCache[d]
  BY <1>1
<1>9. \A d \in Dicts : resCache'[d] = IF d \in gone THEN EmptyPool ELSE resCache[d]
  BY <1>1
<1>10. /\ EmptyPool \in Pool(FileCacheSize, Key, File)
       /\ EmptyPool \in Pool(ResCacheSize, Key, Resource \cup {Bad})
       /\ Elements(EmptyPool) = {} /\ DOMAIN EmptyPool.slot = {}
  BY StorageAssumption, EmptyPoolIsPool DEF EmptyPool
<1>11. AreRings(fileCache') /\ AreResRings(resCache')
  <2> HIDE DEF gone
  <2> QED
    BY <1>1, <1>2, <1>10 DEF AreRings, AreResRings
<1>12. \A f : {x \in DOMAIN held : held[x] = f} = {s \in SlotsWith(fileCache, f) : s[1] \in gone}
  <2> TAKE f
  <2>1. \A d \in gone : d \in Dicts /\ DOMAIN fileCache[d].slot \subseteq Slots(FileCacheSize)
    <3>1. \A d \in Dicts : fileCache[d] \in Pool(FileCacheSize, Key, File)
      BY <1>2 DEF AreRings
    <3>2. \A d \in Dicts : DOMAIN fileCache[d].slot \subseteq Slots(FileCacheSize)
      BY <3>1, PoolShape
    <3>3. QED
      BY <3>2
  <2> HIDE DEF gone
  <2>2. DOMAIN held = UNION {FilesOf(d) : d \in gone}
    OBVIOUS
  <2>3. \A s : s \in UNION {FilesOf(d) : d \in gone} <=>
           /\ s \in Dicts \X Slots(FileCacheSize) /\ s[1] \in gone
           /\ s[2] \in DOMAIN fileCache[s[1]].slot
    <3> TAKE s
    <3>1. ASSUME s \in UNION {FilesOf(d) : d \in gone}
          PROVE  /\ s \in Dicts \X Slots(FileCacheSize) /\ s[1] \in gone
                 /\ s[2] \in DOMAIN fileCache[s[1]].slot
      <4>1. PICK d \in gone : s \in FilesOf(d)
        BY <3>1
      <4>2. PICK i \in DOMAIN fileCache[d].slot : s = <<d, i>>
        BY <4>1
      <4>3. QED
        BY <2>1, <4>2
    <3>2. ASSUME s \in Dicts \X Slots(FileCacheSize), s[1] \in gone,
                 s[2] \in DOMAIN fileCache[s[1]].slot
          PROVE  s \in UNION {FilesOf(d) : d \in gone}
      <4>1. s = <<s[1], s[2]>>
        BY <3>2
      <4>2. s \in FilesOf(s[1])
        BY <3>2, <4>1
      <4>3. QED
        BY <3>2, <4>2
    <3>3. QED
      BY <3>1, <3>2
  <2>4. \A s \in DOMAIN held : held[s] = fileCache[s[1]].slot[s[2]].data
    OBVIOUS
  <2> HIDE DEF held
  <2>5. QED
    BY <2>2, <2>3, <2>4 DEF SlotsWith
<1>13. \A f : SlotsWith(fileCache', f) = SlotsWith(fileCache, f) \ {x \in DOMAIN held : held[x] = f}
  <2> HIDE DEF gone, held
  <2> QED
    BY <1>8, <1>10, <1>12 DEF SlotsWith
<1>14. IsFiniteSet(DOMAIN held)
  <2>1. DOMAIN held \in SUBSET (Dicts \X Slots(FileCacheSize))
    <3>1. \A d \in Dicts : DOMAIN fileCache[d].slot \subseteq Slots(FileCacheSize)
      <4>1. \A d \in Dicts : fileCache[d] \in Pool(FileCacheSize, Key, File)
        BY <1>2 DEF AreRings
      <4>2. QED
        BY <4>1, PoolShape
    <3>2. QED
      BY <3>1
  <2> HIDE DEF held
  <2>2. QED
    BY <2>1, PlacesInRingsAreFinite, FS_Subset
<1> DEFINE lost(f) == {x \in DOMAIN held : held[x] = f}
<1>15. \A f : /\ lost(f) \subseteq SlotsWith(fileCache, f)
              /\ Cardinality(lost(f)) \in Nat
              /\ Cardinality(SlotsWith(fileCache', f)) =
                   Cardinality(SlotsWith(fileCache, f)) - Cardinality(lost(f))
  <2> TAKE f
  <2> DEFINE S == SlotsWith(fileCache, f)
             T == lost(f)
  <2>1. T \subseteq S /\ SlotsWith(fileCache', f) = S \ T
    BY <1>12, <1>13
  <2>2. IsFiniteSet(S)
    BY HoldersAreFinite
  <2> HIDE DEF S, lost, held
  <2>3. IsFiniteSet(T) /\ IsFiniteSet(S \ T)
    BY <2>1, <2>2, FS_Subset
  <2>4. Cardinality(T) \in Nat /\ Cardinality(S \ T) \in Nat /\ Cardinality(S) \in Nat
    BY <2>2, <2>3, FS_CardinalityType
  <2>5. Cardinality(S) = Cardinality(T) + Cardinality(S \ T)
    <3>1. T \cup (S \ T) = S /\ T \cap (S \ T) = {}
      BY <2>1
    <3>2. Cardinality(T \cup (S \ T)) =
            Cardinality(T) + Cardinality(S \ T) - Cardinality(T \cap (S \ T))
      BY <2>3, FS_Union
    <3>3. Cardinality(T \cap (S \ T)) = 0
      BY <3>1, FS_EmptySet
    <3>4. Cardinality(S) = Cardinality(T \cup (S \ T))
      BY <3>1, Zenon
    <3>5. QED
      BY <2>4, <3>2, <3>3, <3>4, SMT
  <2>6. QED
    BY <2>1, <2>4, <2>5 DEF S
<1>16. \A f \in File : /\ Count(temp, f) \in Nat /\ (f \notin DOMAIN temp => Count(temp, f) = 0)
                       /\ Cardinality(ButtonsWith(buttons, f)) \in Nat
                       /\ Cardinality(SlotsWith(fileCache, f)) \in Nat
                       /\ Cardinality(SlotsWith(fileCache', f)) \in Nat
                       /\ Count(temp, f) = Cardinality(ButtonsWith(buttons, f))
                                             + Cardinality(SlotsWith(fileCache, f))
  BY <1>2, CountIs, HoldersAreFinite DEF Counted
<1>17. DOMAIN temp \subseteq File
  BY <1>2 DEF AreFiles
<1> HIDE DEF lost
<1>18. \A f \in DOMAIN temp : Cardinality(lost(f)) <= Count(temp, f)
  BY <1>15, <1>16, <1>17
<1>19. /\ AreFiles(temp') /\ SameFiles(temp, temp')
       /\ \A f : Count(temp', f) = IF f \in DOMAIN temp
                                   THEN Count(temp, f) - Cardinality(lost(f)) ELSE 0
  <2> HIDE DEF held
  <2> QED
    BY <1>1, <1>2, <1>14, <1>18, ReleaseAllIs DEF lost
<1>20. Counted(temp', buttons', fileCache')
  <2> SUFFICES ASSUME NEW f \in File
               PROVE  Count(temp', f) = Cardinality(ButtonsWith(buttons', f))
                                          + Cardinality(SlotsWith(fileCache', f))
    BY DEF Counted
  <2>1. ButtonsWith(buttons', f) = ButtonsWith(buttons, f)
    BY <1>7
  <2>2. QED
    BY <1>15, <1>16, <1>19, <2>1
<1> HIDE DEF gone, held
<1>21. RingOfFiles(store, temp', fileCache') /\ RingOfData(resCache')
  <2>1. RingOfFiles(store, temp', fileCache)
    BY <1>19, FilesThatStay DEF StorageInv
  <2>2. RingOfFiles(store, temp', fileCache')
    BY <1>8, <1>10, <2>1 DEF RingOfFiles
  <2>3. RingOfData(resCache')
    BY <1>9, <1>10 DEF StorageInv, RingOfData
  <2>4. QED
    BY <2>2, <2>3
<1>22. ButtonsHoldTheirOwn(store, new, temp', buttons')
  <2> SUFFICES ASSUME NEW b \in Button, buttons'[b] # Nil, ~ buttons'[b].moved
               PROVE  HoldsItsOwn(store, new, temp', buttons'[b])
    BY DEF ButtonsHoldTheirOwn
  <2>1. buttons[b] # Nil
    BY <1>5
  <2>2. /\ buttons'[b].iLib = buttons[b].iLib /\ buttons'[b].key = buttons[b].key
        /\ buttons'[b].file = buttons[b].file /\ buttons'[b].of = buttons[b].of
        /\ ~ buttons[b].moved
        /\ buttons[b].iLib \in DOMAIN new /\ new[buttons[b].iLib] = buttons[b].of
    BY <1>4, <2>1
  <2>3. HoldsItsOwn(store, libs, temp', buttons[b])
    BY <1>19, <2>1, <2>2, FilesThatStay DEF StorageInv, ButtonsHoldTheirOwn
  <2>4. QED
    BY <2>2, <2>3 DEF HoldsItsOwn
<1>23. IsDialog(dialog') /\ DialogOfAButton(dialog', buttons')
  BY <1>1 DEF IsDialog, DialogOfAButton
<1>24. GivesItsResource'
  BY <1>1, GivesNothing
<1>25. QED
  BY <1>1, <1>2, <1>3, <1>6, <1>11, <1>19, <1>20, <1>21, <1>22, <1>23, <1>24
     DEF StorageInv, StorageTypes

LEMMA StorageStep ==
  ASSUME StorageInv, StorageNext
  PROVE  StorageInv'
BY PlayStep, OpenStep, AppendStep, ClearStep, SaveStep, CancelStep, ReloadStep DEF StorageNext

(* Every state of the storage satisfies its invariant. *)
THEOREM StorageInvariance == StorageSpec => []StorageInv
<1>1. StorageInv /\ UNCHANGED storageVars => StorageInv'
  <2> SUFFICES ASSUME StorageInv, UNCHANGED storageVars PROVE StorageInv'
    OBVIOUS
  <2>1. /\ SameHolders /\ resCache' = resCache /\ dialog' = dialog /\ given' = given
    BY DEF storageVars, SameHolders
  <2>2. GivesItsResource'
    BY <2>1 DEF StorageInv, GivesItsResource, SameHolders
  <2>3. QED
    BY <2>1, <2>2, HoldersStay DEF StorageInv, StorageTypes
<1>2. StorageInv /\ [StorageNext]_storageVars => StorageInv'
  BY <1>1, StorageStep
<1>3. QED
  BY StorageStarts, <1>2, PTL DEF StorageSpec

(* A temporary file has as many FileHolders counted as buttons and rings
   point at it, and is there as long as one of them does.                 *)
THEOREM CountsHolders == StorageSpec => []CountsItsHolders
<1>1. StorageInv => CountsItsHolders
  BY CountsIsCounted DEF StorageInv, StorageTypes
<1>2. QED
  BY StorageInvariance, <1>1, PTL

(* A button gives the resource its article names, unless a reload moved its
   dictionary or the button was deleted under its file chooser.           *)
THEOREM GivesResource == StorageSpec => []GivesItsResource
<1>1. StorageInv => GivesItsResource
  BY DEF StorageInv
<1>2. QED
  BY StorageInvariance, <1>1, PTL

------------------------------------------------------------------------------
(* The word that is looked up for one that no dictionary has. *)

(* The indexes of all the files are in order. *)
AllSorted == \A f \in Files : Sorted(indexOf[f])

LEMMA FilesAre ==
  /\ Len(WordsInFile) \in Nat \ {0}
  /\ Files = 1 .. Len(WordsInFile)
BY FilesAssumption DEF Files

(* Of the place suggested and the two beside which the word would come, one
   is that of a closest word.                                             *)
LEMMA ClosestIsBeside ==
  ASSUME NEW ws, Sorted(ws), NEW w \in Word, NEW r, IsAnswer(ws, w, r)
  PROVE  LET prev == GetWordPrev(ws, r.idx)
         IN  /\ r.suggest \in Places(ws)
             /\ prev.found \in BOOLEAN
             /\ prev.found => prev.idx \in Places(ws)
             /\ r.idx # InvalidIndex => r.idx \in Places(ws)
             /\ \/ Closest(ws, w, r.suggest)
                \/ prev.found /\ Closest(ws, w, prev.idx)
                \/ r.idx # InvalidIndex /\ Closest(ws, w, r.idx)
<1> DEFINE prev == GetWordPrev(ws, r.idx)
<1>1. w \in Text /\ \A k \in Places(ws) : KeyAt(ws, k) \in Text
  BY DEF Sorted, Text
<1>2. r.suggest \in Places(ws) /\ r.found \in BOOLEAN
  BY DEF IsAnswer
<1>3. CASE r.idx = InvalidIndex
  <2>1. prev = [found |-> TRUE, idx |-> Len(ws) - 1]
    BY <1>3 DEF GetWordPrev
  <2>2. Len(ws) - 1 \in Places(ws) /\ LastKey(ws) = KeyAt(ws, Len(ws) - 1)
    BY FirstAndLast
  <2>3. ~ r.found
    BY <1>2, <1>3, FirstAndLast DEF IsAnswer
  <2>4. Before(LastKey(ws), w)
    BY <1>3, <2>2, <2>3, FirstAndLast DEF IsAnswer
  <2>5. Closest(ws, w, Len(ws) - 1)
    BY <1>1, <2>4, ClosestOutside
  <2>6. QED
    BY <1>2, <1>3, <2>1, <2>2, <2>5
<1>4. CASE r.idx # InvalidIndex
  <2> DEFINE n == r.idx
  <2>1. n \in Places(ws)
    BY <1>2, <1>4 DEF IsAnswer
  <2>2. /\ prev.found \in BOOLEAN /\ prev.idx \in 0 .. n
        /\ prev.found => /\ prev.idx < n
                         /\ \A k \in (prev.idx + 1) .. n : KeyAt(ws, k) = KeyAt(ws, n)
        /\ ~ prev.found => \A k \in 0 .. n : KeyAt(ws, k) = KeyAt(ws, n)
    BY <2>1, GetWordPrevIs
  <2>3. n \in Nat /\ \A k \in 0 .. n : k \in Places(ws)
    BY <2>1 DEF Places, Sorted
  <2>4. CASE r.found
    <3>1. KeyAt(ws, n) = w
      BY <2>4 DEF IsAnswer
    <3>2. Closest(ws, w, n)
      BY <1>1, <3>1, PrefixMatchIs DEF Closest
    <3>3. QED
      BY <1>2, <1>4, <2>1, <2>2, <2>3, <3>2
  <2>5. CASE ~ r.found
    <3>1. Before(w, KeyAt(ws, n)) /\ \A k \in 0 .. (n - 1) : Before(KeyAt(ws, k), w)
      BY <1>4, <2>5 DEF IsAnswer
    <3>2. \A k \in 0 .. (n - 1) : KeyAt(ws, k) # KeyAt(ws, n)
      BY <1>1, <2>1, <2>3, <3>1, BeforeIsTotal
    <3>3. AllAscii(ws, w) =>
            \A j \in Places(ws) :
              n <= j => PrefixMatch[w][KeyAt(ws, j)] <= PrefixMatch[w][KeyAt(ws, n)]
      <4> SUFFICES ASSUME AllAscii(ws, w), NEW j \in Places(ws), n <= j
                   PROVE  PrefixMatch[w][KeyAt(ws, j)] <= PrefixMatch[w][KeyAt(ws, n)]
        OBVIOUS
      <4>1. /\ ~ Before(KeyAt(ws, j), KeyAt(ws, n)) /\ ~ Before(KeyAt(ws, n), w)
            /\ AsciiCase(KeyAt(ws, j)) /\ AsciiCase(KeyAt(ws, n)) /\ AsciiCase(w)
        BY <1>1, <2>1, <3>1, BeforeIsTotal DEF Sorted, AllAscii
      <4>2. QED
        BY <1>1, <2>1, <4>1, BetweenMatches
    <3>4. CASE n = 0
      <4>1. Closest(ws, w, n)
        BY <3>3, <3>4 DEF Closest, Places
      <4>2. QED
        BY <1>2, <1>4, <2>1, <2>2, <2>3, <4>1
    <3>5. CASE n # 0
      <4> DEFINE m == n - 1
      <4>1. m \in 0 .. (n - 1) /\ m \in Places(ws) /\ m \in 0 .. n
        BY <2>3, <3>5
      <4>2. prev.found /\ prev.idx = m
        <5>1. prev.found
          BY <2>2, <3>2, <4>1
        <5>2. m \notin (prev.idx + 1) .. n
          BY <2>2, <3>2, <4>1, <5>1
        <5>3. QED
          BY <2>2, <2>3, <5>1, <5>2
      <4>3. AllAscii(ws, w) =>
              \A j \in Places(ws) :
                j <= m => PrefixMatch[w][KeyAt(ws, j)] <= PrefixMatch[w][KeyAt(ws, m)]
        <5> SUFFICES ASSUME AllAscii(ws, w), NEW j \in Places(ws), j <= m
                     PROVE  PrefixMatch[w][KeyAt(ws, j)] <= PrefixMatch[w][KeyAt(ws, m)]
          OBVIOUS
        <5>1. /\ ~ Before(KeyAt(ws, m), KeyAt(ws, j)) /\ ~ Before(w, KeyAt(ws, m))
              /\ AsciiCase(KeyAt(ws, m)) /\ AsciiCase(KeyAt(ws, j)) /\ AsciiCase(w)
          BY <1>1, <3>1, <4>1, BeforeIsTotal DEF Sorted, AllAscii
        <5>2. QED
          BY <1>1, <4>1, <5>1, BetweenMatches
      <4>4. \A j \in Places(ws) : j <= m \/ n <= j
        BY <2>3 DEF Places
      <4>5. /\ PrefixMatch[w][KeyAt(ws, m)] \in Int
            /\ PrefixMatch[w][KeyAt(ws, n)] \in Int
            /\ \A j \in Places(ws) : PrefixMatch[w][KeyAt(ws, j)] \in Int
        BY <1>1, <2>1, <4>1, PrefixMatchIs
      <4> HIDE DEF m
      <4>6. Closest(ws, w, m) \/ Closest(ws, w, n)
        BY <3>3, <4>3, <4>4, <4>5 DEF Closest
      <4>7. QED
        BY <1>2, <1>4, <2>1, <4>1, <4>2, <4>6
    <3>6. QED
      BY <3>4, <3>5
  <2>6. QED
    BY <1>2, <2>4, <2>5
<1>5. QED
  BY <1>3, <1>4

(* A place that is replaced by a nearer one. *)
LEMMA CloserIs ==
  ASSUME NEW w \in Word, NEW f \in Files, Sorted(indexOf[f]),
         NEW s \in Places(indexOf[f]), NEW i \in Places(indexOf[f])
  PROVE  /\ Closer(w, f, s, i) \in Places(indexOf[f])
         /\ Closest(indexOf[f], w, s) => Closest(indexOf[f], w, Closer(w, f, s, i))
         /\ Closest(indexOf[f], w, i) => Closest(indexOf[f], w, Closer(w, f, s, i))
<1> DEFINE ws == indexOf[f]
           c == Closer(w, f, s, i)
<1>1. \A j \in Places(ws) : PrefixMatch[w][KeyAt(ws, j)] \in Int
  BY PrefixMatchIs DEF Sorted, Text
<1>2. /\ c \in {s, i}
      /\ PrefixMatch[w][KeyAt(ws, s)] <= PrefixMatch[w][KeyAt(ws, c)]
      /\ PrefixMatch[w][KeyAt(ws, i)] <= PrefixMatch[w][KeyAt(ws, c)]
  BY <1>1 DEF Closer
<1>3. c \in Places(ws)
  BY <1>2
<1> HIDE DEF c, ws
<1>4. ASSUME NEW k \in Places(ws), Closest(ws, w, k),
             PrefixMatch[w][KeyAt(ws, k)] <= PrefixMatch[w][KeyAt(ws, c)]
      PROVE  Closest(ws, w, c)
  BY <1>1, <1>3, <1>4 DEF Closest
<1>5. s \in Places(ws) /\ i \in Places(ws)
  BY DEF ws
<1>6. QED
  BY <1>2, <1>3, <1>4, <1>5 DEF c, ws

(* What a dictionary suggests is a word of it, and for an index, as
   LookupSimilarWord improves it, a closest one.                          *)
LEMMA SuggestedIs ==
  ASSUME AllSorted, NEW w \in Word, NEW f \in Files
  PROVE  /\ Suggested(w)[f] \in Places(indexOf[f])
         /\ f \notin Synonyms => Closest(indexOf[f], w, Suggested(w)[f])
<1> DEFINE ws == indexOf[f]
           r == Lookup(ws, -1, w)
           prev == GetWordPrev(ws, r.idx)
           before == IF prev.found THEN Closer(w, f, r.suggest, prev.idx) ELSE r.suggest
           best == IF r.idx = InvalidIndex THEN before ELSE Closer(w, f, before, r.idx)
<1>1. Sorted(ws) /\ IsAnswer(ws, w, r)
  BY LookupIs DEF AllSorted
<1>2. Found(w)[f] = r /\ Suggested(w)[f] = Improved(w, f, r.suggest)
  BY DEF Found, Suggested
<1>3. Positioned(w).cur[f] = r.idx
  BY <1>2 DEF Positioned, Start
<1>4. Prev(Positioned(w), f) = prev
  BY <1>3 DEF Prev
<1>5. Suggested(w)[f] = IF f \in Synonyms THEN r.suggest ELSE best
  <2> HIDE DEF r, prev
  <2>1. QED
    BY <1>2, <1>4 DEF Improved
<1>6. /\ r.suggest \in Places(ws)
      /\ prev.found \in BOOLEAN
      /\ prev.found => prev.idx \in Places(ws)
      /\ r.idx # InvalidIndex => r.idx \in Places(ws)
      /\ \/ Closest(ws, w, r.suggest)
         \/ prev.found /\ Closest(ws, w, prev.idx)
         \/ r.idx # InvalidIndex /\ Closest(ws, w, r.idx)
  BY <1>1, ClosestIsBeside
<1> HIDE DEF r, prev
<1>7. /\ before \in Places(ws)
      /\ Closest(ws, w, r.suggest) => Closest(ws, w, before)
      /\ prev.found /\ Closest(ws, w, prev.idx) => Closest(ws, w, before)
  BY <1>1, <1>6, CloserIs
<1> HIDE DEF before
<1>8. best \in Places(ws) /\ Closest(ws, w, best)
  BY <1>1, <1>6, <1>7, CloserIs
<1> HIDE DEF best
<1>9. QED
  BY <1>5, <1>6, <1>8 DEF ws

(* Of the words that the files suggest, GetSuggestWord takes one that no
   other is closer than: the pointer it keeps still leads to the word when
   other files were read.                                                 *)
LEMMA GetSuggestWordIs ==
  ASSUME AllSorted, NEW w \in Word
  PROVE  \E b \in Files :
           /\ GetSuggestWord(w) = KeyAt(indexOf[b], Suggested(w)[b])
           /\ \A f \in Files : PrefixMatch[w][KeyAt(indexOf[f], Suggested(w)[f])]
                                 <= PrefixMatch[w][KeyAt(indexOf[b], Suggested(w)[b])]
<1> DEFINE n == Len(WordsInFile)
           sug == Suggested(w)
           At(f) == KeyAt(indexOf[f], sug[f])
           Worse(u, v) == \/ PrefixMatch[w][v] > PrefixMatch[w][u]
                          \/ PrefixMatch[w][v] = PrefixMatch[w][u] /\ Before(v, u)
           Turn(s, f) == Consider(s, f, s.cur[f],
                                Worse(Best(s, f, s.cur[f]), KeyAt(indexOf[f], s.cur[f])))
           Rec(g) == g = [f \in 0 .. n |-> IF f = 0 THEN Start(sug) ELSE Turn(g[f - 1], f)]
           After == CHOOSE g : Rec(g)
<1>1. n \in Nat \ {0} /\ Files = 1 .. n
  BY FilesAre
<1>2. \A f \in Files : sug[f] \in Places(indexOf[f]) /\ At(f) \in Text /\ PrefixMatch[w][At(f)] \in Int
  <2>1. \A f \in Files : sug[f] \in Places(indexOf[f])
    BY SuggestedIs
  <2> HIDE DEF sug
  <2>2. \A f \in Files : At(f) \in Text
    BY <2>1 DEF AllSorted, Sorted, Text
  <2> HIDE DEF At
  <2>3. QED
    BY <2>1, <2>2, PrefixMatchIs DEF Text
<1>3. GetSuggestWord(w) = Deref(After[n], After[n].best)
  BY DEF GetSuggestWord, EachFile
<1> HIDE DEF Worse, sug, At
<1>4. \E g : Rec(g)
  <2> DEFINE Upto(g, m) == \A f \in 0 .. m : g[f] = IF f = 0 THEN Start(sug) ELSE Turn(g[f - 1], f)
             T == {m \in 0 .. n : \E g : Upto(g, m)}
  <2> HIDE DEF Turn
  <2>1. 0 \in T
    <3> DEFINE g == [f \in {0} |-> Start(sug)]
    <3>1. Upto(g, 0)
      OBVIOUS
    <3> HIDE DEF g
    <3>2. QED
      BY <1>1, <3>1
  <2>2. ASSUME NEW k \in 1 .. n, k - 1 \in T PROVE k \in T
    <3>1. PICK g : Upto(g, k - 1)
      BY <2>2
    <3> DEFINE h == [f \in 0 .. k |-> IF f = k THEN Turn(g[k - 1], k) ELSE g[f]]
    <3>2. h[k] = Turn(g[k - 1], k) /\ \A f \in 0 .. (k - 1) : h[f] = g[f]
      BY <1>1
    <3> HIDE DEF h
    <3>3. h[k] = Turn(h[k - 1], k)
      BY <3>2
    <3>4. \A f \in 0 .. (k - 1) : h[f] = IF f = 0 THEN Start(sug) ELSE Turn(h[f - 1], f)
      <4> TAKE f \in 0 .. (k - 1)
      <4>1. f # 0 => f - 1 \in 0 .. (k - 1)
        OBVIOUS
      <4>2. h[f] = g[f] /\ (f # 0 => h[f - 1] = g[f - 1])
        BY <3>2, <4>1
      <4>3. QED
        BY <3>1, <4>2
    <3>5. Upto(h, k)
      BY <3>3, <3>4
    <3>6. QED
      BY <1>1, <3>5
  <2>3. n \in T
    <3> HIDE DEF T
    <3>1. \A k \in 0 .. n : k \in T
      BY <1>1, <2>1, <2>2, CountingUp
    <3>2. QED
      BY <1>1, <3>1
  <2>4. PICK g : Upto(g, n)
    BY <2>3
  <2> DEFINE h == [f \in 0 .. n |-> g[f]]
  <2>5. \A f \in 0 .. n : h[f] = IF f = 0 THEN Start(sug) ELSE Turn(h[f - 1], f)
    BY <1>1, <2>4
  <2>6. h = [f \in 0 .. n |-> h[f]]
    OBVIOUS
  <2> HIDE DEF h
  <2>7. Rec(h)
    BY <2>5, <2>6
  <2>8. QED
    BY <2>7
<1>5. Rec(After)
  BY <1>4
<1> HIDE DEF After
<1>6. After[0] = Start(sug) /\ \A k \in 1 .. n : After[k] = Turn(After[k - 1], k)
  <2> HIDE DEF Turn
  <2>1. \A k \in 0 .. n : After[k] = IF k = 0 THEN Start(sug) ELSE Turn(After[k - 1], k)
    BY <1>5
  <2>2. QED
    BY <1>1, <2>1
<1> HIDE DEF Rec
<1> DEFINE Right(s, k) ==
             /\ s \in [cur : {sug}, page : [Files -> Int], best : [file : Nat, idx : Int]]
             /\ k = 0 => s.best = None
             /\ k # 0 => /\ s.best.file \in 1 .. k
                         /\ s.best.idx = sug[s.best.file]
                         /\ s.page[s.best.file] = PageOf(s.best.idx)
                         /\ \A f \in 1 .. k : PrefixMatch[w][At(f)] <= PrefixMatch[w][At(s.best.file)]
           T == {k \in 0 .. n : Right(After[k], k)}
<1>7. 0 \in T
  BY <1>1, <1>6 DEF Start, None, UnsetIndex
<1>8. ASSUME NEW k \in 1 .. n, k - 1 \in T PROVE k \in T
  <2> DEFINE s == After[k - 1]
             read == Load(s, k, sug[k])
             this == [file |-> k, idx |-> sug[k]]
  <2>1. Right(s, k - 1) /\ k \in Files /\ k \in Nat
    BY <1>1, <1>8
  <2>2. sug[k] \in Int /\ PageOf(sug[k]) \in Int
    <3>1. sug[k] \in Int
      BY <1>2, <2>1 DEF Places
    <3>2. QED
      BY <3>1, EntrPerPageAssumption DEF PageOf
  <2>3. /\ read \in [cur : {sug}, page : [Files -> Int], best : [file : Nat, idx : Int]]
        /\ read.best = s.best /\ read.page[k] = PageOf(sug[k])
        /\ \A f \in Files : f # k => read.page[f] = s.page[f]
    <3> HIDE DEF s
    <3>1. QED
      BY <2>1, <2>2 DEF Load
  <2>4. After[k] = IF s.best = None \/ Worse(Best(s, k, sug[k]), At(k))
                   THEN [read EXCEPT !.best = this] ELSE read
    <3>1. s.cur[k] = sug[k]
      BY <2>1
    <3>2. After[k] = Consider(s, k, sug[k], Worse(Best(s, k, sug[k]), KeyAt(indexOf[k], sug[k])))
      <4> HIDE DEF s
      <4>1. After[k] = Turn(s, k)
        BY <1>6 DEF s
      <4>2. QED
        BY <3>1, <4>1
    <3>3. QED
      BY <3>2 DEF Consider, At
  <2>5. /\ this \in [file : Nat, idx : Int] /\ this # None
        /\ this.file = k /\ this.idx = sug[k]
    BY <2>1, <2>2 DEF None
  <2> HIDE DEF read, s, this
  <2>6. CASE k = 1
    <3>1. After[k] = [read EXCEPT !.best = this]
      BY <2>1, <2>4, <2>6
    <3>2. After[k] \in [cur : {sug}, page : [Files -> Int], best : [file : Nat, idx : Int]]
      BY <2>3, <2>5, <3>1
    <3>3. After[k].best = this /\ After[k].page = read.page
      BY <2>3, <3>1
    <3>4. Right(After[k], k)
      BY <1>2, <2>1, <2>3, <2>5, <2>6, <3>2, <3>3
    <3>5. QED
      BY <3>4
  <2>7. CASE k # 1
    <3> DEFINE b == s.best.file
    <3>1. /\ b \in 1 .. (k - 1) /\ b \in Files /\ b # k
          /\ s.best.idx = sug[b] /\ s.page[b] = PageOf(sug[b])
          /\ \A f \in 1 .. (k - 1) : PrefixMatch[w][At(f)] <= PrefixMatch[w][At(b)]
      BY <1>1, <2>1, <2>7
    <3>2. s.best # None
      BY <3>1 DEF None
    <3>3. read.page[b] = PageOf(s.best.idx)
      BY <2>3, <3>1
    <3>4. Best(s, k, sug[k]) = At(b)
      BY <3>1, <3>3 DEF Best, Deref, At, read
    <3>5. PrefixMatch[w][At(k)] \in Int /\ PrefixMatch[w][At(b)] \in Int
      BY <1>2, <2>1, <3>1
    <3>6. CASE Worse(At(b), At(k))
      <4>1. After[k] = [read EXCEPT !.best = this]
        BY <2>4, <3>4, <3>6
      <4>2. After[k] \in [cur : {sug}, page : [Files -> Int], best : [file : Nat, idx : Int]]
        BY <2>3, <2>5, <4>1
      <4>3. After[k].best = this /\ After[k].page = read.page
        BY <2>3, <4>1
      <4>4. PrefixMatch[w][At(b)] <= PrefixMatch[w][At(k)]
        BY <3>5, <3>6 DEF Worse
      <4>5. \A f \in 1 .. k : PrefixMatch[w][At(f)] <= PrefixMatch[w][At(k)]
        <5> TAKE f \in 1 .. k
        <5>1. f = k \/ f \in 1 .. (k - 1)
          OBVIOUS
        <5>2. PrefixMatch[w][At(f)] \in Int
          BY <1>1, <1>2
        <5>3. QED
          BY <3>1, <3>5, <4>4, <5>1, <5>2
      <4>6. Right(After[k], k)
        BY <2>1, <2>3, <2>5, <4>2, <4>3, <4>5
      <4>7. QED
        BY <4>6
    <3>7. CASE ~ Worse(At(b), At(k))
      <4>1. After[k] = read
        BY <2>4, <3>2, <3>4, <3>7
      <4>2. PrefixMatch[w][At(k)] <= PrefixMatch[w][At(b)]
        BY <3>5, <3>7 DEF Worse
      <4>3. \A f \in 1 .. k : PrefixMatch[w][At(f)] <= PrefixMatch[w][At(b)]
        <5> TAKE f \in 1 .. k
        <5>1. f = k \/ f \in 1 .. (k - 1)
          OBVIOUS
        <5>2. QED
          BY <3>1, <4>2, <5>1
      <4>4. b \in 1 .. k /\ read.best = s.best
        BY <2>3, <3>1
      <4>5. Right(After[k], k)
        BY <2>1, <2>3, <3>1, <3>3, <4>1, <4>3, <4>4
      <4>6. QED
        BY <4>5
    <3>8. QED
      BY <3>6, <3>7
  <2>8. QED
    BY <2>6, <2>7
<1>9. n \in T
  <2> HIDE DEF T
  <2>1. \A k \in 0 .. n : k \in T
    BY <1>1, <1>7, <1>8, CountingUp
  <2>2. QED
    BY <1>1, <2>1
<1>10. Right(After[n], n) /\ n # 0
  BY <1>1, <1>9
<1> DEFINE b == After[n].best.file
<1>11. /\ b \in Files /\ GetSuggestWord(w) = At(b)
       /\ \A f \in Files : PrefixMatch[w][At(f)] <= PrefixMatch[w][At(b)]
  BY <1>1, <1>3, <1>10 DEF Deref, At
<1>12. QED
  BY <1>11 DEF At, sug

(* No word of any file has capitals beyond ASCII, nor has w. *)
FilesAscii(w) == AsciiCase(w) /\ \A f \in Files : AllAscii(indexOf[f], w)

(* The words of the files do not change, and are in order; and a word shown
   for another is a closest one.                                          *)
ListInv == AllSorted /\ ClosestIsShown

LEMMA ListStarts == ListInit => ListInv
<1> SUFFICES ASSUME ListInit PROVE ListInv
  OBVIOUS
<1>1. ASSUME NEW f \in Files PROVE Sorted(indexOf[f])
  <2>1. PICK g \in Files : indexOf[f] \in SortedSeqs(WordsInFile[g])
    BY <1>1 DEF ListInit
  <2>2. QED
    BY <2>1, SortedSeqsAreSorted
<1>2. ClosestIsShown
  BY DEF ListInit, ClosestIsShown
<1>3. QED
  BY <1>1, <1>2 DEF ListInv, AllSorted

LEMMA TypeWordStep ==
  ASSUME ListInv, NEW w \in Word, NEW showfirst \in BOOLEAN, TypeWord(w, showfirst)
  PROVE  ListInv'
<1>1. AllSorted /\ indexOf' = indexOf /\ typed' = w
  BY DEF ListInv, TypeWord
<1>2. AllSorted'
  BY <1>1 DEF AllSorted, Files, Sorted, Places, KeyAt, Before, StardictStrcmp, Text
<1>3. looked' \in {w, GetSuggestWord(w)}
  BY DEF TypeWord
<1>4. ASSUME looked' = GetSuggestWord(w), FilesAscii(w)
      PROVE  \A f \in Files \ Synonyms : \A i \in Places(indexOf[f]) :
               PrefixMatch[w][KeyAt(indexOf[f], i)] <= PrefixMatch[w][looked']
  <2>1. PICK b \in Files :
          /\ GetSuggestWord(w) = KeyAt(indexOf[b], Suggested(w)[b])
          /\ \A f \in Files : PrefixMatch[w][KeyAt(indexOf[f], Suggested(w)[f])]
                                <= PrefixMatch[w][KeyAt(indexOf[b], Suggested(w)[b])]
    BY <1>1, GetSuggestWordIs
  <2> TAKE f \in Files \ Synonyms
  <2> TAKE i \in Places(indexOf[f])
  <2> DEFINE At(g) == PrefixMatch[w][KeyAt(indexOf[g], Suggested(w)[g])]
             this == PrefixMatch[w][KeyAt(indexOf[f], i)]
  <2>2. \A g \in Files : /\ Suggested(w)[g] \in Places(indexOf[g])
                         /\ g \notin Synonyms => Closest(indexOf[g], w, Suggested(w)[g])
    BY <1>1, SuggestedIs
  <2>3. \A g \in Files : \A j \in Places(indexOf[g]) : PrefixMatch[w][KeyAt(indexOf[g], j)] \in Int
    <3> TAKE g \in Files
    <3> TAKE j \in Places(indexOf[g])
    <3>1. KeyAt(indexOf[g], j) \in Text /\ w \in Text
      BY <1>1 DEF AllSorted, Sorted, Text
    <3>2. QED
      BY <3>1, PrefixMatchIs
  <2>4. this \in Int /\ At(f) \in Int /\ At(b) \in Int
    BY <2>2, <2>3
  <2>5. this <= At(f)
    BY <1>4, <2>2 DEF Closest, FilesAscii
  <2>6. At(f) <= At(b) /\ PrefixMatch[w][looked'] = At(b)
    BY <1>4, <2>1
  <2> HIDE DEF At, this
  <2>7. this <= PrefixMatch[w][looked']
    BY <2>4, <2>5, <2>6
  <2>8. QED
    BY <2>7 DEF this
<1>5. ClosestIsShown'
  <2>1. ASSUME typed' # looked', FilesAscii(w)
        PROVE  \A f \in Files \ Synonyms : \A i \in 0 .. (Len(indexOf[f]) - 1) :
                 PrefixMatch[w][KeyAt(indexOf[f], i)] <= PrefixMatch[w][looked']
    BY <1>1, <1>3, <1>4, <2>1 DEF Places
  <2>2. FilesAscii(w) <=>
          /\ AsciiCase(w)
          /\ \A f \in Files : \A i \in 0 .. (Len(indexOf[f]) - 1) : AsciiCase(KeyAt(indexOf[f], i))
    BY DEF FilesAscii, AllAscii, Places
  <2>3. QED
    BY <1>1, <2>1, <2>2 DEF ClosestIsShown, Files, KeyAt, PrefixMatch, Text
<1>6. QED
  BY <1>2, <1>5 DEF ListInv

(* No other step looks up a word for the one typed. *)
LEMMA OtherListStep ==
  ASSUME ListInv, indexOf' = indexOf,
         \/ UNCHANGED <<typed, looked, list_word_type>>
         \/ list_word_type' # "normal"
  PROVE  ListInv'
<1>1. AllSorted'
  BY DEF ListInv, AllSorted, Files, Sorted, Places, KeyAt, Before, StardictStrcmp, Text
<1>2. CASE UNCHANGED <<typed, looked, list_word_type>>
  <2>1. ClosestIsShown'
    BY <1>2, Zenon DEF ListInv, ClosestIsShown, Files, KeyAt
  <2>2. QED
    BY <1>1, <2>1 DEF ListInv
<1>3. CASE list_word_type' # "normal"
  <2>1. ClosestIsShown'
    BY <1>3 DEF ClosestIsShown
  <2>2. QED
    BY <1>1, <2>1 DEF ListInv
<1>4. QED
  BY <1>2, <1>3

LEMMA ListStep == ListInv /\ [ListNext]_listVars => ListInv'
<1> SUFFICES ASSUME ListInv, [ListNext]_listVars PROVE ListInv'
  OBVIOUS
<1>1. ASSUME NEW w \in Word, NEW showfirst \in BOOLEAN, TypeWord(w, showfirst)
      PROVE  ListInv'
  BY <1>1, TypeWordStep
<1>2. CASE DoNext
  BY <1>2, OtherListStep DEF DoNext
<1>3. CASE DoPrev
  BY <1>3, OtherListStep DEF DoPrev
<1>4. ASSUME NEW served \in SUBSET Served \ {{}}, MergeWordList(served)
      PROVE  ListInv'
  BY <1>4, OtherListStep DEF MergeWordList
<1>5. ASSUME NEW served \in SUBSET Served \ {{}}, MergeFuzzyList(served)
      PROVE  ListInv'
  BY <1>5, OtherListStep DEF MergeFuzzyList
<1>6. ASSUME NEW q \in Queries, LookupWithFuzzyToMainWin(q)
      PROVE  ListInv'
  <2>1. indexOf' = indexOf /\ list_word_type' = "fuzzy"
    BY <1>6 DEF LookupWithFuzzyToMainWin, ShowFound
  <2>2. QED
    BY <2>1, OtherListStep
<1>7. ASSUME NEW p \in Patterns, LookupWithRuleToMainWin(p)
      PROVE  ListInv'
  <2>1. indexOf' = indexOf /\ list_word_type' = "pattern"
    BY <1>7 DEF LookupWithRuleToMainWin, ShowFound
  <2>2. QED
    BY <2>1, OtherListStep
<1>8. CASE UNCHANGED listVars
  BY <1>8, OtherListStep DEF listVars
<1>9. QED
  BY <1>1, <1>2, <1>3, <1>4, <1>5, <1>6, <1>7, <1>8 DEF ListNext

(* Whatever is looked up for the word typed begins like it as far as any
   headword of any dictionary does: from what an index read by pages
   suggests, which may be anywhere, LookupSimilarWord gets to a closest word
   and GetSuggestWord to the closest of all.                               *)
THEOREM ShowsClosest == ListSpec => []ClosestIsShown
<1>1. ListInv => ClosestIsShown
  BY DEF ListInv
<1>2. QED
  BY ListStarts, ListStep, <1>1, PTL DEF ListSpec
=============================================================================
