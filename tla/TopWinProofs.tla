---------------------------- MODULE TopWinProofs ----------------------------
(***************************************************************************)
(* The words behind the entry, for any texts and any lengths of the lists. *)
(* All that is needed of the back list is an invariant of its own: every   *)
(* operation maps a list with agreeing buttons to another such.            *)
(***************************************************************************)
EXTENDS TopWin, SequenceTheorems, TLAPS

\* ButtonsAgree, of any list.
Agrees(b) ==
  /\ Len(b.list) <= MaxBack
  /\ b.index < Len(b.list) \/ (b.list = <<>> /\ b.index = 0)
  /\ b.back = (b.index + 1 < Len(b.list))
  /\ b.forward = (b.index > 0)

Texts == Words \cup {Blank}

-----------------------------------------------------------------------------
(* What of the list is kept by InsertBackList, from the index on. *)
LEMMA RestOfList ==
  ASSUME NEW l \in Seq(Words), NEW k \in Nat, k < Len(l) \/ (l = <<>> /\ k = 0)
  PROVE  LET rest == SubSeq(l, k + 1, Len(l))
         IN  /\ rest \in Seq(Words)
             /\ Len(rest) = Len(l) - k
             /\ \A i \in 1 .. Len(rest) : rest[i] = l[k + i]
<1>1. Len(l) \in Nat /\ \A i \in 1 .. Len(l) : l[i] \in Words
  BY LenProperties, ElementOfSeq
<1>2. l = <<>> => Len(l) = 0
  OBVIOUS
<1>3. \A i \in (k + 1) .. Len(l) : l[i] \in Words
  BY <1>1
<1>4. k + 1 \in Int /\ Len(l) \in Int
  BY <1>1
<1> DEFINE rest == SubSeq(l, k + 1, Len(l))
<1>5. /\ rest \in Seq(Words)
      /\ Len(rest) = IF k + 1 <= Len(l) THEN Len(l) - (k + 1) + 1 ELSE 0
      /\ \A i \in 1 .. Len(l) - (k + 1) + 1 : rest[i] = l[(k + 1) + i - 1]
  BY <1>3, <1>4, SubSeqProperties
<1> HIDE DEF rest
<1>6. Len(rest) = Len(l) - k
  BY <1>1, <1>2, <1>5
<1>7. \A i \in 1 .. Len(rest) : rest[i] = l[k + i]
  BY <1>1, <1>5, <1>6
<1>8. QED
  BY <1>5, <1>6, <1>7 DEF rest

(* A word put in front of others, of which n are kept in all. *)
LEMMA CutAfter ==
  ASSUME NEW w \in Words, NEW r \in Seq(Words), NEW n \in Nat \ {0}
  PROVE  LET l == SubSeq(<<w>> \o r, 1, Shortest(n, Len(r) + 1))
         IN  /\ l \in Seq(Words)
             /\ Len(l) = Shortest(n, Len(r) + 1)
             /\ l[1] = w
             /\ \A i \in 2 .. Len(l) : l[i] = r[i - 1]
<1>1. Len(r) \in Nat
  BY LenProperties
<1> DEFINE all == <<w>> \o r
           k == Shortest(n, Len(r) + 1)
           l == SubSeq(all, 1, k)
<1>2. <<w>> \in Seq(Words) /\ Len(<<w>>) = 1 /\ <<w>>[1] = w
  OBVIOUS
<1>3. /\ all \in Seq(Words) /\ Len(all) = Len(r) + 1
      /\ \A i \in 1 .. Len(r) + 1 : all[i] = IF i <= 1 THEN <<w>>[i] ELSE r[i - 1]
  <2>1. /\ all \in Seq(Words) /\ Len(all) = 1 + Len(r)
        /\ \A i \in 1 .. 1 + Len(r) : all[i] = IF i <= 1 THEN <<w>>[i] ELSE r[i - 1]
    BY <1>2, ConcatProperties
  <2> HIDE DEF all
  <2>2. QED
    BY <2>1, <1>1
<1>4. k \in Nat /\ 1 <= k /\ k <= Len(r) + 1
  BY <1>1 DEF Shortest
<1> HIDE DEF all, k
<1>5. \A i \in 1 .. k : all[i] \in Words
  BY <1>3, <1>4, <1>1, ElementOfSeq
<1>6. /\ l \in Seq(Words) /\ Len(l) = IF 1 <= k THEN k - 1 + 1 ELSE 0
      /\ \A i \in 1 .. k - 1 + 1 : l[i] = all[1 + i - 1]
  BY <1>4, <1>5, SubSeqProperties
<1> HIDE DEF l
<1>7. Len(l) = k /\ \A i \in 1 .. k : l[i] = all[i]
  BY <1>4, <1>6
<1>8. l[1] = w /\ \A i \in 2 .. k : l[i] = r[i - 1]
  BY <1>1, <1>2, <1>3, <1>4, <1>7
<1>9. QED
  BY <1>6, <1>7, <1>8 DEF l, k, all

(* InsertBackList as one definition: nothing for an empty text or the word *)
(* at the front, else the word in front of the rest.                       *)
LEMMA InsertBackListAgrees ==
  ASSUME NEW b \in BackType, Agrees(b), NEW w \in Texts
  PROVE  InsertBackList(b, w) \in BackType /\ Agrees(InsertBackList(b, w))
<1> DEFINE rest == SubSeq(b.list, b.index + 1, Len(b.list))
           l == SubSeq(<<w>> \o rest, 1, Shortest(MaxBack, Len(rest) + 1))
           new == [list |-> l, index |-> 0, back |-> b.back \/ rest # <<>>, forward |-> FALSE]
<1>1. CASE w = Blank \/ (b.list # <<>> /\ b.list[1] = w)
  BY <1>1 DEF InsertBackList
<1>2. CASE ~ (w = Blank \/ (b.list # <<>> /\ b.list[1] = w))
  <2>1. w \in Words
    BY <1>2 DEF Texts
  <2>2. /\ b.list \in Seq(Words) /\ b.index \in Nat /\ b.back \in BOOLEAN
        /\ Len(b.list) \in Nat /\ (b.list = <<>> => Len(b.list) = 0)
    BY LenProperties DEF BackType
  <2>3. rest \in Seq(Words) /\ Len(rest) = Len(b.list) - b.index
    BY <2>2, RestOfList DEF Agrees
  <2>4. MaxBack \in Nat \ {0, 1}
    BY TopWinAssumption
  <2> HIDE DEF rest
  <2>5. l \in Seq(Words) /\ Len(l) = Shortest(MaxBack, Len(rest) + 1)
    <3>1. rest \in Seq(Words) /\ MaxBack \in Nat \ {0}
      BY <2>3, <2>4
    <3>2. QED
      BY <2>1, <3>1, CutAfter, Zenon
  <2>6. Len(rest) \in Nat /\ (rest = <<>> <=> Len(rest) = 0)
    BY <2>3, LenProperties, EmptySeq
  <2> HIDE DEF l
  <2>7. new \in BackType
    BY <2>2, <2>5 DEF BackType
  <2>8. Len(l) <= MaxBack /\ 0 < Len(l) /\ (1 < Len(l) <=> Len(rest) # 0)
    BY <2>4, <2>5, <2>6 DEF Shortest
  <2>9. b.back => rest # <<>>
    <3>1. b.back => b.index + 1 < Len(b.list)
      BY Zenon DEF Agrees
    <3>2. b.index + 1 < Len(b.list) => Len(rest) # 0
      BY <2>2, <2>3
    <3>3. QED
      BY <2>6, <3>1, <3>2
  <2>10. (b.back \/ rest # <<>>) = (0 + 1 < Len(l))
    BY <2>2, <2>6, <2>8, <2>9
  <2>11. Agrees(new)
    <3>1. /\ new.list = l /\ new.index = 0 /\ new.forward = FALSE
          /\ new.back = (b.back \/ rest # <<>>)
      OBVIOUS
    <3> HIDE DEF new
    <3>2. new.back = (new.index + 1 < Len(new.list))
      BY <2>10, <3>1, Zenon
    <3>3. (new.index > 0) = FALSE
      BY <3>1
    <3>4. new.forward = (new.index > 0)
      BY <3>1, <3>3, Zenon
    <3>5. Len(new.list) <= MaxBack /\ new.index < Len(new.list)
      BY <2>8, <3>1
    <3>6. QED
      BY <3>2, <3>4, <3>5, Zenon DEF Agrees
  <2>12. InsertBackList(b, w) = new
    BY <1>2 DEF InsertBackList, rest, l
  <2>13. QED
    BY <2>7, <2>11, <2>12, Zenon
<1>3. QED
  BY <1>1, <1>2

-----------------------------------------------------------------------------
(* InsertHisList of a word that stands in row i: the rows are the same. *)
LEMMA MovedUpKeeps ==
  ASSUME NEW h \in Seq(Words), NEW i \in DOMAIN h, Distinct(h)
  PROVE  /\ MovedUp(h, i) \in Seq(Words)
         /\ Len(MovedUp(h, i)) = Len(h)
         /\ Distinct(MovedUp(h, i))
<1> DEFINE m == MovedUp(h, i)
<1>1. /\ Len(h) \in Nat /\ DOMAIN h = 1 .. Len(h) /\ i \in 1 .. Len(h)
      /\ \A j \in 1 .. Len(h) : h[j] \in Words
  BY LenProperties, ElementOfSeq
<1>2. \A j \in 1 .. Len(h) : m[j] = IF j = 1 THEN h[i] ELSE IF j <= i THEN h[j - 1] ELSE h[j]
  BY <1>1 DEF MovedUp
<1>3. m \in [1 .. Len(h) -> Words]
  BY <1>1 DEF MovedUp
<1>4. m \in Seq(Words) /\ Len(m) = Len(h) /\ DOMAIN m = 1 .. Len(h)
  BY <1>1, <1>3
<1> HIDE DEF m
<1>5. ASSUME NEW j \in 1 .. Len(h), NEW k \in 1 .. Len(h), m[j] = m[k]
      PROVE  j = k
  <2> DEFINE from(n) == IF n = 1 THEN i ELSE IF n <= i THEN n - 1 ELSE n
  <2>1. \A n \in 1 .. Len(h) : from(n) \in 1 .. Len(h) /\ m[n] = h[from(n)]
    BY <1>1, <1>2
  <2>2. h[from(j)] = h[from(k)] => from(j) = from(k)
    BY <1>1, <2>1 DEF Distinct
  <2>3. QED
    BY <1>1, <1>5, <2>1, <2>2
<1>6. Distinct(m)
  BY <1>4, <1>5 DEF Distinct
<1>7. QED
  BY <1>4, <1>6 DEF m

(* InsertHisList of a new word, which takes the place of the last row when *)
(* there are MaxHistory.                                                   *)
LEMMA PushedKeeps ==
  ASSUME NEW h \in Seq(Words), NEW w \in Words, Distinct(h), \A i \in DOMAIN h : h[i] # w
  PROVE  /\ Pushed(h, w) \in Seq(Words)
         /\ Len(Pushed(h, w)) <= MaxHistory
         /\ Distinct(Pushed(h, w))
<1> DEFINE k == Shortest(MaxHistory - 1, Len(h))
           r == SubSeq(h, 1, k)
           p == <<w>> \o r
<1>1. /\ Len(h) \in Nat /\ DOMAIN h = 1 .. Len(h)
      /\ \A j \in 1 .. Len(h) : h[j] \in Words
  BY LenProperties, ElementOfSeq
<1>2. MaxHistory \in Nat \ {0}
  BY TopWinAssumption
<1>3. k \in Nat /\ k <= Len(h) /\ k + 1 <= MaxHistory
  BY <1>1, <1>2 DEF Shortest
<1> HIDE DEF k
<1>4. \A j \in 1 .. k : h[j] \in Words
  BY <1>1, <1>3
<1>5. /\ r \in Seq(Words) /\ Len(r) = IF 1 <= k THEN k - 1 + 1 ELSE 0
      /\ \A j \in 1 .. k - 1 + 1 : r[j] = h[1 + j - 1]
  BY <1>3, <1>4, SubSeqProperties
<1> HIDE DEF r
<1>6. Len(r) = k /\ \A j \in 1 .. k : r[j] = h[j]
  BY <1>3, <1>5
<1>7. <<w>> \in Seq(Words) /\ Len(<<w>>) = 1 /\ <<w>>[1] = w
  OBVIOUS
<1>8. /\ p \in Seq(Words) /\ Len(p) = 1 + Len(r)
      /\ \A j \in 1 .. 1 + Len(r) : p[j] = IF j <= 1 THEN <<w>>[j] ELSE r[j - 1]
  BY <1>5, <1>7, ConcatProperties
<1> HIDE DEF p
<1>9. /\ Len(p) = k + 1 /\ DOMAIN p = 1 .. k + 1
      /\ \A j \in 1 .. k + 1 : p[j] = IF j = 1 THEN w ELSE h[j - 1]
  BY <1>3, <1>6, <1>7, <1>8, LenProperties
<1>10. ASSUME NEW i \in 1 .. k + 1, NEW j \in 1 .. k + 1, p[i] = p[j]
       PROVE  i = j
  <2>1. \A n \in 1 .. k + 1 : n # 1 => n - 1 \in 1 .. Len(h) /\ p[n] = h[n - 1] /\ p[n] # w
    BY <1>1, <1>3, <1>9
  <2>2. p[1] = w
    BY <1>3, <1>9
  <2>3. CASE i # 1 /\ j # 1
    <3>1. i - 1 \in DOMAIN h /\ j - 1 \in DOMAIN h /\ h[i - 1] = h[j - 1]
      BY <1>1, <1>10, <2>1, <2>3
    <3>2. i - 1 = j - 1
      BY <3>1 DEF Distinct
    <3>3. QED
      BY <1>3, <3>2
  <2>4. QED
    BY <1>10, <2>1, <2>2, <2>3
<1>11. Distinct(p)
  BY <1>9, <1>10 DEF Distinct
<1>12. QED
  BY <1>3, <1>8, <1>9, <1>11 DEF p, r, k, Pushed

\* A history as it should be.
GoodHistory(h) == h \in Seq(Words) /\ Distinct(h) /\ Len(h) <= MaxHistory

(* InsertHisList, whatever the word. *)
LEMMA InsertHisListKeeps ==
  ASSUME NEW h, GoodHistory(h), NEW w \in Texts
  PROVE  GoodHistory(InsertHisList(h, w))
<1>1. CASE w = Blank
  BY <1>1 DEF InsertHisList
<1>2. CASE w # Blank /\ \E i \in DOMAIN h : h[i] = w
  <2> DEFINE i == CHOOSE i \in DOMAIN h : h[i] = w
  <2>1. i \in DOMAIN h
    BY <1>2
  <2>2. InsertHisList(h, w) = MovedUp(h, i)
    BY <1>2 DEF InsertHisList
  <2> HIDE DEF i
  <2>3. QED
    BY <2>1, <2>2, MovedUpKeeps DEF GoodHistory
<1>3. CASE w # Blank /\ \A i \in DOMAIN h : h[i] # w
  <2>1. InsertHisList(h, w) = Pushed(h, w)
    BY <1>3 DEF InsertHisList
  <2>2. QED
    BY <1>3, <2>1, PushedKeeps DEF GoodHistory, Texts
<1>4. QED
  BY <1>1, <1>2, <1>3

-----------------------------------------------------------------------------
\* The lists DoBack and DoForward leave.
Earlier(b) == [b EXCEPT !.index = @ + 1, !.back = @ /\ b.index + 2 < Len(b.list),
                        !.forward = TRUE]
Later(b) == [b EXCEPT !.index = @ - 1, !.back = TRUE, !.forward = @ /\ b.index > 1]

LEMMA BackFields ==
  ASSUME NEW b \in BackType
  PROVE  /\ b.list \in Seq(Words) /\ b.index \in Nat /\ b.back \in BOOLEAN
         /\ b.forward \in BOOLEAN /\ Len(b.list) \in Nat
         /\ b = [list |-> b.list, index |-> b.index, back |-> b.back, forward |-> b.forward]
         /\ \A i \in 1 .. Len(b.list) : b.list[i] \in Words
  BY LenProperties, ElementOfSeq DEF BackType

(* do_back: the Back button goes off at the last word, Forward goes on.    *)
LEMMA EarlierAgrees ==
  ASSUME NEW b \in BackType, Agrees(b), b.index + 1 < Len(b.list)
  PROVE  /\ Earlier(b) \in BackType /\ Agrees(Earlier(b))
         /\ Earlier(b).list = b.list /\ Earlier(b).index = b.index + 1
<1> DEFINE n == Earlier(b)
           x == b.back /\ b.index + 2 < Len(b.list)
<1>1. b.index + 1 \in Nat
  BY BackFields
<1>2. x \in BOOLEAN /\ TRUE \in BOOLEAN
  OBVIOUS
<1>3. n = [b EXCEPT !.index = b.index + 1, !.back = x, !.forward = TRUE]
  BY Zenon DEF Earlier
<1> HIDE DEF n, x
<1>4. n \in BackType /\ n.list = b.list /\ n.index = b.index + 1 /\ n.back = x /\ n.forward = TRUE
  BY <1>1, <1>2, <1>3 DEF BackType
<1>5. b.back
  BY Zenon DEF Agrees
<1>6. x <=> b.index + 2 < Len(b.list)
  BY <1>5 DEF x
<1>7. (n.index + 1 < Len(n.list)) <=> (b.index + 2 < Len(b.list))
  BY <1>4, BackFields
<1>8. n.back = (n.index + 1 < Len(n.list))
  BY <1>2, <1>4, <1>6, <1>7
<1>9. n.index > 0 /\ Len(n.list) <= MaxBack /\ n.index < Len(n.list)
  BY <1>4, BackFields DEF Agrees
<1>10. n.forward = (n.index > 0)
  BY <1>4, <1>9
<1>11. QED
  BY <1>4, <1>8, <1>9, <1>10, Zenon DEF Agrees, n

(* do_forward: the Forward button goes off at the first word, Back goes on. *)
LEMMA LaterAgrees ==
  ASSUME NEW b \in BackType, Agrees(b), b.list # <<>>, b.index > 0
  PROVE  /\ Later(b) \in BackType /\ Agrees(Later(b))
         /\ Later(b).list = b.list /\ Later(b).index = b.index - 1
<1> DEFINE n == Later(b)
           y == b.forward /\ b.index > 1
<1>1. b.index - 1 \in Nat
  BY BackFields
<1>2. y \in BOOLEAN /\ TRUE \in BOOLEAN
  OBVIOUS
<1>3. n = [b EXCEPT !.index = b.index - 1, !.back = TRUE, !.forward = y]
  BY Zenon DEF Later
<1> HIDE DEF n, y
<1>4. n \in BackType /\ n.list = b.list /\ n.index = b.index - 1 /\ n.back = TRUE /\ n.forward = y
  BY <1>1, <1>2, <1>3 DEF BackType
<1>5. b.forward
  BY Zenon DEF Agrees
<1>6. y <=> b.index > 1
  BY <1>5 DEF y
<1>7. (n.index > 0) <=> (b.index > 1)
  BY <1>4, BackFields
<1>8. n.forward = (n.index > 0)
  BY <1>2, <1>4, <1>6, <1>7
<1>9. n.index + 1 < Len(n.list) /\ Len(n.list) <= MaxBack /\ n.index < Len(n.list)
  BY <1>4, BackFields DEF Agrees
<1>10. n.back = (n.index + 1 < Len(n.list))
  BY <1>4, <1>9
<1>11. QED
  BY <1>4, <1>8, <1>9, <1>10, Zenon DEF Agrees, n

LEMMA NoBackAgrees == NoBack \in BackType /\ Agrees(NoBack)
<1>1. NoBack \in BackType
  BY EmptySeq DEF NoBack, BackType
<1>2. /\ Len(NoBack.list) <= MaxBack
      /\ NoBack.list = <<>> /\ NoBack.index = 0
      /\ (NoBack.index + 1 < Len(NoBack.list)) = FALSE /\ (NoBack.index > 0) = FALSE
      /\ NoBack.back = FALSE /\ NoBack.forward = FALSE
  BY TopWinAssumption, EmptySeq DEF NoBack
<1>3. QED
  BY <1>1, <1>2, Zenon DEF Agrees

-----------------------------------------------------------------------------
\* The inductive invariant: the three invariants together, each needs the types only.
Inv ==
  /\ entry \in Texts
  /\ back \in BackType /\ Agrees(back)
  /\ GoodHistory(history) /\ GoodHistory(file)

LEMMA InvMeans == Inv <=> TypeOK /\ ButtonsAgree /\ HistoryOfDistinctWords
  BY Zenon DEF Inv, TypeOK, ButtonsAgree, HistoryOfDistinctWords, Agrees, GoodHistory, Texts

LEMMA InitInv == Init => Inv
<1>1. GoodHistory(<<>>)
  BY EmptySeq, TopWinAssumption DEF GoodHistory, Distinct
<1>2. QED
  BY <1>1, NoBackAgrees DEF Init, Inv, Texts

LEMMA NextInv == Inv /\ [Next]_vars => Inv'
<1> SUFFICES ASSUME Inv, [Next]_vars
             PROVE  Inv'
  OBVIOUS
<1> USE DEF Inv
<1>0. /\ Blank \in Texts /\ Words \subseteq Texts
  BY DEF Texts
<1>1. ASSUME NEW t \in Words \cup {Blank}, Type(t)
      PROVE  Inv'
  BY <1>1 DEF Type, Texts
<1>2. ASSUME NEW t \in Words \cup {Blank}, Leave(t)
      PROVE  Inv'
  BY <1>2, InsertHisListKeeps, InsertBackListAgrees DEF Leave, Texts
<1>3. ASSUME NEW w \in Words, FollowLink(w)
      PROVE  Inv'
  BY <1>0, <1>3, InsertHisListKeeps, InsertBackListAgrees DEF FollowLink
<1>4. ASSUME NEW w \in Words, ListClick(w)
      PROVE  Inv'
  <2>1. GoodHistory(history')
    BY <1>0, <1>4, InsertHisListKeeps DEF ListClick
  <2>2. back' \in BackType /\ Agrees(back')
    BY <1>0, <1>4, InsertBackListAgrees DEF ListClick
  <2>3. QED
    BY <1>0, <1>4, <2>1, <2>2 DEF ListClick
<1>5. ASSUME NEW w \in Words, Scanned(w)
      PROVE  Inv'
  BY <1>0, <1>5, InsertHisListKeeps DEF Scanned
<1>6. CASE Enter
  BY <1>6, InsertHisListKeeps, InsertBackListAgrees DEF Enter
<1>7. CASE DoBack
  <2>1. back' = Earlier(back)
    BY <1>7 DEF DoBack, Earlier
  <2>2. entry' \in Texts
    BY <1>0, <1>7, BackFields DEF DoBack
  <2>3. GoodHistory(history') /\ GoodHistory(file')
    BY <1>7, InsertHisListKeeps DEF DoBack
  <2>4. back' \in BackType /\ Agrees(back')
    BY <1>7, <2>1, EarlierAgrees DEF DoBack
  <2>5. QED
    BY <2>2, <2>3, <2>4
<1>8. CASE DoForward
  <2>1. back' = Later(back)
    BY <1>8 DEF DoForward, Later
  <2>2. back.index \in 1 .. Len(back.list)
    BY <1>8, BackFields DEF DoForward, Agrees
  <2>3. entry' \in Texts
    BY <1>0, <1>8, <2>2, BackFields DEF DoForward
  <2>4. GoodHistory(history') /\ GoodHistory(file')
    BY <1>8, InsertHisListKeeps DEF DoForward
  <2>5. back' \in BackType /\ Agrees(back')
    BY <1>8, <2>1, LaterAgrees DEF DoForward
  <2>6. QED
    BY <2>3, <2>4, <2>5
<1>9. CASE ClearHistory
  <2>1. GoodHistory(<<>>)
    BY EmptySeq, TopWinAssumption DEF GoodHistory, Distinct
  <2>2. QED
    BY <1>9, <2>1 DEF ClearHistory
<1>10. CASE Restart
  BY <1>0, <1>10, InsertHisListKeeps, NoBackAgrees DEF Restart
<1>11. CASE Crash
  BY <1>0, <1>11, NoBackAgrees DEF Crash
<1>12. CASE UNCHANGED vars
  BY <1>12 DEF vars
<1>13. QED
  BY <1>1, <1>2, <1>3, <1>4, <1>5, <1>6, <1>7, <1>8, <1>9, <1>10, <1>11, <1>12 DEF Next

(* The entry, the lists and the file always hold words. *)
THEOREM TypeCorrect == Spec => []TypeOK
<1>1. Inv => TypeOK
  BY InvMeans
<1>2. QED
  BY InitInv, NextInv, <1>1, PTL DEF Spec

(* InsertBackList, do_back and do_forward keep the index within the list   *)
(* and set both buttons by what is on either side of it, whatever is       *)
(* visited and wherever the list is cut.                                   *)
THEOREM ButtonsAlwaysAgree == Spec => []ButtonsAgree
<1>1. Inv => ButtonsAgree
  BY InvMeans
<1>2. QED
  BY InitInv, NextInv, <1>1, PTL DEF Spec

(* InsertHisList, which searches all the rows, puts no word there twice,   *)
(* and neither the history nor its file grows beyond the maximum.          *)
THEOREM HistoryIsOfDistinctWords == Spec => []HistoryOfDistinctWords
<1>1. Inv => HistoryOfDistinctWords
  BY InvMeans
<1>2. QED
  BY InitInv, NextInv, <1>1, PTL DEF Spec

-----------------------------------------------------------------------------
(***************************************************************************)
(* The refinement: what the list is to its user.                           *)
(***************************************************************************)
Past(b) == SubSeq(b.list, b.index + 2, Len(b.list))
Present(b) == IF b.list = <<>> THEN Nil ELSE b.list[b.index + 1]
Future(b) == SubSeq(b.list, 1, b.index)
TrailOf(b) == [past |-> Past(b), present |-> Present(b), future |-> Future(b)]

(* The three parts, row by row. *)
LEMMA Parts ==
  ASSUME NEW b \in BackType, Agrees(b)
  PROVE  /\ Past(b) \in Seq(Words) /\ Future(b) \in Seq(Words)
         /\ b.list # <<>> => /\ Len(Past(b)) = Len(b.list) - b.index - 1
                             /\ Present(b) = b.list[b.index + 1] /\ Present(b) \in Words
         /\ b.list = <<>> => Past(b) = <<>> /\ Present(b) = Nil /\ Future(b) = <<>>
         /\ Len(Future(b)) = b.index
         /\ \A i \in 1 .. Len(Past(b)) : Past(b)[i] = b.list[b.index + 1 + i]
         /\ \A i \in 1 .. b.index : Future(b)[i] = b.list[i]
<1> DEFINE l == b.list
           k == b.index
<1>1. /\ l \in Seq(Words) /\ k \in Nat /\ Len(l) \in Nat
      /\ \A i \in 1 .. Len(l) : l[i] \in Words
      /\ k < Len(l) \/ (l = <<>> /\ k = 0)
  BY BackFields DEF Agrees
<1>2. l = <<>> => Len(l) = 0
  OBVIOUS
<1> HIDE DEF l, k
<1>3. \A i \in k + 2 .. Len(l) : l[i] \in Words
  BY <1>1
<1>4. /\ SubSeq(l, k + 2, Len(l)) \in Seq(Words)
      /\ Len(SubSeq(l, k + 2, Len(l))) = IF k + 2 <= Len(l) THEN Len(l) - (k + 2) + 1 ELSE 0
      /\ \A i \in 1 .. Len(l) - (k + 2) + 1 : SubSeq(l, k + 2, Len(l))[i] = l[(k + 2) + i - 1]
  BY <1>1, <1>3, SubSeqProperties
<1>5. \A i \in 1 .. k : l[i] \in Words
  BY <1>1, <1>2
<1>6. /\ SubSeq(l, 1, k) \in Seq(Words)
      /\ Len(SubSeq(l, 1, k)) = IF 1 <= k THEN k - 1 + 1 ELSE 0
      /\ \A i \in 1 .. k - 1 + 1 : SubSeq(l, 1, k)[i] = l[1 + i - 1]
  BY <1>1, <1>5, SubSeqProperties
<1>7. Past(b) = SubSeq(l, k + 2, Len(l)) /\ Future(b) = SubSeq(l, 1, k)
      /\ Present(b) = IF l = <<>> THEN Nil ELSE l[k + 1]
  BY DEF Past, Future, Present, l, k
<1> DEFINE p == Past(b)
           f == Future(b)
<1> HIDE DEF p, f
<1>8. /\ p \in Seq(Words)
      /\ Len(p) = IF k + 2 <= Len(l) THEN Len(l) - k - 1 ELSE 0
      /\ \A i \in 1 .. Len(l) - k - 1 : p[i] = l[k + 1 + i]
  BY <1>1, <1>4, <1>7 DEF p
<1>9. f \in Seq(Words) /\ Len(f) = k /\ \A i \in 1 .. k : f[i] = l[i]
  BY <1>1, <1>6, <1>7 DEF f
<1>10. l # <<>> => /\ Len(p) = Len(l) - k - 1 /\ k + 1 \in 1 .. Len(l)
                   /\ Present(b) = l[k + 1] /\ Present(b) \in Words
  BY <1>1, <1>7, <1>8
<1>11. l = <<>> => p = <<>> /\ Present(b) = Nil /\ f = <<>>
  <2> SUFFICES ASSUME l = <<>> PROVE p = <<>> /\ Present(b) = Nil /\ f = <<>>
    OBVIOUS
  <2>1. Len(l) = 0 /\ k = 0
    BY <1>1, <1>2
  <2>2. Len(p) = 0 /\ Len(f) = 0
    BY <2>1, <1>8, <1>9
  <2>3. QED
    BY <1>7, <1>8, <1>9, <2>2, EmptySeq
<1>12. \A i \in 1 .. Len(p) : p[i] = l[k + 1 + i]
  BY <1>1, <1>2, <1>8
<1>13. QED
  BY <1>8, <1>9, <1>10, <1>11, <1>12 DEF p, f, l, k

(* InsertBackList is a visit; that of the word at the front, none. *)
LEMMA InsertWordIsVisit ==
  ASSUME NEW b \in BackType, Agrees(b), NEW w \in Words
  PROVE  TrailOf(InsertBackList(b, w)) = TheTrail!After(TrailOf(b), w)
<1> DEFINE t == TrailOf(b)
           c == InsertBackList(b, w)
<1>1. t.past = Past(b) /\ t.present = Present(b) /\ t.future = Future(b)
  BY DEF TrailOf
<1> HIDE DEF t, c
<1>2. w # Blank /\ w # Nil /\ MaxBack \in Nat \ {0, 1}
  BY TopWinAssumption
<1>3. /\ b.list \in Seq(Words) /\ b.index \in Nat /\ Len(b.list) \in Nat
      /\ b.index < Len(b.list) \/ (b.list = <<>> /\ b.index = 0)
      /\ b.list = <<>> <=> Len(b.list) = 0
  BY BackFields, EmptySeq DEF Agrees
<1>4. TheTrail!Newest(t) = w <=> b.list # <<>> /\ b.list[1] = w
  <2>1. Future(b) = <<>> <=> b.index = 0
    BY <1>3, Parts, EmptySeq
  <2>2. CASE b.list = <<>>
    BY <1>1, <1>2, <2>2, Parts DEF TheTrail!Newest
  <2>3. CASE b.list # <<>> /\ b.index = 0
    BY <1>1, <2>1, <2>3, Parts DEF TheTrail!Newest
  <2>4. CASE b.list # <<>> /\ b.index # 0
    <3>1. Future(b)[1] = b.list[1]
      BY <1>3, <2>4, Parts
    <3>2. QED
      BY <1>1, <2>1, <2>4, <3>1 DEF TheTrail!Newest
  <2>5. QED
    BY <2>2, <2>3, <2>4
<1>5. CASE b.list # <<>> /\ b.list[1] = w
  BY <1>4, <1>5, Zenon DEF InsertBackList, TheTrail!After, t
<1>6. CASE ~ (b.list # <<>> /\ b.list[1] = w)
  <2> DEFINE rest == SubSeq(b.list, b.index + 1, Len(b.list))
             l == SubSeq(<<w>> \o rest, 1, Shortest(MaxBack, Len(rest) + 1))
             n == IF Len(rest) < MaxBack THEN Len(rest) ELSE MaxBack - 1
             past == SubSeq(rest, 1, n)
  <2>1. c.list = l /\ c.index = 0
    BY <1>2, <1>6 DEF InsertBackList, c
  <2>2. c \in BackType /\ Agrees(c)
    BY InsertBackListAgrees DEF Texts, c
  <2>3. /\ rest \in Seq(Words) /\ Len(rest) = Len(b.list) - b.index
        /\ \A j \in 1 .. Len(rest) : rest[j] = b.list[b.index + j]
    BY <1>3, RestOfList
  <2> HIDE DEF rest
  <2>4. /\ l \in Seq(Words) /\ Len(l) = Shortest(MaxBack, Len(rest) + 1) /\ l[1] = w
        /\ \A j \in 2 .. Len(l) : l[j] = rest[j - 1]
    <3>1. MaxBack \in Nat \ {0}
      BY <1>2
    <3>2. QED
      BY <2>3, <3>1, CutAfter, Zenon
  <2> HIDE DEF l
  <2>5. Len(rest) \in Nat /\ \A j \in 1 .. Len(rest) : rest[j] \in Words
    BY <2>3, LenProperties, ElementOfSeq
  <2>6. n \in Nat /\ n <= Len(rest) /\ Len(l) = n + 1
    BY <1>2, <2>4, <2>5 DEF Shortest
  <2> HIDE DEF n
  <2>7. past \in Seq(Words) /\ Len(past) = n /\ \A j \in 1 .. n : past[j] = rest[j]
    <3>1. \A j \in 1 .. n : rest[j] \in Words
      BY <2>5, <2>6
    <3>2. /\ past \in Seq(Words) /\ Len(past) = IF 1 <= n THEN n - 1 + 1 ELSE 0
          /\ \A j \in 1 .. n - 1 + 1 : past[j] = rest[1 + j - 1]
      BY <2>6, <3>1, SubSeqProperties
    <3> HIDE DEF past
    <3>3. QED
      BY <2>6, <3>2
  <2> HIDE DEF past
  <2>8. rest = IF t.present = Nil THEN t.past ELSE <<t.present>> \o t.past
    <3>1. CASE b.list = <<>>
      BY <1>1, <1>3, <2>3, <2>5, <3>1, Parts, EmptySeq
    <3>2. CASE b.list # <<>>
      <4>1. /\ Present(b) \in Words /\ Present(b) # Nil /\ Present(b) = b.list[b.index + 1]
            /\ Past(b) \in Seq(Words) /\ Len(Past(b)) = Len(b.list) - b.index - 1
            /\ \A j \in 1 .. Len(Past(b)) : Past(b)[j] = b.list[b.index + 1 + j]
        BY <3>2, Parts, TopWinAssumption
      <4> DEFINE q == <<Present(b)>> \o Past(b)
      <4>2. <<Present(b)>> \in Seq(Words) /\ Len(<<Present(b)>>) = 1
            /\ <<Present(b)>>[1] = Present(b)
        BY <4>1
      <4>3. /\ q \in Seq(Words) /\ Len(q) = 1 + Len(Past(b))
            /\ \A j \in 1 .. 1 + Len(Past(b)) :
                 q[j] = IF j <= 1 THEN <<Present(b)>>[j] ELSE Past(b)[j - 1]
        BY <4>1, <4>2, ConcatProperties
      <4> HIDE DEF q
      <4>4. Len(q) = Len(rest) /\ \A j \in 1 .. Len(q) : q[j] = rest[j]
        <5>1. Len(q) = Len(rest)
          BY <1>3, <2>3, <4>1, <4>3
        <5>2. q[1] = rest[1]
          BY <1>3, <2>3, <3>2, <4>1, <4>2, <4>3
        <5>3. ASSUME NEW j \in 2 .. Len(q)
              PROVE  q[j] = rest[j]
          <6>1. q[j] = Past(b)[j - 1] /\ j - 1 \in 1 .. Len(Past(b))
            BY <1>3, <4>1, <4>3, <5>3
          <6>2. q[j] = b.list[b.index + 1 + (j - 1)]
            BY <4>1, <6>1
          <6>3. QED
            BY <1>3, <2>3, <5>1, <5>3, <6>2
        <5>4. QED
          BY <2>5, <5>1, <5>2, <5>3
      <4>5. q = rest
        BY <2>3, <4>3, <4>4, SeqEqual
      <4>6. QED
        BY <1>1, <4>1, <4>5 DEF q
    <3>3. QED
      BY <3>1, <3>2
  <2>9. Past(c) = past
    <3>1. /\ Past(c) \in Seq(Words) /\ Len(Past(c)) = n
          /\ \A j \in 1 .. n : Past(c)[j] = l[1 + j]
      <4>1. c.list # <<>>
        <5>1. Len(l) # 0 /\ Len(<<>>) = 0
          BY <2>6
        <5>2. QED
          BY <2>1, <5>1, Zenon
      <4>2. /\ Past(c) \in Seq(Words) /\ Len(Past(c)) = Len(c.list) - c.index - 1
            /\ \A j \in 1 .. Len(Past(c)) : Past(c)[j] = c.list[c.index + 1 + j]
        BY <2>2, <4>1, Parts, Zenon
      <4>3. Len(Past(c)) = n
        BY <2>1, <2>6, <4>2
      <4>4. \A j \in 1 .. n : Past(c)[j] = l[1 + j]
        BY <2>1, <2>6, <4>2, <4>3
      <4>5. QED
        BY <4>2, <4>3, <4>4
    <3>2. ASSUME NEW j \in 1 .. n
          PROVE  Past(c)[j] = past[j]
      <4>1. 1 + j \in 2 .. Len(l) /\ (1 + j) - 1 = j
        BY <2>6
      <4>2. l[1 + j] = rest[j]
        BY <2>4, <4>1
      <4>3. QED
        BY <2>7, <3>1, <4>2
    <3>3. QED
      BY <2>7, <3>1, <3>2, SeqEqual
  <2>10. Present(c) = w /\ Future(c) = <<>>
    <3>1. c.list # <<>> /\ Present(c) = c.list[c.index + 1] /\ Len(Future(c)) = 0
          /\ Future(c) \in Seq(Words)
      BY <2>1, <2>2, <2>4, <2>6, Parts, EmptySeq
    <3>2. QED
      BY <2>1, <2>4, <3>1, EmptySeq
  <2>11. TheTrail!After(t, w) = [past |-> past, present |-> w, future |-> <<>>]
    <3>1. w \notin {Blank, TheTrail!Newest(t)}
      BY <1>2, <1>4, <1>6, Zenon
    <3>2. TheTrail!After(t, w) = TheTrail!Visited(t, w)
      BY <3>1, Zenon DEF TheTrail!After
    <3>3. QED
      BY <2>8, <3>2 DEF TheTrail!Visited, past, n
  <2>12. TrailOf(c) = [past |-> past, present |-> w, future |-> <<>>]
    BY <2>9, <2>10 DEF TrailOf
  <2>13. QED
    BY <2>11, <2>12 DEF c, t
<1>7. QED
  BY <1>5, <1>6

LEMMA InsertBackListIsVisit ==
  ASSUME NEW b \in BackType, Agrees(b), NEW w \in Texts
  PROVE  TrailOf(InsertBackList(b, w)) = TheTrail!After(TrailOf(b), w)
<1>1. CASE w = Blank
  BY <1>1, Zenon DEF InsertBackList, TheTrail!After
<1>2. CASE w \in Words
  BY <1>2, InsertWordIsVisit
<1>3. QED
  BY <1>1, <1>2 DEF Texts

(* What Head, Tail, Append and <<...>> \o do, row by row. *)
LEMMA EarlierIsBack ==
  ASSUME NEW b \in BackType, Agrees(b), b.index + 1 < Len(b.list)
  PROVE  /\ Past(b) # <<>>
         /\ Past(Earlier(b)) = Tail(Past(b))
         /\ Present(Earlier(b)) = Head(Past(b))
         /\ Future(Earlier(b)) = Append(Future(b), Present(b))
<1> DEFINE c == Earlier(b)
<1>1. c \in BackType /\ Agrees(c) /\ c.list = b.list /\ c.index = b.index + 1
  BY EarlierAgrees
<1> HIDE DEF c
<1>2. b.list \in Seq(Words) /\ b.index \in Nat /\ Len(b.list) \in Nat /\ b.list # <<>>
  BY BackFields, EmptySeq
<1>3. /\ Past(b) \in Seq(Words) /\ Len(Past(b)) = Len(b.list) - b.index - 1
      /\ \A i \in 1 .. Len(Past(b)) : Past(b)[i] = b.list[b.index + 1 + i]
      /\ Present(b) = b.list[b.index + 1] /\ Present(b) \in Words
      /\ Future(b) \in Seq(Words) /\ Len(Future(b)) = b.index
      /\ \A i \in 1 .. b.index : Future(b)[i] = b.list[i]
  BY <1>2, Parts, Zenon
<1>4. /\ Past(c) \in Seq(Words) /\ Len(Past(c)) = Len(b.list) - c.index - 1
      /\ \A i \in 1 .. Len(Past(c)) : Past(c)[i] = b.list[c.index + 1 + i]
      /\ Present(c) = b.list[c.index + 1]
      /\ Future(c) \in Seq(Words) /\ Len(Future(c)) = c.index
      /\ \A i \in 1 .. c.index : Future(c)[i] = b.list[i]
  <2>1. c.list # <<>>
    BY <1>1, <1>2
  <2>2. /\ Past(c) \in Seq(Words) /\ Len(Past(c)) = Len(c.list) - c.index - 1
        /\ \A i \in 1 .. Len(Past(c)) : Past(c)[i] = c.list[c.index + 1 + i]
        /\ Present(c) = c.list[c.index + 1]
        /\ Future(c) \in Seq(Words) /\ Len(Future(c)) = c.index
        /\ \A i \in 1 .. c.index : Future(c)[i] = c.list[i]
    BY <1>1, <2>1, Parts, Zenon
  <2>3. c.list = b.list
    BY <1>1
  <2>4. QED
    BY <2>2, <2>3, Zenon
<1>5. Past(b) # <<>>
  BY <1>2, <1>3, EmptySeq
<1>6. Past(c) = Tail(Past(b))
  <2>1. /\ Tail(Past(b)) \in Seq(Words) /\ Len(Tail(Past(b))) = Len(Past(b)) - 1
        /\ \A i \in 1 .. Len(Tail(Past(b))) : Tail(Past(b))[i] = Past(b)[i + 1]
    BY <1>3, <1>5, HeadTailProperties
  <2>2. Len(Past(c)) = Len(Tail(Past(b)))
    BY <1>1, <1>2, <1>3, <1>4, <2>1
  <2>3. ASSUME NEW i \in 1 .. Len(Past(c))
        PROVE  Past(c)[i] = Tail(Past(b))[i]
    <3>1. i + 1 \in 1 .. Len(Past(b)) /\ i \in 1 .. Len(Tail(Past(b)))
      BY <1>2, <1>3, <2>1, <2>2
    <3>2. Tail(Past(b))[i] = b.list[b.index + 1 + (i + 1)]
      BY <1>3, <2>1, <3>1
    <3>3. Past(c)[i] = b.list[(b.index + 1) + 1 + i]
      BY <1>1, <1>4
    <3>4. b.index + 1 + (i + 1) = (b.index + 1) + 1 + i
      BY <1>2
    <3>5. QED
      BY <3>2, <3>3, <3>4
  <2>4. QED
    BY <1>4, <2>1, <2>2, <2>3, SeqEqual
<1>7. Present(c) = Head(Past(b))
  <2>1. Head(Past(b)) = Past(b)[1]
    BY <1>3, <1>5
  <2>2. 1 \in 1 .. Len(Past(b)) /\ b.index + 1 + 1 = (b.index + 1) + 1
    BY <1>2, <1>3
  <2>3. QED
    BY <1>1, <1>3, <1>4, <2>1, <2>2
<1>8. Future(c) = Append(Future(b), Present(b))
  <2> DEFINE f == Append(Future(b), Present(b))
  <2>1. /\ f \in Seq(Words) /\ Len(f) = b.index + 1
        /\ \A i \in 1 .. b.index : f[i] = b.list[i]
        /\ f[b.index + 1] = b.list[b.index + 1]
    BY <1>2, <1>3, AppendProperties
  <2> HIDE DEF f
  <2>2. \A i \in 1 .. b.index + 1 : f[i] = b.list[i]
    BY <1>2, <2>1
  <2>3. \A i \in 1 .. b.index + 1 : Future(c)[i] = b.list[i]
    BY <1>1, <1>4
  <2>4. Future(c) = f
    BY <1>1, <1>4, <2>1, <2>2, <2>3, SeqEqual
  <2>5. QED
    BY <2>4 DEF f
<1>9. QED
  BY <1>5, <1>6, <1>7, <1>8 DEF c

LEMMA LaterIsForward ==
  ASSUME NEW b \in BackType, Agrees(b), b.list # <<>>, b.index > 0
  PROVE  /\ Future(b) # <<>> /\ Len(Future(b)) = b.index
         /\ Past(Later(b)) = <<Present(b)>> \o Past(b)
         /\ Present(Later(b)) = Future(b)[b.index]
         /\ Future(Later(b)) = SubSeq(Future(b), 1, b.index - 1)
<1> DEFINE c == Later(b)
<1>1. c \in BackType /\ Agrees(c) /\ c.list = b.list /\ c.index = b.index - 1
  BY LaterAgrees
<1> HIDE DEF c
<1>2. /\ b.list \in Seq(Words) /\ b.index \in Nat /\ Len(b.list) \in Nat
      /\ b.index < Len(b.list)
  BY BackFields DEF Agrees
<1>3. /\ Past(b) \in Seq(Words) /\ Len(Past(b)) = Len(b.list) - b.index - 1
      /\ \A i \in 1 .. Len(Past(b)) : Past(b)[i] = b.list[b.index + 1 + i]
      /\ Present(b) = b.list[b.index + 1] /\ Present(b) \in Words
      /\ Future(b) \in Seq(Words) /\ Len(Future(b)) = b.index
      /\ \A i \in 1 .. b.index : Future(b)[i] = b.list[i]
  BY <1>2, Parts, Zenon
<1>4. /\ Past(c) \in Seq(Words) /\ Len(Past(c)) = Len(b.list) - c.index - 1
      /\ \A i \in 1 .. Len(Past(c)) : Past(c)[i] = b.list[c.index + 1 + i]
      /\ Present(c) = b.list[c.index + 1]
      /\ Future(c) \in Seq(Words) /\ Len(Future(c)) = c.index
      /\ \A i \in 1 .. c.index : Future(c)[i] = b.list[i]
  <2>1. c.list # <<>>
    BY <1>1, <1>2
  <2>2. /\ Past(c) \in Seq(Words) /\ Len(Past(c)) = Len(c.list) - c.index - 1
        /\ \A i \in 1 .. Len(Past(c)) : Past(c)[i] = c.list[c.index + 1 + i]
        /\ Present(c) = c.list[c.index + 1]
        /\ Future(c) \in Seq(Words) /\ Len(Future(c)) = c.index
        /\ \A i \in 1 .. c.index : Future(c)[i] = c.list[i]
    BY <1>1, <2>1, Parts, Zenon
  <2>3. c.list = b.list
    BY <1>1
  <2>4. QED
    BY <2>2, <2>3, Zenon
<1>5. Future(b) # <<>>
  BY <1>2, <1>3, EmptySeq
<1>6. Past(c) = <<Present(b)>> \o Past(b)
  <2> DEFINE q == <<Present(b)>> \o Past(b)
  <2>1. <<Present(b)>> \in Seq(Words) /\ Len(<<Present(b)>>) = 1
        /\ <<Present(b)>>[1] = Present(b)
    BY <1>3
  <2>2. /\ q \in Seq(Words) /\ Len(q) = 1 + Len(Past(b))
        /\ \A j \in 1 .. 1 + Len(Past(b)) :
             q[j] = IF j <= 1 THEN <<Present(b)>>[j] ELSE Past(b)[j - 1]
    BY <1>3, <2>1, ConcatProperties
  <2> HIDE DEF q
  <2>3. Len(Past(c)) = Len(q)
    BY <1>1, <1>2, <1>3, <1>4, <2>2
  <2>4. ASSUME NEW j \in 1 .. Len(Past(c))
        PROVE  Past(c)[j] = q[j]
    <3>1. Past(c)[j] = b.list[b.index + j]
      <4>1. c.index + 1 + j = b.index + j
        BY <1>1, <1>2
      <4>2. QED
        BY <1>4, <4>1
    <3>2. CASE j = 1
      BY <1>3, <2>1, <2>2, <3>1, <3>2, LenProperties
    <3>3. CASE j # 1
      <4>1. j - 1 \in 1 .. Len(Past(b)) /\ b.index + 1 + (j - 1) = b.index + j
        <5>1. Len(Past(b)) \in Nat /\ j \in 1 .. 1 + Len(Past(b))
          BY <1>3, <2>2, <2>3, LenProperties
        <5>2. QED
          BY <1>2, <3>3, <5>1
      <4>2. q[j] = Past(b)[j - 1]
        BY <1>2, <1>3, <2>2, <2>3, <3>3
      <4>3. QED
        BY <1>3, <3>1, <4>1, <4>2
    <3>4. QED
      BY <3>2, <3>3
  <2>5. Past(c) = q
    BY <1>4, <2>2, <2>3, <2>4, SeqEqual
  <2>6. QED
    BY <2>5 DEF q
<1>7. Present(c) = Future(b)[b.index]
  <2>1. c.index + 1 = b.index /\ b.index \in 1 .. b.index
    BY <1>1, <1>2
  <2>2. QED
    BY <1>3, <1>4, <2>1
<1>8. Future(c) = SubSeq(Future(b), 1, b.index - 1)
  <2> DEFINE f == SubSeq(Future(b), 1, b.index - 1)
             k == b.index - 1
  <2>1. k \in Nat /\ \A i \in 1 .. k : Future(b)[i] \in Words /\ Future(b)[i] = b.list[i]
    BY <1>2, <1>3, ElementOfSeq
  <2>2. /\ f \in Seq(Words) /\ Len(f) = IF 1 <= k THEN k - 1 + 1 ELSE 0
        /\ \A i \in 1 .. k - 1 + 1 : f[i] = Future(b)[1 + i - 1]
    BY <2>1, SubSeqProperties
  <2> HIDE DEF f
  <2>3. Len(f) = k /\ \A i \in 1 .. k : f[i] = b.list[i]
    BY <2>1, <2>2
  <2>4. Len(Future(c)) = k /\ \A i \in 1 .. k : Future(c)[i] = b.list[i]
    BY <1>1, <1>4
  <2>5. Future(c) = f
    BY <1>4, <2>2, <2>3, <2>4, SeqEqual
  <2>6. QED
    BY <2>5 DEF f
<1>9. QED
  BY <1>3, <1>5, <1>6, <1>7, <1>8 DEF c

LEMMA NoBackIsNowhere == TrailOf(NoBack) = TheTrail!Start
  BY NoBackAgrees, Parts DEF NoBack, TrailOf, TheTrail!Start

(* The entry is put in front, and stays, or is left for another text: it   *)
(* is visited, or, when it is empty, nothing is.                           *)
LEMMA InsertStep ==
  ASSUME Inv, back' = InsertBackList(back, entry), entry' \in Texts
  PROVE  TheTrail!Next
<1>1. TrailOf(back') = TheTrail!After(TrailOf(back), entry)
  BY InsertBackListIsVisit DEF Inv
<1>2. TheTrail!Leave(entry')
  BY <1>1 DEF TheTrail!Leave, TrailOf, Past, Present, Future
<1>3. QED
  BY <1>2, Zenon DEF TheTrail!Next, Texts

(* do_back and do_forward are the steps of a trail. *)
LEMMA WalkStep ==
  ASSUME Inv, DoBack \/ DoForward
  PROVE  TheTrail!Next
<1> DEFINE t == TrailOf(back)
<1>1. t.past = Past(back) /\ t.present = Present(back) /\ t.future = Future(back)
  BY DEF TrailOf
<1>2. CASE DoBack
  <2>1. back' = Earlier(back) /\ back.index + 1 < Len(back.list)
    BY <1>2 DEF DoBack, Earlier
  <2>2. /\ Past(back) # <<>>
        /\ Past(back') = Tail(Past(back)) /\ Present(back') = Head(Past(back))
        /\ Future(back') = Append(Future(back), Present(back))
    BY <2>1, EarlierIsBack DEF Inv
  <2>3. /\ t.past # <<>>
        /\ TrailOf(back') = [past |-> Tail(t.past), present |-> Head(t.past),
                             future |-> Append(t.future, t.present)]
    BY <1>1, <2>2 DEF TrailOf
  <2>4. entry' = Head(t.past)
    <3>1. /\ back' \in BackType /\ Agrees(back')
          /\ back'.list = back.list /\ back'.index = back.index + 1 /\ back'.list # <<>>
      BY <2>1, EarlierAgrees, BackFields, EmptySeq DEF Inv
    <3>2. Present(back') = back.list[(back.index + 1) + 1]
      BY <3>1, Zenon DEF Present
    <3>3. (back.index + 1) + 1 = back.index + 2
      BY BackFields DEF Inv
    <3>4. entry' = Present(back')
      BY <1>2, <3>2, <3>3 DEF DoBack
    <3>5. QED
      BY <1>1, <2>2, <3>4
  <2>5. TheTrail!Back
    BY <2>3, <2>4 DEF TheTrail!Back, TrailOf, Past, Present, Future
  <2>6. QED
    BY <2>5 DEF TheTrail!Next
<1>3. CASE DoForward
  <2>1. back' = Later(back) /\ back.list # <<>> /\ back.index > 0
    BY <1>3 DEF DoForward, Later
  <2>2. /\ Future(back) # <<>> /\ Len(Future(back)) = back.index
        /\ Past(back') = <<Present(back)>> \o Past(back)
        /\ Present(back') = Future(back)[back.index]
        /\ Future(back') = SubSeq(Future(back), 1, back.index - 1)
    BY <2>1, LaterIsForward DEF Inv
  <2>3. /\ t.future # <<>>
        /\ TrailOf(back') = [past |-> <<t.present>> \o t.past,
                             present |-> t.future[Len(t.future)],
                             future |-> SubSeq(t.future, 1, Len(t.future) - 1)]
    BY <1>1, <2>2 DEF TrailOf
  <2>4. entry' = t.future[Len(t.future)]
    <3>1. back.index \in 1 .. back.index /\ back.index \in Nat
      BY <2>1, BackFields DEF Inv
    <3>2. Future(back)[back.index] = back.list[back.index]
      BY <3>1, Parts DEF Inv
    <3>3. QED
      BY <1>1, <1>3, <2>2, <3>2 DEF DoForward
  <2>5. TheTrail!Forward
    BY <2>3, <2>4 DEF TheTrail!Forward, TrailOf, Past, Present, Future
  <2>6. QED
    BY <2>5 DEF TheTrail!Next
<1>4. QED
  BY <1>2, <1>3

(* A word that is clicked is visited after the entry. *)
LEMMA ClickStep ==
  ASSUME Inv, NEW w \in Words, ListClick(w)
  PROVE  TheTrail!Next
<1> DEFINE b == InsertBackList(back, entry)
<1>1. b \in BackType /\ Agrees(b)
  BY InsertBackListAgrees DEF Inv
<1>2. back' = InsertBackList(b, w) /\ entry' = w
  BY DEF ListClick
<1>3. w \in Texts
  BY DEF Texts
<1>4. TrailOf(back') = TheTrail!After(TrailOf(b), w)
  BY <1>1, <1>2, <1>3, InsertBackListIsVisit
<1>5. TrailOf(b) = TheTrail!After(TrailOf(back), entry)
  BY InsertBackListIsVisit DEF Inv
<1> HIDE DEF b
<1>6. TheTrail!Click(w)
  BY <1>2, <1>4, <1>5 DEF TheTrail!Click, TrailOf, Past, Present, Future
<1>7. QED
  BY <1>6 DEF TheTrail!Next

LEMMA RestartStep ==
  ASSUME back' = NoBack, entry' = Blank
  PROVE  TheTrail!Next
<1>1. TrailOf(back') = TheTrail!Start
  BY NoBackIsNowhere
<1>2. TheTrail!Restart
  BY <1>1 DEF TheTrail!Restart, TrailOf, Past, Present, Future
<1>3. QED
  BY <1>2 DEF TheTrail!Next

LEMMA StepOfTrail ==
  ASSUME Inv, [Next]_vars
  PROVE  [TheTrail!Next]_<<TrailOf(back), entry>>
<1>1. ASSUME back' = back, entry' \in Texts
      PROVE  [TheTrail!Next]_<<TrailOf(back), entry>>
  <2>1. TheTrail!Show(entry')
    BY <1>1 DEF TheTrail!Show, TrailOf, Past, Present, Future
  <2>2. QED
    BY <1>1, <2>1, Zenon DEF TheTrail!Next, Texts
<1>2. ASSUME NEW t \in Words \cup {Blank}, Type(t) \/ Leave(t)
      PROVE  [TheTrail!Next]_<<TrailOf(back), entry>>
  BY <1>1, <1>2, InsertStep DEF Type, Leave, Texts
<1>3. ASSUME NEW w \in Words, FollowLink(w) \/ ListClick(w) \/ Scanned(w)
      PROVE  [TheTrail!Next]_<<TrailOf(back), entry>>
  <2>1. CASE ListClick(w)
    BY <2>1, ClickStep
  <2>2. CASE FollowLink(w)
    BY <2>2, InsertStep DEF FollowLink, Texts
  <2>3. CASE Scanned(w)
    BY <1>1, <2>3 DEF Scanned, Inv
  <2>4. QED
    BY <1>3, <2>1, <2>2, <2>3
<1>4. CASE Enter
  BY <1>4, InsertStep DEF Enter, Inv
<1>5. CASE DoBack \/ DoForward
  BY <1>5, WalkStep
<1>6. CASE ClearHistory
  BY <1>1, <1>6 DEF ClearHistory, Inv
<1>7. CASE Restart \/ Crash
  BY <1>7, RestartStep DEF Restart, Crash
<1>8. CASE UNCHANGED vars
  BY <1>1, <1>8 DEF vars, Inv
<1>9. QED
  BY <1>2, <1>3, <1>4, <1>5, <1>6, <1>7, <1>8 DEF Next

(* Whatever is visited, shown, walked and cut off: Back and Forward undo   *)
(* one another and show the present word, a visit forgets the future only  *)
(* and the oldest past.  InsertBackList does not visit the word at the     *)
(* front again, and on_link_click visits the word it leaves alone.         *)
THEOREM ImplementsTrail == Spec => KeepsTrail
<1>1. Init => TheTrail!Init
  BY NoBackIsNowhere DEF Init, TheTrail!Init, TrailOf, Past, Present, Future
<1>2. Inv /\ [Next]_vars => [TheTrail!Next]_<<TrailOf(back), entry>>
  BY StepOfTrail
<1>3. Inv /\ [Next]_vars =>
        [TheTrail!Next]_<<[past |-> SubSeq(back.list, back.index + 2, Len(back.list)),
                           present |-> IF back.list = <<>> THEN Nil
                                       ELSE back.list[back.index + 1],
                           future |-> SubSeq(back.list, 1, back.index)], entry>>
  BY <1>2 DEF TrailOf, Past, Present, Future
<1>4. QED
  BY InitInv, NextInv, <1>1, <1>3, PTL DEF Spec, KeepsTrail, TheTrail!Spec

-----------------------------------------------------------------------------
(***************************************************************************)
(* Back leads to the word queried before.  While both words are kept, the  *)
(* list begins with them; when only the last is known, the index is at it. *)
(***************************************************************************)
Queries == [word : Words \cup {Nil}, before : Words \cup {Nil}, kept : BOOLEAN]

Remembered(q, b) ==
  q.kept => /\ q.word = Nil <=> b.list = <<>>
            /\ q.word = Nil => q.before = Nil
            /\ b.list # <<>> => b.list[b.index + 1] = q.word
            /\ q.before # Nil => b.index = 0 /\ 1 < Len(b.list) /\ b.list[2] = q.before

Follows == queried \in Queries /\ Remembered(queried, back)

LEMMA FollowsGives == Inv /\ Follows => BackReturns
<1> SUFFICES ASSUME Inv, Follows, queried.kept, queried.before # Nil
             PROVE  /\ back.index + 1 < Len(back.list)
                    /\ back.list[back.index + 2] = queried.before
  BY DEF BackReturns
<1>1. back.index = 0 /\ 1 < Len(back.list) /\ back.list[2] = queried.before
  BY DEF Follows, Remembered
<1>2. QED
  BY <1>1

(* What InsertBackList leaves of the list: the word, then the present one. *)
LEMMA InsertedFirst ==
  ASSUME NEW b \in BackType, Agrees(b), NEW w \in Words, ~ (b.list # <<>> /\ b.list[1] = w)
  PROVE  LET n == InsertBackList(b, w)
         IN  /\ n.index = 0 /\ n.list # <<>> /\ n.list[1] = w
             /\ b.list # <<>> => 1 < Len(n.list) /\ n.list[2] = b.list[b.index + 1]
<1> DEFINE rest == SubSeq(b.list, b.index + 1, Len(b.list))
           l == SubSeq(<<w>> \o rest, 1, Shortest(MaxBack, Len(rest) + 1))
           n == InsertBackList(b, w)
<1>1. n.list = l /\ n.index = 0
  BY TopWinAssumption DEF InsertBackList
<1>2. /\ b.list \in Seq(Words) /\ b.index \in Nat /\ Len(b.list) \in Nat
      /\ b.index < Len(b.list) \/ (b.list = <<>> /\ b.index = 0)
      /\ b.list = <<>> <=> Len(b.list) = 0
  BY BackFields, EmptySeq DEF Agrees
<1>3. /\ rest \in Seq(Words) /\ Len(rest) = Len(b.list) - b.index
      /\ \A j \in 1 .. Len(rest) : rest[j] = b.list[b.index + j]
  BY <1>2, RestOfList
<1> HIDE DEF rest, n
<1>4. MaxBack \in Nat \ {0} /\ MaxBack \in Nat \ {0, 1}
  BY TopWinAssumption
<1>5. /\ l \in Seq(Words) /\ Len(l) = Shortest(MaxBack, Len(rest) + 1) /\ l[1] = w
      /\ \A j \in 2 .. Len(l) : l[j] = rest[j - 1]
  BY <1>3, <1>4, CutAfter, Zenon
<1> HIDE DEF l
<1>6. Len(l) # 0 /\ l # <<>>
  BY <1>2, <1>3, <1>4, <1>5, EmptySeq DEF Shortest
<1>7. ASSUME b.list # <<>>
      PROVE  1 < Len(l) /\ l[2] = b.list[b.index + 1]
  <2>1. Len(rest) \in Nat /\ 1 \in 1 .. Len(rest)
    BY <1>2, <1>3, <1>7
  <2>2. 1 < Len(l) /\ Len(l) \in Nat
    BY <1>4, <1>5, <2>1 DEF Shortest
  <2>3. l[2] = rest[1]
    BY <1>5, <2>2
  <2>4. QED
    BY <1>3, <2>1, <2>2, <2>3
<1>8. QED
  BY <1>1, <1>5, <1>6, <1>7 DEF n

(* A word is queried and put in the list. *)
LEMMA QueryRemembered ==
  ASSUME NEW b \in BackType, Agrees(b), NEW q \in Queries, Remembered(q, b), NEW w \in Texts
  PROVE  /\ Query(q, b, w) \in Queries
         /\ Remembered(Query(q, b, w), InsertBackList(b, w))
<1> DEFINE n == InsertBackList(b, w)
           p == Query(q, b, w)
<1>1. (w \in Words /\ w # Nil) \/ w = Blank
  BY TopWinAssumption DEF Texts
<1>2. CASE w = Blank
  BY <1>2 DEF Query, InsertBackList
<1>3. CASE w # Blank /\ w = q.word
  <2>1. p = q /\ w \in Words /\ w # Nil
    BY <1>1, <1>3 DEF Query
  <2>2. CASE b.list # <<>> /\ b.list[1] = w
    BY <2>1, <2>2 DEF InsertBackList
  <2>3. CASE ~ (b.list # <<>> /\ b.list[1] = w)
    <3> SUFFICES ASSUME q.kept PROVE Remembered(q, n)
      BY <2>1 DEF Remembered
    <3>1. b.list # <<>> /\ b.list[b.index + 1] = w
      BY <1>3, <2>1 DEF Remembered
    <3>2. q.before = Nil
      BY <2>3, <3>1 DEF Remembered
    <3>3. n.index = 0 /\ n.list # <<>> /\ n.list[1] = w
      BY <2>1, <2>3, InsertedFirst
    <3> HIDE DEF n
    <3>4. QED
      BY <1>3, <2>1, <3>2, <3>3 DEF Remembered
  <2>4. QED
    BY <2>1, <2>2, <2>3
<1>4. CASE w # Blank /\ w # q.word
  <2>1. w \in Words /\ w # Nil
    BY <1>1, <1>4
  <2>2. p = [word |-> w, before |-> q.word, kept |-> q.kept /\ (b.list # <<>> => b.list[1] # w)]
    BY <1>4 DEF Query
  <2>3. p \in Queries
    BY <2>1, <2>2 DEF Queries
  <2>4. ASSUME p.kept
        PROVE  Remembered(p, n)
    <3>1. q.kept /\ ~ (b.list # <<>> /\ b.list[1] = w)
      <4> DEFINE k == q.kept /\ (b.list # <<>> => b.list[1] # w)
      <4>1. k
        <5> HIDE DEF k
        <5>1. p = [word |-> w, before |-> q.word, kept |-> k]
          BY <2>2 DEF k
        <5>2. [word |-> w, before |-> q.word, kept |-> k].kept = k
          OBVIOUS
        <5>3. QED
          BY <5>1, <5>2, <2>4
      <4>2. QED
        BY <4>1
    <3>2. /\ n.index = 0 /\ n.list # <<>> /\ n.list[1] = w
          /\ b.list # <<>> => 1 < Len(n.list) /\ n.list[2] = b.list[b.index + 1]
      BY <2>1, <3>1, InsertedFirst
    <3>3. /\ q.word = Nil <=> b.list = <<>>
          /\ b.list # <<>> => b.list[b.index + 1] = q.word
      BY <3>1 DEF Remembered
    <3>4. p.word = w /\ p.before = q.word
      BY <2>2
    <3> HIDE DEF n, p
    <3>5. QED
      BY <2>1, <3>2, <3>3, <3>4 DEF Remembered
  <2>5. QED
    BY <2>3, <2>4 DEF Remembered
<1>5. QED
  BY <1>1, <1>2, <1>3, <1>4

(* The last word is walked to. *)
LEMMA WalkedRemembered ==
  ASSUME NEW b, NEW w \in Words, b.list # <<>>, b.list[b.index + 1] = w
  PROVE  Walked(w) \in Queries /\ Remembered(Walked(w), b)
<1>1. w # Nil
  BY TopWinAssumption
<1>2. QED
  BY <1>1 DEF Walked, Queries, Remembered

LEMMA NothingRemembered == Walked(Nil) \in Queries /\ Remembered(Walked(Nil), NoBack)
  BY DEF Walked, Queries, Remembered, NoBack

LEMMA NextFollows ==
  ASSUME Inv, Follows, [Next]_vars
  PROVE  Follows'
<1>1. /\ back \in BackType /\ Agrees(back) /\ entry \in Texts
      /\ queried \in Queries /\ Remembered(queried, back)
  BY DEF Inv, Follows
<1>2. CASE UNCHANGED <<back, queried>>
  BY <1>2 DEF Follows
<1>3. CASE back' = InsertBackList(back, entry) /\ queried' = Query(queried, back, entry)
  BY <1>1, <1>3, QueryRemembered DEF Follows
<1>4. ASSUME NEW w \in Words, FollowLink(w)
      PROVE  Follows'
  <2> DEFINE q == Query(Query(queried, back, entry), back, w)
  <2>1. Query(queried, back, entry) \in Queries
    BY <1>1, QueryRemembered
  <2>2. q \in Queries
    BY <2>1 DEF Query, Queries
  <2>3. queried' = [q EXCEPT !.kept = FALSE]
    BY <1>4 DEF FollowLink
  <2> HIDE DEF q
  <2>4. queried' \in Queries /\ ~ queried'.kept
    BY <2>2, <2>3 DEF Queries
  <2>5. QED
    BY <2>4 DEF Follows, Remembered
<1>5. ASSUME NEW w \in Words, ListClick(w)
      PROVE  Follows'
  <2> DEFINE b == InsertBackList(back, entry)
             q == Query(queried, back, entry)
  <2>1. b \in BackType /\ Agrees(b) /\ q \in Queries /\ Remembered(q, b)
    BY <1>1, InsertBackListAgrees, QueryRemembered
  <2>2. back' = InsertBackList(b, w) /\ queried' = Query(q, b, w)
    BY <1>5 DEF ListClick
  <2>3. w \in Texts
    BY DEF Texts
  <2> HIDE DEF b, q
  <2>4. QED
    BY <2>1, <2>2, <2>3, QueryRemembered DEF Follows
<1>6. CASE DoBack
  <2>1. back' = Earlier(back) /\ back.index + 1 < Len(back.list)
    BY <1>6 DEF DoBack, Earlier
  <2>2. back'.list = back.list /\ back'.index = back.index + 1 /\ back'.list # <<>>
    BY <1>1, <2>1, EarlierAgrees, BackFields, EmptySeq
  <2>3. back.list[back.index + 2] \in Words /\ (back.index + 1) + 1 = back.index + 2
    BY <1>1, <2>1, BackFields
  <2>4. queried' = Walked(back.list[back.index + 2])
    BY <1>6 DEF DoBack
  <2>5. QED
    BY <2>2, <2>3, <2>4, WalkedRemembered DEF Follows
<1>7. CASE DoForward
  <2>1. back' = Later(back) /\ back.list # <<>> /\ back.index > 0
    BY <1>7 DEF DoForward, Later
  <2>2. back'.list = back.list /\ back'.index = back.index - 1 /\ back'.list # <<>>
    BY <1>1, <2>1, LaterAgrees
  <2>3. back.list[back.index] \in Words /\ (back.index - 1) + 1 = back.index
    BY <1>1, <2>1, BackFields DEF Agrees
  <2>4. queried' = Walked(back.list[back.index])
    BY <1>7 DEF DoForward
  <2>5. QED
    BY <2>2, <2>3, <2>4, WalkedRemembered DEF Follows
<1>8. CASE Restart \/ Crash
  BY <1>8, NothingRemembered DEF Restart, Crash, Follows
<1>9. QED
  BY <1>2, <1>3, <1>4, <1>5, <1>6, <1>7, <1>8
     DEF Next, Type, Leave, Enter, Scanned, ClearHistory, vars

(* Whatever is entered, left, clicked and cut off, Back leads to the word  *)
(* queried before the last one, if neither was reached by a link nor was   *)
(* the newest of a list that had been walked back.                         *)
THEOREM BackLeadsToTheWordBefore == Spec => []BackReturns
<1>1. Init => Follows
  BY NothingRemembered DEF Init, Follows
<1>2. Inv /\ Follows => BackReturns
  BY FollowsGives
<1>3. Inv /\ Follows /\ [Next]_vars => Follows'
  BY NextFollows
<1>4. QED
  BY InitInv, NextInv, <1>1, <1>2, <1>3, PTL DEF Spec
=============================================================================
