--------------------------- MODULE MainWinProofs ----------------------------
(***************************************************************************)
(* Proofs about the lookups of the main window, for any words, patterns,   *)
(* commands and searches.                                                  *)
(***************************************************************************)
EXTENDS MainWin, TLAPS

Texts == Words \cup {Rule, Like, Blank}
Results == Adding \cup NotFound \cup {"TIPS", "INFO", "TREEDICT"}

Queries ==
  [kind : {"word", "row", "rule", "fuzzy", "data", "more", "overtaken"}, word : Texts]
Commands == [query : Queries, awaited : BOOLEAN]
Views == [text : SUBSET Words, result : Results, word : Texts]

\* What is relied on of the types
Typed ==
  /\ cmds \in Seq(Commands) /\ win \in Views
  /\ entry \in Texts /\ timer \in Words \cup {Nil}
  /\ search \in Seq(Words) /\ net \subseteq Texts

\* The answer to a query is still let in.
StillAwaited(c, q) == \E i \in DOMAIN c : c[i].awaited /\ c[i].query = q

\* What the network dictionary was asked for is still to come.
StillAsked(n, q) == NetText(q) \in n

\* OldTextOnlyWhileWaiting, in two parts
OldText(v) == v.text \ {v.word} # {} /\ v.result \in NotFound
Excused(c, n, q, l, u) ==
  q = Nil \/ q.kind = "data" \/ l \/ u \/ StillAwaited(c, q) \/ StillAsked(n, q)

OldTextExcused == OldText(win) => Excused(cmds, net, asked, lost, unasked)

Inv == Typed /\ AwaitedIsAsked /\ OldTextExcused

LEMMA InvGives == Inv => AwaitedIsAsked /\ OldTextOnlyWhileWaiting
  BY DEF Inv, OldTextExcused, OldText, Excused, StillAwaited, StillAsked, OldTextOnlyWhileWaiting

-----------------------------------------------------------------------------
(* What is shown.  An answer, of whatever source, leaves no old text under *)
(* a word that was not found.                                              *)
LEMMA AnswerClears ==
  ASSUME NEW v \in Views, NEW w, NEW found \in BOOLEAN
  PROVE  ShowAnswer(v, w, found) \in Views /\ ~ OldText(ShowAnswer(v, w, found))
<1>1. CASE found
  BY <1>1 DEF ShowAnswer, Kept, OldText, Views, Results, Adding, NotFound
<1>2. CASE ~ found
  BY <1>2 DEF ShowAnswer, OldText, Views, Results, Adding, NotFound
<1>3. QED
  BY <1>1, <1>2

LEMMA NetClears ==
  ASSUME NEW v \in Views, NEW w, NEW found \in BOOLEAN
  PROVE  ShowNet(v, w, found) \in Views /\ ~ OldText(ShowNet(v, w, found))
<1>1. CASE found
  BY <1>1 DEF ShowNet, Kept, OldText, Views, Results, Adding, NotFound
<1>2. CASE ~ found
  BY <1>2 DEF ShowNet, OldText, Views, Results, Adding, NotFound
<1>3. QED
  BY <1>1, <1>2

\* A text that stays although nobody may answer
Forgotten(v, c) == OldText(v) /\ ~ c.server /\ ~ c.netdict

\* What a lookup shows at once
LEMMA ShownAtOnce ==
  ASSUME NEW v \in Views, NEW w \in Texts, NEW first \in BOOLEAN, NEW r \in NotFound, NEW c
  PROVE  /\ ShowNotFound(v, w, r, c) \in Views /\ ~ Forgotten(ShowNotFound(v, w, r, c), c)
         /\ w \in Words => ShowData(v, w, first) \in Views /\ ~ OldText(ShowData(v, w, first))
<1>1. /\ ShowNotFound(v, w, r, c) \in Views
      /\ ~ (c.server \/ c.netdict) => ShowNotFound(v, w, r, c).text = {}
  BY DEF ShowNotFound, Views, Results
<1>2. ~ Forgotten(ShowNotFound(v, w, r, c), c)
  BY <1>1 DEF Forgotten, OldText
<1>3. w \in Words => ShowData(v, w, first) \in Views /\ ~ OldText(ShowData(v, w, first))
  BY DEF ShowData, Views, Results, Adding, NotFound, OldText
<1>4. QED
  BY <1>1, <1>2, <1>3

LEMMA SimplyShown ==
  ASSUME win \in Views, NEW w \in Words, NEW found, NEW c
  PROVE  SimpleLookup(w, found, c) \in Views /\ ~ Forgotten(SimpleLookup(w, found, c), c)
<1>1. w \in Texts /\ "NOT_FOUND" \in NotFound
  BY DEF Texts, NotFound
<1>2. QED
  BY <1>1, ShownAtOnce DEF SimpleLookup, Forgotten

-----------------------------------------------------------------------------
(* What is sent.  The last command is the one that is awaited. *)
LEMMA SentIsAwaited ==
  ASSUME NEW c \in Seq(Commands), NEW q \in Queries
  PROVE  /\ Sent(c, q) \in Seq(Commands)
         /\ StillAwaited(Sent(c, q), q)
         /\ \A i \in DOMAIN Sent(c, q) : Sent(c, q)[i].awaited => Sent(c, q)[i].query = q
<1> DEFINE rest == [i \in DOMAIN c |-> IF c[i].awaited THEN Overtaken ELSE c[i]]
           new == [query |-> q, awaited |-> TRUE]
<1>1. rest \in Seq(Commands) /\ \A i \in DOMAIN rest : ~ rest[i].awaited
  <2>1. Overtaken \in Commands /\ ~ Overtaken.awaited
    BY DEF Overtaken, Commands, Query, Queries, Texts
  <2>2. \A i \in DOMAIN c : rest[i] \in Commands /\ ~ rest[i].awaited
    BY <2>1
  <2>3. DOMAIN c = 1 .. Len(c) /\ Len(c) \in Nat
    OBVIOUS
  <2>4. rest \in [1 .. Len(c) -> Commands]
    BY <2>2, <2>3
  <2>5. rest \in Seq(Commands)
    BY <2>3, <2>4
  <2>6. QED
    BY <2>2, <2>5
<1>2. new \in Commands
  BY DEF Commands
<1> HIDE DEF rest, new
<1>3. /\ Append(rest, new) \in Seq(Commands)
      /\ DOMAIN Append(rest, new) = DOMAIN rest \cup {Len(rest) + 1}
      /\ Append(rest, new)[Len(rest) + 1] = new
      /\ \A i \in DOMAIN rest : Append(rest, new)[i] = rest[i]
  BY <1>1, <1>2
<1>4. Sent(c, q) = Append(rest, new)
  BY DEF Sent, rest, new
<1>5. new.awaited /\ new.query = q
  BY DEF new
<1>6. QED
  BY <1>1, <1>3, <1>4, <1>5 DEF StillAwaited

LEMMA AnswersAreBoolean == ASSUME NEW q, NEW found \in Answers(q) PROVE found \in BOOLEAN
<1>1. CASE q.kind \in {"word", "row"}
  <2>1. (q.word \in OnServer) \in BOOLEAN
    OBVIOUS
  <2>2. found \in {q.word \in OnServer}
    BY <1>1, Zenon DEF Answers
  <2>3. found = (q.word \in OnServer)
    BY <2>2, Zenon
  <2>4. QED
    BY <2>1, <2>3, Zenon
<1>2. CASE q.kind \notin {"word", "row"}
  BY <1>2, Zenon DEF Answers
<1>3. QED
  BY <1>1, <1>2

(* Every lookup, whatever it shows at once: either an answer is awaited,   *)
(* or it is there already and has cleared old text away, or no one was     *)
(* asked.                                                                  *)
LEMMA ServerAsked ==
  ASSUME cmds \in Seq(Commands), NEW v \in Views, NEW l, NEW q \in Queries, NEW c,
         NEW s \in AskServer(v, l, q, c), AwaitedIsAsked
  PROVE  /\ s.cmds \in Seq(Commands) /\ s.win \in Views
         /\ \A i \in DOMAIN s.cmds : s.cmds[i].awaited /\ s.own => s.cmds[i].query = q
         /\ ~ OldText(v) => ~ OldText(s.win)
         /\ OldText(s.win) /\ c.server => StillAwaited(s.cmds, q)
<1>1. CASE ~ c.server
  <2>1. s = [win |-> v, list |-> l, cmds |-> cmds, own |-> FALSE]
    BY <1>1 DEF AskServer
  <2>2. QED
    BY <1>1, <2>1
<1>2. CASE c.server /\ s = [win |-> v, list |-> l, cmds |-> Sent(cmds, q), own |-> TRUE]
  BY <1>2, SentIsAwaited
<1>3. ASSUME NEW found \in Answers(q),
             s = [win |-> ShowAnswer(v, q.word, found), list |-> l \/ Lists(q, found),
                  cmds |-> cmds, own |-> FALSE]
      PROVE  s.cmds = cmds /\ s.win \in Views /\ ~ s.own /\ ~ OldText(s.win)
  BY <1>3, AnswersAreBoolean, AnswerClears
<1>4. QED
  BY <1>1, <1>2, <1>3 DEF AskServer

LEMMA NetAsked ==
  ASSUME net \subseteq Texts, NEW v \in Views, NEW w \in Texts, NEW c, NEW n \in AskNet(v, w, c)
  PROVE  /\ n.win \in Views /\ n.net \subseteq Texts
         /\ ~ OldText(v) => ~ OldText(n.win)
         /\ OldText(n.win) /\ c.netdict => w \in n.net
<1>1. CASE n = [win |-> v, net |-> net] /\ ~ c.netdict
  BY <1>1
<1>2. CASE n = [win |-> v, net |-> net \cup {w}]
  BY <1>2
<1>3. CASE n = [win |-> ShowNet(v, w, w \in OnNet), net |-> net]
  <2>1. n.win = ShowNet(v, w, w \in OnNet) /\ n.net = net
    BY <1>3
  <2>2. n.win \in Views /\ ~ OldText(n.win)
    BY <2>1, NetClears, (w \in OnNet) \in BOOLEAN
  <2>3. QED
    BY <2>1, <2>2
<1>4. QED
  BY <1>1, <1>2, <1>3 DEF AskNet

LEMMA LookUpKeeps ==
  ASSUME cmds \in Seq(Commands), net \subseteq Texts, AwaitedIsAsked,
         NEW v \in Views, NEW l, NEW q \in Queries, NEW n \in BOOLEAN, NEW c,
         q.kind = "data" \/ ~ Forgotten(v, c),
         LookUp(v, l, q, n, c)
  PROVE  /\ cmds' \in Seq(Commands) /\ win' \in Views /\ net' \subseteq Texts
         /\ AwaitedIsAsked' /\ OldTextExcused'
<1>1. PICK s \in AskServer(v, l, q, c) :
        /\ cmds' = s.cmds /\ own' = s.own
        /\ IF n THEN \E m \in AskNet(s.win, NetText(q), c) : win' = m.win /\ net' = m.net
                ELSE win' = s.win /\ UNCHANGED net
  BY DEF LookUp
<1>2. asked' = q /\ unasked' = (~ c.server /\ c.netdict /\ ~ n) /\ NetText(q) \in Texts
  BY DEF LookUp, Queries, NetText, Texts
<1>3. /\ s.cmds \in Seq(Commands) /\ s.win \in Views
      /\ \A i \in DOMAIN s.cmds : s.cmds[i].awaited /\ s.own => s.cmds[i].query = q
      /\ ~ OldText(v) => ~ OldText(s.win)
      /\ OldText(s.win) /\ c.server => StillAwaited(s.cmds, q)
  BY ServerAsked
<1>4. /\ win' \in Views /\ net' \subseteq Texts
      /\ ~ OldText(s.win) => ~ OldText(win')
      /\ OldText(win') /\ c.netdict /\ n => NetText(q) \in net'
  <2>1. CASE n
    <3>1. PICK m \in AskNet(s.win, NetText(q), c) : win' = m.win /\ net' = m.net
      BY <1>1, <2>1
    <3>2. QED
      BY <1>2, <1>3, <3>1, NetAsked
  <2>2. CASE ~ n
    BY <1>1, <1>3, <2>2
  <2>3. QED
    BY <2>1, <2>2
<1>5. AwaitedIsAsked'
  BY <1>1, <1>2, <1>3 DEF AwaitedIsAsked
<1>6. ASSUME OldText(win'), q.kind # "data"
      PROVE  unasked' \/ StillAwaited(cmds', q) \/ StillAsked(net', q)
  <2>1. OldText(s.win) /\ OldText(v)
    BY <1>3, <1>4, <1>6
  <2>2. c.server \/ c.netdict
    BY <1>6, <2>1 DEF Forgotten
  <2>3. QED
    BY <1>1, <1>2, <1>3, <1>4, <1>6, <2>1, <2>2 DEF StillAsked
<1>7. OldTextExcused'
  BY <1>2, <1>6 DEF OldTextExcused, Excused
<1>8. QED
  BY <1>1, <1>3, <1>4, <1>5, <1>7

-----------------------------------------------------------------------------
(* Actions that do not look up. *)
LEMMA ClearedKeeps ==
  ASSUME Typed, NEW v \in Views, v.text = {}, win' = v, NotAsked
  PROVE  /\ cmds' = cmds /\ net' = net /\ win' \in Views
         /\ AwaitedIsAsked' /\ OldTextExcused'
  BY DEF NotAsked, AwaitedIsAsked, OldTextExcused, OldText

\* The text, and what is under way, stay.
QuietKeeps == UNCHANGED <<win, cmds, net, asked, own, lost, unasked>>

LEMMA QuietStays ==
  ASSUME Inv, QuietKeeps
  PROVE  /\ cmds' = cmds /\ net' = net /\ win' \in Views
         /\ AwaitedIsAsked' /\ OldTextExcused'
  BY DEF QuietKeeps, Inv, Typed, AwaitedIsAsked, OldTextExcused

LEMMA ChangeKeeps ==
  ASSUME Inv, NEW t \in Texts, TopWinWordChange(t)
  PROVE  /\ cmds' = cmds /\ net' = net /\ win' \in Views /\ timer' \in Words \cup {Nil}
         /\ AwaitedIsAsked' /\ OldTextExcused'
<1>1. CASE QuietKeeps /\ timer' \in {t, timer} /\ (timer' = t => t \in Words \/ t = timer)
  BY <1>1, QuietStays DEF Inv, Typed
<1>2. CASE win' = ShowHint(win) /\ NotAsked /\ UNCHANGED timer
  <2>1. ShowHint(win) \in Views /\ ShowHint(win).text = {}
    BY DEF ShowHint, Inv, Typed, Views
  <2>2. QED
    BY <1>2, <2>1, ClearedKeeps DEF Inv, Typed
<1>3. QED
  BY <1>1, <1>2 DEF TopWinWordChange, QuietKeeps

LEMMA TypeKeeps ==
  ASSUME Inv, NEW t \in Texts, Type(t)
  PROVE  Inv'
<1>1. entry' = t /\ search' = search
  BY DEF Type
<1>2. CASE win' = ShowTips(win) /\ NotAsked /\ UNCHANGED timer
  <2>1. ShowTips(win) \in Views /\ ShowTips(win).text = {}
    BY DEF ShowTips, Views, Results, Texts
  <2>2. QED
    BY <1>1, <1>2, <2>1, ClearedKeeps DEF Inv, Typed
<1>3. CASE TopWinWordChange(t)
  BY <1>1, <1>3, ChangeKeeps DEF Inv, Typed
<1>4. CASE QuietKeeps /\ UNCHANGED timer
  BY <1>1, <1>4, QuietStays DEF Inv, Typed
<1>5. QED
  BY <1>2, <1>3, <1>4 DEF Type, QuietKeeps

LEMMA ReloadKeeps ==
  ASSUME Inv, Reload
  PROVE  Inv'
<1>1. CASE entry = Blank
  BY <1>1, QuietStays DEF Reload, QuietKeeps, Inv, Typed
<1>2. CASE entry # Blank
  BY <1>2, ChangeKeeps DEF Reload, Inv, Typed
<1>3. QED
  BY <1>1, <1>2

LEMMA SelectTreeKeeps ==
  ASSUME Inv, SelectTreeDict
  PROVE  Inv'
<1>1. [win EXCEPT !.text = {}, !.result = "TREEDICT"] \in Views
  BY DEF Inv, Typed, Views, Results
<1>2. [win EXCEPT !.text = {}, !.result = "TREEDICT"].text = {}
  BY DEF Inv, Typed, Views
<1>3. QED
  BY <1>1, <1>2, ClearedKeeps DEF SelectTreeDict, Inv, Typed

-----------------------------------------------------------------------------
(* The lookups. *)
LEMMA QueryOf ==
  ASSUME NEW k \in {"word", "row", "rule", "fuzzy", "data", "more", "overtaken"}, NEW w \in Texts
  PROVE  Query(k, w) \in Queries
  BY DEF Query, Queries

LEMMA TypedKeeps ==
  ASSUME Inv, NEW w \in Words, TypedWord(w)
  PROVE  /\ cmds' \in Seq(Commands) /\ win' \in Views /\ net' \subseteq Texts
         /\ AwaitedIsAsked' /\ OldTextExcused' /\ UNCHANGED <<entry, search>>
<1>1. PICK showfirst \in ShowFirst, c \in Settings :
        LookUp(IF ~ Finds(w, c) /\ showfirst THEN ShowData(win, Near[w], TRUE)
               ELSE SimpleLookup(w, Finds(w, c), c),
               TRUE, Query("word", w), TRUE, c)
  BY DEF TypedWord
<1> DEFINE v == IF ~ Finds(w, c) /\ showfirst THEN ShowData(win, Near[w], TRUE)
                ELSE SimpleLookup(w, Finds(w, c), c)
<1>2. v \in Views /\ ~ Forgotten(v, c)
  <2>1. Near[w] \in Words /\ Near[w] \in Texts
    BY MainWinAssumption DEF Texts
  <2>2. win \in Views /\ "NOT_FOUND" \in NotFound
    BY DEF Inv, Typed, NotFound
  <2>3. ShowData(win, Near[w], TRUE) \in Views /\ ~ OldText(ShowData(win, Near[w], TRUE))
    BY <2>1, <2>2, ShownAtOnce
  <2>4. QED
    BY <2>2, <2>3, SimplyShown DEF Forgotten
<1>3. Query("word", w) \in Queries
  BY QueryOf DEF Texts
<1> HIDE DEF v
<1>4. LookUp(v, TRUE, Query("word", w), TRUE, c)
  BY <1>1 DEF v
<1>5. QED
  BY <1>2, <1>3, <1>4, LookUpKeeps DEF Inv, Typed, TypedWord

LEMMA TimeoutKeeps ==
  ASSUME Inv, WordChangeTimeout
  PROVE  Inv'
<1>1. timer \in Words /\ timer' = Nil
  BY DEF WordChangeTimeout, Inv, Typed
<1>2. QED
  BY <1>1, TypedKeeps DEF WordChangeTimeout, Inv, Typed

LEMMA UnseenKeeps ==
  ASSUME Inv, EnterUnseen
  PROVE  Inv'
  BY TypedKeeps DEF EnterUnseen, Inv, Typed

\* A row, or the word of the entry, is looked up as it is.
LEMMA SimplyKeeps ==
  ASSUME Inv, NEW w \in Words, NEW k \in {"word", "row"}, NEW found, NEW c, NEW l,
         LookUp(SimpleLookup(w, found, c), l, Query(k, w), TRUE, c),
         UNCHANGED <<entry, timer, search>>
  PROVE  Inv'
<1>1. /\ SimpleLookup(w, found, c) \in Views /\ ~ Forgotten(SimpleLookup(w, found, c), c)
      /\ Query(k, w) \in Queries
  BY SimplyShown, QueryOf DEF Inv, Typed, Texts
<1>2. /\ cmds' \in Seq(Commands) /\ win' \in Views /\ net' \subseteq Texts
      /\ AwaitedIsAsked' /\ OldTextExcused'
  BY <1>1, LookUpKeeps DEF Inv, Typed
<1>3. QED
  BY <1>2 DEF Inv, Typed

LEMMA RowKeeps ==
  ASSUME Inv, NEW first \in BOOLEAN, NEW w \in Words, SelectRow(first, w)
  PROVE  Inv'
  BY SimplyKeeps DEF SelectRow

LEMMA CachedKeeps ==
  ASSUME Inv, EnterCached
  PROVE  Inv'
<1> DEFINE found(c) == (entry \in Local /\ current = entry) \/ (c.kept /\ entry \in OnNet)
<1>1. entry \in Words /\ UNCHANGED <<entry, timer, search>>
  BY DEF EnterCached
<1>2. PICK c \in Settings :
        LookUp(SimpleLookup(entry, found(c), c), list, Query("word", entry), TRUE, c)
  BY DEF EnterCached
<1> HIDE DEF found
<1>3. QED
  BY <1>1, <1>2, SimplyKeeps

LEMMA UnheardKeeps ==
  ASSUME Inv, EnterUnheard
  PROVE  Inv'
<1>1. entry \in Words /\ UNCHANGED <<entry, timer, search>>
  BY DEF EnterUnheard
<1>2. PICK c \in Settings :
        (c.server \/ c.netdict) /\ LookUp(win, list, Query("word", entry), TRUE, c)
  BY DEF EnterUnheard
<1>3. win \in Views /\ ~ Forgotten(win, c) /\ Query("word", entry) \in Queries
  BY <1>1, <1>2, QueryOf DEF Forgotten, Inv, Typed, Texts
<1>4. /\ cmds' \in Seq(Commands) /\ win' \in Views /\ net' \subseteq Texts
      /\ AwaitedIsAsked' /\ OldTextExcused'
  BY <1>2, <1>3, LookUpKeeps DEF Inv, Typed
<1>5. QED
  BY <1>1, <1>4 DEF Inv, Typed

LEMMA MatchedKeeps ==
  ASSUME Inv, NEW q \in Queries, NEW r \in NotFound, NEW n \in BOOLEAN, Matched(q, r, n)
  PROVE  Inv'
<1>1. PICK first \in Local \cup {Nil}, c \in Settings :
        LookUp(IF first = Nil THEN ShowNotFound(win, q.word, r, c) ELSE ShowData(win, first, FALSE),
               first # Nil, q, n, c)
  BY DEF Matched
<1> DEFINE v == IF first = Nil THEN ShowNotFound(win, q.word, r, c)
                               ELSE ShowData(win, first, FALSE)
<1>2. v \in Views /\ ~ Forgotten(v, c)
  <2>1. win \in Views /\ q.word \in Texts /\ (first # Nil => first \in Words /\ first \in Texts)
    BY MainWinAssumption DEF Inv, Typed, Texts, Queries
  <2>2. QED
    BY <2>1, ShownAtOnce DEF Forgotten
<1> HIDE DEF v
<1>3. LookUp(v, first # Nil, q, n, c)
  BY <1>1 DEF v
<1>4. /\ cmds' \in Seq(Commands) /\ win' \in Views /\ net' \subseteq Texts
      /\ AwaitedIsAsked' /\ OldTextExcused'
  BY <1>2, <1>3, LookUpKeeps DEF Inv, Typed
<1>5. QED
  BY <1>4 DEF Inv, Typed, Matched

LEMMA FuzzyKeeps ==
  ASSUME Inv, NEW w \in Texts, NEW n \in BOOLEAN, Fuzzy(w, n)
  PROVE  Inv'
  BY MatchedKeeps, QueryOf DEF Fuzzy, NotFound

LEMMA PatternKeeps ==
  ASSUME Inv, NEW n \in BOOLEAN, Pattern(n)
  PROVE  Inv'
<1>1. Query("rule", Rule) \in Queries
  BY QueryOf DEF Texts
<1>2. QED
  BY <1>1, MatchedKeeps DEF Pattern, NotFound

-----------------------------------------------------------------------------
(* Searches in the articles, one inside another. *)
LEMMA SearchBeginKeeps ==
  ASSUME Inv, NEW w \in Words, SearchBegin(w)
  PROVE  Inv'
<1>1. win \in Views /\ Query("data", w) \in Queries /\ Query("data", w).kind = "data"
  BY QueryOf DEF Inv, Typed, Texts, Query
<1>2. /\ cmds' \in Seq(Commands) /\ win' \in Views /\ net' \subseteq Texts
      /\ AwaitedIsAsked' /\ OldTextExcused'
  BY <1>1, LookUpKeeps DEF SearchBegin, Inv, Typed
<1>3. entry' = entry /\ timer' = timer /\ search' \in Seq(Words)
  BY DEF SearchBegin, Inv, Typed
<1>4. QED
  BY <1>2, <1>3 DEF Inv, Typed

LEMMA SearchEndKeeps ==
  ASSUME Inv, SearchEnd
  PROVE  Inv'
<1> DEFINE q == Query("data", search[Len(search)])
<1>1. search[Len(search)] \in Words /\ search' \in Seq(Words)
  BY DEF SearchEnd, Inv, Typed
<1>2. asked' = q /\ own' = (own /\ asked = q) /\ q.kind = "data"
  BY DEF SearchEnd, Query
<1>3. UNCHANGED <<entry, timer, cmds, net>>
  BY DEF SearchEnd
<1>4. win' \in Views
  <2>1. ASSUME NEW c \in Settings, win' = ShowNotFound(win, q.word, "FUZZY_NOT_FOUND", c)
        PROVE  win' \in Views
    BY <1>1, <2>1, ShownAtOnce DEF Inv, Typed, NotFound, Texts, Query
  <2>2. ASSUME NEW first \in Local, win' = ShowData(win, first, FALSE)
        PROVE  win' \in Views
    <3>1. first \in Words /\ first \in Texts /\ win \in Views /\ "NOT_FOUND" \in NotFound
      BY MainWinAssumption DEF Inv, Typed, Texts, NotFound
    <3>2. QED
      BY <2>2, <3>1, ShownAtOnce
  <2>3. QED
    BY <2>1, <2>2 DEF SearchEnd
<1>5. AwaitedIsAsked'
  BY <1>2, <1>3 DEF AwaitedIsAsked, Inv
<1>6. OldTextExcused'
  BY <1>2 DEF OldTextExcused, Excused
<1>7. QED
  BY <1>1, <1>3, <1>4, <1>5, <1>6 DEF Inv, Typed

-----------------------------------------------------------------------------
(* What comes, or does not. *)
LEMMA AnswerKeeps ==
  ASSUME Inv, ServerAnswer
  PROVE  Inv'
<1>1. /\ cmds \in Seq(Commands) /\ cmds # <<>> /\ cmds' = Tail(cmds)
      /\ UNCHANGED <<entry, timer, net, search, asked, own, lost, unasked>>
  BY DEF ServerAnswer, Inv, Typed
<1>2. /\ cmds' \in Seq(Commands)
      /\ \A i \in DOMAIN cmds' : i + 1 \in DOMAIN cmds /\ cmds'[i] = cmds[i + 1]
      /\ \A i \in DOMAIN cmds : i = 1 \/ (i - 1 \in DOMAIN cmds' /\ cmds'[i - 1] = cmds[i])
  BY <1>1
<1>3. AwaitedIsAsked'
  BY <1>1, <1>2 DEF AwaitedIsAsked, Inv
<1>4. win' \in Views /\ OldTextExcused'
  <2>1. CASE cmds[1].awaited
    <3>1. PICK found \in Answers(cmds[1].query) : win' = ShowAnswer(win, cmds[1].query.word, found)
      BY <1>1, <2>1 DEF ServerAnswer
    <3>2. win' \in Views /\ ~ OldText(win')
      BY <3>1, AnswersAreBoolean, AnswerClears DEF Inv, Typed
    <3>3. QED
      BY <3>2 DEF OldTextExcused
  <2>2. CASE ~ cmds[1].awaited
    <3>1. win' = win
      BY <1>1, <2>2 DEF ServerAnswer
    <3>2. \A q : StillAwaited(cmds, q) => StillAwaited(cmds', q)
      BY <1>2, <2>2 DEF StillAwaited
    <3>3. QED
      BY <1>1, <3>1, <3>2 DEF OldTextExcused, Excused, Inv, Typed
  <2>3. QED
    BY <2>1, <2>2
<1>5. QED
  BY <1>1, <1>2, <1>3, <1>4 DEF Inv, Typed

LEMMA LossKeeps ==
  ASSUME Inv, LoseCommands
  PROVE  Inv'
<1>1. /\ cmds' = <<>> /\ (lost \/ StillAwaited(cmds, asked) => lost')
      /\ UNCHANGED <<entry, timer, win, net, search, asked, own, unasked>>
  BY DEF LoseCommands, StillAwaited
<1>2. AwaitedIsAsked' /\ OldTextExcused'
  BY <1>1 DEF Inv, AwaitedIsAsked, OldTextExcused, Excused
<1>3. QED
  BY <1>1, <1>2 DEF Inv, Typed

LEMMA NetAnswerKeeps ==
  ASSUME Inv, NEW w, NetAnswer(w)
  PROVE  Inv'
<1>1. win' \in Views /\ ~ OldText(win')
  BY NetClears, (w \in OnNet) \in BOOLEAN DEF NetAnswer, Inv, Typed
<1>2. QED
  BY <1>1 DEF NetAnswer, OldTextExcused, AwaitedIsAsked, Inv, Typed

LEMMA NetFailsKeeps ==
  ASSUME Inv, NEW w, NetFails(w)
  PROVE  Inv'
<1>1. /\ net' = net \ {w} /\ lost' = (lost \/ w = NetText(asked))
      /\ UNCHANGED <<entry, timer, win, cmds, search, asked, own, unasked>>
  BY DEF NetFails
<1>2. OldTextExcused'
  BY <1>1 DEF Inv, OldTextExcused, Excused, StillAsked
<1>3. QED
  BY <1>1, <1>2 DEF AwaitedIsAsked, Inv, Typed

LEMMA MoreRowsKeeps ==
  ASSUME Inv, MoreRows
  PROVE  Inv'
<1> DEFINE new == [query |-> MoreWords, awaited |-> FALSE]
<1>1. new \in Commands /\ ~ new.awaited
  BY QueryOf DEF MoreWords, Commands, Texts
<1>2. UNCHANGED <<entry, timer, win, net, search, asked, own, lost, unasked>>
  BY DEF MoreRows
<1>3. CASE cmds' = cmds
  BY <1>2, <1>3 DEF Inv, Typed, AwaitedIsAsked, OldTextExcused
<1>4. CASE cmds' = Append(cmds, new)
  <2> HIDE DEF new
  <2>1. /\ cmds' \in Seq(Commands)
        /\ DOMAIN cmds' = DOMAIN cmds \cup {Len(cmds) + 1}
        /\ cmds'[Len(cmds) + 1] = new
        /\ \A i \in DOMAIN cmds : cmds'[i] = cmds[i]
    BY <1>1, <1>4 DEF Inv, Typed
  <2>2. AwaitedIsAsked'
    BY <1>1, <1>2, <2>1 DEF AwaitedIsAsked, Inv
  <2>3. \A q : StillAwaited(cmds, q) => StillAwaited(cmds', q)
    BY <2>1 DEF StillAwaited
  <2>4. OldTextExcused'
    BY <1>2, <2>3 DEF OldTextExcused, Excused, Inv
  <2>5. QED
    BY <1>2, <2>1, <2>2, <2>4 DEF Inv, Typed
<1>5. QED
  BY <1>3, <1>4 DEF MoreRows

-----------------------------------------------------------------------------
LEMMA InitInv == Init => Inv
  BY DEF Init, Inv, Typed, Views, Results, Texts, Adding, NotFound, AwaitedIsAsked,
         OldTextExcused, OldText

LEMMA NextInv ==
  ASSUME Inv, [Next]_vars
  PROVE  Inv'
<1>1. ASSUME NEW t \in Words \cup {Rule, Like, Blank}, Type(t)
      PROVE  Inv'
  BY <1>1, TypeKeeps DEF Texts
<1>2. ASSUME NEW w \in Words, NEW first \in BOOLEAN,
             SelectRow(first, w) \/ EnterOther(w) \/ EnterFound(w)
      PROVE  Inv'
  BY <1>2, RowKeeps DEF EnterOther, EnterFound
<1>3. ASSUME NEW w \in Words, EnterLike(w) \/ Go(w)
      PROVE  Inv'
  <2>1. w \in Texts
    BY DEF Texts
  <2>2. QED
    BY <1>3, <2>1, FuzzyKeeps, PatternKeeps DEF EnterLike, Go
<1>4. CASE WordChangeTimeout \/ MoreRows
  BY <1>4, TimeoutKeeps, MoreRowsKeeps
<1>5. CASE EnterRule \/ EnterUnseen
  BY <1>5, PatternKeeps, UnseenKeeps DEF EnterRule
<1>6. CASE EnterNotFound
  BY <1>6, FuzzyKeeps DEF EnterNotFound, Texts
<1>7. CASE EnterCached \/ EnterUnheard
  BY <1>7, CachedKeeps, UnheardKeeps
<1>8. CASE (entry \in Searched /\ SearchBegin(entry)) \/ SearchEnd
  BY <1>8, SearchBeginKeeps, SearchEndKeeps, MainWinAssumption
<1>9. CASE SelectTreeDict \/ Reload
  BY <1>9, SelectTreeKeeps, ReloadKeeps
<1>10. CASE ServerAnswer \/ LoseCommands
  BY <1>10, AnswerKeeps, LossKeeps
<1>11. ASSUME NEW w \in Words \cup {Rule, Like}, NetAnswer(w) \/ NetFails(w)
       PROVE  Inv'
  BY <1>11, NetAnswerKeeps, NetFailsKeeps
<1>12. CASE UNCHANGED vars
  BY <1>12, QuietStays DEF vars, QuietKeeps, Inv, Typed
<1>13. QED
  BY <1>1, <1>2, <1>3, <1>4, <1>5, <1>6, <1>7, <1>8, <1>9, <1>10, <1>11, <1>12 DEF Next

(* The answer let into the window is that to the last lookup, through any  *)
(* number of commands, losses, searches within searches and reloads.       *)
THEOREM AwaitedIsWhatWasAsked == Spec => []AwaitedIsAsked
<1>1. Inv => AwaitedIsAsked
  BY DEF Inv
<1>2. QED
  BY InitInv, NextInv, <1>1, PTL DEF Spec

(* The article of an older word stays under a word that was not found only *)
(* as long as an answer that clears it away is awaited, of the server or   *)
(* of a network dictionary, whatever the settings are and become; but not  *)
(* where no one was asked, nor where the answer was lost.                  *)
THEOREM OldTextStaysOnlyWhileWaiting == Spec => []OldTextOnlyWhileWaiting
<1>1. Inv => OldTextOnlyWhileWaiting
  BY InvGives
<1>2. QED
  BY InitInv, NextInv, <1>1, PTL DEF Spec
=============================================================================
