------------------------------ MODULE MainWin -------------------------------
(***************************************************************************)
(* The lookups of the main window (stardict.cpp, mainwin.cpp): a word is   *)
(* looked up a while after it was typed, or when a row of the list is      *)
(* selected or Enter pressed; local articles are shown at once, answers of *)
(* the server and of network dictionaries are added to, or replace, what   *)
(* is shown when they come.  Only the answer with the number of the        *)
(* command sent last is taken, and every answer from the cache.            *)
(*                                                                         *)
(* What is looked up is a query: a word, a row's word, a pattern, or a     *)
(* word to be searched for by likeness or in the articles.  Of the text    *)
(* the model tells which articles a lookup shows at once; those that       *)
(* answers add show in query_result alone.  The settings and the set of    *)
(* dictionaries may be changed at any time, by their dialogs: every step   *)
(* chooses them anew.                                                      *)
(***************************************************************************)
EXTENDS Naturals, Sequences, FiniteSets

CONSTANTS
  Words,     \* words that are typed
  Rule,      \* a pattern or regular expression that is typed
  Like,      \* a slash and a word, typed: the word is searched for by likeness
  Blank,     \* the empty entry
  Nil,
  Local,     \* the words the local dictionaries have
  Near,      \* the word of a local dictionary that is nearest to another
  OnServer,  \* the words the server has
  OnNet,     \* the texts the network dictionary has
  ShowFirst, \* the settings main_window/showfirst_when_notfound may have
  Settings,  \* the other settings there may be, see below
  MaxAsked,  \* commands under way and texts asked of the network dictionary
  MaxNet,    \* of them, those of the network dictionary
  Searched,  \* the words that are searched for in the articles
  MaxSearch  \* full-text searches, one within another

\* Whether network/enable_netdict is set, and whether query_dictmask has a network
\* dictionary, with its response to the text already in the cache.
AllSettings == {c \in [server : BOOLEAN, netdict : BOOLEAN, kept : BOOLEAN] : c.kept => c.netdict}

ASSUME MainWinAssumption ==
  /\ Rule \notin Words /\ Like \notin Words /\ Blank \notin Words /\ Nil \notin Words
  /\ Local \subseteq Words /\ Local # {}
  /\ Near \in [Words -> Local]
  /\ Searched \subseteq Words
  /\ ShowFirst \subseteq BOOLEAN /\ Settings \subseteq AllSettings
  /\ MaxAsked \in Nat /\ MaxNet \in Nat /\ MaxSearch \in Nat

VARIABLES
  entry,    \* the text of the entry
  timer,    \* word_change_timeout_id and delayed_word_: the word, while the timer runs
  win,      \* oTextWin: the local articles shown, query_result, queryWord
  current,  \* iCurrentIndex: the word it points to
  list,     \* oListWin has rows
  normal,   \* list_word_type is LIST_WIN_NORMAL_LIST
  row,      \* its first row is selected
  cmds,     \* commands to the server under way, and whether their seq is waited for
  net,      \* texts asked of the network dictionary
  search,   \* full-text searches that run, the innermost last
  asked,    \* history: the query looked up last
  own,      \* history: the answer waited for is the one to that query
  lost,     \* history: its answer was lost
  unasked   \* history: the text was kept for network dictionaries that it did not ask

vars == <<entry, timer, win, current, list, normal, row, cmds, net, search,
          asked, own, lost, unasked>>

Query(kind, w) == [kind |-> kind, word |-> w]

\* CMD_PREVIOUS or CMD_NEXT: more words for the list, which nobody waits for.
MoreWords == Query("more", Blank)

\* Results with which an answer is added to what is shown.
Adding == {"FOUND", "SHOW_FIRST", "NET_FOUND", "NET_SHOW_FIRST"}
NotFound == {"NOT_FOUND", "NET_NOT_FOUND", "FUZZY_NOT_FOUND", "PATTERN_NOT_FOUND"}

\* What is asked of the network dictionary: the text of the entry, or of the row.
NetText(q) == IF q.kind = "fuzzy" THEN Like ELSE q.word

-----------------------------------------------------------------------------
(* What the text window shows                                              *)

\* ShowDataToTextWin
ShowData(v, w, first) ==
  [text |-> {w}, result |-> IF first THEN "SHOW_FIRST" ELSE "FOUND", word |-> w]

\* ShowNotFoundToTextWin: with the server or a network dictionary in use the old text
\* stays, until one of them answers.
ShowNotFound(v, w, result, c) ==
  [v EXCEPT !.text = IF c.server \/ c.netdict THEN @ ELSE {}, !.result = result, !.word = w]

\* BuildResultData and BuildVirtualDictData: the local dictionaries, and what is kept of
\* the network dictionary's responses.
Finds(w, c) == w \in Local \/ (c.kept /\ w \in OnNet)

\* SimpleLookupToTextWin
SimpleLookup(w, found, c) ==
  IF found THEN ShowData(win, w, FALSE) ELSE ShowNotFound(win, w, "NOT_FOUND", c)

\* TextWin::Show of a hint
ShowHint(v) == [v EXCEPT !.text = {}]

\* on_entry_changed of an empty entry: ShowTips
ShowTips(v) == [text |-> {}, result |-> "TIPS", word |-> Blank]

Kept(v) == IF v.result \in Adding THEN v.text ELSE {}

\* Fault: an answer without articles leaves the text of an older word.
ShowAnswerOver(v, w, found) ==
  IF found THEN [v EXCEPT !.text = Kept(v), !.result = "NET_FOUND"] ELSE v

\* TextWin::Show of an answer of the server
ShowAnswer(v, w, found) ==
  IF found
  THEN [v EXCEPT !.text = Kept(v),
                 !.result = IF w = v.word \/ @ = "FOUND" THEN "NET_FOUND"
                            ELSE IF @ = "SHOW_FIRST" THEN "NET_SHOW_FIRST" ELSE @]
  ELSE IF v.result \in Adding THEN v
  ELSE [v EXCEPT !.text = {}, !.result = "NET_NOT_FOUND"]

\* TextWin::Show of an answer of the network dictionary, for whatever word
ShowNet(v, w, found) ==
  IF found
  THEN [v EXCEPT !.text = Kept(v), !.result = "NET_FOUND"]
  ELSE IF v.result \in Adding THEN v
  ELSE [v EXCEPT !.text = {}, !.result = "NET_NOT_FOUND"]

-----------------------------------------------------------------------------
(* Asking                                                                  *)

\* Fault: the number waited for is that of the first command.
SentFirstAwaited(c, q) == Append(c, [query |-> q, awaited |-> c = <<>>])

\* A command whose answer will be thrown away: what it asks for does not matter any more.
Overtaken == [query |-> Query("overtaken", Blank), awaited |-> FALSE]

\* send_commands, with waiting_mainwin_lookupcmd_seq set to its number
Sent(c, q) ==
  Append([i \in DOMAIN c |-> IF c[i].awaited THEN Overtaken ELSE c[i]],
         [query |-> q, awaited |-> TRUE])

\* The bounds on what is under way
Room(c, n) == Len(c) + Cardinality(n) <= MaxAsked /\ Cardinality(n) <= MaxNet

\* Whether the server has articles: for a pattern or a likeness, it may.
Answers(q) == IF q.kind \in {"word", "row"} THEN {q.word \in OnServer} ELSE BOOLEAN

\* MergeWordList, MergeFuzzyList or SetTreeModel: an answer brings words for the list.
Lists(q, found) == found /\ q.kind # "row"

\* What an answer does to the list and the row selected in it.
ListAnswer(q, found) ==
  /\ list' = (list \/ Lists(q, found))
  /\ row' = (row /\ ~ Lists(q, found))

\* try_cache or send_commands, if the server is in use; what the cache holds is shown
\* at once, and leaves the number waited for as it was.
AskServer(v, l, q, c) ==
  IF ~ c.server THEN {[win |-> v, list |-> l, cmds |-> cmds, own |-> FALSE]}
  ELSE {[win |-> v, list |-> l, cmds |-> Sent(cmds, q), own |-> TRUE]}
       \cup {[win |-> ShowAnswer(v, q.word, found), list |-> l \/ Lists(q, found),
               cmds |-> cmds, own |-> FALSE] : found \in Answers(q)}

\* LookupNetDict
AskNet(v, w, c) ==
  IF ~ c.netdict THEN {[win |-> v, net |-> net]}
  ELSE IF c.kept THEN {[win |-> ShowNet(v, w, w \in OnNet), net |-> net]}
  ELSE {[win |-> v, net |-> net \cup {w}]}

\* What follows the local lookup, which shows v: the server is asked and, unless the
\* lookup leaves them out, the network dictionaries.
LookUp(v, l, q, withNet, c) ==
  /\ \E s \in AskServer(v, l, q, c) :
       /\ list' = s.list /\ cmds' = s.cmds /\ own' = s.own
       /\ IF withNet THEN \E n \in AskNet(s.win, NetText(q), c) : win' = n.win /\ net' = n.net
                     ELSE win' = s.win /\ UNCHANGED net
  /\ Room(cmds', net')
  /\ asked' = q
  /\ lost' = FALSE
  /\ unasked' = (~ c.server /\ c.netdict /\ ~ withNet)

\* The text changed without a command.
NotAsked == /\ own' = FALSE
            /\ UNCHANGED <<cmds, net, asked, lost, unasked>>

-----------------------------------------------------------------------------
Init ==
  /\ entry = Blank /\ timer = Nil
  /\ win = [text |-> {}, result |-> "INFO", word |-> Blank]
  /\ current = Nil
  /\ list = FALSE /\ normal = FALSE /\ row = FALSE
  /\ cmds = <<>> /\ net = {} /\ search = <<>>
  /\ asked = Nil /\ own = FALSE /\ lost = FALSE /\ unasked = FALSE

\* TopWinWordChange, from typing, SetText or a reload.  A pattern leaves the timer
\* of an earlier word alone, and so does a slash, of which a hint is shown as long as no
\* word follows it.
TopWinWordChange(t) ==
  \/ t \in Words /\ timer' = t /\ UNCHANGED <<win, cmds, net, asked, own, lost, unasked>>
  \/ t \notin Words /\ win' = ShowHint(win) /\ NotAsked /\ UNCHANGED timer
  \/ t = Like /\ UNCHANGED <<timer, win, cmds, net, asked, own, lost, unasked>>

\* on_entry_changed and SetText; nothing follows when search_while_typing is off, or
\* SetText is not to notify.
Type(t) ==
  /\ t # entry
  /\ entry' = t
  /\ \/ t = Blank /\ win' = ShowTips(win) /\ NotAsked /\ UNCHANGED timer
     \/ t # Blank /\ TopWinWordChange(t)
     \/ UNCHANGED <<timer, win, cmds, net, asked, own, lost, unasked>>
  /\ UNCHANGED <<current, list, normal, row, search>>

\* The lookup of a typed word.  What is asked is the word, even if the nearest is shown.
TypedWord(w) ==
  /\ \E showfirst \in ShowFirst, c \in Settings :
       LET near == ~ Finds(w, c) /\ showfirst
       IN  /\ LookUp(IF near THEN ShowData(win, Near[w], TRUE) ELSE SimpleLookup(w, Finds(w, c), c),
                     TRUE, Query("word", w), TRUE, c)
           /\ current' = IF near THEN Near[w] ELSE w
  /\ normal' = TRUE /\ row' = FALSE
  /\ UNCHANGED <<entry, search>>

\* on_word_change_timeout
WordChangeTimeout ==
  /\ timer # Nil
  /\ timer' = Nil
  /\ TypedWord(timer)

\* ListWin::on_selection_changed: the word of a row, which the list may have from
\* anywhere; iCurrentIndex stays.
SelectRow(first, w) ==
  /\ list /\ ~ (first /\ row)
  /\ \E c \in Settings :
       LookUp(SimpleLookup(w, Finds(w, c), c), list, Query("row", w), TRUE, c)
  /\ row' = first
  /\ UNCHANGED <<entry, timer, current, normal, search>>

\* do_prev and do_next beyond the ends of the list: ListPreWords or ListNextWords fills
\* it anew, maybe with nothing, and the server, if it is in use, is asked for more, or the
\* cache has them.
MoreRows ==
  /\ list /\ normal
  /\ row' = FALSE
  /\ list' \in BOOLEAN
  /\ \/ /\ cmds' = Append(cmds, [query |-> MoreWords, awaited |-> FALSE])
        /\ Room(cmds', net)
     \/ UNCHANGED cmds
  /\ UNCHANGED <<entry, timer, win, current, normal, net, search, asked, own, lost, unasked>>

\* The best match of a search by likeness or by pattern, if there is one
Matched(q, none, withNet) ==
  /\ \E first \in Local \cup {Nil}, c \in Settings :
       /\ LookUp(IF first = Nil THEN ShowNotFound(win, q.word, none, c)
                 ELSE ShowData(win, first, FALSE),
                first # Nil, q, withNet, c)
       /\ current' = IF first = Nil THEN current ELSE first
  /\ normal' = FALSE /\ row' = FALSE
  /\ UNCHANGED <<entry, timer, search>>

\* LookupWithFuzzyToMainWin
Fuzzy(w, withNet) == Matched(Query("fuzzy", w), "FUZZY_NOT_FOUND", withNet)

\* LookupWithRuleToMainWin, LookupWithRegexToMainWin
Pattern(withNet) == Matched(Query("rule", Rule), "PATTERN_NOT_FOUND", withNet)

\* TopWinEnterWord of a pattern, or of a slash and the word w
EnterRule == entry = Rule /\ Pattern(TRUE)
EnterLike(w) == entry = Like /\ Fuzzy(w, TRUE)

\* The Go button and the search menu leave the network dictionaries out.
Go(w) ==
  \/ entry = Rule /\ Pattern(FALSE)
  \/ entry \in {Like, w} /\ Fuzzy(w, FALSE)

\* TopWinEnterWord of a word that is not the one in the window, when search_while_typing
\* is off: it is looked up as after the timeout.
EnterUnseen ==
  /\ entry \in Words /\ entry # win.word
  /\ TypedWord(entry)
  /\ UNCHANGED timer

\* TopWinEnterWord of a word, by what the window shows.  It does not stop the timer.
EnterNotFound ==
  /\ entry \in Words
  /\ win.result \in {"NOT_FOUND", "SHOW_FIRST", "NET_NOT_FOUND", "NET_SHOW_FIRST"}
  /\ Fuzzy(entry, FALSE)

\* With another article on view the first row is selected, or, when it is selected
\* already, the word is shown by the index that the last lookup left, or not found.
EnterOther(w) ==
  /\ entry \in Words /\ win.result \in {"INFO", "TREEDICT"}
  /\ SelectRow(TRUE, w)

EnterCached ==
  /\ entry \in Words /\ win.result \in {"INFO", "TREEDICT"}
  /\ row
  /\ \E c \in Settings :
       LET found == (entry \in Local /\ current = entry) \/ (c.kept /\ entry \in OnNet)
       IN  LookUp(SimpleLookup(entry, found, c), list, Query("word", entry), TRUE, c)
  /\ UNCHANGED <<entry, timer, current, normal, row, search>>

EnterFound(w) ==
  /\ entry \in Words /\ win.result \in {"FOUND", "NET_FOUND"} /\ win.word # entry
  /\ SelectRow(TRUE, w)

\* The tips, or a search that found nothing: only the server and the network dictionaries
\* are asked.
EnterUnheard ==
  /\ entry \in Words /\ win.result \in {"TIPS", "FUZZY_NOT_FOUND", "PATTERN_NOT_FOUND"}
  /\ \E c \in Settings :
       /\ c.server \/ c.netdict
       /\ LookUp(win, list, Query("word", entry), TRUE, c)
  /\ UNCHANGED <<entry, timer, current, normal, row, search>>

\* An article of a tree dictionary is selected: ShowTreeDictDataToTextWin
SelectTreeDict ==
  /\ win' = [win EXCEPT !.text = {}, !.result = "TREEDICT"]
  /\ NotAsked
  /\ UNCHANGED <<entry, timer, current, list, normal, row, search>>

\* The dialog of a full-text search is answered: the list is emptied, the server may be
\* asked, and the search begins, which runs the main loop again and again.
SearchBegin(w) ==
  /\ Len(search) < MaxSearch
  /\ \E c \in Settings : LookUp(win, FALSE, Query("data", w), FALSE, c)
  /\ search' = Append(search, w)
  /\ normal' = FALSE /\ row' = FALSE
  /\ UNCHANGED <<entry, timer, current>>

\* LookupDataWithDictMask after LookupData: the innermost search ends.
SearchEnd ==
  /\ search # <<>>
  /\ LET q == Query("data", search[Len(search)])
     IN  /\ search' = SubSeq(search, 1, Len(search) - 1)
         /\ \/ /\ \E c \in Settings : win' = ShowNotFound(win, q.word, "FUZZY_NOT_FOUND", c)
               /\ UNCHANGED <<current, list>>
            \/ \E first \in Local :
                 /\ win' = ShowData(win, first, FALSE)
                 /\ current' = first
                 /\ list' = TRUE
         /\ own' = (own /\ asked = q)
         /\ asked' = q
  /\ UNCHANGED <<entry, timer, normal, row, cmds, net, lost, unasked>>

\* on_stardict_client_lookup_end, on_stardict_client_previous_end and _next_end
ServerAnswer ==
  /\ cmds # <<>>
  /\ cmds' = Tail(cmds)
  /\ LET q == Head(cmds).query
     IN  IF Head(cmds).awaited
         THEN \E found \in Answers(q) :
                win' = ShowAnswer(win, q.word, found) /\ ListAnswer(q, found)
         ELSE /\ UNCHANGED win
              /\ \E found \in BOOLEAN :
                   IF q = MoreWords THEN ListAnswer(q, found) ELSE UNCHANGED <<list, row>>
  /\ UNCHANGED <<entry, timer, current, normal, net, search, asked, own, lost, unasked>>

\* The client drops its queue when the connection ends, and tells no one.
LoseCommands ==
  /\ cmds # <<>>
  /\ cmds' = <<>>
  /\ lost' = (lost \/ \E i \in DOMAIN cmds : cmds[i].awaited /\ cmds[i].query = asked)
  /\ UNCHANGED <<entry, timer, win, current, list, normal, row, net, search, asked, own, unasked>>

\* show_netdict_resp
NetAnswer(w) ==
  /\ w \in net
  /\ net' = net \ {w}
  /\ win' = ShowNet(win, w, w \in OnNet)
  /\ UNCHANGED <<entry, timer, current, list, normal, row, cmds, search, asked, own, lost, unasked>>

\* The plugin calls no one back when its request fails.
NetFails(w) ==
  /\ w \in net
  /\ net' = net \ {w}
  /\ lost' = (lost \/ w = NetText(asked))
  /\ UNCHANGED <<entry, timer, win, current, list, normal, row, cmds, search, asked, own, unasked>>

\* reload_dicts: the dictionaries change and with them iCurrentIndex; the text stays.
\* (A reload inside a full-text search, which deletes what it iterates over, is left out.)
Reload ==
  /\ search = <<>>
  /\ current' = Nil
  /\ IF entry = Blank THEN UNCHANGED <<timer, win, cmds, net, asked, own, lost, unasked>>
                      ELSE TopWinWordChange(entry)
  /\ UNCHANGED <<entry, list, normal, row, search>>

Next ==
  \/ \E t \in Words \cup {Rule, Like, Blank} : Type(t)
  \/ WordChangeTimeout \/ MoreRows
  \/ \E w \in Words : \/ \E first \in BOOLEAN : SelectRow(first, w)
                      \/ EnterOther(w) \/ EnterFound(w) \/ EnterLike(w) \/ Go(w)
  \/ EnterRule \/ EnterUnseen \/ EnterNotFound \/ EnterCached \/ EnterUnheard
  \/ entry \in Searched /\ SearchBegin(entry)
  \/ SearchEnd \/ SelectTreeDict \/ Reload
  \/ ServerAnswer \/ LoseCommands
  \/ \E w \in Words \cup {Rule, Like} : NetAnswer(w) \/ NetFails(w)

Spec == Init /\ [][Next]_vars

-----------------------------------------------------------------------------
\* The answer that is let into the window is the one to what was looked up last.  It is
\* another's only where the code leaves the number waited for behind: when the last
\* lookup was answered from the cache, or the text was replaced without a command.
AwaitedIsAsked ==
  \A i \in DOMAIN cmds : cmds[i].awaited /\ own => cmds[i].query = asked

\* When a word is not found and the network may have it, the article of the word before
\* stays on view, under the new word, but only while the new word's answer is still to
\* come, from the server or from the network dictionary: whatever the answer, it clears
\* the old article away.  It stays for good when the answer is lost, or comes before a
\* full-text search ends without a result; and when a search by likeness, or by pattern
\* from the Go button, finds nothing with the server off and a network dictionary in the
\* set: the text is kept for an answer, but network dictionaries are not asked.
OldTextOnlyWhileWaiting ==
  /\ win.text \ {win.word} # {} /\ win.result \in NotFound
  /\ asked # Nil /\ asked.kind # "data" /\ ~ unasked
  => \/ lost
     \/ \E i \in DOMAIN cmds : cmds[i].awaited /\ cmds[i].query = asked
     \/ NetText(asked) \in net
=============================================================================
