----------------------------- MODULE FloatLookup -----------------------------
(***************************************************************************)
(* A lookup of the floating window (AppCore in stardict.cpp): the local    *)
(* dictionaries are searched at once, the StarDict server is asked through *)
(* the client, each network dictionary through its plugin, and what comes  *)
(* back, now or later, is added to the window.  CompositeLookup tells when *)
(* the lookup is over.  The client is the contract of module CommandQueue, *)
(* which StarDictClient keeps; it is shared with the other windows.        *)
(***************************************************************************)
EXTENDS CommandQueue, CachePool, CompositeLookup, FloatWin

CONSTANTS Words,
          NetDicts,       \* the network dictionaries among scan_dictmask, in order
          NetPoolSize,    \* resp_pool_size
          Forms,          \* the forms of each word that the local search tries, in turn
          Nil,
          MaxLookups      \* bound: lookups the user makes

Dicts == {NetDicts[i] : i \in DOMAIN NetDicts}

(* What a piece of text in the window may be besides an article of one of
   those dictionaries.                                                    *)
OtherSources == {"looking up", "not found", "tip", "local", "server", "fuzzy"}

(* The dialog that fills a group of dictionaries offers only those that are
   not in it (dictmanagedlg.cpp:1959-1980).                               *)
FloatAssumption ==
  /\ NetDicts \in Seq(Dicts)
  /\ \A i, j \in DOMAIN NetDicts : NetDicts[i] = NetDicts[j] => i = j
  /\ Dicts \cap OtherSources = {}
  /\ NetPoolSize \in Nat \ {0}
  /\ Forms \in [Words -> Seq(Words)]
  /\ Nil \notin Words
  /\ Seqs \subseteq Nat
  /\ \A batch \in Offers : batch \in Seq({batch[i] : i \in DOMAIN batch})

ASSUME FloatAssumption

VARIABLES win,       \* oFloatWin, composite_lookup_float_win and one setting
          netcache,  \* dictresp_map: the pool of each network dictionary
          asked      \* plugins' requests without a response: [dict, word, at]

(* History, read by properties only. *)
VARIABLES lookups,   \* lookups made
          lost,      \* a request of the lookup in the window will not be answered
          tipped     \* a tip replaced the lookup in the window

floatVars == <<win, netcache, asked, lookups, lost, tipped>>
vars == <<queueVars, floatVars>>

(* The text of a command: the window's own is CMD_SELECT_QUERY. *)
SelectQuery(word) == [command |-> "SELECT_QUERY", key |-> word]

FloatInit ==
  /\ win \in [building : {FALSE}, requests : {{}}, expected : {0},
              QueryingWord : {Nil}, content_state : {"Empty"}, view : {<<>>},
              have_real_content : {FALSE}, window_positioned : {FALSE}, placed : {0},
              visible : {FALSE}, timer : {FALSE}, show_if_not_found : BOOLEAN]
  /\ netcache = [d \in Dicts |-> EmptyPool]
  /\ asked = {}
  /\ lookups = 0 /\ lost = FALSE /\ tipped = FALSE

Init == QueueInit /\ FloatInit

------------------------------------------------------------------------------
(* What happens to the window when something arrives. *)

EndIfGotAll(s) == IF IsGotAll(s) THEN EndLookup(s) ELSE s

(* on_stardict_client_floatwin_lookup_end: an answer out of the client's
   cache has the number 0 and is not checked against the one expected.    *)
OnLookupEnd(s, answer) ==
  LET got   == IF answer.seq = 0 THEN s ELSE GotStarDict(s)
      piece == Piece("server", answer.text.key)
  IN  IF answer.seq = 0 \/ ExpectsStarDict(s, answer.seq)
        THEN EndIfGotAll(IF answer.data = "nothing" THEN got ELSE AppendText(got, piece))
        ELSE s

(* show_netdict_resp: an unexpected response is not shown, but may end the
   lookup all the same.                                                   *)
ShowNetDictResp(s, dict, word, data) ==
  LET got == GotNetDict(s, dict, word)
  IN  EndIfGotAll(IF ExpectsNetDict(s, dict, word) /\ data # "nothing"
                    THEN AppendText(got, Piece(dict, word)) ELSE got)

(* One turn of the loop in LookupNetDict: the dictionary is asked, or its
   cache.                                                                 *)
AskNetDict(s, dict, word) ==
  LET sent == SendNetDictRequest(s, dict, word)
  IN  IF IsCached(netcache[dict], word)
        THEN ShowNetDictResp(sent, dict, word, Cached(netcache[dict], word))
        ELSE sent

(* LookupNetDict: each dictionary in turn. *)
LookupNetDict(s, word) ==
  LET after[n \in 0 .. Len(NetDicts)] ==
        IF n = 0 THEN s ELSE AskNetDict(after[n - 1], NetDicts[n], word)
  IN  after[Len(NetDicts)]

------------------------------------------------------------------------------
(* The user's lookups. *)

quietQueue == UNCHANGED <<waiting, number, kept>> /\ emitted' = <<>>

Begin(word) == NewLookup(StartLookup(win, word))

NeverDone(s) == EndIfGotAll(s)                                    \* mutant

(* How every lookup closes. *)
End(s) == EndIfGotAll(DoneLookup(s))

newLookup ==
  /\ lookups < MaxLookups
  /\ lookups' = lookups + 1 /\ lost' = FALSE /\ tipped' = FALSE

(* netdict_get_cache_resp, with an article. *)
KeepsArticle(dict, word) ==
  IsCached(netcache[dict], word) /\ Cached(netcache[dict], word) # "nothing"

(* BuildResultData and BuildVirtualDictData find the word on the disk or
   among what the network dictionaries have kept.                         *)
FoundHere(word, onDisk) == word \in onDisk \/ \E d \in Dicts : KeepsArticle(d, word)

(* One turn of the loop in AppendTextLocalDict. *)
AddKept(s, dict, word, form) ==
  IF KeepsArticle(dict, form) THEN AppendText(s, KeptPiece(dict, word)) ELSE s

(* AppendTextLocalDict: the articles from the disk as one piece, and that of
   each network dictionary that has kept one.                             *)
AppendTextLocalDict(s, word, form, onDisk) ==
  LET after[n \in 0 .. Len(NetDicts)] ==
        IF n = 0 THEN IF form \in onDisk THEN AppendText(s, Piece("local", word)) ELSE s
                 ELSE AddKept(after[n - 1], NetDicts[n], word, form)
  IN  after[Len(NetDicts)]

(* SimpleLookupToFloatLocal and LocalSmartLookupToFloat: the first form of
   the word that is found, which is shown under the word's own lookup.    *)
LookupLocal(s, word, onDisk) ==
  LET forms == Forms[word]
      first == {i \in DOMAIN forms : /\ FoundHere(forms[i], onDisk)
                                     /\ \A j \in 1 .. i - 1 : ~FoundHere(forms[j], onDisk)}
  IN  IF first = {} THEN s
      ELSE AppendTextLocalDict(s, word, forms[CHOOSE i \in first : TRUE], onDisk)

(* SimpleLookupToFloat. *)
SimpleLookup(word, onDisk) ==
  LET here == LookupLocal(Begin(word), word, onDisk) IN
  /\ newLookup
  /\ \/ /\ quietQueue                          \* network/enable_netdict is off
        /\ win' = End(LookupNetDict(here, word))
     \/ /\ Take(<<SelectQuery(word)>>)
        /\ LET there == IF emitted' = <<>> THEN SendStarDictRequest(here, number)
                                           ELSE OnLookupEnd(here, emitted'[1])
           IN  win' = End(LookupNetDict(there, word))
  /\ asked' = asked \cup {[dict |-> d, word |-> word, at |-> lookups'] :
                            d \in {e \in Dicts : ~IsCached(netcache[e], word)}}
  /\ UNCHANGED netcache

LocalLookup(here) ==
  /\ newLookup
  /\ win' = End(here)
  /\ quietQueue /\ UNCHANGED <<netcache, asked>>

(* SmartLookupToFloat asks the local dictionaries only. *)
SmartLookup(word, onDisk) == LocalLookup(LookupLocal(Begin(word), word, onDisk))

(* So does LookupWithFuzzyToFloatWin, for the word in the window; one piece
   stands for the articles of all the similar words.                      *)
FuzzyLookup(found) ==
  LET word == win.QueryingWord IN
  /\ win.visible /\ word # Nil
  /\ LocalLookup(IF found THEN AppendText(Begin(word), Piece("fuzzy", word)) ELSE Begin(word))

------------------------------------------------------------------------------
(* What arrives. *)

(* The numbers of the commands that leave the queue in this step without
   having been answered.                                                  *)
Dropped == {waiting[i].seq : i \in DOMAIN waiting}
           \ ({waiting'[i].seq : i \in DOMAIN waiting'} \cup
              {emitted'[i].seq : i \in DOMAIN emitted'})

(* The client is done with the oldest command, or drops all of them. *)
ClientAnswers ==
  /\ Answer
  /\ win' = IF emitted' # <<>> /\ emitted'[1].text.command = "SELECT_QUERY"
              THEN OnLookupEnd(win, emitted'[1]) ELSE win
  /\ lost' = (lost \/ win.expected \in Dropped)
  /\ UNCHANGED <<netcache, asked, lookups, tipped>>

ClientDrops ==
  /\ Drop
  /\ lost' = (lost \/ win.expected \in Dropped)
  /\ UNCHANGED <<win, netcache, asked, lookups, tipped>>

(* Another window uses the client, or what the client has kept is outdated. *)
OthersUseClient ==
  /\ \/ \E batch \in Offers : batch[1].command # "SELECT_QUERY" /\ Take(batch)
     \/ kept # {} /\ Outdate
  /\ UNCHANGED floatVars

SaveResp(dict, word, data) ==
  netcache' = [netcache EXCEPT ![dict] = SavePool(@, NetPoolSize, word, data)]

(* on_get_http_response of a plugin. *)
NetDictResponse(r, data) ==
  /\ r \in asked
  /\ asked' = asked \ {r}
  /\ SaveResp(r.dict, r.word, data)
  /\ win' = ShowNetDictResp(win, r.dict, r.word, data)
  /\ quietQueue /\ UNCHANGED <<lookups, lost, tipped>>

(* The same when the connection failed or the response is cut short: the
   plugin returns, and nobody is told.                                    *)
NetDictFails(r) ==
  /\ r \in asked
  /\ asked' = asked \ {r}
  /\ lost' = (lost \/ /\ ExpectsNetDict(win, r.dict, r.word)
                      /\ \A q \in asked \ {r} : q.dict # r.dict \/ q.word # r.word)
  /\ quietQueue /\ UNCHANGED <<win, netcache, lookups, tipped>>

(* A response to a lookup of the main window is kept in the same cache. *)
MainWindowResponse(dict, word, data) ==
  /\ ~IsCached(netcache[dict], word)
  /\ SaveResp(dict, word, data)
  /\ quietQueue /\ UNCHANGED <<win, asked, lookups, lost, tipped>>

(* A plugin shows a tip; the user, the pointer or the lock hides the window
   or brings it back; the timer goes off.                                 *)
WindowEvent ==
  /\ \/ \E word \in Words : win' = ShowPangoTips(win, word) /\ tipped' = TRUE
     \/ ~win.visible /\ win.QueryingWord # Nil /\ win' = Show(win) /\ UNCHANGED tipped
     \/ win.visible /\ win' = Hide(win) /\ UNCHANGED tipped
     \/ win.timer /\ win' = LookupRunningTimeOut(win) /\ UNCHANGED tipped
  /\ quietQueue /\ UNCHANGED <<netcache, asked, lookups, lost>>

NetData == {"article", "nothing"}

Next ==
  \/ \E word \in Words, onDisk \in SUBSET Words :
       SimpleLookup(word, onDisk) \/ SmartLookup(word, onDisk)
  \/ \E found \in BOOLEAN : FuzzyLookup(found)
  \/ ClientAnswers \/ ClientDrops \/ OthersUseClient
  \/ \E r \in asked : NetDictFails(r) \/ \E data \in NetData : NetDictResponse(r, data)
  \/ \E d \in Dicts, word \in Words, data \in NetData : MainWindowResponse(d, word, data)
  \/ WindowEvent

Spec == Init /\ [][Next]_vars

(* The server and the network dictionaries come back to the program, one
   way or the other.  Neither client has a timeout that would see to it.  *)
NetDictReturns(d, word) ==
  \E r \in asked : /\ r.dict = d /\ r.word = word
                   /\ NetDictFails(r) \/ \E data \in NetData : NetDictResponse(r, data)

FairSpec ==
  /\ Spec
  /\ WF_vars(ClientAnswers \/ ClientDrops)
  /\ \A d \in Dicts, word \in Words : WF_vars(NetDictReturns(d, word))

------------------------------------------------------------------------------
(* Properties. *)

(* Every field holds what its declaration lets it hold. *)
TypeOK ==
  /\ win.requests \subseteq Dicts \X Words /\ win.expected \in 0 .. number - 1
  /\ win.QueryingWord \in Words \cup {Nil}
  /\ win.content_state \in {"Empty", "Waiting", "Found", "NotFound"}
  /\ \A d \in Dicts : DOMAIN netcache[d].slot \subseteq Slots(NetPoolSize)

(* EndLookup is called from five places, each asking CompositeLookup first:
   between two steps the window says that a lookup is under way if and only
   if a response is still expected.  So `<Not Found!>' is never said, and
   fuzzy search never offered, while something may still come.            *)
WaitingMeansExpecting ==
  win.content_state = "Waiting" <=> win.requests # {} \/ win.expected # 0

(* Responses come in any order, to lookups long given up; whatever stands
   in the window is about the word it was opened for.  (A tip keeps the
   lookup behind it going, and its responses are added to the tip.)       *)
ShowsTheWord ==
  ~tipped => \A i \in DOMAIN win.view : win.view[i].word = win.QueryingWord

(* No source answers one lookup twice, although the same word may be asked
   for again while the first response is still on its way, and the local
   search finds none twice.  A network dictionary may stand there for both:
   the article it has kept is shown with those on the disk and once more as
   its answer (stardict.cpp:877 and 1446).                                *)
EachSourceOnce ==
  \A i, j \in DOMAIN win.view : win.view[i] = win.view[j] => i = j

(* "Looking up" is only brought up by the timer of a lookup that is under
   way and has found nothing so far.                                      *)
TimerOfWaiting ==
  win.timer => win.content_state = "Waiting" /\ ~win.have_real_content

(* The responses of one lookup do not make the window jump about. *)
PlacedOnce == win.placed <= 1

(* What the lookup waits for is on its way, unless the client turned the
   command down or dropped it, or the plugin's request failed.            *)
ExpectedIsComing ==
  ~lost =>
    /\ win.expected # 0 => \E i \in DOMAIN waiting : waiting[i].seq = win.expected
    /\ \A q \in win.requests : \E r \in asked : q = <<r.dict, r.word>>

(* A lookup comes to its end, unless one of its requests is lost. *)
LookupEnds == win.content_state = "Waiting" ~> (win.content_state # "Waiting" \/ lost)
==============================================================================
