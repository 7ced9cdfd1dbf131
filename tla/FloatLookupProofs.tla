-------------------------- MODULE FloatLookupProofs ---------------------------
(***************************************************************************)
(* The floating window's lookups, for any words, network dictionaries and  *)
(* numbers of them.  The properties are about what stands in the window;   *)
(* they rest on what may still arrive: which requests are listed, that     *)
(* none of them is on show already, and that the command whose number is   *)
(* expected asks for the word in the window.                               *)
(***************************************************************************)
EXTENDS FloatLookup, CachePoolProofs, SequenceTheorems, TLAPS

Pieces == [source : Dicts \cup OtherSources, word : Words \cup {Nil}, kept : BOOLEAN]

WinSet ==
  [building : BOOLEAN, requests : SUBSET (Dicts \X Words), expected : Nat,
   QueryingWord : Words \cup {Nil},
   content_state : {"Empty", "Waiting", "Found", "NotFound"}, view : Seq(Pieces),
   have_real_content : BOOLEAN, window_positioned : BOOLEAN, placed : Nat,
   visible : BOOLEAN, timer : BOOLEAN, show_if_not_found : BOOLEAN]

(* The window is placed at most once, and needs it when it was hidden. *)
Placed(s) ==
  /\ s.placed <= 1
  /\ s.window_positioned => s.visible
  /\ ~ s.window_positioned => s.placed = 0

Timed(s) == s.timer => s.content_state = "Waiting" /\ ~ s.have_real_content

Distinct(s) == \A i, j \in DOMAIN s.view : s.view[i] = s.view[j] => i = j

(* An answer that is on show is not expected any more. *)
NoneTwice(s) ==
  \A i \in DOMAIN s.view :
    /\ ~ s.view[i].kept => <<s.view[i].source, s.view[i].word>> \notin s.requests
    /\ s.view[i].source = "server" => s.expected = 0

(* All is about the word of the window. *)
About(s) ==
  /\ \A i \in DOMAIN s.view : s.view[i].word = s.QueryingWord
  /\ \A q \in s.requests : q[2] = s.QueryingWord

WinInv(s) == s \in WinSet /\ Placed(s) /\ Timed(s) /\ Distinct(s) /\ NoneTwice(s)

(* What a method leaves alone of a lookup. *)
SameLookup(s, t) ==
  /\ t.building = s.building /\ t.requests = s.requests /\ t.expected = s.expected
  /\ t.QueryingWord = s.QueryingWord

LookingUp(s) == s.content_state = "Waiting" <=> s.requests # {} \/ s.expected # 0

-----------------------------------------------------------------------------
(* The methods of FloatWin. *)

LEMMA PopupOnceKeeps ==
  ASSUME NEW s \in WinSet
  PROVE  /\ PopupOnce(s) \in WinSet /\ SameLookup(s, PopupOnce(s))
         /\ Placed(s) => Placed(PopupOnce(s))
         /\ PopupOnce(s).view = s.view /\ PopupOnce(s).content_state = s.content_state
         /\ PopupOnce(s).timer = s.timer
         /\ PopupOnce(s).have_real_content = s.have_real_content
<1> DEFINE n == IF ~ s.visible \/ ~ s.window_positioned THEN s.placed + 1 ELSE s.placed
           t == [s EXCEPT !.visible = TRUE, !.placed = n, !.window_positioned = TRUE]
<1>1. PopupOnce(s) = t
  BY DEF PopupOnce, Popup, WinSet
<1>2. n \in Nat /\ (Placed(s) => n <= 1)
  BY DEF WinSet, Placed
<1> HIDE DEF n
<1>3. t \in WinSet /\ SameLookup(s, t)
  BY <1>2 DEF WinSet, SameLookup
<1>4. t.placed = n /\ t.visible /\ t.window_positioned
  BY DEF WinSet
<1>5. /\ t.view = s.view /\ t.content_state = s.content_state
      /\ t.timer = s.timer /\ t.have_real_content = s.have_real_content
  BY DEF WinSet
<1> HIDE DEF t
<1>6. QED
  BY <1>1, <1>2, <1>3, <1>4, <1>5 DEF Placed

(* AppendText adds one piece that is not there yet. *)
LEMMA AppendTextKeeps ==
  ASSUME NEW s, WinInv(s), NEW piece \in Pieces,
         \A i \in DOMAIN s.view : s.view[i] # piece,
         ~ piece.kept => <<piece.source, piece.word>> \notin s.requests,
         piece.source = "server" => s.expected = 0
  PROVE  LET t == AppendText(s, piece)
         IN  /\ WinInv(t) /\ SameLookup(s, t) /\ t.content_state = s.content_state
             /\ About(s) /\ piece.word = s.QueryingWord => About(t)
             /\ \A i \in DOMAIN t.view : t.view[i] = piece \/ \E j \in DOMAIN s.view : t.view[i] = s.view[j]
<1> DEFINE view == IF s.have_real_content THEN Append(s.view, piece) ELSE <<piece>>
           u == [s EXCEPT !.view = view, !.have_real_content = TRUE, !.timer = FALSE]
           t == PopupOnce(u)
<1>1. s \in WinSet /\ Placed(s) /\ Timed(s) /\ Distinct(s) /\ NoneTwice(s)
  BY DEF WinInv
<1>2. s.view \in Seq(Pieces) /\ view \in Seq(Pieces)
  BY <1>1 DEF WinSet
<1>3. \A i \in DOMAIN view : view[i] = piece \/ \E j \in DOMAIN s.view : view[i] = s.view[j]
  BY <1>2
<1>4. \A i, j \in DOMAIN view : view[i] = view[j] => i = j
  <2>1. CASE s.have_real_content
    BY <1>1, <1>2, <2>1 DEF Distinct
  <2>2. CASE ~ s.have_real_content
    BY <1>2, <2>2
  <2>3. QED
    BY <2>1, <2>2
<1> HIDE DEF view
<1>5. /\ u \in WinSet /\ SameLookup(s, u) /\ u.view = view /\ ~ u.timer
      /\ u.content_state = s.content_state /\ Placed(u)
  BY <1>1, <1>2 DEF WinSet, SameLookup, Placed
<1> HIDE DEF u
<1>6. /\ t \in WinSet /\ SameLookup(u, t) /\ t.view = view /\ ~ t.timer
      /\ t.content_state = s.content_state /\ Placed(t)
  BY <1>5, PopupOnceKeeps
<1> HIDE DEF t
<1>7. SameLookup(s, t)
  BY <1>5, <1>6 DEF SameLookup
<1>8. NoneTwice(t)
  BY <1>1, <1>3, <1>6, <1>7 DEF NoneTwice, SameLookup
<1>9. About(s) /\ piece.word = s.QueryingWord => About(t)
  BY <1>3, <1>6, <1>7 DEF About, SameLookup
<1>10. WinInv(t)
  BY <1>4, <1>6, <1>8 DEF WinInv, Timed, Distinct
<1>11. AppendText(s, piece) = t
  BY DEF AppendText, t, u, view
<1>12. QED
  BY <1>3, <1>6, <1>7, <1>9, <1>10, <1>11

(* EndLookup says what was found, or that nothing was. *)
LEMMA EndLookupKeeps ==
  ASSUME NEW s, WinInv(s)
  PROVE  LET t == EndLookup(s)
         IN  /\ WinInv(t) /\ SameLookup(s, t) /\ t.content_state # "Waiting"
             /\ About(s) => About(t)
<1> DEFINE piece == Piece("not found", s.QueryingWord)
           said == IF s.have_real_content THEN s ELSE [s EXCEPT !.view = <<piece>>]
           shown == IF ~ s.have_real_content /\ s.show_if_not_found THEN PopupOnce(said) ELSE said
           t == EndLookup(s)
<1>1. s \in WinSet /\ Placed(s) /\ Timed(s) /\ Distinct(s) /\ NoneTwice(s)
  BY DEF WinInv
<1>2. piece \in Pieces /\ piece.source \notin Dicts /\ piece.source # "server"
      /\ piece.word = s.QueryingWord
  BY <1>1, FloatAssumption DEF FloatAssumption, WinSet, Pieces, Piece, OtherSources
<1> HIDE DEF piece
<1>3. /\ said \in WinSet /\ SameLookup(s, said) /\ Placed(said) /\ Distinct(said)
      /\ said.view = IF s.have_real_content THEN s.view ELSE <<piece>>
  <2>1. CASE s.have_real_content
    BY <1>1, <2>1 DEF SameLookup
  <2>2. CASE ~ s.have_real_content
    <3>1. said = [s EXCEPT !.view = <<piece>>] /\ <<piece>> \in Seq(Pieces)
      BY <1>2, <2>2
    <3>2. said \in WinSet /\ SameLookup(s, said) /\ Placed(said) /\ said.view = <<piece>>
      BY <1>1, <3>1 DEF WinSet, SameLookup, Placed
    <3>3. QED
      BY <2>2, <3>2 DEF Distinct
  <2>3. QED
    BY <2>1, <2>2
<1> HIDE DEF said
<1>4. /\ shown \in WinSet /\ SameLookup(s, shown) /\ Placed(shown) /\ shown.view = said.view
  BY <1>3, PopupOnceKeeps DEF SameLookup
<1>5. t = [shown EXCEPT !.content_state = IF s.have_real_content THEN "Found" ELSE "NotFound",
                        !.timer = FALSE]
  BY DEF EndLookup, shown, said, piece
<1> HIDE DEF shown, t
<1>6. /\ t \in WinSet /\ SameLookup(s, t) /\ Placed(t) /\ t.view = said.view /\ ~ t.timer
      /\ t.content_state # "Waiting"
  BY <1>1, <1>4, <1>5 DEF WinSet, SameLookup, Placed
<1>7. \A i \in DOMAIN t.view : t.view[i] = piece \/ \E j \in DOMAIN s.view : t.view[i] = s.view[j]
  BY <1>3, <1>6
<1>8. NoneTwice(t)
  <2>1. <<piece.source, piece.word>> \notin s.requests
    BY <1>1, <1>2 DEF WinSet
  <2>2. QED
    BY <1>1, <1>2, <1>6, <1>7, <2>1 DEF NoneTwice, SameLookup
<1>9. About(s) => About(t)
  BY <1>2, <1>6, <1>7 DEF About, SameLookup
<1>10. WinInv(t)
  BY <1>3, <1>6, <1>8 DEF WinInv, Timed, Distinct
<1>11. QED
  BY <1>6, <1>9, <1>10 DEF t
(* A tip stands alone, whatever was on show. *)
LEMMA TipKeeps ==
  ASSUME NEW s, WinInv(s), NEW word \in Words
  PROVE  LET t == ShowPangoTips(s, word)
         IN  /\ WinInv(t) /\ t.building = s.building /\ t.requests = s.requests
             /\ t.expected = s.expected /\ t.content_state = s.content_state
<1> DEFINE piece == Piece("tip", word)
           tip == [s EXCEPT !.QueryingWord = word, !.view = <<piece>>,
                            !.have_real_content = TRUE, !.timer = FALSE, !.placed = 0]
           t == [tip EXCEPT !.visible = TRUE, !.placed = 1, !.window_positioned = TRUE]
<1>1. s \in WinSet
  BY DEF WinInv
<1>2. piece \in Pieces /\ piece.source \notin Dicts /\ piece.source # "server"
  BY FloatAssumption DEF FloatAssumption, Pieces, Piece, OtherSources
<1> HIDE DEF piece
<1>3. <<piece.source, piece.word>> \notin s.requests /\ <<piece>> \in Seq(Pieces)
  BY <1>1, <1>2 DEF WinSet
<1>4. /\ tip \in WinSet /\ tip.building = s.building /\ tip.requests = s.requests
      /\ tip.expected = s.expected /\ tip.content_state = s.content_state
      /\ tip.view = <<piece>> /\ tip.placed = 0 /\ ~ tip.timer
  BY <1>1, <1>3 DEF WinSet
<1> HIDE DEF tip
<1>5. /\ t \in WinSet /\ t.building = tip.building /\ t.requests = tip.requests
      /\ t.expected = tip.expected /\ t.content_state = tip.content_state
  BY <1>4 DEF WinSet
<1>6. /\ t.view = tip.view /\ t.placed = 1 /\ t.visible /\ t.window_positioned
      /\ t.timer = tip.timer
  BY <1>4 DEF WinSet
<1>7. ShowPangoTips(s, word) = t
  <2>1. ShowPangoTips(s, word) = [Popup(tip, TRUE) EXCEPT !.window_positioned = TRUE]
    BY DEF ShowPangoTips, tip, piece
  <2>2. Popup(tip, TRUE) = [tip EXCEPT !.visible = TRUE, !.placed = 1]
    BY <1>4 DEF Popup, WinSet
  <2>3. QED
    BY <1>4, <2>1, <2>2 DEF WinSet
<1> HIDE DEF t
<1>8. WinInv(t)
  BY <1>2, <1>3, <1>4, <1>5, <1>6 DEF WinInv, Placed, Timed, Distinct, NoneTwice
<1>9. QED
  BY <1>4, <1>5, <1>7, <1>8

(* What hides the window, brings it back or says "looking up" leaves the    *)
(* lookup as it is.                                                        *)
LEMMA HiddenOrShown ==
  ASSUME NEW s, WinInv(s), NEW t,
         \/ ~ s.visible /\ t = Show(s)
         \/ t = Hide(s)
         \/ t = LookupRunningTimeOut(s)
  PROVE  /\ WinInv(t) /\ SameLookup(s, t) /\ t.content_state = s.content_state
         /\ About(s) => About(t)
<1>1. s \in WinSet /\ Placed(s) /\ Timed(s) /\ Distinct(s) /\ NoneTwice(s)
  BY DEF WinInv
<1>2. /\ t \in WinSet /\ SameLookup(s, t) /\ t.content_state = s.content_state
      /\ t.view = s.view /\ Placed(t) /\ Timed(t)
  <2>1. CASE ~ s.visible /\ t = Show(s)
    <3>1. t \in WinSet /\ SameLookup(s, t) /\ t.view = s.view /\ t.visible
      BY <1>1, <2>1 DEF Show, WinSet, SameLookup
    <3>2. /\ t.content_state = s.content_state /\ t.timer = s.timer /\ t.placed = s.placed
          /\ t.have_real_content = s.have_real_content
          /\ t.window_positioned = s.window_positioned
      BY <1>1, <2>1 DEF Show, WinSet
    <3>3. QED
      BY <1>1, <2>1, <3>1, <3>2 DEF Placed, Timed
  <2>2. CASE t = Hide(s)
    <3>1. t \in WinSet /\ SameLookup(s, t) /\ t.view = s.view
      BY <1>1, <2>2 DEF Hide, WinSet, SameLookup
    <3>2. /\ t.content_state = s.content_state /\ t.timer = s.timer /\ t.placed = 0
          /\ t.have_real_content = s.have_real_content /\ ~ t.window_positioned
      BY <1>1, <2>2 DEF Hide, WinSet
    <3>3. QED
      BY <1>1, <3>1, <3>2 DEF Placed, Timed
  <2>3. CASE t = LookupRunningTimeOut(s)
    <3> DEFINE shown == IF ~ s.have_real_content /\ s.show_if_not_found THEN PopupOnce(s) ELSE s
    <3>1. /\ shown \in WinSet /\ SameLookup(s, shown) /\ Placed(shown) /\ shown.view = s.view
          /\ shown.content_state = s.content_state
      BY <1>1, PopupOnceKeeps DEF SameLookup
    <3>2. t = [shown EXCEPT !.timer = FALSE]
      BY <2>3 DEF LookupRunningTimeOut
    <3> HIDE DEF shown
    <3>3. /\ t \in WinSet /\ SameLookup(shown, t) /\ t.view = shown.view /\ ~ t.timer
          /\ t.content_state = shown.content_state
      BY <3>1, <3>2 DEF WinSet, SameLookup
    <3>4. /\ t.placed = shown.placed /\ t.visible = shown.visible
          /\ t.window_positioned = shown.window_positioned
      BY <3>1, <3>2 DEF WinSet
    <3>5. QED
      BY <3>1, <3>3, <3>4 DEF Placed, Timed, SameLookup
  <2>4. QED
    BY <2>1, <2>2, <2>3
<1>3. Distinct(t) /\ NoneTwice(t) /\ (About(s) => About(t))
  BY <1>1, <1>2 DEF Distinct, NoneTwice, About, SameLookup
<1>4. QED
  BY <1>1, <1>2, <1>3 DEF WinInv

-----------------------------------------------------------------------------
(* Answers and responses. *)

(* A lookup that got all ends; one that is being built does not. *)
LEMMA EndIfGotAllKeeps ==
  ASSUME NEW s, WinInv(s)
  PROVE  LET t == EndIfGotAll(s)
         IN  /\ WinInv(t) /\ SameLookup(s, t) /\ (About(s) => About(t))
             /\ s.building => t = s
             /\ ~ s.building /\ (LookingUp(s) \/ s.content_state = "Waiting") => LookingUp(t)
<1>1. CASE IsGotAll(s)
  BY <1>1, EndLookupKeeps DEF EndIfGotAll, IsGotAll, LookingUp, SameLookup
<1>2. CASE ~ IsGotAll(s)
  BY <1>2 DEF EndIfGotAll, IsGotAll, LookingUp, SameLookup, WinInv, WinSet
<1>3. QED
  BY <1>1, <1>2

(* show_netdict_resp: the response is off the list, and on show if it was   *)
(* on it and says anything.                                                *)
LEMMA ShowNetDictRespKeeps ==
  ASSUME NEW s, WinInv(s), NEW dict \in Dicts, NEW word \in Words, NEW data
  PROVE  LET t == ShowNetDictResp(s, dict, word, data)
         IN  /\ WinInv(t) /\ t.requests = s.requests \ {<<dict, word>>}
             /\ t.building = s.building /\ t.expected = s.expected
             /\ t.QueryingWord = s.QueryingWord
             /\ About(s) => About(t)
             /\ s.building => /\ t.content_state = s.content_state
                              /\ \A i \in DOMAIN t.view :
                                   \/ t.view[i] = Piece(dict, word)
                                   \/ \E j \in DOMAIN s.view : t.view[i] = s.view[j]
             /\ ~ s.building /\ LookingUp(s) => LookingUp(t)
<1> DEFINE piece == Piece(dict, word)
           got == GotNetDict(s, dict, word)
           shown == IF ExpectsNetDict(s, dict, word) /\ data # "nothing"
                      THEN AppendText(got, piece) ELSE got
           t == EndIfGotAll(shown)
<1>1. s \in WinSet /\ Placed(s) /\ Timed(s) /\ Distinct(s) /\ NoneTwice(s)
  BY DEF WinInv
<1>2. /\ piece \in Pieces /\ piece.source = dict /\ piece.word = word /\ ~ piece.kept
      /\ dict # "server"
  BY FloatAssumption DEF FloatAssumption, Pieces, Piece, OtherSources
<1>3. /\ got \in WinSet /\ got.requests = s.requests \ {<<dict, word>>}
      /\ got.building = s.building /\ got.expected = s.expected
      /\ got.QueryingWord = s.QueryingWord
  BY <1>1 DEF GotNetDict, WinSet
<1>4. /\ got.view = s.view /\ got.content_state = s.content_state /\ got.placed = s.placed
      /\ got.visible = s.visible /\ got.window_positioned = s.window_positioned
      /\ got.timer = s.timer /\ got.have_real_content = s.have_real_content
  BY <1>1 DEF GotNetDict, WinSet
<1> HIDE DEF piece, got
<1>5. WinInv(got) /\ (About(s) => About(got))
  BY <1>1, <1>3, <1>4 DEF WinInv, Placed, Timed, Distinct, NoneTwice, About
<1>6. ExpectsNetDict(s, dict, word) =>
        /\ \A i \in DOMAIN got.view : got.view[i] # piece
        /\ About(s) => piece.word = got.QueryingWord
  <2> SUFFICES ASSUME <<dict, word>> \in s.requests
               PROVE  /\ \A i \in DOMAIN s.view : s.view[i] # piece
                      /\ About(s) => piece.word = s.QueryingWord
    BY <1>3, <1>4 DEF ExpectsNetDict
  <2>1. <<dict, word>>[2] = word
    OBVIOUS
  <2>2. QED
    BY <1>1, <1>2, <2>1 DEF NoneTwice, About
<1>7. /\ WinInv(shown) /\ SameLookup(got, shown) /\ (About(s) => About(shown))
      /\ shown.content_state = got.content_state
      /\ \A i \in DOMAIN shown.view :
           shown.view[i] = piece \/ \E j \in DOMAIN got.view : shown.view[i] = got.view[j]
  <2>1. CASE ExpectsNetDict(s, dict, word) /\ data # "nothing"
    <3>1. <<piece.source, piece.word>> \notin got.requests
      BY <1>2, <1>3
    <3>2. QED
      BY <1>2, <1>5, <1>6, <2>1, <3>1, AppendTextKeeps
  <2>2. CASE ~ (ExpectsNetDict(s, dict, word) /\ data # "nothing")
    BY <1>5, <2>2 DEF SameLookup
  <2>3. QED
    BY <2>1, <2>2
<1> HIDE DEF shown
<1>8. /\ WinInv(t) /\ SameLookup(shown, t) /\ (About(shown) => About(t))
      /\ shown.building => t = shown
      /\ ~ shown.building /\ (LookingUp(shown) \/ shown.content_state = "Waiting")
           => LookingUp(t)
  BY <1>7, EndIfGotAllKeeps
<1> HIDE DEF t
<1>9. SameLookup(got, t)
  BY <1>7, <1>8 DEF SameLookup
<1>10. ~ s.building /\ LookingUp(s) => LookingUp(t)
  <2> SUFFICES ASSUME ~ s.building, LookingUp(s) PROVE LookingUp(t)
    OBVIOUS
  <2>1. shown.content_state # "Waiting" => LookingUp(shown)
    BY <1>3, <1>4, <1>7 DEF LookingUp, SameLookup
  <2>2. QED
    BY <1>3, <1>7, <1>8, <2>1 DEF SameLookup
<1>11. ShowNetDictResp(s, dict, word, data) = t
  BY DEF ShowNetDictResp, t, shown, got, piece
<1>12. s.building => /\ t.content_state = s.content_state
                     /\ \A i \in DOMAIN t.view :
                          \/ t.view[i] = piece
                          \/ \E j \in DOMAIN s.view : t.view[i] = s.view[j]
  BY <1>3, <1>4, <1>7, <1>8 DEF SameLookup
<1>13. QED
  BY <1>3, <1>7, <1>8, <1>9, <1>10, <1>11, <1>12 DEF SameLookup, piece

(* on_stardict_client_floatwin_lookup_end, with the answer expected or one  *)
(* from the cache of the client.                                           *)
LEMMA OnLookupEndKeeps ==
  ASSUME NEW s, WinInv(s), NEW answer, answer.seq \in Nat,
         answer.seq \in {0, s.expected} => answer.text.key \in Words \cup {Nil},
         answer.seq = 0 => s.expected = 0 /\ \A i \in DOMAIN s.view : s.view[i].source # "server"
  PROVE  LET t == OnLookupEnd(s, answer)
         IN  /\ WinInv(t) /\ t.requests = s.requests /\ t.building = s.building
             /\ t.QueryingWord = s.QueryingWord
             /\ t.expected = IF answer.seq = s.expected THEN 0 ELSE s.expected
             /\ About(s) /\ (answer.seq \in {0, s.expected} => answer.text.key = s.QueryingWord)
                  => About(t)
             /\ s.building => /\ t.content_state = s.content_state
                              /\ \A i \in DOMAIN t.view :
                                   \/ t.view[i] = Piece("server", answer.text.key)
                                   \/ \E j \in DOMAIN s.view : t.view[i] = s.view[j]
             /\ ~ s.building /\ LookingUp(s) => LookingUp(t)
<1> DEFINE piece == Piece("server", answer.text.key)
           got == IF answer.seq = 0 THEN s ELSE GotStarDict(s)
           shown == IF answer.data = "nothing" THEN got ELSE AppendText(got, piece)
           t == EndIfGotAll(shown)
<1>1. s \in WinSet /\ Placed(s) /\ Timed(s) /\ Distinct(s) /\ NoneTwice(s)
  BY DEF WinInv
<1>2. /\ answer.seq \in {0, s.expected} => piece \in Pieces
      /\ piece.source = "server" /\ piece.word = answer.text.key
      /\ piece.source \notin Dicts
  BY FloatAssumption DEF FloatAssumption, Pieces, Piece, OtherSources
<1> HIDE DEF piece
<1>3. CASE answer.seq # 0 /\ answer.seq # s.expected
  <2>1. OnLookupEnd(s, answer) = s
    BY <1>3 DEF OnLookupEnd, ExpectsStarDict
  <2>2. QED
    BY <1>3, <2>1
<1>4. CASE answer.seq = 0 \/ answer.seq = s.expected
  <2>1. OnLookupEnd(s, answer) = t
    BY <1>4 DEF OnLookupEnd, ExpectsStarDict, t, shown, got, piece
  <2>2. /\ got \in WinSet /\ got.requests = s.requests /\ got.building = s.building
        /\ got.expected = 0 /\ got.QueryingWord = s.QueryingWord
    BY <1>1, <1>4 DEF GotStarDict, WinSet
  <2>3. /\ got.view = s.view /\ got.content_state = s.content_state /\ got.placed = s.placed
        /\ got.visible = s.visible /\ got.window_positioned = s.window_positioned
        /\ got.timer = s.timer /\ got.have_real_content = s.have_real_content
    BY <1>1 DEF GotStarDict, WinSet
  <2> HIDE DEF got
  <2>4. WinInv(got) /\ (About(s) => About(got))
    BY <1>1, <2>2, <2>3 DEF WinInv, Placed, Timed, Distinct, NoneTwice, About
  <2>5. \A i \in DOMAIN got.view : got.view[i] # piece
    BY <1>1, <1>2, <1>4, <2>3 DEF NoneTwice
  <2>6. <<piece.source, piece.word>> \notin got.requests
    BY <1>1, <1>2, <2>2 DEF WinSet
  <2>7. /\ WinInv(shown) /\ SameLookup(got, shown)
        /\ (About(got) /\ answer.text.key = s.QueryingWord => About(shown))
        /\ shown.content_state = got.content_state
        /\ \A i \in DOMAIN shown.view :
             shown.view[i] = piece \/ \E j \in DOMAIN got.view : shown.view[i] = got.view[j]
    <3>1. CASE answer.data # "nothing"
      BY <1>2, <1>4, <2>2, <2>4, <2>5, <2>6, <3>1, AppendTextKeeps
    <3>2. CASE answer.data = "nothing"
      BY <2>4, <3>2 DEF SameLookup
    <3>3. QED
      BY <3>1, <3>2
  <2> HIDE DEF shown
  <2>8. /\ WinInv(t) /\ SameLookup(shown, t) /\ (About(shown) => About(t))
        /\ shown.building => t = shown
        /\ ~ shown.building /\ (LookingUp(shown) \/ shown.content_state = "Waiting")
             => LookingUp(t)
    BY <2>7, EndIfGotAllKeeps
  <2> HIDE DEF t
  <2>9. SameLookup(got, t)
    BY <2>7, <2>8 DEF SameLookup
  <2>10. ~ s.building /\ LookingUp(s) => LookingUp(t)
    <3> SUFFICES ASSUME ~ s.building, LookingUp(s) PROVE LookingUp(t)
      OBVIOUS
    <3>1. shown.content_state # "Waiting" => LookingUp(shown)
      BY <1>4, <2>2, <2>3, <2>7 DEF LookingUp, SameLookup
    <3>2. QED
      BY <2>2, <2>7, <2>8, <3>1 DEF SameLookup
  <2>11. s.building => /\ t.content_state = s.content_state
                       /\ \A i \in DOMAIN t.view :
                            \/ t.view[i] = piece
                            \/ \E j \in DOMAIN s.view : t.view[i] = s.view[j]
    BY <2>2, <2>3, <2>7, <2>8 DEF SameLookup
  <2>12. t.expected = IF answer.seq = s.expected THEN 0 ELSE s.expected
    BY <1>4, <2>2, <2>9 DEF SameLookup
  <2>13. QED
    BY <1>4, <2>1, <2>2, <2>4, <2>7, <2>8, <2>9, <2>10, <2>11, <2>12 DEF SameLookup, piece
<1>5. QED
  BY <1>3, <1>4
-----------------------------------------------------------------------------
(* A lookup from its beginning to the last of the network dictionaries. *)

(* A lookup that is being made for a word. *)
Fresh(s, word) ==
  /\ WinInv(s) /\ About(s)
  /\ s.building /\ s.QueryingWord = word /\ s.content_state = "Waiting"

(* One that has asked nobody yet. *)
Begun(s, word) ==
  Fresh(s, word) /\ s.requests = {} /\ s.expected = 0 /\ s.view = <<Piece("looking up", word)>>

LEMMA BeginIsFresh ==
  ASSUME WinInv(win), NEW word \in Words
  PROVE  Begun(Begin(word), word)
<1> DEFINE piece == Piece("looking up", word)
           u == StartLookup(win, word)
           t == NewLookup(u)
<1>1. win \in WinSet
  BY DEF WinInv
<1>2. piece \in Pieces /\ piece.word = word /\ piece.source # "server"
  BY DEF Pieces, Piece, OtherSources
<1>3. u = [win EXCEPT !.QueryingWord = word, !.content_state = "Waiting", !.view = <<piece>>,
                      !.have_real_content = FALSE, !.window_positioned = FALSE,
                      !.placed = 0, !.timer = TRUE]
  BY DEF StartLookup, piece
<1> HIDE DEF piece, u
<1>4. /\ u \in WinSet /\ u.QueryingWord = word /\ u.content_state = "Waiting"
      /\ u.view = <<piece>> /\ ~ u.have_real_content /\ ~ u.window_positioned
      /\ u.placed = 0
  <2>1. <<piece>> \in Seq(Pieces)
    BY <1>2
  <2>2. QED
    BY <1>1, <1>3, <2>1 DEF WinSet
<1>5. /\ t \in WinSet /\ t.building /\ t.requests = {} /\ t.expected = 0
      /\ t.QueryingWord = word /\ t.content_state = "Waiting" /\ t.view = <<piece>>
      /\ ~ t.have_real_content /\ ~ t.window_positioned /\ t.placed = 0
  BY <1>4 DEF NewLookup, WinSet
<1> HIDE DEF t
<1>6. WinInv(t) /\ About(t)
  BY <1>2, <1>5 DEF WinInv, Placed, Timed, Distinct, NoneTwice, About
<1>7. Begin(word) = t
  BY DEF Begin, t, u
<1>8. QED
  BY <1>5, <1>6, <1>7 DEF Begun, Fresh, piece

(* No answer to this lookup is on show: no piece is the server's, and those *)
(* of network dictionaries are what they have kept.                        *)
OnlyHere(s) ==
  \A i \in DOMAIN s.view : /\ s.view[i].source # "server"
                           /\ s.view[i].source \in Dicts => s.view[i].kept

(* A piece of another source than a network dictionary or the server. *)
LEMMA AppendFresh ==
  ASSUME NEW word \in Words, NEW s, Begun(s, word), NEW source \in {"local", "fuzzy"}
  PROVE  LET t == AppendText(s, Piece(source, word))
         IN  /\ Fresh(t, word) /\ t.requests = {} /\ t.expected = 0
             /\ OnlyHere(t) /\ \A i \in DOMAIN t.view : t.view[i].source \notin Dicts
<1> DEFINE piece == Piece(source, word)
           first == Piece("looking up", word)
           t == AppendText(s, piece)
<1>1. /\ piece \in Pieces /\ piece.word = word /\ piece.source = source
      /\ piece.source \notin Dicts \cup {"server"}
      /\ first.source \notin Dicts \cup {"server"} /\ first.source # piece.source
  BY FloatAssumption DEF FloatAssumption, Pieces, Piece, OtherSources
<1>2. /\ WinInv(s) /\ About(s) /\ s.building /\ s.QueryingWord = word
      /\ s.content_state = "Waiting" /\ s.requests = {} /\ s.expected = 0
      /\ s.view = <<first>>
  BY DEF Begun, Fresh
<1> HIDE DEF piece, first
<1>3. \A i \in DOMAIN s.view : s.view[i] = first
  BY <1>2
<1>4. \A i \in DOMAIN s.view : /\ s.view[i] # piece
                               /\ s.view[i].source \notin Dicts \cup {"server"}
  BY <1>1, <1>3
<1>5. /\ WinInv(t) /\ SameLookup(s, t) /\ t.content_state = s.content_state /\ About(t)
      /\ \A i \in DOMAIN t.view : t.view[i] = piece \/ \E j \in DOMAIN s.view : t.view[i] = s.view[j]
  <2>1. <<piece.source, piece.word>> \notin s.requests
    BY <1>2
  <2>2. WinInv(s) /\ About(s) /\ piece.word = s.QueryingWord
    BY <1>1, <1>2
  <2>3. \A i \in DOMAIN s.view : s.view[i] # piece
    BY <1>4
  <2>4. piece \in Pieces /\ piece.source # "server"
    BY <1>1
  <2>5. QED
    BY <2>1, <2>2, <2>3, <2>4, AppendTextKeeps
<1> HIDE DEF t
<1>6. QED
  BY <1>1, <1>2, <1>4, <1>5 DEF Fresh, SameLookup, OnlyHere, t, piece

(* What holds after n network dictionaries were asked. *)
Turn(n, s, word, seq) ==
  /\ Fresh(s, word) /\ s.expected = seq
  /\ \A q \in s.requests :
       \E k \in 1 .. n : q = <<NetDicts[k], word>> /\ ~ IsCached(netcache[NetDicts[k]], word)
  /\ \A i \in DOMAIN s.view :
       s.view[i].source \in Dicts =>
         s.view[i].kept \/ \E k \in 1 .. n : s.view[i].source = NetDicts[k]

LEMMA NetDictsAreDicts == \A n \in 1 .. Len(NetDicts) : NetDicts[n] \in Dicts
  BY FloatAssumption DEF FloatAssumption, Dicts

LEMMA TurnTaken ==
  ASSUME NEW n \in 1 .. Len(NetDicts), NEW word \in Words, NEW seq, NEW s,
         Turn(n - 1, s, word, seq)
  PROVE  Turn(n, AskNetDict(s, NetDicts[n], word), word, seq)
<1> DEFINE dict == NetDicts[n]
           sent == SendNetDictRequest(s, dict, word)
           t == AskNetDict(s, dict, word)
<1>1. dict \in Dicts /\ n \in Nat \ {0}
  BY NetDictsAreDicts, FloatAssumption DEF FloatAssumption
<1>2. s \in WinSet /\ Placed(s) /\ Timed(s) /\ Distinct(s) /\ NoneTwice(s) /\ About(s)
      /\ s.building /\ s.QueryingWord = word /\ s.content_state = "Waiting"
  BY DEF Turn, Fresh, WinInv
<1>3. /\ sent \in WinSet /\ sent.requests = s.requests \cup {<<dict, word>>}
      /\ sent.building /\ sent.expected = s.expected /\ sent.QueryingWord = word
      /\ sent.content_state = "Waiting"
  BY <1>1, <1>2 DEF SendNetDictRequest, WinSet
<1>4. /\ sent.view = s.view /\ sent.placed = s.placed /\ sent.visible = s.visible
      /\ sent.window_positioned = s.window_positioned /\ sent.timer = s.timer
      /\ sent.have_real_content = s.have_real_content
  BY <1>2 DEF SendNetDictRequest, WinSet
<1> HIDE DEF sent
<1>5. \A i \in DOMAIN s.view : s.view[i].source # dict \/ s.view[i].kept
  <2> SUFFICES ASSUME NEW i \in DOMAIN s.view, s.view[i].source = dict, ~ s.view[i].kept
               PROVE  FALSE
    OBVIOUS
  <2>1. PICK k \in 1 .. (n - 1) : dict = NetDicts[k]
    BY <1>1 DEF Turn
  <2>2. k \in DOMAIN NetDicts /\ n \in DOMAIN NetDicts /\ k # n
    BY FloatAssumption DEF FloatAssumption
  <2>3. QED
    BY <2>1, <2>2, FloatAssumption DEF FloatAssumption
<1>6. NoneTwice(sent) /\ About(sent)
  <2>1. \A i \in DOMAIN s.view :
          <<s.view[i].source, s.view[i].word>> # <<dict, word>> \/ s.view[i].kept
    BY <1>5
  <2>2. <<dict, word>>[2] = word
    OBVIOUS
  <2>3. QED
    BY <1>2, <1>3, <1>4, <2>1, <2>2 DEF NoneTwice, About
<1>7. WinInv(sent)
  BY <1>2, <1>3, <1>4, <1>6 DEF WinInv, Placed, Timed, Distinct
<1>8. \A i \in DOMAIN s.view :
        s.view[i].source \in Dicts =>
          s.view[i].kept \/ \E k \in 1 .. n : s.view[i].source = NetDicts[k]
  BY <1>1 DEF Turn
<1>9. \A q \in s.requests :
        \E k \in 1 .. n : q = <<NetDicts[k], word>> /\ ~ IsCached(netcache[NetDicts[k]], word)
  BY <1>1 DEF Turn
<1>10. CASE ~ IsCached(netcache[dict], word)
  <2>1. t = sent
    BY <1>10 DEF AskNetDict, sent
  <2>2. n \in 1 .. n
    BY <1>1
  <2>3. \A q \in sent.requests :
          \E k \in 1 .. n : q = <<NetDicts[k], word>> /\ ~ IsCached(netcache[NetDicts[k]], word)
    BY <1>3, <1>9, <1>10, <2>2
  <2>4. QED
    BY <1>3, <1>4, <1>6, <1>7, <1>8, <2>1, <2>3 DEF Turn, Fresh
<1>11. CASE IsCached(netcache[dict], word)
  <2> DEFINE data == Cached(netcache[dict], word)
  <2>1. t = ShowNetDictResp(sent, dict, word, data)
    BY <1>11 DEF AskNetDict, sent
  <2> HIDE DEF t, data, dict
  <2>2. /\ WinInv(t) /\ t.requests = sent.requests \ {<<dict, word>>}
        /\ t.building = sent.building /\ t.expected = sent.expected
        /\ t.QueryingWord = sent.QueryingWord
        /\ About(sent) => About(t)
        /\ sent.building => /\ t.content_state = sent.content_state
                            /\ \A i \in DOMAIN t.view :
                                 \/ t.view[i] = Piece(dict, word)
                                 \/ \E j \in DOMAIN sent.view : t.view[i] = sent.view[j]
    BY <1>1, <1>7, <2>1, ShowNetDictRespKeeps
  <2>3. Fresh(t, word) /\ t.expected = s.expected /\ t.requests \subseteq s.requests
    BY <1>3, <1>6, <2>2 DEF Fresh
  <2>4. \A i \in DOMAIN t.view :
          t.view[i].source \in Dicts =>
            t.view[i].kept \/ \E k \in 1 .. n : t.view[i].source = NetDicts[k]
    <3>1. Piece(dict, word).source = NetDicts[n] /\ n \in 1 .. n
      BY <1>1 DEF Piece, dict
    <3>2. QED
      BY <1>3, <1>4, <1>8, <2>2, <3>1
  <2>5. QED
    BY <1>9, <2>3, <2>4 DEF Turn, t, dict
<1>12. QED
  BY <1>10, <1>11

(* The loop is a recursive function: there is one that satisfies its        *)
(* equation.                                                               *)
LEMMA LoopEquation ==
  ASSUME NEW s, NEW word
  PROVE  \E after : /\ after = [n \in 0 .. Len(NetDicts) |->
                                  IF n = 0 THEN s
                                  ELSE AskNetDict(after[n - 1], NetDicts[n], word)]
                    /\ LookupNetDict(s, word) = after[Len(NetDicts)]
<1> DEFINE L == Len(NetDicts)
           Upto(g, m) == g = [n \in 0 .. m |->
                                IF n = 0 THEN s ELSE AskNetDict(g[n - 1], NetDicts[n], word)]
           T == {m \in 0 .. L : \E g : Upto(g, m)}
<1>1. L \in Nat
  BY FloatAssumption DEF FloatAssumption
<1> HIDE DEF L
<1>2. 0 \in T
  <2>1. Upto([n \in 0 .. 0 |-> s], 0)
    OBVIOUS
  <2> HIDE DEF Upto
  <2>2. QED
    BY <1>1, <2>1
<1>3. ASSUME NEW k \in 1 .. L, k - 1 \in T PROVE k \in T
  <2>1. PICK g : Upto(g, k - 1)
    BY <1>3
  <2> DEFINE h == [n \in 0 .. k |->
                     IF n = k THEN AskNetDict(g[k - 1], NetDicts[k], word) ELSE g[n]]
  <2>2. \A n \in 0 .. (k - 1) :
          g[n] = IF n = 0 THEN s ELSE AskNetDict(g[n - 1], NetDicts[n], word)
    BY <2>1
  <2>3. \A n \in 0 .. k :
          h[n] = IF n = 0 THEN s ELSE AskNetDict(h[n - 1], NetDicts[n], word)
    <3> SUFFICES ASSUME NEW n \in 0 .. k
                 PROVE  h[n] = IF n = 0 THEN s ELSE AskNetDict(h[n - 1], NetDicts[n], word)
      OBVIOUS
    <3>1. CASE n = k
      <4>1. n # 0 /\ k - 1 \in 0 .. k /\ k - 1 # k
        BY <1>1, <1>3, <3>1
      <4>2. h[k - 1] = g[k - 1]
        BY <4>1
      <4>3. h[n] = AskNetDict(g[k - 1], NetDicts[k], word)
        BY <3>1
      <4>4. QED
        BY <3>1, <4>1, <4>2, <4>3
    <3>2. CASE n # k
      <4>1. n \in 0 .. (k - 1) /\ h[n] = g[n]
        BY <1>1, <1>3, <3>2
      <4>2. n # 0 => n - 1 \in 0 .. k /\ n - 1 # k /\ h[n - 1] = g[n - 1]
        BY <1>1, <1>3, <4>1
      <4>3. QED
        BY <2>2, <4>1, <4>2
    <3>3. QED
      BY <3>1, <3>2
  <2>4. Upto(h, k)
    BY <2>3
  <2> HIDE DEF Upto, h
  <2>5. QED
    BY <1>1, <1>3, <2>4
<1>4. L \in T
  <2>1. \A k \in 0 .. L : k \in T
    <3> HIDE DEF T
    <3> QED
      BY <1>1, <1>2, <1>3, CountingUp
  <2>2. QED
    BY <1>1, <2>1
<1>5. PICK g : Upto(g, L)
  BY <1>4
<1> DEFINE after == CHOOSE f : Upto(f, L)
<1>6. Upto(after, L)
  BY <1>5
<1>7. LookupNetDict(s, word) = after[L]
  BY DEF LookupNetDict, L
<1>8. QED
  BY <1>6, <1>7 DEF L

(* The whole loop. *)
LEMMA AllAsked ==
  ASSUME NEW word \in Words, NEW seq, NEW s, Turn(0, s, word, seq)
  PROVE  Turn(Len(NetDicts), LookupNetDict(s, word), word, seq)
<1> DEFINE L == Len(NetDicts)
<1>1. PICK after : /\ after = [n \in 0 .. L |->
                                 IF n = 0 THEN s ELSE AskNetDict(after[n - 1], NetDicts[n], word)]
                   /\ LookupNetDict(s, word) = after[L]
  BY LoopEquation
<1>2. L \in Nat
  BY FloatAssumption DEF FloatAssumption
<1>3. \A n \in 0 .. L : after[n] = IF n = 0 THEN s ELSE AskNetDict(after[n - 1], NetDicts[n], word)
  BY <1>1
<1> DEFINE T == {n \in 0 .. L : Turn(n, after[n], word, seq)}
<1>4. 0 \in T
  BY <1>2, <1>3
<1>5. ASSUME NEW k \in 1 .. L, k - 1 \in T PROVE k \in T
  <2>1. after[k] = AskNetDict(after[k - 1], NetDicts[k], word) /\ k \in 0 .. L
    BY <1>2, <1>3
  <2>2. Turn(k, AskNetDict(after[k - 1], NetDicts[k], word), word, seq)
    BY <1>5, TurnTaken
  <2>3. QED
    BY <2>1, <2>2
<1>6. \A k \in 0 .. L : k \in T
  <2> HIDE DEF T, L
  <2> QED
    BY <1>2, <1>4, <1>5, CountingUp
<1>7. L \in T
  BY <1>2, <1>6
<1>8. QED
  BY <1>1, <1>7

(* The dictionaries on the disk and what network dictionaries have kept come *)
(* first: what is on show after n of the latter were looked at.            *)
KeptTurn(n, s, word) ==
  /\ Fresh(s, word) /\ s.requests = {} /\ s.expected = 0 /\ OnlyHere(s)
  /\ \A i \in DOMAIN s.view :
       s.view[i].source \in Dicts => \E k \in 1 .. n : s.view[i].source = NetDicts[k]

LEMMA KeptTurnTaken ==
  ASSUME NEW n \in 1 .. Len(NetDicts), NEW word \in Words, NEW form, NEW s,
         KeptTurn(n - 1, s, word)
  PROVE  KeptTurn(n, AddKept(s, NetDicts[n], word, form), word)
<1> DEFINE dict == NetDicts[n]
           piece == KeptPiece(dict, word)
           t == AppendText(s, piece)
<1>1. dict \in Dicts /\ n \in Nat \ {0}
  BY NetDictsAreDicts, FloatAssumption DEF FloatAssumption
<1>2. /\ piece \in Pieces /\ piece.source = dict /\ piece.word = word /\ piece.kept
      /\ piece.source # "server"
  BY <1>1, FloatAssumption DEF FloatAssumption, Pieces, KeptPiece, OtherSources
<1>3. /\ WinInv(s) /\ About(s) /\ s.building /\ s.QueryingWord = word
      /\ s.content_state = "Waiting" /\ s.requests = {} /\ s.expected = 0 /\ OnlyHere(s)
  BY DEF KeptTurn, Fresh
<1>4. \A i \in DOMAIN s.view :
        s.view[i].source \in Dicts => \E k \in 1 .. (n - 1) : s.view[i].source = NetDicts[k]
  BY DEF KeptTurn
<1>5. \A i \in DOMAIN s.view : s.view[i].source # dict
  <2> SUFFICES ASSUME NEW i \in DOMAIN s.view, s.view[i].source = dict PROVE FALSE
    OBVIOUS
  <2>1. PICK k \in 1 .. (n - 1) : dict = NetDicts[k]
    BY <1>1, <1>4
  <2>2. k \in DOMAIN NetDicts /\ n \in DOMAIN NetDicts /\ k # n
    BY FloatAssumption DEF FloatAssumption
  <2>3. QED
    BY <2>1, <2>2, FloatAssumption DEF FloatAssumption
<1>6. CASE KeepsArticle(dict, form)
  <2> HIDE DEF piece
  <2>1. \A i \in DOMAIN s.view : s.view[i] # piece
    BY <1>2, <1>5
  <2>2. /\ WinInv(t) /\ SameLookup(s, t) /\ t.content_state = s.content_state /\ About(t)
        /\ \A i \in DOMAIN t.view : t.view[i] = piece \/ \E j \in DOMAIN s.view : t.view[i] = s.view[j]
    BY <1>2, <1>3, <2>1, AppendTextKeeps
  <2>3. AddKept(s, dict, word, form) = t
    BY <1>6 DEF AddKept, piece
  <2> HIDE DEF t
  <2>4. Fresh(t, word) /\ t.requests = {} /\ t.expected = 0
    BY <1>3, <2>2 DEF Fresh, SameLookup
  <2>5. OnlyHere(t)
    BY <1>2, <1>3, <2>2 DEF OnlyHere
  <2>6. \A i \in DOMAIN t.view :
          t.view[i].source \in Dicts => \E k \in 1 .. n : t.view[i].source = NetDicts[k]
    <3>1. piece.source = NetDicts[n] /\ n \in 1 .. n /\ 1 .. (n - 1) \subseteq 1 .. n
      BY <1>1, <1>2
    <3>2. QED
      BY <1>4, <2>2, <3>1
  <2>7. QED
    BY <2>3, <2>4, <2>5, <2>6 DEF KeptTurn
<1>7. CASE ~ KeepsArticle(dict, form)
  <2>1. AddKept(s, dict, word, form) = s
    BY <1>7 DEF AddKept
  <2>2. 1 .. (n - 1) \subseteq 1 .. n
    BY <1>1
  <2>3. QED
    BY <1>4, <2>1, <2>2 DEF KeptTurn
<1>8. QED
  BY <1>6, <1>7

LEMMA LocalDictLoop ==
  ASSUME NEW s, NEW word, NEW form, NEW onDisk
  PROVE  \E after :
           /\ after = [n \in 0 .. Len(NetDicts) |->
                         IF n = 0 THEN IF form \in onDisk THEN AppendText(s, Piece("local", word))
                                                          ELSE s
                         ELSE AddKept(after[n - 1], NetDicts[n], word, form)]
           /\ AppendTextLocalDict(s, word, form, onDisk) = after[Len(NetDicts)]
<1> DEFINE L == Len(NetDicts)
           here == IF form \in onDisk THEN AppendText(s, Piece("local", word)) ELSE s
           Upto(g, m) == g = [n \in 0 .. m |->
                                IF n = 0 THEN here ELSE AddKept(g[n - 1], NetDicts[n], word, form)]
           T == {m \in 0 .. L : \E g : Upto(g, m)}
           after == CHOOSE f : Upto(f, L)
<1>1. L \in Nat
  BY FloatAssumption DEF FloatAssumption
<1>2. AppendTextLocalDict(s, word, form, onDisk) = after[L]
  BY DEF AppendTextLocalDict
<1> HIDE DEF L, here
<1>3. 0 \in T
  <2>1. Upto([n \in 0 .. 0 |-> here], 0)
    OBVIOUS
  <2> HIDE DEF Upto
  <2>2. QED
    BY <1>1, <2>1
<1>4. ASSUME NEW k \in 1 .. L, k - 1 \in T PROVE k \in T
  <2>1. PICK g : Upto(g, k - 1)
    BY <1>4
  <2> DEFINE h == [n \in 0 .. k |->
                     IF n = k THEN AddKept(g[k - 1], NetDicts[k], word, form) ELSE g[n]]
  <2>2. \A n \in 0 .. (k - 1) :
          g[n] = IF n = 0 THEN here ELSE AddKept(g[n - 1], NetDicts[n], word, form)
    BY <2>1
  <2>3. \A n \in 0 .. k :
          h[n] = IF n = 0 THEN here ELSE AddKept(h[n - 1], NetDicts[n], word, form)
    <3> SUFFICES ASSUME NEW n \in 0 .. k
                 PROVE  h[n] = IF n = 0 THEN here ELSE AddKept(h[n - 1], NetDicts[n], word, form)
      OBVIOUS
    <3>1. CASE n = k
      <4>1. n # 0 /\ k - 1 \in 0 .. k /\ k - 1 # k
        BY <1>1, <1>4, <3>1
      <4>2. h[k - 1] = g[k - 1]
        BY <4>1
      <4>3. h[n] = AddKept(g[k - 1], NetDicts[k], word, form)
        BY <3>1
      <4>4. QED
        BY <3>1, <4>1, <4>2, <4>3
    <3>2. CASE n # k
      <4>1. n \in 0 .. (k - 1) /\ h[n] = g[n]
        BY <1>1, <1>4, <3>2
      <4>2. n # 0 => n - 1 \in 0 .. k /\ n - 1 # k /\ h[n - 1] = g[n - 1]
        BY <1>1, <1>4, <4>1
      <4>3. QED
        BY <2>2, <4>1, <4>2
    <3>3. QED
      BY <3>1, <3>2
  <2>4. Upto(h, k)
    BY <2>3
  <2> HIDE DEF Upto, h
  <2>5. QED
    BY <1>1, <1>4, <2>4
<1>5. L \in T
  <2>1. \A k \in 0 .. L : k \in T
    <3> HIDE DEF T
    <3> QED
      BY <1>1, <1>3, <1>4, CountingUp
  <2>2. QED
    BY <1>1, <2>1
<1>6. Upto(after, L)
  <2>1. PICK g : Upto(g, L)
    BY <1>5
  <2>2. QED
    BY <2>1
<1>7. QED
  BY <1>2, <1>6 DEF L, here

LEMMA LocalFirst ==
  ASSUME WinInv(win), NEW word \in Words, NEW onDisk
  PROVE  LET t == LookupLocal(Begin(word), word, onDisk)
         IN  Fresh(t, word) /\ t.requests = {} /\ t.expected = 0 /\ OnlyHere(t)
<1> DEFINE s == Begin(word)
           first == Piece("looking up", word)
           L == Len(NetDicts)
<1>1. Begun(s, word)
  BY BeginIsFresh
<1>2. first.source \notin Dicts /\ first.source # "server"
  BY FloatAssumption DEF FloatAssumption, Piece, OtherSources
<1> HIDE DEF s
<1>3. KeptTurn(0, s, word)
  <2>1. s.view = <<first>> /\ Fresh(s, word) /\ s.requests = {} /\ s.expected = 0
    BY <1>1 DEF Begun
  <2> HIDE DEF first
  <2>2. \A i \in DOMAIN s.view : s.view[i] = first
    BY <2>1
  <2>3. QED
    BY <1>2, <2>1, <2>2 DEF KeptTurn, OnlyHere
<1>4. ASSUME NEW form PROVE KeptTurn(L, AppendTextLocalDict(s, word, form, onDisk), word)
  <2> DEFINE here == IF form \in onDisk THEN AppendText(s, Piece("local", word)) ELSE s
  <2>1. PICK after :
          /\ after = [n \in 0 .. L |-> IF n = 0 THEN here
                                       ELSE AddKept(after[n - 1], NetDicts[n], word, form)]
          /\ AppendTextLocalDict(s, word, form, onDisk) = after[L]
    BY LocalDictLoop
  <2>2. KeptTurn(0, here, word)
    <3>1. CASE form \in onDisk
      <4>1. /\ Fresh(here, word) /\ here.requests = {} /\ here.expected = 0 /\ OnlyHere(here)
            /\ \A i \in DOMAIN here.view : here.view[i].source \notin Dicts
        BY <1>1, <3>1, AppendFresh
      <4> HIDE DEF here
      <4>2. QED
        BY <4>1 DEF KeptTurn
    <3>2. CASE form \notin onDisk
      BY <1>3, <3>2
    <3>3. QED
      BY <3>1, <3>2
  <2> HIDE DEF here
  <2>3. L \in Nat
    BY FloatAssumption DEF FloatAssumption
  <2>4. \A n \in 0 .. L :
          after[n] = IF n = 0 THEN here ELSE AddKept(after[n - 1], NetDicts[n], word, form)
    BY <2>1
  <2> DEFINE T == {n \in 0 .. L : KeptTurn(n, after[n], word)}
  <2>5. 0 \in T
    BY <2>2, <2>3, <2>4
  <2>6. ASSUME NEW k \in 1 .. L, k - 1 \in T PROVE k \in T
    <3>1. after[k] = AddKept(after[k - 1], NetDicts[k], word, form) /\ k \in 0 .. L
      BY <2>3, <2>4
    <3>2. KeptTurn(k, AddKept(after[k - 1], NetDicts[k], word, form), word)
      BY <2>6, KeptTurnTaken
    <3>3. QED
      BY <3>1, <3>2
  <2>7. \A k \in 0 .. L : k \in T
    <3> HIDE DEF T, L
    <3> QED
      BY <2>3, <2>5, <2>6, CountingUp
  <2>8. QED
    BY <2>1, <2>3, <2>7
<1>5. \/ LookupLocal(s, word, onDisk) = s
      \/ \E form : LookupLocal(s, word, onDisk) = AppendTextLocalDict(s, word, form, onDisk)
  BY DEF LookupLocal
<1>6. QED
  BY <1>3, <1>4, <1>5 DEF KeptTurn, s

(* How every lookup closes. *)
LEMMA EndCloses ==
  ASSUME NEW word, NEW s, Fresh(s, word)
  PROVE  LET t == End(s)
         IN  /\ WinInv(t) /\ About(t) /\ ~ t.building /\ LookingUp(t)
             /\ t.requests = s.requests /\ t.expected = s.expected /\ t.QueryingWord = word
<1> DEFINE u == DoneLookup(s)
           t == EndIfGotAll(u)
<1>1. /\ s \in WinSet /\ Placed(s) /\ Timed(s) /\ Distinct(s) /\ NoneTwice(s) /\ About(s)
      /\ s.QueryingWord = word /\ s.content_state = "Waiting"
  BY DEF Fresh, WinInv
<1>2. /\ u \in WinSet /\ ~ u.building /\ u.requests = s.requests /\ u.expected = s.expected
      /\ u.QueryingWord = word /\ u.content_state = "Waiting"
  BY <1>1 DEF DoneLookup, WinSet
<1>3. /\ u.view = s.view /\ u.placed = s.placed /\ u.visible = s.visible
      /\ u.window_positioned = s.window_positioned /\ u.timer = s.timer
      /\ u.have_real_content = s.have_real_content
  BY <1>1 DEF DoneLookup, WinSet
<1> HIDE DEF u
<1>4. WinInv(u) /\ About(u)
  BY <1>1, <1>2, <1>3 DEF WinInv, Placed, Timed, Distinct, NoneTwice, About
<1>5. WinInv(t) /\ SameLookup(u, t) /\ About(t) /\ LookingUp(t)
  BY <1>2, <1>4, EndIfGotAllKeeps
<1>6. End(s) = t
  BY DEF End, u
<1> HIDE DEF t
<1>7. QED
  BY <1>2, <1>5, <1>6 DEF SameLookup

(* The whole of a lookup in the network dictionaries, when the server was   *)
(* not asked, has answered already, or is to answer under the number seq.  *)
LEMMA LookupMade ==
  ASSUME NEW word \in Words, NEW seq, NEW s, Fresh(s, word), s.requests = {}, s.expected = seq,
         \A i \in DOMAIN s.view : s.view[i].source \in Dicts => s.view[i].kept
  PROVE  LET t == End(LookupNetDict(s, word))
         IN  /\ WinInv(t) /\ About(t) /\ ~ t.building /\ LookingUp(t)
             /\ t.expected = seq /\ t.QueryingWord = word
             /\ \A q \in t.requests :
                  \E d \in Dicts : q = <<d, word>> /\ ~ IsCached(netcache[d], word)
<1> DEFINE u == LookupNetDict(s, word)
           t == End(u)
<1>1. Turn(0, s, word, seq)
  BY DEF Turn
<1>2. Turn(Len(NetDicts), u, word, seq)
  BY <1>1, AllAsked
<1> HIDE DEF u
<1>3. /\ WinInv(t) /\ About(t) /\ ~ t.building /\ LookingUp(t)
      /\ t.requests = u.requests /\ t.expected = seq /\ t.QueryingWord = word
  BY <1>2, EndCloses DEF Turn
<1> HIDE DEF t
<1>4. \A q \in u.requests :
        \E d \in Dicts : q = <<d, word>> /\ ~ IsCached(netcache[d], word)
  BY <1>2, NetDictsAreDicts DEF Turn
<1>5. QED
  BY <1>3, <1>4 DEF t, u

-----------------------------------------------------------------------------
(* The texts of commands. *)
Texts == {SelectQuery(w) : w \in Words} \cup UNION {{b[i] : i \in DOMAIN b} : b \in Offers}

(* What waits at the client waits under numbers that were given. *)
Entries(n) == [seq : 1 .. n - 1, text : Texts]

QueueTyped ==
  /\ number \in Nat \ {0}
  /\ waiting \in Seq(Entries(number))

(* The number that is expected was given to the command that asks for the   *)
(* word in the window, unless a tip took the word's place.                 *)
Awaited ==
  win.expected # 0 =>
    /\ win.expected < number
    /\ \A i \in DOMAIN waiting :
         waiting[i].seq = win.expected =>
           \E w \in Words : /\ waiting[i].text = SelectQuery(w)
                            /\ ~ tipped => w = win.QueryingWord

Requests == [dict : Dicts, word : Words, at : Nat]

IInv ==
  /\ QueueTyped
  /\ WinInv(win) /\ ~ win.building /\ LookingUp(win)
  /\ netcache \in [Dicts -> Pool(NetPoolSize, Words, NetData)]
  /\ asked \subseteq Requests /\ lookups \in Nat
  /\ ~ tipped => About(win)
  /\ Awaited
  /\ ExpectedIsComing

-----------------------------------------------------------------------------
(* The client.  Nothing that waits turns into something else, and what is   *)
(* added waits under a new number.                                         *)
QueueStep ==
  /\ QueueTyped' /\ number <= number'
  /\ \A j \in DOMAIN waiting' :
       waiting'[j].seq < number => \E i \in DOMAIN waiting : waiting[i] = waiting'[j]

LEMMA GivenBefore ==
  ASSUME NEW a \in Nat, NEW b \in Nat, a <= b
  PROVE  1 .. a - 1 \subseteq 1 .. b - 1
OBVIOUS

LEMMA SeqOfMore ==
  ASSUME NEW S, NEW T, S \subseteq T, NEW s \in Seq(S)
  PROVE  s \in Seq(T) /\ Len(s) \in Nat /\ DOMAIN s = 1 .. Len(s) /\ \A i \in 1 .. Len(s) : s[i] \in S
OBVIOUS

LEMMA AfterTheFirst ==
  ASSUME NEW S, NEW s \in Seq(S), s # <<>>
  PROVE  /\ Tail(s) \in Seq(S)
         /\ \A j \in DOMAIN Tail(s) : j + 1 \in DOMAIN s /\ Tail(s)[j] = s[j + 1]
OBVIOUS

LEMMA Concatenated ==
  ASSUME NEW S, NEW s \in Seq(S), NEW u \in Seq(S)
  PROVE  /\ s \o u \in Seq(S) /\ DOMAIN (s \o u) = 1 .. Len(s) + Len(u)
         /\ \A j \in 1 .. Len(s) : (s \o u)[j] = s[j]
         /\ \A i \in 1 .. Len(u) : (s \o u)[Len(s) + i] = u[i]
OBVIOUS

(* A batch is taken: each command of it waits, under the number that is     *)
(* its own, or is answered under the number 0.                             *)
LEMMA TakeGives ==
  ASSUME QueueTyped, NEW batch \in Seq(Texts), Take(batch)
  PROVE  /\ QueueStep /\ number + Len(batch) <= number'
         /\ \A i \in DOMAIN waiting : \E j \in DOMAIN waiting' : waiting'[j] = waiting[i]
         /\ \A i \in DOMAIN emitted' :
              emitted'[i].seq = 0 /\ \E k \in 1 .. Len(batch) : emitted'[i].text = batch[k]
         /\ emitted' # <<>> => 1 \in DOMAIN emitted'
         /\ \A j \in DOMAIN waiting' :
              waiting'[j].seq >= number =>
                \E k \in 1 .. Len(batch) :
                  waiting'[j].seq = number + k - 1 /\ waiting'[j].text = batch[k]
         /\ emitted' = <<>> =>
              \A k \in 1 .. Len(batch) :
                \E j \in DOMAIN waiting' : waiting'[j].seq = number + k - 1
<1> DEFINE n == Len(batch)
           more(miss) == [i \in 1 .. Len(miss) |-> Waiting(number + miss[i] - 1, batch[miss[i]])]
<1>1. n \in Nat /\ \A k \in 1 .. n : batch[k] \in Texts
  OBVIOUS
<1>2. number \in Nat \ {0} /\ number' \in Nat \ {0} /\ number + n <= number'
  BY <1>1, FloatAssumption DEF FloatAssumption, Take, Numbers, QueueTyped
<1>3. PICK H \in SUBSET (1 .. n) :
        /\ \E miss \in Ascending((1 .. n) \ H, n) : waiting' = waiting \o more(miss)
        /\ \E hit \in Ascending(H, n), repeated \in [H -> kept] :
             emitted' = [i \in 1 .. Len(hit) |->
                           Emission(0, batch[hit[i]], repeated[hit[i]].data)]
  BY DEF Take
<1>4. PICK miss \in Ascending((1 .. n) \ H, n) : waiting' = waiting \o more(miss)
  BY <1>3
<1>5. PICK hit \in Ascending(H, n), repeated \in [H -> kept] :
        emitted' = [i \in 1 .. Len(hit) |-> Emission(0, batch[hit[i]], repeated[hit[i]].data)]
  BY <1>3
<1>6. /\ Len(miss) \in Nat /\ DOMAIN miss = 1 .. Len(miss)
      /\ \A i \in 1 .. Len(miss) : miss[i] \in (1 .. n) \ H
  BY <1>1, AscendingPicks
<1>7. /\ Len(hit) \in Nat /\ DOMAIN hit = 1 .. Len(hit)
      /\ \A i \in 1 .. Len(hit) : hit[i] \in H
  BY <1>1, AscendingPicks
<1>8. (\A k \in (1 .. n) \ H : \E i \in 1 .. Len(miss) : miss[i] = k)
      /\ (\A k \in H : \E i \in 1 .. Len(hit) : hit[i] = k)
  BY <1>6, <1>7 DEF Ascending
<1> DEFINE added == more(miss)
<1>9. /\ Len(added) = Len(miss) /\ DOMAIN added = 1 .. Len(miss)
      /\ \A i \in 1 .. Len(miss) : /\ miss[i] \in 1 .. n
                                  /\ added[i] = [seq |-> number + miss[i] - 1,
                                                 text |-> batch[miss[i]]]
  BY <1>6 DEF Waiting
<1> HIDE DEF added
<1> DEFINE Before == Entries(number)
           After  == Entries(number')
<1>10. /\ Before \subseteq After
       /\ (\A e \in Before : e.seq < number) /\ \A e \in After : e.seq \in Nat
       /\ \A i \in 1 .. Len(miss) : added[i] \in After /\ added[i].seq >= number
  <2>1. 1 .. number - 1 \subseteq 1 .. number' - 1
    <3>1. number \in Nat /\ number' \in Nat /\ number <= number'
      BY <1>1, <1>2
    <3>2. QED
      BY <3>1, GivenBefore
  <2>2. /\ Before \subseteq After
        /\ (\A e \in Before : e.seq < number) /\ \A e \in After : e.seq \in Nat
    BY <1>2, <2>1 DEF Entries
  <2>3. ASSUME NEW i \in 1 .. Len(miss) PROVE added[i] \in After /\ added[i].seq >= number
    <3>1. /\ batch[miss[i]] \in Texts /\ number + miss[i] - 1 \in 1 .. number' - 1
          /\ number + miss[i] - 1 >= number
      BY <1>1, <1>2, <1>9
    <3>2. QED
      BY <1>9, <3>1 DEF Entries
  <2>4. QED
    BY <2>2, <2>3
<1>11. waiting \in Seq(Before)
  BY DEF QueueTyped
<1> HIDE DEF Before, After
<1>12. waiting' = waiting \o added
  BY <1>4 DEF added
<1>13. added \in Seq(After)
  <2>1. added = [i \in 1 .. Len(miss) |-> added[i]]
    BY <1>9 DEF added
  <2>2. QED
    BY <1>6, <1>10, <2>1
<1>14. /\ waiting \in Seq(After) /\ Len(waiting) \in Nat /\ DOMAIN waiting = 1 .. Len(waiting)
       /\ \A i \in DOMAIN waiting : waiting[i] \in Before
  BY <1>10, <1>11, SeqOfMore
<1>15. /\ waiting' \in Seq(After) /\ DOMAIN waiting' = 1 .. Len(waiting) + Len(miss)
       /\ \A j \in DOMAIN waiting : waiting'[j] = waiting[j]
       /\ \A i \in 1 .. Len(miss) : waiting'[Len(waiting) + i] = added[i]
       /\ \A j \in DOMAIN waiting' : waiting'[j].seq \in Nat
  <2>1. /\ waiting \o added \in Seq(After)
        /\ DOMAIN (waiting \o added) = 1 .. Len(waiting) + Len(added)
        /\ \A j \in 1 .. Len(waiting) : (waiting \o added)[j] = waiting[j]
        /\ \A i \in 1 .. Len(added) : (waiting \o added)[Len(waiting) + i] = added[i]
    BY <1>13, <1>14, Concatenated
  <2>2. \A j \in DOMAIN (waiting \o added) : (waiting \o added)[j] \in After
    BY <2>1
  <2>3. QED
    BY <1>9, <1>10, <1>12, <1>14, <2>1, <2>2
<1>16. \A j \in DOMAIN waiting' : j \in DOMAIN waiting \/ j - Len(waiting) \in 1 .. Len(miss)
  BY <1>6, <1>14, <1>15
<1>17. ASSUME NEW j \in DOMAIN waiting'
       PROVE  \/ waiting'[j].seq < number /\ \E i \in DOMAIN waiting : waiting[i] = waiting'[j]
              \/ waiting'[j].seq >= number /\ \E i \in 1 .. Len(miss) : waiting'[j] = added[i]
  <2>1. CASE j \in DOMAIN waiting
    BY <1>10, <1>14, <1>15, <2>1
  <2>2. CASE j - Len(waiting) \in 1 .. Len(miss)
    <3>1. j = Len(waiting) + (j - Len(waiting))
      BY <1>14, <1>15
    <3>2. QED
      BY <1>10, <1>15, <2>2, <3>1
  <2>3. QED
    BY <1>16, <2>1, <2>2
<1>18. QueueStep
  <2>1. QueueTyped'
    BY <1>2, <1>15 DEF QueueTyped, After
  <2>2. \A j \in DOMAIN waiting' : waiting'[j].seq < number /\ waiting'[j].seq >= number => FALSE
    BY <1>2, <1>15
  <2>3. QED
    BY <1>1, <1>2, <1>17, <2>1, <2>2 DEF QueueStep
<1>19. /\ \A i \in DOMAIN emitted' :
            emitted'[i].seq = 0 /\ \E k \in 1 .. n : emitted'[i].text = batch[k]
       /\ DOMAIN emitted' = 1 .. Len(hit)
  BY <1>5, <1>7 DEF Emission
<1>20. emitted' # <<>> => 1 \in DOMAIN emitted'
  BY <1>5, <1>7
<1>21. ASSUME NEW j \in DOMAIN waiting', waiting'[j].seq >= number
       PROVE  \E k \in 1 .. n : waiting'[j].seq = number + k - 1 /\ waiting'[j].text = batch[k]
  <2>1. waiting'[j].seq \in Nat
    BY <1>15
  <2>2. PICK i \in 1 .. Len(miss) : waiting'[j] = added[i]
    BY <1>2, <1>17, <1>21, <2>1
  <2>3. QED
    BY <1>9, <2>2
<1>22. ASSUME emitted' = <<>>, NEW k \in 1 .. n
       PROVE  \E j \in DOMAIN waiting' : waiting'[j].seq = number + k - 1
  <2>1. k \notin H
    BY <1>8, <1>19, <1>22
  <2>2. PICK i \in 1 .. Len(miss) : miss[i] = k
    BY <1>8, <2>1
  <2>3. Len(waiting) + i \in DOMAIN waiting'
    BY <1>6, <1>14, <1>15
  <2>4. added[i].seq = number + k - 1
    BY <1>9, <2>2
  <2>5. QED
    BY <1>15, <2>3, <2>4
<1>23. \A i \in DOMAIN waiting : i \in DOMAIN waiting' /\ waiting'[i] = waiting[i]
  BY <1>6, <1>14, <1>15
<1>24. QED
  BY <1>2, <1>18, <1>19, <1>20, <1>21, <1>22, <1>23

(* Without a new batch nothing new waits. *)
LEMMA NothingTaken ==
  ASSUME QueueTyped,
         \/ waiting' = waiting
         \/ waiting # <<>> /\ waiting' \in {Tail(waiting), <<>>},
         number' = number \/ (number' \in Nat /\ number <= number')
  PROVE  /\ QueueStep
         /\ \A j \in DOMAIN waiting' : \E i \in DOMAIN waiting : waiting[i] = waiting'[j]
<1> DEFINE Before == Entries(number)
           After  == Entries(number')
<1>1. number' \in Nat \ {0} /\ number <= number' /\ number \in Nat
  BY DEF QueueTyped
<1>2. waiting \in Seq(Before)
  BY DEF QueueTyped
<1>3. Before \subseteq After
  <2>1. 1 .. number - 1 \subseteq 1 .. number' - 1
    BY <1>1, GivenBefore
  <2>2. QED
    BY <2>1 DEF Entries
<1> HIDE DEF Before, After
<1>4. waiting \in Seq(After) /\ DOMAIN waiting = 1 .. Len(waiting) /\ Len(waiting) \in Nat
  BY <1>2, <1>3, SeqOfMore
<1>5. /\ waiting' \in Seq(After)
      /\ \A j \in DOMAIN waiting' : \E i \in DOMAIN waiting : waiting[i] = waiting'[j]
  <2>1. CASE waiting' = waiting
    BY <1>4, <2>1
  <2>2. CASE waiting' = <<>>
    BY <2>2
  <2>3. CASE waiting # <<>> /\ waiting' = Tail(waiting)
    <3>1. /\ Tail(waiting) \in Seq(After)
          /\ \A j \in DOMAIN Tail(waiting) : /\ j + 1 \in DOMAIN waiting
                                            /\ Tail(waiting)[j] = waiting[j + 1]
      BY <1>4, <2>3, AfterTheFirst
    <3>2. QED
      BY <2>3, <3>1
  <2>4. QED
    BY <2>1, <2>2, <2>3
<1>6. QED
  BY <1>1, <1>5 DEF QueueStep, QueueTyped, After

(* A step that asks the server for nothing keeps what it says of the command *)
(* expected.                                                               *)
LEMMA AwaitedKept ==
  ASSUME QueueTyped, QueueStep, WinInv(win), Awaited, win'.expected \in {0, win.expected},
         tipped' \/ (~ tipped /\ win'.QueryingWord = win.QueryingWord)
  PROVE  Awaited'
<1>1. number \in Nat /\ number' \in Nat /\ number <= number'
  BY DEF QueueTyped, QueueStep
<1>2. SUFFICES ASSUME win'.expected # 0
               PROVE  /\ win'.expected < number'
                      /\ \A i \in DOMAIN waiting' :
                           waiting'[i].seq = win'.expected =>
                             \E w \in Words : /\ waiting'[i].text = SelectQuery(w)
                                              /\ ~ tipped' => w = win'.QueryingWord
  BY DEF Awaited, SelectQuery
<1>3. win'.expected = win.expected /\ win.expected < number /\ win.expected \in Nat
  BY <1>2 DEF Awaited, WinInv, WinSet
<1>4. ASSUME NEW i \in DOMAIN waiting', waiting'[i].seq = win'.expected
      PROVE  \E w \in Words : /\ waiting'[i].text = SelectQuery(w)
                              /\ ~ tipped' => w = win'.QueryingWord
  <2>1. PICK j \in DOMAIN waiting : waiting[j] = waiting'[i]
    BY <1>3, <1>4 DEF QueueStep
  <2>2. QED
    BY <1>2, <1>3, <1>4, <2>1 DEF Awaited
<1>5. win'.expected < number'
  BY <1>1, <1>3
<1>6. QED
  BY <1>4, <1>5

-----------------------------------------------------------------------------
(* The actions. *)

(* A lookup that asks the dictionaries on the disk only. *)
LEMMA LocalLookupKeeps ==
  ASSUME IInv, NEW word, NEW s, Fresh(s, word), s.requests = {}, s.expected = 0, LocalLookup(s)
  PROVE  IInv'
<1>1. WinInv(win) /\ QueueTyped /\ Awaited /\ ExpectedIsComing
  BY DEF IInv
<1>4. /\ win' = End(s) /\ waiting' = waiting /\ number' = number /\ netcache' = netcache
      /\ asked' = asked /\ lookups' = lookups + 1
  BY DEF LocalLookup, newLookup, quietQueue
<1>5. /\ WinInv(win') /\ About(win') /\ ~ win'.building /\ LookingUp(win')
      /\ win'.requests = {} /\ win'.expected = 0
  BY <1>4, EndCloses
<1>6. QueueTyped'
  BY <1>1, <1>4, NothingTaken DEF QueueStep
<1>7. Awaited' /\ ExpectedIsComing'
  BY <1>5 DEF Awaited, ExpectedIsComing
<1>8. QED
  BY <1>4, <1>5, <1>6, <1>7 DEF IInv

(* The number the client gave is expected. *)
LEMMA ServerAsked ==
  ASSUME NEW word, NEW s, Fresh(s, word), NEW seq \in Nat,
         \A i \in DOMAIN s.view : s.view[i].source # "server"
  PROVE  LET t == SendStarDictRequest(s, seq)
         IN  /\ Fresh(t, word) /\ t.expected = seq /\ t.requests = s.requests
             /\ t.view = s.view
<1> DEFINE t == SendStarDictRequest(s, seq)
<1>1. /\ s \in WinSet /\ Placed(s) /\ Timed(s) /\ Distinct(s) /\ NoneTwice(s) /\ About(s)
      /\ s.building /\ s.QueryingWord = word /\ s.content_state = "Waiting"
  BY DEF Fresh, WinInv
<1>2. /\ t \in WinSet /\ t.building /\ t.requests = s.requests /\ t.expected = seq
      /\ t.QueryingWord = word /\ t.content_state = "Waiting"
  BY <1>1 DEF SendStarDictRequest, WinSet
<1>3. /\ t.view = s.view /\ t.placed = s.placed /\ t.visible = s.visible
      /\ t.window_positioned = s.window_positioned /\ t.timer = s.timer
      /\ t.have_real_content = s.have_real_content
  BY <1>1 DEF SendStarDictRequest, WinSet
<1> HIDE DEF t
<1>4. WinInv(t) /\ About(t)
  BY <1>1, <1>2, <1>3 DEF WinInv, Placed, Timed, Distinct, NoneTwice, About
<1>5. QED
  BY <1>2, <1>3, <1>4 DEF Fresh, t

(* A lookup that asks them all: the server stays silent, answers at once or *)
(* is to answer later.                                                     *)
LEMMA SimpleLookupKeeps ==
  ASSUME IInv, NEW word \in Words, NEW onDisk, SimpleLookup(word, onDisk)
  PROVE  IInv'
<1> DEFINE here  == LookupLocal(Begin(word), word, onDisk)
           there == IF emitted' = <<>> THEN SendStarDictRequest(here, number)
                                       ELSE OnLookupEnd(here, emitted'[1])
           batch == <<SelectQuery(word)>>
           Sent(d) == [dict |-> d, word |-> word, at |-> lookups']
<1>1. WinInv(win) /\ QueueTyped /\ lookups \in Nat /\ asked \subseteq Requests
  BY DEF IInv
<1>2. /\ Fresh(here, word) /\ here.requests = {} /\ here.expected = 0
      /\ \A i \in DOMAIN here.view : /\ here.view[i].source # "server"
                                     /\ here.view[i].source \in Dicts => here.view[i].kept
  BY <1>1, LocalFirst DEF OnlyHere
<1>3. /\ lookups' = lookups + 1 /\ netcache' = netcache
      /\ asked' = asked \cup {Sent(d) : d \in {e \in Dicts : ~ IsCached(netcache[e], word)}}
  BY DEF SimpleLookup, newLookup
<1>4. \/ quietQueue /\ win' = End(LookupNetDict(here, word))
      \/ Take(batch) /\ win' = End(LookupNetDict(there, word))
  BY DEF SimpleLookup
<1> HIDE DEF here
(* How the server is asked. *)
<1>5. ASSUME Take(batch)
      PROVE  /\ QueueStep /\ number + 1 <= number'
             /\ emitted' # <<>> => emitted'[1].seq = 0 /\ emitted'[1].text = SelectQuery(word)
             /\ \A j \in DOMAIN waiting' :
                  waiting'[j].seq = number => waiting'[j].text = SelectQuery(word)
             /\ emitted' = <<>> => \E j \in DOMAIN waiting' : waiting'[j].seq = number
  <2>1. batch \in Seq(Texts) /\ Len(batch) = 1 /\ batch[1] = SelectQuery(word)
    <3>1. SelectQuery(word) \in Texts
      BY DEF Texts
    <3>2. QED
      BY <3>1
  <2> HIDE DEF batch
  <2>2. number \in Nat /\ number + 1 - 1 = number /\ number >= number /\ 1 .. 1 = {1}
    BY <1>1 DEF QueueTyped
  <2> DEFINE n == Len(batch)
  <2>3. /\ QueueStep /\ number + n <= number'
        /\ \A i \in DOMAIN emitted' :
             emitted'[i].seq = 0 /\ \E k \in 1 .. n : emitted'[i].text = batch[k]
        /\ emitted' # <<>> => 1 \in DOMAIN emitted'
        /\ \A j \in DOMAIN waiting' :
             waiting'[j].seq >= number =>
               \E k \in 1 .. n : /\ waiting'[j].seq = number + k - 1
                                /\ waiting'[j].text = batch[k]
        /\ emitted' = <<>> =>
             \A k \in 1 .. n :
               \E j \in DOMAIN waiting' : waiting'[j].seq = number + k - 1
    BY <1>1, <1>5, <2>1, TakeGives
  <2>4. n = 1
    BY <2>1
  <2> HIDE DEF n
  <2>5. QED
    BY <2>1, <2>2, <2>3, <2>4
<1> DEFINE seq == IF emitted' = <<>> THEN number ELSE 0
<1>6. ASSUME Take(batch)
      PROVE  /\ Fresh(there, word) /\ there.requests = {} /\ there.expected = seq
             /\ \A i \in DOMAIN there.view : there.view[i].source \in Dicts => there.view[i].kept
  <2>1. CASE emitted' = <<>>
    <3>1. there = SendStarDictRequest(here, number) /\ number \in Nat /\ seq = number
      BY <1>1, <2>1 DEF QueueTyped
    <3>2. /\ Fresh(there, word) /\ there.expected = number /\ there.requests = here.requests
          /\ there.view = here.view
      BY <1>2, <3>1, ServerAsked
    <3>3. QED
      BY <1>2, <3>1, <3>2
  <2>2. CASE emitted' # <<>>
    <3> DEFINE answer == emitted'[1]
    <3>1. there = OnLookupEnd(here, answer) /\ seq = 0
      BY <2>2
    <3>2. /\ answer.seq = 0 /\ answer.text.key = word
      BY <1>5, <1>6, <2>2 DEF SelectQuery
    <3>3. /\ WinInv(here) /\ About(here) /\ here.building /\ here.QueryingWord = word
          /\ here.content_state = "Waiting"
      BY <1>2 DEF Fresh
    <3> HIDE DEF answer
    <3> DEFINE t == OnLookupEnd(here, answer)
    <3>4. /\ WinInv(t) /\ t.requests = here.requests /\ t.building = here.building
          /\ t.QueryingWord = here.QueryingWord
          /\ t.expected = IF answer.seq = here.expected THEN 0 ELSE here.expected
          /\ About(here) /\ (answer.seq \in {0, here.expected} => answer.text.key = here.QueryingWord)
               => About(t)
          /\ here.building => /\ t.content_state = here.content_state
                              /\ \A i \in DOMAIN t.view :
                                   \/ t.view[i] = Piece("server", answer.text.key)
                                   \/ \E j \in DOMAIN here.view : t.view[i] = here.view[j]
      <4>1. answer.seq \in Nat /\ (answer.seq \in {0, here.expected} => answer.text.key \in Words \cup {Nil})
        BY <3>2
      <4>2. answer.seq = 0 => /\ here.expected = 0
                              /\ \A i \in DOMAIN here.view : here.view[i].source # "server"
        BY <1>2
      <4>3. WinInv(here)
        BY <3>3
      <4>4. QED
        BY <4>1, <4>2, <4>3, OnLookupEndKeeps
    <3> HIDE DEF t
    <3>5. \A i \in DOMAIN t.view : t.view[i].source \in Dicts => t.view[i].kept
      <4>1. Piece("server", answer.text.key).source \notin Dicts
        BY FloatAssumption DEF FloatAssumption, Piece, OtherSources
      <4>2. QED
        BY <1>2, <3>3, <3>4, <4>1
    <3>6. QED
      BY <1>2, <3>1, <3>2, <3>3, <3>4, <3>5 DEF Fresh, t
  <2>3. QED
    BY <2>1, <2>2
<1> HIDE DEF there, batch
<1> DEFINE what == IF quietQueue /\ win' = End(LookupNetDict(here, word)) THEN 0 ELSE seq
<1>7. /\ WinInv(win') /\ About(win') /\ ~ win'.building /\ LookingUp(win')
      /\ win'.expected = what /\ win'.QueryingWord = word
      /\ \A q \in win'.requests :
           \E d \in Dicts : q = <<d, word>> /\ ~ IsCached(netcache[d], word)
  <2>1. CASE quietQueue /\ win' = End(LookupNetDict(here, word))
    BY <1>2, <2>1, LookupMade
  <2>2. CASE ~ (quietQueue /\ win' = End(LookupNetDict(here, word)))
    <3>1. Take(batch) /\ win' = End(LookupNetDict(there, word)) /\ what = seq
      BY <1>4, <2>2
    <3>2. /\ Fresh(there, word) /\ there.requests = {} /\ there.expected = seq
          /\ \A i \in DOMAIN there.view : there.view[i].source \in Dicts => there.view[i].kept
      BY <1>6, <3>1
    <3> HIDE DEF seq, what
    <3>3. QED
      BY <3>1, <3>2, LookupMade
  <2>3. QED
    BY <2>1, <2>2
<1>8. QueueTyped'
  <2>1. CASE quietQueue
    BY <1>1, <2>1, NothingTaken DEF quietQueue, QueueStep
  <2>2. CASE ~ quietQueue
    BY <1>4, <1>5, <2>2 DEF QueueStep
  <2>3. QED
    BY <2>1, <2>2
<1>9. ASSUME win'.expected # 0
      PROVE  Take(batch) /\ emitted' = <<>> /\ win'.expected = number
  BY <1>4, <1>7, <1>9
<1>10. Awaited'
  <2> SUFFICES ASSUME win'.expected # 0
               PROVE  /\ win'.expected < number'
                      /\ \A i \in DOMAIN waiting' :
                           waiting'[i].seq = win'.expected =>
                             \E w \in Words :
                               waiting'[i].text = SelectQuery(w) /\ w = win'.QueryingWord
    BY DEF Awaited, SelectQuery
  <2>1. /\ Take(batch) /\ win'.expected = number /\ number + 1 <= number'
        /\ \A j \in DOMAIN waiting' :
             waiting'[j].seq = number => waiting'[j].text = SelectQuery(word)
    BY <1>5, <1>9
  <2>2. number \in Nat /\ number' \in Nat
    BY <1>1, <1>8 DEF QueueTyped
  <2>3. win'.expected < number'
    BY <2>1, <2>2
  <2>4. QED
    BY <1>7, <2>1, <2>3
<1>11. asked' \subseteq Requests /\ lookups' \in Nat
  BY <1>1, <1>3 DEF Requests
<1>12. ExpectedIsComing'
  <2>1. ASSUME win'.expected # 0
        PROVE  \E i \in DOMAIN waiting' : waiting'[i].seq = win'.expected
    BY <1>5, <1>9, <2>1
  <2>2. ASSUME NEW q \in win'.requests PROVE \E r \in asked' : q = <<r.dict, r.word>>
    <3>1. PICK d \in Dicts : q = <<d, word>> /\ ~ IsCached(netcache[d], word)
      BY <1>7
    <3>2. Sent(d) \in asked' /\ Sent(d).dict = d /\ Sent(d).word = word
      BY <1>3, <3>1
    <3>3. QED
      BY <3>1, <3>2
  <2>3. QED
    BY <2>1, <2>2 DEF ExpectedIsComing
<1>13. netcache' \in [Dicts -> Pool(NetPoolSize, Words, NetData)]
  BY <1>3 DEF IInv
<1>14. QED
  BY <1>7, <1>8, <1>10, <1>11, <1>12, <1>13 DEF IInv

(* An answer, to this window or another. *)
LEMMA ClientAnswersKeeps ==
  ASSUME IInv, ClientAnswers
  PROVE  IInv'
<1> DEFINE c == Head(waiting)
           answer == emitted'[1]
           told == emitted' # <<>> /\ emitted'[1].text.command = "SELECT_QUERY"
<1>1. /\ WinInv(win) /\ ~ win.building /\ LookingUp(win) /\ QueueTyped /\ Awaited
      /\ ExpectedIsComing /\ (~ tipped => About(win))
  BY DEF IInv
<1>2. /\ waiting # <<>> /\ waiting' \in {Tail(waiting), <<>>}
      /\ number' \in Nat /\ number <= number'
      /\ \/ emitted' = <<>>
         \/ \E d : emitted' = <<Emission(c.seq, c.text, d)>>
  <2>1. number + 0 = number
    BY <1>1 DEF QueueTyped
  <2>2. QED
    BY <2>1, FloatAssumption DEF FloatAssumption, QueueTyped, ClientAnswers, Answer, Numbers
<1>3. /\ win' = IF told THEN OnLookupEnd(win, answer) ELSE win
      /\ lost' = (lost \/ win.expected \in Dropped)
      /\ netcache' = netcache /\ asked' = asked /\ lookups' = lookups /\ tipped' = tipped
  BY DEF ClientAnswers
<1>4. /\ QueueStep
      /\ \A j \in DOMAIN waiting' : \E i \in DOMAIN waiting : waiting[i] = waiting'[j]
  BY <1>1, <1>2, NothingTaken
<1>5. /\ 1 \in DOMAIN waiting /\ c = waiting[1] /\ c.seq \in Nat \ {0}
  <2>1. waiting \in Seq(Entries(number)) /\ number \in Nat
    BY <1>1 DEF QueueTyped
  <2>2. 1 \in DOMAIN waiting /\ c = waiting[1] /\ waiting[1] \in Entries(number)
    BY <1>2, <2>1
  <2>3. QED
    BY <2>1, <2>2 DEF Entries
<1>6. c.seq = win.expected =>
        /\ c.text.command = "SELECT_QUERY" /\ c.text.key \in Words
        /\ ~ tipped => c.text.key = win.QueryingWord
  <2> SUFFICES ASSUME c.seq = win.expected
               PROVE  /\ c.text.command = "SELECT_QUERY" /\ c.text.key \in Words
                      /\ ~ tipped => c.text.key = win.QueryingWord
    OBVIOUS
  <2>1. win.expected # 0 /\ 1 \in DOMAIN waiting /\ waiting[1].seq = win.expected
    BY <1>5
  <2>2. PICK w \in Words : waiting[1].text = SelectQuery(w) /\ (~ tipped => w = win.QueryingWord)
    BY <1>1, <2>1 DEF Awaited
  <2>3. c.text.command = "SELECT_QUERY" /\ c.text.key = w
    BY <1>5, <2>2 DEF SelectQuery
  <2>4. QED
    BY <2>2, <2>3
<1> HIDE DEF c
<1>7. emitted' # <<>> => /\ answer.seq = c.seq /\ answer.text = c.text
                         /\ \A i \in DOMAIN emitted' : emitted'[i].seq = c.seq
  BY <1>2 DEF Emission
<1> HIDE DEF answer
<1>8. /\ WinInv(win') /\ ~ win'.building /\ LookingUp(win')
      /\ win'.requests = win.requests /\ win'.QueryingWord = win.QueryingWord
      /\ win'.expected = IF told /\ answer.seq = win.expected THEN 0 ELSE win.expected
      /\ ~ tipped => About(win')
  <2>1. CASE ~ told
    BY <1>1, <1>3, <2>1
  <2>2. CASE told
    <3>1. answer.seq \in Nat \ {0} /\ answer.text = c.text /\ answer.seq = c.seq
      BY <1>5, <1>7, <2>2
    <3>2. /\ answer.seq \in {0, win.expected} => answer.text.key \in Words \cup {Nil}
          /\ ~ tipped /\ answer.seq \in {0, win.expected} => answer.text.key = win.QueryingWord
      BY <1>6, <3>1
    <3>3. win' = OnLookupEnd(win, answer)
      BY <1>3, <2>2
    <3> HIDE DEF told
    <3>4. /\ WinInv(win') /\ win'.requests = win.requests /\ win'.building = win.building
          /\ win'.QueryingWord = win.QueryingWord
          /\ win'.expected = IF answer.seq = win.expected THEN 0 ELSE win.expected
          /\ About(win) /\ (answer.seq \in {0, win.expected} => answer.text.key = win.QueryingWord)
               => About(win')
          /\ ~ win.building /\ LookingUp(win) => LookingUp(win')
      <4>1. answer.seq \in Nat /\ (answer.seq = 0 => FALSE)
        BY <3>1
      <4>2. QED
        BY <1>1, <3>2, <3>3, <4>1, OnLookupEndKeeps
    <3>5. QED
      BY <1>1, <2>2, <3>2, <3>4
  <2>3. QED
    BY <2>1, <2>2
<1>9. Awaited'
  BY <1>1, <1>3, <1>4, <1>8, AwaitedKept
<1>10. ExpectedIsComing'
  <2> SUFFICES ASSUME ~ lost'
               PROVE  /\ win'.expected # 0 => \E i \in DOMAIN waiting' : waiting'[i].seq = win'.expected
                      /\ \A q \in win'.requests : \E r \in asked' : q = <<r.dict, r.word>>
    BY DEF ExpectedIsComing
  <2>1. ~ lost /\ win.expected \notin Dropped
    BY <1>3
  <2>2. ASSUME win'.expected # 0
        PROVE  \E i \in DOMAIN waiting' : waiting'[i].seq = win'.expected
    <3>1. win'.expected = win.expected /\ ~ (told /\ answer.seq = win.expected)
      BY <1>8, <2>2
    <3>2. win.expected \in {waiting[i].seq : i \in DOMAIN waiting}
      BY <1>1, <2>1, <2>2, <3>1 DEF ExpectedIsComing
    <3>3. \/ \E i \in DOMAIN waiting' : waiting'[i].seq = win.expected
          \/ \E i \in DOMAIN emitted' : emitted'[i].seq = win.expected
      BY <2>1, <3>2 DEF Dropped
    <3>4. ASSUME NEW i \in DOMAIN emitted', emitted'[i].seq = win.expected PROVE FALSE
      <4>1. emitted' # <<>>
        BY <3>4
      <4>2. c.seq = win.expected /\ answer.seq = c.seq /\ answer.text = c.text
        BY <1>7, <3>4, <4>1
      <4>3. told
        BY <1>6, <4>1, <4>2 DEF answer
      <4>4. QED
        BY <3>1, <4>2, <4>3
    <3>5. QED
      BY <3>1, <3>3, <3>4
  <2>3. QED
    BY <1>1, <1>3, <1>8, <2>1, <2>2 DEF ExpectedIsComing
<1>11. QED
  BY <1>1, <1>3, <1>4, <1>8, <1>9, <1>10 DEF IInv, QueueStep

(* The client loses the connection, and everything that waits with it. *)
LEMMA ClientDropsKeeps ==
  ASSUME IInv, ClientDrops
  PROVE  IInv'
<1>1. /\ WinInv(win) /\ QueueTyped /\ Awaited /\ ExpectedIsComing
  BY DEF IInv
<1>2. /\ waiting # <<>> /\ waiting' = <<>> /\ emitted' = <<>>
      /\ number' \in Nat /\ number <= number'
  <2>1. number + 0 = number
    BY <1>1 DEF QueueTyped
  <2>2. QED
    BY <2>1, FloatAssumption DEF FloatAssumption, QueueTyped, ClientDrops, Drop, Numbers
<1>3. /\ win' = win /\ netcache' = netcache /\ asked' = asked /\ lookups' = lookups
      /\ tipped' = tipped /\ lost' = (lost \/ win.expected \in Dropped)
  BY DEF ClientDrops
<1>4. QueueStep
  BY <1>1, <1>2, NothingTaken
<1>5. Awaited'
  BY <1>1, <1>3, <1>4, AwaitedKept
<1>6. ExpectedIsComing'
  <2>1. ASSUME ~ lost', win.expected # 0 PROVE FALSE
    <3>1. win.expected \in {waiting[i].seq : i \in DOMAIN waiting} /\ win.expected \notin Dropped
      BY <1>1, <1>3, <2>1 DEF ExpectedIsComing
    <3>2. DOMAIN waiting' = {} /\ DOMAIN emitted' = {}
      BY <1>2
    <3>3. QED
      BY <3>1, <3>2 DEF Dropped
  <2>2. QED
    BY <1>1, <1>3, <2>1 DEF ExpectedIsComing
<1>7. QED
  BY <1>3, <1>4, <1>5, <1>6 DEF IInv, QueueStep

(* What the other windows do with the client is not the lookup's business,  *)
(* nor is what hides the window and brings it back.                        *)
LEMMA OthersKeep ==
  ASSUME IInv, OthersUseClient
  PROVE  IInv'
<1>1. /\ WinInv(win) /\ QueueTyped /\ Awaited /\ ExpectedIsComing
  BY DEF IInv
<1>2. /\ win' = win /\ netcache' = netcache /\ asked' = asked /\ lookups' = lookups
      /\ lost' = lost /\ tipped' = tipped
  BY DEF OthersUseClient, floatVars
<1>3. QueueStep /\ \A i \in DOMAIN waiting : \E j \in DOMAIN waiting' : waiting'[j] = waiting[i]
  <2>1. CASE \E batch \in Offers : Take(batch)
    <3>1. PICK batch \in Offers : Take(batch)
      BY <2>1
    <3>2. batch \in Seq(Texts)
      <4>1. {batch[i] : i \in DOMAIN batch} \subseteq Texts
        BY DEF Texts
      <4>2. batch \in Seq({batch[i] : i \in DOMAIN batch})
        BY FloatAssumption DEF FloatAssumption
      <4>3. QED
        BY <4>1, <4>2, SeqOfMore
    <3>3. QED
      BY <1>1, <3>1, <3>2, TakeGives
  <2>2. CASE Outdate
    <3>1. number + 0 = number
      BY <1>1 DEF QueueTyped
    <3>2. waiting' = waiting /\ number' \in Nat /\ number <= number'
      BY <1>1, <2>2, <3>1, FloatAssumption DEF FloatAssumption, QueueTyped, Outdate, Numbers
    <3>3. QED
      BY <1>1, <3>2, NothingTaken
  <2>3. QED
    BY <2>1, <2>2 DEF OthersUseClient
<1>4. Awaited'
  BY <1>1, <1>2, <1>3, AwaitedKept
<1>5. ExpectedIsComing'
  BY <1>1, <1>2, <1>3 DEF ExpectedIsComing
<1>6. QED
  BY <1>2, <1>3, <1>4, <1>5 DEF IInv, QueueStep

LEMMA WindowEventKeeps ==
  ASSUME IInv, WindowEvent
  PROVE  IInv'
<1>1. /\ WinInv(win) /\ ~ win.building /\ LookingUp(win) /\ QueueTyped /\ Awaited
      /\ ExpectedIsComing /\ (~ tipped => About(win))
  BY DEF IInv
<1>2. /\ waiting' = waiting /\ number' = number /\ netcache' = netcache /\ asked' = asked
      /\ lookups' = lookups /\ lost' = lost
  BY DEF WindowEvent, quietQueue
<1>3. /\ WinInv(win') /\ win'.building = win.building /\ win'.requests = win.requests
      /\ win'.expected = win.expected /\ win'.content_state = win.content_state
      /\ \/ tipped'
         \/ ~ tipped /\ win'.QueryingWord = win.QueryingWord /\ About(win')
  <2>1. CASE \E word \in Words : win' = ShowPangoTips(win, word) /\ tipped' = TRUE
    BY <1>1, <2>1, TipKeeps
  <2>2. CASE /\ \/ ~ win.visible /\ win' = Show(win)
                \/ win' = Hide(win)
                \/ win' = LookupRunningTimeOut(win)
             /\ tipped' = tipped
    <3>1. /\ WinInv(win') /\ SameLookup(win, win') /\ win'.content_state = win.content_state
          /\ About(win) => About(win')
      BY <1>1, <2>2, HiddenOrShown
    <3>2. QED
      BY <1>1, <2>2, <3>1 DEF SameLookup
  <2>3. QED
    BY <2>1, <2>2 DEF WindowEvent
<1>4. QueueStep
  BY <1>1, <1>2, NothingTaken
<1>5. Awaited'
  BY <1>1, <1>3, <1>4, AwaitedKept
<1>6. LookingUp(win') /\ ExpectedIsComing'
  BY <1>1, <1>2, <1>3 DEF LookingUp, ExpectedIsComing
<1>7. QED
  BY <1>1, <1>2, <1>3, <1>4, <1>5, <1>6 DEF IInv, QueueStep

-----------------------------------------------------------------------------
(* The network dictionaries. *)

LEMMA SaveRespKeeps ==
  ASSUME IInv, NEW dict \in Dicts, NEW word \in Words, NEW data \in NetData,
         SaveResp(dict, word, data)
  PROVE  netcache' \in [Dicts -> Pool(NetPoolSize, Words, NetData)]
<1> DEFINE Pools == Pool(NetPoolSize, Words, NetData)
<1>1. netcache \in [Dicts -> Pools]
  BY DEF IInv
<1>2. SavePool(netcache[dict], NetPoolSize, word, data) \in Pools
  BY <1>1, FloatAssumption, SavePoolIsPool DEF FloatAssumption
<1>3. netcache' = [netcache EXCEPT ![dict] = SavePool(netcache[dict], NetPoolSize, word, data)]
  BY DEF SaveResp
<1> HIDE DEF Pools
<1>4. QED
  BY <1>1, <1>2, <1>3 DEF Pools

(* A response: its own request is done with, others of the same word and    *)
(* dictionary may still be on their way.                                   *)
LEMMA NetDictResponseKeeps ==
  ASSUME IInv, NEW r \in asked, NEW data \in NetData, NetDictResponse(r, data)
  PROVE  IInv'
<1>1. /\ WinInv(win) /\ ~ win.building /\ LookingUp(win) /\ QueueTyped /\ Awaited
      /\ ExpectedIsComing /\ (~ tipped => About(win)) /\ asked \subseteq Requests
  BY DEF IInv
<1>2. r.dict \in Dicts /\ r.word \in Words
  BY <1>1 DEF Requests
<1>3. /\ asked' = asked \ {r} /\ SaveResp(r.dict, r.word, data)
      /\ win' = ShowNetDictResp(win, r.dict, r.word, data)
      /\ waiting' = waiting /\ number' = number /\ lookups' = lookups /\ lost' = lost
      /\ tipped' = tipped
  BY DEF NetDictResponse, quietQueue
<1>4. netcache' \in [Dicts -> Pool(NetPoolSize, Words, NetData)]
  BY <1>2, <1>3, SaveRespKeeps
<1>5. /\ WinInv(win') /\ win'.requests = win.requests \ {<<r.dict, r.word>>}
      /\ win'.building = win.building /\ win'.expected = win.expected
      /\ win'.QueryingWord = win.QueryingWord
      /\ About(win) => About(win')
      /\ ~ win.building /\ LookingUp(win) => LookingUp(win')
  BY <1>1, <1>2, <1>3, ShowNetDictRespKeeps
<1>6. QueueStep
  BY <1>1, <1>3, NothingTaken
<1>7. Awaited'
  BY <1>1, <1>3, <1>5, <1>6, AwaitedKept
<1>8. ExpectedIsComing'
  <2>1. \A q \in win'.requests : q \in win.requests /\ q # <<r.dict, r.word>>
    BY <1>5
  <2>2. QED
    BY <1>1, <1>3, <1>5, <2>1 DEF ExpectedIsComing
<1>9. QED
  BY <1>1, <1>3, <1>4, <1>5, <1>6, <1>7, <1>8 DEF IInv, QueueStep

LEMMA NetDictFailsKeeps ==
  ASSUME IInv, NEW r \in asked, NetDictFails(r)
  PROVE  IInv'
<1>1. /\ WinInv(win) /\ QueueTyped /\ Awaited /\ ExpectedIsComing /\ asked \subseteq Requests
  BY DEF IInv
<1>2. /\ asked' = asked \ {r} /\ win' = win /\ netcache' = netcache /\ waiting' = waiting
      /\ number' = number /\ lookups' = lookups /\ tipped' = tipped
      /\ lost' = (lost \/ /\ <<r.dict, r.word>> \in win.requests
                          /\ \A q \in asked \ {r} : q.dict # r.dict \/ q.word # r.word)
  BY DEF NetDictFails, quietQueue, ExpectsNetDict
<1>3. QueueStep
  BY <1>1, <1>2, NothingTaken
<1>4. Awaited'
  BY <1>1, <1>2, <1>3, AwaitedKept
<1>5. ExpectedIsComing'
  <2>1. ASSUME ~ lost', NEW q \in win.requests
        PROVE  \E p \in asked \ {r} : q = <<p.dict, p.word>>
    <3>1. PICK p \in asked : q = <<p.dict, p.word>>
      BY <1>1, <1>2, <2>1 DEF ExpectedIsComing
    <3>2. CASE p = r
      BY <1>2, <2>1, <3>1, <3>2
    <3>3. QED
      BY <3>1, <3>2
  <2>2. QED
    BY <1>1, <1>2, <2>1 DEF ExpectedIsComing
<1>6. QED
  BY <1>1, <1>2, <1>3, <1>4, <1>5 DEF IInv, QueueStep

LEMMA MainWindowResponseKeeps ==
  ASSUME IInv, NEW dict \in Dicts, NEW word \in Words, NEW data \in NetData,
         MainWindowResponse(dict, word, data)
  PROVE  IInv'
<1>1. /\ SaveResp(dict, word, data) /\ win' = win /\ asked' = asked /\ waiting' = waiting
      /\ number' = number /\ lookups' = lookups /\ lost' = lost /\ tipped' = tipped
  BY DEF MainWindowResponse, quietQueue
<1>2. netcache' \in [Dicts -> Pool(NetPoolSize, Words, NetData)]
  BY <1>1, SaveRespKeeps
<1>3. QED
  BY <1>1, <1>2 DEF IInv, QueueTyped, Awaited, ExpectedIsComing

-----------------------------------------------------------------------------
LEMMA AtFirst == Init => IInv
<1> SUFFICES ASSUME Init PROVE IInv
  OBVIOUS
<1>1. /\ ~ win.building /\ win.requests = {} /\ win.expected = 0 /\ win.QueryingWord = Nil
      /\ win.content_state = "Empty" /\ win.view = <<>> /\ ~ win.have_real_content
      /\ ~ win.window_positioned /\ win.placed = 0 /\ ~ win.visible /\ ~ win.timer
  BY DEF Init, FloatInit
<1>2. win \in WinSet
  <2>1. PICK b \in BOOLEAN :
          win = [building |-> FALSE, requests |-> {}, expected |-> 0, QueryingWord |-> Nil,
                 content_state |-> "Empty", view |-> <<>>, have_real_content |-> FALSE,
                 window_positioned |-> FALSE, placed |-> 0, visible |-> FALSE,
                 timer |-> FALSE, show_if_not_found |-> b]
    BY DEF Init, FloatInit
  <2>2. <<>> \in Seq(Pieces) /\ {} \in SUBSET (Dicts \X Words)
    OBVIOUS
  <2>3. QED
    BY <2>1, <2>2 DEF WinSet
<1>3. WinInv(win) /\ About(win)
  BY <1>1, <1>2 DEF WinInv, Placed, Timed, Distinct, NoneTwice, About
<1>4. QueueTyped
  BY FloatAssumption DEF FloatAssumption, Init, QueueInit, QueueTyped
<1>5. netcache \in [Dicts -> Pool(NetPoolSize, Words, NetData)]
  BY FloatAssumption, EmptyPoolIsPool DEF FloatAssumption, Init, FloatInit
<1>6. asked = {} /\ lookups = 0
  BY DEF Init, FloatInit
<1>7. QED
  BY <1>1, <1>3, <1>4, <1>5, <1>6 DEF IInv, LookingUp, Awaited, ExpectedIsComing

LEMMA EachStep == IInv /\ [Next]_vars => IInv'
<1> SUFFICES ASSUME IInv, [Next]_vars PROVE IInv'
  OBVIOUS
<1>1. CASE \E word \in Words, onDisk \in SUBSET Words : SimpleLookup(word, onDisk)
  BY <1>1, SimpleLookupKeeps
<1>2. CASE \E word \in Words, onDisk \in SUBSET Words : SmartLookup(word, onDisk)
  <2>1. PICK word \in Words, onDisk \in SUBSET Words : SmartLookup(word, onDisk)
    BY <1>2
  <2> DEFINE here == LookupLocal(Begin(word), word, onDisk)
  <2>2. Fresh(here, word) /\ here.requests = {} /\ here.expected = 0
    BY LocalFirst DEF IInv
  <2>3. LocalLookup(here)
    BY <2>1 DEF SmartLookup
  <2> HIDE DEF here
  <2>4. QED
    BY <2>2, <2>3, LocalLookupKeeps
<1>3. CASE \E found \in BOOLEAN : FuzzyLookup(found)
  <2>1. PICK found \in BOOLEAN : FuzzyLookup(found)
    BY <1>3
  <2> DEFINE word == win.QueryingWord
             begun == Begin(word)
             here == IF found THEN AppendText(begun, Piece("fuzzy", word)) ELSE begun
  <2>2. word \in Words /\ LocalLookup(here)
    BY <2>1 DEF FuzzyLookup, IInv, WinInv, WinSet
  <2>3. Begun(begun, word)
    BY <2>2, BeginIsFresh DEF IInv
  <2> HIDE DEF begun, word
  <2>4. Fresh(here, word) /\ here.requests = {} /\ here.expected = 0
    <3>1. CASE found
      BY <2>2, <2>3, <3>1, AppendFresh
    <3>2. CASE ~ found
      BY <2>3, <3>2 DEF Begun
    <3>3. QED
      BY <3>1, <3>2
  <2> HIDE DEF here
  <2>5. QED
    BY <2>2, <2>4, LocalLookupKeeps
<1>4. CASE ClientAnswers
  BY <1>4, ClientAnswersKeeps
<1>5. CASE ClientDrops
  BY <1>5, ClientDropsKeeps
<1>6. CASE OthersUseClient
  BY <1>6, OthersKeep
<1>7. CASE \E r \in asked : NetDictFails(r) \/ \E data \in NetData : NetDictResponse(r, data)
  BY <1>7, NetDictFailsKeeps, NetDictResponseKeeps
<1>8. CASE \E d \in Dicts, word \in Words, data \in NetData : MainWindowResponse(d, word, data)
  BY <1>8, MainWindowResponseKeeps
<1>9. CASE WindowEvent
  BY <1>9, WindowEventKeeps
<1>10. CASE UNCHANGED vars
  BY <1>10 DEF vars, queueVars, floatVars, IInv, QueueTyped, Awaited, ExpectedIsComing
<1>11. QED
  BY <1>1, <1>2, <1>3, <1>4, <1>5, <1>6, <1>7, <1>8, <1>9, <1>10 DEF Next

(* All that may still arrive fits the window, at every time. *)
THEOREM Invariance == Spec => []IInv
BY AtFirst, EachStep, PTL DEF Spec

(* Every field holds what its declaration lets it hold: in particular a     *)
(* number that is expected is one the client gives.                        *)
THEOREM TypeCorrect == Spec => []TypeOK
<1>1. IInv => TypeOK
  <2> SUFFICES ASSUME IInv PROVE TypeOK
    OBVIOUS
  <2>1. /\ win \in WinSet /\ number \in Nat \ {0}
        /\ win.expected # 0 => win.expected < number
    BY DEF IInv, WinInv, QueueTyped, Awaited
  <2>2. win.expected \in 0 .. number - 1
    <3>1. win.expected \in Nat
      BY <2>1 DEF WinSet
    <3>2. QED
      BY <2>1, <3>1
  <2>3. \A d \in Dicts : DOMAIN netcache[d].slot \subseteq Slots(NetPoolSize)
    BY PoolShape DEF IInv
  <2>4. QED
    BY <2>1, <2>2, <2>3 DEF TypeOK, WinSet
<1>2. QED
  BY <1>1, Invariance, PTL

(* EndLookup is called when the last response is in and never before: of     *)
(* CompositeLookup's lists and the window's content_state each tells the   *)
(* other.                                                                  *)
THEOREM WaitingExpects == Spec => []WaitingMeansExpecting
<1>1. IInv => WaitingMeansExpecting
  BY DEF IInv, LookingUp, WaitingMeansExpecting
<1>2. QED
  BY <1>1, Invariance, PTL

(* Whatever comes back late, the window shows pieces of the word it was      *)
(* opened for.                                                             *)
THEOREM OfTheWord == Spec => []ShowsTheWord
<1>1. IInv => ShowsTheWord
  BY DEF IInv, About, ShowsTheWord
<1>2. QED
  BY <1>1, Invariance, PTL

(* AppendText never adds a piece that is on show: neither the local search  *)
(* nor what answers the lookup later brings a source twice.                *)
THEOREM SourceOnce == Spec => []EachSourceOnce
<1>1. IInv => EachSourceOnce
  BY DEF IInv, WinInv, Distinct, EachSourceOnce
<1>2. QED
  BY <1>1, Invariance, PTL

(* The timer that brings up "Looking up" runs for a lookup under way only. *)
THEOREM TimerWaits == Spec => []TimerOfWaiting
<1>1. IInv => TimerOfWaiting
  BY DEF IInv, WinInv, Timed, TimerOfWaiting
<1>2. QED
  BY <1>1, Invariance, PTL

(* The window is placed once for a lookup. *)
THEOREM OncePlaced == Spec => []PlacedOnce
<1>1. IInv => PlacedOnce
  BY DEF IInv, WinInv, Placed, PlacedOnce
<1>2. QED
  BY <1>1, Invariance, PTL

(* Nothing is expected that is not on its way, unless it is known to be lost. *)
THEOREM ComingUnlessLost == Spec => []ExpectedIsComing
<1>1. IInv => ExpectedIsComing
  BY DEF IInv
<1>2. QED
  BY <1>1, Invariance, PTL
==============================================================================
