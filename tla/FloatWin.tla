------------------------------ MODULE FloatWin ------------------------------
(***************************************************************************)
(* The floating window (floatwin.cpp) as far as lookups drive it: what it  *)
(* shows, whether it is visible and was placed, and the timer after which  *)
(* it admits that a lookup is under way.  The operators are its methods,   *)
(* from record to record; `view' is the sequence of pieces it shows, each  *)
(* with its source, the word it was looked up for, and whether the local   *)
(* search took it from the responses a network dictionary has kept.        *)
(* Layout, sound and the buttons are left out.                             *)
(***************************************************************************)
EXTENDS Naturals, Sequences

Piece(source, word) == [source |-> source, word |-> word, kept |-> FALSE]

KeptPiece(dict, word) == [source |-> dict, word |-> word, kept |-> TRUE]

(* Popup and Show: the window is placed anew when it was hidden or when it
   has to be.  `placed' counts how often since the lookup began or the
   window was hidden.                                                     *)
Popup(s, update) ==
  [s EXCEPT !.visible = TRUE,
            !.placed = IF ~s.visible \/ update THEN @ + 1 ELSE @]

PopupAlwaysPlacing(s) ==                                          \* mutant
  [Popup(s, TRUE) EXCEPT !.window_positioned = TRUE]

(* How every method but ShowPangoTips brings the window up. *)
PopupOnce(s) == [Popup(s, ~s.window_positioned) EXCEPT !.window_positioned = TRUE]

StartLookup(s, word) ==
  [s EXCEPT !.QueryingWord = word, !.content_state = "Waiting",
            !.view = <<Piece("looking up", word)>>,
            !.have_real_content = FALSE, !.window_positioned = FALSE,
            !.placed = 0, !.timer = TRUE]

EndLookup(s) ==
  LET said == IF s.have_real_content THEN s
              ELSE [s EXCEPT !.view = <<Piece("not found", s.QueryingWord)>>]
      shown == IF ~s.have_real_content /\ s.show_if_not_found THEN PopupOnce(said) ELSE said
  IN  [shown EXCEPT !.content_state = IF s.have_real_content THEN "Found" ELSE "NotFound",
                    !.timer = FALSE]

AppendTextKeepsTimer(s, piece) ==                                 \* mutant
  PopupOnce([s EXCEPT !.view = IF s.have_real_content THEN Append(@, piece) ELSE <<piece>>,
                      !.have_real_content = TRUE])

(* What AppendTextLocalDict, for each dictionary it shows,
   AppendTextNetDict, AppendTextStarDictNet and AppendTextFuzzy have in
   common: the message makes room for content.                            *)
AppendText(s, piece) ==
  PopupOnce([s EXCEPT !.view = IF s.have_real_content THEN Append(@, piece) ELSE <<piece>>,
                      !.have_real_content = TRUE, !.timer = FALSE])

(* A tip replaces what is shown; the lookup under way is not told. *)
ShowPangoTips(s, word) ==
  LET tip == [s EXCEPT !.QueryingWord = word, !.view = <<Piece("tip", word)>>,
                       !.have_real_content = TRUE, !.timer = FALSE, !.placed = 0]
  IN  [Popup(tip, TRUE) EXCEPT !.window_positioned = TRUE]

(* The lock and the scan switch bring back a hidden window as it was. *)
Show(s) == [s EXCEPT !.visible = TRUE]

Hide(s) == [s EXCEPT !.visible = FALSE, !.window_positioned = FALSE, !.placed = 0]

(* vLookupRunningTimeOutCallback. *)
LookupRunningTimeOut(s) ==
  LET shown == IF ~s.have_real_content /\ s.show_if_not_found THEN PopupOnce(s) ELSE s
  IN  [shown EXCEPT !.timer = FALSE]
==============================================================================
