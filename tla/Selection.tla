----------------------------- MODULE Selection ------------------------------
(***************************************************************************)
(* The scan of the selected text (selection.cpp): a timer asks the owner   *)
(* of the selection for its text, in one format after the other; the       *)
(* answer comes when the owner likes, or never.  After 8 seconds the       *)
(* widget that asked is replaced by another, which ends its request.       *)
(*                                                                         *)
(* GTK answers a request once, has one at a time for a widget, refusing    *)
(* another, and forgets it when the widget is destroyed.                   *)
(***************************************************************************)
EXTENDS Naturals

CONSTANTS
  Words,      \* texts that are looked up when selected
  Unwanted,   \* an empty text or a URL
  Nil,
  MaxBusy     \* the ticks that make 8 seconds

Formats == {"UTF8_STRING", "COMPOUND_TEXT", "STRING"}

ASSUME SelectionAssumption ==
  /\ Unwanted \notin Words /\ Nil \notin Words \cup Formats /\ Unwanted # Nil
  /\ MaxBusy \in Nat \ {0}

VARIABLES
  selected,      \* the text that is selected somewhere, Nil if the owner has no text
  may_scan,      \* nothing is selected in the entry, and the modifier key is held if need be
  timeout,       \* the timer runs
  IsBusy,
  request,       \* the format asked for by the request under way, Nil if there is none
  LastClipWord

selectionVars == <<selected, may_scan, timeout, IsBusy, request, LastClipWord>>

SelectionInit ==
  /\ selected = Nil /\ may_scan = TRUE /\ timeout = FALSE
  /\ IsBusy = 0 /\ request = Nil /\ LastClipWord = Nil

\* gtk_selection_convert
Convert == request' = IF request = Nil THEN "UTF8_STRING" ELSE request

\* The check button: start
Start ==
  /\ timeout' = TRUE
  /\ UNCHANGED <<selected, may_scan, IsBusy, request, LastClipWord>>

\* stop: a request under way is not taken back.
Stop ==
  /\ timeout' = FALSE
  /\ LastClipWord' = Nil
  /\ UNCHANGED <<selected, may_scan, IsBusy, request>>

\* Fault: it waits for the answer for ever.
TimeOutCallbackPatient ==
  /\ timeout /\ may_scan
  /\ IsBusy = 0 /\ IsBusy' = 1 /\ Convert
  /\ UNCHANGED <<selected, may_scan, timeout, LastClipWord>>

\* TimeOutCallback; create_selection_widget destroys the one before.
TimeOutCallback ==
  /\ timeout /\ may_scan
  /\ IF IsBusy > 0
     THEN IF IsBusy + 1 > MaxBusy THEN IsBusy' = 0 /\ request' = Nil
                                  ELSE IsBusy' = IsBusy + 1 /\ UNCHANGED request
     ELSE IsBusy' = 1 /\ Convert
  /\ UNCHANGED <<selected, may_scan, timeout, LastClipWord>>

\* on_docklet_middle_button_click: a request that no counter knows of.
MiddleClick ==
  /\ LastClipWord' = Nil
  /\ Convert
  /\ UNCHANGED <<selected, may_scan, timeout, IsBusy>>

\* FloatWin::on_timeout_check, when the key is released over the window
KeyReleased ==
  /\ LastClipWord' = Nil
  /\ UNCHANGED <<selected, may_scan, timeout, IsBusy, request>>

NextFormat == [f \in {"UTF8_STRING", "COMPOUND_TEXT"} |->
                 IF f = "UTF8_STRING" THEN "COMPOUND_TEXT" ELSE "STRING"]

\* Fault: giving up leaves the scan waiting.
GiveUpBusy ==
  /\ request = "STRING" /\ selected = Nil
  /\ request' = Nil /\ LastClipWord' = Nil
  /\ UNCHANGED <<selected, may_scan, timeout, IsBusy>>

\* SelectionReceivedCallback without a text in the last of the formats
GiveUp ==
  /\ request = "STRING" /\ selected = Nil
  /\ request' = Nil /\ IsBusy' = 0 /\ LastClipWord' = Nil
  /\ UNCHANGED <<selected, may_scan, timeout>>

\* The same, in one before: the owner may have the text in another.
AskAgain ==
  /\ request \in DOMAIN NextFormat
  /\ request' = NextFormat[request]
  /\ UNCHANGED <<selected, may_scan, timeout, IsBusy, LastClipWord>>

\* SelectionReceivedCallback and SelectionReceived of a text that is not looked up
Received ==
  /\ request # Nil /\ selected \in {Unwanted, LastClipWord} \ {Nil}
  /\ request' = Nil /\ IsBusy' = 0
  /\ LastClipWord' = IF selected = Unwanted THEN Nil ELSE LastClipWord
  /\ UNCHANGED <<selected, may_scan, timeout>>

\* The same, of a word that is, with SimpleLookupToFloat
ReceivedWord(w) ==
  /\ request # Nil /\ selected = w /\ w # LastClipWord
  /\ request' = Nil /\ IsBusy' = 0
  /\ LastClipWord' = w
  /\ UNCHANGED <<selected, may_scan, timeout>>

\* The user selects something else, or in the entry, or holds or releases the key.
Select(s) ==
  /\ s # selected
  /\ selected' = s
  /\ UNCHANGED <<may_scan, timeout, IsBusy, request, LastClipWord>>

Allow ==
  /\ may_scan' = ~ may_scan
  /\ UNCHANGED <<selected, timeout, IsBusy, request, LastClipWord>>

SelectionAlone ==
  \/ Start \/ Stop \/ TimeOutCallback \/ MiddleClick \/ KeyReleased
  \/ GiveUp \/ AskAgain \/ Received \/ Allow \/ \E s \in Words \cup {Unwanted, Nil} : Select(s)

-----------------------------------------------------------------------------
SelectionTypeOK ==
  /\ selected \in Words \cup {Unwanted, Nil} /\ LastClipWord \in Words \cup {Nil}
  /\ may_scan \in BOOLEAN /\ timeout \in BOOLEAN
  /\ IsBusy \in 0 .. MaxBusy /\ request \in Formats \cup {Nil}

\* While the scan waits there is something to wait for: each answer, the last refusal and
\* the new widget all end the waiting together with the request.
BusyMeansAsked == IsBusy > 0 => request # Nil

\* Whatever answers are lost, the scan asks again as long as it may: a request of the timer
\* is answered or given up.
ScanGoesOn == []<>(IsBusy = 0) \/ []<>(~ timeout) \/ []<>(~ may_scan)
=============================================================================
