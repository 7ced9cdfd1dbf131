-------------------------------- MODULE Scan --------------------------------
(***************************************************************************)
(* Scanned words are looked up in the floating window, and so asked of the *)
(* network dictionary (stardict.cpp).                                      *)
(***************************************************************************)
EXTENDS Selection, HttpClients

vars == <<selectionVars, httpVars>>

Init == SelectionInit /\ HttpInit

\* SimpleLookupToFloat, LookupNetDict
Scanned(w) == ReceivedWord(w) /\ LookupNet(w)

Next ==
  \/ SelectionAlone /\ UNCHANGED httpVars
  \/ \E w \in Words : Scanned(w)
  \/ /\ \E c \in Clients : HttpSteps(c) \/ \E to \in {"sent", "closed", "reset"} : Serve(c, to)
     /\ UNCHANGED selectionVars

\* The timer runs; threads end and the main loop runs what waits for it; a server closes
\* or resets a connection sooner or later.  The owner of the selection need not answer.
Fairness ==
  /\ WF_vars(TimeOutCallback /\ UNCHANGED httpVars)
  /\ \A c \in Clients :
       /\ WF_vars(OnResolved(c) /\ UNCHANGED selectionVars)
       /\ WF_vars(OnConnected(c) /\ UNCHANGED selectionVars)
       /\ WF_vars(OnInput(c) /\ UNCHANGED selectionVars)
       /\ WF_vars((Serve(c, "closed") \/ Serve(c, "reset")) /\ UNCHANGED selectionVars)

Spec == Init /\ [][Next]_vars /\ Fairness
=============================================================================
