----------------------------- MODULE ScanProofs -----------------------------
(***************************************************************************)
(* Proofs about the scan of the selection and the requests of network      *)
(* dictionaries, for any number of words, clients, ticks and answers kept. *)
(***************************************************************************)
EXTENDS Scan, TLAPS

\* The counter and the request, with what the counter and the formats can be.
ScanInv == SelectionTypeOK /\ BusyMeansAsked

LEMMA InitScan == SelectionInit => ScanInv
<1> SUFFICES ASSUME SelectionInit PROVE ScanInv
  OBVIOUS
<1>1. may_scan \in BOOLEAN /\ timeout \in BOOLEAN
  BY Zenon DEF SelectionInit
<1>2. IsBusy \in 0 .. MaxBusy /\ BusyMeansAsked
  BY SelectionAssumption DEF SelectionInit, BusyMeansAsked
<1>3. QED
  BY <1>1, <1>2 DEF SelectionInit, ScanInv, SelectionTypeOK

LEMMA TimerKeeps ==
  ASSUME ScanInv, TimeOutCallback
  PROVE  ScanInv'
<1>1. CASE IsBusy > 0
  BY <1>1, SelectionAssumption DEF TimeOutCallback, ScanInv, SelectionTypeOK, BusyMeansAsked
<1>2. CASE ~ (IsBusy > 0)
  <2>1. IsBusy' = 1 /\ request' # Nil /\ request' \in Formats
    BY <1>2, SelectionAssumption
    DEF TimeOutCallback, Convert, Formats, ScanInv, SelectionTypeOK
  <2>2. QED
    BY <2>1, SelectionAssumption DEF TimeOutCallback, ScanInv, SelectionTypeOK, BusyMeansAsked
<1>3. QED
  BY <1>1, <1>2

LEMMA AnswerKeeps ==
  ASSUME ScanInv, GiveUp \/ Received \/ \E w \in Words : ReceivedWord(w)
  PROVE  ScanInv'
<1>1. IsBusy' = 0 /\ request' = Nil
  BY DEF GiveUp, Received, ReceivedWord
<1>2. LastClipWord' \in Words \cup {Nil}
  BY DEF GiveUp, Received, ReceivedWord, ScanInv, SelectionTypeOK
<1>3. UNCHANGED <<selected, may_scan, timeout>>
  BY DEF GiveUp, Received, ReceivedWord
<1>4. QED
  BY <1>1, <1>2, <1>3, SelectionAssumption DEF ScanInv, SelectionTypeOK, BusyMeansAsked

LEMMA SelectionKeeps ==
  ASSUME ScanInv, SelectionAlone \/ (\E w \in Words : ReceivedWord(w)) \/ UNCHANGED selectionVars
  PROVE  ScanInv'
<1>1. CASE TimeOutCallback
  BY <1>1, TimerKeeps
<1>2. CASE GiveUp \/ Received \/ \E w \in Words : ReceivedWord(w)
  BY <1>2, AnswerKeeps
<1>3. CASE MiddleClick
  BY <1>3, SelectionAssumption
  DEF MiddleClick, Convert, Formats, ScanInv, SelectionTypeOK, BusyMeansAsked
<1>4. CASE AskAgain
  <2>1. request' # Nil /\ request' \in Formats
    BY <1>4, SelectionAssumption DEF AskAgain, NextFormat, Formats
  <2>2. QED
    BY <1>4, <2>1 DEF AskAgain, ScanInv, SelectionTypeOK, BusyMeansAsked
<1>5. CASE Start \/ Stop \/ KeyReleased \/ Allow
  BY <1>5 DEF Start, Stop, KeyReleased, Allow, ScanInv, SelectionTypeOK, BusyMeansAsked
<1>6. ASSUME NEW s \in Words \cup {Unwanted, Nil}, Select(s)
      PROVE  ScanInv'
  BY <1>6 DEF Select, ScanInv, SelectionTypeOK, BusyMeansAsked
<1>7. CASE UNCHANGED selectionVars
  BY <1>7 DEF selectionVars, ScanInv, SelectionTypeOK, BusyMeansAsked
<1>8. QED
  BY <1>1, <1>2, <1>3, <1>4, <1>5, <1>6, <1>7 DEF SelectionAlone

LEMMA StepOfSelection ==
  ASSUME [Next]_vars
  PROVE  SelectionAlone \/ (\E w \in Words : ReceivedWord(w)) \/ UNCHANGED selectionVars
  BY DEF Next, vars, Scanned

(* The counter never waits for a request that is gone, so that the 8       *)
(* seconds are those of a request: every end of one clears both.           *)
THEOREM BusyMeansSomethingIsAsked == Spec => []BusyMeansAsked
<1>1. Init => ScanInv
  BY InitScan DEF Init
<1>2. ScanInv /\ [Next]_vars => ScanInv'
  BY StepOfSelection, SelectionKeeps
<1>3. ScanInv => BusyMeansAsked
  BY DEF ScanInv
<1>4. QED
  BY <1>1, <1>2, <1>3, PTL DEF Spec

-----------------------------------------------------------------------------
(* A client is in one phase at a time, which is why it is called back once: *)
(* in a thread or under watches, and never both.  What is counted for the   *)
(* clients not yet made matters, for the next of them is one.               *)
HttpTypes ==
  /\ created \in Seq(Words)
  /\ called \in [Clients -> Nat]

OnePhase == (DOMAIN thread) \cap in_source = {}

NoneAhead ==
  /\ DOMAIN created \subseteq Clients
  /\ \A c \in Clients : c \notin DOMAIN created => called[c] = 0
  /\ client_list \subseteq DOMAIN created

HttpInv == HttpTypes /\ OnePhase /\ NoneAhead /\ OneCallback

LEMMA InitHttp == HttpInit => HttpInv
  BY HttpAssumption
  DEF HttpInit, HttpInv, HttpTypes, OnePhase, NoneAhead, OneCallback, Clients

(* The end of a client, whatever ended it. *)
LEMMA FinishKeeps ==
  ASSUME HttpInv, NEW c \in client_list, Finish(c), UNCHANGED created,
         keyword_list' \in {keyword_list, keyword_list \ {c}}
  PROVE  HttpInv'
<1>1. c \in Clients /\ c \in DOMAIN created /\ called[c] = 0
  BY DEF HttpInv, NoneAhead, OneCallback
<1>2. called' = [called EXCEPT ![c] = 1]
  BY <1>1 DEF Finish, HttpInv, HttpTypes
<1>3. DOMAIN thread' = (DOMAIN thread) \ {c}
  BY DEF Finish, Without
<1>4. /\ client_list' = client_list \ {c}
      /\ in_source' = in_source \ {c} /\ out_source' = out_source \ {c}
  BY DEF Finish, Disconnect
<1>5. HttpTypes'
  BY <1>1, <1>2 DEF HttpInv, HttpTypes
<1>6. NoneAhead' /\ OnePhase'
  BY <1>1, <1>2, <1>3, <1>4 DEF HttpInv, HttpTypes, NoneAhead, OnePhase
<1>7. \A d \in DOMAIN created : called'[d] = IF d \in client_list' THEN 0 ELSE 1
  BY <1>1, <1>2, <1>4 DEF HttpInv, HttpTypes, NoneAhead, OneCallback
<1>8. OneCallback'
  BY <1>3, <1>4, <1>7 DEF HttpInv, OneCallback
<1>9. QED
  BY <1>5, <1>6, <1>8 DEF HttpInv

LEMMA FailKeeps ==
  ASSUME HttpInv, NEW c \in client_list, Fail(c), UNCHANGED created
  PROVE  HttpInv'
  BY FinishKeeps DEF Fail

LEMMA ResponseKeeps ==
  ASSUME HttpInv, NEW c \in client_list, Response(c), UNCHANGED created
  PROVE  HttpInv'
  BY FinishKeeps DEF Response

LEMMA LookupKeeps ==
  ASSUME HttpInv, NEW w \in Words, LookupNet(w)
  PROVE  HttpInv'
<1>1. CASE UNCHANGED httpVars
  BY <1>1 DEF httpVars, HttpInv, HttpTypes, OnePhase, NoneAhead, OneCallback
<1>2. CASE ~ IsCached(responses, w)
  <2> DEFINE c == NextClient
  <2>1. /\ c \in Clients /\ created' = Append(created, w)
        /\ keyword_list' = keyword_list \cup {c}
        /\ in_source' = in_source /\ out_source' = out_source
    BY <1>2 DEF LookupNet
  <2>2. /\ c \notin DOMAIN created /\ DOMAIN created' = DOMAIN created \cup {c}
        /\ created' \in Seq(Words)
    BY <2>1 DEF NextClient, HttpInv, HttpTypes
  <2>3. called[c] = 0 /\ c \notin client_list
    BY <2>1, <2>2 DEF HttpInv, NoneAhead
  <2>4. c \notin DOMAIN thread /\ c \notin in_source
    BY <2>3 DEF HttpInv, OneCallback
  <2>5. CASE /\ DOMAIN thread' = DOMAIN thread \cup {c}
             /\ client_list' = client_list \cup {c} /\ called' = called
    BY <2>1, <2>2, <2>3, <2>4, <2>5
    DEF HttpInv, HttpTypes, OnePhase, NoneAhead, OneCallback
  <2>6. CASE /\ thread' = thread /\ client_list' = client_list
             /\ called' = [called EXCEPT ![c] = 1]
    <3>1. HttpTypes' /\ OnePhase' /\ NoneAhead'
      BY <2>1, <2>2, <2>6 DEF HttpInv, HttpTypes, OnePhase, NoneAhead
    <3>2. OneCallback'
      BY <2>1, <2>2, <2>3, <2>6 DEF HttpInv, HttpTypes, NoneAhead, OneCallback
    <3>3. QED
      BY <3>1, <3>2 DEF HttpInv
  <2>7. QED
    BY <1>2, <2>5, <2>6 DEF LookupNet, With
<1>3. QED
  BY <1>1, <1>2 DEF LookupNet

(* A client gets a thread or watches in place of its thread. *)
LEMMA ConnectingKeeps ==
  ASSUME HttpInv, NEW c \in DOMAIN thread,
         UNCHANGED <<created, client_list, called, keyword_list>>,
         \/ /\ DOMAIN thread' = DOMAIN thread
            /\ UNCHANGED <<in_source, out_source>>
         \/ /\ thread' = Without(thread, c)
            /\ in_source' = in_source \cup {c} /\ out_source' = out_source \cup {c}
  PROVE  HttpInv'
<1>1. c \in client_list
  BY DEF HttpInv, OneCallback
<1>2. /\ client_list = (DOMAIN thread') \cup in_source'
      /\ (DOMAIN thread') \cap in_source' = {}
      /\ out_source' \subseteq in_source'
  BY DEF HttpInv, OnePhase, OneCallback, Without
<1>3. QED
  BY <1>1, <1>2 DEF HttpInv, HttpTypes, OnePhase, NoneAhead, OneCallback

LEMMA HttpStepKeeps ==
  ASSUME HttpInv, NEW c \in Clients, HttpSteps(c)
  PROVE  HttpInv'
<1>1. c \in DOMAIN thread \cup in_source \cup out_source /\ UNCHANGED created
  BY DEF HttpSteps, OnResolved, OnConnected, OnOutput, OnInput
<1>2. c \in client_list
  BY <1>1 DEF HttpInv, OneCallback
<1>3. CASE Fail(c)
  BY <1>1, <1>2, <1>3, FailKeeps
<1>4. CASE Response(c)
  BY <1>1, <1>2, <1>4, ResponseKeeps
<1>5. CASE OnResolved(c) /\ ~ Fail(c)
  BY <1>5, ConnectingKeeps DEF OnResolved
<1>6. CASE OnConnected(c) /\ ~ Fail(c)
  BY <1>6, ConnectingKeeps DEF OnConnected
<1>7. CASE OnOutput(c) /\ ~ Fail(c)
  BY <1>7 DEF OnOutput, HttpInv, HttpTypes, OnePhase, NoneAhead, OneCallback
<1>8. QED
  BY <1>3, <1>4, <1>5, <1>6, <1>7 DEF HttpSteps, OnInput

LEMMA HttpKeeps ==
  ASSUME HttpInv, [Next]_vars
  PROVE  HttpInv'
<1>1. CASE UNCHANGED httpVars
  BY <1>1 DEF httpVars, HttpInv, HttpTypes, OnePhase, NoneAhead, OneCallback
<1>2. ASSUME NEW w \in Words, Scanned(w)
      PROVE  HttpInv'
  BY <1>2, LookupKeeps DEF Scanned
<1>3. ASSUME NEW c \in Clients, HttpSteps(c)
      PROVE  HttpInv'
  BY <1>3, HttpStepKeeps
<1>4. ASSUME NEW c \in Clients, NEW to \in {"sent", "closed", "reset"}, Serve(c, to)
      PROVE  HttpInv'
  BY <1>4 DEF Serve, HttpInv, HttpTypes, OnePhase, NoneAhead, OneCallback
<1>5. QED
  BY <1>1, <1>2, <1>3, <1>4 DEF Next, vars

(* The handler of the one signal deletes the client that emits it: it is   *)
(* called once for each, and no thread or watch is left to call it again.  *)
THEOREM EachClientCallsBackOnce == Spec => []OneCallback
<1>1. Init => HttpInv
  BY InitHttp DEF Init
<1>2. HttpInv /\ [Next]_vars => HttpInv'
  BY HttpKeeps
<1>3. HttpInv => OneCallback
  BY DEF HttpInv
<1>4. QED
  BY <1>1, <1>2, <1>3, PTL DEF Spec
=============================================================================
