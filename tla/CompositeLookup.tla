--------------------------- MODULE CompositeLookup ---------------------------
(***************************************************************************)
(* CompositeLookup (lib/compositelookup.cpp): which of the requests that   *)
(* make up the floating window's lookup are still without a response.  Its *)
(* three members are the fields `building', `requests' and `expected' of a *)
(* record s; the operators are its methods, from record to record.         *)
(***************************************************************************)
EXTENDS Naturals

NewLookupKeepsRequests(s) ==                                      \* mutant
  [s EXCEPT !.building = TRUE, !.expected = 0]

NewLookup(s) == [s EXCEPT !.building = TRUE, !.requests = {}, !.expected = 0]

DoneLookup(s) == [s EXCEPT !.building = FALSE]

IsGotAllEvenBuilding(s) == s.expected = 0 /\ s.requests = {}      \* mutant

IsGotAll(s) == ~s.building /\ s.expected = 0 /\ s.requests = {}

(* A request that is already listed is not listed twice. *)
SendNetDictRequest(s, dict, word) == [s EXCEPT !.requests = @ \cup {<<dict, word>>}]

ExpectsAnyNetDict(s, dict, word) == TRUE                          \* mutant

(* Whether a response is one of those expected, and what it leaves. *)
ExpectsNetDict(s, dict, word) == <<dict, word>> \in s.requests
GotNetDict(s, dict, word) == [s EXCEPT !.requests = @ \ {<<dict, word>>}]

SendStarDictRequestNext(s, seq) == [s EXCEPT !.expected = seq + 1]  \* mutant

SendStarDictRequest(s, seq) == [s EXCEPT !.expected = seq]

(* The number 0 is never the one expected. *)
ExpectsStarDict(s, seq) == s.expected # 0 /\ seq = s.expected
GotStarDict(s) == [s EXCEPT !.expected = 0]
==============================================================================
