---------------------------- MODULE MCFloatLookup ----------------------------
(***************************************************************************)
(* Instances of FloatLookup for TLC.                                       *)
(***************************************************************************)
EXTENDS FloatLookup, TLC

CONSTANTS w1, w2

OneDict == <<"d1">>

(* Of the first word's two forms the second is the other word. *)
FormsOf == w1 :> <<w1, w2>> @@ w2 :> <<w2>>

(* Commands of the other windows are all the same to the floating window. *)
OtherCommand == [command |-> "LOOKUP", key |-> w1]

QueriesAndOther == {<<SelectQuery(w)>> : w \in Words} \cup {<<OtherCommand>>}

AnswersOf(text) == IF text.command = "SELECT_QUERY" THEN {"article", "nothing"}
                                                    ELSE {"article"}
==============================================================================
