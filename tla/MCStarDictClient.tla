-------------------------- MODULE MCStarDictClient --------------------------
(***************************************************************************)
(* Instances of StarDictClient for TLC.                                    *)
(***************************************************************************)
EXTENDS StarDictClient, TLC

CONSTANTS a1, h1, h2

(* Two queries, one of each pool, and a mask that outdates their answers. *)
QueriesAndMask == {<<Text("LOOKUP", "w")>>, <<Text("GET_DICT_MASK", Nil)>>,
                   <<Text("SET_DICT_MASK", "m")>>}

(* What the network page of the dictionary manager asks for at once, a list
   of words, and an account being registered.                             *)
Dialogs == {<<Text("GET_DICT_MASK", Nil), Text("MAX_DICT_COUNT", Nil)>>,
            <<Text("NEXT", "w")>>, <<Text("REGISTER", a1)>>}
==============================================================================
