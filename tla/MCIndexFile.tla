---------------------------- MODULE MCIndexFile -----------------------------
(***************************************************************************)
(* IndexFile over words of the letters a (2), with a capital (1), and b    *)
(* (3); and of two beyond ASCII, one of which (6) has a capital (4): as    *)
(* with accents, the capital stands far from its small letter in the order *)
(* of an index, and the other letter (5) between the two.                  *)
(***************************************************************************)
EXTENDS IndexFile, TLC

SomeWords == {<<2>>, <<2, 2>>, <<1, 3>>, <<2, 3>>, <<2, 3, 3>>, <<4, 2>>, <<5>>, <<6, 3>>}

SmallLetters == 1 :> 2 @@ 4 :> 6
=============================================================================
