----------------------------- MODULE MCMainWin ------------------------------
(***************************************************************************)
(* MainWin over two words, of which a is the one the dictionaries have, or *)
(* the nearest to what they do not.                                        *)
(***************************************************************************)
EXTENDS MainWin, TLC

CONSTANTS a, b

NearA == [w \in {a, b} |-> a]

\* The server is in use and the responses of the network dictionary are in the cache, or
\* neither.
SomeSettings == {c \in AllSettings : c.netdict /\ c.server = c.kept}
=============================================================================
