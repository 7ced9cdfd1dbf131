------------------------------ MODULE MCStorage -----------------------------
(***************************************************************************)
(* Storage with a database, its index read by pages of two keys or whole,  *)
(* and a directory.  An article may name a key that is not there.          *)
(***************************************************************************)
EXTENDS Storage, TLC

CONSTANTS d1, d2, b1, b2, f1, f2, f3, f4

Words == {<<1>>, <<1, 3>>, <<3>>}
\* The keys have no capitals.
NoCase == [c \in {} |-> c]
Named == {<<1, 3>>, <<3>>}
Setup(form, keys) ==
  d1 :> [form |-> form, keys |-> keys] @@ d2 :> [form |-> "directory", keys |-> <<<<1>>, <<3>>>>]

SomeSetups == {Setup("paged", <<<<1>>, <<1, 3>>, <<3>>>>), Setup("paged", <<<<1>>, <<3>>>>),
               Setup("memory", <<<<1>>, <<1, 3>>, <<3>>>>)}

Buttons == {b1, b2}
Files == {f1, f2, f3, f4}
Symmetry == Permutations(Buttons) \cup Permutations(Files)
=============================================================================
