----------------------------- MODULE MCDictData ------------------------------
(* A text of chunks of two bytes, the last one short: articles within a chunk, *)
(* across two and three, up to the end of a chunk and of the text.             *)
EXTENDS DictData

At(offset, size) == [offset |-> offset, size |-> size]

SomeArticles == {At(0, 1), At(1, 4), At(5, 1), At(6, 1)}
==============================================================================
