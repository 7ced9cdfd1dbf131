---------------------------- MODULE MCCacheFiles ----------------------------
(***************************************************************************)
(* CacheFiles for two dictionaries of one file name.  Both are alike: the  *)
(* invariants do not tell them apart.                                      *)
(***************************************************************************)
EXTENDS CacheFiles, TLC

CONSTANTS d1, d2

TwoDicts == {d1, d2}
Symmetry == Permutations(TwoDicts)
=============================================================================
