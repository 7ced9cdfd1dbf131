---------------------------- MODULE Subsequences ----------------------------
(***************************************************************************)
(* Picking elements out of a sequence in their order.                      *)
(***************************************************************************)
EXTENDS Naturals, Sequences

(* The one sequence that enumerates P, a set of positions up to n, upwards;
   as a singleton set, to be quantified over.                             *)
Ascending(P, n) ==
  {p \in UNION {[1 .. k -> P] : k \in 0 .. n} :
     /\ \A i, j \in DOMAIN p : i < j => p[i] < p[j]
     /\ \A m \in P : \E i \in DOMAIN p : p[i] = m}
==============================================================================
