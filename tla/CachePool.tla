------------------------------ MODULE CachePool ------------------------------
(***************************************************************************)
(* The fixed-size pools in which StarDict keeps recent answers: a vector   *)
(* of `size' slots and a cursor that is advanced by every save and wraps   *)
(* to 0.  A pool is a record: `slot' is the function from the occupied     *)
(* positions to their elements, `pos' is the cursor.  Cleaning empties     *)
(* slots and leaves the cursor where it is; saving overwrites whatever     *)
(* the cursor points at and never looks for an older element of the key.   *)
(***************************************************************************)
EXTENDS Naturals

Slots(size) == 0 .. (size - 1)

(* The pools of `size' slots whose elements have the given keys and data. *)
Pool(size, Key, Data) ==
  [slot : UNION {[D -> [key : Key, data : Data]] : D \in SUBSET Slots(size)},
   pos  : Slots(size)]

EmptyPool == [slot |-> [i \in {} |-> i], pos |-> 0]

(* Every slot is emptied. *)
CleanPool(pool) == [pool EXCEPT !.slot = [i \in {} |-> i]]

(* The slots of one key are emptied, all of them. *)
CleanKey(pool, key) ==
  [pool EXCEPT !.slot =
     [i \in {j \in DOMAIN pool.slot : pool.slot[j].key # key} |-> pool.slot[i]]]

SavePoolNoWrap(pool, size, key, data) ==                          \* mutant
  [slot |-> [i \in DOMAIN pool.slot \cup {pool.pos} |->
               IF i = pool.pos THEN [key |-> key, data |-> data] ELSE pool.slot[i]],
   pos  |-> IF pool.pos = size THEN 0 ELSE pool.pos + 1]

(* The slot under the cursor is overwritten and the cursor moves on. *)
SavePool(pool, size, key, data) ==
  [slot |-> [i \in DOMAIN pool.slot \cup {pool.pos} |->
               IF i = pool.pos THEN [key |-> key, data |-> data] ELSE pool.slot[i]],
   pos  |-> IF pool.pos + 1 = size THEN 0 ELSE pool.pos + 1]

MatchingAny(pool, key) == DOMAIN pool.slot                        \* mutant

Matching(pool, key) == {i \in DOMAIN pool.slot : pool.slot[i].key = key}

IsCached(pool, key) == Matching(pool, key) # {}

(* The scan starts at slot 0 and stops at the first element of the key. *)
Cached(pool, key) ==
  pool.slot[CHOOSE i \in Matching(pool, key) :
              \A j \in Matching(pool, key) : i <= j].data
==============================================================================
