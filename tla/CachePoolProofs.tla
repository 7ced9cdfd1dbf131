--------------------------- MODULE CachePoolProofs ---------------------------
(***************************************************************************)
(* What the operations of CachePool preserve, for pools of any size, and   *)
(* what the proofs about its users share besides: induction in the form    *)
(* they can cite, over sets of numbers, quotients and remainders, and what *)
(* Ascending picks.                                                        *)
(***************************************************************************)
EXTENDS CachePool, Subsequences, WellFoundedInduction, TLAPS

(* Every set of numbers has a least one. *)
LEMMA LeastNumber ==
  ASSUME NEW S \in SUBSET Nat, S # {}
  PROVE  \E m \in S : \A k \in S : m <= k
<1>1. PICK m \in S : \A k \in S : ~ <<k, m>> \in OpToRel(<, Nat)
  BY NatLessThanWellFounded, WFMin
<1>2. \A k \in S : ~ (k < m)
  BY <1>1 DEF OpToRel
<1>3. QED
  BY <1>2

(* What holds of 0 and goes over from each number to the next, up to n,
   holds of all of them: a loop that counts to n keeps its invariant.     *)
LEMMA CountingUp ==
  ASSUME NEW n \in Nat, NEW T, 0 \in T, \A k \in 1 .. n : k - 1 \in T => k \in T
  PROVE  \A k \in 0 .. n : k \in T
<1> DEFINE Out == {k \in 0 .. n : k \notin T}
<1> SUFFICES ASSUME Out # {} PROVE FALSE
  OBVIOUS
<1>1. PICK m \in Out : \A k \in Out : m <= k
  <2> Out \in SUBSET Nat
    OBVIOUS
  <2> QED
    BY LeastNumber
<1>2. m \in 1 .. n /\ m - 1 \in T
  BY <1>1
<1>3. QED
  BY <1>2

(* Multiples follow each other. *)
LEMMA TimesMonotonic ==
  ASSUME NEW m \in Nat, NEW n \in Nat, NEW c \in Nat, m <= n
  PROVE  m * c \in Nat /\ n * c \in Nat /\ m * c <= n * c
<1>1. PICK d \in Nat : n = m + d
  <2>1. n - m \in Nat /\ n = m + (n - m)
    OBVIOUS
  <2>2. QED
    BY <2>1
<1>2. n * c = m * c + d * c
  BY <1>1
<1>3. d * c \in Nat /\ m * c \in Nat
  OBVIOUS
<1>4. QED
  BY <1>2, <1>3

(* Quotient and remainder. *)
LEMMA DivMod ==
  ASSUME NEW n \in Nat, NEW c \in Nat \ {0}
  PROVE  n \div c \in Nat /\ n % c \in 0 .. (c - 1) /\ n = (n \div c) * c + (n % c)
<1>1. n \div c \in Nat
  OBVIOUS
<1>2. n % c \in 0 .. (c - 1)
  OBVIOUS
<1>3. n = c * (n \div c) + (n % c)
  OBVIOUS
<1>4. \A x, y \in Int : x * y = y * x
  OBVIOUS
<1>5. c * (n \div c) = (n \div c) * c
  BY <1>1, <1>4
<1>6. QED
  BY <1>1, <1>2, <1>3, <1>5

(* There is one way to write a number so. *)
LEMMA DivModUnique ==
  ASSUME NEW c \in Nat \ {0}, NEW q \in Nat, NEW r \in 0 .. (c - 1), NEW n, n = q * c + r
  PROVE  n \in Nat /\ n \div c = q /\ n % c = r
<1> DEFINE d == n \div c
           m == n % c
<1>1. q * c \in Nat /\ n \in Nat
  OBVIOUS
<1>2. d \in Nat /\ m \in 0 .. (c - 1) /\ n = d * c + m
  BY <1>1, DivMod
<1> HIDE DEF d, m
<1>3. d * c \in Nat
  BY <1>2
<1>4. d = q
  <2>1. CASE d < q
    <3>1. (d + 1) * c <= q * c
      BY <1>2, <2>1, TimesMonotonic
    <3>2. (d + 1) * c = d * c + c
      BY <1>2
    <3>3. QED
      BY <1>1, <1>2, <1>3, <3>1, <3>2
  <2>2. CASE q < d
    <3>1. (q + 1) * c <= d * c
      BY <1>2, <2>2, TimesMonotonic
    <3>2. (q + 1) * c = q * c + c
      OBVIOUS
    <3>3. QED
      BY <1>1, <1>2, <1>3, <3>1, <3>2
  <2>3. QED
    BY <1>2, <2>1, <2>2
<1>5. m = r
  BY <1>1, <1>2, <1>4
<1>6. QED
  BY <1>1, <1>4, <1>5 DEF d, m

(* What Ascending picks is a sequence of positions that are asked for. *)
LEMMA AscendingPicks ==
  ASSUME NEW n \in Nat, NEW P, NEW p \in Ascending(P, n)
  PROVE  p \in Seq(P) /\ Len(p) \in Nat /\ DOMAIN p = 1 .. Len(p)
           /\ \A i \in 1 .. Len(p) : p[i] \in P
<1>1. PICK k \in 0 .. n : p \in [1 .. k -> P]
  BY DEF Ascending
<1>2. QED
  BY <1>1

Elements(pool) == {pool.slot[i] : i \in DOMAIN pool.slot}

(* A pool is a cursor and elements in some of the slots (StarDictCache's
   vectors, of which an unused slot holds a null pointer).                *)
LEMMA PoolShape ==
  ASSUME NEW size, NEW Key, NEW Data, NEW pool
  PROVE  pool \in Pool(size, Key, Data) <=>
           /\ pool = [slot |-> pool.slot, pos |-> pool.pos]
           /\ DOMAIN pool.slot \subseteq Slots(size)
           /\ pool.slot \in [DOMAIN pool.slot -> [key : Key, data : Data]]
           /\ pool.pos \in Slots(size)
<1> DEFINE Slot == UNION {[D -> [key : Key, data : Data]] : D \in SUBSET Slots(size)}
<1>1. \A f : f \in Slot <=> /\ DOMAIN f \subseteq Slots(size)
                            /\ f \in [DOMAIN f -> [key : Key, data : Data]]
  OBVIOUS
<1>2. Pool(size, Key, Data) = [slot : Slot, pos : Slots(size)]
  BY DEF Pool
<1> HIDE DEF Slot
<1>3. QED
  BY <1>1, <1>2

(* The pools StarDictCache's constructor makes are pools. *)
LEMMA EmptyPoolIsPool ==
  ASSUME NEW size \in Nat \ {0}, NEW Key, NEW Data
  PROVE  /\ EmptyPool \in Pool(size, Key, Data)
         /\ Elements(EmptyPool) = {}
<1>1. 0 \in Slots(size)
  BY DEF Slots
<1>2. QED
  BY <1>1, PoolShape DEF EmptyPool, Elements

(* clean_all_cache leaves a pool with nothing in it. *)
LEMMA CleanPoolIsPool ==
  ASSUME NEW size, NEW Key, NEW Data, NEW pool \in Pool(size, Key, Data)
  PROVE  /\ CleanPool(pool) \in Pool(size, Key, Data)
         /\ Elements(CleanPool(pool)) = {}
<1> DEFINE none == [i \in {} |-> i]
<1>1. CleanPool(pool) = [slot |-> none, pos |-> pool.pos]
  BY PoolShape DEF CleanPool
<1>2. DOMAIN none = {} /\ none \in [{} -> [key : Key, data : Data]]
  OBVIOUS
<1>3. pool.pos \in Slots(size)
  BY PoolShape
<1> HIDE DEF none
<1>4. CleanPool(pool).slot = none /\ CleanPool(pool).pos = pool.pos
  BY <1>1
<1>5. CleanPool(pool) \in Pool(size, Key, Data)
  BY <1>1, <1>2, <1>3, <1>4, PoolShape
<1>6. QED
  BY <1>2, <1>4, <1>5 DEF Elements

(* clean_cache_str only takes elements away. *)
LEMMA CleanKeyIsPool ==
  ASSUME NEW size, NEW Key, NEW Data, NEW pool \in Pool(size, Key, Data), NEW key
  PROVE  /\ CleanKey(pool, key) \in Pool(size, Key, Data)
         /\ Elements(CleanKey(pool, key)) \subseteq Elements(pool)
<1> DEFINE Others == {j \in DOMAIN pool.slot : pool.slot[j].key # key}
<1>1. CleanKey(pool, key) = [slot |-> [i \in Others |-> pool.slot[i]], pos |-> pool.pos]
  BY PoolShape DEF CleanKey
<1>2. [i \in Others |-> pool.slot[i]] \in [Others -> [key : Key, data : Data]]
  BY PoolShape
<1>3. Others \subseteq Slots(size)
  BY PoolShape
<1>4. QED
  BY <1>1, <1>2, <1>3, PoolShape DEF Elements

(* save_cache_str and save_cache_lookup_response put one element in, under
   the cursor, and leave the cursor inside the pool.                      *)
LEMMA SavePoolIsPool ==
  ASSUME NEW size \in Nat \ {0}, NEW Key, NEW Data, NEW pool \in Pool(size, Key, Data),
         NEW key \in Key, NEW data \in Data
  PROVE  /\ SavePool(pool, size, key, data) \in Pool(size, Key, Data)
         /\ Elements(SavePool(pool, size, key, data))
              \subseteq Elements(pool) \cup {[key |-> key, data |-> data]}
<1> DEFINE Filled == DOMAIN pool.slot \cup {pool.pos}
           slot   == [i \in Filled |-> IF i = pool.pos THEN [key |-> key, data |-> data]
                                       ELSE pool.slot[i]]
           pos    == IF pool.pos + 1 = size THEN 0 ELSE pool.pos + 1
<1>1. SavePool(pool, size, key, data) = [slot |-> slot, pos |-> pos]
  BY DEF SavePool
<1>2. slot \in [Filled -> [key : Key, data : Data]]
  BY PoolShape
<1>3. Filled \subseteq Slots(size)
  BY PoolShape
<1>4. pos \in Slots(size)
  BY PoolShape DEF Slots
<1>5. [slot |-> slot, pos |-> pos] \in Pool(size, Key, Data)
  BY <1>2, <1>3, <1>4, PoolShape
<1>6. \A i \in Filled : slot[i] \in Elements(pool) \cup {[key |-> key, data |-> data]}
  BY DEF Elements
<1>7. QED
  BY <1>1, <1>5, <1>6 DEF Elements

(* get_cache_str and get_cache_lookup_response return the data of an
   element of the key.                                                     *)
LEMMA CachedIsElement ==
  ASSUME NEW size \in Nat, NEW Key, NEW Data, NEW pool \in Pool(size, Key, Data),
         NEW key, IsCached(pool, key)
  PROVE  \E e \in Elements(pool) : e.key = key /\ Cached(pool, key) = e.data
<1> DEFINE M == Matching(pool, key)
           First(i) == \A j \in M : i <= j
<1>1. M # {} /\ M \subseteq DOMAIN pool.slot /\ M \subseteq Slots(size)
  BY PoolShape DEF IsCached, Matching
<1>2. M \subseteq Nat
  BY <1>1 DEF Slots
<1>3. PICK i \in M : First(i)
  BY <1>1, <1>2, LeastNumber
<1>4. QED
  BY <1>1, <1>3 DEF Cached, Matching, Elements
==============================================================================
