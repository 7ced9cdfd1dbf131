----------------------------- MODULE CacheFiles -----------------------------
(***************************************************************************)
(* The cache files of word indexes (class cache_file of lib/stddict.cpp):  *)
(* a process that loads a dictionary maps the table of page offsets that   *)
(* an earlier run saved, or computes it and saves it.  The table is looked *)
(* for, and written, first beside the dictionary and then in the cache     *)
(* directory of the user, where dictionaries of the same file name share   *)
(* a chain of names: x.idx.oft, x(2).idx.oft, ...                          *)
(*                                                                         *)
(* All dictionaries here have one file name and indexes of as many pages:  *)
(* that is where caches can be mistaken for one another, since a cache of  *)
(* another length is told by its size.  A file is written in two blocks,   *)
(* the table and then the text that names the index, and the index is      *)
(* opened last, after the cache was checked or written; a process may      *)
(* crash, and the index may be replaced, between any two of these steps.   *)
(***************************************************************************)
EXTENDS Naturals

CONSTANTS
  Dicts,      \* dictionaries of one file name, in directories of their own
  UserCache,  \* the cache directory of the user
  Nil,        \* no file, no table, no dictionary
  MaxSlot,    \* bound: names in a chain
  MaxTime,    \* seconds
  MaxVersion  \* versions of a dictionary that are installed

\* A table of offsets is known by the index it was computed from.
Tables == Dicts \X Nat
CacheFile == [table : {Nil} \cup Tables, url : {Nil} \cup Dicts, mtime : Nat]

ASSUME CacheAssumption ==
  /\ UserCache \notin Dicts
  /\ Nil \notin Dicts /\ Nil \notin Tables /\ Nil \notin CacheFile
  /\ MaxSlot \in Nat \ {0}
  /\ MaxTime \in Nat /\ MaxVersion \in Nat

VARIABLES
  writable, \* the dictionaries whose directory can be written to
  clock,    \* the time, in seconds as in st_mtime
  index,    \* the index file of each dictionary: its version and st_mtime
  files,    \* the cache files: the table, the index they name, st_mtime
  loaded,   \* the table in use for each dictionary, and the index it is open with
  saving,   \* the save_cache in progress: dictionary, table, place
  opening,  \* the index about to be opened: dictionary, table in memory
  saved,    \* history: dictionaries whose cache was written and must still be there
  misdated, \* history: those whose index got a date that hides its change
  overtaken \* history: those whose index was replaced after its table was read or
            \* its cache checked and before it was opened, until the next load

cacheVars == <<writable, clock, index, files, loaded, saving, opening,
               saved, misdated, overtaken>>

Places == (Dicts \cup {UserCache}) \X (1 .. MaxSlot)

TableOf(d) == <<d, index[d].version>>

\* What find_and_load_cache_file and find_and_open_for_overwrite_cache_file
\* take for a cache: the text after the table and the byte 0 at its end.
Complete(f) == f # Nil /\ f.table # Nil /\ f.url # Nil

\* A file of a chain that stands for another index is passed by; the walk stops at
\* the first other one: the cache of d, a torn file, or a name not yet used.
PassedBy(f, d) == Complete(f) /\ f.url # d

Stops(dir, d) ==
  {q \in {dir} \X (1 .. MaxSlot) :
     /\ ~ PassedBy(files[q], d)
     /\ \A n \in 1 .. (q[2] - 1) : PassedBy(files[<<dir, n>>], d)}

\* Fault: a cache is taken whatever its date.
UsableOfAnyDate(f, d) == Complete(f) /\ f.url = d

Usable(f, d) == Complete(f) /\ f.url = d /\ f.mtime >= index[d].mtime

\* load_cache: beside the dictionary, then in the cache directory; what stands
\* where the walk stops is used or nothing is.
Found(d) ==
  LET usable == {q \in Stops(d, d) \cup Stops(UserCache, d) : Usable(files[q], d)}
      beside == {q \in usable : q[1] = d}
  IN  IF beside # {} THEN beside ELSE usable

\* Fault: an outdated cache of the same index is passed by when saving.
SavePlacesUnused(dir, d) ==
  {q \in {dir} \X (1 .. MaxSlot) :
     /\ ~ Complete(files[q])
     /\ \A n \in 1 .. (q[2] - 1) : Complete(files[<<dir, n>>])}

SavePlaces(dir, d) == Stops(dir, d)

\* save_cache: the first directory in which the file can be opened.
SaveDir(d) == IF d \in writable THEN d ELSE UserCache

-----------------------------------------------------------------------------
\* Files of earlier runs: none, a torn one, or one that came along with a copy
\* of the directory of another dictionary.
Leftover == {Nil, [table |-> Nil, url |-> Nil, mtime |-> 0]}
              \cup {[table |-> <<d, 0>>, url |-> d, mtime |-> 0] : d \in Dicts}

CacheInit ==
  /\ writable \in SUBSET Dicts
  /\ clock = 0
  /\ index = [d \in Dicts |-> [version |-> 0, mtime |-> 0]]
  /\ \E f \in [Dicts -> Leftover] :
       files = [q \in Places |-> IF q[2] = 1 /\ q[1] \in Dicts THEN f[q[1]] ELSE Nil]
  /\ loaded = [d \in Dicts |-> Nil]
  /\ saving = Nil /\ opening = Nil
  /\ saved = {} /\ misdated = {} /\ overtaken = {}

\* The process loads its dictionaries one after the other.
Idle == saving = Nil /\ opening = Nil

BeginsLoad(d) == Idle /\ loaded[d] = Nil /\ overtaken' = overtaken \ {d}

\* offset_index::load with a cache that load_cache accepts, by the date the index
\* has now.
LoadCached(d) ==
  /\ BeginsLoad(d)
  /\ \E q \in Found(d) : opening' = [dict |-> d, table |-> files[q].table]
  /\ UNCHANGED <<writable, clock, index, files, loaded, saving, saved, misdated>>

\* offset_index::load without: the index is read through, and save_cache opens
\* the file it writes, which empties it ...
LoadIndex(d) ==
  /\ BeginsLoad(d) /\ Found(d) = {}
  /\ \E q \in SavePlaces(SaveDir(d), d) :
         /\ files' = [files EXCEPT ![q] = [table |-> Nil, url |-> Nil, mtime |-> clock]]
         /\ saving' = [dict |-> d, table |-> TableOf(d), place |-> q]
  /\ UNCHANGED <<writable, clock, index, loaded, opening, saved, misdated>>

\* ... or no cache is made: CreateCacheFile is off, or no file could be opened.
LoadUnsaved(d) ==
  /\ BeginsLoad(d) /\ Found(d) = {}
  /\ opening' = [dict |-> d, table |-> TableOf(d)]
  /\ UNCHANGED <<writable, clock, index, files, loaded, saving, saved, misdated>>

WriteTable ==
  /\ saving # Nil /\ files[saving.place].table = Nil
  /\ files' = [files EXCEPT ![saving.place].table = saving.table, ![saving.place].mtime = clock]
  /\ UNCHANGED <<writable, clock, index, loaded, saving, opening, saved, misdated, overtaken>>

\* The text and fclose.
WriteText ==
  /\ saving # Nil /\ files[saving.place].table # Nil
  /\ files' = [files EXCEPT ![saving.place].url = saving.dict, ![saving.place].mtime = clock]
  /\ saving' = Nil
  /\ opening' = [dict |-> saving.dict, table |-> saving.table]
  /\ saved' = saved \cup {saving.dict}
  /\ UNCHANGED <<writable, clock, index, loaded, misdated, overtaken>>

\* The index, as it is by now, is opened for good.
OpenIndex ==
  /\ opening # Nil
  /\ loaded' = [loaded EXCEPT ![opening.dict] =
                  [table |-> opening.table, open |-> index[opening.dict].version]]
  /\ opening' = Nil
  /\ UNCHANGED <<writable, clock, index, files, saving, saved, misdated, overtaken>>

\* Libs::reload drops a dictionary.
Unload(d) ==
  /\ Idle /\ loaded[d] # Nil
  /\ loaded' = [loaded EXCEPT ![d] = Nil]
  /\ UNCHANGED <<writable, clock, index, files, saving, opening, saved, misdated, overtaken>>

\* The process ends, or is killed in the middle of a load.
Crash ==
  /\ ~Idle \/ \E d \in Dicts : loaded[d] # Nil
  /\ loaded' = [d \in Dicts |-> Nil]
  /\ saving' = Nil /\ opening' = Nil
  /\ UNCHANGED <<writable, clock, index, files, saved, misdated, overtaken>>

\* RemoveCacheFiles: every cache in the directories that can be written to.
CleanCache ==
  /\ Idle
  /\ files' = [q \in Places |-> IF q[1] \in writable \cup {UserCache} THEN Nil ELSE files[q]]
  /\ saved' = {}
  /\ UNCHANGED <<writable, clock, index, loaded, saving, opening, misdated, overtaken>>

\* Another version of a dictionary is installed.  Its date hides the change
\* when it is not later than that of a cache, or when the old index has been
\* read and the cache is still being written.
Install(d, date) ==
  /\ date <= clock
  /\ index' = [index EXCEPT ![d] = [version |-> @.version + 1, mtime |-> date]]
  /\ misdated' = IF \/ \E q \in Places : files[q] # Nil /\ files[q].url = d /\ files[q].mtime >= date
                    \/ saving # Nil /\ saving.dict = d
                 THEN misdated \cup {d} ELSE misdated
  /\ overtaken' = IF opening # Nil /\ opening.dict = d THEN overtaken \cup {d} ELSE overtaken
  /\ saved' = saved \ {d}
  /\ UNCHANGED <<writable, clock, files, loaded, saving, opening>>

Tick ==
  /\ clock' = clock + 1
  /\ UNCHANGED <<writable, index, files, loaded, saving, opening, saved, misdated, overtaken>>

CacheNext ==
  \/ \E d \in Dicts : LoadCached(d) \/ LoadIndex(d) \/ LoadUnsaved(d) \/ Unload(d)
  \/ \E d \in Dicts, date \in 0 .. MaxTime : index[d].version < MaxVersion /\ Install(d, date)
  \/ WriteTable \/ WriteText \/ OpenIndex \/ Crash \/ CleanCache
  \/ clock < MaxTime /\ Tick

CacheSpec == CacheInit /\ [][CacheNext]_cacheVars

-----------------------------------------------------------------------------
\* The pages of an open index are found with offsets computed from that very
\* index, never from an older one or another dictionary's, whatever was torn by a
\* crash, left by other dictionaries of the name or copied along.  Excepted are an
\* index given a date that hides that it changed, and one replaced in the middle of
\* its load, after it was read or its cache checked by its date and before it was
\* opened for good: until the next load, which puts it right.
OffsetsFitTheIndex ==
  \A d \in Dicts : loaded[d] # Nil /\ d \notin misdated /\ d \notin overtaken
                     => loaded[d].table = <<d, loaded[d].open>>

\* A cache once saved is found when its dictionary is loaded again, as long as the
\* index is the same and the cache was not cleaned away: no other dictionary of the
\* name overwrites it or stands before it in the chain, and no outdated cache of its
\* own does.  (A torn file before it, left by another dictionary's crash, hides it.)
SavedIsFound ==
  \A d \in saved :
    (\A q \in Places : q[1] \in {d, UserCache} => files[q] = Nil \/ Complete(files[q]))
      => Found(d) # {}
=============================================================================
