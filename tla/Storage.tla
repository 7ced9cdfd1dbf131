------------------------------ MODULE Storage -------------------------------
(***************************************************************************)
(* The resources of articles: sounds, videos and attachments behind        *)
(* buttons in the text (lib/storage.cpp, class ResData of articleview.cpp).*)
(* A dictionary keeps them in a directory or in a database with an index.  *)
(* What comes out of a database for a player is written to a temporary     *)
(* file, which the last FileHolder that points at it removes; the database *)
(* keeps the last few of them in a ring, and what it read last in another. *)
(*                                                                         *)
(* A resource is <<dictionary, key>>.  Pages of the index are reloaded     *)
(* whenever another one is needed, so the page in memory is not state.     *)
(***************************************************************************)
EXTENDS PagedIndex, CachePool

CONSTANTS
  Dicts,         \* dictionaries with resources
  Setups,        \* what each may keep, and how: in a "directory", or in a database
                 \* whose index is read by pages ("paged") or whole ("memory")
  Key,           \* keys that articles name
  Button,        \* buttons in the text
  File,          \* names of temporary files
  FileCacheSize, \* FILE_CACHE_SIZE
  ResCacheSize,  \* RES_DICT_CACHE_SIZE
  Nil,           \* nothing
  Bad,           \* what an error of fread or write leaves, or no file at all
  Stray            \* what is read through a stale pointer or past the end of oLib

Resource == Dicts \X Key

\* The ResData of a button: iLib, key, file; and, as history, the dictionary it is for
\* and whether a reload put another in its place.
ResData == [iLib : Nat, key : Key, file : {Nil} \cup File \cup Resource,
            of : Dicts, moved : BOOLEAN]

\* What a dictionary may keep: an index has keys, in the order of strcmp
\* (doc/StarDictFileFormat), and its pages or all of it are searched by halves.
Form == [form : {"directory", "paged", "memory"}, keys : Seq(Word)]

IsIndex(keys) ==
  /\ keys # <<>>
  /\ \A i, j \in DOMAIN keys : i <= j => Strcmp(keys[j], keys[i]) >= 0

ASSUME StorageAssumption ==
  /\ FileCacheSize \in Nat \ {0} /\ ResCacheSize \in Nat \ {0}
  /\ IsFiniteSet(Dicts) /\ IsFiniteSet(Button)
  /\ Key \subseteq Word
  /\ \A st \in Setups : /\ st \in [Dicts -> Form]
                        /\ \A d \in Dicts : st[d].form # "directory" => IsIndex(st[d].keys)

\* A temporary file has a name of its own, and nothing is not one.
ASSUME NamesAssumption ==
  /\ Nil \notin File /\ Nil \notin Resource /\ Nil \notin ResData
  /\ File \cap Resource = {}

VARIABLES
  store,     \* the storage of each dictionary on disk: its form, its keys in order
  libs,      \* oLibs: the dictionaries in use
  temp,      \* temporary files that exist: what they hold, how many FileHolders they have
  fileCache, \* FileCache and cur_cache_ind of each database
  resCache,  \* cache and cache_cur of each ResDict
  buttons,   \* the ResData of each button: iLib, key, file; and the dictionary it is for
  dialog,    \* the button whose file chooser is open, and whether its ResData still exists
  given      \* history: the resource handed out by the step just taken

storageVars == <<store, libs, temp, fileCache, resCache, buttons, dialog, given>>

-----------------------------------------------------------------------------
(* FileHolder                                                              *)

AddRef(t, h) == [f \in DOMAIN t |-> IF f = h THEN [t[f] EXCEPT !.count = @ + 1] ELSE t[f]]

\* The last one removes the file.
Release(t, h) ==
  [f \in {g \in DOMAIN t : g # h \/ t[g].count > 1} |->
     IF f = h THEN [t[f] EXCEPT !.count = @ - 1] ELSE t[f]]

\* Holders go, each from the file that `held' says it points at.
ReleaseAll(t, held) ==
  LET Of(f) == {x \in DOMAIN held : held[x] = f}
  IN  [f \in {g \in DOMAIN t : t[g].count > Cardinality(Of(g))} |->
         [t[f] EXCEPT !.count = @ - Cardinality(Of(f))]]

Assign(t, old, new) == Release(AddRef(t, new), old)

\* open_temp_file and write: a name not in use, held by a local variable.
Unused(t) == File \ DOMAIN t

Create(t, f, data) ==
  [g \in DOMAIN t \cup {f} |-> IF g = f THEN [data |-> data, count |-> 1] ELSE t[g]]

-----------------------------------------------------------------------------
(* The index of a database                                                 *)

\* Fault: the last key of a page is left out.
KeyOnPageShort(keys, w, p) ==
  LET cmp == [s \in 1 .. (Nentr(keys, p) - 1) |-> Strcmp(w, Entries(keys, p)[s])]
  IN  BinarySearch(cmp, 1, Nentr(keys, p) - 2).found

\* The first key of the page needs no look: the search among the pages saw it.
KeyOnPage(keys, w, p) ==
  LET cmp == [s \in 1 .. (Nentr(keys, p) - 1) |-> Strcmp(w, Entries(keys, p)[s])]
  IN  BinarySearch(cmp, 1, Nentr(keys, p) - 1).found

\* offset_rindex::lookup: the page whose first key is the last not after w.
PagedLookup(keys, w) ==
  LET r == BinarySearch([p \in 0 .. LastPage(keys) |-> Strcmp(w, FirstOnPageKey(keys, p))],
                        0, LastPage(keys))
  IN  /\ Strcmp(w, FirstKey(keys)) >= 0 /\ Strcmp(w, LastKey(keys)) <= 0
      /\ r.found \/ KeyOnPage(keys, w, r.prev)

\* compressed_rindex::lookup
MemoryLookup(keys, w) ==
  /\ Strcmp(w, FirstKey(keys)) >= 0 /\ Strcmp(w, LastKey(keys)) <= 0
  /\ BinarySearch([i \in 0 .. (Len(keys) - 1) |-> Strcmp(w, KeyAt(keys, i))],
                  0, Len(keys) - 1).found

InStorage(d, w) ==
  CASE store[d].form = "paged"     -> PagedLookup(store[d].keys, w)
    [] store[d].form = "memory"    -> MemoryLookup(store[d].keys, w)
    [] store[d].form = "directory" -> \E i \in DOMAIN store[d].keys : store[d].keys[i] = w

-----------------------------------------------------------------------------
\* ResDict::GetData: what is in the ring, or what the disk gives, kept in the ring.
Data(d, w) == IF IsCached(resCache[d], w) THEN {Cached(resCache[d], w)} ELSE {<<d, w>>, Bad}

AfterGetData(d, w, data) ==
  IF IsCached(resCache[d], w) THEN resCache
  ELSE [resCache EXCEPT ![d] = SavePool(@, ResCacheSize, w, data)]

\* The file a slot of the ring holds before it is overwritten.
Overwritten(pool) == IF pool.pos \in DOMAIN pool.slot THEN pool.slot[pool.pos].data ELSE Nil

\* What a player finds in the file of a holder: a file of a directory is its resource.
Content(t, h) == IF h \in File THEN t[h].data ELSE h

\* Fault: the ring keeps a file that no holder of its own counts.
KeptUncounted(t, f, old) == Release(t, old)

\* The rest of Database_ResourceStorage::get_file_path once the file is written: the ring
\* takes it from the file it evicts, a copy goes to the caller and the local one goes.
Kept(t, f, old) == Release(AddRef(Assign(t, old, f), f), f)

Given(b, data) == [for |-> <<buttons[b].of, buttons[b].key>>, moved |-> buttons[b].moved,
                   gone |-> FALSE, data |-> data]

\* What comes of a ResData that was deleted before it was asked: anything.
GivenByGone == [for |-> Stray, moved |-> FALSE, gone |-> TRUE, data |-> Stray]

-----------------------------------------------------------------------------
EmptyCaches == [d \in Dicts |-> EmptyPool]

StorageInit ==
  /\ store \in Setups
  /\ libs \in {l \in [1 .. Cardinality(Dicts) -> Dicts] : \A i, j \in DOMAIN l : l[i] = l[j] => i = j}
  /\ temp = [f \in {} |-> Nil]
  /\ fileCache = EmptyCaches /\ resCache = EmptyCaches
  /\ buttons = [b \in Button |-> Nil]
  /\ dialog = Nil
  /\ given = Nil

\* append_data_res_sound, _video and _attachment: an article of dictionary i of
\* those in use is shown that names a resource, be it there or not.
AppendButton(b, i, w) ==
  /\ buttons[b] = Nil
  /\ dialog # Nil => dialog.button # b
  /\ buttons' = [buttons EXCEPT ![b] =
                   [iLib |-> i, key |-> w, file |-> Nil, of |-> libs[i], moved |-> FALSE]]
  /\ given' = Nil
  /\ UNCHANGED <<store, libs, temp, fileCache, resCache, dialog>>

\* The text is replaced: on_resource_button_destroy for every button, also while a
\* file chooser is open, since timers and answers of the network go on.
ClearText ==
  /\ \E b \in Button : buttons[b] # Nil
  /\ temp' = ReleaseAll(temp, [b \in {c \in Button : buttons[c] # Nil} |-> buttons[b].file])
  /\ buttons' = [b \in Button |-> Nil]
  /\ dialog' = IF dialog = Nil THEN Nil ELSE [dialog EXCEPT !.alive = FALSE]
  /\ given' = Nil
  /\ UNCHANGED <<store, libs, fileCache, resCache>>

\* The dictionary a button asks: there may be none any more at its place.
InRange(b) == buttons[b].iLib \in DOMAIN libs
Asked(b) == libs[buttons[b].iLib]

\* on_sound_button_clicked and on_video_button_clicked: ResData::get_url.
\* The file was asked for before.
PlayHeld(b) ==
  /\ buttons[b].file # Nil
  /\ given' = Given(b, Content(temp, buttons[b].file))
  /\ UNCHANGED <<temp, fileCache, resCache, buttons>>

\* The dictionary is no longer there.
PlayPastEnd(b) ==
  /\ buttons[b].file = Nil /\ ~ InRange(b)
  /\ given' = Given(b, Stray)
  /\ UNCHANGED <<temp, fileCache, resCache, buttons>>

\* A file of the ring is found: get_file_path returns a copy, operator= takes it.
PlayCached(b) ==
  /\ buttons[b].file = Nil /\ InRange(b)
  /\ store[Asked(b)].form # "directory" /\ IsCached(fileCache[Asked(b)], buttons[b].key)
  /\ LET f == Cached(fileCache[Asked(b)], buttons[b].key)
     IN  /\ temp' = Release(Assign(AddRef(temp, f), Nil, f), f)
         /\ buttons' = [buttons EXCEPT ![b].file = f]
         /\ given' = Given(b, Content(temp, f))
  /\ UNCHANGED <<fileCache, resCache>>

\* The resource is read and written to a new temporary file; an error of write is
\* printed and no more.
PlayNew(b) ==
  /\ buttons[b].file = Nil /\ InRange(b)
  /\ LET d == Asked(b)  w == buttons[b].key
     IN  /\ store[d].form # "directory" /\ ~ IsCached(fileCache[d], w) /\ InStorage(d, w)
         /\ \E data \in Data(d, w), written \in BOOLEAN, f \in Unused(temp) :
              /\ resCache' = AfterGetData(d, w, data)
              /\ temp' = Kept(Create(temp, f, IF written THEN data ELSE Bad), f,
                              Overwritten(fileCache[d]))
              /\ given' = Given(b, IF written THEN data ELSE Bad)
              /\ fileCache' = [fileCache EXCEPT ![d] = SavePool(@, FileCacheSize, w, f)]
              /\ buttons' = [buttons EXCEPT ![b].file = f]

\* The temporary file cannot be made.
PlayNoTemp(b) ==
  /\ buttons[b].file = Nil /\ InRange(b)
  /\ LET d == Asked(b)  w == buttons[b].key
     IN  /\ store[d].form # "directory" /\ ~ IsCached(fileCache[d], w) /\ InStorage(d, w)
         /\ \E data \in Data(d, w) : resCache' = AfterGetData(d, w, data)
  /\ given' = Given(b, Bad)
  /\ UNCHANGED <<temp, fileCache, buttons>>

\* A directory gives the file itself.
PlayFile(b) ==
  /\ buttons[b].file = Nil /\ InRange(b)
  /\ LET d == Asked(b)  w == buttons[b].key
     IN  /\ store[d].form = "directory" /\ InStorage(d, w)
         /\ buttons' = [buttons EXCEPT ![b].file = <<d, w>>]
         /\ given' = Given(b, <<d, w>>)
  /\ UNCHANGED <<temp, fileCache, resCache>>

\* There is no such key.
PlayUnknown(b) ==
  /\ buttons[b].file = Nil /\ InRange(b)
  /\ ~ InStorage(Asked(b), buttons[b].key)
  /\ given' = Given(b, Nil)
  /\ UNCHANGED <<temp, fileCache, resCache, buttons>>

Play(b) ==
  /\ dialog = Nil /\ buttons[b] # Nil
  /\ \/ PlayHeld(b) \/ PlayPastEnd(b) \/ PlayCached(b) \/ PlayNew(b)
     \/ PlayNoTemp(b) \/ PlayFile(b) \/ PlayUnknown(b)
  /\ UNCHANGED <<store, libs, dialog>>

\* on_attachment_button_clicked opens a file chooser and keeps its ResData.
OpenDialog(b) ==
  /\ dialog = Nil /\ buttons[b] # Nil
  /\ dialog' = [button |-> b, alive |-> TRUE]
  /\ given' = Nil
  /\ UNCHANGED <<store, libs, temp, fileCache, resCache, buttons>>

\* The answer of the chooser: ResData::get_content.  The chooser kept its ResData, which
\* was deleted if the text was replaced in the meantime: get_content is called of it
\* all the same.
Save ==
  /\ dialog # Nil
  /\ \/ /\ ~ dialog.alive
        /\ given' = GivenByGone /\ UNCHANGED resCache
     \/ /\ dialog.alive /\ ~ InRange(dialog.button)
        /\ given' = Given(dialog.button, Stray) /\ UNCHANGED resCache
     \/ /\ dialog.alive /\ InRange(dialog.button)
        /\ LET b == dialog.button  d == Asked(b)  w == buttons[b].key
           IN  IF ~ InStorage(d, w)
               THEN given' = Given(b, Nil) /\ UNCHANGED resCache
               ELSE IF store[d].form = "directory"
               THEN given' = Given(b, <<d, w>>) /\ UNCHANGED resCache
               ELSE \E data \in Data(d, w) :
                      given' = Given(b, data) /\ resCache' = AfterGetData(d, w, data)
  /\ dialog' = Nil
  /\ UNCHANGED <<store, libs, temp, fileCache, buttons>>

Cancel ==
  /\ dialog # Nil
  /\ dialog' = Nil
  /\ given' = Nil
  /\ UNCHANGED <<store, libs, temp, fileCache, resCache, buttons>>

\* Libs::reload: other dictionaries in another order; those dropped are deleted
\* with their rings, all of them when the collation changes.  The text stays.
Reload(new, all) ==
  LET gone == {d \in Dicts : all \/ ~ \E i \in DOMAIN new : new[i] = d}
      Files(d) == {<<d, s>> : s \in DOMAIN fileCache[d].slot}
  IN  /\ dialog = Nil
      /\ libs' = new
      /\ temp' = ReleaseAll(temp, [s \in UNION {Files(d) : d \in gone} |->
                                     fileCache[s[1]].slot[s[2]].data])
      /\ fileCache' = [d \in Dicts |-> IF d \in gone THEN EmptyPool ELSE fileCache[d]]
      /\ resCache' = [d \in Dicts |-> IF d \in gone THEN EmptyPool ELSE resCache[d]]
      /\ buttons' = [b \in Button |->
           IF buttons[b] = Nil THEN Nil
           ELSE [buttons[b] EXCEPT !.moved = @ \/ ~ (/\ buttons[b].iLib \in DOMAIN new
                                                      /\ new[buttons[b].iLib] = buttons[b].of)]]
      /\ given' = Nil
      /\ UNCHANGED <<store, dialog>>

LoadLists ==
  {l \in UNION {[1 .. n -> Dicts] : n \in 0 .. Cardinality(Dicts)} :
     \A i, j \in DOMAIN l : l[i] = l[j] => i = j}

StorageNext ==
  \/ \E b \in Button : Play(b) \/ OpenDialog(b)
  \/ \E b \in Button, w \in Key : \E i \in DOMAIN libs : AppendButton(b, i, w)
  \/ ClearText \/ Save \/ Cancel
  \/ \E l \in LoadLists, all \in BOOLEAN : Reload(l, all)

StorageSpec == StorageInit /\ [][StorageNext]_storageVars

-----------------------------------------------------------------------------
\* The FileHolders that point at a file: those of buttons and those of the rings.
ButtonHolders(f) == {b \in Button : buttons[b] # Nil /\ buttons[b].file = f}

SlotHolders(f) ==
  {s \in Dicts \X Slots(FileCacheSize) :
     s[2] \in DOMAIN fileCache[s[1]].slot /\ fileCache[s[1]].slot[s[2]].data = f}

Holders(f) == Cardinality(ButtonHolders(f)) + Cardinality(SlotHolders(f))

\* Through copies, assignments, eviction from the ring, replaced texts and reloaded
\* dictionaries a temporary file is counted once for each holder that points at it:
\* it is there as long as a button or the ring may give it out, and is removed with
\* the last of them.
CountsItsHolders ==
  \A f \in File :
    IF f \in DOMAIN temp THEN temp[f].count = Holders(f) /\ Holders(f) # 0
                         ELSE Holders(f) = 0

\* What a button gives is the resource its article names, whatever other buttons and
\* dictionaries did with the rings; only an error of the disk excuses another, and
\* nothing is given only for a key that the dictionary does not have.  Two cases are
\* left out, since nothing holds of them: a button whose dictionary was moved by a
\* reload, and a file chooser that is answered after its button was deleted.
GivesItsResource ==
  given # Nil /\ ~ given.moved /\ ~ given.gone =>
    IF \E i \in DOMAIN store[given.for[1]].keys : store[given.for[1]].keys[i] = given.for[2]
    THEN given.data \in {given.for, Bad}
    ELSE given.data = Nil
=============================================================================
