# StarDict: specifications and proofs

This directory specifies in TLA+ the parts of StarDict (`src/dict`) whose correctness depends on the
order of events or on long sequences of calls: the connection to the dictionary server, the lookups of
the floating and of the main window, the history behind the entry, the scan of the selection and the
requests of network dictionaries, the index of a dictionary and its cache files, the list of words merged
over all dictionaries, the reading of articles from compressed files, and the storage of their
resources. TLC checks small instances, TLAPS proves what matters most for all of them.
Line numbers refer to files under `src/`; `PROJECT.json` maps every definition to its lines.

Contents: 1 the system, 2 the modules, 3 the runs, 4 fairness, 5 the proofs, 6 what the code does
against its word, 7 what is not modelled, 8 the plan.

## 1. The system

StarDict is a GTK program with one main loop. Everything happens in callbacks of that loop except name
resolution and `connect`, which run in threads of their own and come back through `g_idle_add`.

| Component | State | Operations | Talks to |
|---|---|---|---|
| `StarDictClient` (`lib/stardict_client.cpp`) | socket, channel and watch, queue of commands with the parse state of the front one, two pools of answers, account, server | `try_cache`, `send_commands`, `set_auth`, `set_server`, callbacks `on_resolved`, `on_connected`, `on_io_in_event` | server over a byte stream; windows through signals carrying the command's number |
| `Socket` (`lib/sockets.cpp`) | table of resolved names, threads | `resolve`, `connect`, `close` | client, by callbacks that are told only a result |
| `CompositeLookup` (`lib/compositelookup.cpp`) | requests made for one lookup | `new_lookup`, `send_*`, `got_*`, `is_got_all_responses` | asked by `AppCore` for the floating window |
| `FloatWin` (`floatwin.cpp`) | word, text, state of the content, timers, position | `StartLookup`, `AppendText*`, `EndLookup`, `ShowPangoTips`, timer | `AppCore`, user |
| `AppCore` (`stardict.cpp`) | the lookups under way | `SimpleLookupToFloat`, `SmartLookupToFloat`, `LookupNetDict`, answers' handlers, `ListWords` | all of the above |
| network dictionaries (plugins, `lib/http_client.cpp`) | requests, ring of answers per dictionary (`lib/netdictcache.cpp`) | `lookup`, response | web servers; `AppCore::show_netdict_resp` |
| `Libs`, `Dict`, `idxsyn_file` (`lib/stddict.cpp`) | one page (or all) of each index, cursors over the dictionaries | `Lookup`, `getWord`, `GetWordPrev/Next`, `poGetNextWord`, `poGetPreWord` | files; the list window |
| `ListWin` (`mainwin.cpp`) | the rows shown and their kind | `InsertLast`, `Prepend`, `MergeWordList`, `MergeFuzzyList` | `Libs`, server's lists |
| `DictBase`, `dictData` (`lib/dictbase.cpp`, `lib/dictziplib.cpp`) | ring of articles, cache of inflated chunks, stamp shared by all dictionaries, one zlib stream per file | `GetWordData`, `SearchData`, `read` | compressed file |
| index caches (`cache_file` in `lib/stddict.cpp`) | chains of `.oft` files beside the dictionaries and in a common directory | `load_cache`, `save_cache`, `CleanCache` | `offset_index::load`; other dictionaries of the same name |
| main-window lookups (`stardict.cpp`, `mainwin.cpp`) | entry, timer and delayed word, list, cached index, number awaited, what the text shows | typing, `on_word_change_timeout`, rows, `TopWinEnterWord`, searches, `do_prev`/`do_next`, `reload_dicts` | client, `Libs`, network dictionaries |
| history and back list (`mainwin.cpp`) | two bounded lists, an index into one, two buttons, a file | `InsertHisList`, `InsertBackList`, `do_back`, `do_forward`, `LoadHistory`, `SaveHistory` | entry, links, scan |
| HTTP requests (`lib/httpmanager.cpp`, `lib/http_client.cpp`, plugins) | the living clients, their threads and watches, the plugin's keywords, the ring of answers | `SendHttpGetRequest`, `on_resolved`, `on_connected`, watches, `on_http_client_response` | `Socket`, web servers, plugins |
| selection scan (`selection.cpp`) | timer, `IsBusy`, the request under way, the last text | `start`, `stop`, timer, answers of the owner, key and button | floating window |
| resource storage (`lib/storage.cpp`, `articleview.cpp`) | rings of temporary files and of resources, counted files, buttons of an article, a file chooser | `get_file_path`, `get_file_content`, buttons, `reload` | index files, players |
| plugins, dictionary management, articles on screen, settings, tools | | see section 7 | |

What is hard: attempts to connect that overlap; replies that carry no number and are matched to
commands by position; a queue that is dropped without telling who waits; no timeout on any request;
answers that come late, twice or from a cache, to lookups long replaced; an object deleted by the signal
it emits; one page and one cursor shared by calls that each rely on what the last one left; caches found
by a part of the key, trusted by a date, or torn by a crash; counted files shared by a ring and by
buttons; indices at the ends of pages, chunks, lists and counters. `PROJECT.json` lists these hazards line by
line with the properties about them.

What makes each part correct:

* client: an answer is emitted for, and kept under, the command it answers; answers come in order;
  nothing outdated by a new mask is kept; a connection starts with its greeting and ends;
* floating window: it says that a lookup is under way exactly while a response is expected, shows only
  the word it was opened for, no source's answer twice, and every lookup ends;
* index: a search finds a word exactly if it is there, steps to neighbours lose none, a suggestion is
  a closest word, whatever page is in memory;
* word list: it is the sorted union of the dictionaries, and so are its pages before and after; similar
  words are in the order of their likeness, none missing that is more like the word than one shown;
* dictionary data: what is handed out for an entry is the article the entry names;
* main window: the answer that is let in is the one to what was looked up last, and the article of another
  word stays only while an answer is to come;
* history and back list: Back and Forward walk the words that were entered, clicked and left, the buttons say
  whether there is a word to go to, no word is twice in the history;
* HTTP requests and scan: a plugin is called back once for each request and the client is then gone; the
  scan waits only for something that is asked, and goes on when it is never answered;
* cache files: a table of offsets is used only with the index it was computed from, and one that was saved is found;
* resources: a button gives the resource the article names; a temporary file is there as long as
  somebody holds it, and no longer.

## 2. The modules

### Connection to the server

| Module | What it is |
|---|---|
| `Sockets` | `lib/sockets.cpp` and its environment: resolving and connecting threads, descriptors, and for each descriptor the stream of requests and of replies, with the server, which greets, serves, closes or resets |
| `StarDictClient` | the client: one action per entry point or callback; at its end, the refinement mapping to `CommandQueue` |
| `CachePool` | a ring of answers with a cursor; also used by `FloatLookup` and `DictData` |
| `Subsequences` | positions of a batch in ascending order |
| `CommandQueue` | abstract: commands are answered in order, each at most once, or dropped together; cached answers repeat earlier ones |
| `MCStarDictClient` | instances |

`Submit` is `try_cache` for each command followed by `send_commands` of those not found, as every
caller does it; `Connect`, `OnResolved`, `ResolveDone`, `ConnectDone` follow `connect`, `on_resolved`
and `on_connected`, including that `on_connected` takes `sd_` rather than the descriptor that was
connected. `IoIn` takes one line: a callback that reads several lines is several steps. `ParseReply`
has a disjunct for each result of the parsers (0 disconnect, 2 read on, 1 done) and `reading` is
`reading_status`, of which only "status line awaited", "in the body" and "in a body that began with a
foreign line" are told apart. `Disconnect` is part of whatever calls it. A reply is a status and, for
commands that have one, a body; `for`, `mask` and `host` say what the server computed it from.

Of the client's queue a window sees the commands it submitted: `Theirs` leaves out the greeting, the account and
`QUIT`, which the client adds by itself (`Own`). `CommandQueue` numbers commands from `Seqs`, a finite set in the runs
and all numbers in the refinement.

The history variable `overlap` records that a connection was attempted while another attempt was under way
(two dialogs sending before the first connection is up). The code then loses track of its own
descriptors; the properties that fail for this reason alone are stated under `~overlap`, the others
(`AnswersMatch`, `CacheNotOlderThanMask`, `AnswersInOrder`, `KeepsContract`) hold regardless.

### Floating window

| Module | What it is |
|---|---|
| `CompositeLookup` | `compositelookup.cpp`, one operator per method |
| `FloatWin` | the window's part of a lookup: text, state, timer, position |
| `FloatLookup` | `AppCore`: lookups, answers of client, network dictionaries and cache; **extends `CommandQueue`** in place of the client, which is sound because `StarDictClient` implements it (`ImplementsCommandQueue` in section 5) |
| `MCFloatLookup` | instances |

The state of the window is one record, `win`, as one callback changes several of its fields in turn;
each method is an operator from record to record and a handler composes them in the order of the code.
The local search (`LookupLocal`) tries the forms of a word in turn and takes with the articles on the disk what network dictionaries
have kept for that form (`BuildVirtualDictData`), as pieces of those dictionaries; `LookupNetDict` looks into the same cache after it.

### Index and word list

| Module | What it is |
|---|---|
| `WordOrder` | words as sequences of numbers, `stardict_strcmp`'s order, which folds the capitals of ASCII, and `prefix_match`, which folds all |
| `PagedIndex` | search and neighbours as pure operators, of an index read by pages and of one in memory |
| `IndexFile` | an index of either kind: `offset_index` (`synonym_file` is the same code), whose page in memory is state, and `compressed_index` |
| `WordIndex` | abstract: what an index promises |
| `EditDistance` | `edit-distance.cpp`: the distance up to a limit, and what it promises |
| `WordList` | cursors over all dictionaries, `ListWords`, `ListNextWords`, `ListPreWords`; similar words, patterns; server's words merged in |
| `SortedList` | abstract: a sorted list of the union, the similar words of it by likeness, those of a pattern |
| `MCIndexFile`, `MCWordList` | instances |

`IndexFile` chooses any sorted index (words may be repeated) in `Init` and then any calls in any order: what
one call leaves in memory is what the next one starts with. A pointer to a word of a page not in
memory reads what is there instead: `Dangling` and `Deref` give it a value, so that using a stale pointer
is visible.

`CalEditDistance` works in growing rectangles and gives up when it sees the limit reached; `MCWordList` assumes, and TLC evaluates
for all words of up to four letters, that below the limit it is the distance. `LookupWithFuzzy` keeps the best so many
words, its limit being the distance of the worst of them, which it lowers as it goes; `LookupSimilar` of `SortedList` says only what must
come out. Both kinds of server's words may arrive over a list of any kind, as the code lets them.

### Dictionary data

`DictData` has `dictData::read` as a loop of `ReadChunk` steps between `GetWordData`/`SearchData` and
`Return`. A byte of text is its own position, so that a byte from a wrong place cannot pass for the
right one. A chunk past the last one gives nothing, and may or may not spoil the zlib stream, whose error state is
sticky; `beyond` records that one was read. `++stamp` on an `int` is taken to wrap. `MCDictData` has the sets of
entries.

### Cache files of the index

| Module | What it is |
|---|---|
| `CacheFiles` | the files of dictionaries of one name, beside each and in the cache directory: finding, trusting, writing in two steps, crashes, cleaning, new versions |
| `MCCacheFiles` | two dictionaries |

A load is several steps: the cache is found and checked by the date of the index (`LoadCached`), or the index is read and a cache
begun (`LoadIndex`), the table is written, then the text that names the index, and only then is the index opened for good
(`OpenIndex`, by `opening`). A new version (`Install`) or a crash may come between any two of them; `overtaken` records an index replaced when it was about to be
opened, `misdated` one whose cache will pass for newer than it is. A table is known by the index it was computed from; `Stops` is the walk along the numbered names that
`find_and_load_cache_file` and `find_and_open_for_overwrite_cache_file` share. `Init` leaves files of earlier
runs: none, torn, or copied along with another dictionary's directory.

### Resources

| Module | What it is |
|---|---|
| `Storage` | a database or a directory per dictionary, both rings of a database, `FileHolder`'s counts, buttons and the file chooser; built on `PagedIndex` and `CachePool` |
| `MCStorage` | two dictionaries in three setups |

Temporary files are a function from names to what they hold and how many holders they have; a holder
that is assigned, copied or destroyed changes it as the C++ does. `given` is the resource handed out by the last step.
The file chooser is a step of its own: what it saves is asked of a button that may be deleted by then (`gone`), when any data may come.
The index is looked up by the operators that `IndexFile` shows right; a dictionary's number is its place in `libs`, which a
reload changes while the buttons keep theirs.

### Main window

| Module | What it is |
|---|---|
| `MainWin` | one action per way of looking something up, and per kind of answer; what the text window shows, the number awaited, timer, list and cached index |
| `MCMainWin` | two words, a pattern, and a word to be searched for by likeness |

Whether the server is used (`enable_netdict`) and whether there is a network dictionary in the set, with its response in the cache or not,
is chosen anew by every step, from `Settings`: dialogs may change both at any time. With neither in use a lookup that finds
nothing clears the text; with one, the text stays for its answer (`ShowNotFound`). `unasked` records the lookups for which the text was kept
though nobody was asked. What is entered may be looked up as it is typed, when it is entered (`EnterUnseen`), or both.
A lookup is a query of a kind; the server's queue is a sequence of queries of which at most one is awaited
(`waiting_mainwin_lookupcmd_seq`). Answers come in order (which `AnswersInOrder` of the client allows), at once
from the cache, or not at all (`LoseCommands`). Full-text searches run the main loop, so that other actions,
and other searches, happen inside them: `search` is the stack of those that run.

### The words behind the entry

| Module | What it is |
|---|---|
| `TopWin` | the list behind Back and Forward, the buttons, the history of the combo box and its file |
| `Trail` | abstract: past, present and future of visited words, and the word shown |
| `MCTopWin` | three words |

What `Trail` shows is the entry; what it has visited are the words put in the list. The two part where the code parts them: a word
that is typed, or that a link leads to, is shown without being visited until it is left, and the newest word is not
visited again from an older one. The history variable `queried` is independent of the list: the word queried last, however it was
reached, and the one before it.

### Selection and network dictionaries

| Module | What it is |
|---|---|
| `Selection` | `selection.cpp` and the owner of the selection, which answers when it likes |
| `HttpClients` | the life of a client: threads, watches, the server, the callback of the plugin, the ring of answers |
| `Scan` | composes the two: a text received is looked up in the floating window, and so asked of the network dictionary |
| `MCScan` | two words |

`FloatLookup` assumes of a network dictionary that it answers once, late, or, if a request was lost, never;
`HttpClients` shows how often and when it does. The code of a deleted client to which its signal and watches
return is not part of the model.

## 3. The runs

Sizes are distinct states. Deadlock is checked in every run but the two of the client and that of the
floating window: these stop when the numbers of commands, descriptors or lookups are used up.

| Run | Properties | Bounds | Shows |
|---|---|---|---|
| `client_mask` (1.6 M) | `AnswersMatch`, `CacheNotOlderThanMask`, `AnswersInOrder` | 2 servers, 2 descriptors, 1 change of mask, numbers to 5, pools of 1 | connections to two servers overlap while lookups and a new mask are under way |
| `client_contract` (0.3 M) | `TypeOK`, `OutstandingIsFront`, `AnswersAreBodies`, `HandshakeFirst`, `KeepsContract`, `ConnectionEnds` | 1 server, 1 account, 2 descriptors, numbers to 6 | dialogs, registration, accounts; the reply under way is that of the front command; the client implements `CommandQueue`; a channel does not stay open for ever |
| `float_lookup` (0.7 M) | `TypeOK`, `WaitingMeansExpecting`, `ShowsTheWord`, `EachSourceOnce`, `TimerOfWaiting`, `PlacedOnce`, `ExpectedIsComing`, `LookupEnds` | 2 words, of which one is a form of the other, 2 lookups, 1 network dictionary with a ring of 1, numbers to 3 | late, repeated, cached and lost answers to two lookups; every lookup ends unless a request was lost |
| `index_calls` (84 k) | `TypeOK`, `PageHoldsItsWords`, `SuggestsClosestInMemory`, `KeepsPromise` | all sorted indices of 1 to 5 words out of 8, pages of 2 | one page in memory, or all, serves any sequence of calls |
| `list_merge` (75 k) | `ClosestIsShown`, `ListsTheUnion` | files of up to 2, 2 and 1 words out of 4 in pages of 1, lists of 2 rows, one word from a server, one misspelt word, one pattern | the list is the sorted union, and so are its continuations both ways; similar words and those of a pattern |
| `list_next` | fails: `NextFollows` | files of up to 2, 1 and 1 words out of 5 | going on from a row only the server has leaves one word out |
| `data_text` (1.0 M) | `TypeOK`, `ChunksAreText`, `ArticlesAreText` | 7 bytes in chunks of 2, 2 slots, ring of 2, stamps of -2 to 1 | articles are the text however chunks are reused |
| `cache_files` (2.2 M) | `OffsetsFitTheIndex`, `SavedIsFound` | 2 dictionaries of one name, 3 names in a chain, 2 versions, times to 2 | crashes, leftovers, cleaning and new versions of any date between any two steps of a load |
| `storage` (0.3 M) | `CountsItsHolders`, `GivesItsResource` | 2 dictionaries, 2 buttons, 4 file names, rings of 1 | replaced texts, reloads and a file chooser; of a chooser that outlives its button only that the files are still counted |
| `main_window` (1.6 M) | `AwaitedIsAsked`, `OldTextOnlyWhileWaiting` | 2 words, 1 pattern, 1 likeness; 2 requests under way, 1 of them a network dictionary's; 1 search; at every step either the server with a network dictionary's response in the cache, or a network dictionary alone, which has to be asked | lookups of every kind while answers to earlier ones are under way and the settings change |
| `back_list` (1.4 M) | `ButtonsAgree`, `HistoryOfDistinctWords`, `BackReturns`, `KeepsTrail` | 3 words, back list of 4, history of 2 | typing, links, Back and Forward, restarts and crashes; Back leads to the word queried before, where the code puts both words in the list; list and entry implement `Trail` |
| `scan` (0.2 M) | `BusyMeansAsked`, `ScanGoesOn`, `OneCallback`, `EachIsCalledBack` | 2 words, 2 ticks, 2 clients, ring of 1 | owners that never answer, servers that are silent, close or reset |

Why the bounds are enough for the interesting cases:

* *client*: two descriptors are the least with which connections overlap, a third adds no new pair; two
  servers are the least with which an address is resolved for one and used for the other;
  a pool of one slot already evicts; the numbers leave room for a greeting, two or three commands and `QUIT`.
  Numbers never wrap in the model; in the code they do after 2^32.
* *floating window*: a lookup and one that replaces it, for the same word or another; a ring of
  one slot evicts at every second word.
* *index*: pages of two (32 in the code) with up to five words make a first, a middle, a full last and a
  partial last page, and words repeated over the end of a page. The eight words differ by case, by length and
  by a letter, so that all outcomes of comparison occur; three begin beyond ASCII, a capital, a letter between it and its small letter, and that
  small letter, so that the order and `prefix_match` disagree.
* *list*: two dictionaries, one with synonyms, give three files, so that the least word may be in one,
  two or all; pages of one word, so that every step to a neighbour overwrites what was read. Lists of two rows (30, 30 and 15 in the code) end inside, at and after the union.
  Two similar words (100) out of four fill the list, so that the limit of their search shrinks.
* *data*: articles lie in one chunk, over two, over three or four, end at and within chunks and at the
  end of the text; two slots (5) are fewer than the chunks of one read; stamps of two bits overflow in
  every order.
* *cache files*: three names hold the files of both dictionaries and one more; a date before, at and after that of a cache.
* *resources*: a ring of one slot is overwritten while a button still points at its file; four names are as many as
  holders can be at once (two buttons, the ring, a local variable).
* *main window*: two commands are the least with which an answer is late, one and a network request the least with which they
  cross. The two settings have between them the server on and off, and a network dictionary that answers from its cache and one that answers
  late, and a step with one may follow a step with the other. The other four take the same branches in other company, or
  ask less and keep less text; the theorems are for all six, and for searches within searches, of which the run has one at a time.
  Words may be local, on the server, on the net or nowhere. An overtaken command is told from others only by not being waited for (`Overtaken`).
* *back list*: with four places and three words it is cut at its end while the index stands at any of them, and a word may stand
  in it twice; a word, one queried before it and a third that a link leads to are the least with which Back goes astray.
* *scan*: one tick and the last before 8 s; one client ahead of another in each phase.

Every property is one that a plausible slip in the code breaks: for each, `PROJECT.json` names a changed
operator, marked `mutant`, `Slip` or `Fault` in the modules, with which TLC finds it violated.

## 4. Fairness

Fairness is assumed by the runs `client_contract`, `float_lookup` and `scan`, for their liveness properties; it does not weaken the safety properties they check. `StarDictClient!FairSpec` asks that the main loop dispatches a watch that is
ready (`IoIn`, `IoEof`, `IoErr`) and a finished connection (`ConnectDone`): GLib serves sources of equal
priority in turn. It also asks that a connecting thread returns, which the operating system sees to, and that the
server greets and answers on a connection that it has not closed. The last is an assumption about
another program: the client has no timeout, so without it a channel stays open. `FloatLookup!FairSpec`
asks the same of the client's queue (its oldest command is answered or the queue dropped) and of each
network dictionary's request (it succeeds or fails). `Scan!Fairness` asks that the
timer, while it runs, ticks, that a resolving or connecting thread returns, that watches that are ready are dispatched, and that
a web server sooner or later closes or resets a connection, because requests are sent with
`Connection: Close` and the client, having no timeout, relies on it. The owner of the selection need never
answer: that the scan goes on then (`ScanGoesOn`) is due to the retry after 8 seconds. No action of the user is fair.

`ConnectionEnds` is stated for connections that do not overlap; `LookupEnds` for lookups whose requests
were not `lost`, because the code does not end those, see section 6.

## 5. The proofs

All theorems hold for every value of the constants under the named assumptions of the modules
(`ClientAssumption`, `FloatAssumption`, `DictDataAssumption`, `MainWinAssumption`, `TopWinAssumption`, `SelectionAssumption`,
`HttpAssumption`, `WordAssumption`, `CaseAssumption`, `EntrPerPageAssumption`, `MaxWordsAssumption`, `StorageAssumption`, `NamesAssumption`,
`FilesAssumption`, `SynonymsAssumption` and those of `Sockets` and `CacheFiles`), which TLC
also evaluates in the runs.

**`CachePoolProofs`.** Lemmas about the ring: what is saved, emptied and found in it, for every size. The
first element with a key exists because numbers are well-founded (`LeastNumber`, from `WFMin` of the library). From the same
fact comes `CountingUp`, induction for a set of numbers instead of a predicate, which is how the loops of the other modules are reasoned
about; `AscendingPicks` says what picking positions of a batch in order gives.

**`StarDictClientProofs`.** `TypeCorrect` (`TypeOK`) and `AnswersAlwaysMatch` (`AnswersMatch`), from
`Invariance: Spec => []IInv`. `AnswersMatch` is not inductive: that an answer belongs to the command at the
front rests on what was written before. `IInv` adds types of all that is in the streams and pools;
that a stream nothing was asked on has at most a banner (`Fresh`), that a channel past its banner
will see no other (`Used`), that `sd_`, when it is not the channel's, names a fresh stream, and that
what is under way on the channel belongs to the front of the queue (`FrontBelongs`). The last is weaker
than `OutstandingIsFront`, which needs `~overlap`: a body may be under way that the front command, still
at its status line, will refuse. That is the argument why overlapping connections never mix up two
words' answers, although they can spoil one. Preservation is proved callback by callback.

`AnswersComeInOrder` (`AnswersInOrder`) rests on `OrderInv`, that the numbers of the commands in the
queue rise, lie above the one answered last and below the next to be given, which is inductive only together with `IInv` (a reply is
read only when the queue is not empty). The greeting of a connection is numbered after the batch it precedes, so the order
is that of the other commands (`Counted`). A command is followed through `Submit`: what the cache has is taken
out of the batch and the rest keeps its order (`SubmitInOrder`). `NothingOlderIsKept` (`CacheNotOlderThanMask`) rests on `MaskInv`: along a stream of
replies the masks they were computed with never decrease (`MasksRise`), so that what comes after the reply that confirms a
mask is not older (`ToBeRead`), and what was kept before it is taken out when it is read (`OutdatedNotOlder`).
`FrontIsAsked` (`OutstandingIsFront`), `BodiesAreKept` (`AnswersAreBodies`) and `ConnectionsGreet` (`HandshakeFirst`) follow from
`SingleInv`, what holds until two attempts to connect overlap: at most one attempt is under way and none beside a channel (`Attempts`);
until the banner `CMD_CLIENT` is at the front of the queue (`HeadGreets`) and nothing was written on the socket (`Unwritten`); after
it the stream holds the front's request unread or the rest of its reply (`FrontServed`); and in the queue `CMD_AUTH` comes
right behind a `CMD_CLIENT` and nowhere else (`Chained`). The last needs that the windows themselves submit no `CMD_CLIENT`, `CMD_AUTH` or `CMD_QUIT`,
which `ClientAssumption` says and the source bears out: only the client makes them.

`ImplementsCommandQueue` proves `Spec => KeepsContract`, so that what is proved of windows on top of `CommandQueue` holds on
top of the client. `Theirs` is a loop over the queue; that the recursive function exists, and what it gives for a queue cut at
its front or joined with a batch (`TheirsConcat`, `FrontOfTheirs`), is proved by counting up to the length. Then every step of the client is
one of three kinds: it changes nothing a window sees (`QuietStep`: connecting, greetings, banners), it ends the front command
(`FrontDone`, `ReplyStep`), or it takes a batch (`SubmitTakes`). What an answer may repeat is what was answered before and is not outdated, for
which the refinement needs `MaskInv` and that no mask in sight is newer than the last one asked for (`MasksStayBounded`).

**`FloatLookupProofs`.** All safety properties of the run: `TypeCorrect`, `WaitingExpects` (`WaitingMeansExpecting`), `OfTheWord` (`ShowsTheWord`),
`SourceOnce` (`EachSourceOnce`), `TimerWaits` (`TimerOfWaiting`), `OncePlaced` (`PlacedOnce`) and `ComingUnlessLost` (`ExpectedIsComing`), from
`Invariance`. What stands in the window depends on what may still arrive, so `IInv` says, besides types, that what is on show is
not listed as expected any more (`NoneTwice`), that all pieces and all requests listed are about the word of the window until a tip
replaces it (`About`), that a command whose number is expected asks for that word (`Awaited`), and that the window is placed at most once
for a lookup and needs it only when it was hidden (`Placed`). A lookup asks its network dictionaries in one loop (`LookupNetDict`), followed
with `CountingUp`; it needs the dictionaries of a group to be distinct, as the dialog that fills a group sees to
(`dictmanagedlg.cpp:1959-1980`, in `FloatAssumption`). So is the loop of the local search over the same dictionaries' caches
(`LocalDictLoop`): what it adds are local pieces of theirs, each once, which `EachSourceOnce` tells from their answers; that an answer is
not added twice is what `NoneTwice` gives, whatever stands there from the local search (`LocalFirst`).

**`MainWinProofs`.** `AwaitedIsWhatWasAsked` and `OldTextStaysOnlyWhileWaiting`, from an invariant that adds only types
(`Typed`): the two properties together are inductive, once every way of sending is shown to leave one command
awaited, the last (`SentIsAwaited`), and every answer, of whatever source, to clear an old article away (`AnswerClears`, `NetClears`).
The settings are those of the step: text that is kept in a step was kept because the server or a network dictionary is in use in that step
(`SimplyShown`), and the same step asks whichever is (`ServerAsked`, `NetAsked`); where it does not, `unasked` says so.
That the settings are others when the answer comes makes no difference, since an answer is shown whatever they are.

**`TopWinProofs`.** `TypeCorrect`, `ButtonsAlwaysAgree`, `HistoryIsOfDistinctWords`, and the refinement:
`ImplementsTrail` proves `Spec => KeepsTrail`, that each operation on the list, its index and the entry is one of the trail or none, for every
length of the list. The lemmas say what is left of a list cut after its index (`RestOfList`, `CutAfter`) and the
steps of `Trail` follow operation by operation. `BackLeadsToTheWordBefore` (`BackReturns`) is about the words queried, which the trail does
not know: its invariant (`Remembered`) is that as long as no link was followed and no newest word asked again, the word at the index is the one queried last, and
that the one before it, when it is known, is the second of the list (`InsertedFirst`, `QueryRemembered`).

**`ScanProofs`.** `BusyMeansSomethingIsAsked`, with the types of the selection, and `EachClientCallsBackOnce`, with `OnePhase` (a client has a
thread or watches and never both) and `NoneAhead` (nothing is kept of clients not created yet), for any numbers of ticks and clients.

**`DictFilesProofs`**, of `CacheFiles`. `OffsetsAlwaysFitTheIndex`. The table in use was read from a file or just computed, so the invariant says of every file that
could be taken for a cache that it is one of that index (`FilesFit`), of the file being written that it names no index yet
(`SavingFits`), and of the table of an index about to be opened that it is of the index that is there (`OpeningFits`); all but for indexes whose date
hides that they changed, the last also but for one replaced after its cache was checked. That excuses one load and no other: the next begins
with nothing in use (`BeginningFits`) and takes what fits the index that is there then (`FromCacheKeeps`). `SavedCachesAreFound` (`SavedIsFound`) follows one cache: it
stands where the walk would come to it but for torn files (`Stands`), a save that begins takes over another place (`SavesElsewhere`),
and what is being written has only other dictionaries' caches before it (`SavingStands`).

**`DictFilesProofs`**, of `DictData`. `FileInvariance` proves the invariant of the loop and the caches for any entries:
where in the text and in the result each turn stands (`Progress`, with the lemma `Pieces` doing the arithmetic
of first, middle and last chunks), that what is copied is text, that every slot holds what it says, and
that every article in the ring is the text of some entry at that offset, all until a chunk after the last one is read.
From it: `DataTypeCorrect` (`TypeOK`), `ChunksAreRight` (`ChunksAreText`), `ArticlesAreRight` (`ArticlesAreText`, if no two entries
have the same offset and different sizes: `OffsetsTell`), and `ReadsStayInside`: if the last chunk is
not full no read goes past it, so that the defect of section 6 needs a full last chunk.
A dictionary file may have an empty entry at the offset of the next one; then `OffsetsTell` does not hold
and the ring, which compares offsets only (`dictbase.cpp:95`), can answer the one with the article of the other.

**`IndexProofs`**, of `IndexFile`. All properties of the run `index_calls`, for every finite or infinite set of words, size of pages and length of
the index: `TypeCorrect` (`TypeOK`), `PageIsRight` (`PageHoldsItsWords`), `SuggestsClosest` (`SuggestsClosestInMemory`), and the
refinement `ImplementsWordIndex: Spec => KeepsPromise`. The invariant of the file is short (`IInv`: the page in memory is the one it is
taken for, a compressed index has none); the work is in the operators, in four layers.
The order: `stardict_strcmp` is one (`BeforeIs`, `BeforeTransitive`, `BeforeIsTotal`), and of three words in order the middle one begins
like the last for at least as long as the first does (`BetweenMatches`), which is why a walk back from the place of a word ends at
a closest one. The pages: the arithmetic of the short last page (`PageEnds`, `OnPage`, `PlaceOnItsPage`, on `DivMod`).
The loops: a recursive function exists because what is left gets less (`LoopIsDefined`, `WalkIsDefined`); then a search by halves over
anything that falls from positive to negative finds the zero, or the place where one belongs (`SearchFinds`, which the search over pages,
the one on a page and the one in memory all cite), and a walk ends inside any set it cannot leave (`WalkEndsWithin`, cited by the walks
over copies and back for a suggestion). The answers: each call gives what `WordIndex` says (`LookupIsRight`, `PrevIsRight`,
`NextIsRight`, `CountIsRight`), whatever page it begins with: of a search by pages only the suggestion depends on that, and all that is
said of it is that it is a word of the index (`SuggestBackIs`; section 6 has the reason).
That a word is never empty (`WordAssumption`) is what tells a dangling key from a word. `BetweenMatches` compares letters as `prefix_match`
does, with all capitals folded, and needs the three words in an order that folds as many: so `SuggestsClosest` and `ShowsClosest` are of words without capitals
beyond ASCII (`AsciiCase`; section 6), the others of any.

**`IndexProofs`**, of `Storage`. `CountsHolders` (`CountsItsHolders`) and `GivesResource` (`GivesItsResource`), from
`StorageInvariance`, for any number of dictionaries and buttons and any sizes of the rings. `StorageInv` has five parts besides the types:
the count of a file is the number of buttons and slots that hold it, and a file that is there has one (`Counted`); a file in a ring is of a key
its database has, and holds the resource of that key or what an error left (`RingOfFiles`); so does what is kept of the last reads
(`RingOfData`); a button that no reload moved still has its dictionary at its place and holds a file of its own key (`ButtonsHoldTheirOwn`); a file chooser that is
alive belongs to a button (`DialogOfAButton`). Neither property is inductive without the others: that a name taken for a new file
is nobody's needs the counts, and that what a button gives is its resource needs what the rings keep. The counting goes
through the C++ step by step: a new file that is copied to the ring, handed out and let go of by the local variable (`NewFileIs`), one found in the ring
(`AgainIs`), many holders that go at once (`ReleaseAllIs`). Which keys a database has is `InStorageIs`: the searches of both
kinds of index find a key exactly if it is there (`PagedLookupIs`, `MemoryLookupIs`), by the same `SearchFinds`; that the first
comparison with the pages stands for the first key of a page is `SampleIsFound`. `StorageAssumption` takes from the
description of the format (`src/dict/doc/StarDictFileFormat:499-503`) that the keys are in order, and that there are some.

**`IndexProofs`**, of `WordList`. `ShowsClosest` (`ClosestIsShown`), for any number of files, read by pages of any size, and any words in
them. What an index read by pages suggests may be any of its words (section 6); but of that place, the one the word would come to and the one
before it, one is a closest (`ClosestIsBeside`, by `BetweenMatches` again), and `LookupSimilarWord` looks at all three (`SuggestedIs`). Through
`GetSuggestWord`, followed file by file with `CountingUp`, the pointer to the best word so far still leads to it when the other files
were read (`GetSuggestWordIs`). `EachFile` is a recursive function rather than a fold for the sake of this proof.

Only model-checked: everything under fairness (`ConnectionEnds`, `LookupEnds`, `ScanGoesOn`,
`EachIsCalledBack`), which TLAPS cannot do, nor `ENABLED`; and the refinement `ListsTheUnion` of `SortedList`, of which edit distances
and the sorting of sets call for induction over data.

## 6. Where the code does not keep its word

`list_next`, `lib/stddict.cpp:2282`: `poGetNextWord` takes the position of a word that was not found for that
of the word, and leaves out the next one. The run shows it with a row that only the server has.

Others are kept in the models as the code has them, and are what the conditions of some properties are for:

* `lib/stddict.cpp:892`: when a word's place is the first of the next page, the first comparison of
  `offset_index::lookup` reads the page before, though the comment (`:830`) promises the "index of the closest word in the index": of a, a, ab
  in pages of two the search for Ab suggests a.
  `SuggestsClosestInMemory` is therefore about an index in memory; `LookupSimilarWord` hides it in the main window (`ClosestIsShown` holds).
* `src/lib/src/libcommon.cpp:46`: the order of an index folds the capitals of ASCII only, `prefix_match` (`lib/stddict.cpp:103`) all of them. The
  closest word is looked for beside the place of the word sought, and need not be there: of École and éa, a search for écoles suggests éa.
  Also `LookupSimilarWord` looks only there. The two properties are of words without capitals beyond ASCII.
* `lib/stddict.cpp:761`: the index is opened after its cache was checked by its date (`:735`, `:366`) or it was read through: replaced in
  between, it is used with the old table until it is loaded again.
* `stardict.cpp:877`, `:1446`: what a network dictionary has kept for a word is added with the local articles and once more as its answer,
  so that the article stands in the floating window twice. `EachSourceOnce` allows that one repetition and no other.
* `lib/compositelookup.cpp:76`: the floating window goes on expecting a command that the client has
  dropped or ended without an answer; the lookup never completes. `LookupEnds` and `ExpectedIsComing` leave out lost requests.
* `lib/dictziplib.cpp:387`: an article at the end of a text of whole chunks makes `read` go on to a chunk
  that does not exist; after that the assertion at `:467` may fail. The properties of `DictData` hold until then.
* `lib/stddict.cpp:485`: a torn cache file stops the walk along the chain, so that a file behind it is not found;
  a dictionary whose save is torn writes over the same name, but one of another path leaves it in the way. `SavedIsFound` is about chains without a torn file.
* `lib/stddict.cpp:366`: a cache is trusted by its date; an index installed with its old date is read with the wrong offsets.
* `stardict.cpp:1885`: an answer from the cache leaves the number waited for as it was: the late answer to an earlier word replaces it.
* `stardict.cpp:1607`: Enter before the timer runs shows the index kept from the lookup before, of another word.
* `stardict.cpp:1573-1583`, `:1505-1515`, `mainwin.cpp:374-389`: with the server off, as it is by default on Linux, and a network dictionary in the set, a search by likeness,
  or by pattern from the Go button, that finds nothing keeps the old text for an answer, and asks no one. `OldTextOnlyWhileWaiting` leaves these out (`unasked`).
* `stardict.cpp:189-192`: a link puts the word it is clicked from into the back list, not the one it leads to: after a and a link to b, Back leads
  nowhere; after a, b and a link to c it leads to a. The manual says "Return to the word that was queried before" (`help/C/stardict.xml:1059`, also `:266`).
* `mainwin.cpp:897`, `:906`: a word is compared with the newest of the back list, wherever the index stands: walked back from b to a and queried
  again, b is not put in the list, and Back leads past a, to the word before it. `BackReturns` leaves out both, and `Trail` has them as the code does.
* `articleview.cpp:184`: a button keeps the number of its dictionary, which a reload may give to another.
* `articleview.cpp:1032-1036`: the file chooser runs a main loop of its own and then uses the `ResData` of its button, which a text that is replaced
  meanwhile deletes (`:993`). `GivesItsResource` leaves it out (`gone`).
* `lib/stardict_client.cpp:774`, `:813`, `:759`, `:540`: overlapping attempts to connect, a watch overwritten and left attached, an
  address resolved for the server configured before, answers for an account kept after it was changed.
* `floatwin.cpp:436`, `stardict.cpp:224`, `stardict.cpp:1876`: responses added to a tip, a window hidden as "Not found" that
  pops up again, a server's list merged into another word's.

## 7. What is not modelled, and why

* Data: formatting and escaping of requests, parsing of articles, `sametypesequence`, markup, collation
  tables, English word endings. They are computations on characters without hidden state.
* Widgets, drawing, settings, plugins' loading, dictionary management, converters and verifiers (`src/lib`, `src/tools`):
  sequential, or calls of other programs.
* `lib/dict_client.cpp` and `lib/kmp.cpp` are not compiled (`lib/Makefile.am`).
* In the word list: collations other than the plain order, virtual and network dictionaries, other spellings of a word (capitals, English endings) and the gaps
  they may cause between the cursors; regular expressions, which take the path of the patterns.
* In the cache files: `.clt` files of collations, which the same class keeps in the same way.
* In the main window: the retry with another head word, and what a reload does to the iteration over dictionaries of a search that runs.
* In the scan: nothing that is looked up is left out, but `stop` does not take a request back, as in the code.
* In the HTTP requests: a plugin unloaded while its request is under way, and dialogs that ask without a callback.
* In the resources: files that are not compressed and pictures, which count nothing.
* The full-text search over all dictionaries and tree dictionaries: one pass each over what `DictData` and `IndexFile` read.

Most lines of the repository are outside the models for these reasons: of its 130,000 lines of implementation a good part are tables of
character sets (`lib/ctype-*.cpp`), a copy of sigc++, dialogs, and converters.

## 8. The plan

Modelled so far, most important first: client and contract; floating window on the contract; index and
list with their abstract specifications; dictionary data; main window; history and back list; selection and
network dictionaries; cache files; resources. Worth doing next:

1. An abstract specification of the main window on `CommandQueue`, so that it is composed with the client
   as `FloatLookup` is; the head-word retry.
2. The iteration of a full-text search under a reload (`stardict.cpp:1077`).
3. Plugins: unloading one whose request is under way.

Theorems worth proving next, of the list of words: the parts of `ListsTheUnion` that need no sorting, namely that the word which
`poGetNextWord` or `poGetPreWord` comes to is the next of the union, whatever pages it left in memory.
