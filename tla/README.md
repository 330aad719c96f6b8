# giga in TLA+

giga is a C++ library for editing large files: a `File` is a doubly linked list
of pages, read from disk as they are needed, and any number of `Client`s read,
overwrite, insert and erase bytes at a position of their own. This directory
models it in TLA+, checks the models with TLC and proves theorems about them
with TLAPS. Paths below are relative to the repository's root; `PROJECT.json`
gives them from the directory above it (`src/src/file.cc` is `src/file.cc`).

## The system

| part | state | operations | calls |
|---|---|---|---|
| `File` (`src/file.cc`) | `pages`, `lookaside`, `size`, `clients`, counters, `l` | `s` seek, `r` read, `w` overwrite, `d` erase, `i` insert, `open`, `close`, `save`, `load` | pages through the cache; `client->get_identifier()` |
| `Config` | initial and maximal page size, cache size | `probe` | `Page::probe` |
| `ClientData` (in `lookaside`) | page iterator, offset on the page, position in the file | setters | - |
| `Page` (`src/page.cc`) | `size`, bytes, working file, dirty flag | `probe`, `aux_load`, `aux_unload`, `~Page` | files under `/tmp/giga` |
| `Client` (`src/client.cc`) | `mode`, `is_closed`, weak pointer to the file, `l` | `read`, `write`, `erase`, `seek`, `save`, `open`, `close` | the `File` operations under both locks |
| cachepp, exceptionpp | pages in memory | `r`, `w`, `clear`, `reset` | `Page` (submodules, not in the repository) |
| `Performance`, `Result` (`src/performance.cc`) | sums of time and bytes, a table | `run`, `aux_run`, `push_back`, `to_string` | one thread per client |
| MD5 (`libs/md5`) | - | names of working files | - |

Interaction: a thread calls a `Client`, which takes `Client::l` and then, in the
`File`, `File::l`, one recursive mutex for everything. So calls never overlap,
and what is hard is not the interleaving of instructions but of *calls*: a call
of one client splits, empties, removes and refills pages on which other clients
stand, and each operation adjusts the three numbers of every client's place
(page, offset on the page, position in the file) by its own rules. The code has
no function that says where a client should be; the models do.

What makes each part correct:

- `File`: a client sees a flat file whatever the pages do; nobody holds an
  iterator to a page that is gone; the three numbers of a place agree; a call of
  one client leaves the others where they were; every call ends; `size` and
  `Page::size` are exact.
- `Page` and cache: a page gives back the bytes last put into it, through any
  number of evictions; working files are removed and belong to one page.
- `Client`: no call of a closed client or of a client without permission reaches
  the file; no two threads wait for each other; the file outlives the calls.
- save and load: a save that fails or is cut short leaves the old or the new
  contents.
- `Performance`: no thread's share of the sums is lost.

The list of hazards, each at its line, is in `PROJECT.json`.

## Modules

| module | what it is |
|---|---|
| `ByteFile` | the abstract specification: a file is one sequence of bytes, a client is a cursor in it, a call is a series of chunks at its client's cursor |
| `GigaFile` | `giga::File` with `Config`, `ClientData` and `Page::probe`: the detailed model, parameterised, with the type invariant and the invariants that are proved |
| `MCGigaFile` | the constants of the runs, the refinement mapping to `ByteFile`, the properties of the clients' places, the bounds |
| `ListTheorems` | lemmas on the list operations (cut, edit, remove, insert, join), for any set of elements |
| `SumTheorems` | lemmas on partial sums, shared by the proofs that count |
| `GigaFileProofs` | the inductive invariant of `GigaFile` and the theorems |
| `PlaceProofs` | the theorems on the clients' places and on `File::size`, with sums of page sizes |
| `StoredFile` | the abstract specification of the pages and the disk: byte strings in memory, and a file that changes to all of them at once |
| `PageStore` | `giga::Page` between the cache and the disk: `aux_load`, `aux_unload`, `~Page`, working files, the steps of `save`, `load`, a crash |
| `PageStoreProofs` | its inductive invariants, its theorems, and the refinement of `StoredFile` |
| `MCPageStore` | the constants of its runs, and two statements of the repository about working files |
| `ClientLocks` | `giga::Client` and the two kinds of mutex: threads in the middle of calls, the pointers that keep the `File`, `~File` |
| `ClientLocksProofs` | its inductive invariant and theorems |
| `Performance` | `Performance` and `Result` on top of `ClientLocks`: the rounds of threads of `run`, its two atomics, the rows and shares |
| `PerformanceProofs` | its inductive invariant and theorems |
| `MCPerformance` | the constants of its runs, and a statement of the repository about the shares of a report |

### GigaFile and the code

| `GigaFile` | code |
|---|---|
| `pages`, `psize`, `data` | `File::pages`, `Page::size`, what `cache->r` returns for a page |
| `size`, `lookaside`, `disk` | `File::size`, `File::lookaside`, the named file |
| `call` | the call that holds `File::l`: its arguments, the loop it is in (`pc`), the bytes left (`len`), what a read has collected (`out`) |
| `Seek`, `Read`, `Write`, `Erase`, `Insert` | the lines of `s`, `r`, `w`, `d`, `i` before their loops: permission, `align`, the distance of a seek, the new tail sentinel of an insert |
| `SeekForward` ... `InsertInPage` | one iteration of a loop, all of it: the clients, the bytes, the list, the sizes |
| `WriteRest` | `w` calls `i` with the rest of its buffer, always |
| `SeekReturn` ... `InsertReturn` | the end of the loop and the return; `i` puts a client that appended on the new tail |
| `Invalid`, the `ELSE` of `InsertInPage` | the exceptions of `Page::probe` and of `i` |
| `Open`, `Close`, `Save`, `Reload` | `open` (and reopen), `close`, `save` (its `rename` done or failed) with its `load`, `load` |
| `Load`, `MergeScan`, `Placed` | the pages of `load`, its scan of pages against positions, and what happens to the positions no page takes |

`size_t` is `0 .. SizeT - 1`; `Add` and `Sub` wrap. An iterator is the identity
of its page, as `std::list` keeps it; page numbers (`p_count`) are reused, so
that a finite set of them is enough. The scan of `load` is stated as what its
two iterators leave behind: which page takes which position (`MergeScan`).

What is taken as given: the cache returns the bytes last written to a page (the
bytes of a model stand for bytes other than NUL, see `src/page.cc:104`); files
are opened, read and written without fail; calls are made by open clients; `load`
is called between calls with every client closed, as the tests and
`Performance::run` do. The `rename` of `save` may fail: `save` does not look at
its result (`src/file.cc:562`), and a temporary file in `/tmp` cannot be renamed
to another file system. `Save` then loads the old bytes under clients that keep
the positions they had.

### ByteFile

`ByteFile` allows any chunk sizes, and does not say where an insert or an erase
leaves the *other* cursors: the properties below do. It does say that bytes
change only at the cursor of the caller, that they come from the buffer in
order, that a write or insert ends only with its buffer used up, that a seek or
read ends early only at an end of the file, that seeks, reads and overwrites
move nobody else, and that a save changes no byte. A save whose `rename` fails is
its `Load`: it forgets what was not saved. An exception may leave the last chunk
of an insert in the file.

### PageStore and the code

`GigaFile` takes it for granted that the cache gives back the bytes of a page,
and that a save is one step, which replaces the named file or does not.
`PageStore` is what lies under that: the same list of pages, without clients.

| `PageStore` | code |
|---|---|
| `line[p]` | the members of a `Page`: `own` is `filename`, `name` is `cached` (the file it is in now), `at` is `file_offset`, and `size`, `dirty`, `data` |
| `cached` | the pages the (external) cache holds; it drops one when it likes, and is the last owner of a page that left the list |
| `files` | the named file and working files; a name is a page and a parity, because `get_filename` hashes the last name with the page's identifier |
| `litter` | whether a working file is left that no page knows of |
| `save` | what `save` has copied so far |
| `given` | history: the bytes the page was given last |
| `Acquire`, `Evict` | `aux_load` when the cache takes a page in, `aux_unload` (and `~Page`) when it lets one go |
| `Put`, `NewPage`, `Erase` | what `w`, `d` and `i` do to a page: `cache->w` and `set_size`, a new page behind another, a page out of the list |
| `SaveBegins`, `SaveCopies`, `SaveReplaces`, `SaveFails` | `save`: the cache cleared, a page read and written out, `rename` done or failed, and `load` |
| `Reload`, `Crash` | `load`; the end of the process at any point, and another that opens the file |

`StoredFile` has only byte strings. The refinement maps its `pieces` to `given`
and `saved` to the contents of the named file.

### ClientLocks and the code

`GigaFile` takes it for granted that one call at a time is in the `File` and
that an open client has a place there. `ClientLocks` is where threads get there
from: it knows nothing of pages, only who holds which mutex and who points to
the `File`.

| `ClientLocks` | code |
|---|---|
| `thread[t]` | where a thread is in its call: `pc`, the operation, the client, and whether `f = file.lock()` has given it a pointer (`pinned`) |
| `clientLock`, `fileLock` | the owners of `Client::l` and `File::l`; both are recursive, and taking one that the thread has is no step (`get_is_closed`, `get_identifier`) |
| `handle` | the threads that hold a `shared_ptr<File>` of their own |
| `clients`, `lookaside`, `closed`, `mode` | `File::clients`, which clients have an entry in `lookaside`, `Client::is_closed` and `mode` |
| `Call`, `Lock`, `Refuse`, `Pin`, `Unpin`, `Unlock` | a client's operation from its lock guard to its end: permission and `is_closed`, the weak pointer made a pointer, `is_closed` set, the pointer gone |
| `FileCall`, `Enter`, `WorkNew`, `WorkOpen`, `WorkClose`, `WorkOn` | the part under `File::l`; `File::open` without a client and `File::save` may be called by a thread with a pointer |
| `Drop`, `Destroy`, `CloseNext`, `Destroyed` | a thread gives up its pointer; `~File`, in whichever thread gave up the last, which may be one in the middle of a call |

The code leaves a contract to its callers (`Proper`): `seek`, `read`, `write`
and `erase` do not look at `is_closed`, so a client must not be used when it is
closed, nor closed while another thread uses it. `get_pos`, `open` and `save`
may be called at any time, by any thread. `File::open(client)` and
`File::close(client)` are called by the client only: called directly they would
take the two locks in the other order.

### Performance and the code

| `Performance` | code |
|---|---|
| `bench` | where `run` is: its round (`attempt`), the clients it has opened and threads it has started |
| `worker[w]` | `aux_run`: the calls it has left (`script`), `local_data`, `local_runtime`, `expected` |
| `runtime`, `data` | the two atomics of a run |
| `rows`, `i_count` | `Result`: the rows not popped, the next index |
| `Run`, `Load`, `Loaded`, `Open`, `Spawn`, `Join`, `Push` | `run`, with the `load` that takes no lock from `Load` to `Loaded` |
| `NextCall`, `AddData`, `Expect`, `Swap`, `Retry` | `aux_run`: each call goes through the steps of `ClientLocks`; then the sums |
| `Pop`, `Share` | `pop_front`, `to_string`; `get_read` and its like |
| `reported`, `did` | history: the rows popped; what the clients did in each run |

`run` opens clients while those it started before are at work. It holds a
pointer of its own, so another thread may give up the `File` under it, and the
end of the run destroys it.

## Runs

All runs set `CHECK_DEADLOCK FALSE`: with the bounds on calls, a file may come
to a state in which no more calls are made.

| run | clients | constants | checks |
|---|---|---|---|
| `TwoClients` | 2, write mode | pages of 2, at most 3; buffer of 2; up to 4 bytes; `SizeT` 8; renames that fail | `TypeOK`, `PagesOK`, `PageSizesExact`, `ImplementsByteFile`, `DriftHasCause`, `PlacesKept` |
| `OneClient` | 1, read-write | files of 0 and 4 bytes; buffers of 0, 1 and 3; lengths 1, 3; `SizeT` 16; renames that fail, `Reload`, fairness | `FileSizeExact`, `OnlyLostSaveDrifts`, `ImplementsByteFile`, `CallsReturn` |
| `PageStore` | - | a file of 3 bytes on pages of 2; cache of 1; buffers of 0 and 1; 4 pages alive | `TypeOK`, `PagesKeep`, `ImplementsStoredFile` |
| `Threads` | 2, one read-only | two callers and 3 calls; or two runs: 2 workers in 2 rounds, then 1 worker with calls of two kinds | see below |
| eight more | as above | as above | one property each, expected to be violated |

What the passing runs show:

- `ImplementsByteFile`: with one client and with two, whatever wrong places the
  clients have been brought to, a call reads and changes bytes where its client
  is (page and offset), and nowhere else.
- `DriftHasCause`: a client's page, offset and position (`PositionExact`) come to
  disagree in three ways, and all are named: an insert by a client with another at
  the same position but on another page (`InsertsBeforeTwin`); a save with two
  clients at different positions on one page of the file it loads
  (`LoadsCrowdedPage`); and a save whose `rename` failed, which loads a file that
  ends before a client's position (`LoadsShorterFile`: the client is put on the
  tail, and its seeks go on returning the position it had). Every other step keeps
  exact bookkeeping exact.
- `OnlyLostSaveDrifts`: a client that has the file to itself loses track of it in
  the last way only.
- `PlacesKept`: until a place is wrong, a call leaves every other client between
  the same bytes as before, or where the call erased, at the caller's place.
- `CallsReturn`, `FileSizeExact`: each loop ends, and `File::size` is the
  number of bytes after every iteration.
- `PagesKeep`: whatever goes in and out of the cache, however often a page is
  changed, made or dropped in between, the bytes it was given last are where
  `aux_load` looks for them. The runs' bytes are not NUL.
- `ImplementsStoredFile`: the file on disk goes from the bytes of one save to
  the bytes of the next in one step, and what is open after a save, a failed
  one, a `load` or a crash is what is on disk.

- `FileOutlivesCalls`, `AloneInside`: whatever thread gives up the last pointer,
  in or out of a call, nobody else is in the `File` then; and never two at once.
  This is what lets `GigaFile` take calls one by one.
- `PlacedIffOpen`, `PlacedWhenUsed`: `is_closed` and `lookaside` are changed
  under two different locks and agree whenever no call of the client is under
  way; a call that looks its client up finds it, `get_pos` included, which may
  race with a close.
- `ThreadsReturn`: every call returns: there is no deadlock between the locks,
  `~File` in the middle of a call included.
- `LoadAlone`: when `run` loads the file, every client of the round before is
  closed and every thread is out of its calls.
- `RowsExact`, `RunEnds`: the rows count what the threads did, in order, and the
  compare-exchange loops end.

What the violations show (quotes and lines under "findings" in `PROJECT.json`):

| run | the repository says | the code |
|---|---|---|
| `SaveKeepsPlaces` | `load`'s scan places each client on the page that contains its position | two positions on one page: the second goes to a later page with an offset that wraps |
| `SeekReturnsPosition` | `s` returns the global position | the number of a client right behind an insert on the next page is not moved; checked without save, so that the first fault plays no part |
| `EraseTakesAll` | `d` deletes the next len bytes | an erase that starts inside a page stops at the end of that page |
| `OverwriteInPlace` | a write without `is_insert` overwrites | at the end of a page, where an erase or insert leaves its client, it inserts |
| `NulTruncates` | `w` writes the buffer to the file | a page with a NUL byte in it is cut there when it leaves the cache, and cannot be loaded again |
| `NoBloat` | `~Page` removes its working file | not that of a page which `i` made: its `filename` is empty |
| `PagesWithinMax` | a page is split at its maximal size | a split keeps offset + chunk bytes on the page |
| `SharesAreCalls` | the columns of a report are the percentages of the calls | they are quotients of integers: 0 % of each kind as soon as there are two |

### Bounds

- `MaxSize`, `MaxPages`: calls that could make the file longer than `MaxSize`
  or need more page identities are not made (`Fits`). With pages of 2 and 3 and
  files of 4 there are up to two full pages and an empty one between the
  sentinels, a chunk may overflow, fill or stay within a page, and a buffer of 3
  is longer than a page.
- `SizeT`: small, so that subtractions that wrap stay visible; larger than any
  file. A wrapped number is farther than any byte, as 2^64 - n is.
- `DriftBound` (only `TwoClients`): states are explored further while the
  numbers of every client are within one byte of its place. Beyond that the
  first error has happened already: the properties see the states with one error
  and those one step behind them. The bound leaves wrong places alone until a save
  has changed the file on disk; what a failed save leaves is for `OneClient`.
- `FewFail` (`TwoClients`, `OneClient`): a `rename` may fail while every place is
  right and the named file is one of `Images`, that is, before a save has changed
  it or when it is the same again. `ReloadImage` (`OneClient`) lets `load` take
  the file then. That is enough for the file on disk to be longer, shorter or
  other than what is lost, and keeps it from multiplying the states. `Spec`, which
  the proofs are about, has neither bound. In the violations no `rename` fails
  (`Renames`), except in `SaveKeepsPlaces`, which is about saves that succeed.
- `LostBound` (`OneClient`): with a wrong place, which only a failed save leaves,
  states are explored further while the file has at most two bytes.
- `VIEW Renumbered` (violations): two states with the same list of bytes and
  sizes, clients, size and call differ only in page numbers and in `disk`, which
  nothing reads where no `rename` fails and there is no `Reload`.
  `RenumberedOnImage` (`TwoClients`, `OneClient`) has `disk` while a save or load
  may read it, `RenumberedOnDisk` (`SaveKeepsPlaces`) always.

- `PageStore`'s `MaxPages`: 4 page objects at a time, those in the list and
  those the cache still holds: the file opens with two inner pages, and a page
  can be made when another is gone, in the place of a page or of the tail.
  Pages only meet in the list, the cache and the named file, so that more of
  them add combinations but no new steps. A cache of one page evicts on every
  change of page.

- `Threads`: 3 calls between the two callers are enough for a close, a reopening
  and a use that overlap, and for both to give up the `File` around them. Their
  operations are `write`, `get_pos`, `open`, `close` and `save`: in this model
  the others take the same steps as one of these; clients are opened by the main
  thread of a run, next to the calls of its workers. `Times` is {1}: an update
  that is lost is short of the sum. The program is one of callers or one that
  measures, never both, because `run` needs the `File` to itself.

### Fairness

`FairSpec`, and `FairFailSpec` with the bounds of `OneClient`, ask for `WF_vars(Step)`: a thread in a call holds `File::l`, waits
for nothing and is scheduled by the operating system. Nothing is asked of
clients: they may never call again.

`PerformanceFairness` (and `Fairness` of `ClientLocks`) asks for weak fairness of
each thread that is in a call or in `run`: of its next step, whichever it is. A
mutex is taken if it stays free for a thread. That is enough because callers
make finitely many calls, so that nobody is overtaken for ever; nothing is said
of programs that call without end, for which `std::recursive_mutex` promises
nothing. Callers need not call, and need not give up the `File`. A
`compare_exchange_weak` that fails for no reason changes nothing and is no step:
it is assumed to happen finitely often in a row.

## Proofs

Every theorem holds for all values of the constants that satisfy the named
assumptions of the modules, which the runs evaluate. Unless a line says so, a
theorem has no other hypothesis.

| module | theorems | assumptions |
|---|---|---|
| `GigaFileProofs` | `Invariance`, `TypeCorrect`, `PagesCorrect`, `PageSizesCorrect` | `ClientAssumption`, `ConfigAssumption`, `BufferAssumption`, `BoundAssumption`, `ImageAssumption` |
| `PlaceProofs` | with `MaxSize < SizeT`: `RoomCorrect`, `DriftCorrect`, `LoneDriftCorrect`, `SizeKept`; with one client too: `FileSizeCorrect` | as `GigaFileProofs` |
| `ClientLocksProofs` | `LocksInvariance`, `LocksTypeCorrect`, `ExclusionCorrect`, `LifetimeCorrect`, `PlacesCorrect`, `PlaceUseCorrect` | `ThreadAssumption`, `ModeAssumption`, `CallAssumption` |
| `PerformanceProofs` | `PerformanceInvariance`, `PerformanceTypeCorrect`, `RowsCorrect`, `LoadCorrect`, `RunLocksCorrect`, `RunPlacesCorrect` | these, `WorkersAssumption`, `TimesAssumption`, `ArgumentAssumption` |
| `PageStoreProofs` | `LayoutInvariance`, `StoreTypeCorrect`; with `Nul \notin Byte`: `PagesCorrect`, `StoreRefines` | `StoreAssumption`, `BytesAssumption` |

### GigaFile

`TypeOK`, `PagesOK` and `PageSizesExact` hold in every state. None of the three
is inductive alone. `IInv` adds what they lean on:

- `ListOK`: no page twice and two sentinels, so that a neighbour of an inner
  page is a page of the list.
- `StoreOK`: sizes are exact for *all* page identities, the sentinels and the
  unused ones are empty. So a page with bytes is no sentinel, and the page that
  `d` takes out of the list has one before and one after it; and a new page
  comes with its size right.
- `ClientsOK`: iterators of open clients point into the list.
- `CallOK`: the client of a call is open; `w`'s and `i`'s rest is within the
  buffer, so a chunk of n bytes is n bytes; and `i` never works on a sentinel:
  `align` moves its client off the head, and the new tail sentinel that `i` puts
  behind the old makes that an inner page.

There is one lemma per action, under it one step per part of `IInv`; `NextStep`
collects them. The lists (`InsertAt`, `RemoveAt`, cuts and joins of buffers) are
handled by `ListTheorems`. `InsertFacts`, `ValidChunk` and `PageChanges` hold
what the branches of `d` and `i` share. The proofs need no assumption on where
clients are: they cover the states after a place went wrong, wrapped offsets
included.

### The places of the clients

`PlaceProofs` proves `DriftHasCause` and `OnlyLostSaveDrifts` for any number of
clients, of `Spec`: any `rename` may fail. It proves `FileSizeExact` for one
client. The hypotheses are

- `MaxSize < SizeT`: a `size_t` can count the bytes that the clients write
  (`MaxSize` bounds the calls that are made, see Bounds). All runs have it, and
  the code has no check of its own: with a file of 2^64 bytes `size` would wrap.
- for `FileSizeCorrect`, one client, written `\A c, d \in Client : c = d`. With
  two, `FileSizeExact` has no violation within the bounds of `TwoClients`, but its
  proof needs the other clients' offsets within their pages: one that wrapped
  (`Overruns`) makes `i` throw after the bytes went into the page and before `size`
  counts them, and nothing rules that out once two clients share a page of the file
  that a save loads. `SizeKept` is what remains of `FileSizeExact`: while all places
  are exact, or one client at most is open, a step keeps the size exact.

`MCGigaFile` says where a page starts with a recursive function, from which
nothing can be proved for a list of unknown length. The proof measures the list
with a witness instead: a function u where u[k] is the number of bytes on the
first k pages (`Ends`; it exists, is unique, and its last value is the length of
the contents: `EndsExist`, `EndsUnique`, `ContentsLength`). A client on page k at
offset o is then exact when its position is u[k - 1] + o (`OnPage`), and each
kind of change to the list has a lemma that says how u changes: a page of
another size (`EndsHeavier`), a page cut in two (`EndsWidened`), a page removed
(`EndsNarrowed`), a tail added (`EndsLengthened`), and a file loaded
(`LoadedGeometry`).

`RoomOK` is the part of the inductive invariant that `IInv` lacks: the bytes there
are and those that a `w` or `i` still adds are at most `MaxSize`, so that no
position or size wraps; and a client that appends is at the end of the last page
before the new tail while it inserts, which is why `i` may put it on the tail when
it returns.
`Follows` is what one step does to u and the places together; there is one lemma
per action. The three exceptions come out of the proof where they come in:
`InsertOrder` needs the condition `Untwinned` to know that a client on a later
page is at a greater position; `ScanFinds` (the scan of `load` finds the page
of every position before the end of the file) needs that no page has two,
`Spread`; and a client that the scan puts on the tail is there only if its
position is not behind the end (`LoadFollows`). A client alone on the file has
only the last (`LoneDrift`).

### ClientLocks

The same five invariants that the run checks, for any number of threads, clients
and calls. The inductive invariant `LInv` follows who owns what:

- which program counters own which mutex, so that two threads at one of them
  would be two owners;
- a thread is past `Pin` only with a pointer to the `File`, its own or the one
  its call made, or in `~File`. So the destructor starts when no thread is there,
  and none can get there, because only a pointer gives a pointer;
- `is_closed` and `lookaside` of a client differ only while the owner of its
  `Client::l` is between its change under `File::l` and `Unpin`, or `~File` has
  not come to it;
- the contract on callers (`Proper`) gives what a call has still to find when it
  gets to the `File`: its client is not closed under it.

### Performance

The steps of `ClientLocks` are taken by the workers of `run` here, so its
invariant is proved again for `Performance`'s specification, and the contract it
asks of callers is now a fact: a worker uses its own client only (`OwnOK`), and
`run` opens the others while nobody has them (`QuietOK`, `MeasuringLasts`).

`RowsExact` says that a row is the *sum* of what a round's threads did. The
model states a sum with `MapThenFoldSet`, from which nothing can be proved for a
set of unknown size. The proof gives a witness instead: a function of partial
sums (`IsSum`), whose existence, uniqueness and change by one summand are
lemmas of `SumTheorems`, proved with the least number at which a claim would
fail. The inductive invariant is then a conservation law: what the atomics hold
and what the threads have still to add are together what the clients did. A lost
update would break it, and the compare-exchange keeps it because a thread's
`expected` is compared with the value it is about to replace.

### PageStore

`SInv` (types and layout) holds whatever the bytes are: the named file exists,
the list has its two sentinels and no page twice, and each page is in the named
file or in a working file whose name has the page in it. Two pages therefore
share no working file, and an eviction or `~Page` leaves the files of the others.

`PagesKeep` and the refinement have the hypothesis `Nul \notin Byte`. It is
needed: the run `NulTruncates` shows the same property violated with a NUL among
the bytes, the finding on `src/page.cc:104`. `KInv` says where the bytes of a
page are: in memory, or from `at` on in its file, whole (`KeptOK`); and that
what a save has copied are the bytes its pages were given (`SaveOK`), because no
page changes while a save goes on.

`StoreRefines` is the whole safety refinement, one lemma per action: what the
cache does and what a save reads are stutters of `StoredFile`; `Put`, `NewPage`
and `Erase` are its `Put`, `Insert` and `Erase`; `SaveReplaces` is `Save`;
`SaveFails`, `Reload` and `Crash` are `Forget`. That the pages of a file just
loaded are the pieces of its bytes is shown page by page (`OpenedKeeps`); of the
string that a save writes only the type is needed (`FlattenType`), for it is the
same concatenation on both sides.

### Only model-checked

- Liveness (`CallsReturn`, `ThreadsReturn`, `RunEnds`).
- The refinement of `ByteFile`, and `PlacesKept`: both are about the bytes around
  a place, and wait for the contents as one string, cut at a place.

## Plan

Built: all modules and runs of the plan, and the proofs above. Next:

1. `GigaFile`: the refinement of `ByteFile`, action by action: the contents as the
   joins of `ListTheorems` (`FlattenJoins`, `ContentsLength`), cut at u[k - 1] + o.
2. `PlacesKept`, from the same cuts.

## Not modelled

- MD5: a vendored hash, which giga uses to name working files.
- The text of a report, the tag and the columns of a row that are copied from
  the `File`, `get_usage` and `parse_line`: reading and formatting.
- A working file or a copy that cannot be opened or written (`fopen`, `fputs`,
  `fwrite` that fail).
- A client used after it was closed, an exception in a thread of `aux_run`, and
  the report of a run without accesses: undefined, or the end of the process.
- The build, the tests and the tutorial; cachepp and exceptionpp (submodules that
  the repository does not hold) beyond their use.
