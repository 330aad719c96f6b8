----------------------------- MODULE PageStore ------------------------------
(***************************************************************************)
(* giga::Page (src/page.cc) between memory and disk: pages come into the   *)
(* cache with aux_load and leave it with aux_unload, a page that was       *)
(* written goes to a working file of its own under /tmp/giga, and save     *)
(* puts the pages together in a new file.                                  *)
(*                                                                         *)
(* The cache (cachepp, external) loads a page that is asked for and at any *)
(* time unloads one to make room; it keeps a page that left File::pages    *)
(* alive until then.  An exception out of aux_load changes nothing; when   *)
(* it can be thrown is what Readable says.                                 *)
(***************************************************************************)
EXTENDS Integers, Sequences, FiniteSets, SequencesExt

CONSTANTS
  Byte,       \* the values a byte takes
  Nul,        \* the byte that ends a C string
  Images,     \* the contents the file may have when it is opened
  Buffers,    \* what a page is given to hold
  ISize,      \* Config::i_page_size
  CacheSize,  \* Config::cache_size
  MaxPages    \* bound: the number of pages alive at a time

ASSUME StoreAssumption == ISize \in Nat \ {0} /\ CacheSize \in Nat \ {0} /\ MaxPages \in Nat
ASSUME BytesAssumption == Images \subseteq Seq(Byte) /\ Buffers \subseteq Seq(Byte)

PageId == 1 .. MaxPages

(* File names: none, the file's, and the working files of a page.  A       *)
(* working file's name is a hash of the page's number, the page's last     *)
(* file name and a random number: two names of one page that follow each   *)
(* other differ, and two pages share none.                                 *)
None    == <<0, 0>>
Named   == <<0, 1>>
Work(p) == {<<p, 1>>, <<p, 2>>}
Name    == {None, Named} \cup UNION {Work(p) : p \in PageId}

VARIABLES
  list,    \* File::pages
  line,    \* the Page objects: what each member holds
  cached,  \* the pages in the cache
  files,   \* the named file, and the working files of the pages
  litter,  \* whether a working file has outlived its page
  save,    \* how far a save has come
  given    \* history: the bytes each page was given last

vars == <<list, line, cached, files, litter, save, given>>

(* own is Page::filename, name is Page::cached; data is empty for a page   *)
(* that is not in the cache.                                               *)
Line == [own : {None, Named}, name : Name, at : Nat, size : Nat,
         dirty : BOOLEAN, data : Seq(Byte)]

Idle == [busy |-> FALSE, copied |-> <<>>]

TypeOK ==
  /\ list \in Seq(PageId)
  /\ DOMAIN line \subseteq PageId
  /\ line \in [DOMAIN line -> Line]
  /\ cached \subseteq DOMAIN line
  /\ DOMAIN files \subseteq Name
  /\ files \in [DOMAIN files -> Seq(Byte)]
  /\ litter \in BOOLEAN
  /\ save \in [busy : BOOLEAN, copied : Seq(Seq(Byte))]
  /\ given \in [DOMAIN line -> Seq(Byte)]

-----------------------------------------------------------------------------
(* Pages.                                                                  *)

Without(fs, names) == [n \in DOMAIN fs \ names |-> fs[n]]
With(fs, n, s)     == [m \in DOMAIN fs \cup {n} |-> IF m = n THEN s ELSE fs[m]]

(* What fputs writes of the bytes: those before the first Nul.             *)
TextLength(s) ==
  CHOOSE k \in 0 .. Len(s) : /\ \A j \in 1 .. k : s[j] # Nul
                             /\ k < Len(s) => s[k + 1] = Nul
Text(s) == SubSeq(s, 1, TextLength(s))

(* get_filename of a dirty page.                                           *)
NextName(p) == IF line[p].name = <<p, 1>> THEN <<p, 2>> ELSE <<p, 1>>

OnDisk(l) == l.size > 0 /\ ~l.dirty

(* Mutant of Loaded: without the fseek.                                    *)
LoadedFromStart(l) == IF OnDisk(l) THEN SubSeq(files[l.name], 1, l.size) ELSE <<>>

(* aux_load: an empty page, or one that was never written out, has no      *)
(* bytes; any other has size bytes of its file, if they are there.         *)
Readable(l) ==
  OnDisk(l) => l.name \in DOMAIN files /\ l.at + l.size <= Len(files[l.name])
Loaded(l) == IF OnDisk(l) THEN SubSeq(files[l.name], l.at + 1, l.at + l.size) ELSE <<>>

(* Mutant of Unloaded: the place in the file the page came from.           *)
UnloadedInPlace(p) ==
  LET l == line[p] IN
  IF l.dirty
  THEN [l EXCEPT !.size = Len(l.data), !.name = NextName(p), !.dirty = FALSE, !.data = <<>>]
  ELSE [l EXCEPT !.size = Len(l.data), !.data = <<>>]

(* aux_unload: a dirty page is written to its next working file, and the   *)
(* one before is removed.                                                  *)
Unloaded(p) ==
  LET l == line[p] IN
  IF l.dirty
  THEN [l EXCEPT !.size = Len(l.data), !.at = 0, !.name = NextName(p),
                 !.dirty = FALSE, !.data = <<>>]
  ELSE [l EXCEPT !.size = Len(l.data), !.data = <<>>]

WrittenOut(p) ==
  LET l == line[p] IN
  IF l.dirty
  THEN Without(With(files, NextName(p), Text(l.data)), {l.name} \ {l.own})
  ELSE files

(* ~Page: what it removes.                                                 *)
FileName(p, l) == IF l.dirty THEN NextName(p) ELSE l.name
Scrap(p, l)    == IF l.name # l.own /\ l.own # None THEN {FileName(p, l)} ELSE {}

(* A page is destroyed when fs are the files.  No page to come has a name  *)
(* of this one's files: what is left of them is only litter.               *)
Destroyed(p, l, fs) ==
  LET left == Work(p) \cap DOMAIN Without(fs, Scrap(p, l)) IN
  /\ line' = [q \in DOMAIN line \ {p} |-> line[q]]
  /\ files' = Without(fs, Scrap(p, l) \cup left)
  /\ litter' = (litter \/ left # {})
  /\ given' = [q \in DOMAIN line \ {p} |-> given[q]]

-----------------------------------------------------------------------------
(* load: pages on the named file, clean and not in the cache.              *)

Count(n) == n \div ISize + 3

(* Mutant of FirstLine: offsets counted from the front page.               *)
FirstLineShifted(n, k) ==
  LET inner == k \in 2 .. Count(n) - 1
      at    == (k - 1) * ISize
  IN [own |-> Named, name |-> Named, dirty |-> FALSE, data |-> <<>>,
      at   |-> IF inner THEN at ELSE 0,
      size |-> IF ~inner THEN 0 ELSE IF n - at > ISize THEN ISize ELSE n - at]

FirstLine(n, k) ==
  LET inner == k \in 2 .. Count(n) - 1
      at    == (k - 2) * ISize
  IN [own |-> Named, name |-> Named, dirty |-> FALSE, data |-> <<>>,
      at   |-> IF inner THEN at ELSE 0,
      size |-> IF ~inner THEN 0 ELSE IF n - at > ISize THEN ISize ELSE n - at]

(* Page k of an image.                                                     *)
Piece(image, k) ==
  LET l == FirstLine(Len(image), k) IN SubSeq(image, l.at + 1, l.at + l.size)

Init ==
  \E image \in Images : LET n == Count(Len(image)) IN
    /\ n <= MaxPages
    /\ list = [k \in 1 .. n |-> k]
    /\ line = [k \in 1 .. n |-> FirstLine(Len(image), k)]
    /\ cached = {}
    /\ files = [f \in {Named} |-> image]
    /\ litter = FALSE
    /\ save = Idle
    /\ given = [k \in 1 .. n |-> Piece(image, k)]

(* All pages are new, and the named file holds image; what fs has beside   *)
(* the named file is left behind.                                          *)
Opened(image, fs) == LET n == Count(Len(image)) IN
  /\ n <= MaxPages
  /\ list' = [k \in 1 .. n |-> k]
  /\ line' = [k \in 1 .. n |-> FirstLine(Len(image), k)]
  /\ cached' = {}
  /\ files' = [f \in {Named} |-> image]
  /\ litter' = (litter \/ DOMAIN fs \ {Named} # {})
  /\ save' = Idle
  /\ given' = [k \in 1 .. n |-> Piece(image, k)]

-----------------------------------------------------------------------------
(* The cache.                                                              *)

Listed == Range(list)

Acquire(p) ==
  /\ p \in Listed \ cached
  /\ Cardinality(cached) < CacheSize
  /\ Readable(line[p])
  /\ line' = [line EXCEPT ![p].data = Loaded(line[p])]
  /\ cached' = cached \cup {p}
  /\ UNCHANGED <<list, files, litter, save, given>>

(* The cache's pointer to a page that left the list is the last.           *)
Evict(p) ==
  /\ p \in cached
  /\ cached' = cached \ {p}
  /\ IF p \in Listed
     THEN /\ line' = [line EXCEPT ![p] = Unloaded(p)]
          /\ files' = WrittenOut(p)
          /\ UNCHANGED <<litter, given>>
     ELSE Destroyed(p, Unloaded(p), WrittenOut(p))
  /\ UNCHANGED <<list, save>>

-----------------------------------------------------------------------------
(* What the operations of File do to pages, under File::l.                 *)

Inner == 2 .. Len(list) - 1

(* cache->w, and set_size with the number of bytes given.                  *)
Put(k, b) ==
  /\ ~save.busy
  /\ list[k] \in cached
  /\ line' = [line EXCEPT ![list[k]].data = b, ![list[k]].size = Len(b),
                          ![list[k]].dirty = TRUE]
  /\ given' = [given EXCEPT ![list[k]] = b]
  /\ UNCHANGED <<list, cached, files, litter, save>>

(* i: a page without a file behind another, made for n bytes.              *)
NewPage(k, n) ==
  /\ ~save.busy
  /\ \E p \in PageId \ DOMAIN line :
       /\ \A q \in PageId \ DOMAIN line : p <= q
       /\ list' = InsertAt(list, k + 1, p)
       /\ line' = [q \in DOMAIN line \cup {p} |->
                     IF q = p THEN [own |-> None, name |-> None, at |-> 0, size |-> n,
                                    dirty |-> TRUE, data |-> <<>>]
                              ELSE line[q]]
       /\ given' = [q \in DOMAIN line \cup {p} |-> IF q = p THEN <<>> ELSE given[q]]
  /\ UNCHANGED <<cached, files, litter, save>>

(* d: a page whose bytes were just read leaves the list; the cache still   *)
(* has it.                                                                 *)
Erase(k) ==
  /\ ~save.busy
  /\ list[k] \in cached
  /\ line[list[k]].size > 0
  /\ list' = RemoveAt(list, k)
  /\ UNCHANGED <<line, cached, files, litter, save, given>>

-----------------------------------------------------------------------------
(* save: the cache is cleared (a series of Evict), every page is read in   *)
(* turn, and the bytes replace the file.                                   *)

SaveBegins ==
  /\ ~save.busy
  /\ cached = {}
  /\ save' = [busy |-> TRUE, copied |-> <<>>]
  /\ UNCHANGED <<list, line, cached, files, litter, given>>

SaveCopies ==
  /\ save.busy
  /\ Len(save.copied) < Len(list)
  /\ LET p == list[Len(save.copied) + 1] IN
     /\ p \in cached
     /\ save' = [save EXCEPT !.copied = Append(@, line[p].data)]
  /\ UNCHANGED <<list, line, cached, files, litter, given>>

(* pages.clear(): every page is destroyed.  load resets the cache first,   *)
(* before or after the rename: unloading reads nothing of the named file.  *)
Cleared == Without(files, UNION {Scrap(p, line[p]) : p \in DOMAIN line})

SaveReplaces ==
  /\ save.busy
  /\ Len(save.copied) = Len(list)
  /\ cached = {}
  /\ Opened(FlattenSeq(save.copied), Cleared)

(* rename fails, which save does not look at: it loads the old file.       *)
SaveFails ==
  /\ save.busy
  /\ Len(save.copied) = Len(list)
  /\ cached = {}
  /\ Opened(files[Named], Cleared)

Reload ==
  /\ ~save.busy
  /\ cached = {}
  /\ Opened(files[Named], Cleared)

(* The process ends at any moment, and another opens the file.             *)
Crash == Opened(files[Named], files)

-----------------------------------------------------------------------------
Next ==
  \/ \E p \in PageId : Acquire(p) \/ Evict(p)
  \/ \E k \in Inner, b \in Buffers : Put(k, b) \/ NewPage(k, Len(b))
  \/ NewPage(Len(list), 0)
  \/ \E k \in Inner : Erase(k)
  \/ SaveBegins \/ SaveCopies \/ SaveReplaces \/ SaveFails
  \/ Reload
  \/ Crash

Spec == Init /\ [][Next]_vars

-----------------------------------------------------------------------------
Bytes(p) == IF p \in cached THEN line[p].data ELSE Loaded(line[p])

(* Every page of the file has the bytes it was given last, however often   *)
(* it has left the cache since: aux_load finds them where aux_unload, load *)
(* or save left them, and does not throw.                                  *)
PagesKeep ==
  \A p \in Listed : /\ p \notin cached => Readable(line[p])
                    /\ Bytes(p) = given[p]

Stored == INSTANCE StoredFile WITH
  pieces <- [k \in 1 .. Len(list) |-> given[list[k]]],
  saved  <- files[Named]

(* The file on disk changes to the bytes of all its pages at once or not   *)
(* at all; after a save, a save that failed, a load or a crash the pages   *)
(* are those of the file on disk.                                          *)
ImplementsStoredFile == Stored!Spec
=============================================================================
