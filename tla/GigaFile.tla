------------------------------ MODULE GigaFile ------------------------------
(***************************************************************************)
(* giga::File (src/file.cc): the list of pages that holds a file's bytes,  *)
(* the lookaside table with one position per open client, and the          *)
(* operations s, r, w, d, i, open, close, save and load.                   *)
(*                                                                         *)
(* Every operation but load holds File::l from its first line to its       *)
(* return, so at most one call is in progress.  A call is the step that    *)
(* enters it, one step per iteration of its loop, and the step that leaves *)
(* the loop; nothing else can happen in between.                           *)
(*                                                                         *)
(* An iterator into the std::list is the identity of the page it points    *)
(* to: inserting or erasing other pages leaves it valid.  The bytes of a   *)
(* page are what cache->r returns; the cache and the page's working file   *)
(* are taken to give back the bytes last written.  p_count numbers the     *)
(* pages; here a new page takes a number not in use, so that a bounded set *)
(* of numbers is enough.                                                   *)
(***************************************************************************)
EXTENDS Integers, Sequences, FiniteSets, SequencesExt

CONSTANTS
  Client,     \* client identifiers (File::c_count)
  Byte,       \* the values a byte takes
  Buffers,    \* the buffers clients pass to write
  Images,     \* the contents the file may have when it is opened
  Lengths,    \* the lengths clients pass to read, erase and seek
  Mode,       \* the mode of the file, a subset of {"r", "w"}
  ISize,      \* Config::i_page_size
  MSize,      \* Config::m_page_size
  SizeT,      \* size_t is 0 .. SizeT - 1
  MaxSize,    \* bound: calls that would make the file longer are not made
  MaxPages    \* bound: the number of page identities

ASSUME ClientAssumption == Client \subseteq Nat
ASSUME ConfigAssumption == ISize \in Nat \ {0} /\ MSize \in Nat \ {0}
ASSUME BufferAssumption == Buffers \subseteq Seq(Byte) /\ Lengths \subseteq Nat
ASSUME BoundAssumption  == SizeT \in Nat \ {0} /\ MaxSize \in Nat /\ MaxPages \in Nat
ASSUME ImageAssumption  ==
  /\ Images \subseteq Seq(Byte)
  /\ \A s \in Images : Len(s) < SizeT /\ Len(s) \div ISize + 3 <= MaxPages

PageId == 1 .. MaxPages
End    == 0              \* pages.end()
Size   == 0 .. SizeT - 1
Ops    == {"s", "r", "w", "i", "d"}

VARIABLES
  pages,      \* File::pages, from the head sentinel to the tail sentinel
  data,       \* [PageId -> Seq(Byte)]: what cache->r returns for a page
  psize,      \* [PageId -> Nat]: Page::size
  size,       \* File::size
  lookaside,  \* File::lookaside: the ClientData of each open client
  disk,       \* the bytes of the named file
  call        \* the call that holds File::l, or how the last one ended

vars == <<pages, data, psize, size, lookaside, disk, call>>

ClientData == [page : PageId \cup {End}, off : Nat, pos : Size]

(* The arguments and locals of a call: op is what the client asked for, pc *)
(* the loop it is in (w continues in the loop of i), len the bytes left.   *)
Calls == [op : Ops, pc : Ops, client : Client, len : Nat, val : Seq(Byte),
          fwd : BOOLEAN, back : BOOLEAN, out : Seq(Byte)]

Ended(threw) == [op |-> "idle", threw |-> threw]

TypeOK ==
  /\ pages \in Seq(PageId)
  /\ data \in [PageId -> Seq(Byte)]
  /\ psize \in [PageId -> Nat]
  /\ size \in Size
  /\ DOMAIN lookaside \subseteq Client
  /\ lookaside \in [DOMAIN lookaside -> ClientData]
  /\ disk \in Seq(Byte)
  /\ call \in Calls \cup {Ended(FALSE), Ended(TRUE)}

-----------------------------------------------------------------------------
(* Mutant of Sub: signed offsets, which do not wrap.                       *)
SubSigned(a, b) == a - b

(* size_t arithmetic wraps.                                                *)
Add(a, b) == (a + b) % SizeT
Sub(a, b) == (a - b) % SizeT

Least(a, b) == IF a > b THEN b ELSE a

(* The list. *)

Back       == pages[Len(pages)]
Index(p)   == CHOOSE k \in 1..Len(pages) : pages[k] = p
Succ(p)    == IF Index(p) = Len(pages) THEN End ELSE pages[Index(p) + 1]
Pred(p)    == pages[Index(p) - 1]
Unused     == PageId \ Range(pages)
NewPage    == CHOOSE p \in Unused : TRUE
Contents   == FlattenSeq([k \in 1..Len(pages) |-> data[pages[k]]])

(* Page::probe: the bytes from offset o to the end or the beginning of p,  *)
(* at most n of them; an offset past the end of the page is an exception.  *)
Probe(p, o, n, fwd) == IF fwd THEN Least(psize[p] - o, n) ELSE Least(o, n)
Misplaced(p, o)     == o > psize[p]

(* Config::probe and the special case of i for an offset at the end of the *)
(* page: how many of len bytes to insert at offset o of page p.            *)
Room(o)       == Sub(MSize, o)
InsertProbe(p, o, len) ==
  IF Least(psize[p] - o, len) >= len THEN len ELSE Least(Room(o), len)
ChunkSize(p, o, len) ==
  IF o = psize[p] THEN Least(ISize, len) ELSE InsertProbe(p, o, len)

-----------------------------------------------------------------------------
(* load: one page for every ISize bytes of the file, an empty page first   *)
(* and last.  When the size is a multiple of ISize the last page between   *)
(* the sentinels is empty.                                                 *)

PageCount(n)    == n \div ISize + 3
LoadedSize(n, k) ==
  IF k \in 2 .. PageCount(n) - 1 THEN Least(n - (k - 2) * ISize, ISize) ELSE 0
LoadedEnd(n, k) == IF k = 1 THEN 0 ELSE Least((k - 1) * ISize, n)

LoadedPages(n) == [k \in 1 .. PageCount(n) |-> k]
LoadedSizes(n) == [p \in PageId |-> LoadedSize(n, p)]
LoadedData(image) ==
  [p \in PageId |-> SubSeq(image, (p - 2) * ISize + 1,
                                  (p - 2) * ISize + LoadedSize(Len(image), p))]

(* The scan that puts the clients on the new pages: the distinct positions *)
(* in increasing order against the pages in order.  A page takes the least *)
(* position not yet placed if it is before the end of the page, and then   *)
(* the scan moves to the NEXT page, whether or not another position is on  *)
(* this one.  at[o] is the page that takes o, PageCount(n) + 1 if none.    *)
Positions == {lookaside[c].pos : c \in DOMAIN lookaside}

MergeScan(n, at) ==
  LET Takes(o, k) == o < LoadedEnd(n, k) /\ \A u \in Positions : u < o => at[u] < k
  IN \A o \in Positions :
       /\ at[o] <= PageCount(n) => Takes(o, at[o])
       /\ \A k \in 1 .. at[o] - 1 : ~Takes(o, k)

(* Mutant of Placed: the position in the file taken for one in the page.   *)
PlacedUnshifted(n, at, info) ==
  LET k == at[info.pos] IN
  IF k <= PageCount(n)
  THEN [info EXCEPT !.page = k, !.off = info.pos]
  ELSE [info EXCEPT !.page = IF n > 0 THEN PageCount(n) ELSE 2, !.off = 0]

Placed(n, at, info) ==
  LET k == at[info.pos] IN
  IF k <= PageCount(n)
  THEN [info EXCEPT !.page = k, !.off = Sub(info.pos, LoadedEnd(n, k) - LoadedSize(n, k))]
  ELSE [info EXCEPT !.page = IF n > 0 THEN PageCount(n) ELSE 2, !.off = 0]

Load(image) ==
  LET n == Len(image) IN
  /\ n < SizeT /\ PageCount(n) <= MaxPages
  /\ pages' = LoadedPages(n)
  /\ psize' = LoadedSizes(n)
  /\ data' = LoadedData(image)
  /\ size' = n
  /\ \E at \in [Positions -> 1 .. PageCount(n) + 1] :
       /\ MergeScan(n, at)
       /\ lookaside' = [c \in DOMAIN lookaside |-> Placed(n, at, lookaside[c])]

Init ==
  /\ disk \in Images
  /\ pages = LoadedPages(Len(disk))
  /\ psize = LoadedSizes(Len(disk))
  /\ data = LoadedData(disk)
  /\ size = Len(disk)
  /\ lookaside = <<>>
  /\ call = Ended(FALSE)

-----------------------------------------------------------------------------
(* Opening, closing, saving.                                               *)

Free == call.op = "idle"          \* nobody holds File::l

(* align: an iterator on the head sentinel moves to the page after it, one *)
(* at pages.end() to the end of the tail sentinel.                         *)
Aligned(info) ==
  CASE info.page = pages[1] -> [info EXCEPT !.page = Succ(@), !.off = 0]
    [] info.page = End      -> [info EXCEPT !.page = Back, !.off = psize[Back]]
    [] OTHER                -> info

AlignClient(c) == lookaside' = [lookaside EXCEPT ![c] = Aligned(@)]

(* open (and reopen) starts the client at the beginning of the file.       *)
Open(c) ==
  /\ Free
  /\ c \notin DOMAIN lookaside
  /\ lookaside' = [x \in DOMAIN lookaside \cup {c} |->
                     IF x = c THEN Aligned([page |-> pages[1], off |-> 0, pos |-> 0])
                              ELSE lookaside[x]]
  /\ UNCHANGED <<pages, data, psize, size, disk, call>>

Close(c) ==
  /\ Free
  /\ c \in DOMAIN lookaside
  /\ lookaside' = [x \in DOMAIN lookaside \ {c} |-> lookaside[x]]
  /\ UNCHANGED <<pages, data, psize, size, disk, call>>

(* save writes the pages in order to a new file, renames it to the file's  *)
(* name and loads what has that name.  It does not look at the result of   *)
(* rename, which fails from /tmp to another file system: it then loads the *)
(* old bytes under clients that keep their positions.                      *)
Save ==
  /\ Free
  /\ Contents \in Seq(Byte)
  /\ \E image \in {Contents, disk} :
       /\ disk' = image
       /\ Load(image)
  /\ UNCHANGED call

(* load is public and takes no lock.  The repository calls it between      *)
(* calls and with every client closed; what was not saved is forgotten.    *)
Reload ==
  /\ Free
  /\ DOMAIN lookaside = {}
  /\ Load(disk)
  /\ UNCHANGED <<disk, call>>

-----------------------------------------------------------------------------
(* Calls.  Enter starts the loop pc of a call of client c.  The code has   *)
(* no guard against a call of a closed client, which dereferences the null *)
(* entry that lookaside[id] makes: here, calls are made by open clients.   *)

Enter(c, op, len, val, fwd) ==
  /\ Free
  /\ c \in DOMAIN lookaside
  /\ call' = [op |-> op, pc |-> op, client |-> c, len |-> len, val |-> val,
              fwd |-> fwd, back |-> FALSE, out |-> <<>>]

(* The client of the call, and the loop it is in.                          *)
Me       == lookaside[call.client]
In(loop) == call.op # "idle" /\ call.pc = loop
Leave    == call' = Ended(FALSE)

(* The distance and direction from position p of a seek by n bytes, or to  *)
(* the byte n from the beginning or the end.                               *)
SeekPlan(p, n, fwd, absolute) ==
  LET len    == IF size > n THEN n ELSE size
      target == IF fwd THEN len ELSE size - len
  IN IF ~absolute THEN [len |-> len, fwd |-> fwd]
     ELSE IF target > p THEN [len |-> target - p, fwd |-> TRUE]
                        ELSE [len |-> p - target, fwd |-> FALSE]

(* A seek over no bytes only returns the position.                         *)
Seek(c, n, fwd, absolute) ==
  /\ c \in DOMAIN lookaside
  /\ LET plan == SeekPlan(lookaside[c].pos, n, fwd, absolute) IN
     /\ plan.len # 0
     /\ Enter(c, "s", plan.len, <<>>, plan.fwd)
  /\ AlignClient(c)
  /\ UNCHANGED <<pages, data, psize, size, disk>>

Read(c, n) ==
  /\ "r" \in Mode
  /\ Enter(c, "r", n, <<>>, TRUE)
  /\ AlignClient(c)
  /\ UNCHANGED <<pages, data, psize, size, disk>>

(* Bound on calls that can make the file or the list of pages longer.      *)
Fits(n) == Len(Contents) + n <= MaxSize /\ Cardinality(Unused) > n

Write(c, buf) ==
  /\ "w" \in Mode
  /\ Fits(Len(buf))
  /\ Enter(c, "w", Len(buf), buf, TRUE)
  /\ AlignClient(c)
  /\ UNCHANGED <<pages, data, psize, size, disk>>

Erase(c, n) ==
  /\ "w" \in Mode
  /\ Enter(c, "d", n, <<>>, TRUE)
  /\ AlignClient(c)
  /\ UNCHANGED <<pages, data, psize, size, disk>>

(* i: a client on the tail sentinel inserts into it, and a new sentinel    *)
(* goes behind it.                                                         *)
AppendTail(info) ==
  IF info.page = Back THEN Unused # {} /\ pages' = Append(pages, NewPage)
                      ELSE UNCHANGED pages

Insert(c, buf) ==
  /\ "w" \in Mode
  /\ Fits(Len(buf))
  /\ Free
  /\ c \in DOMAIN lookaside
  /\ LET info == Aligned(lookaside[c]) IN
     /\ AppendTail(info)
     /\ call' = [op |-> "i", pc |-> "i", client |-> c, len |-> Len(buf), val |-> buf,
                 fwd |-> TRUE, back |-> info.page = Back, out |-> <<>>]
  /\ AlignClient(c)
  /\ UNCHANGED <<data, psize, size, disk>>

-----------------------------------------------------------------------------
(* Mutants of Advanced: the offset is not reset on the next page; a client *)
(* at the end of a page stays there.                                       *)
AdvancedOffset(info, n) ==
  IF info.off + n < psize[info.page]
  THEN [info EXCEPT !.pos = Add(@, n), !.off = @ + n]
  ELSE [info EXCEPT !.pos = Add(@, n), !.page = Succ(@)]
AdvancedStay(info, n) ==
  IF info.off + n <= psize[info.page]
  THEN [info EXCEPT !.pos = Add(@, n), !.off = @ + n]
  ELSE [info EXCEPT !.pos = Add(@, n), !.off = 0, !.page = Succ(@)]

(* What the loops of s, r and w do with n bytes of the page they are on:   *)
(* move past them, and to the next page at the end of this one.            *)
Advanced(info, n) ==
  IF info.off + n < psize[info.page]
  THEN [info EXCEPT !.pos = Add(@, n), !.off = @ + n]
  ELSE [info EXCEPT !.pos = Add(@, n), !.off = 0, !.page = Succ(@)]

Advance(n) == lookaside' = [lookaside EXCEPT ![call.client] = Advanced(@, n)]

(* An exception out of Page::probe, or out of i's own check of the offset, *)
(* ends the call in the middle; File::l is released.                       *)
Probes ==
  \/ In("s") /\ call.len > 0 /\ Me.page # IF call.fwd THEN Back ELSE pages[1]
  \/ (In("r") \/ In("w")) /\ call.len > 0 /\ Me.page # Back
  \/ (In("d") \/ In("i")) /\ call.len > 0

Invalid ==
  /\ Probes
  /\ Misplaced(Me.page, Me.off)
  /\ call' = Ended(TRUE)
  /\ UNCHANGED <<pages, data, psize, size, lookaside, disk>>

Valid == Probes /\ ~Misplaced(Me.page, Me.off)
Chunk == Probe(Me.page, Me.off, call.len, call.fwd)

SeekForward ==
  /\ In("s") /\ call.fwd /\ Valid
  /\ Advance(Chunk)
  /\ call' = [call EXCEPT !.len = @ - Chunk]
  /\ UNCHANGED <<pages, data, psize, size, disk>>

SeekBackward ==
  /\ In("s") /\ ~call.fwd /\ Valid
  /\ Chunk > 0
  /\ lookaside' = [lookaside EXCEPT ![call.client].pos = Sub(@, Chunk),
                                    ![call.client].off = @ - Chunk]
  /\ call' = [call EXCEPT !.len = @ - Chunk]
  /\ UNCHANGED <<pages, data, psize, size, disk>>

(* At the beginning of a page a backward seek goes to the end of the page  *)
(* before it, and gives up on the head sentinel.                           *)
SeekPageBack ==
  /\ In("s") /\ ~call.fwd /\ Valid
  /\ Chunk = 0
  /\ LET p == Pred(Me.page) IN
     /\ lookaside' = [lookaside EXCEPT ![call.client].page = p,
                                       ![call.client].off = psize[p]]
     /\ IF p = pages[1] THEN Leave ELSE UNCHANGED call
  /\ UNCHANGED <<pages, data, psize, size, disk>>

SeekReturn ==
  /\ In("s") /\ ~Probes
  /\ Leave
  /\ UNCHANGED <<pages, data, psize, size, lookaside, disk>>

ReadChunk ==
  /\ In("r") /\ Valid
  /\ Advance(Chunk)
  /\ call' = [call EXCEPT !.len = @ - Chunk,
                          !.out = @ \o SubSeq(data[Me.page], Me.off + 1, Me.off + Chunk)]
  /\ UNCHANGED <<pages, data, psize, size, disk>>

ReadReturn ==
  /\ In("r") /\ ~Probes
  /\ Leave
  /\ UNCHANGED <<pages, data, psize, size, lookaside, disk>>

-----------------------------------------------------------------------------
(* Mutants of Piece: one byte short; always the start of the buffer.       *)
PieceShort(n) ==
  LET done == Len(call.val) - call.len IN SubSeq(call.val, done + 1, done + n - 1)
PieceAgain(n) == SubSeq(call.val, 1, n)

(* The next n bytes of the buffer.                                         *)
Piece(n) == LET done == Len(call.val) - call.len IN SubSeq(call.val, done + 1, done + n)

(* w: bytes of the page are replaced, none is added.                       *)
WriteChunk ==
  /\ In("w") /\ Valid
  /\ Chunk > 0
  /\ LET buf == data[Me.page] IN
       data' = [data EXCEPT ![Me.page] = SubSeq(buf, 1, Me.off) \o Piece(Chunk)
                                           \o SubSeq(buf, Me.off + Chunk + 1, Len(buf))]
  /\ Advance(Chunk)
  /\ call' = [call EXCEPT !.len = @ - Chunk]
  /\ UNCHANGED <<pages, psize, size, disk>>

(* On the tail sentinel, or where the page has no bytes left, w calls i    *)
(* with the rest of the buffer, even if nothing is left of it.             *)
WriteRest ==
  /\ In("w")
  /\ IF Probes THEN ~Misplaced(Me.page, Me.off) /\ Chunk = 0 ELSE TRUE
  /\ AppendTail(Aligned(Me))
  /\ call' = [call EXCEPT !.pc = "i", !.val = Piece(call.len),
                          !.back = Aligned(Me).page = Back]
  /\ AlignClient(call.client)
  /\ UNCHANGED <<data, psize, size, disk>>

(* Mutant of AfterErase: a client among the erased bytes moves back by all *)
(* of them.                                                                *)
AfterEraseAll(info, n) ==
  IF info.pos <= Me.pos THEN info
  ELSE IF info.page # Me.page THEN [info EXCEPT !.pos = Sub(@, n)]
  ELSE IF info.off <= Me.off THEN info
  ELSE [info EXCEPT !.off = Sub(@, n), !.pos = Sub(@, n)]

(* d: the clients after the erased bytes, and those among them.            *)
AfterErase(info, n) ==
  IF info.pos <= Me.pos THEN info
  ELSE IF info.page # Me.page THEN [info EXCEPT !.pos = Sub(@, n)]
  ELSE IF info.off <= Me.off THEN info
  ELSE LET m == Least(info.off - Me.off, n)
       IN [info EXCEPT !.off = @ - m, !.pos = Sub(@, m)]

(* Mutant of OffPage: only the clients that were behind the offset move.   *)
OffPageBehind(info) ==
  IF info.page = Me.page /\ info.pos > Me.pos THEN [info EXCEPT !.page = Succ(@)] ELSE info

(* A page that loses all its bytes leaves the list, and every client on it *)
(* moves to the next page.                                                 *)
OffPage(info) == IF info.page = Me.page THEN [info EXCEPT !.page = Succ(@)] ELSE info

EraseChunk ==
  /\ In("d") /\ Valid
  /\ Chunk > 0
  /\ IF Chunk = psize[Me.page]
     THEN /\ pages' = RemoveAt(pages, Index(Me.page))
          /\ data' = [data EXCEPT ![Me.page] = <<>>]
          /\ psize' = [psize EXCEPT ![Me.page] = 0]
          /\ lookaside' = [c \in DOMAIN lookaside |-> OffPage(AfterErase(lookaside[c], Chunk))]
     ELSE LET buf == data[Me.page]
              rest == SubSeq(buf, 1, Me.off) \o SubSeq(buf, Me.off + Chunk + 1, Len(buf))
          IN /\ data' = [data EXCEPT ![Me.page] = rest]
             /\ psize' = [psize EXCEPT ![Me.page] = Len(rest)]
             /\ lookaside' = [c \in DOMAIN lookaside |-> AfterErase(lookaside[c], Chunk)]
             /\ UNCHANGED pages
  /\ size' = Sub(size, Chunk)
  /\ call' = [call EXCEPT !.len = @ - Chunk]
  /\ UNCHANGED disk

(* d stops for good where the page it is on has no bytes after the offset. *)
EraseReturn ==
  /\ In("d")
  /\ IF Probes THEN ~Misplaced(Me.page, Me.off) /\ Chunk = 0 ELSE TRUE
  /\ Leave
  /\ UNCHANGED <<pages, data, psize, size, lookaside, disk>>

-----------------------------------------------------------------------------
InsertChunk == ChunkSize(Me.page, Me.off, call.len)
Overflows   == InsertChunk + psize[Me.page] > MSize

(* The page would grow past MSize: its bytes after the offset move to a    *)
(* new page behind it, with the clients among them, and the chunk takes    *)
(* their place.                                                            *)
AfterSplit(info, n, q) ==
  IF info.pos <= Me.pos THEN info
  ELSE IF info.page = Me.page /\ info.off >= Me.off
  THEN [page |-> q, off |-> info.off - Me.off, pos |-> Add(info.pos, n)]
  ELSE [info EXCEPT !.pos = Add(@, n)]

InsertSplit ==
  /\ In("i") /\ Valid /\ Overflows
  /\ Unused # {}
  /\ LET n    == InsertChunk
         p    == Me.page
         q    == NewPage
         buf  == data[p]
         head == SubSeq(buf, 1, Me.off) \o Piece(n)
         tail == SubSeq(buf, Me.off + 1, Len(buf))
     IN /\ pages' = InsertAt(pages, Index(p) + 1, q)
        /\ data' = [data EXCEPT ![p] = head, ![q] = tail]
        /\ psize' = [psize EXCEPT ![p] = Len(head), ![q] = Len(tail)]
        /\ lookaside' = [c \in DOMAIN lookaside |->
                           IF c = call.client
                           THEN [page |-> q, off |-> 0, pos |-> Add(Me.pos, n)]
                           ELSE AfterSplit(lookaside[c], n, q)]
        /\ size' = Add(size, n)
        /\ call' = [call EXCEPT !.len = @ - n]
  /\ UNCHANGED disk

(* Mutant of AfterInsert: the offset on the page is not moved.             *)
AfterInsertUnmoved(info, n) ==
  IF info.pos <= Me.pos THEN info ELSE [info EXCEPT !.pos = Add(@, n)]

(* The chunk goes into the page.  The clients behind it are moved in the   *)
(* order of their identifiers, and the first that this puts past the end   *)
(* of the page is an exception: the bytes are in, the size of the file and *)
(* the clients with greater identifiers are as they were.                  *)
AfterInsert(info, n) ==
  IF info.pos <= Me.pos THEN info
  ELSE IF info.page = Me.page /\ info.off > Me.off
  THEN [info EXCEPT !.pos = Add(@, n), !.off = Add(@, n)]
  ELSE [info EXCEPT !.pos = Add(@, n)]

Overruns(n) ==
  {c \in DOMAIN lookaside :
     /\ lookaside[c].pos > Me.pos
     /\ lookaside[c].page = Me.page /\ lookaside[c].off > Me.off
     /\ AfterInsert(lookaside[c], n).off > psize[Me.page] + n}

InsertInPage ==
  /\ In("i") /\ Valid /\ ~Overflows
  /\ LET n   == InsertChunk
         p   == Me.page
         buf == data[p]
     IN /\ data' = [data EXCEPT ![p] = SubSeq(buf, 1, Me.off) \o Piece(n)
                                         \o SubSeq(buf, Me.off + 1, Len(buf))]
        /\ psize' = [psize EXCEPT ![p] = @ + n]
        /\ IF Overruns(n) = {}
           THEN /\ lookaside' = [c \in DOMAIN lookaside |->
                     IF c = call.client
                     THEN [Me EXCEPT !.pos = Add(@, n), !.off = @ + n]
                     ELSE AfterInsert(lookaside[c], n)]
                /\ size' = Add(size, n)
                /\ call' = [call EXCEPT !.len = @ - n]
           ELSE /\ lookaside' = [c \in DOMAIN lookaside |->
                     IF \A x \in Overruns(n) : c <= x THEN AfterInsert(lookaside[c], n)
                                                      ELSE lookaside[c]]
                /\ call' = Ended(TRUE)
                /\ UNCHANGED size
  /\ UNCHANGED <<pages, disk>>

(* A client that inserted at the end is on the tail sentinel afterwards.   *)
InsertReturn ==
  /\ In("i") /\ ~Probes
  /\ lookaside' = IF call.back
                  THEN [lookaside EXCEPT ![call.client].page = Back, ![call.client].off = 0]
                  ELSE lookaside
  /\ Leave
  /\ UNCHANGED <<pages, data, psize, size, disk>>

-----------------------------------------------------------------------------
Step ==
  \/ Invalid
  \/ SeekForward \/ SeekBackward \/ SeekPageBack \/ SeekReturn
  \/ ReadChunk \/ ReadReturn
  \/ WriteChunk \/ WriteRest
  \/ EraseChunk \/ EraseReturn
  \/ InsertSplit \/ InsertInPage \/ InsertReturn

(* What happens between two loads that no client waits for.                *)
Session ==
  \/ \E c \in Client : Open(c) \/ Close(c)
  \/ \E c \in Client, n \in Lengths, fwd, absolute \in BOOLEAN : Seek(c, n, fwd, absolute)
  \/ \E c \in Client, n \in Lengths : Read(c, n) \/ Erase(c, n)
  \/ \E c \in Client, buf \in Buffers : Write(c, buf) \/ Insert(c, buf)
  \/ Save
  \/ Step

Next == Session \/ Reload

Spec     == Init /\ [][Next]_vars
(* The thread in a call holds File::l and waits for nothing: it goes on.   *)
FairSpec == Spec /\ WF_vars(Step)

-----------------------------------------------------------------------------
(* Properties.                                                             *)

(* The list keeps its two empty sentinels and never holds a page twice,    *)
(* and no client's iterator outlives its page: std::list::erase in d and   *)
(* clear in load leave no open client on a page that is gone.              *)
PagesOK ==
  /\ Len(pages) >= 2
  /\ \A j, k \in 1..Len(pages) : pages[j] = pages[k] => j = k
  /\ psize[pages[1]] = 0 /\ psize[Back] = 0
  /\ \A c \in DOMAIN lookaside : lookaside[c].page \in Range(pages)

(* Page::size, which every probe and offset is checked against, is the     *)
(* number of bytes cache->r returns, though d and i set one and then the   *)
(* other.                                                                  *)
PageSizesExact == \A p \in Range(pages) : psize[p] = Len(data[p])
=============================================================================
