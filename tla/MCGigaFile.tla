----------------------------- MODULE MCGigaFile -----------------------------
(***************************************************************************)
(* The constants of GigaFile's runs, the refinement of ByteFile, and the   *)
(* properties of the places of the clients.                                *)
(***************************************************************************)
EXTENDS GigaFile

OneClient  == {1}
TwoClients == {1, 2}
ReadWrite  == {"r", "w"}

ShortImages  == {<<"y">>}
ShortBuffers == {<<"x", "y">>}
LongImages   == {<<>>, <<"x", "y", "y", "x">>}
LongBuffers  == {<<>>, <<"y">>, <<"x", "y", "y">>}

-----------------------------------------------------------------------------
(* Where a client is: the bytes of the pages before its own, and its       *)
(* offset.                                                                 *)
Start(p) ==
  LET Upto[k \in 0..Len(pages)] == IF k = 0 THEN 0 ELSE Upto[k - 1] + psize[pages[k]]
  IN Upto[Index(p) - 1]
TruePos(c) == Start(lookaside[c].page) + lookaside[c].off

(* The part of the buffer a write or insert has not placed yet.            *)
Rest == IF call.op \in {"w", "i"}
        THEN SubSeq(call.val, Len(call.val) - call.len + 1, Len(call.val))
        ELSE <<>>

(* The distance of two numbers of type size_t. *)
Apart(m, n) == Least(Sub(m, n), Sub(n, m))

(* The file behind the pages.                                              *)
File == INSTANCE ByteFile WITH
  content <- Contents,
  saved   <- disk,
  cursor  <- [c \in Client |-> IF c \in DOMAIN lookaside THEN TruePos(c) ELSE 0],
  task    <- IF call.op = "idle" THEN call
             ELSE [op |-> call.op, client |-> call.client, want |-> call.len,
                   fwd |-> call.fwd, rest |-> Rest, got |-> call.out]

(* Whatever pages are split, emptied, removed and added, a client that     *)
(* looks at bytes only sees a flat file: r, w, d and i read, replace,      *)
(* remove and add the bytes at the client's place and no others, in order, *)
(* and seeks, reads and overwrites move nobody else.                       *)
ImplementsByteFile == File!Spec

-----------------------------------------------------------------------------
(* The bookkeeping of a client agrees with its place.                      *)
Exact(c) ==
  /\ lookaside[c].off <= psize[lookaside[c].page]
  /\ lookaside[c].pos = TruePos(c)

(* File::size is the number of bytes in the pages (the seeks of s are      *)
(* measured with it), in the middle of a call too.                         *)
FileSizeExact == size = Len(Contents)

(* Everybody's bookkeeping is right: the three numbers that s, r, w, d, i, *)
(* align and load each maintain in their own way agree.                    *)
PositionExact == \A c \in DOMAIN lookaside : Exact(c)

(* The only steps that make a client's bookkeeping wrong when everybody's  *)
(* is right: an insert by a client with another client at the same         *)
(* position but on another page (i moves clients at greater positions      *)
(* only, though that page is behind the inserted bytes); a save with two   *)
(* clients at different positions on one page of the saved file (the scan  *)
(* of load puts one of them on a later page); and a save whose rename      *)
(* fails, with a client behind the last byte of the file it then loads     *)
(* (the scan puts it at the end, with the position it had).                *)
InsertsBeforeTwin ==
  /\ In("i")
  /\ \E c \in DOMAIN lookaside \ {call.client} :
       lookaside[c].pos = Me.pos /\ lookaside[c].page # Me.page

LoadsCrowdedPage ==
  /\ Free /\ Free'
  /\ \E m, n \in Positions : m # n /\ m \div ISize = n \div ISize

LoadsShorterFile ==
  /\ Free /\ Free'
  /\ \E m \in Positions : m > size'

DriftHasCause ==
  [][PositionExact =>
       PositionExact' \/ InsertsBeforeTwin \/ LoadsCrowdedPage \/ LoadsShorterFile]_vars

(* A client that has the file to itself loses track of it in one way only, *)
(* the last one: no iteration of s, r, w, d or i, no open, no load and no  *)
(* save that replaced the file makes its page, offset and position differ. *)
Lone == \A c, d \in DOMAIN lookaside : c = d

OnlyLostSaveDrifts ==
  [][PositionExact /\ Lone => PositionExact' \/ LoadsShorterFile]_vars

(* While everybody's bookkeeping is right, a step of a call leaves every   *)
(* other client where it was: the bytes before it are the same bytes, or   *)
(* the bytes after it are, or bytes around it were replaced and it is as   *)
(* far into the file as before, or they were erased and it is where the    *)
(* erasing client is.                                                      *)
Before(c) == SubSeq(Contents, 1, TruePos(c))
After(c)  == SubSeq(Contents, TruePos(c) + 1, Len(Contents))

PlacesKept ==
  [][PositionExact /\ ~Free =>
       \A me \in {call.client} : \A c \in DOMAIN lookaside \ {me} :
         \/ Before(c)' = Before(c)
         \/ After(c)' = After(c)
         \/ In("w") /\ TruePos(c)' = TruePos(c)
         \/ In("d") /\ TruePos(c)' = TruePos(me)']_vars

(* A thread that calls the file gets an answer or an exception: no seek    *)
(* wanders for ever between empty pages, no read, write, erase or insert   *)
(* stops making progress.                                                  *)
CallsReturn == ~Free ~> Free

-----------------------------------------------------------------------------
(* What comments and documents of the repository say and the code does not *)
(* do; each is the property of a run that expects its violation.           *)

(* src/file.cc:122, of the scan in load that puts the clients on the new   *)
(* pages: "it->first contained within this page".  So a save that puts the *)
(* bytes of the file on disk leaves every client at its position.          *)
SaveKeepsPlaces ==
  [][Free /\ Free' /\ Contents' = Contents /\ PositionExact => PositionExact']_vars

(* include/src/file.h:68: "seek op -- returns global position".            *)
SeekReturnsPosition ==
  [][\A me \in DOMAIN lookaside :
       In("s") /\ call' = Ended(FALSE) /\ me = call.client
         => Apart(lookaside[me].pos, TruePos(me))' = 0]_vars

(* README.md:75, of write without is_insert: "overwrite data here".  So a  *)
(* write makes the file longer only at its end.                            *)
OverwriteInPlace ==
  [][call.op = "w" /\ size' > size => TruePos(call.client) = Len(Contents)]_vars

(* include/src/file.h:53, of d: "deletes next len-bytes".  So it stops     *)
(* short only at the end of the file.                                      *)
EraseTakesAll ==
  [][In("d") /\ call' = Ended(FALSE)
       => call.len = 0 \/ TruePos(call.client) = Len(Contents)]_vars

(* performance.md:29: "`max` -- max page size before the data is split     *)
(* into two virtual pages".                                                *)
PagesWithinMax == \A p \in Range(pages) : psize[p] <= MSize

-----------------------------------------------------------------------------
(* Bounds: states are explored further as long as the position a client    *)
(* has and the place it is at are at most MaxDrift bytes apart, and the    *)
(* size of the file and the number of its bytes too; with a wrong place    *)
(* only after a save has changed the file on disk.                         *)
MaxDrift == 1
DriftBound ==
  /\ Apart(size, Len(Contents)) <= MaxDrift
  /\ \A c \in DOMAIN lookaside :
       lookaside[c].page \in Range(pages) =>
         /\ Apart(lookaside[c].pos, TruePos(c)) <= MaxDrift
         /\ disk \in Images => Exact(c)

(* With a wrong place only on files of at most two bytes.                  *)
LostBound == PositionExact \/ Len(Contents) <= 2

(* Without load on its own, which needs every client closed.               *)
SessionSpec == Init /\ [][Session]_vars

(* Bounds: no rename fails; one fails only while every place is right and  *)
(* the file on disk is one of Images; only then is the file loaded.        *)
Renames     == Save => disk' = Contents
FewFail     == Renames \/ (PositionExact /\ disk \in Images)
ReloadImage == Reload /\ disk \in Images

RenamedSpec  == Init /\ [][Session /\ Renames]_vars
FewFailSpec  == Init /\ [][Session /\ FewFail]_vars
FairFailSpec == Init /\ [][(Session /\ FewFail) \/ ReloadImage]_vars /\ WF_vars(Step)

(* No save either, which puts clients on wrong pages by itself.            *)
UnsavedSpec == Init /\ [][Session /\ ~Save]_vars

(* A state with its pages numbered by their place in the list: the numbers *)
(* themselves make no difference to anything a step does.                  *)
Renumbered ==
  <<[k \in 1..Len(pages) |-> <<data[pages[k]], psize[pages[k]]>>],
    [c \in DOMAIN lookaside |->
       [lookaside[c] EXCEPT !.page = IF @ \in Range(pages) THEN Index(@) ELSE End]],
    size, call>>

(* The same with the file on disk, and with it if FewFail and ReloadImage  *)
(* let a save or load read it.                                             *)
RenumberedOnDisk  == <<Renumbered, disk>>
RenumberedOnImage == <<Renumbered, IF disk \in Images THEN disk ELSE "saved">>
=============================================================================
