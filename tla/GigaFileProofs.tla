--------------------------- MODULE GigaFileProofs ---------------------------
(***************************************************************************)
(* Proofs about GigaFile for every number of clients, every page size and  *)
(* every file: its types, the list of pages with the iterators into it,    *)
(* and the agreement of Page::size with the bytes of the page.             *)
(*                                                                         *)
(* The three are proved together, as parts of one inductive invariant: the *)
(* bytes a call cuts out of a page are there because Page::size is exact,  *)
(* the page d takes out of the list is no sentinel because a sentinel is   *)
(* empty, the page i splits is none because of where align and the new     *)
(* tail leave the client of the call.                                      *)
(***************************************************************************)
EXTENDS GigaFile, ListTheorems

-----------------------------------------------------------------------------
(* The inductive invariant.                                                *)

(* std::list: the two sentinels, and no page twice.                        *)
ListOK == pages \in Seq(PageId) /\ Len(pages) >= 2 /\ Distinct(pages)

(* What Page::size and cache->r say of each page.                          *)
StoreOK ==
  /\ data \in [PageId -> Seq(Byte)]
  /\ psize \in [PageId -> Nat]
  /\ \A p \in PageId : psize[p] = Len(data[p])
  /\ psize[pages[1]] = 0 /\ psize[Back] = 0
  /\ \A p \in Unused : psize[p] = 0

(* The iterators of the open clients.                                      *)
ClientsOK ==
  /\ DOMAIN lookaside \subseteq Client
  /\ lookaside \in [DOMAIN lookaside -> ClientData]
  /\ \A c \in DOMAIN lookaside : lookaside[c].page \in Range(pages)

(* A call is made by an open client, only a seek goes backward, what is    *)
(* left to write is in the buffer, and i never works on a sentinel.        *)
CallOK ==
  /\ call \in Calls \cup {Ended(FALSE), Ended(TRUE)}
  /\ call.op # "idle" =>
       /\ call.client \in DOMAIN lookaside
       /\ call.pc # "s" => call.fwd
       /\ call.pc \in {"w", "i"} => call.len <= Len(call.val)
       /\ call.pc = "i" => Me.page # pages[1] /\ Me.page # Back

IInv ==
  /\ ListOK /\ StoreOK /\ ClientsOK /\ CallOK
  /\ size \in Size /\ disk \in Seq(Byte)

-----------------------------------------------------------------------------
(* Arithmetic.                                                             *)

(* size_t arithmetic stays in size_t.                                      *)
LEMMA SizeTRange == \A a, b \in Int : Add(a, b) \in Size /\ Sub(a, b) \in Size
BY BoundAssumption DEF Add, Sub, Size

(* The pages that load makes before the last start before the end of file. *)
LEMMA PageStart ==
  ASSUME NEW n \in Nat, NEW k \in Nat, k <= n \div ISize
  PROVE  n \div ISize \in Nat /\ k * ISize \in Nat /\ k * ISize <= n
<1> DEFINE q == n \div ISize
<1>1. ISize \in Nat \ {0}
  BY ConfigAssumption
<1>2. q \in Nat /\ q * ISize <= n
  BY <1>1, Z3
<1> HIDE DEF q
<1>3. k * ISize <= q * ISize
  BY <1>1, <1>2, Z3 DEF q
<1> QED BY <1>1, <1>2, <1>3 DEF q

(* The fields of a client's bookkeeping have their types.                  *)
LEMMA ClientFields ==
  ASSUME NEW info \in ClientData
  PROVE  /\ info.page \in PageId \cup {End} /\ info.off \in Nat
         /\ info.pos \in Size /\ info.pos \in Nat
<1>1. info.page \in PageId \cup {End} /\ info.off \in Nat /\ info.pos \in Size
  BY DEF ClientData
<1> QED BY <1>1, BoundAssumption DEF Size

-----------------------------------------------------------------------------
(* Iterators.                                                              *)

(* The position of a page in the list, and its neighbours.                 *)
LEMMA Neighbours ==
  ASSUME ListOK, NEW p \in Range(pages)
  PROVE  /\ p \in PageId
         /\ Index(p) \in 1..Len(pages) /\ pages[Index(p)] = p
         /\ p # pages[1] => Index(p) >= 2 /\ Pred(p) \in Range(pages)
         /\ p # Back => /\ Index(p) <= Len(pages) - 1
                        /\ Succ(p) \in Range(pages)
                        /\ Succ(p) # p /\ Succ(p) # pages[1]
<1>0. pages \in Seq(PageId) /\ Len(pages) \in Nat /\ Len(pages) >= 2
  BY LenProperties DEF ListOK
<1>1. /\ p \in PageId
      /\ \E k \in 1..Len(pages) : pages[k] = p
      /\ \A k \in 1..Len(pages) : pages[k] \in Range(pages)
  BY <1>0, PlacesOfSeq
<1>2. Index(p) \in 1..Len(pages) /\ pages[Index(p)] = p
  BY <1>1 DEF Index
<1>3. \A j, k \in 1..Len(pages) : pages[j] = pages[k] => j = k
  BY DEF ListOK, Distinct
<1>4. ASSUME p # pages[1]
      PROVE  Index(p) >= 2 /\ Pred(p) \in Range(pages)
  <2>1. Index(p) >= 2 /\ Index(p) - 1 \in 1..Len(pages)
    BY <1>0, <1>2, <1>4
  <2> QED BY <2>1, <1>1 DEF Pred
<1>5. ASSUME p # Back
      PROVE  /\ Index(p) <= Len(pages) - 1
             /\ Succ(p) \in Range(pages) /\ Succ(p) # p /\ Succ(p) # pages[1]
  <2>1. /\ Index(p) <= Len(pages) - 1 /\ Index(p) # Len(pages)
        /\ Index(p) + 1 \in 1..Len(pages) /\ 1 \in 1..Len(pages)
        /\ Index(p) + 1 # Index(p) /\ Index(p) + 1 # 1
    BY <1>0, <1>2, <1>5 DEF Back
  <2>2. Succ(p) = pages[Index(p) + 1]
    BY <2>1 DEF Succ
  <2> QED BY <2>1, <2>2, <1>1, <1>2, <1>3
<1> QED BY <1>1, <1>2, <1>4, <1>5

(* The sentinels are in the list, and are two.                             *)
LEMMA Sentinels ==
  ASSUME ListOK
  PROVE  /\ pages[1] \in Range(pages) /\ Back \in Range(pages)
         /\ pages[1] # Back
         /\ Range(pages) \subseteq PageId /\ End \notin Range(pages)
<1>0. pages \in Seq(PageId) /\ Len(pages) \in Nat /\ Len(pages) >= 2
  BY LenProperties DEF ListOK
<1>1. 1 \in 1..Len(pages) /\ Len(pages) \in 1..Len(pages) /\ 1 # Len(pages)
  <2> DEFINE n == Len(pages)
  <2>1. n \in Nat /\ n >= 2
    BY <1>0
  <2> HIDE DEF n
  <2>2. 1 \in 1..n /\ n \in 1..n /\ 1 # n
    BY <2>1
  <2> QED BY <2>2 DEF n
<1>2. pages[1] \in Range(pages) /\ Back \in Range(pages) /\ Range(pages) \subseteq PageId
  BY <1>0, <1>1, PlacesOfSeq DEF Back
<1>3. pages[1] # Back
  BY <1>1 DEF ListOK, Distinct, Back
<1>4. End \notin PageId
  BY BoundAssumption DEF End, PageId
<1> QED BY <1>2, <1>3, <1>4

(* align puts a client on a page that is not the head sentinel.            *)
LEMMA AlignedRange ==
  ASSUME ListOK, StoreOK, NEW info \in ClientData, info.page \in Range(pages)
  PROVE  /\ Aligned(info) \in ClientData
         /\ Aligned(info).page \in Range(pages)
         /\ Aligned(info).page # pages[1]
<1>1. info.page # End
  BY Sentinels
<1>2. CASE info.page = pages[1]
  <2>1. /\ Succ(info.page) \in Range(pages)
        /\ Succ(info.page) # pages[1] /\ Succ(info.page) \in PageId
    BY <1>2, Sentinels, Neighbours
  <2>2. Aligned(info) = [info EXCEPT !.page = Succ(info.page), !.off = 0]
    BY <1>1, <1>2 DEF Aligned
  <2> DEFINE new == [info EXCEPT !.page = Succ(info.page), !.off = 0]
  <2>3. new \in ClientData /\ new.page = Succ(info.page)
    BY <2>1 DEF ClientData
  <2> HIDE DEF new
  <2> QED BY <2>1, <2>2, <2>3 DEF new
<1>3. CASE info.page # pages[1]
  <2>1. Aligned(info) = info
    BY <1>1, <1>3 DEF Aligned
  <2> QED BY <2>1, <1>3
<1> QED BY <1>2, <1>3

(* A client that moves on is on a page of the list.                        *)
LEMMA AdvancedRange ==
  ASSUME ListOK, StoreOK, NEW info \in ClientData, NEW n \in Nat,
         info.page \in Range(pages), info.page # Back
  PROVE  Advanced(info, n) \in ClientData /\ Advanced(info, n).page \in Range(pages)
<1>1. Succ(info.page) \in Range(pages) /\ Succ(info.page) \in PageId
  BY Sentinels, Neighbours
<1>2. Add(info.pos, n) \in Size /\ info.off + n \in Nat
  BY ClientFields, SizeTRange
<1> QED BY <1>1, <1>2 DEF Advanced, ClientData

-----------------------------------------------------------------------------
(* The call in progress.                                                   *)

(* While a call is in a loop its client is open, and the call's locals     *)
(* have their types.                                                       *)
LEMMA InCall ==
  ASSUME IInv, call.op # "idle"
  PROVE  /\ call \in Calls /\ call.client \in DOMAIN lookaside
         /\ call.len \in Nat /\ call.val \in Seq(Byte) /\ call.out \in Seq(Byte)
         /\ call.fwd \in BOOLEAN /\ call.back \in BOOLEAN
         /\ Len(call.val) \in Nat
         /\ Me \in ClientData /\ Me.off \in Nat /\ Me.pos \in Size /\ Me.pos \in Nat
         /\ Me.page \in Range(pages) /\ Me.page \in PageId
         /\ data[Me.page] \in Seq(Byte) /\ psize[Me.page] \in Nat
         /\ psize[Me.page] = Len(data[Me.page])
<1>1. call \in Calls /\ call.client \in DOMAIN lookaside
  BY DEF IInv, CallOK, Ended
<1>2. /\ call.len \in Nat /\ call.val \in Seq(Byte) /\ call.out \in Seq(Byte)
      /\ call.fwd \in BOOLEAN /\ call.back \in BOOLEAN
  BY <1>1 DEF Calls
<1>3. Len(call.val) \in Nat
  BY <1>2, LenProperties
<1>4. Me \in ClientData /\ Me.page \in Range(pages)
  BY <1>1 DEF IInv, ClientsOK, Me
<1>5. Me.off \in Nat /\ Me.pos \in Size /\ Me.pos \in Nat
  BY <1>4, ClientFields
<1>6. Me.page \in PageId
  BY <1>4, Sentinels DEF IInv
<1>7. /\ data[Me.page] \in Seq(Byte) /\ psize[Me.page] \in Nat
      /\ psize[Me.page] = Len(data[Me.page])
  BY <1>6 DEF IInv, StoreOK
<1> QED BY <1>1, <1>2, <1>3, <1>4, <1>5, <1>6, <1>7

(* A chunk is no longer than what is left to do, and is on the page.       *)
LEMMA ValidChunk ==
  ASSUME IInv, Valid
  PROVE  /\ call.op # "idle" /\ call.len > 0
         /\ Me.off <= psize[Me.page]
         /\ Chunk \in Nat /\ Chunk <= call.len
         /\ call.fwd => Me.off + Chunk <= psize[Me.page]
         /\ ~call.fwd => Chunk <= Me.off
<1>1. call.op # "idle" /\ call.len > 0
  BY DEF Valid, Probes, In
<1>2. Me.off \in Nat /\ psize[Me.page] \in Nat /\ call.len \in Nat /\ call.fwd \in BOOLEAN
  BY <1>1, InCall
<1>3. Me.off <= psize[Me.page]
  BY <1>2 DEF Valid, Misplaced
<1>4. CASE call.fwd
  <2>1. Chunk = Least(psize[Me.page] - Me.off, call.len)
    BY <1>4 DEF Chunk, Probe
  <2>2. psize[Me.page] - Me.off \in Nat
    BY <1>2, <1>3
  <2> QED BY <2>1, <2>2, <1>1, <1>2, <1>3, <1>4 DEF Least
<1>5. CASE ~call.fwd
  <2>1. Chunk = Least(Me.off, call.len)
    BY <1>5 DEF Chunk, Probe
  <2> QED BY <2>1, <1>1, <1>2, <1>3, <1>5 DEF Least
<1> QED BY <1>1, <1>3, <1>4, <1>5

(* A page with bytes is no sentinel.                                       *)
LEMMA PageWithBytes ==
  ASSUME IInv, call.op # "idle", psize[Me.page] > 0
  PROVE  Me.page # pages[1] /\ Me.page # Back
BY DEF IInv, StoreOK

(* The call of a client that has moved, with fewer bytes to go.            *)
LEMMA CallGoesOn ==
  ASSUME IInv, call.op # "idle", NEW n \in Nat, n <= call.len,
         NEW out \in Seq(Byte),
         call' = [call EXCEPT !.len = call.len - n, !.out = out],
         DOMAIN lookaside' = DOMAIN lookaside,
         call.pc = "i" => Me'.page # pages'[1] /\ Me'.page # Back'
  PROVE  CallOK'
<1>1. /\ call \in Calls /\ call.client \in DOMAIN lookaside /\ call.len \in Nat
      /\ Len(call.val) \in Nat /\ call.len - n \in Nat /\ call.len - n <= call.len
  BY InCall
<1>2. call' \in Calls
  BY <1>1 DEF Calls
<1>3. /\ call'.op = call.op /\ call'.pc = call.pc /\ call'.client = call.client
      /\ call'.len = call.len - n /\ call'.val = call.val /\ call'.fwd = call.fwd
  BY <1>1 DEF Calls
<1>4. /\ call.pc # "s" => call.fwd
      /\ call.pc \in {"w", "i"} => call.len <= Len(call.val)
  BY DEF IInv, CallOK
<1>5. call'.pc \in {"w", "i"} => call'.len <= Len(call'.val)
  BY <1>1, <1>3, <1>4
<1> QED BY <1>1, <1>2, <1>3, <1>4, <1>5 DEF CallOK

(* A call that has ended needs nothing of the clients.                     *)
LEMMA CallEnds ==
  ASSUME NEW threw \in BOOLEAN, call' = Ended(threw)
  PROVE  CallOK'
BY DEF CallOK, Ended

(* One client moves.                                                       *)
LEMMA OneMoves ==
  ASSUME ClientsOK, NEW c \in DOMAIN lookaside, NEW info \in ClientData,
         Range(pages) \subseteq Range(pages'), info.page \in Range(pages'),
         lookaside' = [lookaside EXCEPT ![c] = info]
  PROVE  /\ ClientsOK'
         /\ DOMAIN lookaside' = DOMAIN lookaside
         /\ lookaside'[c] = info
BY DEF ClientsOK

-----------------------------------------------------------------------------
(* Steps of a call that leave the list alone.                              *)

(* Nothing happens.                                                        *)
LEMMA StutterStep == ASSUME IInv, UNCHANGED vars PROVE IInv'
<1>1. UNCHANGED <<pages, data, psize, size, lookaside, disk, call>>
  BY DEF vars
<1> QED BY <1>1 DEF IInv, ListOK, StoreOK, ClientsOK, CallOK, Back, Unused, Me

(* The list and the bytes of the pages are as they were.                   *)
LEMMA SamePages ==
  ASSUME IInv, UNCHANGED <<pages, data, psize, size, disk>>
  PROVE  ListOK' /\ StoreOK' /\ size' \in Size /\ disk' \in Seq(Byte)
         /\ Range(pages') = Range(pages) /\ Back' = Back
BY DEF IInv, ListOK, StoreOK, Back, Unused

(* A call that ends with the clients where they are.                       *)
LEMMA CallStops ==
  ASSUME IInv, NEW threw \in BOOLEAN, call' = Ended(threw),
         UNCHANGED <<pages, data, psize, size, lookaside, disk>>
  PROVE  IInv'
<1>1. ListOK' /\ StoreOK' /\ size' \in Size /\ disk' \in Seq(Byte)
  BY SamePages
<1>2. ClientsOK'
  BY DEF IInv, ClientsOK
<1>3. CallOK'
  BY CallEnds
<1> QED BY <1>1, <1>2, <1>3 DEF IInv

(* A call moves its client past a chunk of the page.                       *)
LEMMA CallAdvances ==
  ASSUME IInv, Valid, call.pc # "i", Me.page # Back, Advance(Chunk),
         NEW out \in Seq(Byte),
         call' = [call EXCEPT !.len = call.len - Chunk, !.out = out],
         Range(pages') = Range(pages)
  PROVE  ClientsOK' /\ CallOK'
<1>1. /\ call.op # "idle" /\ Chunk \in Nat /\ Chunk <= call.len
  BY ValidChunk
<1>2. call.client \in DOMAIN lookaside /\ Me \in ClientData /\ Me.page \in Range(pages)
  BY <1>1, InCall
<1>3. Advanced(Me, Chunk) \in ClientData /\ Advanced(Me, Chunk).page \in Range(pages)
  BY <1>1, <1>2, AdvancedRange DEF IInv
<1>4. lookaside' = [lookaside EXCEPT ![call.client] = Advanced(Me, Chunk)]
  BY DEF Advance, Me
<1>5. ClientsOK' /\ DOMAIN lookaside' = DOMAIN lookaside
  BY <1>2, <1>3, <1>4, OneMoves DEF IInv
<1>6. CallOK'
  BY <1>1, <1>5, CallGoesOn
<1> QED BY <1>5, <1>6

(* An exception out of a probe changes nothing but the call.               *)
LEMMA InvalidStep == ASSUME IInv, Invalid PROVE IInv'
BY CallStops DEF Invalid

(* The returns of s, r and d change nothing but the call.                  *)
LEMMA ReturnStep ==
  ASSUME IInv, SeekReturn \/ ReadReturn \/ EraseReturn PROVE IInv'
BY CallStops DEF SeekReturn, ReadReturn, EraseReturn, Leave

(* One iteration of s's forward loop.                                      *)
LEMMA SeekForwardStep == ASSUME IInv, SeekForward PROVE IInv'
<1>1. /\ call.op # "idle" /\ call.pc = "s" /\ call.fwd /\ Probes
  BY DEF SeekForward, In, Valid
<1>2. Me.page # Back
  BY <1>1 DEF Probes, In
<1>3. call.out \in Seq(Byte) /\ call \in Calls
  BY <1>1, InCall
<1>4. call' = [call EXCEPT !.len = call.len - Chunk, !.out = call.out]
  BY <1>3 DEF SeekForward, Calls
<1>5. ListOK' /\ StoreOK' /\ size' \in Size /\ disk' \in Seq(Byte) /\ Range(pages') = Range(pages)
  BY SamePages DEF SeekForward
<1>6. ClientsOK' /\ CallOK'
  BY <1>1, <1>2, <1>3, <1>4, <1>5, CallAdvances DEF SeekForward
<1> QED BY <1>5, <1>6 DEF IInv

(* One iteration of r's loop.                                              *)
LEMMA ReadChunkStep == ASSUME IInv, ReadChunk PROVE IInv'
<1> DEFINE got == SubSeq(data[Me.page], Me.off + 1, Me.off + Chunk)
<1>1. /\ call.op # "idle" /\ call.pc = "r" /\ Valid /\ Probes
  BY DEF ReadChunk, In, Valid
<1>2. Me.page # Back /\ call.fwd
  BY <1>1 DEF Probes, In, IInv, CallOK
<1>3. /\ call.out \in Seq(Byte) /\ Me.off \in Nat /\ data[Me.page] \in Seq(Byte)
      /\ psize[Me.page] = Len(data[Me.page])
  BY <1>1, InCall
<1>4. Chunk \in Nat /\ Me.off + Chunk <= Len(data[Me.page])
  BY <1>1, <1>2, <1>3, ValidChunk
<1>5. got \in Seq(Byte)
  BY <1>3, <1>4, PieceOfSeq
<1> HIDE DEF got
<1>6. call.out \o got \in Seq(Byte)
  BY <1>3, <1>5, ConcatProperties
<1>7. call' = [call EXCEPT !.len = call.len - Chunk, !.out = call.out \o got]
  BY DEF ReadChunk, got
<1>8. ListOK' /\ StoreOK' /\ size' \in Size /\ disk' \in Seq(Byte) /\ Range(pages') = Range(pages)
  BY SamePages DEF ReadChunk
<1>9. ClientsOK' /\ CallOK'
  BY <1>1, <1>2, <1>6, <1>7, <1>8, CallAdvances DEF ReadChunk
<1> QED BY <1>8, <1>9 DEF IInv

(* One iteration of s's backward loop that moves on the page.              *)
LEMMA SeekBackwardStep == ASSUME IInv, SeekBackward PROVE IInv'
<1> DEFINE new == [Me EXCEPT !.pos = Sub(Me.pos, Chunk), !.off = Me.off - Chunk]
<1>1. /\ call.op # "idle" /\ call.pc = "s" /\ ~call.fwd /\ Valid
  BY DEF SeekBackward, In
<1>2. Chunk \in Nat /\ Chunk <= call.len /\ Chunk <= Me.off
  BY <1>1, ValidChunk
<1>3. /\ call.client \in DOMAIN lookaside /\ Me \in ClientData /\ Me.page \in Range(pages)
      /\ Me.off \in Nat /\ Me.pos \in Nat /\ call.out \in Seq(Byte) /\ call \in Calls
  BY <1>1, InCall
<1>4. new \in ClientData /\ new.page = Me.page
  <2>1. Sub(Me.pos, Chunk) \in Size /\ Me.off - Chunk \in Nat
    BY <1>2, <1>3, SizeTRange
  <2> QED BY <2>1, <1>3 DEF ClientData
<1>5. lookaside' = [lookaside EXCEPT ![call.client] = new]
  BY <1>3 DEF SeekBackward, Me, IInv, ClientsOK, ClientData
<1>6. ListOK' /\ StoreOK' /\ size' \in Size /\ disk' \in Seq(Byte) /\ Range(pages') = Range(pages)
  BY SamePages DEF SeekBackward
<1> HIDE DEF new
<1>7. ClientsOK' /\ DOMAIN lookaside' = DOMAIN lookaside
  BY <1>3, <1>4, <1>5, <1>6, OneMoves DEF IInv
<1>8. call' = [call EXCEPT !.len = call.len - Chunk, !.out = call.out]
  BY <1>3 DEF SeekBackward, Calls
<1>9. CallOK'
  BY <1>1, <1>2, <1>3, <1>7, <1>8, CallGoesOn
<1> QED BY <1>6, <1>7, <1>9 DEF IInv

(* The step of s's backward loop to the page before: a client of a         *)
(* backward seek is not on the head sentinel, so there is one.             *)
LEMMA SeekPageBackStep == ASSUME IInv, SeekPageBack PROVE IInv'
<1> DEFINE p   == Pred(Me.page)
           new == [Me EXCEPT !.page = p, !.off = psize[p]]
<1>1. /\ call.op # "idle" /\ call.pc = "s" /\ ~call.fwd /\ Probes
  BY DEF SeekPageBack, In, Valid
<1>2. Me.page # pages[1]
  BY <1>1 DEF Probes, In
<1>3. /\ call.client \in DOMAIN lookaside /\ Me \in ClientData /\ Me.page \in Range(pages)
      /\ call \in Calls
  BY <1>1, InCall
<1>4. p \in Range(pages) /\ p \in PageId
  BY <1>2, <1>3, Neighbours, Sentinels DEF IInv
<1>5. new \in ClientData /\ new.page = p
  <2>1. psize[p] \in Nat
    BY <1>4 DEF IInv, StoreOK
  <2> HIDE DEF p
  <2> QED BY <2>1, <1>3, <1>4 DEF ClientData
<1>6. lookaside' = [lookaside EXCEPT ![call.client] = new]
  BY <1>3 DEF SeekPageBack, Me, IInv, ClientsOK, ClientData
<1>7. ListOK' /\ StoreOK' /\ size' \in Size /\ disk' \in Seq(Byte) /\ Range(pages') = Range(pages)
  BY SamePages DEF SeekPageBack
<1> HIDE DEF new, p
<1>8. ClientsOK' /\ DOMAIN lookaside' = DOMAIN lookaside
  BY <1>3, <1>4, <1>5, <1>6, <1>7, OneMoves DEF IInv
<1>9. CallOK'
  <2>1. CASE Leave
    BY <2>1, CallEnds DEF Leave
  <2>2. CASE UNCHANGED call
    BY <2>2, <1>1, <1>3, <1>8 DEF IInv, CallOK
  <2> QED BY <2>1, <2>2 DEF SeekPageBack, p
<1> QED BY <1>7, <1>8, <1>9 DEF IInv

-----------------------------------------------------------------------------
(* Steps of a call that change the bytes of a page.                        *)

(* A page that is no sentinel has other bytes, and Page::size tells; if it *)
(* leaves the list it has none.                                            *)
LEMMA PageChanges ==
  ASSUME IInv, NEW p \in PageId, p # pages[1], p # Back, NEW b \in Seq(Byte),
         data' = [data EXCEPT ![p] = b], psize' = [psize EXCEPT ![p] = Len(b)],
         pages'[1] = pages[1], Back' = Back,
         \A x \in Unused' : x \in Unused \/ x = p,
         p \in Unused' => b = <<>>
  PROVE  StoreOK'
<1>1. Len(b) \in Nat /\ Len(<<>>) = 0
  BY LenProperties, EmptySeq
<1>2. data' \in [PageId -> Seq(Byte)] /\ psize' \in [PageId -> Nat]
  BY <1>1 DEF IInv, StoreOK
<1>3. \A x \in PageId : psize'[x] = Len(data'[x])
  BY DEF IInv, StoreOK
<1>4. \A x \in PageId : x # p => psize'[x] = psize[x]
  BY DEF IInv, StoreOK
<1>5. psize'[pages[1]] = 0 /\ psize'[Back] = 0
  BY <1>4, Sentinels DEF IInv, StoreOK
<1>6. ASSUME NEW x \in Unused' PROVE psize'[x] = 0
  <2>1. CASE x = p
    BY <2>1, <1>1, <1>6 DEF IInv, StoreOK
  <2>2. CASE x # p
    BY <2>2, <1>4, <1>6 DEF IInv, StoreOK, Unused
  <2> QED BY <2>1, <2>2
<1> QED BY <1>2, <1>3, <1>5, <1>6 DEF StoreOK

(* The next n bytes of the buffer are n.                                   *)
LEMMA PieceLength ==
  ASSUME NEW n \in Nat, call.val \in Seq(Byte), call.len \in Nat,
         n <= call.len, call.len <= Len(call.val)
  PROVE  Piece(n) \in Seq(Byte) /\ Len(Piece(n)) = n
<1> DEFINE done == Len(call.val) - call.len
<1>1. Len(call.val) \in Nat
  BY LenProperties
<1>2. done \in Nat /\ done + n <= Len(call.val)
  BY <1>1
<1>3. Piece(n) = SubSeq(call.val, done + 1, done + n)
  BY DEF Piece
<1> HIDE DEF done
<1> QED BY <1>2, <1>3, PieceOfSeq

(* One iteration of w's loop: as many bytes as before, so Page::size stays *)
(* right.                                                                  *)
LEMMA WriteChunkStep == ASSUME IInv, WriteChunk PROVE IInv'
<1> DEFINE p    == Me.page
           buf  == data[p]
           head == SubSeq(buf, 1, Me.off)
           tail == SubSeq(buf, Me.off + Chunk + 1, Len(buf))
           new  == head \o Piece(Chunk) \o tail
<1>1. /\ call.op # "idle" /\ call.pc = "w" /\ Valid /\ Probes
  BY DEF WriteChunk, In, Valid
<1>2. p # Back /\ call.fwd /\ call.len <= Len(call.val)
  BY <1>1 DEF Probes, In, IInv, CallOK
<1>3. /\ p \in PageId /\ buf \in Seq(Byte) /\ psize[p] = Len(buf)
      /\ call.val \in Seq(Byte) /\ call.len \in Nat /\ call.out \in Seq(Byte)
      /\ Me.off \in Nat /\ call \in Calls
  BY <1>1, InCall
<1>4. /\ Chunk \in Nat /\ Chunk > 0 /\ Chunk <= call.len
      /\ Me.off + Chunk <= Len(buf) /\ Me.off <= Len(buf) /\ Len(buf) \in Nat
  BY <1>1, <1>2, <1>3, ValidChunk, LenProperties DEF WriteChunk
<1>5. p # pages[1]
  <2>1. psize[p] > 0
    BY <1>3, <1>4
  <2> QED BY <2>1, <1>1, PageWithBytes
<1>6. new \in Seq(Byte) /\ Len(new) = psize[p]
  <2>1. Piece(Chunk) \in Seq(Byte) /\ Len(Piece(Chunk)) = Chunk
    BY <1>2, <1>3, <1>4, PieceLength
  <2>2. new = Edited(buf, Me.off, Chunk, Piece(Chunk))
    BY DEF Edited
  <2> HIDE DEF buf, new
  <2>3. /\ buf \in Seq(Byte) /\ Piece(Chunk) \in Seq(Byte) /\ Len(Piece(Chunk)) = Chunk
        /\ Me.off \in Nat /\ Chunk \in Nat /\ Me.off + Chunk <= Len(buf)
    BY <2>1, <1>3, <1>4
  <2>4. new \in Seq(Byte) /\ Len(new) = Len(buf)
    BY <2>2, <2>3, ReplacedList
  <2> QED BY <2>4, <1>3
<1>7. data' = [data EXCEPT ![p] = new]
  BY DEF WriteChunk
<1> HIDE DEF new, buf, head, tail, p
<1>8. psize' = [psize EXCEPT ![p] = Len(new)]
  BY <1>3, <1>6 DEF WriteChunk, IInv, StoreOK
<1>9. UNCHANGED <<pages, size, disk>>
  BY DEF WriteChunk
<1>10. pages'[1] = pages[1] /\ Back' = Back /\ Unused' = Unused /\ Range(pages') = Range(pages)
  BY <1>9 DEF Back, Unused
<1>11. StoreOK'
  <2>1. p \notin Unused
    BY <1>1, InCall DEF Unused, p
  <2> QED BY <2>1, <1>2, <1>3, <1>5, <1>6, <1>7, <1>8, <1>10, PageChanges
<1>12. ClientsOK' /\ CallOK'
  <2>1. call' = [call EXCEPT !.len = call.len - Chunk, !.out = call.out]
    BY <1>3 DEF WriteChunk, Calls
  <2> QED BY <2>1, <1>1, <1>2, <1>3, <1>10, CallAdvances DEF WriteChunk, p
<1> QED BY <1>9, <1>11, <1>12 DEF IInv, ListOK

(* The client of the call is aligned.                                      *)
LEMMA ClientAligned ==
  ASSUME IInv, NEW c \in DOMAIN lookaside, AlignClient(c),
         Range(pages) \subseteq Range(pages')
  PROVE  /\ ClientsOK' /\ DOMAIN lookaside' = DOMAIN lookaside
         /\ lookaside'[c] = Aligned(lookaside[c])
         /\ Aligned(lookaside[c]).page \in Range(pages)
         /\ Aligned(lookaside[c]).page # pages[1]
<1>1. lookaside[c] \in ClientData /\ lookaside[c].page \in Range(pages)
  BY DEF IInv, ClientsOK
<1>2. /\ Aligned(lookaside[c]) \in ClientData
      /\ Aligned(lookaside[c]).page \in Range(pages)
      /\ Aligned(lookaside[c]).page # pages[1]
  BY <1>1, AlignedRange DEF IInv
<1>3. lookaside' = [lookaside EXCEPT ![c] = Aligned(lookaside[c])]
  BY DEF AlignClient
<1> QED BY <1>2, <1>3, OneMoves DEF IInv

(* A page behind the tail sentinel: a new, empty sentinel, and the page of *)
(* the client is one no longer.                                            *)
LEMMA TailAppended ==
  ASSUME IInv, NEW info, info.page \in Range(pages), info.page # pages[1],
         AppendTail(info), UNCHANGED <<data, psize>>
  PROVE  /\ ListOK' /\ StoreOK' /\ Range(pages) \subseteq Range(pages')
         /\ info.page # pages'[1] /\ info.page # Back'
<1>1. CASE info.page # Back
  <2>1. UNCHANGED pages
    BY <1>1 DEF AppendTail
  <2> QED BY <2>1, <1>1 DEF IInv, ListOK, StoreOK, Back, Unused
<1>2. CASE info.page = Back
  <2> DEFINE q == NewPage
  <2>1. q \in PageId /\ q \notin Range(pages) /\ pages' = Append(pages, q)
    BY <1>2 DEF AppendTail, NewPage, Unused
  <2>2. psize[q] = 0
    BY <2>1 DEF IInv, StoreOK, Unused
  <2> HIDE DEF q
  <2>3. pages \in Seq(PageId) /\ Len(pages) \in Nat /\ Len(pages) >= 2 /\ Distinct(pages)
    BY LenProperties DEF IInv, ListOK
  <2>4. /\ pages' \in Seq(PageId) /\ Len(pages') = Len(pages) + 1 /\ Distinct(pages')
        /\ pages'[1] = pages[1] /\ pages'[Len(pages) + 1] = q
        /\ Range(pages') = Range(pages) \cup {q}
    BY <2>1, <2>3, AppendOuter
  <2>5. ListOK' /\ Back' = q
    BY <2>3, <2>4 DEF ListOK, Distinct, Back
  <2>6. StoreOK'
    BY <2>2, <2>4, <2>5 DEF IInv, StoreOK, Unused
  <2>7. info.page # q
    BY <2>1
  <2> QED BY <2>4, <2>5, <2>6, <2>7
<1> QED BY <1>1, <1>2

(* w goes on in i with the rest of its buffer, on a new tail sentinel if   *)
(* it is at the end of the file.                                           *)
LEMMA WriteRestStep == ASSUME IInv, WriteRest PROVE IInv'
<1> DEFINE info == Aligned(Me)
           rest == Piece(call.len)
<1>1. call.op # "idle" /\ call.pc = "w"
  BY DEF WriteRest, In
<1>2. /\ call.client \in DOMAIN lookaside /\ call \in Calls
      /\ call.len \in Nat /\ call.val \in Seq(Byte)
  BY <1>1, InCall
<1>3. call.len <= Len(call.val) /\ call.fwd
  BY <1>1 DEF IInv, CallOK
<1>4. rest \in Seq(Byte) /\ Len(rest) = call.len
  BY <1>2, <1>3, PieceLength
<1>5. /\ Me \in ClientData /\ Me.page \in Range(pages)
      /\ info.page \in Range(pages) /\ info.page # pages[1]
  BY <1>1, InCall, AlignedRange DEF IInv
<1>6. AppendTail(info) /\ UNCHANGED <<data, psize, size, disk>>
  BY DEF WriteRest
<1> HIDE DEF info, rest
<1>7. /\ ListOK' /\ StoreOK' /\ Range(pages) \subseteq Range(pages')
      /\ info.page # pages'[1] /\ info.page # Back'
  BY <1>5, <1>6, TailAppended
<1>8. ClientsOK' /\ DOMAIN lookaside' = DOMAIN lookaside /\ lookaside'[call.client] = info
  BY <1>2, <1>7, ClientAligned DEF WriteRest, info, Me
<1>9. CallOK'
  <2>1. PICK back \in BOOLEAN :
          call' = [call EXCEPT !.pc = "i", !.val = rest, !.back = back]
    BY DEF WriteRest, rest
  <2>2. call' \in Calls
    BY <2>1, <1>2, <1>4 DEF Calls, Ops
  <2>3. /\ call'.op = call.op /\ call'.pc = "i" /\ call'.client = call.client
        /\ call'.len = call.len /\ call'.val = rest /\ call'.fwd = call.fwd
    BY <2>1, <1>2 DEF Calls
  <2>4. Me'.page = info.page
    BY <2>3, <1>8 DEF Me
  <2>5. call'.client \in DOMAIN lookaside' /\ call'.fwd
    BY <2>3, <1>2, <1>3, <1>8
  <2>6. call'.len <= Len(call'.val)
    BY <2>3, <1>2, <1>4
  <2>7. Me'.page # pages'[1] /\ Me'.page # Back'
    BY <2>4, <1>7
  <2> QED BY <2>2, <2>5, <2>6, <2>7 DEF CallOK
<1> QED BY <1>6, <1>7, <1>8, <1>9 DEF IInv

(* i returns, with a client that appended on the tail sentinel.            *)
LEMMA InsertReturnStep == ASSUME IInv, InsertReturn PROVE IInv'
<1> DEFINE new == [Me EXCEPT !.page = Back, !.off = 0]
<1>1. call.op # "idle"
  BY DEF InsertReturn, In
<1>2. call.client \in DOMAIN lookaside /\ Me \in ClientData
  BY <1>1, InCall
<1>3. new \in ClientData /\ new.page = Back /\ Back \in Range(pages)
  BY <1>2, Sentinels DEF IInv, ClientData
<1>4. UNCHANGED <<pages, data, psize, size, disk>>
  BY DEF InsertReturn
<1>5. ListOK' /\ StoreOK' /\ size' \in Size /\ disk' \in Seq(Byte) /\ Range(pages') = Range(pages)
  BY <1>4, SamePages
<1>6. ClientsOK'
  <2>1. CASE call.back
    <3>1. lookaside' = [lookaside EXCEPT ![call.client] = new]
      BY <2>1, <1>2 DEF InsertReturn, Me, IInv, ClientsOK, ClientData
    <3> HIDE DEF new
    <3> QED BY <3>1, <1>2, <1>3, <1>5, OneMoves DEF IInv
  <2>2. CASE ~call.back
    BY <2>2, <1>5 DEF InsertReturn, IInv, ClientsOK
  <2> QED BY <2>1, <2>2
<1>7. CallOK'
  BY CallEnds DEF InsertReturn, Leave
<1> QED BY <1>5, <1>6, <1>7 DEF IInv

(* Every client behind the erased bytes, or among them.                    *)
LEMMA AfterEraseRange ==
  ASSUME IInv, call.op # "idle", NEW info \in ClientData, NEW n \in Nat
  PROVE  AfterErase(info, n) \in ClientData /\ AfterErase(info, n).page = info.page
<1>1. info.off \in Nat /\ info.pos \in Nat /\ Me.off \in Nat
  BY ClientFields, InCall
<1>2. CASE info.pos <= Me.pos
  BY <1>2 DEF AfterErase
<1>3. CASE ~(info.pos <= Me.pos) /\ info.page # Me.page
  <2>1. Sub(info.pos, n) \in Size
    BY <1>1, SizeTRange
  <2>2. AfterErase(info, n) = [info EXCEPT !.pos = Sub(info.pos, n)]
    BY <1>3 DEF AfterErase
  <2> QED BY <2>1, <2>2 DEF ClientData
<1>4. CASE ~(info.pos <= Me.pos) /\ info.page = Me.page /\ info.off <= Me.off
  BY <1>4 DEF AfterErase
<1>5. CASE ~(info.pos <= Me.pos) /\ info.page = Me.page /\ ~(info.off <= Me.off)
  <2> DEFINE m == Least(info.off - Me.off, n)
  <2>1. m \in Nat /\ info.off - m \in Nat
    BY <1>1, <1>5 DEF Least
  <2>2. AfterErase(info, n) = [info EXCEPT !.off = info.off - m, !.pos = Sub(info.pos, m)]
    BY <1>5 DEF AfterErase
  <2> HIDE DEF m
  <2>3. Sub(info.pos, m) \in Size
    BY <2>1, <1>1, SizeTRange
  <2> QED BY <2>1, <2>2, <2>3 DEF ClientData
<1> QED BY <1>2, <1>3, <1>4, <1>5

(* One iteration of d's loop: a page that loses all its bytes is between   *)
(* the sentinels, so every client on it has a next page to go to.          *)
LEMMA EraseChunkStep == ASSUME IInv, EraseChunk PROVE IInv'
<1> DEFINE p    == Me.page
           buf  == data[p]
           head == SubSeq(buf, 1, Me.off)
           tail == SubSeq(buf, Me.off + Chunk + 1, Len(buf))
           rest == head \o tail
<1>1. call.op # "idle" /\ call.pc = "d" /\ Valid /\ call.fwd
  BY DEF EraseChunk, In, IInv, CallOK
<1>2. /\ p \in PageId /\ p \in Range(pages) /\ buf \in Seq(Byte) /\ psize[p] = Len(buf)
      /\ Me.off \in Nat /\ call \in Calls /\ call.out \in Seq(Byte)
  BY <1>1, InCall
<1>3. /\ Chunk \in Nat /\ Chunk > 0 /\ Chunk <= call.len
      /\ Me.off + Chunk <= Len(buf) /\ Len(buf) \in Nat
  BY <1>1, <1>2, ValidChunk, LenProperties DEF EraseChunk
<1>4. p # pages[1] /\ p # Back
  <2>1. psize[p] > 0
    BY <1>2, <1>3
  <2> QED BY <2>1, <1>1, PageWithBytes
<1>5. \A c \in DOMAIN lookaside :
        /\ AfterErase(lookaside[c], Chunk) \in ClientData
        /\ AfterErase(lookaside[c], Chunk).page = lookaside[c].page
        /\ lookaside[c].page \in Range(pages)
  BY <1>1, <1>3, AfterEraseRange DEF IInv, ClientsOK
<1>6. /\ size' \in Size /\ UNCHANGED disk
      /\ call' = [call EXCEPT !.len = call.len - Chunk, !.out = call.out]
  <2>1. size' \in Size
    <3>1. size \in Int
      BY BoundAssumption DEF IInv, Size
    <3> QED BY <3>1, <1>3, SizeTRange DEF EraseChunk
  <2> QED BY <2>1, <1>2 DEF EraseChunk, Calls
<1>7. CASE Chunk = psize[p]
  <2> DEFINE at == Index(p)
  <2>1. /\ pages' = RemoveAt(pages, at)
        /\ data' = [data EXCEPT ![p] = <<>>]
        /\ psize' = [psize EXCEPT ![p] = 0]
        /\ lookaside' = [c \in DOMAIN lookaside |-> OffPage(AfterErase(lookaside[c], Chunk))]
    BY <1>7 DEF EraseChunk
  <2>2. /\ at \in 2 .. Len(pages) - 1 /\ pages[at] = p
        /\ Succ(p) \in Range(pages) /\ Succ(p) # p /\ Succ(p) \in PageId
    <3>1. /\ at \in 1..Len(pages) /\ pages[at] = p /\ at >= 2 /\ at <= Len(pages) - 1
          /\ Succ(p) \in Range(pages) /\ Succ(p) # p
      BY <1>2, <1>4, Neighbours DEF IInv
    <3>2. Len(pages) \in Nat
      BY LenProperties DEF IInv, ListOK
    <3>3. Succ(p) \in PageId
      BY <3>1, Sentinels DEF IInv
    <3> QED BY <3>1, <3>2, <3>3
  <2>3. pages \in Seq(PageId) /\ Len(pages) \in Nat /\ Len(pages) >= 2 /\ Distinct(pages)
    BY LenProperties DEF IInv, ListOK
  <2> HIDE DEF at, p
  <2>4. /\ pages' \in Seq(PageId) /\ Len(pages') = Len(pages) - 1 /\ Distinct(pages')
        /\ pages'[1] = pages[1] /\ pages'[Len(pages) - 1] = pages[Len(pages)]
        /\ Range(pages') = Range(pages) \ {p}
    BY <2>1, <2>2, <2>3, RemoveInner
  <2>5. ListOK'
    <3>1. Len(pages) - 1 >= 2
      BY <2>2, <2>3
    <3> QED BY <3>1, <2>4 DEF ListOK, Distinct
  <2>6. Back' = Back
    BY <2>4 DEF Back
  <2>7. StoreOK'
    <3>1. <<>> \in Seq(Byte) /\ Len(<<>>) = 0
      BY EmptySeq
    <3>2. psize' = [psize EXCEPT ![p] = Len(<<>>)]
      BY <3>1, <2>1
    <3>3. \A x \in Unused' : x \in Unused \/ x = p
      BY <2>4 DEF Unused
    <3> QED BY <3>1, <3>2, <3>3, <2>1, <2>4, <2>6, <1>2, <1>4, PageChanges
  <2>8. ASSUME NEW c \in DOMAIN lookaside
        PROVE  /\ OffPage(AfterErase(lookaside[c], Chunk)) \in ClientData
               /\ OffPage(AfterErase(lookaside[c], Chunk)).page \in Range(pages')
    <3> DEFINE info == AfterErase(lookaside[c], Chunk)
    <3>1. info \in ClientData /\ info.page \in Range(pages)
      BY <1>5
    <3> HIDE DEF info
    <3>2. CASE info.page = p
      <4>1. OffPage(info) = [info EXCEPT !.page = Succ(p)]
        BY <3>2 DEF OffPage, p
      <4>2. [info EXCEPT !.page = Succ(p)] \in ClientData
            /\ [info EXCEPT !.page = Succ(p)].page = Succ(p)
        BY <3>1, <2>2 DEF ClientData
      <4> QED BY <4>1, <4>2, <2>2, <2>4 DEF info
    <3>3. CASE info.page # p
      BY <3>1, <3>3, <2>4 DEF OffPage, p, info
    <3> QED BY <3>2, <3>3
  <2>9. ClientsOK' /\ DOMAIN lookaside' = DOMAIN lookaside
    BY <2>1, <2>8 DEF IInv, ClientsOK
  <2>10. CallOK'
    BY <1>1, <1>2, <1>3, <1>6, <2>9, CallGoesOn
  <2> QED BY <2>5, <2>7, <2>9, <2>10, <1>6 DEF IInv
<1>8. CASE Chunk # psize[p]
  <2>1. /\ data' = [data EXCEPT ![p] = rest]
        /\ psize' = [psize EXCEPT ![p] = Len(rest)]
        /\ lookaside' = [c \in DOMAIN lookaside |-> AfterErase(lookaside[c], Chunk)]
        /\ UNCHANGED pages
    BY <1>8 DEF EraseChunk
  <2>2. rest \in Seq(Byte)
    <3>1. head \in Seq(Byte)
      <4>1. Me.off <= Len(buf)
        BY <1>2, <1>3
      <4> QED BY <4>1, <1>2, HalvesOfSeq
    <3>2. tail \in Seq(Byte)
      <4>1. Me.off + Chunk \in Nat
        BY <1>2, <1>3
      <4> QED BY <4>1, <1>2, <1>3, HalvesOfSeq
    <3> HIDE DEF head, tail
    <3> QED BY <3>1, <3>2, ConcatProperties
  <2> HIDE DEF rest, buf, head, tail, p
  <2>3. ListOK' /\ Back' = Back /\ Unused' = Unused /\ Range(pages') = Range(pages)
    BY <2>1 DEF IInv, ListOK, Back, Unused
  <2>4. StoreOK'
    <3>1. p \notin Unused
      BY <1>2 DEF Unused
    <3> QED BY <3>1, <2>1, <2>2, <2>3, <1>2, <1>4, PageChanges
  <2>5. ClientsOK' /\ DOMAIN lookaside' = DOMAIN lookaside
    BY <2>1, <2>3, <1>5 DEF IInv, ClientsOK
  <2>6. CallOK'
    BY <1>1, <1>2, <1>3, <1>6, <2>5, CallGoesOn
  <2> QED BY <2>3, <2>4, <2>5, <2>6, <1>6 DEF IInv
<1> QED BY <1>7, <1>8

-----------------------------------------------------------------------------
(* Insertion.                                                              *)

(* The chunk of i is at most what is left of the buffer, even where        *)
(* Config::probe's room wraps.                                             *)
LEMMA InsertChunkRange ==
  ASSUME IInv, call.op # "idle"
  PROVE  InsertChunk \in Nat /\ InsertChunk <= call.len
<1>1. Me.off \in Nat /\ psize[Me.page] \in Nat /\ call.len \in Nat
  BY InCall
<1>2. Room(Me.off) \in Nat
  <2>1. Sub(MSize, Me.off) \in Size
    BY <1>1, ConfigAssumption, SizeTRange
  <2> QED BY <2>1, BoundAssumption DEF Room, Size
<1>3. ISize \in Nat
  BY ConfigAssumption
<1>4. CASE Me.off = psize[Me.page]
  BY <1>1, <1>3, <1>4 DEF InsertChunk, ChunkSize, Least
<1>5. CASE Me.off # psize[Me.page]
  <2>1. InsertChunk = InsertProbe(Me.page, Me.off, call.len)
    BY <1>5 DEF InsertChunk, ChunkSize
  <2>2. InsertChunk = call.len \/ InsertChunk = Least(Room(Me.off), call.len)
    BY <2>1 DEF InsertProbe
  <2> QED BY <2>2, <1>1, <1>2 DEF Least
<1> QED BY <1>4, <1>5

(* What both branches of i's loop start from.                              *)
LEMMA InsertFacts ==
  ASSUME IInv, In("i"), Valid
  PROVE  /\ call.op # "idle" /\ call.pc = "i"
         /\ call.client \in DOMAIN lookaside /\ call \in Calls /\ call.out \in Seq(Byte)
         /\ InsertChunk \in Nat /\ InsertChunk <= call.len
         /\ Me \in ClientData /\ Me.off \in Nat /\ Me.pos \in Nat
         /\ Me.page \in PageId /\ Me.page \in Range(pages)
         /\ Me.page # pages[1] /\ Me.page # Back
         /\ data[Me.page] \in Seq(Byte) /\ psize[Me.page] = Len(data[Me.page])
         /\ Me.off <= Len(data[Me.page])
         /\ Piece(InsertChunk) \in Seq(Byte) /\ Len(Piece(InsertChunk)) = InsertChunk
<1>1. call.op # "idle" /\ call.pc = "i"
  BY DEF In
<1>2. /\ call.client \in DOMAIN lookaside /\ call \in Calls /\ call.out \in Seq(Byte)
      /\ Me \in ClientData /\ Me.off \in Nat /\ Me.pos \in Nat
      /\ Me.page \in PageId /\ Me.page \in Range(pages)
      /\ data[Me.page] \in Seq(Byte) /\ psize[Me.page] = Len(data[Me.page])
      /\ call.val \in Seq(Byte) /\ call.len \in Nat
  BY <1>1, InCall
<1>3. InsertChunk \in Nat /\ InsertChunk <= call.len
  BY <1>1, InsertChunkRange
<1>4. Me.page # pages[1] /\ Me.page # Back /\ call.len <= Len(call.val)
  BY <1>1 DEF IInv, CallOK
<1>5. Me.off <= Len(data[Me.page])
  BY <1>2, ValidChunk
<1>6. Piece(InsertChunk) \in Seq(Byte) /\ Len(Piece(InsertChunk)) = InsertChunk
  BY <1>2, <1>3, <1>4, PieceLength
<1> QED BY <1>1, <1>2, <1>3, <1>4, <1>5, <1>6

(* File::size stays in size_t when bytes come in.                          *)
LEMMA SizeGrows ==
  ASSUME IInv, NEW n \in Nat
  PROVE  Add(size, n) \in Size
<1>1. size \in Int
  BY BoundAssumption DEF IInv, Size
<1> QED BY <1>1, SizeTRange

(* Every client behind the place of the split.                             *)
LEMMA AfterSplitRange ==
  ASSUME IInv, call.op # "idle", NEW info \in ClientData, NEW n \in Nat, NEW q \in PageId
  PROVE  /\ AfterSplit(info, n, q) \in ClientData
         /\ AfterSplit(info, n, q).page \in {info.page, q}
<1>1. info.off \in Nat /\ info.pos \in Nat /\ Me.off \in Nat
  BY ClientFields, InCall
<1>2. Add(info.pos, n) \in Size
  BY <1>1, SizeTRange
<1>3. CASE info.pos <= Me.pos
  BY <1>3 DEF AfterSplit
<1>4. CASE ~(info.pos <= Me.pos) /\ info.page = Me.page /\ info.off >= Me.off
  <2>1. AfterSplit(info, n, q) = [page |-> q, off |-> info.off - Me.off, pos |-> Add(info.pos, n)]
    BY <1>4 DEF AfterSplit
  <2>2. info.off - Me.off \in Nat
    BY <1>1, <1>4
  <2> QED BY <2>1, <2>2, <1>2 DEF ClientData
<1>5. CASE ~(info.pos <= Me.pos) /\ ~(info.page = Me.page /\ info.off >= Me.off)
  <2>1. AfterSplit(info, n, q) = [info EXCEPT !.pos = Add(info.pos, n)]
    BY <1>5 DEF AfterSplit
  <2> QED BY <2>1, <1>2 DEF ClientData
<1> QED BY <1>3, <1>4, <1>5

(* One iteration of i's loop that splits the page: the page of the clients *)
(* behind the offset is the new one, which is in the list.                 *)
LEMMA InsertSplitStep == ASSUME IInv, InsertSplit PROVE IInv'
<1> DEFINE n    == InsertChunk
           p    == Me.page
           q    == NewPage
           buf  == data[p]
           head == SubSeq(buf, 1, Me.off) \o Piece(n)
           tail == SubSeq(buf, Me.off + 1, Len(buf))
           at   == Index(p) + 1
<1>1. /\ pages' = InsertAt(pages, at, q)
      /\ data' = [data EXCEPT ![p] = head, ![q] = tail]
      /\ psize' = [psize EXCEPT ![p] = Len(head), ![q] = Len(tail)]
      /\ lookaside' = [c \in DOMAIN lookaside |->
                         IF c = call.client
                         THEN [page |-> q, off |-> 0, pos |-> Add(Me.pos, n)]
                         ELSE AfterSplit(lookaside[c], n, q)]
      /\ size' = Add(size, n) /\ UNCHANGED disk
  BY DEF InsertSplit
<1>2. q \in PageId /\ q \notin Range(pages)
  BY DEF InsertSplit, NewPage, Unused
<1>3. /\ call.op # "idle" /\ call.pc = "i"
      /\ call.client \in DOMAIN lookaside /\ call \in Calls /\ call.out \in Seq(Byte)
      /\ n \in Nat /\ n <= call.len /\ Me.pos \in Nat /\ Me.off \in Nat
      /\ p \in PageId /\ p \in Range(pages) /\ p # pages[1] /\ p # Back
      /\ buf \in Seq(Byte) /\ Me.off <= Len(buf) /\ Piece(n) \in Seq(Byte)
  BY InsertFacts DEF InsertSplit
<1>4. head \in Seq(Byte) /\ tail \in Seq(Byte) /\ Len(head) \in Nat /\ Len(tail) \in Nat
  <2>1. SubSeq(buf, 1, Me.off) \in Seq(Byte) /\ tail \in Seq(Byte)
    BY <1>3, HalvesOfSeq
  <2>2. head \in Seq(Byte)
    BY <2>1, <1>3, ConcatProperties
  <2> QED BY <2>1, <2>2, LenProperties
<1>5. at \in 2 .. Len(pages) /\ Len(pages) \in Nat /\ Len(pages) >= 2
  <2>1. Index(p) \in 1..Len(pages) /\ Index(p) <= Len(pages) - 1
    BY <1>3, Neighbours DEF IInv
  <2>2. Len(pages) \in Nat /\ Len(pages) >= 2
    BY LenProperties DEF IInv, ListOK
  <2> QED BY <2>1, <2>2
<1>6. call' = [call EXCEPT !.len = call.len - n, !.out = call.out]
  BY <1>3 DEF InsertSplit, Calls
<1> HIDE DEF n, p, q, buf, head, tail, at
<1>7. /\ pages' \in Seq(PageId) /\ Len(pages') = Len(pages) + 1 /\ Distinct(pages')
      /\ pages'[1] = pages[1] /\ pages'[Len(pages) + 1] = pages[Len(pages)]
      /\ Range(pages') = Range(pages) \cup {q}
  <2>1. pages \in Seq(PageId) /\ Distinct(pages)
    BY DEF IInv, ListOK
  <2> QED BY <2>1, <1>1, <1>2, <1>5, InsertInner
<1>8. ListOK'
  BY <1>5, <1>7 DEF ListOK, Distinct
<1>9. Back' = Back
  BY <1>7 DEF Back
<1>10. StoreOK'
  <2>1. data' \in [PageId -> Seq(Byte)] /\ psize' \in [PageId -> Nat]
    BY <1>1, <1>4 DEF IInv, StoreOK
  <2>2. \A x \in PageId : psize'[x] = Len(data'[x])
    BY <1>1, <1>2, <1>3 DEF IInv, StoreOK
  <2>3. \A x \in PageId : x # p /\ x # q => psize'[x] = psize[x]
    BY <1>1 DEF IInv, StoreOK
  <2>4. /\ pages[1] \in PageId /\ pages[1] # p /\ pages[1] # q
        /\ Back \in PageId /\ Back # p /\ Back # q
    BY <1>2, <1>3, Sentinels DEF IInv
  <2>5. psize'[pages'[1]] = 0 /\ psize'[Back'] = 0
    BY <2>3, <2>4, <1>7, <1>9 DEF IInv, StoreOK
  <2>6. \A x \in Unused' : x \in Unused /\ x # p /\ x # q
    BY <1>3, <1>7 DEF Unused
  <2>7. \A x \in Unused' : psize'[x] = 0
    BY <2>3, <2>6 DEF IInv, StoreOK, Unused
  <2> QED BY <2>1, <2>2, <2>5, <2>7 DEF StoreOK
<1>11. ASSUME NEW c \in DOMAIN lookaside
       PROVE  lookaside'[c] \in ClientData /\ lookaside'[c].page \in Range(pages')
  <2>1. CASE c = call.client
    <3>1. Add(Me.pos, n) \in Size
      BY <1>3, SizeTRange
    <3>2. lookaside'[c] = [page |-> q, off |-> 0, pos |-> Add(Me.pos, n)]
      BY <2>1, <1>1
    <3> QED BY <3>1, <3>2, <1>2, <1>7 DEF ClientData
  <2>2. CASE c # call.client
    <3>1. lookaside[c] \in ClientData /\ lookaside[c].page \in Range(pages)
      BY DEF IInv, ClientsOK
    <3>2. lookaside'[c] = AfterSplit(lookaside[c], n, q)
      BY <2>2, <1>1
    <3> QED BY <3>1, <3>2, <1>2, <1>3, <1>7, AfterSplitRange, ZenonT(40)
  <2> QED BY <2>1, <2>2
<1>12. ClientsOK' /\ DOMAIN lookaside' = DOMAIN lookaside
  <2>1. DOMAIN lookaside' = DOMAIN lookaside
        /\ lookaside' = [c \in DOMAIN lookaside |-> lookaside'[c]]
    BY <1>1
  <2> QED BY <2>1, <1>11 DEF IInv, ClientsOK
<1>13. CallOK'
  <2>1. call'.client = call.client
    BY <1>3, <1>6 DEF Calls
  <2>2. Me'.page = q
    BY <2>1, <1>1, <1>3 DEF Me
  <2>3. q # pages'[1] /\ q # Back'
    BY <1>2, <1>7, <1>9, Sentinels DEF IInv
  <2> QED BY <2>2, <2>3, <1>3, <1>6, <1>12, CallGoesOn
<1>14. size' \in Size /\ disk' \in Seq(Byte)
  BY <1>1, <1>3, SizeGrows DEF IInv
<1> QED BY <1>8, <1>10, <1>12, <1>13, <1>14 DEF IInv

(* Every client behind the inserted bytes.                                 *)
LEMMA AfterInsertRange ==
  ASSUME IInv, NEW info \in ClientData, NEW n \in Nat
  PROVE  AfterInsert(info, n) \in ClientData /\ AfterInsert(info, n).page = info.page
<1>1. Add(info.pos, n) \in Size /\ Add(info.off, n) \in Nat
  <2>1. Add(info.pos, n) \in Size /\ Add(info.off, n) \in Size
    BY ClientFields, SizeTRange
  <2> QED BY <2>1, BoundAssumption DEF Size
<1>2. CASE info.pos <= Me.pos
  BY <1>2 DEF AfterInsert
<1>3. CASE ~(info.pos <= Me.pos) /\ info.page = Me.page /\ info.off > Me.off
  <2>1. AfterInsert(info, n) = [info EXCEPT !.pos = Add(info.pos, n), !.off = Add(info.off, n)]
    BY <1>3 DEF AfterInsert
  <2> QED BY <2>1, <1>1 DEF ClientData
<1>4. CASE ~(info.pos <= Me.pos) /\ ~(info.page = Me.page /\ info.off > Me.off)
  <2>1. AfterInsert(info, n) = [info EXCEPT !.pos = Add(info.pos, n)]
    BY <1>4 DEF AfterInsert
  <2> QED BY <2>1, <1>1 DEF ClientData
<1> QED BY <1>2, <1>3, <1>4

(* One iteration of i's loop that inserts into the page, with and without  *)
(* the exception half way.                                                 *)
LEMMA InsertInPageStep == ASSUME IInv, InsertInPage PROVE IInv'
<1> DEFINE n    == InsertChunk
           p    == Me.page
           buf  == data[p]
           new  == SubSeq(buf, 1, Me.off) \o Piece(n) \o SubSeq(buf, Me.off + 1, Len(buf))
           mine == [Me EXCEPT !.pos = Add(Me.pos, n), !.off = Me.off + n]
<1>1. /\ data' = [data EXCEPT ![p] = new]
      /\ psize' = [psize EXCEPT ![p] = psize[p] + n]
      /\ UNCHANGED <<pages, disk>>
  BY DEF InsertInPage
<1>2. \/ /\ lookaside' = [c \in DOMAIN lookaside |->
              IF c = call.client THEN mine ELSE AfterInsert(lookaside[c], n)]
         /\ size' = Add(size, n)
         /\ call' = [call EXCEPT !.len = call.len - n]
      \/ /\ lookaside' = [c \in DOMAIN lookaside |->
              IF \A x \in Overruns(n) : c <= x THEN AfterInsert(lookaside[c], n)
                                               ELSE lookaside[c]]
         /\ call' = Ended(TRUE)
         /\ UNCHANGED size
  BY DEF InsertInPage
<1>3. /\ call.op # "idle" /\ call.pc = "i"
      /\ call.client \in DOMAIN lookaside /\ call \in Calls /\ call.out \in Seq(Byte)
      /\ n \in Nat /\ n <= call.len /\ Me \in ClientData /\ Me.pos \in Nat /\ Me.off \in Nat
      /\ p \in PageId /\ p \in Range(pages) /\ p # pages[1] /\ p # Back
      /\ buf \in Seq(Byte) /\ psize[p] = Len(buf) /\ Me.off <= Len(buf)
      /\ Piece(n) \in Seq(Byte) /\ Len(Piece(n)) = n
  BY InsertFacts DEF InsertInPage
<1>4. new \in Seq(Byte) /\ Len(new) = psize[p] + n
  <2> DEFINE head == SubSeq(buf, 1, Me.off)
             tail == SubSeq(buf, Me.off + 1, Len(buf))
             part == head \o Piece(n)
  <2>1. /\ head \in Seq(Byte) /\ Len(head) = Me.off
        /\ tail \in Seq(Byte) /\ Len(tail) = Len(buf) - Me.off
    BY <1>3, HalvesOfSeq
  <2> HIDE DEF n, head, tail
  <2>2. part \in Seq(Byte) /\ Len(part) = Len(head) + Len(Piece(n))
    <3>1. head \in Seq(Byte) /\ Piece(n) \in Seq(Byte)
      BY <2>1, <1>3
    <3> QED BY <3>1, ConcatProperties
  <2>3. new = part \o tail
    BY DEF head, tail
  <2> HIDE DEF part, new
  <2>4. new \in Seq(Byte) /\ Len(new) = Len(part) + Len(tail)
    <3>1. part \in Seq(Byte) /\ tail \in Seq(Byte)
      BY <2>1, <2>2
    <3> QED BY <3>1, <2>3, ConcatProperties
  <2>5. Len(buf) \in Nat
    BY <1>3, LenProperties
  <2> HIDE DEF buf
  <2>6. Len(new) = Len(buf) + n
    BY <2>1, <2>2, <2>4, <2>5, <1>3
  <2> QED BY <2>4, <2>6, <1>3
<1>5. mine \in ClientData /\ mine.page = Me.page
  <2>1. Add(Me.pos, n) \in Size /\ Me.off + n \in Nat
    BY <1>3, SizeTRange
  <2> HIDE DEF n
  <2> QED BY <2>1, <1>3 DEF ClientData
<1>6. ASSUME NEW c \in DOMAIN lookaside
      PROVE  /\ lookaside[c] \in ClientData /\ lookaside[c].page \in Range(pages)
             /\ AfterInsert(lookaside[c], n) \in ClientData
             /\ AfterInsert(lookaside[c], n).page \in Range(pages)
  <2>1. lookaside[c] \in ClientData /\ lookaside[c].page \in Range(pages)
    BY DEF IInv, ClientsOK
  <2>2. n \in Nat
    BY <1>3
  <2> HIDE DEF n
  <2> QED BY <2>1, <2>2, AfterInsertRange
<1> HIDE DEF n, p, buf, new, mine
<1>7. ListOK' /\ Back' = Back /\ Unused' = Unused /\ Range(pages') = Range(pages)
  BY <1>1 DEF IInv, ListOK, Back, Unused
<1>8. StoreOK'
  <2>1. psize' = [psize EXCEPT ![p] = Len(new)]
    BY <1>1, <1>4
  <2>2. p \notin Unused
    BY <1>3 DEF Unused
  <2> QED BY <2>1, <2>2, <1>1, <1>3, <1>4, <1>7, PageChanges
<1>9. disk' \in Seq(Byte)
  BY <1>1 DEF IInv
<1>10. CASE /\ lookaside' = [c \in DOMAIN lookaside |->
                 IF c = call.client THEN mine ELSE AfterInsert(lookaside[c], n)]
            /\ size' = Add(size, n)
            /\ call' = [call EXCEPT !.len = call.len - n]
  <2>1. size' \in Size
    BY <1>3, <1>10, SizeGrows
  <2>2. mine.page \in Range(pages)
    BY <1>3, <1>5 DEF p
  <2>3. ClientsOK' /\ DOMAIN lookaside' = DOMAIN lookaside
    BY <2>2, <1>5, <1>6, <1>7, <1>10 DEF IInv, ClientsOK
  <2>4. call' = [call EXCEPT !.len = call.len - n, !.out = call.out]
    BY <1>3, <1>10 DEF Calls
  <2>5. Me'.page = p
    <3>1. call'.client = call.client
      BY <1>3, <1>10 DEF Calls
    <3> QED BY <3>1, <1>3, <1>5, <1>10 DEF Me, p
  <2>6. pages'[1] = pages[1]
    BY <1>1
  <2>7. CallOK'
    BY <2>3, <2>4, <2>5, <2>6, <1>3, <1>7, CallGoesOn
  <2> QED BY <2>1, <2>3, <2>7, <1>7, <1>8, <1>9 DEF IInv
<1>11. CASE /\ lookaside' = [c \in DOMAIN lookaside |->
                 IF \A x \in Overruns(n) : c <= x THEN AfterInsert(lookaside[c], n)
                                                  ELSE lookaside[c]]
            /\ call' = Ended(TRUE)
            /\ UNCHANGED size
  <2>1. size' \in Size
    BY <1>11 DEF IInv
  <2>2. ASSUME NEW c \in DOMAIN lookaside
        PROVE  lookaside'[c] \in ClientData /\ lookaside'[c].page \in Range(pages')
    <3>1. lookaside'[c] = AfterInsert(lookaside[c], n) \/ lookaside'[c] = lookaside[c]
      BY <1>11
    <3> QED BY <3>1, <1>6, <1>7
  <2>3. ClientsOK'
    <3>1. DOMAIN lookaside' = DOMAIN lookaside
          /\ lookaside' = [c \in DOMAIN lookaside |-> lookaside'[c]]
      BY <1>11
    <3> QED BY <3>1, <2>2 DEF IInv, ClientsOK
  <2>4. CallOK'
    BY <1>11, CallEnds
  <2> QED BY <2>1, <2>3, <2>4, <1>7, <1>8, <1>9 DEF IInv
<1> QED BY <1>2, <1>10, <1>11

-----------------------------------------------------------------------------
(* The beginning of a call.                                                *)

(* Any of s, r, w and d starts with its client aligned.                    *)
LEMMA CallEnters ==
  ASSUME IInv, NEW c, NEW op \in {"s", "r", "w", "d"}, NEW len \in Nat,
         NEW val \in Seq(Byte), NEW fwd \in BOOLEAN,
         Enter(c, op, len, val, fwd), AlignClient(c),
         UNCHANGED <<pages, data, psize, size, disk>>,
         op # "s" => fwd, op = "w" => len <= Len(val)
  PROVE  IInv'
<1>1. /\ c \in DOMAIN lookaside
      /\ call' = [op |-> op, pc |-> op, client |-> c, len |-> len, val |-> val,
                  fwd |-> fwd, back |-> FALSE, out |-> <<>>]
  BY DEF Enter
<1>2. ListOK' /\ StoreOK' /\ size' \in Size /\ disk' \in Seq(Byte) /\ Range(pages') = Range(pages)
  BY SamePages
<1>3. ClientsOK' /\ DOMAIN lookaside' = DOMAIN lookaside
  BY <1>1, <1>2, ClientAligned
<1>4. CallOK'
  <2>1. call' \in Calls
    <3>1. c \in Client /\ <<>> \in Seq(Byte)
      BY <1>1, EmptySeq DEF IInv, ClientsOK
    <3>2. op \in Ops
      BY DEF Ops
    <3> QED BY <3>1, <3>2, <1>1 DEF Calls
  <2>2. /\ call'.client = c /\ call'.pc = op /\ call'.len = len /\ call'.val = val
        /\ call'.fwd = fwd
    BY <1>1
  <2> QED BY <2>1, <2>2, <1>1, <1>3 DEF CallOK
<1> QED BY <1>2, <1>3, <1>4 DEF IInv

(* A seek of an open client.                                               *)
LEMMA SeekStep ==
  ASSUME IInv, NEW c \in Client, NEW n \in Lengths, NEW fwd \in BOOLEAN,
         NEW absolute \in BOOLEAN, Seek(c, n, fwd, absolute)
  PROVE  IInv'
<1> DEFINE plan == SeekPlan(lookaside[c].pos, n, fwd, absolute)
<1>1. plan.len \in Nat /\ plan.fwd \in BOOLEAN
  <2>1. lookaside[c].pos \in Nat
    BY ClientFields DEF Seek, IInv, ClientsOK
  <2>2. n \in Nat /\ size \in Nat
    BY BufferAssumption, BoundAssumption DEF IInv, Size
  <2> DEFINE p      == lookaside[c].pos
             len    == IF size > n THEN n ELSE size
             target == IF fwd THEN len ELSE size - len
  <2>3. len \in Nat /\ target \in Nat
    BY <2>2
  <2>4. plan = IF ~absolute THEN [len |-> len, fwd |-> fwd]
               ELSE IF target > p THEN [len |-> target - p, fwd |-> TRUE]
                                  ELSE [len |-> p - target, fwd |-> FALSE]
    BY DEF SeekPlan
  <2>5. p \in Nat
    BY <2>1
  <2> HIDE DEF len, target, plan, p
  <2>6. CASE ~absolute
    BY <2>3, <2>4, <2>6
  <2>7. CASE absolute /\ target > p
    BY <2>3, <2>4, <2>5, <2>7
  <2>8. CASE absolute /\ ~(target > p)
    BY <2>3, <2>4, <2>5, <2>8
  <2> QED BY <2>6, <2>7, <2>8
<1>2. Enter(c, "s", plan.len, <<>>, plan.fwd) /\ AlignClient(c)
      /\ UNCHANGED <<pages, data, psize, size, disk>>
  BY DEF Seek
<1> HIDE DEF plan
<1>3. <<>> \in Seq(Byte)
  BY EmptySeq
<1> QED BY <1>1, <1>2, <1>3, CallEnters

(* A read or an erase of an open client.                                   *)
LEMMA ReadEraseStep ==
  ASSUME IInv, NEW c \in Client, NEW n \in Lengths, Read(c, n) \/ Erase(c, n)
  PROVE  IInv'
<1>1. n \in Nat /\ <<>> \in Seq(Byte)
  BY BufferAssumption, EmptySeq
<1>2. CASE Read(c, n)
  <2>1. Enter(c, "r", n, <<>>, TRUE) /\ AlignClient(c)
        /\ UNCHANGED <<pages, data, psize, size, disk>>
    BY <1>2 DEF Read
  <2> QED BY <2>1, <1>1, CallEnters
<1>3. CASE Erase(c, n)
  <2>1. Enter(c, "d", n, <<>>, TRUE) /\ AlignClient(c)
        /\ UNCHANGED <<pages, data, psize, size, disk>>
    BY <1>3 DEF Erase
  <2> QED BY <2>1, <1>1, CallEnters
<1> QED BY <1>2, <1>3

(* A write of an open client.                                              *)
LEMMA WriteStep ==
  ASSUME IInv, NEW c \in Client, NEW buf \in Buffers, Write(c, buf)
  PROVE  IInv'
<1>1. buf \in Seq(Byte) /\ Len(buf) \in Nat /\ Len(buf) <= Len(buf)
  BY BufferAssumption, LenProperties
<1>2. Enter(c, "w", Len(buf), buf, TRUE) /\ AlignClient(c)
      /\ UNCHANGED <<pages, data, psize, size, disk>>
  BY DEF Write
<1> QED BY <1>1, <1>2, CallEnters

(* An insert of an open client, with a new tail sentinel when it is at the *)
(* end of the file.                                                        *)
LEMMA InsertStep ==
  ASSUME IInv, NEW c \in Client, NEW buf \in Buffers, Insert(c, buf)
  PROVE  IInv'
<1> DEFINE info == Aligned(lookaside[c])
<1>1. buf \in Seq(Byte) /\ Len(buf) \in Nat /\ Len(buf) <= Len(buf) /\ <<>> \in Seq(Byte)
  BY BufferAssumption, LenProperties, EmptySeq
<1>2. /\ c \in DOMAIN lookaside /\ AppendTail(info) /\ AlignClient(c)
      /\ UNCHANGED <<data, psize, size, disk>>
  BY DEF Insert
<1>3. PICK back \in BOOLEAN :
        call' = [op |-> "i", pc |-> "i", client |-> c, len |-> Len(buf), val |-> buf,
                 fwd |-> TRUE, back |-> back, out |-> <<>>]
  BY DEF Insert
<1>4. info.page \in Range(pages) /\ info.page # pages[1]
  <2>1. lookaside[c] \in ClientData /\ lookaside[c].page \in Range(pages)
    BY <1>2 DEF IInv, ClientsOK
  <2> QED BY <2>1, AlignedRange DEF IInv
<1> HIDE DEF info
<1>5. /\ ListOK' /\ StoreOK' /\ Range(pages) \subseteq Range(pages')
      /\ info.page # pages'[1] /\ info.page # Back'
  BY <1>2, <1>4, TailAppended
<1>6. ClientsOK' /\ DOMAIN lookaside' = DOMAIN lookaside /\ lookaside'[c] = info
  BY <1>2, <1>5, ClientAligned DEF info
<1>7. CallOK'
  <2>1. call' \in Calls
    <3>1. c \in Client /\ "i" \in Ops
      BY DEF Ops
    <3> QED BY <3>1, <1>1, <1>3 DEF Calls
  <2>2. /\ call'.client = c /\ call'.pc = "i" /\ call'.len = Len(buf) /\ call'.val = buf
        /\ call'.fwd = TRUE
    BY <1>3
  <2>3. Me'.page = info.page
    BY <2>2, <1>6 DEF Me
  <2>4. call'.client \in DOMAIN lookaside' /\ call'.len <= Len(call'.val)
    BY <2>2, <1>1, <1>2, <1>6
  <2>5. Me'.page # pages'[1] /\ Me'.page # Back'
    BY <2>3, <1>5
  <2> QED BY <2>1, <2>2, <2>4, <2>5 DEF CallOK
<1>8. size' \in Size /\ disk' \in Seq(Byte)
  BY <1>2 DEF IInv
<1> QED BY <1>5, <1>6, <1>7, <1>8 DEF IInv

-----------------------------------------------------------------------------
(* Opening and closing.                                                    *)

(* A client opens on the page behind the head sentinel.                    *)
LEMMA OpenStep == ASSUME IInv, NEW c \in Client, Open(c) PROVE IInv'
<1> DEFINE new == Aligned([page |-> pages[1], off |-> 0, pos |-> 0])
<1>1. UNCHANGED <<pages, data, psize, size, disk, call>> /\ call.op = "idle"
  BY DEF Open, Free
<1>2. /\ DOMAIN lookaside' = DOMAIN lookaside \cup {c}
      /\ lookaside' = [x \in DOMAIN lookaside \cup {c} |->
                         IF x = c THEN new ELSE lookaside[x]]
  BY DEF Open
<1>3. new \in ClientData /\ new.page \in Range(pages)
  <2> DEFINE start == [page |-> pages[1], off |-> 0, pos |-> 0]
  <2>1. pages[1] \in Range(pages) /\ pages[1] \in PageId
    BY Sentinels DEF IInv
  <2>2. start \in ClientData /\ start.page \in Range(pages)
    BY <2>1, BoundAssumption DEF ClientData, Size
  <2> HIDE DEF start
  <2> QED BY <2>2, AlignedRange DEF IInv, start
<1>4. ListOK' /\ StoreOK' /\ size' \in Size /\ disk' \in Seq(Byte) /\ Range(pages') = Range(pages)
  BY <1>1, SamePages
<1> HIDE DEF new
<1>5. ClientsOK'
  BY <1>2, <1>3, <1>4 DEF IInv, ClientsOK
<1>6. CallOK'
  BY <1>1 DEF IInv, CallOK
<1> QED BY <1>4, <1>5, <1>6 DEF IInv

(* A client closes.                                                        *)
LEMMA CloseStep == ASSUME IInv, NEW c \in Client, Close(c) PROVE IInv'
<1>1. UNCHANGED <<pages, data, psize, size, disk, call>> /\ call.op = "idle"
  BY DEF Close, Free
<1>2. ListOK' /\ StoreOK' /\ size' \in Size /\ disk' \in Seq(Byte) /\ Range(pages') = Range(pages)
  BY <1>1, SamePages
<1>3. ClientsOK'
  BY <1>2 DEF Close, IInv, ClientsOK
<1>4. CallOK'
  BY <1>1 DEF IInv, CallOK
<1> QED BY <1>2, <1>3, <1>4 DEF IInv

-----------------------------------------------------------------------------
(* Loading.                                                                *)

(* The pages that load makes of a file.                                    *)
LEMMA LoadedOK ==
  ASSUME NEW image \in Seq(Byte), PageCount(Len(image)) <= MaxPages
  PROVE  LET n == Len(image)
         IN /\ PageCount(n) \in Nat /\ PageCount(n) >= 3
            /\ LoadedPages(n) \in Seq(PageId) /\ Len(LoadedPages(n)) = PageCount(n)
            /\ Range(LoadedPages(n)) = 1 .. PageCount(n)
            /\ \A k \in 1 .. PageCount(n) : LoadedPages(n)[k] = k
            /\ LoadedData(image) \in [PageId -> Seq(Byte)]
            /\ LoadedSizes(n) \in [PageId -> Nat]
            /\ \A p \in PageId : LoadedSizes(n)[p] = Len(LoadedData(image)[p])
            /\ \A p \in PageId : p \notin 2 .. PageCount(n) - 1 => LoadedSizes(n)[p] = 0
<1> DEFINE n == Len(image)
           count == PageCount(n)
<1>1. n \in Nat /\ ISize \in Nat \ {0}
  BY LenProperties, ConfigAssumption
<1>2. count \in Nat /\ count >= 3 /\ count - 3 = n \div ISize
  <2>1. 0 <= n \div ISize /\ n \div ISize \in Nat
    BY <1>1, Z3
  <2> QED BY <2>1 DEF PageCount
<1>3. 1 .. count \subseteq PageId
  BY <1>2, BoundAssumption DEF PageId
<1>4. /\ LoadedPages(n) \in Seq(PageId) /\ Len(LoadedPages(n)) = count
      /\ \A k \in 1 .. count : LoadedPages(n)[k] = k
  BY <1>2, <1>3 DEF LoadedPages
<1>5. Range(LoadedPages(n)) = 1 .. count
  BY DEF LoadedPages, Range
<1>6. ASSUME NEW p \in PageId
      PROVE  /\ LoadedSize(n, p) \in Nat
             /\ p \notin 2 .. count - 1 => LoadedSize(n, p) = 0
             /\ LoadedData(image)[p] \in Seq(Byte)
             /\ Len(LoadedData(image)[p]) = LoadedSize(n, p)
  <2> DEFINE from == (p - 2) * ISize
             len  == LoadedSize(n, p)
  <2>0. p \in Nat /\ p >= 1
    BY BoundAssumption DEF PageId
  <2>1. LoadedData(image)[p] = SubSeq(image, from + 1, from + len)
    BY DEF LoadedData
  <2>2. CASE p \in 2 .. count - 1
    <3>1. p - 2 \in Nat /\ p - 2 <= n \div ISize
      BY <2>0, <2>2, <1>2
    <3>2. from \in Nat /\ from <= n
      BY <3>1, <1>1, PageStart
    <3>3. len = Least(n - from, ISize)
      BY <2>2 DEF LoadedSize
    <3> HIDE DEF from, len, count
    <3>4. len \in Nat /\ from + len <= n
      BY <3>2, <3>3, <1>1 DEF Least
    <3>5. SubSeq(image, from + 1, from + len) \in Seq(Byte)
          /\ Len(SubSeq(image, from + 1, from + len)) = len
      BY <3>2, <3>4, PieceOfSeq DEF n
    <3> QED BY <2>1, <2>2, <3>4, <3>5 DEF len
  <2>3. CASE p \notin 2 .. count - 1
    <3>1. len = 0
      BY <2>3 DEF LoadedSize
    <3>2. from \in Int
      BY <2>0, <1>1
    <3> HIDE DEF from, len, count
    <3>3. SubSeq(image, from + 1, from + len) = <<>>
      <4>1. from + 1 \in Int /\ from + len \in Int /\ from + len < from + 1
        BY <3>1, <3>2
      <4> QED BY <4>1, SubSeqEmpty
    <3>4. <<>> \in Seq(Byte) /\ Len(<<>>) = 0
      BY EmptySeq
    <3>5. LoadedSize(n, p) = 0
      BY <3>1 DEF len
    <3>6. LoadedData(image)[p] = <<>>
      BY <2>1, <3>3
    <3> QED BY <3>4, <3>5, <3>6
  <2> QED BY <2>2, <2>3
<1>7. LoadedData(image) \in [PageId -> Seq(Byte)]
  BY <1>6 DEF LoadedData
<1>8. LoadedSizes(n) \in [PageId -> Nat] /\ \A p \in PageId : LoadedSizes(n)[p] = LoadedSize(n, p)
  BY <1>6 DEF LoadedSizes
<1> QED BY <1>2, <1>4, <1>5, <1>6, <1>7, <1>8

(* What a load leaves of the list and the store.                           *)
LoadLeaves ==
  \A image \in Seq(Byte) :
    /\ PageCount(Len(image)) <= MaxPages
    /\ pages = LoadedPages(Len(image))
    /\ psize = LoadedSizes(Len(image))
    /\ data = LoadedData(image)
    => /\ ListOK /\ StoreOK /\ Range(pages) = 1 .. PageCount(Len(image))
       /\ PageCount(Len(image)) \in Nat /\ PageCount(Len(image)) >= 3
       /\ 1 .. PageCount(Len(image)) \subseteq PageId

(* A load leaves a list with its sentinels and exact page sizes.           *)
LEMMA LoadedState == LoadLeaves
<1> SUFFICES
      ASSUME NEW image \in Seq(Byte), PageCount(Len(image)) <= MaxPages,
             pages = LoadedPages(Len(image)), psize = LoadedSizes(Len(image)),
             data = LoadedData(image)
      PROVE  /\ ListOK /\ StoreOK /\ Range(pages) = 1 .. PageCount(Len(image))
             /\ PageCount(Len(image)) \in Nat /\ PageCount(Len(image)) >= 3
             /\ 1 .. PageCount(Len(image)) \subseteq PageId
  BY DEF LoadLeaves
<1> DEFINE count == PageCount(Len(image))
<1>1. /\ count \in Nat /\ count >= 3
      /\ pages \in Seq(PageId) /\ Len(pages) = count
      /\ Range(pages) = 1 .. count
      /\ \A k \in 1 .. count : pages[k] = k
      /\ data \in [PageId -> Seq(Byte)] /\ psize \in [PageId -> Nat]
      /\ \A p \in PageId : psize[p] = Len(data[p])
      /\ \A p \in PageId : p \notin 2 .. count - 1 => psize[p] = 0
  BY LoadedOK
<1> HIDE DEF count
<1>2. ListOK
  BY <1>1 DEF ListOK, Distinct
<1>3. pages[1] = 1 /\ Back = count
  BY <1>1 DEF Back
<1>4. 1 .. count \subseteq PageId
  BY <1>1, RangeOfSeq
<1>5. 1 \in PageId /\ count \in PageId /\ 1 \notin 2 .. count - 1 /\ count \notin 2 .. count - 1
  BY <1>1, <1>4
<1>6. \A p \in Unused : p \in PageId /\ p \notin 2 .. count - 1
  BY <1>1 DEF Unused
<1>7. StoreOK
  BY <1>1, <1>3, <1>5, <1>6 DEF StoreOK
<1> QED BY <1>1, <1>2, <1>4, <1>7 DEF count

(* Every client is on a page of the new list.                              *)
LEMMA PlacedRange ==
  ASSUME NEW n \in Nat, PageCount(n) \in Nat, PageCount(n) >= 3,
         1 .. PageCount(n) \subseteq PageId,
         NEW at \in [Positions -> 1 .. PageCount(n) + 1],
         NEW info \in ClientData, info.pos \in Positions
  PROVE  /\ Placed(n, at, info) \in ClientData
         /\ Placed(n, at, info).page \in 1 .. PageCount(n)
<1> DEFINE k == at[info.pos]
           count == PageCount(n)
           off == Sub(info.pos, LoadedEnd(n, k) - LoadedSize(n, k))
           last == IF n > 0 THEN count ELSE 2
<1>1. k \in 1 .. count + 1 /\ count \in Nat /\ count >= 3
  OBVIOUS
<1>2. Placed(n, at, info) = IF k <= count
                            THEN [info EXCEPT !.page = k, !.off = off]
                            ELSE [info EXCEPT !.page = last, !.off = 0]
  BY DEF Placed
<1>3. off \in Nat
  <2>1. LoadedEnd(n, k) - LoadedSize(n, k) \in Int
    <3>1. k \in Int /\ ISize \in Int
      BY <1>1, ConfigAssumption
    <3>2. (k - 1) * ISize \in Int /\ (k - 2) * ISize \in Int
      BY <3>1
    <3>3. LoadedEnd(n, k) \in Int
      BY <3>2 DEF LoadedEnd, Least
    <3>4. LoadedSize(n, k) \in Int
      BY <3>1, <3>2 DEF LoadedSize, Least
    <3> QED BY <3>3, <3>4
  <2>2. info.pos \in Int
    BY ClientFields
  <2> HIDE DEF k
  <2>3. off \in Size
    BY <2>1, <2>2, SizeTRange
  <2> QED BY <2>3, BoundAssumption DEF Size
<1> HIDE DEF k, count, off
<1>4. CASE k <= count
  <2>1. k \in 1 .. count /\ k \in PageId
    BY <1>1, <1>4 DEF count
  <2> QED BY <2>1, <1>2, <1>3, <1>4 DEF ClientData, count
<1>5. CASE ~(k <= count)
  <2>1. last \in 1 .. count /\ last \in PageId
    BY <1>1 DEF count
  <2> HIDE DEF last
  <2>2. Placed(n, at, info) = [info EXCEPT !.page = last, !.off = 0]
    BY <1>2, <1>5
  <2>3. [info EXCEPT !.page = last, !.off = 0] \in ClientData
        /\ [info EXCEPT !.page = last, !.off = 0].page = last
    BY <2>1 DEF ClientData
  <2> QED BY <2>1, <2>2, <2>3 DEF count
<1> QED BY <1>4, <1>5

(* A load, whatever the clients were doing, leaves each on a page of the   *)
(* new list.                                                               *)
LEMMA LoadStep ==
  ASSUME IInv, NEW image \in Seq(Byte), call.op = "idle", UNCHANGED call,
         Load(image), disk' \in Seq(Byte)
  PROVE  IInv'
<1> DEFINE n == Len(image)
<1>1. n \in Nat /\ n < SizeT /\ PageCount(n) <= MaxPages
  BY LenProperties DEF Load
<1>2. pages' = LoadedPages(n) /\ psize' = LoadedSizes(n) /\ data' = LoadedData(image) /\ size' = n
  BY DEF Load
<1>3. PICK at \in [Positions -> 1 .. PageCount(n) + 1] :
        lookaside' = [c \in DOMAIN lookaside |-> Placed(n, at, lookaside[c])]
  BY DEF Load
<1>4. /\ ListOK' /\ StoreOK' /\ Range(pages') = 1 .. PageCount(n)
      /\ PageCount(n) \in Nat /\ PageCount(n) >= 3 /\ 1 .. PageCount(n) \subseteq PageId
  <2>1. LoadLeaves'
    BY LoadedState, PTL
  <2> QED BY <2>1, <1>1, <1>2 DEF LoadLeaves
<1>5. ASSUME NEW c \in DOMAIN lookaside
      PROVE  /\ Placed(n, at, lookaside[c]) \in ClientData
             /\ Placed(n, at, lookaside[c]).page \in Range(pages')
  <2>1. lookaside[c] \in ClientData /\ lookaside[c].pos \in Positions
    BY DEF IInv, ClientsOK, Positions
  <2> HIDE DEF n
  <2> QED BY <2>1, <1>1, <1>4, PlacedRange
<1>6. ClientsOK'
  BY <1>3, <1>5 DEF IInv, ClientsOK
<1>7. CallOK'
  BY DEF IInv, CallOK
<1>8. size' \in Size
  BY <1>1, <1>2, BoundAssumption DEF Size
<1> QED BY <1>4, <1>6, <1>7, <1>8 DEF IInv

(* The file as its constructor leaves it.                                  *)
LEMMA InitOK == Init => IInv
<1> SUFFICES ASSUME Init PROVE IInv
  OBVIOUS
<1> DEFINE n == Len(disk)
<1>1. /\ disk \in Images /\ pages = LoadedPages(n) /\ psize = LoadedSizes(n)
      /\ data = LoadedData(disk) /\ size = n
      /\ lookaside = <<>> /\ call = Ended(FALSE)
  BY DEF Init
<1>2. disk \in Seq(Byte) /\ n < SizeT /\ n \div ISize + 3 <= MaxPages
  BY <1>1, ImageAssumption
<1>3. n \in Nat /\ PageCount(n) <= MaxPages
  BY <1>2, LenProperties DEF PageCount
<1>4. ListOK /\ StoreOK
  BY <1>1, <1>2, <1>3, LoadedState DEF LoadLeaves
<1>5. ClientsOK
  <2>1. DOMAIN lookaside = {}
    <3>1. DOMAIN <<>> = 1 .. 0
      BY EmptySeq, LenProperties
    <3> QED BY <3>1, <1>1
  <2>2. lookaside \in [DOMAIN lookaside -> ClientData]
    <3>1. <<>> \in Seq(ClientData) /\ Len(<<>>) = 0
      BY EmptySeq
    <3>2. <<>> \in [1 .. Len(<<>>) -> ClientData]
      BY <3>1, LenProperties
    <3> QED BY <3>1, <3>2, <2>1, <1>1
  <2> QED BY <2>1, <2>2 DEF ClientsOK
<1>6. CallOK
  BY <1>1 DEF CallOK, Ended
<1>7. size \in Size
  BY <1>1, <1>2, <1>3, BoundAssumption DEF Size
<1> QED BY <1>2, <1>4, <1>5, <1>6, <1>7 DEF IInv

-----------------------------------------------------------------------------
(* The invariant.                                                          *)

(* Every step of a call.                                                   *)
LEMMA CallSteps == ASSUME IInv, Step PROVE IInv'
BY InvalidStep, SeekForwardStep, SeekBackwardStep, SeekPageBackStep, ReturnStep,
   ReadChunkStep, WriteChunkStep, WriteRestStep, EraseChunkStep,
   InsertSplitStep, InsertInPageStep, InsertReturnStep
   DEF Step

(* The invariant is inductive.                                             *)
LEMMA NextStep == IInv /\ [Next]_vars => IInv'
<1> SUFFICES ASSUME IInv, [Next]_vars PROVE IInv'
  OBVIOUS
<1>1. CASE UNCHANGED vars
  BY <1>1, StutterStep
<1>2. ASSUME NEW c \in Client, Open(c) \/ Close(c) PROVE IInv'
  BY <1>2, OpenStep, CloseStep
<1>3. ASSUME NEW c \in Client, NEW n \in Lengths, NEW fwd \in BOOLEAN,
             NEW absolute \in BOOLEAN, Seek(c, n, fwd, absolute)
      PROVE  IInv'
  BY <1>3, SeekStep
<1>4. ASSUME NEW c \in Client, NEW n \in Lengths, Read(c, n) \/ Erase(c, n) PROVE IInv'
  BY <1>4, ReadEraseStep
<1>5. ASSUME NEW c \in Client, NEW buf \in Buffers, Write(c, buf) \/ Insert(c, buf)
      PROVE  IInv'
  BY <1>5, WriteStep, InsertStep
<1>6. CASE Save
  <2>1. disk \in Seq(Byte)
    BY DEF IInv
  <2>2. PICK image \in Seq(Byte) : disk' = image /\ Load(image)
    BY <1>6, <2>1 DEF Save
  <2> QED BY <1>6, <2>2, LoadStep DEF Save, Free
<1>7. CASE Step
  BY <1>7, CallSteps
<1>8. CASE Reload
  BY <1>8, LoadStep DEF Reload, Free, IInv
<1> QED BY <1>1, <1>2, <1>3, <1>4, <1>5, <1>6, <1>7, <1>8 DEF Next, Session

(* In every state the list, the bytes and the sizes of its pages, the      *)
(* places of the clients and the locals of the call fit together (IInv):   *)
(* the strengthening that the steps of s, r, w, d, i, open, close, save    *)
(* and load preserve together.                                             *)
THEOREM Invariance == Spec => []IInv
<1> QED BY InitOK, NextStep, PTL DEF Spec

(* What the invariant says of the runs' properties.                        *)
LEMMA InvariantMeans == IInv => TypeOK /\ PagesOK /\ PageSizesExact
<1> SUFFICES ASSUME IInv PROVE TypeOK /\ PagesOK /\ PageSizesExact
  OBVIOUS
<1>1. TypeOK
  BY DEF IInv, ListOK, StoreOK, ClientsOK, CallOK, TypeOK
<1>2. PagesOK
  BY DEF IInv, ListOK, StoreOK, ClientsOK, PagesOK, Distinct
<1>3. PageSizesExact
  BY Sentinels DEF IInv, StoreOK, PageSizesExact
<1> QED BY <1>1, <1>2, <1>3

(* In every state the variables have their types: no chunk is cut outside  *)
(* of a page or a buffer, no offset or length of a call goes below zero,   *)
(* whatever the clients do to each other's positions.                      *)
THEOREM TypeCorrect == Spec => []TypeOK
BY Invariance, InvariantMeans, PTL

(* No page is twice in the list, the sentinels stay empty, and no open     *)
(* client holds an iterator to a page that d erased or load cleared.       *)
THEOREM PagesCorrect == Spec => []PagesOK
BY Invariance, InvariantMeans, PTL

(* Page::size is the number of bytes of the page after every step of every *)
(* call, which the probes of s, r, w, d and i rely on.                     *)
THEOREM PageSizesCorrect == Spec => []PageSizesExact
BY Invariance, InvariantMeans, PTL
=============================================================================
