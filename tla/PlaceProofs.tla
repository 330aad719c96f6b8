------------------------------ MODULE PlaceProofs ------------------------------
(***************************************************************************)
(* The three numbers of a client's place, and File::size: DriftHasCause,   *)
(* OnlyLostSaveDrifts and FileSizeExact for every number of pages and      *)
(* bytes.                                                                  *)
(*                                                                         *)
(* A place is measured with u, where u[k] is the number of bytes on the    *)
(* first k pages (Ends of ListTheorems): a client on page k at offset off  *)
(* is at position u[k - 1] + off.  Each step is shown to change u and the  *)
(* positions alike.                                                        *)
(***************************************************************************)
EXTENDS MCGigaFile, GigaFileProofs

(* The place of a client is a place of the list, and its position is the   *)
(* number of bytes before it.                                              *)
OnPage(pg, ps, u, info) ==
  \E k \in 1 .. Len(pg) :
    /\ pg[k] = info.page /\ info.off <= ps[pg[k]]
    /\ info.pos = u[k - 1] + info.off

AllPlaced(pg, ps, u, la) == \A c \in DOMAIN la : OnPage(pg, ps, u, la[c])

(* The bytes of the file, with those a call can still add, can be counted. *)
Budget(total, cl) ==
  /\ total < SizeT
  /\ cl.op # "idle" /\ cl.pc \in {"w", "i"} => total + cl.len <= MaxSize

(* A client that inserts at the end is at the end of the last page before  *)
(* the new tail sentinel.                                                  *)
TailOK(pg, ps, la, cl) ==
  cl.op # "idle" /\ cl.pc = "i" /\ cl.back =>
    /\ la[cl.client].page = pg[Len(pg) - 1]
    /\ la[cl.client].off >= ps[la[cl.client].page]

RoomOK == Budget(Len(Contents), call) /\ TailOK(pages, psize, lookaside, call)

Sound(u) ==
  /\ IInv /\ Ends(u, pages, psize)
  /\ Budget(u[Len(pages)], call) /\ TailOK(pages, psize, lookaside, call)

Drift == InsertsBeforeTwin \/ LoadsCrowdedPage \/ LoadsShorterFile

(* What a step keeps.                                                      *)
Follows(u) ==
  \E v : /\ Ends(v, pages', psize')
         /\ Budget(v[Len(pages')], call')
         /\ TailOK(pages', psize', lookaside', call')
         /\ size = u[Len(pages)] /\ (Lone \/ AllPlaced(pages, psize, u, lookaside))
              => size' = v[Len(pages')]
         /\ AllPlaced(pages, psize, u, lookaside)
              => AllPlaced(pages', psize', v, lookaside') \/ Drift

-----------------------------------------------------------------------------
(* The sums and the definitions of MCGigaFile.                             *)

(* Start, which is written as a recursive function, is such a sum.         *)
LEMMA StartIsEnd ==
  ASSUME ListOK, StoreOK, NEW u, Ends(u, pages, psize), NEW p \in Range(pages)
  PROVE  Start(p) = u[Index(p) - 1]
<1> DEFINE n == Len(pages)
           F(g) == [k \in 0 .. n |-> IF k = 0 THEN 0 ELSE g[k - 1] + psize[pages[k]]]
           h == CHOOSE g : g = F(g)
<1>1. n \in Nat /\ u \in [0 .. n -> Nat] /\ u[0] = 0
      /\ \A k \in 1 .. n : u[k] = u[k - 1] + psize[pages[k]]
  BY LenProperties DEF ListOK, Ends
<1>2. Index(p) \in 1 .. n
  BY Neighbours
<1>3. Start(p) = h[Index(p) - 1]
  BY DEF Start
<1> HIDE DEF n
<1>4. u = F(u)
  <2>1. ASSUME NEW k \in 0 .. n PROVE u[k] = IF k = 0 THEN 0 ELSE u[k - 1] + psize[pages[k]]
    <3>1. k = 0 \/ k \in 1 .. n
      BY <1>1
    <3> QED BY <1>1, <3>1
  <2>2. u = [k \in 0 .. n |-> u[k]]
    BY <1>1
  <2> QED BY <2>1, <2>2
<1>5. h = F(h)
  <2> HIDE DEF F
  <2> QED BY <1>4
<1>6. /\ h[0] = 0 /\ \A k \in 1 .. n : h[k] = h[k - 1] + psize[pages[k]]
  <2> HIDE DEF h
  <2>1. \A k \in 0 .. n : h[k] = IF k = 0 THEN 0 ELSE h[k - 1] + psize[pages[k]]
    BY <1>5, Zenon
  <2>2. 0 \in 0 .. n /\ \A k \in 1 .. n : k \in 0 .. n /\ k # 0
    BY <1>1
  <2> QED BY <2>1, <2>2
<1> HIDE DEF h
<1>7. \A k \in 0 .. n : u[k] = h[k]
  <2> DEFINE d == [k \in 1 .. n |-> psize[pages[k]]]
  <2>1. Steps(u, d, n) /\ Steps(h, d, n)
    BY <1>1, <1>6 DEF Steps
  <2>2. u[0] = h[0]
    BY <1>1, <1>6
  <2> HIDE DEF d
  <2> QED BY <1>1, <2>1, <2>2, EndsUnique
<1> QED BY <1>1, <1>2, <1>3, <1>7

(* The length of the file's contents is the last of the sums.              *)
LEMMA ContentsLength ==
  ASSUME ListOK, StoreOK, NEW u, Ends(u, pages, psize)
  PROVE  Len(Contents) = u[Len(pages)] /\ Contents \in Seq(Byte)
<1> DEFINE n == Len(pages)
           s == [k \in 1 .. n |-> data[pages[k]]]
           T == Seq(Byte)
<1>1. n \in Nat /\ n >= 2 /\ u[0] = 0 /\ u \in [0 .. n -> Nat]
      /\ \A k \in 1 .. n : u[k] = u[k - 1] + psize[pages[k]]
  BY LenProperties DEF ListOK, Ends
<1>2. \A k \in 1 .. n : data[pages[k]] \in T /\ psize[pages[k]] = Len(data[pages[k]])
  BY ElementOfSeq DEF ListOK, StoreOK
<1>3. s \in Seq(T) /\ Len(s) = n
  <2> HIDE DEF T, n
  <2>1. s \in [1 .. n -> T]
    BY <1>2
  <2> HIDE DEF s
  <2>2. s \in Seq(T)
    BY <1>1, <2>1, SeqDef
  <2>3. DOMAIN s = 1 .. n /\ Len(s) \in Nat /\ DOMAIN s = 1 .. Len(s)
    BY <2>1, <2>2, LenProperties
  <2> QED BY <1>1, <2>2, <2>3
<1>4. \A k \in 1 .. n : s[k] = data[pages[k]]
  OBVIOUS
<1>5. Contents = FlattenSeq(s)
  BY DEF Contents
<1> HIDE DEF s, n
<1>6. PICK f \in [1 .. n -> T] : Joins(f, s, n) /\ FlattenSeq(s) = f[n]
  <2>1. \E f \in [1 .. Len(s) -> Seq(Byte)] : Joins(f, s, Len(s)) /\ FlattenSeq(s) = f[Len(s)]
    <3>1. s \in Seq(Seq(Byte)) /\ Len(s) > 0
      BY <1>1, <1>3
    <3> QED BY <3>1, FlattenJoins, Zenon
  <2> QED BY <1>3, <2>1
<1>7. \A k \in 1 .. n : Len(f[k]) = u[k]
  <2> DEFINE Wrong == {k \in 1 .. n : Len(f[k]) # u[k]}
  <2>1. SUFFICES ASSUME Wrong # {} PROVE FALSE
    OBVIOUS
  <2>2. PICK m \in Wrong : \A j \in Wrong : m <= j
    <3>1. Wrong \subseteq Nat
      OBVIOUS
    <3> HIDE DEF Wrong
    <3> QED BY <2>1, <3>1, LeastNumber
  <2>3. m \in 1 .. n /\ Len(f[m]) # u[m]
    OBVIOUS
  <2>4. f[m] = IF m = 1 THEN s[m] ELSE f[m - 1] \o s[m]
    BY <1>6, <2>3 DEF Joins
  <2>5. s[m] \in T /\ Len(s[m]) = psize[pages[m]] /\ Len(s[m]) \in Nat
    BY <1>2, <1>4, <2>3, LenProperties
  <2>6. u[m] = u[m - 1] + psize[pages[m]]
    BY <1>1, <2>3
  <2>7. CASE m = 1
    <3>1. f[m] = s[m] /\ u[m - 1] = 0
      BY <1>1, <2>4, <2>7
    <3> QED BY <2>3, <2>5, <2>6, <3>1
  <2>8. CASE m # 1
    <3>1. m - 1 \in 1 .. n /\ m - 1 < m /\ m \in Nat
      <4> HIDE DEF Wrong
      <4> QED BY <1>1, <2>3, <2>8
    <3>2. Len(f[m - 1]) = u[m - 1]
      BY <2>2, <3>1
    <3> HIDE DEF Wrong
    <3>3. f[m] = f[m - 1] \o s[m] /\ f[m - 1] \in T
      BY <1>6, <2>4, <2>8, <3>1
    <3>4. Len(f[m - 1] \o s[m]) = Len(f[m - 1]) + Len(s[m])
      BY <2>5, <3>3, ConcatProperties
    <3> QED BY <2>3, <2>5, <2>6, <3>2, <3>3, <3>4
  <2> QED BY <2>7, <2>8
<1>8. n \in 1 .. n
  BY <1>1
<1> QED BY <1>5, <1>6, <1>7, <1>8 DEF n

(* What u says of a state that the invariant holds of.                     *)
StateSums ==
  IInv => /\ \E u : Ends(u, pages, psize)
          /\ \A u : Ends(u, pages, psize) =>
               /\ Len(Contents) = u[Len(pages)]
               /\ PositionExact <=> AllPlaced(pages, psize, u, lookaside)

LEMMA SumsOfState == StateSums
<1> SUFFICES ASSUME IInv
             PROVE  /\ \E u : Ends(u, pages, psize)
                    /\ \A u : Ends(u, pages, psize) =>
                         /\ Len(Contents) = u[Len(pages)]
                         /\ PositionExact <=> AllPlaced(pages, psize, u, lookaside)
  BY DEF StateSums
<1>1. ListOK /\ StoreOK /\ pages \in Seq(PageId) /\ psize \in [PageId -> Nat]
  BY DEF IInv, ListOK, StoreOK
<1>2. \E u : Ends(u, pages, psize)
  BY <1>1, EndsExist
<1>3. ASSUME NEW u, Ends(u, pages, psize)
      PROVE  PositionExact <=> AllPlaced(pages, psize, u, lookaside)
  <2>1. ASSUME NEW c \in DOMAIN lookaside
        PROVE  Exact(c) <=> OnPage(pages, psize, u, lookaside[c])
    <3> DEFINE i == lookaside[c]
               k == Index(i.page)
    <3>1. i.page \in Range(pages)
      BY DEF IInv, ClientsOK
    <3>2. k \in 1 .. Len(pages) /\ pages[k] = i.page
      BY <1>1, <3>1, Neighbours
    <3>3. Start(i.page) = u[k - 1]
      BY <1>1, <1>3, <3>1, StartIsEnd
    <3>4. Exact(c) <=> i.off <= psize[i.page] /\ i.pos = u[k - 1] + i.off
      BY <3>3 DEF Exact, TruePos
    <3> HIDE DEF i, k
    <3>5. \A j \in 1 .. Len(pages) : pages[j] = i.page => j = k
      BY <1>1, <3>2 DEF ListOK, Distinct
    <3>6. OnPage(pages, psize, u, i) <=> i.off <= psize[i.page] /\ i.pos = u[k - 1] + i.off
      BY <3>2, <3>5 DEF OnPage
    <3> QED BY <3>4, <3>6 DEF i
  <2> QED BY <2>1 DEF PositionExact, AllPlaced
<1>4. \A u : Ends(u, pages, psize) => Len(Contents) = u[Len(pages)]
  BY <1>1, ContentsLength
<1> QED BY <1>2, <1>3, <1>4

-----------------------------------------------------------------------------
(* Facts that every step needs.                                            *)

(* Numbers that are small enough do not wrap.                              *)
LEMMA NoWrap ==
  /\ \A a, b \in Nat : a + b < SizeT => Add(a, b) = a + b
  /\ \A a, b \in Nat : a < SizeT /\ b <= a => Sub(a, b) = a - b
BY BoundAssumption DEF Add, Sub

(* Pages and their ends.                                                   *)
LEMMA Geometry ==
  ASSUME NEW u, Sound(u)
  PROVE  /\ Len(pages) \in Nat /\ Len(pages) >= 2 /\ u[0] = 0
         /\ \A j \in 0 .. Len(pages) : u[j] \in Nat /\ u[j] <= u[Len(pages)] /\ u[j] < SizeT
         /\ \A j \in 1 .. Len(pages) :
              /\ u[j] = u[j - 1] + psize[pages[j]]
              /\ pages[j] \in PageId /\ pages[j] \in Range(pages) /\ psize[pages[j]] \in Nat
         /\ \A j, k \in 0 .. Len(pages) : j <= k => u[j] <= u[k]
         /\ \A j, k \in 1 .. Len(pages) : pages[j] = pages[k] => j = k
         /\ psize[pages[1]] = 0 /\ psize[pages[Len(pages)]] = 0
<1> DEFINE n == Len(pages)
<1>1. /\ n \in Nat /\ n >= 2 /\ u[0] = 0 /\ u \in [0 .. n -> Nat] /\ SizeT \in Nat
      /\ \A j \in 1 .. n : u[j] = u[j - 1] + psize[pages[j]]
  BY LenProperties, BoundAssumption DEF Sound, IInv, ListOK, Ends
<1>2. \A j \in 1 .. n : pages[j] \in PageId /\ psize[pages[j]] \in Nat
  BY ElementOfSeq DEF Sound, IInv, ListOK, StoreOK
<1>3. \A j, k \in 0 .. n : j <= k => u[j] <= u[k]
  <2>1. Ends(u, pages, psize) /\ psize \in [PageId -> Nat] /\ pages \in Seq(PageId)
    BY DEF Sound, IInv, ListOK, StoreOK
  <2>2. ASSUME NEW j \in 0 .. n, NEW k \in 0 .. n, j <= k PROVE u[j] <= u[k]
    BY <2>1, <2>2, EndsGrow
  <2> QED BY <2>2
<1>4. \A j, k \in 1 .. n : pages[j] = pages[k] => j = k
  BY DEF Sound, IInv, ListOK, Distinct
<1>5. psize[pages[1]] = 0 /\ psize[pages[n]] = 0
  BY DEF Sound, IInv, StoreOK, Back
<1>6. \A j \in 1 .. n : pages[j] \in Range(pages)
  <2>1. pages \in Seq(PageId)
    BY DEF Sound, IInv, ListOK
  <2> QED BY <2>1, PlacesOfSeq
<1>7. u[n] < SizeT
  BY DEF Sound, Budget
<1> HIDE DEF n
<1>8. ASSUME NEW j \in 0 .. n PROVE u[j] \in Nat /\ u[j] <= u[n] /\ u[j] < SizeT
  <2>1. n \in 0 .. n /\ j <= n
    BY <1>1
  <2>2. u[j] \in Nat /\ u[n] \in Nat
    BY <1>1, <2>1
  <2>3. u[j] <= u[n]
    BY <1>3, <2>1
  <2> QED BY <1>1, <1>7, <2>2, <2>3
<1> QED BY <1>1, <1>2, <1>3, <1>4, <1>5, <1>6, <1>8 DEF n

(* The place of a client: k is the number of its page.                     *)
LEMMA PlaceOf ==
  ASSUME NEW u, Sound(u), NEW info \in ClientData, OnPage(pages, psize, u, info)
  PROVE  \E k \in 1 .. Len(pages) :
           /\ info.page = pages[k] /\ Index(info.page) = k /\ info.page \in Range(pages)
           /\ info.off \in Nat /\ info.off <= psize[pages[k]]
           /\ info.pos \in Nat /\ info.pos = u[k - 1] + info.off
           /\ info.pos <= u[k] /\ u[k - 1] <= info.pos
<1>1. PICK k \in 1 .. Len(pages) :
        /\ pages[k] = info.page /\ info.off <= psize[pages[k]]
        /\ info.pos = u[k - 1] + info.off
  BY DEF OnPage
<1>2. info.page \in Range(pages) /\ \A j, h \in 1 .. Len(pages) : pages[j] = pages[h] => j = h
  BY <1>1, Geometry
<1>3. Index(info.page) = k
  <2>1. Index(info.page) \in 1 .. Len(pages) /\ pages[Index(info.page)] = info.page
    BY <1>2, Neighbours DEF Sound, IInv
  <2> QED BY <1>1, <1>2, <2>1
<1>4. info.off \in Nat /\ info.pos \in Nat
  BY ClientFields
<1>5. u[k] = u[k - 1] + psize[pages[k]] /\ psize[pages[k]] \in Nat /\ u[k - 1] \in Nat
  <2>1. k - 1 \in 0 .. Len(pages)
    BY Geometry
  <2> QED BY <2>1, Geometry
<1>6. info.pos <= u[k] /\ u[k - 1] <= info.pos
  BY <1>1, <1>4, <1>5
<1> QED BY <1>1, <1>2, <1>3, <1>4, <1>6

(* A step that leaves the pages and the sizes alone.                       *)
LEMMA QuietStep ==
  ASSUME NEW u, Sound(u), UNCHANGED <<pages, psize, size>>,
         Budget(u[Len(pages)], call'), TailOK(pages, psize, lookaside', call'),
         AllPlaced(pages, psize, u, lookaside) => AllPlaced(pages, psize, u, lookaside')
  PROVE  Follows(u)
BY DEF Follows, Sound

LEMMA IsPlace ==
  ASSUME NEW pg, NEW ps, NEW u, NEW info, NEW k \in 1 .. Len(pg),
         info.page = pg[k], info.off <= ps[pg[k]], info.pos = u[k - 1] + info.off
  PROVE  OnPage(pg, ps, u, info)
BY DEF OnPage

(* One client moves along with u.                                          *)
LEMMA OnePlaced ==
  ASSUME NEW u, NEW c \in DOMAIN lookaside, NEW info,
         lookaside' = [lookaside EXCEPT ![c] = info],
         AllPlaced(pages, psize, u, lookaside), OnPage(pages, psize, u, info)
  PROVE  AllPlaced(pages, psize, u, lookaside')
BY DEF AllPlaced

(* The same with the call that is left: ended, not a write or insert, or   *)
(* with no more to write than there was room for.                          *)
LEMMA QuietCall ==
  ASSUME NEW u, Sound(u), UNCHANGED <<pages, psize, size>>,
         \/ \E threw \in BOOLEAN : call' = Ended(threw)
         \/ call'.pc \notin {"w", "i"}
         \/ call'.pc = "w" /\ u[Len(pages)] + call'.len <= MaxSize,
         AllPlaced(pages, psize, u, lookaside) => AllPlaced(pages, psize, u, lookaside')
  PROVE  Follows(u)
<1>1. u[Len(pages)] < SizeT
  BY DEF Sound, Budget
<1>2. CASE \E threw \in BOOLEAN : call' = Ended(threw)
  <2>1. call'.op = "idle"
    BY <1>2 DEF Ended
  <2>2. Budget(u[Len(pages)], call') /\ TailOK(pages, psize, lookaside', call')
    BY <1>1, <2>1 DEF Budget, TailOK
  <2> QED BY <2>2, QuietStep
<1>3. CASE call'.pc \notin {"w", "i"}
  <2>1. Budget(u[Len(pages)], call') /\ TailOK(pages, psize, lookaside', call')
    BY <1>1, <1>3 DEF Budget, TailOK
  <2> QED BY <2>1, QuietStep
<1>4. CASE call'.pc = "w" /\ u[Len(pages)] + call'.len <= MaxSize
  <2>1. Budget(u[Len(pages)], call') /\ TailOK(pages, psize, lookaside', call')
    BY <1>1, <1>4 DEF Budget, TailOK
  <2> QED BY <2>1, QuietStep
<1> QED BY <1>2, <1>3, <1>4

-----------------------------------------------------------------------------
(* Steps that change no size.                                              *)

LEMMA InvalidFollows ==
  ASSUME NEW u, Sound(u), Invalid PROVE Follows(u)
<1>1. UNCHANGED <<pages, psize, size, lookaside>> /\ call' = Ended(TRUE)
  BY DEF Invalid
<1> QED BY <1>1, QuietCall

LEMMA ReturnFollows ==
  ASSUME NEW u, Sound(u), SeekReturn \/ ReadReturn \/ EraseReturn PROVE Follows(u)
<1>1. UNCHANGED <<pages, psize, size, lookaside>> /\ call' = Ended(FALSE)
  BY DEF SeekReturn, ReadReturn, EraseReturn, Leave
<1> QED BY <1>1, QuietCall

(* Advanced: past n bytes of a page, or to the beginning of the next.      *)
LEMMA AdvancedPlace ==
  ASSUME NEW u, Sound(u), NEW info \in ClientData, OnPage(pages, psize, u, info),
         info.page # Back, NEW n \in Nat, info.off + n <= psize[info.page]
  PROVE  OnPage(pages, psize, u, Advanced(info, n))
<1>1. PICK k \in 1 .. Len(pages) :
           /\ info.page = pages[k] /\ Index(info.page) = k /\ info.page \in Range(pages)
           /\ info.off \in Nat /\ info.off <= psize[pages[k]]
           /\ info.pos \in Nat /\ info.pos = u[k - 1] + info.off
  BY PlaceOf
<1>2. /\ k \in Nat /\ k >= 1 /\ k < Len(pages) /\ k \in 0 .. Len(pages) /\ k - 1 \in 0 .. Len(pages)
      /\ k + 1 \in 1 .. Len(pages) /\ Len(pages) \in Nat
  <2>1. k # Len(pages)
    BY <1>1 DEF Back
  <2> QED BY <1>1, <2>1, Geometry
<1>3. PICK a, o, m : a = u[k - 1] /\ o = info.off /\ m = psize[pages[k]]
  OBVIOUS
<1>4. /\ a \in Nat /\ o \in Nat /\ m \in Nat /\ o + n <= m
      /\ u[k] = a + m /\ a + m < SizeT /\ info.pos = a + o
      /\ psize[info.page] = m /\ psize[pages[k + 1]] \in Nat
  <2>1. psize[info.page] = m /\ o + n <= m /\ info.pos = a + o /\ o \in Nat
    BY <1>1, <1>3
  <2>2. a \in Nat /\ m \in Nat /\ u[k] = a + m /\ u[k] < SizeT /\ psize[pages[k + 1]] \in Nat
    BY <1>2, <1>3, Geometry
  <2> QED BY <2>1, <2>2
<1>5. Add(info.pos, n) = a + o + n
  <2>1. a + o \in Nat /\ a + o + n < SizeT
    BY <1>4, BoundAssumption
  <2>2. Add(a + o, n) = a + o + n
    BY <2>1, NoWrap
  <2> QED BY <1>4, <2>2
<1>6. CASE o + n < m
  <2>1. Advanced(info, n) = [info EXCEPT !.pos = Add(info.pos, n), !.off = info.off + n]
    BY <1>3, <1>4, <1>6 DEF Advanced
  <2>2. /\ Advanced(info, n).page = pages[k] /\ Advanced(info, n).off = o + n
        /\ Advanced(info, n).pos = a + o + n
    BY <1>1, <1>3, <1>5, <2>1 DEF ClientData
  <2>3. Advanced(info, n).pos = u[k - 1] + Advanced(info, n).off
    <3>1. a + o + n = a + (o + n)
      BY <1>4
    <3> QED BY <1>3, <2>2, <3>1
  <2>4. Advanced(info, n).off <= psize[pages[k]]
    BY <1>3, <1>4, <2>2
  <2> QED BY <2>2, <2>3, <2>4 DEF OnPage
<1>7. CASE ~(o + n < m)
  <2>1. a + o + n = u[k]
    <3>1. \A x, y, z \in Nat : x + n <= y /\ ~(x + n < y) => z + x + n = z + y
      OBVIOUS
    <3>2. a + o + n = a + m
      BY <1>4, <1>7, <3>1
    <3> QED BY <1>4, <3>2
  <2>2. Succ(info.page) = pages[k + 1]
    BY <1>1, <1>2 DEF Succ
  <2>3. Advanced(info, n) = [info EXCEPT !.pos = Add(info.pos, n), !.off = 0, !.page = pages[k + 1]]
    BY <1>3, <1>4, <1>7, <2>2 DEF Advanced
  <2>4. /\ Advanced(info, n).page = pages[k + 1] /\ Advanced(info, n).off = 0
        /\ Advanced(info, n).pos = u[k]
    BY <1>5, <2>1, <2>3 DEF ClientData
  <2>5. PICK j \in 1 .. Len(pages) : j = k + 1 /\ j - 1 = k
    BY <1>2
  <2>6. u[k] = u[k] + 0
    BY <1>4
  <2>7. Advanced(info, n).pos = u[j - 1] + Advanced(info, n).off
    BY <2>4, <2>5, <2>6
  <2>8. Advanced(info, n).off <= psize[pages[j]]
    BY <1>4, <2>4, <2>5
  <2> QED BY <2>4, <2>5, <2>7, <2>8 DEF OnPage
<1> QED BY <1>6, <1>7

LEMMA AdvanceKeepsPlaces ==
  ASSUME NEW u, Sound(u), Valid, call.fwd, Me.page # Back, Advance(Chunk),
         AllPlaced(pages, psize, u, lookaside)
  PROVE  AllPlaced(pages, psize, u, lookaside')
<1>1. /\ IInv /\ call.op # "idle" /\ Chunk \in Nat /\ Me.off + Chunk <= psize[Me.page]
  BY ValidChunk DEF Sound
<1>2. call.client \in DOMAIN lookaside /\ Me \in ClientData /\ Me = lookaside[call.client]
  BY <1>1, InCall DEF Me
<1>3. OnPage(pages, psize, u, Me)
  BY <1>2 DEF AllPlaced
<1>4. OnPage(pages, psize, u, Advanced(Me, Chunk))
  BY <1>1, <1>2, <1>3, AdvancedPlace
<1>5. lookaside' = [lookaside EXCEPT ![call.client] = Advanced(Me, Chunk)]
  BY <1>2 DEF Advance
<1> QED BY <1>2, <1>4, <1>5, OnePlaced

LEMMA ForwardFollows ==
  ASSUME NEW u, Sound(u), SeekForward \/ ReadChunk \/ WriteChunk PROVE Follows(u)
<1>1. UNCHANGED <<pages, psize, size>> /\ Valid /\ Advance(Chunk)
  BY DEF SeekForward, ReadChunk, WriteChunk
<1>2. /\ IInv /\ call.op # "idle" /\ Chunk \in Nat /\ Chunk <= call.len
      /\ call \in Calls /\ call.len \in Nat
  BY <1>1, ValidChunk, InCall DEF Sound
<1>3. call.fwd /\ Me.page # Back
  <2>1. SeekForward => call.fwd
    BY Zenon DEF SeekForward
  <2>2. ReadChunk \/ WriteChunk => call.fwd
    <3>1. ReadChunk \/ WriteChunk => call.pc = "r" \/ call.pc = "w"
      BY Zenon DEF ReadChunk, WriteChunk, In
    <3>2. call.pc # "s" => call.fwd
      BY <1>2, Zenon DEF IInv, CallOK
    <3>3. "r" # "s" /\ "w" # "s"
      OBVIOUS
    <3> QED BY <3>1, <3>2, <3>3, Zenon
  <2>3. call.fwd
    BY <2>1, <2>2
  <2>4. Me.page # Back
    BY <1>1, <2>3 DEF SeekForward, ReadChunk, WriteChunk, In, Valid, Probes
  <2> QED BY <2>3, <2>4
<1>4. /\ call'.pc = call.pc /\ call'.len = call.len - Chunk
      /\ call.pc \in {"s", "r", "w"}
  BY <1>2 DEF SeekForward, ReadChunk, WriteChunk, In, Calls
<1>5. call.pc = "w" => u[Len(pages)] + call'.len <= MaxSize
  <2>1. call.pc = "w" => u[Len(pages)] + call.len <= MaxSize
    BY <1>2 DEF Sound, Budget
  <2>2. u[Len(pages)] \in Nat
    <3>1. Len(pages) \in 0 .. Len(pages)
      BY Geometry
    <3> QED BY <3>1, Geometry
  <2>3. call'.len \in Int /\ call'.len <= call.len
    BY <1>2, <1>4
  <2> QED BY <1>2, <2>1, <2>2, <2>3, BoundAssumption
<1>6. AllPlaced(pages, psize, u, lookaside) => AllPlaced(pages, psize, u, lookaside')
  BY <1>1, <1>3, AdvanceKeepsPlaces
<1> QED BY <1>1, <1>4, <1>5, <1>6, QuietCall

(* At the beginning of a page a seek goes to the end of the page before.   *)
LEMMA SeekBackFollows ==
  ASSUME NEW u, Sound(u), SeekBackward \/ SeekPageBack PROVE Follows(u)
<1>1. UNCHANGED <<pages, psize, size>> /\ Valid /\ ~call.fwd /\ call.op # "idle" /\ call.pc = "s"
  BY DEF SeekBackward, SeekPageBack, In
<1>2. /\ IInv /\ Chunk \in Nat /\ Chunk <= call.len /\ Chunk <= Me.off
      /\ call \in Calls /\ call.len \in Nat /\ call.len > 0 /\ Me \in ClientData
      /\ call.client \in DOMAIN lookaside /\ Me = lookaside[call.client]
      /\ Me.page # pages[1]
  <2>1. IInv /\ call.op # "idle"
    BY <1>1 DEF Sound
  <2>2. Me.page # pages[1]
    BY <1>1 DEF Valid, Probes, In
  <2> QED BY <1>1, <2>1, <2>2, ValidChunk, InCall DEF Me
<1>3. call'.pc \notin {"w", "i"} \/ \E threw \in BOOLEAN : call' = Ended(threw)
  <2>1. SeekBackward => call'.pc = "s"
    BY <1>1, <1>2 DEF SeekBackward, Calls
  <2>2. SeekPageBack => call' = Ended(FALSE) \/ call' = call
    BY DEF SeekPageBack, Leave
  <2> QED BY <1>1, <2>1, <2>2
<1>4. ASSUME AllPlaced(pages, psize, u, lookaside)
      PROVE  AllPlaced(pages, psize, u, lookaside')
  <2>1. OnPage(pages, psize, u, Me)
    BY <1>2, <1>4 DEF AllPlaced
  <2>2. PICK k \in 1 .. Len(pages) :
           /\ Me.page = pages[k] /\ Index(Me.page) = k
           /\ Me.off \in Nat /\ Me.off <= psize[pages[k]]
           /\ Me.pos \in Nat /\ Me.pos = u[k - 1] + Me.off
    BY <1>2, <2>1, PlaceOf
  <2>3. PICK a, o, m : a = u[k - 1] /\ o = Me.off /\ m = psize[pages[k]]
    OBVIOUS
  <2>4. k \in Nat /\ k >= 2 /\ k - 1 \in 1 .. Len(pages) /\ k - 1 \in 0 .. Len(pages)
    <3>1. k # 1
      BY <1>2, <2>2
    <3>2. Len(pages) \in Nat
      BY Geometry
    <3> QED BY <3>1, <3>2
  <2>5. a \in Nat /\ a < SizeT /\ o \in Nat /\ m \in Nat /\ o <= m /\ Me.pos = a + o
        /\ Me.pos < SizeT /\ Chunk <= o
    <3>1. Me.pos \in Size
      BY <1>2, ClientFields
    <3>2. Me.pos < SizeT
      BY <3>1, BoundAssumption DEF Size
    <3>3. u[k - 1] \in Nat /\ u[k - 1] < SizeT /\ psize[pages[k]] \in Nat
      BY <2>2, <2>4, Geometry
    <3> QED BY <1>2, <2>2, <2>3, <3>2, <3>3
  <2>6. CASE SeekBackward
    <3> DEFINE info == [Me EXCEPT !.pos = Sub(Me.pos, Chunk), !.off = Me.off - Chunk]
    <3>1. lookaside' = [lookaside EXCEPT ![call.client] = info]
      <4>1. lookaside' = [lookaside EXCEPT ![call.client].pos = Sub(@, Chunk),
                                           ![call.client].off = @ - Chunk]
        BY <2>6 DEF SeekBackward
      <4> QED BY <1>2, <4>1 DEF IInv, ClientsOK, ClientData
    <3>2. Sub(Me.pos, Chunk) = a + o - Chunk
      BY <1>2, <2>2, <2>5, NoWrap
    <3>3. info.page = pages[k] /\ info.off = o - Chunk /\ info.pos = a + o - Chunk
      BY <1>2, <2>2, <2>3, <3>2 DEF ClientData
    <3> HIDE DEF info
    <3>4. info.off <= psize[pages[k]]
      BY <1>2, <2>3, <2>5, <3>3
    <3>5. info.pos = u[k - 1] + info.off
      <4>1. a + o - Chunk = a + (o - Chunk)
        BY <1>2, <2>5
      <4> QED BY <2>3, <3>3, <4>1
    <3>6. OnPage(pages, psize, u, info)
      BY <3>3, <3>4, <3>5, IsPlace
    <3> QED BY <1>2, <1>4, <3>1, <3>6, OnePlaced
  <2>7. CASE SeekPageBack
    <3> DEFINE info == [Me EXCEPT !.page = Pred(Me.page), !.off = psize[Pred(Me.page)]]
    <3>1. lookaside' = [lookaside EXCEPT ![call.client] = info]
      <4>1. lookaside' = [lookaside EXCEPT ![call.client].page = Pred(Me.page),
                                           ![call.client].off = psize[Pred(Me.page)]]
        BY <2>7 DEF SeekPageBack
      <4> QED BY <1>2, <4>1 DEF IInv, ClientsOK, ClientData
    <3>2. o = 0
      <4>1. Chunk = 0
        BY <2>7 DEF SeekPageBack
      <4>2. Chunk = Least(Me.off, call.len)
        BY <1>1 DEF Chunk, Probe
      <4> QED BY <1>2, <2>3, <2>5, <4>1, <4>2 DEF Least
    <3>3. Pred(Me.page) = pages[k - 1]
      BY <2>2 DEF Pred
    <3>4. info.page = pages[k - 1] /\ info.off = psize[pages[k - 1]] /\ info.pos = Me.pos
      BY <1>2, <3>3 DEF ClientData
    <3> HIDE DEF info
    <3>5. PICK j \in 1 .. Len(pages) : j = k - 1
      BY <2>4
    <3>6. u[j] = u[j - 1] + psize[pages[j]] /\ psize[pages[j]] \in Nat
      BY Geometry
    <3>7. info.pos = u[j - 1] + info.off
      <4>1. a + o = a
        BY <2>5, <3>2
      <4>2. info.pos = u[j]
        BY <2>3, <2>5, <3>4, <3>5, <4>1
      <4>3. info.off = psize[pages[j]]
        BY <3>4, <3>5
      <4> QED BY <3>6, <4>2, <4>3
    <3>8. OnPage(pages, psize, u, info)
      <4>1. info.page = pages[j] /\ info.off = psize[pages[j]]
        BY <3>4, <3>5
      <4>2. info.off <= psize[pages[j]]
        BY <3>6, <4>1
      <4> QED BY <3>7, <4>1, <4>2, IsPlace
    <3> QED BY <1>2, <1>4, <3>1, <3>8, OnePlaced
  <2> QED BY <2>6, <2>7
<1> QED BY <1>1, <1>3, <1>4, QuietCall

-----------------------------------------------------------------------------
(* Steps between calls that leave the list alone.                          *)

(* align leaves a place where it is.                                       *)
LEMMA AlignedPlace ==
  ASSUME NEW u, Sound(u), NEW info \in ClientData, OnPage(pages, psize, u, info)
  PROVE  OnPage(pages, psize, u, Aligned(info))
<1>1. PICK k \in 1 .. Len(pages) :
           /\ info.page = pages[k] /\ Index(info.page) = k /\ info.page \in Range(pages)
           /\ info.off \in Nat /\ info.off <= psize[pages[k]]
           /\ info.pos = u[k - 1] + info.off
  BY PlaceOf
<1>2. CASE info.page = pages[1]
  <2>1. k = 1 /\ info.off = 0 /\ info.pos = 0
    <3>1. 1 \in 1 .. Len(pages)
      BY Geometry
    <3>2. k = 1
      BY <1>1, <1>2, <3>1, Geometry
    <3>3. psize[pages[1]] = 0 /\ u[0] = 0 /\ 1 - 1 = 0
      BY Geometry
    <3>4. info.off = 0 /\ info.pos = u[0] + info.off
      BY <1>1, <3>2, <3>3
    <3> QED BY <3>2, <3>3, <3>4
  <2>2. Succ(info.page) = pages[2] /\ 2 \in 1 .. Len(pages) /\ 1 \in 1 .. Len(pages)
    <3>1. Len(pages) \in Nat /\ Len(pages) >= 2
      BY Geometry
    <3>2. Index(info.page) = 1
      BY <1>1, <2>1
    <3> QED BY <3>1, <3>2 DEF Succ
  <2>3. Aligned(info) = [info EXCEPT !.page = pages[2], !.off = 0]
    <3>1. info.page # End
      <4>1. pages[1] \in PageId
        BY <2>2, Geometry
      <4> QED BY <1>2, <4>1 DEF PageId, End
    <3> QED BY <1>2, <2>2, <3>1 DEF Aligned
  <2>4. Aligned(info).page = pages[2] /\ Aligned(info).off = 0 /\ Aligned(info).pos = 0
    BY <2>1, <2>3 DEF ClientData
  <2>5. u[1] = 0 /\ psize[pages[2]] \in Nat
    BY <2>2, Geometry
  <2>6. PICK j \in 1 .. Len(pages) : j = 2 /\ j - 1 = 1
    BY <2>2
  <2>7. Aligned(info).pos = u[j - 1] + Aligned(info).off
    BY <2>4, <2>5, <2>6
  <2> QED BY <2>4, <2>5, <2>6, <2>7 DEF OnPage
<1>3. CASE info.page # pages[1]
  <2>1. info.page # End
    <3>1. info.page \in PageId
      BY <1>1, Geometry
    <3> QED BY <3>1 DEF PageId, End
  <2>2. Aligned(info) = info
    BY <1>3, <2>1 DEF Aligned
  <2> QED BY <2>2
<1> QED BY <1>2, <1>3

LEMMA AlignKeepsPlaces ==
  ASSUME NEW u, Sound(u), NEW c \in DOMAIN lookaside, AlignClient(c),
         AllPlaced(pages, psize, u, lookaside)
  PROVE  AllPlaced(pages, psize, u, lookaside')
<1>1. lookaside[c] \in ClientData /\ OnPage(pages, psize, u, lookaside[c])
  BY DEF Sound, IInv, ClientsOK, AllPlaced
<1>2. OnPage(pages, psize, u, Aligned(lookaside[c]))
  BY <1>1, AlignedPlace
<1>3. lookaside' = [lookaside EXCEPT ![c] = Aligned(lookaside[c])]
  BY DEF AlignClient
<1> QED BY <1>2, <1>3, OnePlaced

(* What a write that fits leaves room for.                                 *)
LEMMA FitsBudget ==
  ASSUME NEW u, Sound(u), NEW n \in Nat, Fits(n)
  PROVE  u[Len(pages)] + n <= MaxSize
<1>1. Len(Contents) = u[Len(pages)]
  BY SumsOfState DEF StateSums, Sound
<1> QED BY <1>1 DEF Fits

LEMMA EnterFollows ==
  ASSUME NEW u, Sound(u), NEW c \in DOMAIN lookaside, NEW op \in {"s", "r", "w", "d"},
         NEW len \in Nat, NEW val, NEW fwd,
         Enter(c, op, len, val, fwd), AlignClient(c), UNCHANGED <<pages, psize, size>>,
         op = "w" => u[Len(pages)] + len <= MaxSize
  PROVE  Follows(u)
<1>1. call'.pc = op /\ call'.len = len
  BY DEF Enter
<1> QED BY <1>1, AlignKeepsPlaces, QuietCall

LEMMA CallFollows ==
  ASSUME NEW u, Sound(u), NEW c \in Client, NEW n \in Nat, NEW buf \in Seq(Byte),
         NEW fwd \in BOOLEAN, NEW absolute \in BOOLEAN,
         Seek(c, n, fwd, absolute) \/ Read(c, n) \/ Erase(c, n) \/ Write(c, buf)
  PROVE  Follows(u)
<1>1. n \in Nat /\ buf \in Seq(Byte) /\ Len(buf) \in Nat
  BY LenProperties
<1>2. CASE Seek(c, n, fwd, absolute)
  <2> DEFINE plan == SeekPlan(lookaside[c].pos, n, fwd, absolute)
  <2>1. /\ c \in DOMAIN lookaside /\ Enter(c, "s", plan.len, <<>>, plan.fwd)
        /\ AlignClient(c) /\ UNCHANGED <<pages, psize, size>>
    BY <1>2 DEF Seek
  <2>2. plan.len \in Nat
    <3>1. lookaside[c].pos \in Nat /\ size \in Nat
      <4>1. lookaside[c] \in ClientData /\ size \in Size
        BY <2>1 DEF Sound, IInv, ClientsOK
      <4> QED BY <4>1, ClientFields, BoundAssumption DEF Size
    <3> QED BY <1>1, <3>1 DEF SeekPlan
  <2> HIDE DEF plan
  <2> QED BY <2>1, <2>2, EnterFollows
<1>3. CASE Read(c, n)
  <2>1. /\ c \in DOMAIN lookaside /\ Enter(c, "r", n, <<>>, TRUE)
        /\ AlignClient(c) /\ UNCHANGED <<pages, psize, size>>
    BY <1>3 DEF Read, Enter
  <2> QED BY <1>1, <2>1, EnterFollows
<1>4. CASE Erase(c, n)
  <2>1. /\ c \in DOMAIN lookaside /\ Enter(c, "d", n, <<>>, TRUE)
        /\ AlignClient(c) /\ UNCHANGED <<pages, psize, size>>
    BY <1>4 DEF Erase, Enter
  <2> QED BY <1>1, <2>1, EnterFollows
<1>5. CASE Write(c, buf)
  <2>1. /\ c \in DOMAIN lookaside /\ Enter(c, "w", Len(buf), buf, TRUE)
        /\ AlignClient(c) /\ UNCHANGED <<pages, psize, size>> /\ Fits(Len(buf))
    BY <1>5 DEF Write, Enter
  <2>2. u[Len(pages)] + Len(buf) <= MaxSize
    BY <1>1, <2>1, FitsBudget
  <2> QED BY <1>1, <2>1, <2>2, EnterFollows
<1> QED BY <1>2, <1>3, <1>4, <1>5

LEMMA OpenCloseFollows ==
  ASSUME NEW u, Sound(u), NEW c \in Client, Open(c) \/ Close(c) PROVE Follows(u)
<1>1. UNCHANGED <<pages, psize, size, call>> /\ call.op = "idle"
  BY DEF Open, Close, Free
<1>2. Budget(u[Len(pages)], call') /\ TailOK(pages, psize, lookaside', call')
  BY <1>1 DEF Budget, TailOK, Sound
<1>3. ASSUME AllPlaced(pages, psize, u, lookaside)
      PROVE  AllPlaced(pages, psize, u, lookaside')
  <2>1. CASE Close(c)
    <3>1. /\ DOMAIN lookaside' \subseteq DOMAIN lookaside
          /\ \A x \in DOMAIN lookaside' : lookaside'[x] = lookaside[x]
      BY <2>1 DEF Close
    <3> QED BY <1>3, <3>1 DEF AllPlaced
  <2>2. CASE Open(c)
    <3> DEFINE info == [page |-> pages[1], off |-> 0, pos |-> 0]
    <3>1. 1 \in 1 .. Len(pages) /\ u[1 - 1] = 0 /\ psize[pages[1]] = 0 /\ pages[1] \in PageId
      BY Geometry
    <3>2. info \in ClientData
      BY <3>1, BoundAssumption DEF ClientData, Size
    <3>3. OnPage(pages, psize, u, info)
      <4>1. info.page = pages[1] /\ info.off = 0 /\ info.pos = 0
        OBVIOUS
      <4> HIDE DEF info
      <4>2. info.pos = u[1 - 1] + info.off
        BY <3>1, <4>1
      <4>3. info.off <= psize[pages[1]]
        BY <3>1, <4>1
      <4> QED BY <3>1, <4>1, <4>2, <4>3, IsPlace
    <3> HIDE DEF info
    <3>4. OnPage(pages, psize, u, Aligned(info))
      BY <3>2, <3>3, AlignedPlace
    <3>5. lookaside' = [x \in DOMAIN lookaside \cup {c} |->
                          IF x = c THEN Aligned(info) ELSE lookaside[x]]
      BY <2>2 DEF Open, info
    <3>6. ASSUME NEW x \in DOMAIN lookaside' PROVE OnPage(pages, psize, u, lookaside'[x])
      <4>1. x = c \/ x \in DOMAIN lookaside
        BY <3>5
      <4>2. CASE x = c
        BY <3>4, <3>5, <4>2
      <4>3. CASE x # c
        <5>1. lookaside'[x] = lookaside[x] /\ x \in DOMAIN lookaside
          BY <3>5, <4>1, <4>3
        <5> QED BY <1>3, <5>1 DEF AllPlaced
      <4> QED BY <4>2, <4>3
    <3> QED BY <3>6 DEF AllPlaced
  <2> QED BY <2>1, <2>2
<1> QED BY <1>1, <1>2, <1>3, QuietStep

-----------------------------------------------------------------------------
(* Steps that begin and end an insertion.                                  *)

(* A new tail sentinel is behind all places.                               *)
LEMMA AppendKeepsPlaces ==
  ASSUME NEW u, Sound(u), NEW q \in PageId, NEW la, AllPlaced(pages, psize, u, la)
  PROVE  AllPlaced(Append(pages, q), psize, Lengthened(u, pages), la)
<1> DEFINE n == Len(pages)
           r == Append(pages, q)
           v == Lengthened(u, pages)
<1>1. pages \in Seq(PageId) /\ n \in Nat
  BY LenProperties DEF Sound, IInv, ListOK
<1>2. Len(r) = n + 1 /\ \A k \in 1 .. n : r[k] = pages[k]
  BY <1>1, AppendProperties
<1>3. \A j \in 0 .. n : v[j] = u[j]
  BY <1>1 DEF Lengthened
<1> HIDE DEF r, v, n
<1>4. ASSUME NEW c \in DOMAIN la PROVE OnPage(r, psize, v, la[c])
  <2>1. PICK k \in 1 .. n : /\ pages[k] = la[c].page /\ la[c].off <= psize[pages[k]]
                            /\ la[c].pos = u[k - 1] + la[c].off
    BY DEF AllPlaced, OnPage, n
  <2>2. k \in 1 .. Len(r) /\ k - 1 \in 0 .. n
    BY <1>1, <1>2
  <2>3. r[k] = pages[k] /\ v[k - 1] = u[k - 1]
    BY <1>2, <1>3, <2>2
  <2> QED BY <2>1, <2>2, <2>3 DEF OnPage
<1> QED BY <1>4 DEF AllPlaced, r, v

(* i and w: the client is aligned, and a client on the tail sentinel gets  *)
(* a new sentinel behind it.                                               *)
LEMMA AppendFollows ==
  ASSUME NEW u, Sound(u), NEW c \in DOMAIN lookaside,
         AppendTail(Aligned(lookaside[c])), AlignClient(c), UNCHANGED <<psize, size>>,
         call'.pc = "i", call'.client = c,
         call'.back = (Aligned(lookaside[c]).page = Back),
         u[Len(pages)] + call'.len <= MaxSize
  PROVE  Follows(u)
<1> DEFINE info == Aligned(lookaside[c])
           n == Len(pages)
<1>1. n \in Nat /\ n >= 2 /\ u[n] < SizeT /\ psize[Back] = 0 /\ Back = pages[n]
  <2>1. u[n] < SizeT
    BY DEF Sound, Budget
  <2> QED BY <2>1, Geometry DEF Back
<1>2. info \in ClientData /\ info.off \in Nat /\ info.page \in Range(pages)
  <2>1. ListOK /\ StoreOK /\ lookaside[c] \in ClientData /\ lookaside[c].page \in Range(pages)
    BY DEF Sound, IInv, ClientsOK
  <2>2. info \in ClientData /\ info.page \in Range(pages)
    BY <2>1, AlignedRange
  <2> QED BY <2>2, ClientFields
<1>3. lookaside'[c] = info
  BY DEF AlignClient
<1>4. AllPlaced(pages, psize, u, lookaside) => AllPlaced(pages, psize, u, lookaside')
  BY AlignKeepsPlaces
<1>5. Budget(u[n], call')
  BY <1>1 DEF Budget
<1> HIDE DEF info
<1>6. CASE info.page # Back
  <2>1. UNCHANGED pages
    BY <1>6 DEF AppendTail, info
  <2>2. TailOK(pages, psize, lookaside', call')
    BY <1>6 DEF TailOK, info
  <2> QED BY <1>4, <1>5, <2>1, <2>2, QuietStep
<1>7. CASE info.page = Back
  <2>1. PICK q : pages' = Append(pages, q) /\ q \in PageId /\ psize[q] = 0
    <3>1. Unused # {} /\ pages' = Append(pages, NewPage)
      BY <1>7 DEF AppendTail, info
    <3>2. NewPage \in Unused
      BY <3>1 DEF NewPage
    <3>3. NewPage \in PageId /\ psize[NewPage] = 0
      BY <3>2 DEF Unused, Sound, IInv, StoreOK
    <3> QED BY <3>1, <3>3
  <2>2. pages \in Seq(PageId) /\ psize \in [PageId -> Nat] /\ Ends(u, pages, psize)
    BY DEF Sound, IInv, ListOK, StoreOK
  <2> DEFINE v == Lengthened(u, pages)
  <2>3. Ends(v, pages', psize) /\ v[n + 1] = u[n]
    BY <2>1, <2>2, EndsLengthened
  <2>4. Len(pages') = n + 1 /\ pages'[n] = pages[n]
    <3>1. Len(Append(pages, q)) = Len(pages) + 1
          /\ \A i \in 1 .. Len(pages) : Append(pages, q)[i] = pages[i]
      BY <2>1, <2>2, AppendProperties
    <3>2. n \in 1 .. Len(pages)
      BY <1>1
    <3> QED BY <2>1, <3>1, <3>2
  <2>5. AllPlaced(pages, psize, u, lookaside) => AllPlaced(pages', psize, v, lookaside')
    BY <1>4, <2>1, AppendKeepsPlaces
  <2> HIDE DEF v
  <2>6. TailOK(pages', psize, lookaside', call')
    <3>1. n + 1 - 1 = n
      BY <1>1
    <3>2. info.page = pages'[Len(pages') - 1]
      BY <1>1, <1>7, <2>4, <3>1
    <3>3. info.off >= psize[info.page]
      BY <1>1, <1>2, <1>7
    <3>4. lookaside'[call'.client] = info
      BY <1>3
    <3> QED BY <3>2, <3>3, <3>4 DEF TailOK
  <2>7. Budget(v[Len(pages')], call')
    BY <1>5, <2>3, <2>4
  <2>8. size = u[n] => size' = v[Len(pages')]
    BY <2>3, <2>4
  <2>9. Ends(v, pages', psize')
    BY <2>3
  <2> QED BY <2>5, <2>6, <2>7, <2>8, <2>9 DEF Follows
<1> QED BY <1>6, <1>7

LEMMA InsertFollows ==
  ASSUME NEW u, Sound(u), NEW c \in Client, NEW buf \in Buffers, Insert(c, buf)
  PROVE  Follows(u)
<1>1. /\ c \in DOMAIN lookaside /\ AppendTail(Aligned(lookaside[c])) /\ AlignClient(c)
      /\ UNCHANGED <<psize, size>> /\ call'.pc = "i" /\ call'.client = c
      /\ call'.back = (Aligned(lookaside[c]).page = Back)
      /\ call'.len = Len(buf) /\ Fits(Len(buf))
  BY DEF Insert
<1>2. Len(buf) \in Nat
  BY BufferAssumption, LenProperties
<1>3. u[Len(pages)] + call'.len <= MaxSize
  BY <1>1, <1>2, FitsBudget
<1> QED BY <1>1, <1>3, AppendFollows

LEMMA WriteRestFollows ==
  ASSUME NEW u, Sound(u), WriteRest PROVE Follows(u)
<1>1. call.op # "idle" /\ call.pc = "w"
  BY DEF WriteRest, In
<1>2. call \in Calls /\ call.client \in DOMAIN lookaside /\ Me = lookaside[call.client]
  BY <1>1, InCall DEF Sound, Me
<1>3. /\ AppendTail(Aligned(lookaside[call.client])) /\ AlignClient(call.client)
      /\ UNCHANGED <<psize, size>>
      /\ call' = [call EXCEPT !.pc = "i", !.val = Piece(call.len),
                              !.back = Aligned(lookaside[call.client]).page = Back]
  BY <1>2 DEF WriteRest
<1>4. /\ call'.pc = "i" /\ call'.client = call.client /\ call'.len = call.len
      /\ call'.back = (Aligned(lookaside[call.client]).page = Back)
  BY <1>2, <1>3 DEF Calls
<1>5. u[Len(pages)] + call'.len <= MaxSize
  BY <1>1, <1>4 DEF Sound, Budget
<1> QED BY <1>2, <1>3, <1>4, <1>5, AppendFollows

(* A client that inserted at the end is at the end of the last page before *)
(* the new sentinel, which is where the sentinel begins.                   *)
LEMMA InsertReturnFollows ==
  ASSUME NEW u, Sound(u), InsertReturn PROVE Follows(u)
<1>1. /\ UNCHANGED <<pages, psize, size>> /\ call' = Ended(FALSE)
      /\ call.op # "idle" /\ call.pc = "i"
  BY DEF InsertReturn, Leave, In
<1>2. /\ IInv /\ call.client \in DOMAIN lookaside /\ Me = lookaside[call.client] /\ Me \in ClientData
  BY <1>1, InCall DEF Sound, Me
<1>3. ASSUME AllPlaced(pages, psize, u, lookaside)
      PROVE  AllPlaced(pages, psize, u, lookaside')
  <2>1. CASE call.back
    <3> DEFINE n == Len(pages)
               info == [Me EXCEPT !.page = Back, !.off = 0]
    <3>1. lookaside' = [lookaside EXCEPT ![call.client] = info]
      <4>1. lookaside' = [lookaside EXCEPT ![call.client].page = Back, ![call.client].off = 0]
        BY <2>1 DEF InsertReturn
      <4> QED BY <1>2, <4>1 DEF IInv, ClientsOK, ClientData
    <3>2. Me.page = pages[n - 1] /\ Me.off >= psize[Me.page]
      BY <1>1, <1>2, <2>1 DEF Sound, TailOK
    <3>3. PICK k \in 1 .. n :
            /\ Me.page = pages[k] /\ Me.off \in Nat /\ Me.off <= psize[pages[k]]
            /\ Me.pos = u[k - 1] + Me.off
      <4>1. OnPage(pages, psize, u, Me)
        BY <1>2, <1>3 DEF AllPlaced
      <4> QED BY <1>2, <4>1, PlaceOf
    <3>4. n \in Nat /\ n >= 2 /\ n - 1 \in 1 .. n /\ n \in 1 .. n
      BY Geometry
    <3>5. k = n - 1
      BY <3>2, <3>3, <3>4, Geometry
    <3>6. Me.off = psize[pages[k]]
      <4>1. psize[pages[k]] \in Nat
        BY Geometry
      <4> QED BY <3>2, <3>3, <4>1
    <3>7. u[k] = u[k - 1] + psize[pages[k]]
      BY Geometry
    <3>8. Me.pos = u[n - 1] /\ u[n - 1] \in Nat
      <4>1. n - 1 \in 0 .. n
        BY <3>4
      <4>2. u[n - 1] \in Nat
        BY <4>1, Geometry
      <4> QED BY <3>3, <3>5, <3>6, <3>7, <4>2
    <3>9. info.page = pages[n] /\ info.off = 0 /\ info.pos = Me.pos
      BY <1>2 DEF ClientData, Back
    <3>10. psize[pages[n]] = 0
      BY Geometry
    <3> HIDE DEF info
    <3>11. info.off <= psize[pages[n]] /\ info.pos = u[n - 1] + info.off
      BY <3>8, <3>9, <3>10
    <3>12. OnPage(pages, psize, u, info)
      BY <3>4, <3>9, <3>11, IsPlace
    <3> QED BY <1>2, <1>3, <3>1, <3>12, OnePlaced
  <2>2. CASE ~call.back
    BY <1>3, <2>2 DEF InsertReturn
  <2> QED BY <2>1, <2>2
<1> QED BY <1>1, <1>3, QuietCall

-----------------------------------------------------------------------------
(* Erasure.                                                                *)

(* The positions of two clients are in the order of their pages, and on    *)
(* one page in the order of their offsets.                                 *)
LEMMA Order ==
  ASSUME NEW u, Sound(u), NEW k \in 1 .. Len(pages), NEW j \in 1 .. Len(pages),
         NEW m \in Nat, NEW o \in Nat, m <= psize[pages[k]], o <= psize[pages[j]]
  PROVE  /\ j < k => u[j - 1] + o <= u[k - 1] + m /\ u[j - 1] + o <= u[k - 1]
         /\ j = k => (u[j - 1] + o <= u[k - 1] + m <=> o <= m)
         /\ j > k => u[j - 1] + o >= u[k] /\ u[k - 1] + m <= u[k]
<1>1. /\ j \in 0 .. Len(pages) /\ k \in 0 .. Len(pages)
      /\ j - 1 \in 0 .. Len(pages) /\ k - 1 \in 0 .. Len(pages) /\ j \in Nat /\ k \in Nat
  BY Geometry
<1>2. /\ u[j - 1] \in Nat /\ u[k - 1] \in Nat /\ u[j] \in Nat /\ u[k] \in Nat
      /\ psize[pages[j]] \in Nat /\ psize[pages[k]] \in Nat
      /\ u[j] = u[j - 1] + psize[pages[j]] /\ u[k] = u[k - 1] + psize[pages[k]]
  BY <1>1, Geometry
<1>3. PICK a, b, c, d : a = u[j - 1] /\ b = u[k - 1] /\ c = u[j] /\ d = u[k]
  OBVIOUS
<1>4. /\ a \in Nat /\ b \in Nat /\ c \in Nat /\ d \in Nat
      /\ a + o <= c /\ b + m <= d
  <2>1. PICK x, y : x = psize[pages[j]] /\ y = psize[pages[k]]
    OBVIOUS
  <2>2. /\ a \in Nat /\ b \in Nat /\ c \in Nat /\ d \in Nat /\ x \in Nat /\ y \in Nat
        /\ c = a + x /\ d = b + y /\ o <= x /\ m <= y
    BY <1>2, <1>3, <2>1
  <2> QED BY <2>2
<1>5. j < k => c <= b
  <2>1. j < k => j <= k - 1
    BY <1>1
  <2> QED BY <1>1, <1>3, <2>1, Geometry
<1>6. j > k => d <= a
  <2>1. j > k => k <= j - 1
    BY <1>1
  <2> QED BY <1>1, <1>3, <2>1, Geometry
<1>7. j = k => a = b
  BY <1>3
<1>8. /\ j < k => a + o <= b + m /\ a + o <= b
      /\ j = k => (a + o <= b + m <=> o <= m)
      /\ j > k => a + o >= d /\ b + m <= d
  BY <1>4, <1>5, <1>6, <1>7
<1> QED BY <1>3, <1>8

(* Page k has m bytes.                                                     *)
Resized(w, k, m) ==
  /\ w[pages[k]] = m
  /\ \A j \in 1 .. Len(pages) : j # k => w[pages[j]] = psize[pages[j]]

(* The clients behind n erased bytes, and among them, when the page is n   *)
(* bytes shorter.                                                          *)
LEMMA AfterErasePlace ==
  ASSUME NEW u, Sound(u), NEW k \in 1 .. Len(pages), call.op # "idle", Me.page = pages[k],
         Me.pos = u[k - 1] + Me.off, NEW n \in Nat, n > 0, Me.off + n <= psize[pages[k]],
         NEW v, Shifted(u, v, Len(pages), k, -n), NEW w, Resized(w, k, psize[pages[k]] - n),
         NEW info \in ClientData, OnPage(pages, psize, u, info)
  PROVE  OnPage(pages, w, v, AfterErase(info, n))
<1>1. PICK j \in 1 .. Len(pages) :
         /\ info.page = pages[j] /\ info.off \in Nat /\ info.off <= psize[pages[j]]
         /\ info.pos \in Nat /\ info.pos = u[j - 1] + info.off
  BY PlaceOf
<1>2. /\ j \in 0 .. Len(pages) /\ k \in 0 .. Len(pages)
      /\ j - 1 \in 0 .. Len(pages) /\ k - 1 \in 0 .. Len(pages) /\ j \in Nat /\ k \in Nat
      /\ j - 1 < j
  BY Geometry
<1>3. /\ \A i \in 0 .. Len(pages) : i < k => v[i] = u[i]
      /\ \A i \in 0 .. Len(pages) : i >= k => v[i] = u[i] + (-n)
      /\ w[pages[k]] = psize[pages[k]] - n
      /\ \A i \in 1 .. Len(pages) : i # k => w[pages[i]] = psize[pages[i]]
  BY DEF Shifted, Resized
<1>4. Me.off \in Nat /\ Me.pos \in Nat
  BY InCall DEF Sound
<1>5. PICK a, o, m, b, s :
        a = u[j - 1] /\ o = info.off /\ m = Me.off /\ b = u[k - 1] /\ s = psize[pages[k]]
  OBVIOUS
<1>6. /\ a \in Nat /\ b \in Nat /\ o \in Nat /\ m \in Nat /\ s \in Nat
      /\ m + n <= s /\ u[k] = b + s /\ info.pos = a + o /\ Me.pos = b + m
      /\ a + o < SizeT
  <2>1. /\ u[j - 1] \in Nat /\ u[k - 1] \in Nat /\ psize[pages[k]] \in Nat
        /\ u[k] = u[k - 1] + psize[pages[k]]
    BY <1>2, Geometry
  <2>2. info.pos < SizeT
    <3>1. info.pos \in Size
      BY ClientFields
    <3> QED BY <3>1, BoundAssumption DEF Size
  <2> QED BY <1>1, <1>4, <1>5, <2>1, <2>2
<1>7. /\ j < k => a + o <= b + m
      /\ j = k => (a + o <= b + m <=> o <= m)
      /\ j > k => a + o >= b + s
  <2>1. Me.off <= psize[pages[k]]
    <3>1. m <= s
      BY <1>6
    <3> QED BY <1>5, <3>1
  <2>2. /\ j < k => u[j - 1] + info.off <= u[k - 1] + Me.off
        /\ j = k => (u[j - 1] + info.off <= u[k - 1] + Me.off <=> info.off <= Me.off)
        /\ j > k => u[j - 1] + info.off >= u[k]
    BY <1>1, <1>4, <2>1, Order
  <2> QED BY <1>5, <1>6, <2>2
<1>8. CASE j < k
  <2>1. AfterErase(info, n) = info
    BY <1>6, <1>7, <1>8 DEF AfterErase
  <2>2. v[j - 1] = u[j - 1] /\ w[pages[j]] = psize[pages[j]]
    <3>1. j - 1 < k /\ j # k
      BY <1>2, <1>8
    <3> QED BY <1>3, <1>2, <3>1
  <2>3. info.off <= w[pages[j]] /\ info.pos = v[j - 1] + info.off
    BY <1>1, <2>2
  <2> QED BY <1>1, <2>1, <2>3, IsPlace
<1>9. CASE j = k
  <2>1. v[j - 1] = a /\ w[pages[j]] = s - n
    BY <1>3, <1>2, <1>5, <1>9
  <2>2. CASE o <= m
    <3>1. AfterErase(info, n) = info
      BY <1>6, <1>7, <1>9, <2>2 DEF AfterErase
    <3>2. info.off <= w[pages[j]]
      <4>1. o <= s - n
        BY <1>6, <2>2
      <4> QED BY <1>5, <2>1, <4>1
    <3>3. info.pos = v[j - 1] + info.off
      BY <1>1, <1>5, <2>1
    <3> QED BY <1>1, <3>1, <3>2, <3>3, IsPlace
  <2>3. CASE ~(o <= m)
    <3>1. PICK d : d = Least(o - m, n)
      OBVIOUS
    <3>2. d \in Nat /\ d <= o - m /\ d <= n /\ (d = n \/ d = o - m)
      BY <1>6, <2>3, <3>1 DEF Least
    <3>3. AfterErase(info, n) = [info EXCEPT !.off = info.off - d, !.pos = Sub(info.pos, d)]
      BY <1>1, <1>5, <1>6, <1>7, <1>9, <2>3, <3>1 DEF AfterErase
    <3>4. Sub(a + o, d) = a + o - d
      <4>1. a + o \in Nat /\ d <= a + o
        BY <1>6, <3>2
      <4> QED BY <1>6, <3>2, <4>1, NoWrap
    <3> DEFINE x == AfterErase(info, n)
    <3>5. x.page = pages[j] /\ x.off = o - d /\ x.pos = a + o - d
      BY <1>1, <1>5, <1>6, <3>3, <3>4 DEF ClientData
    <3> HIDE DEF x
    <3>6. x.off <= w[pages[j]]
      <4>1. o <= s
        BY <1>1, <1>5, <1>9
      <4>2. o - d <= s - n
        BY <1>6, <3>2, <4>1
      <4> QED BY <2>1, <3>5, <4>2
    <3>7. x.pos = v[j - 1] + x.off
      <4>1. a + o - d = a + (o - d)
        BY <1>6, <3>2
      <4> QED BY <2>1, <3>5, <4>1
    <3> QED BY <3>5, <3>6, <3>7, IsPlace DEF x
  <2> QED BY <2>2, <2>3
<1>10. CASE j > k
  <2>1. ~(info.pos <= Me.pos) /\ n <= a + o
    BY <1>6, <1>7, <1>10
  <2>2. info.page # Me.page
    BY <1>1, <1>2, <1>10, Geometry
  <2>3. AfterErase(info, n) = [info EXCEPT !.pos = Sub(info.pos, n)]
    BY <2>1, <2>2 DEF AfterErase
  <2>4. Sub(a + o, n) = a + o - n
    BY <1>6, <2>1, NoWrap
  <2>5. v[j - 1] = a + (-n) /\ w[pages[j]] = psize[pages[j]]
    <3>1. j - 1 >= k /\ j # k
      BY <1>2, <1>10
    <3> QED BY <1>3, <1>2, <1>5, <3>1
  <2> DEFINE x == AfterErase(info, n)
  <2>6. x.page = pages[j] /\ x.off = o /\ x.pos = a + o - n
    BY <1>1, <1>5, <1>6, <2>3, <2>4 DEF ClientData
  <2> HIDE DEF x
  <2>7. x.off <= w[pages[j]]
    BY <1>1, <1>5, <2>5, <2>6
  <2>8. x.pos = v[j - 1] + x.off
    <3>1. a + o - n = a + (-n) + o
      BY <1>6
    <3> QED BY <2>5, <2>6, <3>1
  <2> QED BY <2>6, <2>7, <2>8, IsPlace DEF x
<1> QED BY <1>2, <1>8, <1>9, <1>10

(* How the list and the sums change when page k leaves.                    *)
Removal(s, r, v, x, k) ==
  /\ \A j \in 1 .. Len(s) - 1 : r[j] = IF j < k THEN s[j] ELSE s[j + 1]
  /\ \A j \in 0 .. Len(s) - 1 : j < k => x[j] = v[j]
  /\ \A j \in 0 .. Len(s) - 1 : j >= k => x[j] = v[j + 1]

(* A page without bytes that leaves the list: the clients on it go to the  *)
(* beginning of the next.                                                  *)
LEMMA OffPagePlace ==
  ASSUME NEW u, Sound(u), NEW k \in 2 .. Len(pages) - 1, Me.page = pages[k],
         NEW v, NEW w, w[pages[k]] = 0, w[pages[k + 1]] \in Nat, v[k] = v[k - 1],
         NEW r, Len(r) = Len(pages) - 1,
         NEW x, NEW info \in ClientData, OnPage(pages, w, v, info),
         Removal(pages, r, v, x, k)
  PROVE  OnPage(r, w, x, OffPage(info))
<1>1. PICK j \in 1 .. Len(pages) :
        pages[j] = info.page /\ info.off <= w[pages[j]] /\ info.pos = v[j - 1] + info.off
  BY DEF OnPage
<1>2. PICK n : n = Len(pages) /\ n \in Nat /\ n >= 2
  BY Geometry
<1>3. /\ \A i \in 1 .. n - 1 : r[i] = IF i < k THEN pages[i] ELSE pages[i + 1]
      /\ \A i \in 0 .. n - 1 : i < k => x[i] = v[i]
      /\ \A i \in 0 .. n - 1 : i >= k => x[i] = v[i + 1]
  BY <1>2 DEF Removal
<1>4. k \in 2 .. n - 1 /\ j \in 1 .. n /\ j \in Nat /\ k \in Nat
  BY <1>2
<1>5. n \in Nat /\ j \in Nat /\ k \in Nat /\ k >= 2 /\ k <= n - 1 /\ j >= 1 /\ j <= n
  BY <1>2, <1>4
<1>6. info.off \in Nat
  BY ClientFields
<1>7. CASE j < k
  <2>1. OffPage(info) = info
    <3>1. info.page # pages[k]
      <4>1. k \in 1 .. Len(pages) /\ j # k
        BY <1>2, <1>4, <1>7
      <4> QED BY <1>1, <4>1, Geometry
    <3> QED BY <3>1 DEF OffPage
  <2>2. j \in 1 .. n - 1 /\ j - 1 \in 0 .. n - 1 /\ j - 1 < k
    BY <1>7, <1>5
  <2>3. r[j] = pages[j] /\ x[j - 1] = v[j - 1]
    BY <1>3, <1>7, <2>2
  <2>4. j \in 1 .. Len(r)
    BY <1>2, <2>2
  <2> QED BY <1>1, <2>1, <2>3, <2>4, IsPlace
<1>8. CASE j = k
  <2>1. Succ(info.page) = pages[k + 1]
    <3>1. info.page \in Range(pages) /\ k \in 1 .. Len(pages)
      <4>1. k \in 1 .. Len(pages)
        BY <1>2, <1>4
      <4> QED BY <1>1, <1>8, <4>1, Geometry
    <3>2. Index(info.page) = k
      <4>1. Index(info.page) \in 1 .. Len(pages) /\ pages[Index(info.page)] = info.page
        BY <3>1, Neighbours DEF Sound, IInv
      <4> QED BY <1>1, <1>8, <3>1, <4>1, Geometry
    <3>3. k # Len(pages)
      BY <1>2, <1>4
    <3> QED BY <3>2, <3>3 DEF Succ
  <2>2. OffPage(info) = [info EXCEPT !.page = pages[k + 1]]
    BY <1>1, <1>8, <2>1 DEF OffPage
  <2>3. info.off = 0
    BY <1>1, <1>6, <1>8
  <2> DEFINE y == OffPage(info)
  <2>4. y.page = pages[k + 1] /\ y.off = 0 /\ y.pos = v[k - 1] + info.off
    BY <1>1, <1>8, <2>2, <2>3 DEF ClientData
  <2> HIDE DEF y
  <2>5. k \in 1 .. n - 1 /\ ~(k < k) /\ k - 1 \in 0 .. n - 1 /\ k - 1 < k
    BY <1>5
  <2>6. r[k] = pages[k + 1] /\ x[k - 1] = v[k - 1] /\ k \in 1 .. Len(r)
    BY <1>2, <1>3, <2>5
  <2>7. y.off <= w[r[k]]
    <3>1. w[r[k]] \in Nat
      BY <2>6
    <3> QED BY <2>4, <3>1
  <2>8. y.pos = x[k - 1] + y.off
    BY <2>3, <2>4, <2>6
  <2> QED BY <2>4, <2>6, <2>7, <2>8, IsPlace DEF y
<1>9. CASE j > k
  <2>1. OffPage(info) = info
    <3>1. info.page # pages[k]
      <4>1. k \in 1 .. Len(pages) /\ j # k
        BY <1>2, <1>4, <1>9
      <4> QED BY <1>1, <4>1, Geometry
    <3> QED BY <3>1 DEF OffPage
  <2>2. PICK i : i = j - 1 /\ i \in 1 .. n - 1 /\ ~(i < k) /\ i + 1 = j
                 /\ i - 1 \in 0 .. n - 1 /\ i \in Nat /\ i >= k
    BY <1>9, <1>5
  <2>3. r[i] = pages[j] /\ i \in 1 .. Len(r)
    BY <1>2, <1>3, <2>2
  <2>4. x[i - 1] = v[j - 1]
    <3>1. CASE i - 1 >= k
      <4>1. i - 1 + 1 = i
        BY <2>2
      <4>2. x[i - 1] = v[i]
        BY <1>3, <2>2, <3>1, <4>1
      <4> QED BY <2>2, <4>2
    <3>2. CASE ~(i - 1 >= k)
      <4>1. i = k /\ i - 1 < k
        BY <1>4, <2>2, <3>2
      <4>2. x[i - 1] = v[i - 1]
        BY <1>3, <2>2, <4>1
      <4>3. v[i - 1] = v[k - 1] /\ v[j - 1] = v[k]
        BY <2>2, <4>1
      <4> QED BY <4>2, <4>3
    <3> QED BY <3>1, <3>2
  <2> QED BY <1>1, <2>1, <2>3, <2>4, IsPlace
<1> QED BY <1>4, <1>7, <1>8, <1>9

LEMMA EraseChunkFollows ==
  ASSUME NEW u, Sound(u), EraseChunk PROVE Follows(u)
<1> DEFINE p   == Me.page
           buf == data[p]
<1>1. call.op # "idle" /\ call.pc = "d" /\ Valid /\ call.fwd
  BY DEF EraseChunk, In, Sound, IInv, CallOK
<1>2. /\ IInv /\ p \in PageId /\ p \in Range(pages) /\ buf \in Seq(Byte) /\ psize[p] = Len(buf)
      /\ Me.off \in Nat /\ call \in Calls /\ Me = lookaside[call.client]
      /\ call.client \in DOMAIN lookaside /\ Me \in ClientData
  BY <1>1, InCall DEF Sound, Me
<1>3. PICK n : n = Chunk /\ n \in Nat /\ n > 0 /\ Me.off + n <= psize[p] /\ psize[p] \in Nat
  <2>1. Chunk \in Nat /\ Me.off + Chunk <= psize[p]
    BY <1>1, <1>2, ValidChunk
  <2>2. Chunk > 0
    BY DEF EraseChunk
  <2>3. psize[p] \in Nat
    BY <1>2, LenProperties
  <2> QED BY <2>1, <2>2, <2>3
<1>4. PICK k \in 1 .. Len(pages) : pages[k] = p /\ k = Index(p) /\ k \in 2 .. Len(pages) - 1
  <2>1. p # pages[1] /\ p # Back
    <3>1. psize[p] > 0
      BY <1>2, <1>3
    <3> QED BY <1>1, <1>2, <3>1, PageWithBytes
  <2>2. /\ Index(p) \in 1 .. Len(pages) /\ pages[Index(p)] = p
        /\ Index(p) >= 2 /\ Index(p) <= Len(pages) - 1
    BY <1>2, <2>1, Neighbours DEF IInv
  <2> QED BY <2>2, Geometry
<1>5. PICK z : z = Len(pages) /\ z \in Nat /\ k \in Nat /\ k <= z - 1 /\ k >= 2
  <2>1. PICK z \in Nat : z = Len(pages)
    BY Geometry
  <2>2. k \in 2 .. z - 1
    BY <1>4, <2>1
  <2>3. k \in Nat /\ k <= z - 1 /\ k >= 2
    BY <2>1, <2>2
  <2> QED BY <2>1, <2>3
<1>6. /\ u[z] \in Nat /\ u[z] < SizeT /\ n <= u[z] /\ SizeT \in Nat
  <2>1. z \in 0 .. Len(pages) /\ k \in 0 .. Len(pages) /\ k - 1 \in 0 .. Len(pages) /\ k <= z
    BY <1>5
  <2>2. PICK a, b : a = u[k - 1] /\ b = psize[p]
    OBVIOUS
  <2>3. u[z] \in Nat /\ u[z] < SizeT /\ a \in Nat /\ u[k] = a + b /\ u[k] <= u[z]
    BY <1>4, <1>5, <2>1, <2>2, Geometry
  <2>4. b \in Nat /\ Me.off + n <= b
    BY <1>3, <2>2
  <2>5. n <= b
    BY <1>2, <1>3, <2>4
  <2> QED BY <1>3, <2>3, <2>4, <2>5, BoundAssumption
<1>7. call'.pc = "d" /\ (size = u[z] => size' = u[z] + (-n))
  <2>1. call' = [call EXCEPT !.len = @ - Chunk] /\ size' = Sub(size, n)
    BY <1>3 DEF EraseChunk
  <2>2. Sub(u[z], n) = u[z] - n
    BY <1>3, <1>6, NoWrap
  <2>3. u[z] - n = u[z] + (-n)
    BY <1>3, <1>6
  <2> QED BY <1>1, <1>2, <2>1, <2>2, <2>3 DEF Calls
<1>8. TailOK(pages', psize', lookaside', call') /\ Budget(u[z] + (-n), call')
  <2>1. u[z] + (-n) < SizeT
    BY <1>3, <1>6
  <2> QED BY <1>7, <2>1 DEF TailOK, Budget
<1>9. /\ pages \in Seq(PageId) /\ psize \in [PageId -> Nat] /\ Ends(u, pages, psize)
      /\ Distinct(pages)
  BY DEF Sound, IInv, ListOK, StoreOK
<1>10. PICK v : v = Heavier(u, k, -n)
  OBVIOUS
<1>11. ASSUME psize' \in [PageId -> Nat], Resized(psize', k, psize[pages[k]] - n),
              \A q \in PageId \ {p} : psize'[q] = psize[q]
       PROVE  Ends(v, pages, psize') /\ Shifted(u, v, Len(pages), k, -n)
  <2>1. -n \in Int /\ psize'[pages[k]] = psize[pages[k]] + (-n)
    <3>1. psize'[p] = psize[p] - n
      BY <1>4, <1>11 DEF Resized
    <3> QED BY <1>3, <1>4, <3>1
  <2>2. PICK d \in Int : d = -n
    BY <2>1
  <2>3. PICK w \in [PageId -> Nat] : w = psize'
    BY <1>11
  <2>5. Reweighed(PageId, psize, pages[k], d, w)
    BY <1>4, <1>11, <2>1, <2>2, <2>3 DEF Reweighed
  <2>6. /\ Ends(Heavier(u, k, d), pages, w)
        /\ Shifted(u, Heavier(u, k, d), Len(pages), k, d)
    BY <1>9, <2>5, EndsHeavier
  <2> QED BY <1>10, <2>2, <2>3, <2>6
<1>12. ASSUME AllPlaced(pages, psize, u, lookaside), Shifted(u, v, Len(pages), k, -n),
              Resized(psize', k, psize[pages[k]] - n), NEW c \in DOMAIN lookaside
       PROVE  /\ OnPage(pages, psize', v, AfterErase(lookaside[c], n))
              /\ AfterErase(lookaside[c], n) \in ClientData
  <2>1. OnPage(pages, psize, u, Me) /\ OnPage(pages, psize, u, lookaside[c])
        /\ lookaside[c] \in ClientData
    BY <1>2, <1>12 DEF AllPlaced, IInv, ClientsOK
  <2>2. Me.pos = u[k - 1] + Me.off
    <3>1. PICK j \in 1 .. Len(pages) : Me.page = pages[j] /\ Me.pos = u[j - 1] + Me.off
      BY <1>2, <2>1, PlaceOf
    <3>2. j = k
      BY <1>4, <3>1, Geometry
    <3> QED BY <3>1, <3>2
  <2>3. Me.off + n <= psize[pages[k]] /\ Me.page = pages[k]
    BY <1>3, <1>4
  <2>4. OnPage(pages, psize', v, AfterErase(lookaside[c], n))
    BY <1>1, <1>3, <1>12, <2>1, <2>2, <2>3, AfterErasePlace
  <2>5. AfterErase(lookaside[c], n) \in ClientData
    BY <1>1, <1>2, <1>3, <2>1, AfterEraseRange
  <2> QED BY <2>4, <2>5
<1>13. CASE n # psize[p]
  <2> DEFINE head == SubSeq(buf, 1, Me.off)
             tail == SubSeq(buf, Me.off + n + 1, Len(buf))
  <2>1. /\ psize' = [psize EXCEPT ![p] = Len(head \o tail)] /\ UNCHANGED pages
        /\ lookaside' = [c \in DOMAIN lookaside |-> AfterErase(lookaside[c], n)]
    BY <1>3, <1>13 DEF EraseChunk
  <2>2. Len(head \o tail) = psize[p] - n
    <3>1. Me.off \in Nat /\ Me.off <= Len(buf) /\ Me.off + n \in Nat /\ Me.off + n <= Len(buf)
      BY <1>2, <1>3
    <3>2. /\ head \in Seq(Byte) /\ Len(head) = Me.off
          /\ tail \in Seq(Byte) /\ Len(tail) = Len(buf) - (Me.off + n)
      BY <1>2, <3>1, HalvesOfSeq
    <3> HIDE DEF head, tail
    <3>3. Len(head \o tail) = Len(head) + Len(tail)
      BY <3>2, ConcatProperties
    <3>4. Len(buf) = psize[p] /\ n \in Nat /\ psize[p] \in Nat
      BY <1>2, <1>3
    <3>5. Me.off + (psize[p] - (Me.off + n)) = psize[p] - n
      <4>1. PICK o \in Nat : o = Me.off
        BY <3>1
      <4>2. PICK l \in Nat : l = psize[p]
        BY <3>4
      <4>3. n \in Nat
        BY <3>4
      <4>4. o + (l - (o + n)) = l - n
        BY <4>3
      <4> QED BY <4>1, <4>2, <4>4
    <3> QED BY <3>2, <3>3, <3>4, <3>5
  <2> HIDE DEF head, tail
  <2>3. /\ psize' \in [PageId -> Nat] /\ Resized(psize', k, psize[pages[k]] - n)
        /\ \A q \in PageId \ {p} : psize'[q] = psize[q]
    <3>1. psize' = [psize EXCEPT ![p] = psize[p] - n] /\ psize[p] - n \in Nat
      <4>1. \A a, b \in Nat : a + n <= b => b - n \in Nat
        BY <1>3
      <4>2. psize[p] - n \in Nat
        BY <1>2, <1>3, <4>1
      <4>3. psize' = [psize EXCEPT ![p] = psize[p] - n]
        BY <2>1, <2>2
      <4> QED BY <4>2, <4>3
    <3>2. psize' \in [PageId -> Nat] /\ psize'[p] = psize[p] - n
          /\ \A q \in PageId \ {p} : psize'[q] = psize[q]
      BY <1>2, <1>9, <3>1
    <3>3. \A j \in 1 .. Len(pages) : j # k => pages[j] \in PageId \ {p}
      BY <1>4, Geometry
    <3> QED BY <1>4, <3>2, <3>3 DEF Resized
  <2>4. Ends(v, pages', psize') /\ Shifted(u, v, Len(pages), k, -n)
    BY <1>11, <2>1, <2>3
  <2>5. v[z] = u[z] + (-n) /\ Len(pages') = z
    <3>1. z \in 0 .. Len(pages) /\ z >= k
      BY <1>5
    <3> QED BY <1>5, <2>1, <2>4, <3>1 DEF Shifted
  <2>6. AllPlaced(pages, psize, u, lookaside) => AllPlaced(pages', psize', v, lookaside')
    BY <1>12, <2>1, <2>3, <2>4 DEF AllPlaced
  <2>7. size = u[z] => size' = v[z]
    BY <1>7, <2>5
  <2>8. Budget(v[Len(pages')], call')
    BY <1>8, <2>5
  <2> QED BY <1>5, <1>8, <2>4, <2>5, <2>6, <2>7, <2>8 DEF Follows
<1>14. CASE n = psize[p]
  <2>1. /\ pages' = RemoveAt(pages, k) /\ psize' = [psize EXCEPT ![p] = 0]
        /\ lookaside' = [c \in DOMAIN lookaside |-> OffPage(AfterErase(lookaside[c], n))]
    BY <1>3, <1>4, <1>14 DEF EraseChunk
  <2>2. /\ psize' \in [PageId -> Nat] /\ Resized(psize', k, psize[pages[k]] - n)
        /\ \A q \in PageId \ {p} : psize'[q] = psize[q]
        /\ \A j \in 1 .. Len(pages) : j # k => psize'[pages[j]] = psize[pages[j]]
    <3>1. psize' \in [PageId -> Nat] /\ psize'[p] = 0
          /\ \A q \in PageId \ {p} : psize'[q] = psize[q]
      BY <1>2, <1>9, <2>1
    <3>2. \A j \in 1 .. Len(pages) : j # k => pages[j] \in PageId \ {p}
      BY <1>4, Geometry
    <3>3. psize[p] - n = 0
      BY <1>3, <1>14
    <3> QED BY <1>4, <3>1, <3>2, <3>3 DEF Resized
  <2>3. Ends(v, pages, psize') /\ Shifted(u, v, Len(pages), k, -n)
    BY <1>11, <2>2
  <2>4. PICK x : x = Narrowed(u, k, psize[pages[k]])
    OBVIOUS
  <2>5. /\ Ends(x, pages', psize')
        /\ \A j \in 0 .. Len(pages) - 1 : j < k => x[j] = u[j]
        /\ \A j \in 0 .. Len(pages) - 1 : j >= k => x[j] = u[j + 1] - n
    <3>1. psize[pages[k]] = n
      BY <1>4, <1>14
    <3>2. PICK w : w = psize' /\ \A j \in 1 .. Len(pages) : j # k => w[pages[j]] = psize[pages[j]]
      BY <2>2
    <3>3. /\ Ends(Narrowed(u, k, psize[pages[k]]), RemoveAt(pages, k), w)
          /\ Closed(u, Narrowed(u, k, psize[pages[k]]), Len(pages), k, psize[pages[k]])
      BY <1>9, <3>2, EndsNarrowed
    <3>4. Ends(x, pages', w) /\ Closed(u, x, Len(pages), k, n)
      BY <2>1, <2>4, <3>1, <3>3
    <3> QED BY <3>2, <3>4 DEF Closed
  <2>6. /\ Len(pages') = Len(pages) - 1
        /\ \A j \in 1 .. Len(pages) - 1 : pages'[j] = IF j < k THEN pages[j] ELSE pages[j + 1]
    BY <1>9, <2>1, RemovedList
  <2>7. Removal(pages, pages', v, x, k)
    <3>1. ASSUME NEW j \in 0 .. Len(pages) - 1 PROVE /\ j < k => x[j] = v[j]
                                                     /\ j >= k => x[j] = v[j + 1]
      <4>1. /\ j \in 0 .. Len(pages) /\ j + 1 \in 0 .. Len(pages) /\ u[j + 1] \in Nat
        <5>1. j \in 0 .. Len(pages) /\ j + 1 \in 0 .. Len(pages)
          BY <1>5
        <5> QED BY <5>1, Geometry
      <4>2. j < k => v[j] = u[j] /\ x[j] = u[j]
        BY <2>3, <2>5, <4>1 DEF Shifted
      <4>3. j >= k => v[j + 1] = u[j + 1] + (-n) /\ x[j] = u[j + 1] - n
        <5>1. j >= k => j + 1 >= k
          BY <1>5
        <5> QED BY <2>3, <2>5, <4>1, <5>1 DEF Shifted
      <4>4. u[j + 1] + (-n) = u[j + 1] - n
        BY <1>3, <4>1
      <4> QED BY <4>2, <4>3, <4>4
    <3> QED BY <2>6, <3>1 DEF Removal
  <2>8. PICK y : y = z - 1 /\ y \in 0 .. Len(pages) - 1 /\ y >= k /\ y + 1 = z
    BY <1>5
  <2>9. x[y] = u[z] + (-n) /\ Len(pages') = y
    <3>1. x[y] = u[z] - n
      BY <2>5, <2>8
    <3>2. u[z] - n = u[z] + (-n)
      BY <1>3, <1>6
    <3> QED BY <1>5, <2>6, <2>8, <3>1, <3>2
  <2>10. ASSUME AllPlaced(pages, psize, u, lookaside), NEW c \in DOMAIN lookaside
         PROVE  OnPage(pages', psize', x, OffPage(AfterErase(lookaside[c], n)))
    <3>1. PICK info : info = AfterErase(lookaside[c], n)
      OBVIOUS
    <3>2. info \in ClientData /\ OnPage(pages, psize', v, info)
      BY <1>12, <2>2, <2>3, <2>10, <3>1
    <3>3. psize'[pages[k]] = 0 /\ psize'[pages[k + 1]] \in Nat
      <4>1. k + 1 \in 1 .. Len(pages)
        BY <1>5
      <4>2. pages[k + 1] \in PageId
        BY <4>1, Geometry
      <4> QED BY <1>2, <1>4, <1>9, <2>1, <2>2, <4>2
    <3>4. v[k] = v[k - 1]
      <4>1. k \in 1 .. Len(pages) /\ v[k] = v[k - 1] + psize'[pages[k]]
        BY <2>3 DEF Ends
      <4>2. v[k - 1] \in Nat
        <5>1. k - 1 \in 0 .. Len(pages)
          BY <1>5
        <5> QED BY <2>3, <5>1 DEF Ends
      <4> QED BY <3>3, <4>1, <4>2
    <3>5. Me.page = pages[k]
      BY <1>4
    <3>6. OnPage(pages', psize', x, OffPage(info))
      BY <1>4, <2>6, <2>7, <3>2, <3>3, <3>4, <3>5, OffPagePlace
    <3> QED BY <3>1, <3>6
  <2>11. AllPlaced(pages, psize, u, lookaside) => AllPlaced(pages', psize', x, lookaside')
    BY <2>1, <2>10 DEF AllPlaced
  <2>12. size = u[z] => size' = x[y]
    BY <1>7, <2>9
  <2>13. Budget(x[Len(pages')], call')
    BY <1>8, <2>9
  <2> QED BY <1>5, <1>8, <2>5, <2>9, <2>11, <2>12, <2>13 DEF Follows
<1> QED BY <1>13, <1>14

-----------------------------------------------------------------------------
(* Insertion.                                                              *)

(* The page of an insertion is between the sentinels, and the file with    *)
(* the chunk in it is not too long.                                        *)
LEMMA InsertRoom ==
  ASSUME MaxSize < SizeT, NEW u, Sound(u), In("i"), Valid, NEW z, z = Len(pages)
  PROVE  /\ Index(Me.page) \in 2 .. z - 1 /\ Index(Me.page) \in 1 .. Len(pages)
         /\ pages[Index(Me.page)] = Me.page /\ u[z] \in Nat
         /\ u[z] + InsertChunk < SizeT /\ Add(u[z], InsertChunk) = u[z] + InsertChunk
         /\ call' = [call EXCEPT !.len = @ - InsertChunk]
              => Budget(u[z] + InsertChunk, call')
<1>1. /\ IInv /\ call.op # "idle" /\ call.pc = "i" /\ call \in Calls
      /\ Me.page \in Range(pages) /\ Me.page # pages[1] /\ Me.page # Back
      /\ InsertChunk \in Nat /\ InsertChunk <= call.len
  BY InsertFacts DEF Sound
<1>2. PICK n : n = InsertChunk /\ n \in Nat /\ n <= call.len /\ call.len \in Nat
  BY <1>1 DEF Calls
<1>3. /\ Index(Me.page) \in 1 .. Len(pages) /\ pages[Index(Me.page)] = Me.page
      /\ Index(Me.page) >= 2 /\ Index(Me.page) <= Len(pages) - 1
  BY <1>1, Neighbours DEF IInv
<1>4. Index(Me.page) \in 2 .. z - 1
  BY <1>3, Geometry
<1>5. u[z] \in Nat /\ u[z] + call.len <= MaxSize
  <2>1. z \in 0 .. Len(pages)
    BY Geometry
  <2>2. u[z] + call.len <= MaxSize
    BY <1>1 DEF Sound, Budget
  <2> QED BY <2>1, <2>2, Geometry
<1>6. u[z] + n < SizeT /\ u[z] + n + (call.len - n) <= MaxSize
  BY <1>2, <1>5, BoundAssumption
<1>7. Add(u[z], n) = u[z] + n
  BY <1>2, <1>5, <1>6, NoWrap
<1>8. ASSUME call' = [call EXCEPT !.len = @ - InsertChunk]
      PROVE  Budget(u[z] + n, call')
  <2>1. call'.len = call.len - n
    BY <1>1, <1>2, <1>8 DEF Calls
  <2> QED BY <1>6, <2>1 DEF Budget
<1> QED BY <1>2, <1>3, <1>4, <1>5, <1>6, <1>7, <1>8

(* Nobody is at the place of an insertion but on another page.             *)
Untwinned(info) == info.pos = Me.pos => info.page = Me.page

LEMMA NoTwins ==
  ASSUME In("i"), ~Drift, call.client \in DOMAIN lookaside, NEW c \in DOMAIN lookaside
  PROVE  Untwinned(lookaside[c])
<1>1. c # call.client => Untwinned(lookaside[c])
  BY DEF Drift, InsertsBeforeTwin, Untwinned
<1>2. c = call.client => Untwinned(lookaside[c])
  BY DEF Untwinned, Me
<1> QED BY <1>1, <1>2

(* Where another client is in the list, seen from the place of an          *)
(* insertion of n bytes.                                                   *)
LEMMA InsertOrder ==
  ASSUME NEW u, Sound(u), NEW k \in 1 .. Len(pages), call.op # "idle", Me.page = pages[k],
         Me.pos = u[k - 1] + Me.off, Me.off <= psize[pages[k]],
         NEW n \in Nat, u[Len(pages)] + n < SizeT,
         NEW info \in ClientData, OnPage(pages, psize, u, info), Untwinned(info)
  PROVE  \E j \in 1 .. Len(pages) :
           /\ info.page = pages[j] /\ info.off <= psize[pages[j]] /\ info.off \in Nat
           /\ info.pos = u[j - 1] + info.off /\ u[j - 1] \in Nat
           /\ j < k => info.pos <= Me.pos
           /\ j = k => (info.pos <= Me.pos <=> info.off <= Me.off) /\ info.page = Me.page
           /\ j > k => ~(info.pos <= Me.pos) /\ info.page # Me.page
           /\ Add(info.pos, n) = info.pos + n /\ Add(info.off, n) = info.off + n
           /\ j \in Nat /\ k \in Nat /\ (j < k \/ j = k \/ j > k)
<1>1. PICK j \in 1 .. Len(pages) :
         /\ info.page = pages[j] /\ info.off \in Nat /\ info.off <= psize[pages[j]]
         /\ info.pos \in Nat /\ info.pos = u[j - 1] + info.off /\ info.pos <= u[j]
  BY PlaceOf
<1>2. /\ j \in 0 .. Len(pages) /\ j - 1 \in 0 .. Len(pages) /\ j \in Nat /\ k \in Nat
      /\ k \in 0 .. Len(pages)
  BY Geometry
<1>3. Me.off \in Nat /\ Me.pos \in Nat
  BY InCall DEF Sound
<1>4. /\ j < k => info.pos <= Me.pos
      /\ j = k => (info.pos <= Me.pos <=> info.off <= Me.off)
      /\ j > k => info.pos >= u[k] /\ Me.pos <= u[k]
  <2>1. u[j - 1] + info.off = info.pos /\ u[k - 1] + Me.off = Me.pos
    BY <1>1
  <2>2. /\ j < k => u[j - 1] + info.off <= u[k - 1] + Me.off
        /\ j = k => (u[j - 1] + info.off <= u[k - 1] + Me.off <=> info.off <= Me.off)
        /\ j > k => u[j - 1] + info.off >= u[k] /\ u[k - 1] + Me.off <= u[k]
    BY <1>1, <1>3, Order
  <2> QED BY <2>1, <2>2
<1>5. info.page = Me.page <=> j = k
  BY <1>1, Geometry
<1>6. u[j - 1] \in Nat /\ u[j] \in Nat /\ u[k] \in Nat /\ u[j] <= u[Len(pages)]
      /\ u[Len(pages)] \in Nat
  <2>1. Len(pages) \in 0 .. Len(pages)
    BY Geometry
  <2> QED BY <1>2, <2>1, Geometry
<1>7. j > k => ~(info.pos <= Me.pos)
  <2>1. j > k => info.pos # Me.pos
    BY <1>2, <1>5 DEF Untwinned
  <2>2. info.pos \in Nat /\ Me.pos \in Nat /\ u[k] \in Nat
    BY <1>1, <1>3, <1>6
  <2>3. j > k => info.pos >= u[k] /\ Me.pos <= u[k]
    BY <1>4
  <2> QED BY <2>1, <2>2, <2>3
<1>8. info.pos + n < SizeT /\ info.off + n < SizeT
  <2>1. PICK a, o, e, l : a = u[j - 1] /\ o = info.off /\ e = u[j] /\ l = u[Len(pages)]
    OBVIOUS
  <2>2. a \in Nat /\ o \in Nat /\ e \in Nat /\ l \in Nat /\ info.pos = a + o
        /\ a + o <= e /\ e <= l /\ l + n < SizeT /\ SizeT \in Nat
    BY <1>1, <1>6, <2>1, BoundAssumption
  <2>3. a + o + n < SizeT /\ o + n < SizeT
    BY <2>2
  <2> QED BY <2>1, <2>2, <2>3
<1>9. Add(info.pos, n) = info.pos + n /\ Add(info.off, n) = info.off + n
  BY <1>1, <1>8, NoWrap
<1>10. j \in Nat /\ k \in Nat /\ (j < k \/ j = k \/ j > k) /\ (j > k => j # k)
  BY <1>2
<1>11. /\ j = k => (info.pos <= Me.pos <=> info.off <= Me.off) /\ info.page = Me.page
       /\ j > k => ~(info.pos <= Me.pos) /\ info.page # Me.page
       /\ j < k => info.pos <= Me.pos
  BY <1>4, <1>5, <1>7, <1>10
<1>12. /\ info.page = pages[j] /\ info.off <= psize[pages[j]] /\ info.off \in Nat
       /\ info.pos = u[j - 1] + info.off /\ u[j - 1] \in Nat
  BY <1>1, <1>6
<1> QED BY <1>9, <1>10, <1>11, <1>12

(* The clients behind bytes inserted into a page.                          *)
LEMMA AfterInsertPlace ==
  ASSUME NEW u, Sound(u), NEW k \in 1 .. Len(pages), call.op # "idle", Me.page = pages[k],
         Me.pos = u[k - 1] + Me.off, Me.off <= psize[pages[k]],
         NEW n \in Nat, u[Len(pages)] + n < SizeT,
         NEW v, Shifted(u, v, Len(pages), k, n), NEW w, Resized(w, k, psize[pages[k]] + n),
         NEW info \in ClientData, OnPage(pages, psize, u, info), Untwinned(info)
  PROVE  OnPage(pages, w, v, AfterInsert(info, n))
<1>1. PICK j \in 1 .. Len(pages) :
           /\ info.page = pages[j] /\ info.off <= psize[pages[j]] /\ info.off \in Nat
           /\ info.pos = u[j - 1] + info.off /\ u[j - 1] \in Nat
           /\ j < k => info.pos <= Me.pos
           /\ j = k => (info.pos <= Me.pos <=> info.off <= Me.off) /\ info.page = Me.page
           /\ j > k => ~(info.pos <= Me.pos) /\ info.page # Me.page
           /\ Add(info.pos, n) = info.pos + n /\ Add(info.off, n) = info.off + n
           /\ j \in Nat /\ k \in Nat /\ (j < k \/ j = k \/ j > k)
  BY InsertOrder
<1>2. j - 1 \in 0 .. Len(pages) /\ psize[pages[j]] \in Nat /\ Me.off \in Nat
  <2>1. Me.off \in Nat
    BY InCall DEF Sound
  <2> QED BY <2>1, Geometry
<1>3. /\ \A i \in 0 .. Len(pages) : i < k => v[i] = u[i]
      /\ \A i \in 0 .. Len(pages) : i >= k => v[i] = u[i] + n
      /\ w[pages[k]] = psize[pages[k]] + n
      /\ \A i \in 1 .. Len(pages) : i # k => w[pages[i]] = psize[pages[i]]
  BY DEF Shifted, Resized
<1>4. PICK a, o : a = u[j - 1] /\ o = info.off /\ a \in Nat /\ o \in Nat /\ info.pos = a + o
  BY <1>1
<1>5. CASE j <= k /\ info.pos <= Me.pos
  <2>1. AfterInsert(info, n) = info
    BY <1>5 DEF AfterInsert
  <2>2. v[j - 1] = a
    <3>1. j - 1 < k
      BY <1>1, <1>5
    <3> QED BY <1>2, <1>3, <1>4, <3>1
  <2>3. info.off <= w[pages[j]]
    <3>1. j = k => w[pages[j]] = psize[pages[j]] + n
      BY <1>3
    <3>2. j # k => w[pages[j]] = psize[pages[j]]
      BY <1>3
    <3> QED BY <1>1, <1>2, <3>1, <3>2
  <2>4. info.pos = v[j - 1] + info.off
    BY <1>4, <2>2
  <2> QED BY <1>1, <2>1, <2>3, <2>4, IsPlace
<1>6. CASE j = k /\ ~(info.pos <= Me.pos)
  <2> DEFINE x == AfterInsert(info, n)
  <2>1. x = [info EXCEPT !.pos = Add(info.pos, n), !.off = Add(info.off, n)]
    BY <1>1, <1>2, <1>6 DEF AfterInsert
  <2>2. x.page = pages[j] /\ x.off = o + n /\ x.pos = a + o + n
    BY <1>1, <1>4, <2>1 DEF ClientData
  <2> HIDE DEF x
  <2>3. v[j - 1] = a /\ w[pages[j]] = psize[pages[j]] + n
    <3>1. j - 1 < k
      BY <1>1, <1>6
    <3> QED BY <1>2, <1>3, <1>4, <1>6, <3>1
  <2>4. x.off <= w[pages[j]]
    <3>1. \A b \in Nat : o <= b => o + n <= b + n
      BY <1>4
    <3> QED BY <1>1, <1>2, <1>4, <2>2, <2>3, <3>1
  <2>5. x.pos = v[j - 1] + x.off
    <3>1. a + o + n = a + (o + n)
      BY <1>4
    <3> QED BY <2>2, <2>3, <3>1
  <2> QED BY <2>2, <2>4, <2>5, IsPlace DEF x
<1>7. CASE j > k
  <2> DEFINE x == AfterInsert(info, n)
  <2>1. x = [info EXCEPT !.pos = Add(info.pos, n)]
    BY <1>1, <1>7 DEF AfterInsert
  <2>2. x.page = pages[j] /\ x.off = o /\ x.pos = a + o + n
    BY <1>1, <1>4, <2>1 DEF ClientData
  <2> HIDE DEF x
  <2>3. v[j - 1] = a + n /\ w[pages[j]] = psize[pages[j]]
    <3>1. j - 1 >= k /\ j # k
      BY <1>1, <1>7
    <3> QED BY <1>2, <1>3, <1>4, <3>1
  <2>4. x.off <= w[pages[j]]
    BY <1>1, <1>4, <2>2, <2>3
  <2>5. x.pos = v[j - 1] + x.off
    <3>1. a + o + n = a + n + o
      <4>1. a \in Nat /\ o \in Nat
        BY <1>4
      <4> QED BY <4>1
    <3> QED BY <2>2, <2>3, <3>1
  <2> QED BY <2>2, <2>4, <2>5, IsPlace DEF x
<1> QED BY <1>1, <1>5, <1>6, <1>7

(* A chunk that fits the page.  If every place is right no client is put   *)
(* past the end of the page; if there is one client, there is nobody to be *)
(* put there.                                                              *)
LEMMA InsertInPageFollows ==
  ASSUME MaxSize < SizeT, NEW u, Sound(u), InsertInPage PROVE Follows(u)
<1> DEFINE p == Me.page
<1>1. /\ In("i") /\ Valid /\ call.op # "idle" /\ call.pc = "i" /\ IInv
      /\ call.client \in DOMAIN lookaside /\ call \in Calls /\ Me = lookaside[call.client]
      /\ Me \in ClientData /\ Me.off \in Nat /\ Me.pos \in Nat /\ p \in PageId
      /\ InsertChunk \in Nat /\ psize[p] = Len(data[p]) /\ Me.off <= psize[p]
  BY InsertFacts DEF InsertInPage, Sound, Me
<1>2. PICK n \in Nat : n = InsertChunk
  BY <1>1
<1>3. PICK z \in Nat : z = Len(pages)
  BY Geometry
<1>4. PICK k \in 1 .. Len(pages) : k = Index(p)
  BY <1>1, <1>3, InsertRoom
<1>5. /\ k \in 2 .. z - 1 /\ pages[k] = p /\ u[z] \in Nat /\ u[z] + n < SizeT
      /\ Add(u[z], n) = u[z] + n
      /\ call' = [call EXCEPT !.len = @ - n] => Budget(u[z] + n, call')
  BY <1>1, <1>2, <1>3, <1>4, InsertRoom
<1>6. /\ psize' = [psize EXCEPT ![p] = psize[p] + n] /\ UNCHANGED pages
      /\ \/ /\ Overruns(n) = {}
            /\ lookaside' = [c \in DOMAIN lookaside |->
                 IF c = call.client
                 THEN [Me EXCEPT !.pos = Add(Me.pos, n), !.off = Me.off + n]
                 ELSE AfterInsert(lookaside[c], n)]
            /\ size' = Add(size, n)
            /\ call' = [call EXCEPT !.len = @ - n]
         \/ Overruns(n) # {} /\ call' = Ended(TRUE) /\ UNCHANGED size
  BY <1>2 DEF InsertInPage
<1>7. /\ pages \in Seq(PageId) /\ psize \in [PageId -> Nat] /\ Ends(u, pages, psize)
      /\ Distinct(pages)
  BY DEF Sound, IInv, ListOK, StoreOK
<1>8. PICK w \in [PageId -> Nat] : w = psize'
  <2>1. psize[p] + n \in Nat
    BY <1>1, <1>7
  <2> QED BY <1>6, <1>7, <2>1
<1>9. Reweighed(PageId, psize, pages[k], n, w) /\ Resized(w, k, psize[pages[k]] + n)
  <2>1. w[p] = psize[p] + n /\ \A q \in PageId \ {p} : w[q] = psize[q]
    BY <1>1, <1>6, <1>7, <1>8
  <2>2. \A j \in 1 .. Len(pages) : j # k => pages[j] \in PageId \ {p}
    BY <1>5, Geometry
  <2> QED BY <1>5, <2>1, <2>2 DEF Reweighed, Resized
<1>10. PICK v : v = Heavier(u, k, n)
  OBVIOUS
<1>11. Ends(v, pages, w) /\ Shifted(u, v, Len(pages), k, n)
  <2>1. PICK d \in Int : d = n
    OBVIOUS
  <2>2. Reweighed(PageId, psize, pages[k], d, w)
    BY <1>9, <2>1
  <2>3. Ends(Heavier(u, k, d), pages, w) /\ Shifted(u, Heavier(u, k, d), Len(pages), k, d)
    BY <1>7, <2>2, EndsHeavier
  <2> QED BY <1>10, <2>1, <2>3
<1>12. v[z] = u[z] + n
  <2>1. z \in 0 .. Len(pages) /\ z >= k
    BY <1>3, <1>5
  <2> QED BY <1>11, <2>1 DEF Shifted
<1>13. ASSUME AllPlaced(pages, psize, u, lookaside)
       PROVE  Me.pos = u[k - 1] + Me.off
  <2>1. PICK j \in 1 .. Len(pages) : Me.page = pages[j] /\ Me.pos = u[j - 1] + Me.off
    BY <1>1, <1>13 DEF AllPlaced, OnPage
  <2>2. j = k
    BY <1>5, <2>1, Geometry
  <2> QED BY <2>1, <2>2
<1>14. Lone \/ AllPlaced(pages, psize, u, lookaside) => Overruns(n) = {}
  <2>1. SUFFICES ASSUME Lone \/ AllPlaced(pages, psize, u, lookaside), NEW c \in Overruns(n)
                 PROVE  FALSE
    OBVIOUS
  <2>2. /\ c \in DOMAIN lookaside /\ lookaside[c].pos > Me.pos
        /\ lookaside[c].page = p /\ lookaside[c].off > Me.off
        /\ AfterInsert(lookaside[c], n).off > psize[p] + n
    BY DEF Overruns
  <2>3. lookaside[c] \in ClientData /\ lookaside[c].pos \in Nat /\ lookaside[c].off \in Nat
    <3>1. lookaside[c] \in ClientData
      BY <1>1, <2>2 DEF IInv, ClientsOK
    <3> QED BY <3>1, ClientFields
  <2>4. CASE Lone
    <3>1. c = call.client
      BY <1>1, <2>2, <2>4 DEF Lone
    <3> QED BY <1>1, <2>2, <3>1
  <2>5. CASE AllPlaced(pages, psize, u, lookaside)
    <3>1. PICK j \in 1 .. Len(pages) :
            /\ lookaside[c].page = pages[j] /\ lookaside[c].off <= psize[pages[j]]
            /\ lookaside[c].pos = u[j - 1] + lookaside[c].off
            /\ lookaside[c].pos <= u[j]
      <4>1. OnPage(pages, psize, u, lookaside[c])
        BY <2>2, <2>5 DEF AllPlaced
      <4> QED BY <2>3, <4>1, PlaceOf
    <3>2. j = k
      BY <1>5, <2>2, <3>1, Geometry
    <3>3. PICK o, s, a : o = lookaside[c].off /\ s = psize[p] /\ a = u[k - 1]
      OBVIOUS
    <3>4. /\ o \in Nat /\ s \in Nat /\ a \in Nat /\ o <= s /\ a + s <= u[z]
      <4>1. k - 1 \in 0 .. Len(pages) /\ k \in 0 .. Len(pages)
        BY <1>3, <1>5
      <4>2. u[k] <= u[z] /\ u[k] = u[k - 1] + psize[pages[k]] /\ u[k - 1] \in Nat
        BY <1>3, <4>1, Geometry
      <4> QED BY <1>1, <1>5, <1>7, <2>3, <3>1, <3>2, <3>3, <4>2
    <3>5. o + n < SizeT
      <4>1. PICK l \in Nat : l = u[z]
        BY <1>5
      <4>2. a + o <= l /\ l + n < SizeT /\ SizeT \in Nat
        <5>1. l + n < SizeT /\ SizeT \in Nat
          BY <1>5, <4>1, BoundAssumption
        <5>2. a + s <= l /\ o <= s /\ a \in Nat /\ o \in Nat /\ s \in Nat
          BY <3>4, <4>1
        <5>3. a + o <= l
          BY <5>2
        <5> QED BY <5>1, <5>3
      <4>3. o \in Nat /\ a \in Nat /\ n \in Nat
        BY <3>4
      <4> QED BY <4>2, <4>3
    <3>6. Add(o, n) = o + n
      BY <3>4, <3>5, NoWrap
    <3>7. AfterInsert(lookaside[c], n).off = o + n
      <4>1. ~(lookaside[c].pos <= Me.pos)
        BY <1>1, <2>2, <2>3
      <4>2. AfterInsert(lookaside[c], n) =
              [lookaside[c] EXCEPT !.pos = Add(lookaside[c].pos, n), !.off = Add(lookaside[c].off, n)]
        BY <2>2, <4>1 DEF AfterInsert
      <4> QED BY <2>3, <3>3, <3>6, <4>2 DEF ClientData
    <3>8. o + n > s + n
      BY <2>2, <3>3, <3>7
    <3> QED BY <3>4, <3>8
  <2> QED BY <2>1, <2>4, <2>5
<1>15. CASE Overruns(n) # {}
  <2>1. call' = Ended(TRUE)
    BY <1>6, <1>15
  <2>2. call'.op = "idle"
    BY <2>1 DEF Ended
  <2>3. Budget(v[Len(pages')], call') /\ TailOK(pages', psize', lookaside', call')
    BY <1>3, <1>5, <1>6, <1>12, <2>2 DEF Budget, TailOK
  <2> QED BY <1>6, <1>8, <1>11, <1>14, <1>15, <2>3 DEF Follows
<1>16. CASE Overruns(n) = {}
  <2> DEFINE mine == [Me EXCEPT !.pos = Add(Me.pos, n), !.off = Me.off + n]
  <2>1. /\ lookaside' = [c \in DOMAIN lookaside |->
             IF c = call.client THEN mine ELSE AfterInsert(lookaside[c], n)]
        /\ size' = Add(size, n) /\ call' = [call EXCEPT !.len = @ - n]
    BY <1>6, <1>16
  <2>2. mine.page = p /\ mine.off = Me.off + n /\ mine.pos = Add(Me.pos, n)
    BY <1>1 DEF ClientData
  <2> HIDE DEF mine
  <2>3. Budget(v[Len(pages')], call')
    BY <1>3, <1>5, <1>6, <1>12, <2>1
  <2>4. size = u[Len(pages)] => size' = v[Len(pages')]
    BY <1>3, <1>5, <1>6, <1>12, <2>1
  <2>5. TailOK(pages', psize', lookaside', call')
    <3>1. SUFFICES ASSUME call'.back
                   PROVE  /\ lookaside'[call'.client].page = pages'[Len(pages') - 1]
                          /\ lookaside'[call'.client].off >= psize'[lookaside'[call'.client].page]
      BY DEF TailOK
    <3>2. call'.client = call.client /\ call'.back = call.back
      BY <1>1, <2>1 DEF Calls
    <3>3. Me.page = pages[Len(pages) - 1] /\ Me.off >= psize[p]
      BY <1>1, <3>1, <3>2 DEF Sound, TailOK
    <3>4. lookaside'[call'.client] = mine
      BY <1>1, <2>1, <3>2
    <3>5. psize'[p] = psize[p] + n /\ psize[p] \in Nat
      BY <1>1, <1>6, <1>7
    <3>6. Me.off + n >= psize[p] + n
      BY <1>1, <3>3, <3>5
    <3> QED BY <1>6, <2>2, <3>3, <3>4, <3>5, <3>6
  <2>6. ASSUME AllPlaced(pages, psize, u, lookaside), ~Drift, NEW c \in DOMAIN lookaside
        PROVE  OnPage(pages, w, v, lookaside'[c])
    <3>1. Me.pos = u[k - 1] + Me.off
      BY <1>13, <2>6
    <3>2. CASE c = call.client
      <4>1. lookaside'[c] = mine
        BY <2>1, <3>2
      <4>2. mine.off <= w[pages[k]]
        <5>1. w[pages[k]] = psize[p] + n /\ psize[p] \in Nat
          BY <1>1, <1>5, <1>7, <1>9 DEF Resized
        <5> QED BY <1>1, <2>2, <5>1
      <4>3. mine.pos = v[k - 1] + mine.off
        <5>1. PICK a, o : a = u[k - 1] /\ o = Me.off
          OBVIOUS
        <5>2. k - 1 \in 0 .. Len(pages) /\ k \in 0 .. Len(pages) /\ k - 1 < k
          BY <1>3, <1>5
        <5>3. a \in Nat /\ o \in Nat /\ v[k - 1] = a
          BY <1>1, <1>11, <5>1, <5>2, Geometry DEF Shifted
        <5>4. a + o + n < SizeT
          <6>1. u[k] <= u[z] /\ u[k] = u[k - 1] + psize[pages[k]]
            BY <1>3, <5>2, Geometry
          <6>2. PICK s \in Nat : s = psize[p]
            BY <1>1, <1>7
          <6>3. a + s <= u[z] /\ o <= s
            BY <1>1, <1>5, <5>1, <6>1, <6>2
          <6>4. PICK l \in Nat : l = u[z]
            BY <1>5
          <6>5. a + s <= l /\ o <= s /\ l + n < SizeT /\ SizeT \in Nat
            BY <1>5, <6>3, <6>4, BoundAssumption
          <6> QED BY <5>3, <6>2, <6>5
        <5>5. Add(a + o, n) = a + o + n
          BY <5>3, <5>4, NoWrap
        <5>6. a + o + n = a + (o + n)
          BY <5>3
        <5> QED BY <2>2, <3>1, <5>1, <5>3, <5>5, <5>6
      <4> QED BY <1>5, <2>2, <4>1, <4>2, <4>3, IsPlace
    <3>3. CASE c # call.client
      <4>1. lookaside'[c] = AfterInsert(lookaside[c], n)
        BY <2>1, <3>3
      <4>2. lookaside[c] \in ClientData /\ OnPage(pages, psize, u, lookaside[c])
        BY <1>1, <2>6 DEF AllPlaced, IInv, ClientsOK
      <4>3. Untwinned(lookaside[c])
        BY <1>1, <2>6, NoTwins
      <4>4. Me.page = pages[k] /\ Me.off <= psize[pages[k]] /\ u[Len(pages)] + n < SizeT
        BY <1>1, <1>3, <1>5
      <4> QED BY <1>1, <1>9, <1>11, <3>1, <4>1, <4>2, <4>3, <4>4, AfterInsertPlace
    <3> QED BY <3>2, <3>3
  <2>7. AllPlaced(pages, psize, u, lookaside)
          => AllPlaced(pages', psize', v, lookaside') \/ Drift
    BY <1>6, <1>8, <2>1, <2>6 DEF AllPlaced
  <2> QED BY <1>6, <1>8, <1>11, <2>3, <2>4, <2>5, <2>7 DEF Follows
<1> QED BY <1>15, <1>16

(* The clients behind bytes inserted where their page is split: those      *)
(* behind the place on the page go to the new page q.                      *)
Splitting(r, v, u, w, k, m, n, q) ==
  /\ Len(r) = Len(pages) + 1
  /\ \A j \in 1 .. Len(pages) : j <= k => r[j] = pages[j] /\ v[j - 1] = u[j - 1]
  /\ r[k + 1] = q /\ v[k] = u[k - 1] + (m + n)
  /\ \A j \in 1 .. Len(pages) : j > k => r[j + 1] = pages[j] /\ v[j] = u[j - 1] + n
  /\ w[pages[k]] = m + n /\ w[q] = psize[pages[k]] - m
  /\ \A j \in 1 .. Len(pages) : j # k => w[pages[j]] = psize[pages[j]]

LEMMA AfterSplitPlace ==
  ASSUME NEW u, Sound(u), NEW k \in 1 .. Len(pages), call.op # "idle", Me.page = pages[k],
         Me.pos = u[k - 1] + Me.off, Me.off <= psize[pages[k]],
         NEW n \in Nat, u[Len(pages)] + n < SizeT,
         NEW q, NEW r, NEW v, NEW w, Splitting(r, v, u, w, k, Me.off, n, q),
         NEW info \in ClientData, OnPage(pages, psize, u, info), Untwinned(info)
  PROVE  OnPage(r, w, v, AfterSplit(info, n, q))
<1>1. PICK j \in 1 .. Len(pages) :
           /\ info.page = pages[j] /\ info.off <= psize[pages[j]] /\ info.off \in Nat
           /\ info.pos = u[j - 1] + info.off /\ u[j - 1] \in Nat
           /\ j < k => info.pos <= Me.pos
           /\ j = k => (info.pos <= Me.pos <=> info.off <= Me.off) /\ info.page = Me.page
           /\ j > k => ~(info.pos <= Me.pos) /\ info.page # Me.page
           /\ Add(info.pos, n) = info.pos + n /\ Add(info.off, n) = info.off + n
           /\ j \in Nat /\ k \in Nat /\ (j < k \/ j = k \/ j > k)
  BY InsertOrder
<1>2. psize[pages[j]] \in Nat /\ Me.off \in Nat /\ Len(pages) \in Nat
  <2>1. Me.off \in Nat
    BY InCall DEF Sound
  <2> QED BY <2>1, Geometry
<1>3. PICK a, o, m, s : /\ a = u[j - 1] /\ o = info.off /\ m = Me.off /\ s = psize[pages[j]]
                        /\ a \in Nat /\ o \in Nat /\ m \in Nat /\ s \in Nat
                        /\ info.pos = a + o /\ o <= s
  BY <1>1, <1>2
<1>4. j \in 1 .. Len(r) /\ j + 1 \in 1 .. Len(r) /\ j + 1 - 1 = j
  <2>1. Len(r) = Len(pages) + 1
    BY DEF Splitting
  <2> QED BY <1>1, <1>2, <2>1
<1>5. PICK i \in 1 .. Len(r) : i = j + 1 /\ i - 1 = j
  BY <1>4
<1>6. CASE j <= k /\ info.pos <= Me.pos
  <2>1. AfterSplit(info, n, q) = info
    BY <1>6 DEF AfterSplit
  <2>2. r[j] = pages[j] /\ v[j - 1] = a
    BY <1>3, <1>6 DEF Splitting
  <2>3. info.off <= w[r[j]]
    <3>1. CASE j = k
      <4>1. w[r[j]] = m + n /\ o <= m
        BY <1>1, <1>3, <1>6, <2>2, <3>1 DEF Splitting
      <4>2. o <= m + n
        <5>1. o \in Nat /\ m \in Nat
          BY <1>3
        <5> QED BY <4>1, <5>1
      <4> QED BY <1>3, <4>1, <4>2
    <3>2. CASE j # k
      <4>1. w[r[j]] = s
        BY <1>3, <2>2, <3>2 DEF Splitting
      <4> QED BY <1>3, <4>1
    <3> QED BY <3>1, <3>2
  <2>4. info.pos = v[j - 1] + info.off /\ info.page = r[j]
    BY <1>1, <1>3, <2>2
  <2> QED BY <1>4, <2>1, <2>3, <2>4, IsPlace
<1>7. CASE j = k /\ ~(info.pos <= Me.pos)
  <2> DEFINE x == AfterSplit(info, n, q)
  <2>1. o > m
    BY <1>1, <1>3, <1>7
  <2>2. x = [page |-> q, off |-> o - m, pos |-> a + o + n]
    <3>1. info.off >= Me.off
      BY <1>3, <2>1
    <3> QED BY <1>1, <1>3, <1>7, <3>1 DEF AfterSplit
  <2>3. x.page = q /\ x.off = o - m /\ x.pos = a + o + n
    BY <2>2
  <2> HIDE DEF x
  <2>4. r[i] = q /\ v[i - 1] = a + (m + n) /\ w[q] = s - m
    BY <1>3, <1>5, <1>7 DEF Splitting
  <2>5. x.off <= w[r[i]]
    <3>1. o - m <= s - m
      <4>1. o \in Nat /\ m \in Nat /\ s \in Nat /\ o <= s
        BY <1>3
      <4> QED BY <4>1
    <3> QED BY <2>3, <2>4, <3>1
  <2>6. x.pos = v[i - 1] + x.off
    <3>1. a + o + n = a + (m + n) + (o - m)
      <4>1. a \in Nat /\ o \in Nat /\ m \in Nat
        BY <1>3
      <4> QED BY <4>1
    <3> QED BY <2>3, <2>4, <3>1
  <2>7. x.page = r[i]
    BY <2>3, <2>4
  <2> QED BY <2>5, <2>6, <2>7, IsPlace DEF x
<1>8. CASE j > k
  <2> DEFINE x == AfterSplit(info, n, q)
  <2>1. x = [info EXCEPT !.pos = Add(info.pos, n)]
    BY <1>1, <1>8 DEF AfterSplit
  <2>2. x.page = pages[j] /\ x.off = o /\ x.pos = a + o + n
    BY <1>1, <1>3, <2>1 DEF ClientData
  <2> HIDE DEF x
  <2>3. r[i] = pages[j] /\ v[i - 1] = a + n /\ w[pages[j]] = s
    <3>1. j # k
      BY <1>1, <1>8
    <3> QED BY <1>3, <1>5, <1>8, <3>1 DEF Splitting
  <2>4. x.off <= w[r[i]]
    BY <1>3, <2>2, <2>3
  <2>5. x.pos = v[i - 1] + x.off
    <3>1. a + o + n = a + n + o
      <4>1. a \in Nat /\ o \in Nat
        BY <1>3
      <4> QED BY <4>1
    <3> QED BY <2>2, <2>3, <3>1
  <2>6. x.page = r[i]
    BY <2>2, <2>3
  <2> QED BY <2>4, <2>5, <2>6, IsPlace DEF x
<1> QED BY <1>1, <1>6, <1>7, <1>8

(* A chunk that does not fit the page.                                     *)
LEMMA InsertSplitFollows ==
  ASSUME MaxSize < SizeT, NEW u, Sound(u), InsertSplit PROVE Follows(u)
<1> DEFINE p    == Me.page
           buf  == data[p]
<1>1. /\ In("i") /\ Valid /\ call.op # "idle" /\ call.pc = "i" /\ IInv
      /\ call.client \in DOMAIN lookaside /\ call \in Calls /\ Me = lookaside[call.client]
      /\ Me \in ClientData /\ Me.off \in Nat /\ Me.pos \in Nat /\ p \in PageId
      /\ InsertChunk \in Nat /\ buf \in Seq(Byte) /\ psize[p] = Len(buf) /\ Me.off <= psize[p]
      /\ Piece(InsertChunk) \in Seq(Byte) /\ Len(Piece(InsertChunk)) = InsertChunk
  BY InsertFacts DEF InsertSplit, Sound, Me
<1>2. PICK n \in Nat : n = InsertChunk
  BY <1>1
<1>3. PICK z \in Nat : z = Len(pages)
  BY Geometry
<1>4. PICK k \in 1 .. Len(pages) : k = Index(p)
  BY <1>1, <1>3, InsertRoom
<1>5. /\ k \in 2 .. z - 1 /\ pages[k] = p /\ u[z] \in Nat /\ u[z] + n < SizeT
      /\ Add(u[z], n) = u[z] + n
      /\ call' = [call EXCEPT !.len = @ - n] => Budget(u[z] + n, call')
  BY <1>1, <1>2, <1>3, <1>4, InsertRoom
<1>6. k \in Nat /\ 2 <= k /\ k <= z - 1 /\ k < z /\ Len(pages) = z
  BY <1>3, <1>5
<1>7. PICK q : q = NewPage /\ q \in PageId /\ q \notin Range(pages) /\ q # p
  <2>1. NewPage \in Unused
    BY DEF InsertSplit, NewPage
  <2>2. p \in Range(pages)
    BY <1>1, InCall
  <2> QED BY <2>1, <2>2 DEF Unused
<1>8. /\ pages' = InsertAt(pages, k + 1, q)
      /\ psize' = [psize EXCEPT ![p] = Len(SubSeq(buf, 1, Me.off) \o Piece(n)),
                                ![q] = Len(SubSeq(buf, Me.off + 1, Len(buf)))]
      /\ lookaside' = [c \in DOMAIN lookaside |->
           IF c = call.client THEN [page |-> q, off |-> 0, pos |-> Add(Me.pos, n)]
                              ELSE AfterSplit(lookaside[c], n, q)]
      /\ size' = Add(size, n) /\ call' = [call EXCEPT !.len = @ - n]
  BY <1>2, <1>4, <1>7 DEF InsertSplit
<1>9. PICK m \in Nat, s \in Nat : m = Me.off /\ s = psize[p] /\ m <= s
  BY <1>1, LenProperties
<1>10. psize' = [psize EXCEPT ![p] = m + n, ![q] = s - m] /\ s - m \in Nat /\ m + n \in Nat
  <2>1. /\ SubSeq(buf, 1, Me.off) \in Seq(Byte) /\ Len(SubSeq(buf, 1, Me.off)) = m
        /\ Len(SubSeq(buf, Me.off + 1, Len(buf))) = s - m
    <3>1. buf \in Seq(Byte) /\ m <= Len(buf) /\ m = Me.off /\ s = Len(buf)
      BY <1>1, <1>9
    <3> HIDE DEF buf
    <3> QED BY <3>1, HalvesOfSeq
  <2>2. Len(SubSeq(buf, 1, Me.off) \o Piece(n)) = m + n
    <3>1. PICK t \in Seq(Byte) : t = SubSeq(buf, 1, Me.off)
      BY <2>1
    <3>2. PICK r \in Seq(Byte) : r = Piece(n) /\ Len(r) = n
      BY <1>1, <1>2
    <3>3. Len(t \o r) = Len(t) + Len(r)
      BY ConcatProperties
    <3> QED BY <2>1, <3>1, <3>2, <3>3
  <2>3. s - m \in Nat
    BY <1>9
  <2>4. psize' = [psize EXCEPT ![p] = m + n, ![q] = s - m]
    BY <1>8, <2>1, <2>2
  <2>5. m + n \in Nat
    OBVIOUS
  <2> QED BY <2>3, <2>4, <2>5
<1>11. /\ pages \in Seq(PageId) /\ psize \in [PageId -> Nat] /\ Ends(u, pages, psize)
       /\ Distinct(pages)
  BY DEF Sound, IInv, ListOK, StoreOK
<1>12. PICK w : w = psize' /\ w[p] = m + n /\ w[q] = s - m
                /\ \A x \in PageId : x # p /\ x # q => w[x] = psize[x]
  BY <1>1, <1>7, <1>10, <1>11
<1>13. \A j \in 1 .. Len(pages) : j # k => w[pages[j]] = psize[pages[j]]
  <2>1. SUFFICES ASSUME NEW j \in 1 .. Len(pages), j # k
                 PROVE  pages[j] \in PageId /\ pages[j] # p /\ pages[j] # q
    BY <1>12
  <2>2. pages[j] \in PageId /\ pages[j] \in Range(pages) /\ pages[j] # pages[k]
    BY <2>1, Geometry
  <2>3. pages[k] = p
    BY <1>5
  <2> QED BY <1>7, <2>2, <2>3
<1>14. PICK a \in Nat, b \in Nat : a = m + n /\ b = s - m
  BY <1>10
<1>15. Parted(pages, psize, k, q, a, b, n, w)
  <2>1. a + b = s + n
    <3>1. m + n + (s - m) = s + n
      BY <1>9
    <3> QED BY <1>14, <3>1
  <2>2. psize[pages[k]] = s /\ w[pages[k]] = a /\ w[q] = b
    BY <1>5, <1>9, <1>12, <1>14
  <2>3. \A j \in 1 .. Len(pages) : j # k => w[pages[j]] = psize[pages[j]]
    BY <1>13
  <2> QED BY <2>1, <2>2, <2>3 DEF Parted
<1>16. PICK v : v = Widened(u, k, a, n)
  OBVIOUS
<1>17. /\ Ends(v, pages', w)
       /\ \A j \in 0 .. Len(pages) : j < k => v[j] = u[j]
       /\ v[k] = u[k - 1] + a
       /\ \A j \in 1 .. Len(pages) + 1 : j > k => v[j] = u[j - 1] + n
  <2>1. /\ Ends(Widened(u, k, a, n), InsertAt(pages, k + 1, q), w)
        /\ Stretched(u, Widened(u, k, a, n), Len(pages), k, a, n)
    BY <1>7, <1>11, <1>15, EndsWidened
  <2> QED BY <1>8, <1>16, <2>1 DEF Stretched
<1>18. /\ Len(pages') = z + 1
       /\ \A j \in 1 .. z + 1 :
            pages'[j] = IF j < k + 1 THEN pages[j] ELSE IF j = k + 1 THEN q ELSE pages[j - 1]
  <2>1. PICK i \in 1 .. Len(pages) + 1 : i = k + 1
    BY <1>3, <1>5
  <2>2. Inserted(InsertAt(pages, i, q), pages, i, q)
    <3>1. q \in PageId /\ pages \in Seq(PageId)
      BY <1>7, <1>11
    <3> QED BY <3>1, ListInserted
  <2>3. Inserted(pages', pages, k + 1, q)
    BY <1>8, <2>1, <2>2
  <2> QED BY <1>3, <2>3 DEF Inserted
<1>19. Splitting(pages', v, u, w, k, m, n, q)
  <2>1. ASSUME NEW j \in 1 .. Len(pages), j <= k
        PROVE  pages'[j] = pages[j] /\ v[j - 1] = u[j - 1]
    <3>1. j \in 1 .. z + 1 /\ j < k + 1 /\ j - 1 \in 0 .. Len(pages) /\ j - 1 < k
      BY <1>6, <2>1
    <3> QED BY <1>17, <1>18, <3>1
  <2>2. pages'[k + 1] = q
    <3>1. k + 1 \in 1 .. z + 1 /\ ~(k + 1 < k + 1)
      BY <1>6
    <3> QED BY <1>18, <3>1
  <2>3. ASSUME NEW j \in 1 .. Len(pages), j > k
        PROVE  pages'[j + 1] = pages[j] /\ v[j] = u[j - 1] + n
    <3>1. /\ j + 1 \in 1 .. z + 1 /\ ~(j + 1 < k + 1) /\ j + 1 # k + 1 /\ j + 1 - 1 = j
          /\ j \in 1 .. Len(pages) + 1
      BY <1>6, <2>3
    <3> QED BY <1>17, <1>18, <2>3, <3>1
  <2> QED BY <1>3, <1>5, <1>9, <1>12, <1>13, <1>14, <1>17, <1>18, <2>1, <2>2, <2>3 DEF Splitting
<1>20. v[Len(pages')] = u[z] + n
  <2>1. z + 1 \in 1 .. Len(pages) + 1 /\ z + 1 > k /\ z + 1 - 1 = z
    BY <1>6
  <2> QED BY <1>17, <1>18, <2>1
<1>21. Budget(v[Len(pages')], call')
  BY <1>5, <1>8, <1>20
<1>22. size = u[Len(pages)] => size' = v[Len(pages')]
  BY <1>3, <1>5, <1>8, <1>20
<1> DEFINE mine == [page |-> q, off |-> 0, pos |-> Add(Me.pos, n)]
<1>23. TailOK(pages', psize', lookaside', call')
  <2>1. SUFFICES ASSUME call'.back
                 PROVE  /\ lookaside'[call'.client].page = pages'[Len(pages') - 1]
                        /\ lookaside'[call'.client].off >= psize'[lookaside'[call'.client].page]
    BY DEF TailOK
  <2>2. call'.client = call.client /\ call'.back = call.back
    BY <1>1, <1>8 DEF Calls
  <2>3. p = pages[Len(pages) - 1] /\ m >= s
    BY <1>1, <1>9, <2>1, <2>2 DEF Sound, TailOK
  <2>4. k + 1 = Len(pages') - 1
    <3>1. Len(pages) - 1 \in 1 .. Len(pages)
      BY <1>6
    <3>2. k = Len(pages) - 1
      BY <1>5, <2>3, <3>1, Geometry
    <3>3. k + 1 = z + 1 - 1 /\ Len(pages') = z + 1
      BY <1>6, <1>18, <3>2
    <3> QED BY <3>3
  <2>5. pages'[k + 1] = q
    BY <1>19 DEF Splitting
  <2>6. s - m = 0
    BY <1>9, <2>3
  <2>7. lookaside'[call'.client] = mine
    BY <1>1, <1>8, <2>2
  <2>8. mine.page = q /\ mine.off = 0
    OBVIOUS
  <2> HIDE DEF mine
  <2> QED BY <1>12, <2>4, <2>5, <2>6, <2>7, <2>8
<1>24. ASSUME AllPlaced(pages, psize, u, lookaside), ~Drift, NEW c \in DOMAIN lookaside
       PROVE  OnPage(pages', w, v, lookaside'[c])
  <2>1. Me.pos = u[k - 1] + m
    <3>1. PICK j \in 1 .. Len(pages) : Me.page = pages[j] /\ Me.pos = u[j - 1] + Me.off
      BY <1>1, <1>24 DEF AllPlaced, OnPage
    <3>2. j = k
      BY <1>5, <3>1, Geometry
    <3> QED BY <1>9, <3>1, <3>2
  <2>2. CASE c = call.client
    <3>1. lookaside'[c] = mine
      BY <1>8, <2>2
    <3>2. mine.page = q /\ mine.off = 0 /\ mine.pos = Add(Me.pos, n)
      OBVIOUS
    <3> HIDE DEF mine
    <3>3. PICK i \in 1 .. Len(pages') : i = k + 1 /\ i - 1 = k
      <4>1. k + 1 \in 1 .. z + 1 /\ k + 1 - 1 = k /\ Len(pages') = z + 1
        BY <1>6, <1>18
      <4> QED BY <4>1
    <3>4. pages'[i] = q
      BY <1>19, <3>3 DEF Splitting
    <3>5. PICK d \in Nat : d = u[k - 1]
      <4>1. k - 1 \in 0 .. Len(pages)
        BY <1>6
      <4> QED BY <4>1, Geometry
    <3>6. Add(d + m, n) = d + m + n
      <4>1. k \in 0 .. Len(pages)
        BY <1>6
      <4>2. u[k] <= u[z] /\ u[k] = d + s
        <5>1. pages[k] = p
          BY <1>5
        <5>2. u[k] <= u[Len(pages)] /\ u[k] = u[k - 1] + psize[pages[k]]
          BY <4>1, Geometry
        <5> QED BY <1>3, <1>9, <3>5, <5>1, <5>2
      <4>3. PICK l \in Nat : l = u[z]
        BY <1>5
      <4>4. d + s <= l /\ l + n < SizeT /\ SizeT \in Nat
        BY <1>5, <4>2, <4>3, BoundAssumption
      <4>5. d + m + n < SizeT
        <5>1. m <= s
          BY <1>9
        <5> QED BY <4>4, <5>1
      <4>6. d + m \in Nat
        OBVIOUS
      <4> QED BY <4>5, <4>6, NoWrap
    <3>7. mine.pos = v[i - 1] + mine.off
      <4>1. v[k] = d + a
        BY <1>17, <3>5
      <4>2. d + m + n = d + a + 0
        BY <1>14
      <4> QED BY <2>1, <3>2, <3>3, <3>5, <3>6, <4>1, <4>2
    <3>8. mine.off <= w[pages'[i]]
      BY <1>10, <1>12, <3>2, <3>4
    <3> QED BY <3>1, <3>2, <3>4, <3>7, <3>8, IsPlace
  <2>3. CASE c # call.client
    <3>1. lookaside'[c] = AfterSplit(lookaside[c], n, q)
      BY <1>8, <2>3
    <3>2. lookaside[c] \in ClientData /\ OnPage(pages, psize, u, lookaside[c])
      BY <1>1, <1>24 DEF AllPlaced, IInv, ClientsOK
    <3>3. Untwinned(lookaside[c])
      BY <1>1, <1>24, NoTwins
    <3>4. /\ Me.page = pages[k] /\ Me.off <= psize[pages[k]] /\ u[Len(pages)] + n < SizeT
          /\ Me.pos = u[k - 1] + Me.off /\ Splitting(pages', v, u, w, k, Me.off, n, q)
      BY <1>1, <1>3, <1>5, <1>9, <1>19, <2>1
    <3> QED BY <1>1, <3>1, <3>2, <3>3, <3>4, AfterSplitPlace
  <2> QED BY <2>2, <2>3
<1>25. AllPlaced(pages, psize, u, lookaside)
         => AllPlaced(pages', psize', v, lookaside') \/ Drift
  BY <1>8, <1>12, <1>24 DEF AllPlaced
<1> QED BY <1>12, <1>17, <1>21, <1>22, <1>23, <1>25 DEF Follows

-----------------------------------------------------------------------------
(* Saving and loading.                                                     *)

(* The byte o of a file is on the page of its number.                      *)
LEMMA PageOfByte ==
  ASSUME NEW o \in Nat
  PROVE  /\ o \div ISize \in Nat /\ (o \div ISize) * ISize \in Nat
         /\ (o \div ISize) * ISize <= o /\ o < (o \div ISize + 1) * ISize
<1> DEFINE q == o \div ISize
<1>1. ISize \in Nat \ {0}
  BY ConfigAssumption
<1>2. q \in Nat /\ q * ISize <= o
  BY <1>1, Z3
<1>3. o < (q + 1) * ISize
  BY <1>1, Z3
<1>4. q * ISize \in Nat
  <2> HIDE DEF q
  <2> QED BY <1>1, <1>2, Z3
<1> QED BY <1>2, <1>3, <1>4

LEMMA PagesInOrder ==
  ASSUME NEW j \in Nat, NEW k \in Nat, j <= k
  PROVE  j * ISize \in Nat /\ k * ISize \in Nat /\ j * ISize <= k * ISize
         /\ (k + 1) * ISize = k * ISize + ISize /\ ISize \in Nat
<1>1. ISize \in Nat
  BY ConfigAssumption
<1> QED BY <1>1, Z3

LEMMA SamePageOrder ==
  ASSUME NEW w \in Nat, NEW o \in Nat, w < o
  PROVE  w \div ISize <= o \div ISize
<1>1. PICK a \in Nat, b \in Nat : a = w \div ISize /\ b = o \div ISize
  BY PageOfByte
<1>2. a * ISize \in Nat /\ a * ISize <= w /\ o < (b + 1) * ISize
  BY <1>1, PageOfByte
<1>3. SUFFICES ASSUME b + 1 <= a PROVE FALSE
  BY <1>1
<1>4. (b + 1) * ISize \in Nat /\ (b + 1) * ISize <= a * ISize
  BY <1>3, PagesInOrder
<1> QED BY <1>2, <1>4

(* The ends of the pages that load makes.                                  *)
LoadedSums(n) == [k \in 0 .. PageCount(n) |-> IF k = 0 THEN 0 ELSE LoadedEnd(n, k)]

Loading(n, v, z) ==
  /\ z \in Nat /\ z >= 3 /\ z = n \div ISize + 3
  /\ v \in [0 .. z -> Nat] /\ v[0] = 0 /\ v[1] = 0 /\ v[z - 1] = n /\ v[z] = n
  /\ \A k \in 1 .. z : /\ v[k] = LoadedEnd(n, k) /\ v[k] <= n
                       /\ LoadedSize(n, k) \in Nat
                       /\ v[k] = v[k - 1] + LoadedSize(n, k)
  /\ \A k \in 2 .. z - 1 : v[k - 1] = (k - 2) * ISize

LEMMA LoadedGeometry ==
  ASSUME NEW n \in Nat PROVE Loading(n, LoadedSums(n), PageCount(n))
<1> DEFINE v == LoadedSums(n)
           E(k) == LoadedEnd(n, k)
           S(k) == LoadedSize(n, k)
<1>1. PICK q \in Nat : q = n \div ISize /\ q * ISize \in Nat /\ q * ISize <= n /\ n < (q + 1) * ISize
  BY PageOfByte
<1>2. PICK z \in Nat : z = PageCount(n) /\ z = q + 3
  BY <1>1 DEF PageCount
<1>3. PICK i \in Nat : i = ISize /\ i > 0
  BY ConfigAssumption
<1>4. ASSUME NEW k \in 2 .. z - 1
      PROVE  /\ (k - 2) * ISize \in Nat /\ (k - 2) * ISize <= n
             /\ (k - 1) * ISize = (k - 2) * ISize + i /\ (k - 1) * ISize \in Nat
  <2>1. PICK j \in Nat : j = k - 2 /\ j <= q /\ j + 1 = k - 1
    BY <1>2
  <2>2. /\ j * ISize \in Nat /\ j * ISize <= q * ISize /\ (j + 1) * ISize = j * ISize + ISize
    BY <2>1, PagesInOrder
  <2>3. j * ISize <= n
    BY <1>1, <2>2
  <2>4. (j + 1) * ISize \in Nat
    BY <1>3, <2>2
  <2> QED BY <1>3, <2>1, <2>2, <2>3, <2>4
<1>5. ASSUME NEW k \in 1 .. z
      PROVE  v[k] = E(k) /\ k \in 0 .. z /\ k - 1 \in 0 .. z
  BY <1>2 DEF LoadedSums
<1>6. v[0] = 0 /\ E(1) = 0 /\ S(1) = 0
  <2>1. v[0] = 0
    BY <1>2 DEF LoadedSums
  <2>2. 1 \notin 2 .. PageCount(n) - 1
    BY <1>2
  <2> QED BY <2>1, <2>2 DEF LoadedEnd, LoadedSize
<1>7. ASSUME NEW k \in 2 .. z - 1
      PROVE  /\ v[k - 1] = (k - 2) * ISize /\ E(k) \in Nat /\ E(k) <= n
             /\ S(k) \in Nat /\ E(k) = (k - 2) * ISize + S(k)
  <2>1. PICK b \in Nat : b = (k - 2) * ISize /\ b <= n /\ (k - 1) * ISize = b + i
    BY <1>4
  <2>2. E(k) = Least(b + i, n)
    BY <1>7, <2>1 DEF LoadedEnd
  <2>3. S(k) = Least(n - b, i)
    BY <1>2, <1>3, <2>1 DEF LoadedSize
  <2>4. S(k) \in Nat /\ E(k) \in Nat /\ E(k) <= n /\ E(k) = b + S(k)
    BY <2>1, <2>2, <2>3 DEF Least
  <2>5. v[k - 1] = b
    <3>1. CASE k = 2
      <4>1. v[1] = 0
        <5>1. 1 \in 1 .. z
          BY <1>2
        <5> QED BY <1>5, <1>6, <5>1
      <4>2. (2 - 2) * ISize = 0
        BY <1>3
      <4>3. k - 1 = 1 /\ k - 2 = 2 - 2
        BY <3>1
      <4> QED BY <2>1, <4>1, <4>2, <4>3
    <3>2. CASE k # 2
      <4>1. k - 1 \in 1 .. z /\ k - 1 # 1 /\ k - 1 - 1 = k - 2
        BY <1>2, <3>2
      <4>2. v[k - 1] = E(k - 1)
        BY <1>5, <4>1
      <4>3. E(k - 1) = Least(b, n)
        BY <2>1, <4>1 DEF LoadedEnd
      <4>4. Least(b, n) = b
        BY <2>1 DEF Least
      <4> QED BY <4>2, <4>3, <4>4
    <3> QED BY <3>1, <3>2
  <2> QED BY <2>1, <2>4, <2>5
<1>8. E(z - 1) = n /\ E(z) = n /\ S(z) = 0
  <2>1. (q + 1) * ISize \in Nat /\ (q + 2) * ISize \in Nat /\ (q + 1) * ISize <= (q + 2) * ISize
    BY PagesInOrder
  <2>2. z - 1 - 1 = q + 1 /\ z - 1 = q + 2 /\ z - 1 # 1 /\ z # 1
    BY <1>2
  <2>3. E(z - 1) = Least((q + 1) * ISize, n) /\ E(z) = Least((q + 2) * ISize, n)
    BY <2>2 DEF LoadedEnd
  <2>4. z \notin 2 .. PageCount(n) - 1
    BY <1>2
  <2>5. S(z) = 0
    BY <2>4 DEF LoadedSize
  <2> QED BY <1>1, <2>1, <2>3, <2>5 DEF Least
<1> HIDE DEF E, S
<1>9. ASSUME NEW k \in 1 .. z
      PROVE  E(k) \in Nat /\ E(k) <= n /\ S(k) \in Nat /\ E(k) = v[k - 1] + S(k)
  <2>1. CASE k = 1
    BY <1>6, <2>1
  <2>2. CASE k = z
    <3>1. z - 1 \in 1 .. z
      BY <1>2
    <3>2. v[z - 1] = n
      BY <1>5, <1>8, <3>1
    <3> QED BY <1>8, <2>2, <3>2
  <2>3. CASE k \in 2 .. z - 1
    BY <1>7, <2>3
  <2>4. k = 1 \/ k = z \/ k \in 2 .. z - 1
    BY <1>2
  <2> QED BY <2>1, <2>2, <2>3, <2>4
<1>10. v = [k \in 0 .. z |-> v[k]]
  BY <1>2 DEF LoadedSums
<1> HIDE DEF v
<1>11. ASSUME NEW k \in 0 .. z PROVE v[k] \in Nat
  <2>1. k = 0 \/ k \in 1 .. z
    BY <1>2
  <2> QED BY <1>5, <1>6, <1>9, <2>1
<1>12. v \in [0 .. z -> Nat]
  BY <1>10, <1>11
<1>13. v[1] = 0 /\ v[z - 1] = n /\ v[z] = n
  <2>1. 1 \in 1 .. z /\ z - 1 \in 1 .. z /\ z \in 1 .. z
    BY <1>2
  <2> QED BY <1>5, <1>6, <1>8, <2>1
<1>14. z \in Nat /\ z >= 3 /\ z = n \div ISize + 3
  BY <1>1, <1>2
<1>15. Loading(n, v, z)
  BY <1>5, <1>6, <1>7, <1>9, <1>12, <1>13, <1>14 DEF E, S, Loading
<1> QED BY <1>2, <1>15 DEF v

(* The scan of load finds the page of every position, when no page has     *)
(* more than one of them.                                                  *)
Spread == \A m, o \in Positions : m # o => m \div ISize # o \div ISize

LEMMA PageTakes ==
  ASSUME NEW n \in Nat, NEW o \in Nat, o < n
  PROVE  LET k == o \div ISize + 2
         IN /\ k \in 2 .. PageCount(n) - 1 /\ o < LoadedEnd(n, k)
            /\ \A j \in 1 .. k - 1 : LoadedEnd(n, j) <= o
<1>1. PICK a \in Nat : a = o \div ISize /\ a * ISize \in Nat /\ a * ISize <= o /\ o < (a + 1) * ISize
  BY PageOfByte
<1>2. PICK q \in Nat : q = n \div ISize
  BY PageOfByte
<1>3. a <= q /\ PageCount(n) = q + 3
  BY <1>1, <1>2, SamePageOrder DEF PageCount
<1>4. LoadedEnd(n, a + 2) = Least((a + 1) * ISize, n)
  <2>1. a + 2 # 1 /\ a + 2 - 1 = a + 1
    BY <1>1
  <2> QED BY <2>1 DEF LoadedEnd
<1>5. o < LoadedEnd(n, a + 2)
  BY <1>1, <1>4 DEF Least
<1>6. ASSUME NEW j \in 1 .. a + 1 PROVE LoadedEnd(n, j) <= o
  <2>1. CASE j = 1
    BY <2>1 DEF LoadedEnd
  <2>2. CASE j # 1
    <3>1. j - 1 \in Nat /\ j - 1 <= a
      BY <1>6, <2>2
    <3>2. PICK b \in Nat : b = (j - 1) * ISize /\ b <= a * ISize
      BY <1>1, <3>1, PagesInOrder
    <3>3. LoadedEnd(n, j) = Least(b, n)
      BY <2>2, <3>2 DEF LoadedEnd
    <3>4. b <= o
      BY <1>1, <3>2
    <3> QED BY <3>3, <3>4 DEF Least
  <2> QED BY <2>1, <2>2
<1>7. a + 2 \in 2 .. PageCount(n) - 1 /\ a + 2 - 1 = a + 1
  BY <1>3
<1> QED BY <1>1, <1>5, <1>6, <1>7

LEMMA EndRange ==
  ASSUME NEW n \in Nat, NEW k \in 1 .. PageCount(n)
  PROVE  LoadedEnd(n, k) \in Nat /\ LoadedEnd(n, k) <= n
<1>1. PICK v, z : v = LoadedSums(n) /\ z = PageCount(n)
  OBVIOUS
<1>2. Loading(n, v, z)
  BY <1>1, LoadedGeometry
<1>3. k \in 1 .. z /\ k \in 0 .. z
  BY <1>1, <1>2 DEF Loading
<1>4. v[k] \in Nat
  BY <1>2, <1>3 DEF Loading
<1> QED BY <1>2, <1>3, <1>4 DEF Loading

LEMMA ScanFinds ==
  ASSUME Positions \subseteq Nat, Spread, NEW n \in Nat,
         NEW at \in [Positions -> 1 .. PageCount(n) + 1], MergeScan(n, at),
         NEW p \in Positions
  PROVE  /\ p < n => at[p] = p \div ISize + 2
         /\ p = n => at[p] = PageCount(n) + 1
<1> DEFINE Takes(o, k) == o < LoadedEnd(n, k) /\ \A u \in Positions : u < o => at[u] < k
           Wrong == {o \in Positions : o < n /\ at[o] # o \div ISize + 2}
<1>1. PICK z \in Nat : z = PageCount(n)
  BY LoadedGeometry DEF Loading
<1>2. ASSUME NEW o \in Positions
      PROVE  /\ at[o] \in 1 .. z + 1 /\ at[o] <= z => Takes(o, at[o])
             /\ \A k \in 1 .. at[o] - 1 : ~Takes(o, k)
  BY <1>1 DEF MergeScan
<1>3. Wrong = {}
  <2>1. SUFFICES ASSUME Wrong # {} PROVE FALSE
    OBVIOUS
  <2>2. PICK o \in Wrong : \A j \in Wrong : o <= j
    <3>1. Wrong \subseteq Nat
      OBVIOUS
    <3> HIDE DEF Wrong
    <3> QED BY <2>1, <3>1, LeastNumber
  <2>3. o \in Positions /\ o \in Nat /\ o < n /\ at[o] # o \div ISize + 2
    OBVIOUS
  <2>4. \A w \in Positions : w < o => at[w] = w \div ISize + 2
    <3>1. SUFFICES ASSUME NEW w \in Positions, w < o, at[w] # w \div ISize + 2 PROVE FALSE
      OBVIOUS
    <3>2. w \in Nat /\ w < n
      BY <2>3, <3>1
    <3>3. w \in Wrong
      BY <3>1, <3>2
    <3>4. o <= w
      BY <2>2, <3>3
    <3> QED BY <2>3, <3>1, <3>2, <3>4
  <2> HIDE DEF Wrong
  <2>5. PICK k \in 2 .. z - 1 :
          /\ k = o \div ISize + 2 /\ o < LoadedEnd(n, k)
          /\ \A j \in 1 .. k - 1 : LoadedEnd(n, j) <= o
    BY <1>1, <2>3, PageTakes
  <2>6. Takes(o, k)
    <3>1. ASSUME NEW w \in Positions, w < o PROVE at[w] < k
      <4>1. w \in Nat
        OBVIOUS
      <4>2. PICK a \in Nat, b \in Nat : a = w \div ISize /\ b = o \div ISize
        BY <2>3, <4>1, PageOfByte
      <4>3. a <= b
        BY <2>3, <3>1, <4>1, <4>2, SamePageOrder
      <4>4. w # o
        BY <2>3, <3>1, <4>1
      <4>5. a # b
        BY <2>3, <4>2, <4>4 DEF Spread
      <4>6. at[w] = a + 2 /\ k = b + 2
        BY <2>4, <2>5, <3>1, <4>2
      <4> QED BY <4>3, <4>5, <4>6
    <3> QED BY <2>5, <3>1
  <2>7. PICK m \in 1 .. z + 1 : m = at[o]
    <3>1. at[o] \in 1 .. z + 1
      BY <1>1, <2>3
    <3> QED BY <3>1
  <2>8. m <= k
    <3>1. k \notin 1 .. m - 1
      BY <1>2, <2>3, <2>6, <2>7
    <3> QED BY <3>1
  <2>9. Takes(o, m)
    <3>1. m <= z
      BY <2>8
    <3> QED BY <1>2, <2>3, <2>7, <3>1
  <2>10. m \notin 1 .. k - 1
    <3>1. o < LoadedEnd(n, m)
      BY <2>9
    <3>2. SUFFICES ASSUME m \in 1 .. k - 1 PROVE FALSE
      OBVIOUS
    <3>3. LoadedEnd(n, m) <= o
      BY <2>5, <3>2
    <3>4. LoadedEnd(n, m) \in Int
      <4>1. m \in 1 .. PageCount(n)
        BY <1>1, <2>5, <3>2
      <4> QED BY <4>1, EndRange
    <3> QED BY <2>3, <3>1, <3>3, <3>4
  <2>11. m = k
    BY <2>8, <2>10
  <2> QED BY <2>3, <2>5, <2>7, <2>11
<1>4. ASSUME p < n PROVE at[p] = p \div ISize + 2
  <2>1. p \notin Wrong
    BY <1>3
  <2> QED BY <1>4, <2>1
<1>5. ASSUME p = n PROVE at[p] = z + 1
  <2>1. SUFFICES ASSUME at[p] \in 1 .. z PROVE FALSE
    <3>1. at[p] \in 1 .. z + 1
      BY <1>1
    <3> QED BY <3>1
  <2>2. p < LoadedEnd(n, at[p])
    BY <1>2, <2>1
  <2>3. PICK e \in Nat : e = LoadedEnd(n, at[p]) /\ e <= n
    <3>1. LoadedEnd(n, at[p]) \in Nat /\ LoadedEnd(n, at[p]) <= n
      BY <1>1, <2>1, EndRange
    <3> QED BY <3>1
  <2> QED BY <1>5, <2>2, <2>3
<1> QED BY <1>1, <1>4, <1>5

(* So load puts a client where it was: on the page of its position, or at  *)
(* the end of the file.                                                    *)
LEMMA PlacedPlace ==
  ASSUME Positions \subseteq Nat, Spread, NEW n \in Nat, n < SizeT,
         NEW at \in [Positions -> 1 .. PageCount(n) + 1], MergeScan(n, at),
         NEW info \in ClientData, info.pos \in Positions, info.pos <= n,
         NEW pg, NEW ps, Len(pg) = PageCount(n),
         \A k \in 1 .. PageCount(n) : pg[k] = k /\ ps[k] = LoadedSize(n, k)
  PROVE  OnPage(pg, ps, LoadedSums(n), Placed(n, at, info))
<1> DEFINE moved == Placed(n, at, info)
<1>1. PICK p \in Nat : p = info.pos /\ p \in Positions /\ p <= n
  OBVIOUS
<1>2. PICK v, z : v = LoadedSums(n) /\ z = PageCount(n) /\ Loading(n, v, z)
  BY LoadedGeometry
<1>3. /\ z \in Nat /\ z >= 3 /\ v \in [0 .. z -> Nat] /\ v[1] = 0 /\ v[z - 1] = n
      /\ \A k \in 1 .. z : v[k] = LoadedEnd(n, k) /\ LoadedSize(n, k) \in Nat
                            /\ v[k] = v[k - 1] + LoadedSize(n, k)
      /\ \A k \in 2 .. z - 1 : v[k - 1] = (k - 2) * ISize
  BY <1>2 DEF Loading
<1>4. CASE p < n
  <2>1. PICK k \in 2 .. z - 1 : k = p \div ISize + 2 /\ p < LoadedEnd(n, k) /\ at[p] = k
    <3>1. at[p] = p \div ISize + 2
      <4>1. p \in Positions
        BY <1>1
      <4> QED BY <1>4, <4>1, ScanFinds
    <3>2. PICK h : h = p \div ISize + 2
      OBVIOUS
    <3>3. h \in 2 .. z - 1 /\ p < LoadedEnd(n, h)
      BY <1>1, <1>2, <1>4, <3>2, PageTakes
    <3> QED BY <3>1, <3>2, <3>3
  <2>2. PICK b \in Nat, e \in Nat, s \in Nat :
          /\ b = v[k - 1] /\ e = v[k] /\ s = LoadedSize(n, k) /\ e = LoadedEnd(n, k)
          /\ e = b + s /\ b = (k - 2) * ISize
    <3>1. k \in 1 .. z /\ k \in 0 .. z /\ k - 1 \in 0 .. z
      <4>1. k \in 2 .. z - 1 /\ z \in Nat
        BY <1>3
      <4> QED BY <4>1
    <3>2. v[k - 1] \in Nat /\ v[k] \in Nat
      BY <1>3, <3>1
    <3>3. /\ v[k] = LoadedEnd(n, k) /\ LoadedSize(n, k) \in Nat
          /\ v[k] = v[k - 1] + LoadedSize(n, k) /\ v[k - 1] = (k - 2) * ISize
      BY <1>3, <3>1
    <3> QED BY <3>2, <3>3
  <2>3. b <= p
    <3>1. b = (p \div ISize) * ISize
      <4>1. b = (k - 2) * ISize
        BY <2>2
      <4>2. p \div ISize \in Nat
        BY <1>1, PageOfByte
      <4>3. k - 2 = p \div ISize
        BY <2>1, <4>2
      <4> QED BY <4>1, <4>3
    <3> QED BY <1>1, <3>1, PageOfByte
  <2>4. PICK o \in Nat : o = p - b /\ o <= s /\ p = b + o
    <3>1. p < e /\ e = b + s
      BY <2>1, <2>2
    <3>2. p - b \in Nat /\ p - b <= s /\ p = b + (p - b)
      BY <2>3, <3>1
    <3> QED BY <3>2
  <2>5. Sub(p, LoadedEnd(n, k) - LoadedSize(n, k)) = o
    <3>1. LoadedEnd(n, k) - LoadedSize(n, k) = b /\ p < SizeT
      <4>1. e - s = b
        <5>1. e = b + s
          BY <2>2
        <5> QED BY <5>1
      <4>2. p < SizeT
        BY <1>1, BoundAssumption
      <4> QED BY <2>2, <4>1, <4>2
    <3>2. Sub(p, b) = p - b
      BY <2>3, <3>1, NoWrap
    <3> QED BY <2>4, <3>1, <3>2
  <2>6. moved = [info EXCEPT !.page = k, !.off = o]
    <3>1. k <= PageCount(n) /\ at[info.pos] = k
      BY <1>1, <1>2, <1>3, <2>1
    <3> QED BY <1>1, <2>5, <3>1 DEF Placed
  <2>7. moved.page = k /\ moved.off = o /\ moved.pos = p
    BY <1>1, <2>6 DEF ClientData
  <2>8. k \in 1 .. PageCount(n) /\ k \in 1 .. Len(pg)
    <3>1. k \in 1 .. z
      <4>1. k \in 2 .. z - 1 /\ z \in Nat
        BY <1>3
      <4> QED BY <4>1
    <3> QED BY <1>2, <3>1
  <2>9. pg[k] = k /\ ps[k] = s
    BY <2>2, <2>8
  <2> HIDE DEF moved
  <2>10. OnPage(pg, ps, v, moved)
    BY <2>2, <2>4, <2>7, <2>8, <2>9, IsPlace
  <2> QED BY <1>2, <1>3, <2>10 DEF moved
<1>5. CASE p = n
  <2>1. PICK k : k = IF n > 0 THEN z ELSE 2
    OBVIOUS
  <2>2. moved = [info EXCEPT !.page = k, !.off = 0]
    <3>1. at[info.pos] = z + 1
      <4>1. at[p] = PageCount(n) + 1
        BY <1>1, <1>5, ScanFinds
      <4> QED BY <1>1, <1>2, <4>1
    <3>2. ~(z + 1 <= PageCount(n))
      BY <1>2, <1>3
    <3> QED BY <1>2, <1>3, <2>1, <3>1, <3>2 DEF Placed
  <2>3. moved.page = k /\ moved.off = 0 /\ moved.pos = p
    BY <1>1, <2>2 DEF ClientData
  <2>4. k \in 1 .. z /\ v[k - 1] = p
    <3>1. CASE n > 0
      <4>1. k = z /\ z \in 1 .. z
        BY <1>3, <2>1, <3>1
      <4> QED BY <1>3, <1>5, <4>1
    <3>2. CASE ~(n > 0)
      <4>1. k = 2 /\ 2 \in 1 .. z /\ 2 - 1 = 1 /\ n = 0
        BY <1>3, <2>1, <3>2
      <4> QED BY <1>3, <1>5, <4>1
    <3> QED BY <3>1, <3>2
  <2>5. pg[k] = k /\ ps[k] \in Nat /\ k \in 1 .. Len(pg)
    BY <1>2, <1>3, <2>4
  <2> HIDE DEF moved
  <2>6. moved.off <= ps[pg[k]] /\ moved.pos = v[k - 1] + moved.off
    BY <1>1, <2>3, <2>4, <2>5
  <2>7. OnPage(pg, ps, v, moved)
    BY <2>3, <2>5, <2>6, IsPlace
  <2> QED BY <1>2, <1>3, <2>7 DEF moved
<1>6. p < n \/ p = n
  BY <1>1
<1> QED BY <1>4, <1>5, <1>6

(* A load that finds the pages as they were written, or no client.         *)
LEMMA LoadFollows ==
  ASSUME NEW u, Sound(u), NEW image \in Seq(Byte), Free, UNCHANGED call, Load(image)
  PROVE  Follows(u)
<1>1. PICK n \in Nat : n = Len(image) /\ n < SizeT /\ PageCount(n) <= MaxPages
  BY LenProperties DEF Load
<1>2. pages' = LoadedPages(n) /\ psize' = LoadedSizes(n) /\ size' = n
  BY <1>1 DEF Load
<1>3. PICK at \in [Positions -> 1 .. PageCount(n) + 1] :
        /\ MergeScan(n, at)
        /\ lookaside' = [c \in DOMAIN lookaside |-> Placed(n, at, lookaside[c])]
  BY <1>1 DEF Load
<1>4. PICK z \in Nat : z = PageCount(n) /\ z >= 3
  BY LoadedGeometry DEF Loading
<1>5. /\ pages' \in Seq(PageId) /\ Len(pages') = z /\ psize' \in [PageId -> Nat]
      /\ \A k \in 1 .. z : pages'[k] = k /\ k \in PageId /\ psize'[k] = LoadedSize(n, k)
  <2>1. /\ LoadedPages(n) \in Seq(PageId) /\ Len(LoadedPages(n)) = z
        /\ LoadedSizes(n) \in [PageId -> Nat]
        /\ \A k \in 1 .. z : LoadedPages(n)[k] = k
    BY <1>1, <1>4, LoadedOK
  <2>2. \A k \in 1 .. z : k \in PageId
    BY <1>1, <1>4, BoundAssumption DEF PageId
  <2>3. \A k \in 1 .. z : LoadedSizes(n)[k] = LoadedSize(n, k)
    BY <2>2 DEF LoadedSizes
  <2> QED BY <1>2, <2>1, <2>2, <2>3
<1>6. PICK v : /\ v = LoadedSums(n) /\ v \in [0 .. z -> Nat] /\ v[0] = 0 /\ v[z] = n
               /\ \A k \in 1 .. z : v[k] = v[k - 1] + LoadedSize(n, k)
  <2>1. PICK v : v = LoadedSums(n) /\ Loading(n, v, z)
    BY <1>4, LoadedGeometry
  <2> QED BY <2>1 DEF Loading
<1>7. Ends(v, pages', psize')
  <2>1. \A k \in 1 .. z : v[k] = v[k - 1] + psize'[pages'[k]]
    BY <1>5, <1>6
  <2> QED BY <1>5, <1>6, <2>1 DEF Ends
<1>8. Budget(v[Len(pages')], call') /\ TailOK(pages', psize', lookaside', call')
  <2>1. call'.op = "idle"
    BY DEF Free
  <2> QED BY <1>1, <1>5, <1>6, <2>1 DEF Budget, TailOK
<1>9. size' = v[Len(pages')]
  BY <1>2, <1>5, <1>6
<1>10. ASSUME AllPlaced(pages, psize, u, lookaside)
       PROVE  AllPlaced(pages', psize', v, lookaside') \/ Drift
  <2>1. CASE Spread /\ ~LoadsShorterFile
    <3>1. SUFFICES ASSUME NEW c \in DOMAIN lookaside
                   PROVE  OnPage(pages', psize', v, lookaside'[c])
      BY <1>3 DEF AllPlaced
    <3>2. \A d \in DOMAIN lookaside : /\ lookaside[d] \in ClientData
                                      /\ lookaside[d].pos \in Nat /\ lookaside[d].pos <= n
      <4>1. SUFFICES ASSUME NEW d \in DOMAIN lookaside
                     PROVE  /\ lookaside[d] \in ClientData
                            /\ lookaside[d].pos \in Nat /\ lookaside[d].pos <= n
        OBVIOUS
      <4>2. lookaside[d] \in ClientData
        BY DEF Sound, IInv, ClientsOK
      <4>3. lookaside[d].pos \in Nat
        BY <4>2, BoundAssumption DEF ClientData, Size
      <4>4. ~(lookaside[d].pos > size')
        <5>1. Free' /\ lookaside[d].pos \in Positions
          BY DEF Free, Positions
        <5> QED BY <2>1, <5>1 DEF LoadsShorterFile
      <4> QED BY <1>1, <1>2, <4>2, <4>3, <4>4
    <3>3. Positions \subseteq Nat
      BY <3>2 DEF Positions
    <3>4. /\ lookaside[c] \in ClientData /\ lookaside[c].pos \in Positions
          /\ lookaside[c].pos <= n
      BY <3>2 DEF Positions
    <3>5. PICK pg, ps : pg = pages' /\ ps = psize'
      OBVIOUS
    <3>6. /\ Len(pg) = PageCount(n)
          /\ \A k \in 1 .. PageCount(n) : pg[k] = k /\ ps[k] = LoadedSize(n, k)
      BY <1>4, <1>5, <3>5
    <3>7. OnPage(pg, ps, LoadedSums(n), Placed(n, at, lookaside[c]))
      BY <1>1, <1>3, <2>1, <3>3, <3>4, <3>6, PlacedPlace
    <3>8. lookaside'[c] = Placed(n, at, lookaside[c])
      BY <1>3
    <3> QED BY <1>6, <3>5, <3>7, <3>8
  <2>2. CASE ~Spread
    BY <2>2 DEF Drift, LoadsCrowdedPage, Spread, Free
  <2>3. CASE LoadsShorterFile
    BY <2>3 DEF Drift
  <2> QED BY <2>1, <2>2, <2>3
<1> QED BY <1>7, <1>8, <1>9, <1>10 DEF Follows

-----------------------------------------------------------------------------
(* The steps together.                                                     *)

LEMMA StepFollows ==
  ASSUME MaxSize < SizeT, NEW u, Sound(u), Step PROVE Follows(u)
BY InvalidFollows, ReturnFollows, ForwardFollows, SeekBackFollows, WriteRestFollows,
   EraseChunkFollows, InsertSplitFollows, InsertInPageFollows, InsertReturnFollows
   DEF Step

LEMMA NextFollows ==
  ASSUME MaxSize < SizeT, NEW u, Sound(u), [Next]_vars PROVE Follows(u)
<1>1. CASE UNCHANGED vars
  <2>1. UNCHANGED <<pages, psize, size, lookaside, call>>
    BY <1>1 DEF vars
  <2>2. Budget(u[Len(pages)], call') /\ TailOK(pages, psize, lookaside', call')
    BY <2>1 DEF Sound
  <2> QED BY <2>1, <2>2, QuietStep
<1>2. ASSUME NEW c \in Client, Open(c) \/ Close(c) PROVE Follows(u)
  BY <1>2, OpenCloseFollows
<1>3. /\ Lengths \subseteq Nat /\ 0 \in Nat
      /\ Buffers \subseteq Seq(Byte) /\ <<>> \in Seq(Byte)
  BY BufferAssumption
<1>4. ASSUME NEW c \in Client, NEW m \in Lengths, NEW fwd \in BOOLEAN,
             NEW absolute \in BOOLEAN, Seek(c, m, fwd, absolute)
      PROVE  Follows(u)
  BY <1>3, <1>4, CallFollows
<1>5. ASSUME NEW c \in Client, NEW m \in Lengths, Read(c, m) \/ Erase(c, m) PROVE Follows(u)
  BY <1>3, <1>5, CallFollows
<1>6. ASSUME NEW c \in Client, NEW val \in Buffers, Write(c, val) \/ Insert(c, val)
      PROVE  Follows(u)
  BY <1>3, <1>6, CallFollows, InsertFollows
<1>7. CASE Save
  <2>1. disk \in Seq(Byte)
    BY DEF Sound, IInv
  <2>2. PICK image \in Seq(Byte) : Free /\ UNCHANGED call /\ Load(image)
    BY <1>7, <2>1 DEF Save
  <2> QED BY <2>2, LoadFollows
<1>8. CASE Reload
  <2>1. Free /\ UNCHANGED call /\ disk \in Seq(Byte) /\ Load(disk)
    BY <1>8 DEF Reload, Sound, IInv
  <2> QED BY <2>1, LoadFollows
<1> QED BY <1>1, <1>2, <1>4, <1>5, <1>6, <1>7, <1>8, StepFollows DEF Next, Session

(* The room of a call is kept, and with it what u says of the clients and  *)
(* of the size.                                                            *)
LEMMA PlacesStep ==
  ASSUME MaxSize < SizeT, IInv, RoomOK, [Next]_vars
  PROVE  /\ IInv' /\ RoomOK'
         /\ FileSizeExact /\ (Lone \/ PositionExact) => FileSizeExact'
         /\ PositionExact => PositionExact' \/ Drift
<1>1. IInv'
  BY NextStep
<1>2. PICK u : Ends(u, pages, psize)
  BY SumsOfState DEF StateSums
<1>3. Len(Contents) = u[Len(pages)] /\ (PositionExact <=> AllPlaced(pages, psize, u, lookaside))
  BY <1>2, SumsOfState DEF StateSums
<1>4. Sound(u)
  BY <1>2, <1>3 DEF Sound, RoomOK
<1>5. PICK v : /\ Ends(v, pages', psize')
               /\ Budget(v[Len(pages')], call')
               /\ TailOK(pages', psize', lookaside', call')
               /\ size = u[Len(pages)] /\ (Lone \/ AllPlaced(pages, psize, u, lookaside))
                    => size' = v[Len(pages')]
               /\ AllPlaced(pages, psize, u, lookaside)
                    => AllPlaced(pages', psize', v, lookaside') \/ Drift
  BY <1>4, NextFollows DEF Follows
<1>6. StateSums'
  BY SumsOfState, PTL
<1>7. /\ Len(Contents)' = v[Len(pages')]
      /\ PositionExact' <=> AllPlaced(pages', psize', v, lookaside')
  BY <1>1, <1>5, <1>6 DEF StateSums
<1>8. RoomOK'
  BY <1>5, <1>7 DEF RoomOK
<1>9. FileSizeExact /\ (Lone \/ PositionExact) => FileSizeExact'
  BY <1>3, <1>5, <1>7 DEF FileSizeExact
<1> QED BY <1>1, <1>3, <1>5, <1>7, <1>8, <1>9

LEMMA PlacesInit == Init => RoomOK /\ FileSizeExact /\ PositionExact
<1> SUFFICES ASSUME Init PROVE RoomOK /\ FileSizeExact /\ PositionExact
  OBVIOUS
<1>1. /\ disk \in Images /\ pages = LoadedPages(Len(disk)) /\ psize = LoadedSizes(Len(disk))
      /\ size = Len(disk) /\ DOMAIN lookaside = {} /\ call.op = "idle"
  BY DEF Init, Ended
<1>2. disk \in Seq(Byte) /\ Len(disk) \in Nat /\ Len(disk) < SizeT /\ PageCount(Len(disk)) <= MaxPages
  BY <1>1, ImageAssumption, LenProperties DEF PageCount
<1>3. PICK n \in Nat : n = Len(disk)
  BY <1>2
<1>4. PICK v, z : v = LoadedSums(n) /\ z = PageCount(n) /\ Loading(n, v, z)
  BY LoadedGeometry
<1>5. z \in Nat /\ v \in [0 .. z -> Nat] /\ v[0] = 0 /\ v[z] = n
      /\ \A k \in 1 .. z : v[k] = v[k - 1] + LoadedSize(n, k)
  BY <1>4 DEF Loading
<1>6. /\ Len(pages) = z
      /\ \A k \in 1 .. z : pages[k] = k /\ psize[k] = LoadedSize(n, k)
  <2>1. Len(LoadedPages(n)) = z /\ \A k \in 1 .. z : LoadedPages(n)[k] = k
    BY <1>2, <1>3, <1>4, LoadedOK
  <2>2. \A k \in 1 .. z : k \in PageId
    BY <1>2, <1>3, <1>4, <1>5, BoundAssumption DEF PageId
  <2>3. \A k \in 1 .. z : LoadedSizes(n)[k] = LoadedSize(n, k)
    BY <2>2 DEF LoadedSizes
  <2> QED BY <1>1, <1>3, <2>1, <2>3
<1>7. Ends(v, pages, psize)
  <2>1. \A k \in 1 .. z : v[k] = v[k - 1] + psize[pages[k]]
    BY <1>5, <1>6
  <2> QED BY <1>5, <1>6, <2>1 DEF Ends
<1>8. Len(Contents) = n
  <2>1. Len(Contents) = v[Len(pages)]
    BY <1>7, InitOK, SumsOfState DEF StateSums
  <2> QED BY <1>5, <1>6, <2>1
<1> QED BY <1>1, <1>2, <1>3, <1>8 DEF RoomOK, Budget, TailOK, FileSizeExact, PositionExact

(* One open client has no twin and crowds no page.                         *)
LEMMA LoneDrift == ASSUME IInv, Lone, Drift PROVE LoadsShorterFile
<1>1. ~LoadsCrowdedPage
  <2>1. \A m, o \in Positions : m = o
    BY DEF Positions, Lone
  <2> QED BY <2>1 DEF LoadsCrowdedPage
<1>2. ~InsertsBeforeTwin
  <2>1. In("i") => call.client \in DOMAIN lookaside
    BY InCall DEF In
  <2>2. \A c \in DOMAIN lookaside \ {call.client} : ~In("i")
    BY <2>1 DEF Lone
  <2> QED BY <2>2 DEF InsertsBeforeTwin
<1> QED BY <1>1, <1>2 DEF Drift

-----------------------------------------------------------------------------
(* Theorems.  No file has as many bytes as a size_t can count: MaxSize,    *)
(* the bound on what the clients write, is below SizeT in all of them.     *)

(* In every state the bytes of the file can be counted, with those that    *)
(* the write or insert under way will still add (File::size does not       *)
(* overflow), and an insert that was appended at the end is at the end of  *)
(* the last page before the tail sentinel.                                 *)
THEOREM RoomCorrect == ASSUME MaxSize < SizeT PROVE Spec => [](IInv /\ RoomOK)
<1>1. Init => IInv /\ RoomOK
  BY InitOK, PlacesInit
<1>2. IInv /\ RoomOK /\ [Next]_vars => (IInv /\ RoomOK)'
  BY PlacesStep
<1> QED BY <1>1, <1>2, PTL DEF Spec

(* While the places of all clients are exact, a step makes one inexact     *)
(* only by an insert with another client at the same position on another   *)
(* page, by a save with two positions on one page of the saved file, or by *)
(* a save whose rename failed, with a client behind the end of the file it *)
(* loads: s, r, w, d, i, open and close keep all the others, whatever the  *)
(* pages.                                                                  *)
THEOREM DriftCorrect == ASSUME MaxSize < SizeT PROVE Spec => DriftHasCause
<1>1. IInv /\ RoomOK /\ [Next]_vars
        => [PositionExact =>
              PositionExact' \/ InsertsBeforeTwin \/ LoadsCrowdedPage \/ LoadsShorterFile]_vars
  BY PlacesStep DEF Drift
<1> QED BY <1>1, RoomCorrect, PTL DEF Spec, DriftHasCause

(* While one client at most is open, only such a failed save makes its     *)
(* place inexact, whatever the clients before it did.                      *)
THEOREM LoneDriftCorrect == ASSUME MaxSize < SizeT PROVE Spec => OnlyLostSaveDrifts
<1>1. IInv /\ RoomOK /\ [Next]_vars
        => [PositionExact /\ Lone => PositionExact' \/ LoadsShorterFile]_vars
  BY PlacesStep, LoneDrift
<1> QED BY <1>1, RoomCorrect, PTL DEF Spec, OnlyLostSaveDrifts

(* While the places are exact, or one client at most is open, File::size   *)
(* stays the number of bytes.                                              *)
THEOREM SizeKept ==
  ASSUME MaxSize < SizeT
  PROVE  Spec => [][FileSizeExact /\ (Lone \/ PositionExact) => FileSizeExact']_vars
<1>1. IInv /\ RoomOK /\ [Next]_vars
        => [FileSizeExact /\ (Lone \/ PositionExact) => FileSizeExact']_vars
  BY PlacesStep
<1> QED BY <1>1, RoomCorrect, PTL DEF Spec

(* With one client File::size is the number of bytes in the pages, in the  *)
(* middle of a call too.                                                   *)
THEOREM FileSizeCorrect ==
  ASSUME MaxSize < SizeT, \A c, d \in Client : c = d PROVE Spec => []FileSizeExact
<1>1. Init => IInv /\ RoomOK /\ FileSizeExact
  BY InitOK, PlacesInit
<1>2. IInv /\ RoomOK /\ FileSizeExact /\ [Next]_vars => (IInv /\ RoomOK /\ FileSizeExact)'
  <2>1. IInv => Lone
    BY DEF Lone, IInv, ClientsOK
  <2> QED BY <2>1, PlacesStep
<1> QED BY <1>1, <1>2, PTL DEF Spec
=============================================================================
