-------------------------- MODULE PageStoreProofs ---------------------------
(***************************************************************************)
(* Proofs about PageStore for every page size, cache size and file: its    *)
(* types, that a page keeps its bytes through any number of evictions, and *)
(* that the steps of a save, a load and a crash are those of StoredFile.   *)
(*                                                                         *)
(* Types and layout need no hypothesis.  That a page keeps its bytes needs *)
(* bytes other than Nul: a working file ends before the first of them.     *)
(***************************************************************************)
EXTENDS PageStore, ListTheorems

-----------------------------------------------------------------------------
(* The inductive invariant.                                                *)

(* The named file is there, the list has its two ends, and a page is in    *)
(* the named file or in a working file of its own.                         *)
LayoutOK ==
  /\ Named \in DOMAIN files
  /\ Len(list) >= 2 /\ Distinct(list) /\ Listed \subseteq DOMAIN line
  /\ \A p \in DOMAIN line : line[p].name \in {line[p].own} \cup Work(p)

SInv == TypeOK /\ LayoutOK

(* A page that is not in the cache has the bytes s if it was not written   *)
(* since it left.                                                          *)
Stays(l, s, fs) ==
  /\ l.size = Len(s)
  /\ l.size > 0 => /\ l.name \in DOMAIN fs /\ l.at + l.size <= Len(fs[l.name])
                   /\ SubSeq(fs[l.name], l.at + 1, l.at + l.size) = s

Kept(p) ==
  /\ ~line[p].dirty => Stays(line[p], given[p], files)
  /\ p \in cached => line[p].data = given[p]
  /\ line[p].dirty /\ p \notin cached => given[p] = <<>>

KeptOK == \A p \in Listed : Kept(p)

(* What a save has read is what the pages were given.                      *)
SaveOK ==
  save.busy =>
    /\ Len(save.copied) <= Len(list)
    /\ \A k \in 1 .. Len(save.copied) : save.copied[k] = given[list[k]]

KInv == KeptOK /\ SaveOK

-----------------------------------------------------------------------------
(* Names and files.                                                        *)

IsFiles(fs) == DOMAIN fs \subseteq Name /\ fs \in [DOMAIN fs -> Seq(Byte)]

(* Two pages share no working file, and the named file is none.            *)
LEMMA NameFacts ==
  /\ None \in Name /\ Named \in Name
  /\ \A p \in PageId : Work(p) \subseteq Name /\ Named \notin Work(p) /\ None \notin Work(p) /\ NextName(p) \in Work(p)
  /\ \A p, q \in PageId : p # q => Work(p) \cap Work(q) = {}
<1>1. \A p \in PageId : p # 0
  BY StoreAssumption DEF PageId
<1>2. \A p \in PageId : NextName(p) \in Work(p)
  BY DEF NextName, Work
<1>3. \A p \in PageId : Work(p) \subseteq Name
  BY DEF Name
<1>4. \A p \in PageId : Named \notin Work(p) /\ None \notin Work(p)
  BY <1>1 DEF Work, Named, None
<1>5. \A p, q \in PageId : p # q => Work(p) \cap Work(q) = {}
  BY DEF Work
<1>6. None \in Name /\ Named \in Name
  BY DEF Name
<1> QED BY <1>2, <1>3, <1>4, <1>5, <1>6

(* Files after some are removed.                                           *)
LEMMA WithoutFacts ==
  ASSUME NEW fs, IsFiles(fs), NEW N
  PROVE  /\ IsFiles(Without(fs, N))
         /\ DOMAIN Without(fs, N) = DOMAIN fs \ N
         /\ \A m \in DOMAIN fs \ N : Without(fs, N)[m] = fs[m]
BY DEF Without, IsFiles

-----------------------------------------------------------------------------
(* What fputs writes.                                                      *)

(* The bytes before the first Nul are some of the bytes.                   *)
LEMMA TextFacts ==
  ASSUME NEW s \in Seq(Byte)
  PROVE  TextLength(s) \in 0 .. Len(s) /\ Text(s) \in Seq(Byte)
<1> DEFINE StopsAt(k) == (\A j \in 1 .. k : s[j] # Nul) /\ (k < Len(s) => s[k + 1] = Nul)
           S == {k \in 0 .. Len(s) : k < Len(s) => s[k + 1] = Nul}
<1>1. Len(s) \in Nat
  BY LenProperties
<1>2. PICK k \in S : \A j \in S : k <= j
  <2>1. S \subseteq Nat
    OBVIOUS
  <2>2. Len(s) \in S
    BY <1>1
  <2> HIDE DEF S
  <2> QED BY <2>1, <2>2, LeastNumber
<1>3. k \in 0 .. Len(s) /\ (k < Len(s) => s[k + 1] = Nul)
  OBVIOUS
<1>4. ASSUME NEW j \in 1 .. k PROVE s[j] # Nul
  <2>1. j - 1 \in 0 .. Len(s) /\ j - 1 < k /\ (j - 1) + 1 = j
    BY <1>1, <1>3
  <2>2. j - 1 \notin S
    <3> HIDE DEF S
    <3> QED BY <1>1, <1>2, <1>3, <2>1
  <2> QED BY <2>1, <2>2
<1>5. StopsAt(k)
  BY <1>3, <1>4
<1>6. TextLength(s) = CHOOSE i \in 0 .. Len(s) : StopsAt(i)
  BY DEF TextLength
<1>7. TextLength(s) \in 0 .. Len(s)
  <2> HIDE DEF StopsAt
  <2> QED BY <1>3, <1>5, <1>6
<1>8. Text(s) \in Seq(Byte)
  BY <1>1, <1>7, CutOfSeq DEF Text
<1> QED BY <1>7, <1>8

(* Without a Nul they are all of them.                                     *)
LEMMA TextWhole ==
  ASSUME Nul \notin Byte, NEW s \in Seq(Byte)
  PROVE  Text(s) = s
<1> DEFINE StopsAt(k) == (\A j \in 1 .. k : s[j] # Nul) /\ (k < Len(s) => s[k + 1] = Nul)
<1>1. Len(s) \in Nat /\ \A j \in 1 .. Len(s) : s[j] \in Byte
  BY LenProperties, ElementOfSeq
<1>2. StopsAt(Len(s))
  BY <1>1
<1>3. TextLength(s) = CHOOSE i \in 0 .. Len(s) : StopsAt(i)
  BY DEF TextLength
<1>4. StopsAt(TextLength(s)) /\ TextLength(s) \in 0 .. Len(s)
  <2> HIDE DEF StopsAt
  <2> QED BY <1>1, <1>2, <1>3
<1>5. TextLength(s) = Len(s)
  <2>1. SUFFICES ASSUME TextLength(s) < Len(s) PROVE FALSE
    BY <1>1, <1>4
  <2>2. s[TextLength(s) + 1] = Nul /\ TextLength(s) + 1 \in 1 .. Len(s)
    BY <1>1, <1>4, <2>1
  <2> QED BY <1>1, <2>2
<1>6. SubSeq(s, 1, Len(s)) = s
  BY SubSeqFull
<1> QED BY <1>5, <1>6 DEF Text

-----------------------------------------------------------------------------
(* load.                                                                   *)

(* A full page that begins before the end ends before it.                  *)
LEMMA Multiples ==
  ASSUME NEW n \in Nat, NEW size \in Nat \ {0}, NEW m \in Nat, m <= n \div size
  PROVE  m * size \in Nat /\ m * size <= n
<1>1. PICK q \in Nat : q = n \div size /\ q * size <= n
  OBVIOUS
<1>2. m <= q
  BY <1>1
<1>3. PICK d \in Nat : q = m + d
  <2>1. q - m \in Nat /\ q = m + (q - m)
    BY <1>2
  <2> QED BY <2>1
<1>4. q * size = (m * size) + (d * size)
  BY <1>3
<1>5. m * size \in Nat /\ d * size \in Nat
  OBVIOUS
<1> QED BY <1>1, <1>4, <1>5

(* The number of pages.                                                    *)
LEMMA CountFacts ==
  ASSUME NEW n \in Nat
  PROVE  Count(n) \in Nat /\ Count(n) >= 3 /\ n \div ISize \in Nat /\ Count(n) = n \div ISize + 3
<1>1. n \div ISize \in Nat
  BY StoreAssumption
<1> QED BY <1>1 DEF Count

(* A new page is clean, named and inside of the file.                      *)
LEMMA FirstLineFacts ==
  ASSUME NEW n \in Nat, NEW k \in 1 .. Count(n)
  PROVE  /\ FirstLine(n, k) \in Line
         /\ FirstLine(n, k).own = Named /\ FirstLine(n, k).name = Named /\ ~FirstLine(n, k).dirty
         /\ FirstLine(n, k).at + FirstLine(n, k).size <= n
<1> DEFINE inner == k \in 2 .. Count(n) - 1
           at == (k - 2) * ISize
           size == IF ~inner THEN 0 ELSE IF n - at > ISize THEN ISize ELSE n - at
<1>1. FirstLine(n, k) = [own |-> Named, name |-> Named, dirty |-> FALSE, data |-> <<>>,
                         at |-> IF inner THEN at ELSE 0, size |-> size]
  BY DEF FirstLine
<1>2. inner => at \in Nat /\ at <= n
  <2>1. SUFFICES ASSUME inner PROVE at \in Nat /\ at <= n
    OBVIOUS
  <2>2. k - 2 \in Nat /\ k - 2 <= n \div ISize
    BY <2>1, CountFacts
  <2> HIDE DEF at
  <2> QED BY <2>2, Multiples, StoreAssumption DEF at
<1> HIDE DEF at, inner
<1>3. (IF inner THEN at ELSE 0) \in Nat /\ size \in Nat /\ (IF inner THEN at ELSE 0) + size <= n
  BY <1>2, StoreAssumption
<1> HIDE DEF size
<1>4. Named \in {None, Named} /\ Named \in Name /\ <<>> \in Seq(Byte)
  BY NameFacts
<1> QED BY <1>1, <1>3, <1>4 DEF Line

(* Its bytes are those in the file, and what StoredFile cuts there.        *)
LEMMA PieceFacts ==
  ASSUME NEW image \in Seq(Byte), NEW k \in 1 .. Count(Len(image))
  PROVE  /\ Piece(image, k) \in Seq(Byte) /\ Len(Piece(image, k)) = FirstLine(Len(image), k).size
         /\ Piece(image, k) = Stored!Cut(image)[k]
<1> DEFINE n == Len(image)
           l == FirstLine(n, k)
           inner == k \in 2 .. Count(n) - 1
           at == (k - 2) * ISize
<1>1. n \in Nat
  BY LenProperties
<1>2. l.at \in Nat /\ l.size \in Nat /\ l.at + l.size <= n
  BY <1>1, FirstLineFacts DEF Line
<1>3. Piece(image, k) = SubSeq(image, l.at + 1, l.at + l.size)
  BY DEF Piece
<1>4. Piece(image, k) \in Seq(Byte) /\ Len(Piece(image, k)) = l.size
  <2> HIDE DEF l
  <2> QED BY <1>2, <1>3, PieceOfSeq, SMTT(20)
<1>5. Stored!Cut(image)[k] =
        IF k \in 2 .. n \div ISize + 2
        THEN SubSeq(image, (k - 2) * ISize + 1, IF (k - 1) * ISize < n THEN (k - 1) * ISize ELSE n)
        ELSE <<>>
  BY DEF Stored!Cut, Count
<1>6. n \div ISize + 2 = Count(n) - 1
  BY <1>1, CountFacts
<1>9. Stored!Cut(image)[k] =
        IF inner
        THEN SubSeq(image, at + 1, IF (k - 1) * ISize < n THEN (k - 1) * ISize ELSE n)
        ELSE <<>>
  <2>1. inner <=> k \in 2 .. n \div ISize + 2
    BY <1>6
  <2> HIDE DEF inner, n
  <2> QED BY <1>5, <2>1
<1>7. ASSUME inner PROVE Piece(image, k) = Stored!Cut(image)[k]
  <2>1. at \in Nat /\ at <= n /\ (k - 1) * ISize = at + ISize /\ ISize \in Nat
    <3>1. k - 2 \in Nat /\ k - 2 <= n \div ISize
      <4>1. PICK q \in Nat : q = n \div ISize /\ Count(n) = q + 3
        BY <1>1, CountFacts
      <4> HIDE DEF n, at, l
      <4>2. k \in 2 .. q + 2
        BY <1>7, <4>1
      <4> QED BY <4>1, <4>2
    <3>2. at \in Nat /\ at <= n
      BY <1>1, <3>1, Multiples, StoreAssumption
    <3>3. (k - 1) * ISize = (k - 2) * ISize + ISize
      BY <3>1, StoreAssumption
    <3> QED BY <3>2, <3>3, StoreAssumption
  <2>2. l.at = at /\ l.size = IF n - at > ISize THEN ISize ELSE n - at
    BY <1>7 DEF FirstLine
  <2> HIDE DEF at, l, n
  <2>3. l.at + l.size = IF at + ISize < n THEN at + ISize ELSE n
    BY <1>1, <2>1, <2>2
  <2>4. Stored!Cut(image)[k] = SubSeq(image, at + 1, IF (k - 1) * ISize < n THEN (k - 1) * ISize ELSE n)
    BY <1>7, <1>9
  <2> HIDE DEF inner
  <2> QED BY <1>3, <2>1, <2>2, <2>3, <2>4
<1>8. ASSUME ~inner PROVE Piece(image, k) = Stored!Cut(image)[k]
  <2>1. l.at = 0 /\ l.size = 0
    BY <1>8 DEF FirstLine
  <2>2. Piece(image, k) = <<>>
    BY <1>3, <2>1, SubSeqEmpty
  <2> QED BY <1>8, <1>9, <2>2
<1> QED BY <1>4, <1>7, <1>8

(* The pages, lines, bytes and files of a file that is opened.             *)
IsFresh(image, n, L, W, G, fs) ==
  /\ n = Count(Len(image)) /\ n <= MaxPages
  /\ L = [k \in 1 .. n |-> k]
  /\ W = [k \in 1 .. n |-> FirstLine(Len(image), k)]
  /\ G = [k \in 1 .. n |-> Piece(image, k)]
  /\ fs = [f \in {Named} |-> image]

(* What is so of them.                                                     *)
FreshOK(image, n, L, W, G, fs) ==
  /\ n \in Nat /\ n >= 2 /\ 1 .. n \subseteq PageId
  /\ L \in Seq(PageId) /\ Len(L) = n /\ Distinct(L) /\ Range(L) = 1 .. n
  /\ W \in [1 .. n -> Line] /\ \A p \in 1 .. n : W[p].name = W[p].own /\ ~W[p].dirty
  /\ G \in [1 .. n -> Seq(Byte)] /\ \A p \in 1 .. n : Stays(W[p], G[p], fs)
  /\ [k \in 1 .. n |-> G[L[k]]] = Stored!Cut(image)
  /\ IsFiles(fs) /\ Named \in DOMAIN fs /\ fs[Named] = image

(* Whatever the file, it is.                                               *)
LEMMA FreshFacts ==
  ASSUME NEW image \in Seq(Byte), NEW n, NEW L, NEW W, NEW G, NEW fs,
         IsFresh(image, n, L, W, G, fs)
  PROVE  FreshOK(image, n, L, W, G, fs)
<1>0. /\ n = Count(Len(image)) /\ n <= MaxPages /\ L = [k \in 1 .. n |-> k]
      /\ W = [k \in 1 .. n |-> FirstLine(Len(image), k)]
      /\ G = [k \in 1 .. n |-> Piece(image, k)] /\ fs = [f \in {Named} |-> image]
  BY DEF IsFresh
<1>1. Len(image) \in Nat
  BY LenProperties
<1>2. n \in Nat /\ n >= 2 /\ n = Len(image) \div ISize + 3
  BY <1>0, <1>1, CountFacts
<1>3. 1 .. n \subseteq PageId
  BY <1>0, <1>2, StoreAssumption DEF PageId
<1>4. L \in Seq(PageId) /\ Len(L) = n /\ \A k \in 1 .. n : L[k] = k
  <2>1. L \in [1 .. n -> PageId] /\ \A k \in 1 .. n : L[k] = k
    BY <1>0, <1>3
  <2>2. L \in Seq(PageId)
    BY <1>2, <2>1
  <2>3. DOMAIN L = 1 .. n
    BY <2>1
  <2> QED BY <1>2, <2>1, <2>2, <2>3, LenProperties
<1>5. Range(L) = 1 .. n
  BY <1>0 DEF Range
<1>6. Distinct(L)
  BY <1>4 DEF Distinct
<1>7. \A k \in 1 .. n : /\ W[k] = FirstLine(Len(image), k) /\ W[k] \in Line
                        /\ W[k].own = Named /\ W[k].name = Named /\ ~W[k].dirty
  BY <1>0, <1>1, FirstLineFacts
<1>8. \A k \in 1 .. n : /\ G[k] = Piece(image, k) /\ G[k] \in Seq(Byte)
                        /\ Len(G[k]) = W[k].size /\ G[k] = Stored!Cut(image)[k]
  BY <1>0, <1>7, PieceFacts
<1>9. ASSUME NEW p \in 1 .. n PROVE Stays(W[p], G[p], fs)
  <2>1. fs[Named] = image /\ Named \in DOMAIN fs
    BY <1>0
  <2>2. W[p].at + W[p].size <= Len(image)
    BY <1>0, <1>1, <1>7, FirstLineFacts
  <2>3. G[p] = SubSeq(image, W[p].at + 1, W[p].at + W[p].size)
    BY <1>7, <1>8 DEF Piece
  <2> QED BY <1>7, <1>8, <2>1, <2>2, <2>3 DEF Stays
<1>10. [k \in 1 .. n |-> G[L[k]]] = Stored!Cut(image)
  <2>1. Stored!Cut(image) = [k \in 1 .. n |-> Stored!Cut(image)[k]]
    BY <1>2 DEF Stored!Cut
  <2> QED BY <1>4, <1>8, <2>1
<1>11. IsFiles(fs) /\ Named \in DOMAIN fs /\ fs[Named] = image
  BY <1>0, NameFacts DEF IsFiles
<1>12. W \in [1 .. n -> Line] /\ \A p \in 1 .. n : W[p].name = W[p].own /\ ~W[p].dirty
  BY <1>0, <1>7
<1>13. G \in [1 .. n -> Seq(Byte)]
  BY <1>0, <1>8
<1> QED BY <1>2, <1>3, <1>4, <1>5, <1>6, <1>9, <1>10, <1>11, <1>12, <1>13 DEF FreshOK

(* A file that is opened has its pages on disk, and in memory the bytes    *)
(* that are there.                                                         *)
LEMMA OpenedKeeps ==
  ASSUME NEW image \in Seq(Byte), NEW fs, litter \in BOOLEAN, Opened(image, fs)
  PROVE  /\ SInv' /\ KInv'
         /\ [k \in 1 .. Len(list) |-> given[list[k]]]' = Stored!Cut(image)
         /\ files'[Named] = image
<1>1. PICK n, L, W, G, f :
        n = Count(Len(image)) /\ L = list' /\ W = line' /\ G = given' /\ f = files'
  OBVIOUS
<1>2. IsFresh(image, n, L, W, G, f)
  BY <1>1 DEF IsFresh, Opened
<1>9. FreshOK(image, n, L, W, G, f)
  BY <1>2, FreshFacts
<1>3. /\ n \in Nat /\ n >= 2 /\ 1 .. n \subseteq PageId
      /\ L \in Seq(PageId) /\ Len(L) = n /\ Distinct(L) /\ Range(L) = 1 .. n
      /\ W \in [1 .. n -> Line] /\ \A p \in 1 .. n : W[p].name = W[p].own /\ ~W[p].dirty
      /\ G \in [1 .. n -> Seq(Byte)] /\ \A p \in 1 .. n : Stays(W[p], G[p], f)
      /\ [k \in 1 .. n |-> G[L[k]]] = Stored!Cut(image)
      /\ IsFiles(f) /\ Named \in DOMAIN f /\ f[Named] = image
  BY <1>9 DEF FreshOK
<1>4. DOMAIN W = 1 .. n /\ DOMAIN G = 1 .. n
  BY <1>3
<1>5. /\ cached' = {} /\ litter' \in BOOLEAN
      /\ save' \in [busy : BOOLEAN, copied : Seq(Seq(Byte))] /\ ~save'.busy
  BY EmptySeq DEF Opened, Idle
<1>6. TypeOK'
  BY <1>1, <1>3, <1>4, <1>5 DEF TypeOK, IsFiles
<1>7. LayoutOK'
  BY <1>1, <1>3, <1>4 DEF LayoutOK, Listed
<1>8. KInv'
  <2>1. SaveOK'
    BY <1>5 DEF SaveOK
  <2>2. ASSUME NEW p \in 1 .. n PROVE Kept(p)'
    BY <1>1, <1>3, <1>5 DEF Kept
  <2>3. Listed' = 1 .. n
    BY <1>1, <1>3 DEF Listed
  <2> QED BY <2>1, <2>2, <2>3 DEF KInv, KeptOK
<1> QED BY <1>1, <1>3, <1>6, <1>7, <1>8 DEF SInv

-----------------------------------------------------------------------------
(* The cache.                                                              *)

(* What is known of a page and of the files.                               *)
LEMMA LineFacts ==
  ASSUME SInv, NEW p \in DOMAIN line
  PROVE  /\ p \in PageId /\ line[p] \in Line /\ line[p].data \in Seq(Byte)
         /\ line[p].size \in Nat /\ line[p].at \in Nat /\ line[p].dirty \in BOOLEAN
         /\ line[p].own \in {None, Named} /\ line[p].name \in Name
         /\ line[p].name \in {line[p].own} \cup Work(p)
         /\ given[p] \in Seq(Byte)
         /\ IsFiles(files)
BY DEF SInv, TypeOK, LayoutOK, Line, IsFiles

(* What a page that comes into the cache holds.                            *)
LEMMA LoadedFacts ==
  ASSUME SInv, NEW p \in DOMAIN line, Readable(line[p])
  PROVE  /\ Loaded(line[p]) \in Seq(Byte)
         /\ Kept(p) /\ p \notin cached => Loaded(line[p]) = given[p]
<1>1. PICK l : l = line[p]
  OBVIOUS
<1>2. /\ l.size \in Nat /\ l.at \in Nat /\ l.dirty \in BOOLEAN /\ given[p] \in Seq(Byte)
      /\ IsFiles(files)
  BY <1>1, LineFacts
<1>3. CASE OnDisk(l)
  <2>1. /\ l.name \in DOMAIN files /\ l.at + l.size <= Len(files[l.name])
        /\ files[l.name] \in Seq(Byte) /\ l.size > 0 /\ ~l.dirty
    BY <1>1, <1>2, <1>3 DEF Readable, OnDisk, IsFiles
  <2>2. Loaded(l) = SubSeq(files[l.name], l.at + 1, l.at + l.size)
    BY <1>3 DEF Loaded
  <2>3. Loaded(l) \in Seq(Byte)
    BY <1>2, <2>1, <2>2, PieceOfSeq, SMTT(20)
  <2>4. Kept(p) => Loaded(l) = given[p]
    BY <1>1, <2>1, <2>2 DEF Kept, Stays
  <2> QED BY <1>1, <2>3, <2>4
<1>4. CASE ~OnDisk(l)
  <2>1. Loaded(l) = <<>>
    BY <1>4 DEF Loaded
  <2>2. ASSUME Kept(p), p \notin cached PROVE given[p] = <<>>
    <3>1. CASE l.dirty
      BY <1>1, <2>2, <3>1 DEF Kept
    <3>2. CASE ~l.dirty
      <4>1. l.size = 0
        BY <1>2, <1>4, <3>2 DEF OnDisk
      <4>2. Len(given[p]) = 0
        BY <1>1, <2>2, <3>2, <4>1 DEF Kept, Stays
      <4> QED BY <1>2, <4>2, EmptySeq
    <3> QED BY <3>1, <3>2
  <2> QED BY <1>1, <2>1, <2>2, EmptySeq
<1> QED BY <1>3, <1>4

(* A page that is kept is Readable.                                        *)
LEMMA KeptReadable ==
  ASSUME NEW p, Kept(p)
  PROVE  Readable(line[p])
BY DEF Kept, Stays, Readable, OnDisk

(* Files after a page of the cache is written out: those of other pages    *)
(* are as before.                                                          *)
LEMMA WrittenOutFacts ==
  ASSUME SInv, NEW p \in DOMAIN line
  PROVE  /\ IsFiles(WrittenOut(p))
         /\ ~line[p].dirty => WrittenOut(p) = files
         /\ line[p].dirty => /\ NextName(p) \in DOMAIN WrittenOut(p)
                             /\ WrittenOut(p)[NextName(p)] = Text(line[p].data)
         /\ DOMAIN files \ Work(p) \subseteq DOMAIN WrittenOut(p)
         /\ \A m \in DOMAIN files \ Work(p) : WrittenOut(p)[m] = files[m]
<1> DEFINE l == line[p]
           n == NextName(p)
           w == With(files, n, Text(l.data))
           gone == {l.name} \ {l.own}
<1>1. /\ p \in PageId /\ l.data \in Seq(Byte) /\ l.dirty \in BOOLEAN
      /\ l.name \in {l.own} \cup Work(p) /\ IsFiles(files)
  BY LineFacts
<1>2. n \in Work(p) /\ n \in Name /\ n # l.name
  <2>1. n \in Work(p) /\ n \in Name
    BY <1>1, NameFacts
  <2>2. <<p, 1>> # <<p, 2>>
    OBVIOUS
  <2>3. n # l.name
    BY <2>2 DEF NextName
  <2> QED BY <2>1, <2>3
<1>3. CASE ~l.dirty
  <2>1. WrittenOut(p) = files
    BY <1>3 DEF WrittenOut
  <2> QED BY <1>1, <1>3, <2>1
<1>4. CASE l.dirty
  <2>1. Text(l.data) \in Seq(Byte)
    BY <1>1, TextFacts
  <2>3. WrittenOut(p) = Without(w, gone)
    BY <1>4 DEF WrittenOut
  <2>4. gone \subseteq Work(p) /\ n \notin gone
    BY <1>1, <1>2
  <2> HIDE DEF l, n
  <2>2. /\ IsFiles(w) /\ DOMAIN w = DOMAIN files \cup {n} /\ w[n] = Text(l.data)
        /\ \A x \in DOMAIN files \ {n} : w[x] = files[x]
    BY <1>1, <1>2, <2>1 DEF With, IsFiles
  <2> HIDE DEF w, gone
  <2>5. /\ IsFiles(Without(w, gone)) /\ DOMAIN Without(w, gone) = DOMAIN w \ gone
        /\ \A m \in DOMAIN w \ gone : Without(w, gone)[m] = w[m]
    BY <2>2, WithoutFacts
  <2>6. n \in DOMAIN Without(w, gone) /\ Without(w, gone)[n] = Text(l.data)
    BY <2>2, <2>4, <2>5
  <2>7. ASSUME NEW x \in DOMAIN files \ Work(p)
        PROVE  x \in DOMAIN Without(w, gone) /\ Without(w, gone)[x] = files[x]
    BY <1>2, <2>2, <2>4, <2>5
  <2> QED BY <1>4, <2>3, <2>5, <2>6, <2>7 DEF l, n
<1> QED BY <1>1, <1>3, <1>4

(* A Page object of its own is a file of its own: a line that changes.     *)
LEMMA LineMoves ==
  ASSUME SInv, NEW p \in DOMAIN line, NEW r \in Line, r.name \in {r.own} \cup Work(p),
         line' = [line EXCEPT ![p] = r]
  PROVE  /\ DOMAIN line' = DOMAIN line /\ line'[p] = r
         /\ \A q \in DOMAIN line : q # p => line'[q] = line[q]
         /\ line' \in [DOMAIN line' -> Line]
         /\ \A q \in DOMAIN line' : line'[q].name \in {line'[q].own} \cup Work(q)
<1>1. line \in [DOMAIN line -> Line] /\ \A q \in DOMAIN line : line[q].name \in {line[q].own} \cup Work(q)
  BY DEF SInv, TypeOK, LayoutOK
<1>2. DOMAIN line' = DOMAIN line /\ line'[p] = r /\ \A q \in DOMAIN line : q # p => line'[q] = line[q]
  BY <1>1
<1>3. line' \in [DOMAIN line -> Line]
  BY <1>1
<1> QED BY <1>1, <1>2, <1>3

(* A page keeps its bytes while another changes its own working files.     *)
LEMMA OthersKept ==
  ASSUME SInv, NEW p \in PageId, NEW q \in DOMAIN line, q # p, Kept(q),
         line'[q] = line[q], given'[q] = given[q], q \in cached' <=> q \in cached,
         \A m \in DOMAIN files \ Work(p) : m \in DOMAIN files' /\ files'[m] = files[m]
  PROVE  Kept(q)'
<1>1. q \in PageId /\ line[q].name \in {line[q].own} \cup Work(q) /\ line[q].own \in {None, Named}
  BY LineFacts
<1>2. line[q].name \notin Work(p)
  BY <1>1, NameFacts
<1>3. CASE line[q].dirty
  BY <1>3 DEF Kept
<1>4. CASE ~line[q].dirty
  <2>1. Stays(line[q], given[q], files)
    BY <1>4 DEF Kept
  <2>2. Stays(line[q], given[q], files')
    BY <1>2, <2>1 DEF Stays
  <2> QED BY <1>4, <2>2 DEF Kept
<1> QED BY <1>3, <1>4

(* A page comes into the cache with its bytes.                             *)
LEMMA AcquireKeeps ==
  ASSUME SInv, NEW p \in PageId, Acquire(p)
  PROVE  SInv' /\ (KInv => KInv')
<1> DEFINE r == [line[p] EXCEPT !.data = Loaded(line[p])]
<1>1. /\ p \in Listed \ cached /\ Readable(line[p]) /\ p \in DOMAIN line
      /\ cached' = cached \cup {p} /\ UNCHANGED <<list, files, litter, save, given>>
  BY DEF Acquire, SInv, LayoutOK
<1>2. line' = [line EXCEPT ![p] = r]
  BY DEF Acquire
<1>3. Loaded(line[p]) \in Seq(Byte) /\ (Kept(p) => Loaded(line[p]) = given[p])
  BY <1>1, LoadedFacts
<1>4. /\ r \in Line /\ r.own = line[p].own /\ r.name = line[p].name /\ r.dirty = line[p].dirty
      /\ r.at = line[p].at /\ r.size = line[p].size /\ r.data = Loaded(line[p])
  BY <1>1, <1>3, LineFacts DEF Line
<1>5. r.name \in {r.own} \cup Work(p)
  BY <1>1, <1>4, LineFacts
<1> HIDE DEF r
<1>6. /\ DOMAIN line' = DOMAIN line /\ line'[p] = r
      /\ \A q \in DOMAIN line : q # p => line'[q] = line[q]
      /\ line' \in [DOMAIN line' -> Line]
      /\ \A q \in DOMAIN line' : line'[q].name \in {line'[q].own} \cup Work(q)
  BY <1>1, <1>2, <1>4, <1>5, LineMoves
<1>7. TypeOK'
  BY <1>1, <1>6 DEF SInv, TypeOK
<1>8. LayoutOK'
  BY <1>1, <1>6 DEF SInv, LayoutOK, Listed
<1>9. ASSUME KInv PROVE KInv'
  <2>1. SaveOK'
    BY <1>1, <1>9 DEF KInv, SaveOK
  <2>2. ASSUME NEW q \in Listed PROVE Kept(q)'
    <3>1. Kept(q) /\ q \in DOMAIN line
      BY <1>9, <2>2 DEF KInv, KeptOK, SInv, LayoutOK
    <3>2. CASE q # p
      BY <1>1, <1>6, <3>1, <3>2, OthersKept
    <3>3. CASE q = p
      BY <1>1, <1>3, <1>4, <1>6, <3>1, <3>3 DEF Kept, Stays
    <3> QED BY <3>2, <3>3
  <2> QED BY <1>1, <2>1, <2>2 DEF KInv, KeptOK, Listed
<1> QED BY <1>7, <1>8, <1>9 DEF SInv

(* What a page is when it has left the cache.                              *)
LEMMA UnloadedFacts ==
  ASSUME SInv, NEW p \in DOMAIN line
  PROVE  /\ Unloaded(p) \in Line /\ Unloaded(p).own = line[p].own /\ ~Unloaded(p).dirty
         /\ Unloaded(p).size = Len(line[p].data)
         /\ line[p].dirty => Unloaded(p).at = 0 /\ Unloaded(p).name = NextName(p)
         /\ ~line[p].dirty => Unloaded(p).at = line[p].at /\ Unloaded(p).name = line[p].name
         /\ Unloaded(p).name \in {Unloaded(p).own} \cup Work(p)
<1>1. PICK l : l = line[p]
  OBVIOUS
<1>2. /\ p \in PageId /\ l \in Line /\ l.data \in Seq(Byte) /\ l.dirty \in BOOLEAN
      /\ l.name \in {l.own} \cup Work(p)
  BY <1>1, LineFacts
<1>3. Len(l.data) \in Nat /\ <<>> \in Seq(Byte)
  BY <1>2, LenProperties, EmptySeq
<1>4. NextName(p) \in Work(p) /\ NextName(p) \in Name
  BY <1>2, NameFacts
<1>7. /\ l = [own |-> l.own, name |-> l.name, at |-> l.at, size |-> l.size,
             dirty |-> l.dirty, data |-> l.data]
      /\ l.own \in {None, Named} /\ l.name \in Name /\ l.at \in Nat
  BY <1>2 DEF Line
<1>5. CASE l.dirty
  <2>1. Unloaded(p) = [l EXCEPT !.size = Len(l.data), !.at = 0, !.name = NextName(p),
                                !.dirty = FALSE, !.data = <<>>]
    BY <1>1, <1>5 DEF Unloaded
  <2>3. Unloaded(p) = [own |-> l.own, name |-> NextName(p), at |-> 0, size |-> Len(l.data),
                       dirty |-> FALSE, data |-> <<>>]
    BY <1>7, <2>1
  <2>2. /\ Unloaded(p) \in Line /\ Unloaded(p).own = l.own /\ Unloaded(p).dirty = FALSE
        /\ Unloaded(p).size = Len(l.data) /\ Unloaded(p).at = 0 /\ Unloaded(p).name = NextName(p)
    BY <1>3, <1>4, <1>7, <2>3 DEF Line
  <2> QED BY <1>1, <1>4, <1>5, <2>2
<1>6. CASE ~l.dirty
  <2>1. Unloaded(p) = [l EXCEPT !.size = Len(l.data), !.data = <<>>]
    BY <1>1, <1>6 DEF Unloaded
  <2>2. /\ Unloaded(p) \in Line /\ Unloaded(p).own = l.own /\ Unloaded(p).dirty = l.dirty
        /\ Unloaded(p).size = Len(l.data) /\ Unloaded(p).at = l.at /\ Unloaded(p).name = l.name
    BY <1>2, <1>3, <2>1 DEF Line
  <2> QED BY <1>1, <1>2, <1>6, <2>2
<1> QED BY <1>5, <1>6

(* What destroying a page leaves alone.                                    *)
OnlyGone(p, fs) ==
  /\ DOMAIN line' = DOMAIN line \ {p} /\ \A q \in DOMAIN line' : line'[q] = line[q]
  /\ DOMAIN given' = DOMAIN line' /\ \A q \in DOMAIN line' : given'[q] = given[q]
  /\ IsFiles(files') /\ DOMAIN fs \ Work(p) \subseteq DOMAIN files'
  /\ \A m \in DOMAIN fs \ Work(p) : files'[m] = fs[m]
  /\ litter' \in BOOLEAN

(* Its own files and its own line go, and nothing else.                    *)
LEMMA DestroyedFacts ==
  ASSUME SInv, NEW p \in DOMAIN line, NEW l \in Line, l.name \in {l.own} \cup Work(p),
         NEW fs, IsFiles(fs), Destroyed(p, l, fs)
  PROVE  OnlyGone(p, fs)
<1> DEFINE left == Work(p) \cap DOMAIN Without(fs, Scrap(p, l))
           gone == Scrap(p, l) \cup left
<1>1. p \in PageId /\ NextName(p) \in Work(p)
  BY LineFacts, NameFacts
<1>2. Scrap(p, l) \subseteq Work(p)
  BY <1>1 DEF Scrap, FileName
<1>3. gone \subseteq Work(p)
  BY <1>2
<1>4. /\ line' = [q \in DOMAIN line \ {p} |-> line[q]] /\ files' = Without(fs, gone)
      /\ litter' = (litter \/ left # {}) /\ given' = [q \in DOMAIN line \ {p} |-> given[q]]
  BY DEF Destroyed
<1>5. litter' \in BOOLEAN
  BY <1>4 DEF SInv, TypeOK
<1> HIDE DEF gone
<1>6. /\ IsFiles(Without(fs, gone)) /\ DOMAIN Without(fs, gone) = DOMAIN fs \ gone
      /\ \A m \in DOMAIN fs \ gone : Without(fs, gone)[m] = fs[m]
  BY WithoutFacts
<1>7. /\ IsFiles(files') /\ DOMAIN fs \ Work(p) \subseteq DOMAIN files'
      /\ \A m \in DOMAIN fs \ Work(p) : files'[m] = fs[m]
  BY <1>3, <1>4, <1>6
<1>8. DOMAIN line' = DOMAIN line \ {p} /\ \A q \in DOMAIN line' : line'[q] = line[q]
  BY <1>4
<1>9. DOMAIN given' = DOMAIN line' /\ \A q \in DOMAIN line' : given'[q] = given[q]
  BY <1>4
<1> QED BY <1>5, <1>7, <1>8, <1>9 DEF OnlyGone

(* A page that leaves the cache can be found where it was put, and no      *)
(* other page is touched.                                                  *)
LEMMA EvictKeeps ==
  ASSUME SInv, NEW p \in PageId, Evict(p)
  PROVE  /\ SInv' /\ files'[Named] = files[Named]
         /\ \A q \in Listed : given'[q] = given[q]
         /\ KInv /\ Nul \notin Byte => KInv'
<1> DEFINE u == Unloaded(p)
           w == WrittenOut(p)
<1>1. /\ p \in cached /\ p \in DOMAIN line /\ cached' = cached \ {p} /\ UNCHANGED <<list, save>>
      /\ line[p] \in Line /\ Named \in DOMAIN files /\ Listed \subseteq DOMAIN line
  BY LineFacts DEF Evict, SInv, TypeOK, LayoutOK
<1>2. /\ u \in Line /\ u.own = line[p].own /\ ~u.dirty /\ u.size = Len(line[p].data)
      /\ line[p].dirty => u.at = 0 /\ u.name = NextName(p)
      /\ ~line[p].dirty => u.at = line[p].at /\ u.name = line[p].name
      /\ u.name \in {u.own} \cup Work(p)
  BY <1>1, UnloadedFacts
<1>3. /\ IsFiles(w)
      /\ ~line[p].dirty => w = files
      /\ line[p].dirty => NextName(p) \in DOMAIN w /\ w[NextName(p)] = Text(line[p].data)
      /\ DOMAIN files \ Work(p) \subseteq DOMAIN w /\ \A m \in DOMAIN files \ Work(p) : w[m] = files[m]
  BY <1>1, WrittenOutFacts
<1>4. Named \in DOMAIN files \ Work(p)
  BY <1>1, NameFacts
<1>5. CASE p \in Listed
  <2>1. line' = [line EXCEPT ![p] = u] /\ files' = w /\ UNCHANGED <<litter, given>>
    BY <1>5 DEF Evict
  <2> HIDE DEF u, w
  <2>2. /\ DOMAIN line' = DOMAIN line /\ line'[p] = u
        /\ \A q \in DOMAIN line : q # p => line'[q] = line[q]
        /\ line' \in [DOMAIN line' -> Line]
        /\ \A q \in DOMAIN line' : line'[q].name \in {line'[q].own} \cup Work(q)
    BY <1>1, <1>2, <2>1, LineMoves
  <2>6. DOMAIN files' \subseteq Name /\ files' \in [DOMAIN files' -> Seq(Byte)]
    BY <1>3, <2>1 DEF IsFiles
  <2>3. TypeOK'
    BY <1>1, <2>1, <2>2, <2>6 DEF SInv, TypeOK
  <2>4. LayoutOK'
    BY <1>1, <1>3, <1>4, <2>1, <2>2 DEF SInv, LayoutOK, Listed
  <2>5. ASSUME KInv, Nul \notin Byte PROVE KInv'
    <3>1. SaveOK'
      BY <1>1, <2>1, <2>5 DEF KInv, SaveOK
    <3>2. Kept(p) /\ line[p].data = given[p] /\ given[p] \in Seq(Byte)
      BY <1>1, <1>5, <2>5, LineFacts DEF KInv, KeptOK, Kept
    <3>3. Stays(u, given[p], w)
      <4>1. CASE line[p].dirty
        <5>1. w[u.name] = given[p] /\ u.name \in DOMAIN w /\ u.at = 0 /\ u.size = Len(given[p])
          BY <1>2, <1>3, <2>5, <3>2, <4>1, TextWhole
        <5>2. Len(given[p]) \in Nat /\ SubSeq(given[p], 1, Len(given[p])) = given[p]
          BY <3>2, LenProperties, SubSeqFull
        <5> QED BY <5>1, <5>2 DEF Stays
      <4>2. CASE ~line[p].dirty
        <5>1. Stays(line[p], given[p], w) /\ u.size = Len(given[p])
          BY <1>2, <1>3, <3>2, <4>2 DEF Kept
        <5>2. line[p].size = u.size /\ line[p].at = u.at /\ line[p].name = u.name
          BY <1>2, <4>2, <5>1 DEF Stays
        <5> QED BY <5>1, <5>2 DEF Stays
      <4> QED BY <4>1, <4>2
    <3>4. Kept(p)'
      BY <1>1, <1>2, <2>1, <2>2, <3>3 DEF Kept
    <3>5. ASSUME NEW q \in Listed, q # p PROVE Kept(q)'
      <4>1. Kept(q) /\ q \in DOMAIN line
        BY <1>1, <2>5 DEF KInv, KeptOK
      <4>2. \A m \in DOMAIN files \ Work(p) : m \in DOMAIN files' /\ files'[m] = files[m]
        BY <1>3, <2>1
      <4> QED BY <1>1, <2>1, <2>2, <3>5, <4>1, <4>2, OthersKept
    <3> QED BY <1>1, <3>1, <3>4, <3>5 DEF KInv, KeptOK, Listed
  <2> QED BY <1>3, <1>4, <2>1, <2>3, <2>4, <2>5 DEF SInv
<1>6. CASE p \notin Listed
  <2>1. Destroyed(p, u, w)
    BY <1>6 DEF Evict
  <2> HIDE DEF u, w
  <2>10. OnlyGone(p, w)
    BY <1>1, <1>2, <1>3, <2>1, DestroyedFacts
  <2>2. /\ DOMAIN line' = DOMAIN line \ {p} /\ \A q \in DOMAIN line' : line'[q] = line[q]
        /\ DOMAIN given' = DOMAIN line' /\ \A q \in DOMAIN line' : given'[q] = given[q]
        /\ IsFiles(files') /\ DOMAIN w \ Work(p) \subseteq DOMAIN files'
        /\ \A m \in DOMAIN w \ Work(p) : files'[m] = w[m]
        /\ litter' \in BOOLEAN
    BY <2>10 DEF OnlyGone
  <2>3. \A m \in DOMAIN files \ Work(p) : m \in DOMAIN files' /\ files'[m] = files[m]
    BY <1>3, <2>2
  <2>4. Listed' = Listed /\ Listed \subseteq DOMAIN line'
    BY <1>1, <1>6, <2>2 DEF Listed
  <2>5. line' \in [DOMAIN line' -> Line] /\ given' \in [DOMAIN line' -> Seq(Byte)]
    <3>1. line' = [q \in DOMAIN line' |-> line'[q]] /\ given' = [q \in DOMAIN line' |-> given'[q]]
      BY <2>1, <2>2 DEF Destroyed
    <3>2. \A q \in DOMAIN line' : line'[q] \in Line /\ given'[q] \in Seq(Byte)
      BY <2>2, LineFacts
    <3> QED BY <3>1, <3>2
  <2>6. TypeOK'
    BY <1>1, <2>2, <2>5 DEF SInv, TypeOK, IsFiles
  <2>7. LayoutOK'
    BY <1>1, <1>4, <2>2, <2>3, <2>4 DEF SInv, LayoutOK
  <2>8. ASSUME KInv PROVE KInv'
    <3>1. SaveOK'
      <4>1. ASSUME save.busy, NEW k \in 1 .. Len(save.copied)
            PROVE  save.copied[k] = given'[list[k]] /\ Len(save.copied) <= Len(list)
        <5>1. Len(save.copied) <= Len(list) /\ save.copied[k] = given[list[k]]
          BY <2>8, <4>1 DEF KInv, SaveOK
        <5>2. Len(list) \in Nat /\ Len(save.copied) \in Nat /\ list \in Seq(PageId)
          BY LenProperties DEF SInv, TypeOK
        <5>3. list[k] \in Listed
          BY <5>1, <5>2, PlacesOfSeq DEF Listed
        <5> QED BY <2>2, <2>4, <5>1, <5>3
      <4> QED BY <1>1, <2>8, <4>1 DEF KInv, SaveOK
    <3>2. ASSUME NEW q \in Listed PROVE Kept(q)'
      <4>1. Kept(q) /\ q \in DOMAIN line /\ q # p /\ q \in DOMAIN line'
        BY <1>1, <1>6, <2>4, <2>8 DEF KInv, KeptOK
      <4> QED BY <1>1, <2>2, <2>3, <4>1, OthersKept
    <3> QED BY <2>4, <3>1, <3>2 DEF KInv, KeptOK
  <2>9. \A q \in Listed : given'[q] = given[q]
    BY <2>2, <2>4
  <2> QED BY <1>4, <2>3, <2>6, <2>7, <2>8, <2>9 DEF SInv
<1> QED BY <1>5, <1>6

-----------------------------------------------------------------------------
(* The operations of File.                                                 *)

(* The list of pages and their bytes.                                      *)
Pieces == [k \in 1 .. Len(list) |-> given[list[k]]]

(* Each page of the list has bytes.                                        *)
LEMMA PiecesFacts ==
  ASSUME SInv
  PROVE  /\ list \in Seq(PageId) /\ Len(list) \in Nat /\ DOMAIN list = 1 .. Len(list)
         /\ \A k \in 1 .. Len(list) : list[k] \in Listed /\ list[k] \in DOMAIN line
         /\ \A q \in Listed : \E k \in 1 .. Len(list) : list[k] = q
         /\ Pieces \in Seq(Seq(Byte)) /\ Len(Pieces) = Len(list)
         /\ \A k \in 1 .. Len(list) : Pieces[k] = given[list[k]]
<1>1. list \in Seq(PageId) /\ Len(list) \in Nat /\ DOMAIN list = 1 .. Len(list)
  BY LenProperties DEF SInv, TypeOK
<1>2. /\ \A k \in 1 .. Len(list) : list[k] \in Listed
      /\ \A q \in Listed : \E k \in 1 .. Len(list) : list[k] = q
      /\ Listed \subseteq DOMAIN line
  BY <1>1, PlacesOfSeq DEF Listed, SInv, LayoutOK
<1>3. \A k \in 1 .. Len(list) : given[list[k]] \in Seq(Byte)
  BY <1>2, LineFacts
<1>4. Pieces \in Seq(Seq(Byte)) /\ Len(Pieces) = Len(list)
  <2> DEFINE T == Seq(Byte)
  <2>1. \A k \in 1 .. Len(list) : given[list[k]] \in T
    BY <1>3
  <2> HIDE DEF T
  <2>2. Pieces \in Seq(T) /\ Len(Pieces) = Len(list)
    BY <1>1, <2>1 DEF Pieces
  <2> QED BY <2>2 DEF T
<1>5. \A k \in 1 .. Len(list) : Pieces[k] = given[list[k]]
  BY DEF Pieces
<1> QED BY <1>1, <1>2, <1>4, <1>5

(* What is put in a page is what the page has.                             *)
LEMMA PutKeeps ==
  ASSUME SInv, NEW k \in Inner, NEW b \in Buffers, Put(k, b)
  PROVE  SInv' /\ (KInv => KInv') /\ Stored!Put(k)
<1> DEFINE p == list[k]
           r == [line[p] EXCEPT !.data = b, !.size = Len(b), !.dirty = TRUE]
<1>1. /\ k \in 1 .. Len(list) /\ p \in Listed /\ p \in DOMAIN line /\ p \in PageId
      /\ line[p] \in Line /\ line[p].name \in {line[p].own} \cup Work(p)
  <2>1. k \in 1 .. Len(list)
    BY PiecesFacts DEF Inner
  <2> QED BY <2>1, PiecesFacts, LineFacts
<1>2. b \in Seq(Byte) /\ Len(b) \in Nat
  BY BytesAssumption, LenProperties
<1>3. /\ ~save.busy /\ p \in cached /\ given' = [given EXCEPT ![p] = b]
      /\ UNCHANGED <<list, cached, files, litter, save>>
  BY DEF Put
<1>4. line' = [line EXCEPT ![p] = r]
  BY DEF Put
<1>5. /\ r \in Line /\ r.own = line[p].own /\ r.name = line[p].name /\ r.dirty = TRUE /\ r.data = b
  BY <1>1, <1>2 DEF Line
<1>6. r.name \in {r.own} \cup Work(p)
  BY <1>1, <1>5
<1> HIDE DEF r
<1>7. /\ DOMAIN line' = DOMAIN line /\ line'[p] = r
      /\ \A q \in DOMAIN line : q # p => line'[q] = line[q]
      /\ line' \in [DOMAIN line' -> Line]
      /\ \A q \in DOMAIN line' : line'[q].name \in {line'[q].own} \cup Work(q)
  <2> HIDE DEF p
  <2> QED BY <1>1, <1>4, <1>5, <1>6, LineMoves
<1>8. /\ given' \in [DOMAIN line -> Seq(Byte)] /\ given'[p] = b
      /\ \A q \in DOMAIN line : q # p => given'[q] = given[q]
  BY <1>1, <1>2, <1>3 DEF SInv, TypeOK
<1>9. TypeOK'
  BY <1>3, <1>7, <1>8 DEF SInv, TypeOK
<1>10. LayoutOK'
  BY <1>3, <1>7 DEF SInv, LayoutOK, Listed
<1>11. ASSUME KInv PROVE KInv'
  <2>1. SaveOK'
    BY <1>3 DEF SaveOK
  <2>2. ASSUME NEW q \in Listed PROVE Kept(q)'
    <3>1. Kept(q) /\ q \in DOMAIN line
      BY <1>11, <2>2 DEF KInv, KeptOK, SInv, LayoutOK
    <3>2. CASE q # p
      BY <1>1, <1>3, <1>7, <1>8, <3>1, <3>2, OthersKept
    <3>3. CASE q = p
      BY <1>3, <1>5, <1>7, <1>8, <3>3 DEF Kept
    <3> QED BY <3>2, <3>3
  <2> QED BY <1>3, <2>1, <2>2 DEF KInv, KeptOK, Listed
<1>12. Stored!Put(k)
  <2>1. PICK A, B : A = Pieces /\ B = Pieces'
    OBVIOUS
  <2>2. DOMAIN B = 1 .. Len(list) /\ DOMAIN A = 1 .. Len(list)
    BY <1>3, <2>1 DEF Pieces
  <2>3. ASSUME NEW j \in 1 .. Len(list) PROVE B[j] = IF j = k THEN b ELSE A[j]
    <3>1. B[j] = given'[list[j]] /\ A[j] = given[list[j]]
      BY <1>3, <2>1 DEF Pieces
    <3>2. list[j] \in DOMAIN line /\ (j # k => list[j] # p)
      BY <1>1, PiecesFacts DEF SInv, LayoutOK, Distinct
    <3> QED BY <1>8, <3>1, <3>2
  <2>4. B = [A EXCEPT ![k] = B[k]]
    <3>1. B = [j \in 1 .. Len(list) |-> B[j]]
      BY <1>3, <2>1 DEF Pieces
    <3>2. A = [j \in 1 .. Len(list) |-> A[j]]
      BY <2>1 DEF Pieces
    <3> QED BY <2>2, <2>3, <3>1, <3>2
  <2>5. B[k] \in Seq(Byte)
    BY <1>1, <1>2, <2>3
  <2> QED BY <1>3, <2>1, <2>2, <2>4, <2>5 DEF Stored!Put, Pieces
<1> QED BY <1>9, <1>10, <1>11, <1>12 DEF SInv

(* A new page has no bytes, and the others are where they were.            *)
LEMMA NewPageKeeps ==
  ASSUME SInv, NEW k \in 1 .. Len(list), NEW n \in Nat, NewPage(k, n)
  PROVE  SInv' /\ (KInv => KInv') /\ Stored!Insert(k)
<1>1. PICK p \in PageId \ DOMAIN line :
        /\ list' = InsertAt(list, k + 1, p)
        /\ line' = [q \in DOMAIN line \cup {p} |->
                      IF q = p THEN [own |-> None, name |-> None, at |-> 0, size |-> n,
                                     dirty |-> TRUE, data |-> <<>>]
                               ELSE line[q]]
        /\ given' = [q \in DOMAIN line \cup {p} |-> IF q = p THEN <<>> ELSE given[q]]
  BY DEF NewPage
<1>2. ~save.busy /\ UNCHANGED <<cached, files, litter, save>>
  BY DEF NewPage
<1> DEFINE r == [own |-> None, name |-> None, at |-> 0, size |-> n, dirty |-> TRUE, data |-> <<>>]
<1>3. r \in Line /\ r.name = r.own /\ r.dirty = TRUE
  <2>1. None \in {None, Named} /\ None \in Name /\ <<>> \in Seq(Byte)
    BY NameFacts, EmptySeq
  <2> QED BY <2>1 DEF Line
<1>4. line' = [q \in DOMAIN line \cup {p} |-> IF q = p THEN r ELSE line[q]]
  BY <1>1
<1> HIDE DEF r
<1>5. /\ DOMAIN line' = DOMAIN line \cup {p} /\ line'[p] = r
      /\ \A q \in DOMAIN line : line'[q] = line[q]
      /\ DOMAIN given' = DOMAIN line' /\ given'[p] = <<>>
      /\ \A q \in DOMAIN line : given'[q] = given[q]
  BY <1>1, <1>4
<1>6. line' \in [DOMAIN line' -> Line]
  BY <1>3, <1>4, <1>5, LineFacts
<1>7. given' \in [DOMAIN line' -> Seq(Byte)]
  BY <1>1, <1>5, LineFacts, EmptySeq
<1>8. \A q \in DOMAIN line' : line'[q].name \in {line'[q].own} \cup Work(q)
  BY <1>3, <1>5, LineFacts
<1>9. /\ Listed \subseteq DOMAIN line /\ cached \subseteq DOMAIN line /\ DOMAIN line \subseteq PageId
      /\ p \notin Listed /\ p \in PageId /\ Distinct(list)
  BY <1>1 DEF SInv, TypeOK, LayoutOK
<1>10. PICK m \in Nat : m = Len(list) /\ k \in 1 .. m /\ k + 1 \in 1 .. m + 1
  <2>1. Len(list) \in Nat
    BY PiecesFacts
  <2> QED BY <2>1
<1>11. /\ list' \in Seq(PageId) /\ Len(list') = m + 1
       /\ \A j \in 1 .. m + 1 : list'[j] = IF j < k + 1 THEN list[j]
                                           ELSE IF j = k + 1 THEN p ELSE list[j - 1]
  <2>1. k + 1 \in 1 .. Len(list) + 1 /\ list \in Seq(PageId) /\ p \in PageId
    BY <1>9, <1>10, PiecesFacts
  <2>2. /\ InsertAt(list, k + 1, p) \in Seq(PageId) /\ Len(InsertAt(list, k + 1, p)) = Len(list) + 1
        /\ \A j \in 1 .. Len(list) + 1 :
             InsertAt(list, k + 1, p)[j] = IF j < k + 1 THEN list[j]
                                           ELSE IF j = k + 1 THEN p ELSE list[j - 1]
    BY <2>1, InsertedList
  <2> QED BY <1>1, <1>10, <2>2
<1>12. Distinct(list') /\ Listed' = Listed \cup {p}
  BY <1>1, <1>9, <1>10, InsertDistinct, PiecesFacts DEF Listed
<1>13. TypeOK'
  BY <1>2, <1>5, <1>6, <1>7, <1>9, <1>11 DEF SInv, TypeOK
<1>14. LayoutOK'
  <2>1. Len(list') >= 2
    BY <1>10, <1>11 DEF SInv, LayoutOK
  <2> QED BY <1>2, <1>5, <1>8, <1>9, <1>12, <2>1 DEF SInv, LayoutOK
<1>15. ASSUME KInv PROVE KInv'
  <2>1. SaveOK'
    BY <1>2 DEF SaveOK
  <2>2. ASSUME NEW q \in Listed PROVE Kept(q)'
    <3>1. Kept(q) /\ q \in DOMAIN line /\ q # p
      BY <1>1, <1>9, <1>15, <2>2 DEF KInv, KeptOK
    <3> QED BY <1>2, <1>5, <1>9, <3>1, OthersKept
  <2>3. Kept(p)'
    BY <1>1, <1>2, <1>3, <1>5, <1>9 DEF Kept
  <2> QED BY <1>12, <2>1, <2>2, <2>3 DEF KInv, KeptOK
<1>16. Stored!Insert(k)
  <2> DEFINE T == Seq(Byte)
  <2>1. PICK A, B : A = Pieces /\ B = Pieces'
    OBVIOUS
  <2>2. A \in Seq(T) /\ Len(A) = m /\ \A j \in 1 .. m : A[j] = given[list[j]]
    BY <1>10, <2>1, PiecesFacts
  <2>3. SInv'
    BY <1>13, <1>14 DEF SInv
  <2>4. B = [j \in 1 .. m + 1 |-> given'[list'[j]]]
    BY <1>11, <2>1 DEF Pieces
  <2>5. <<>> \in T
    BY EmptySeq
  <2> HIDE DEF T
  <2>6. PICK C : C = InsertAt(A, k + 1, <<>>)
    OBVIOUS
  <2>7. /\ C \in Seq(T) /\ Len(C) = m + 1
        /\ \A j \in 1 .. m + 1 : C[j] = IF j < k + 1 THEN A[j]
                                        ELSE IF j = k + 1 THEN <<>> ELSE A[j - 1]
    <3>1. k + 1 \in 1 .. Len(A) + 1 /\ A \in Seq(T)
      BY <1>10, <2>2
    <3>2. /\ InsertAt(A, k + 1, <<>>) \in Seq(T) /\ Len(InsertAt(A, k + 1, <<>>)) = Len(A) + 1
          /\ \A j \in 1 .. Len(A) + 1 :
               InsertAt(A, k + 1, <<>>)[j] = IF j < k + 1 THEN A[j]
                                             ELSE IF j = k + 1 THEN <<>> ELSE A[j - 1]
      BY <2>5, <3>1, InsertedList
    <3> QED BY <2>2, <2>6, <3>2
  <2>8. ASSUME NEW j \in 1 .. m + 1 PROVE C[j] = given'[list'[j]]
    <3>1. \A i \in 1 .. m : list[i] \in DOMAIN line
      BY <1>10, PiecesFacts
    <3>2. CASE j < k + 1
      <4>1. j \in 1 .. m
        BY <1>10, <3>2
      <4> QED BY <1>5, <1>11, <2>2, <2>7, <3>1, <3>2, <4>1
    <3>3. CASE j = k + 1
      BY <1>5, <1>11, <2>7, <3>3
    <3>4. CASE j > k + 1
      <4>1. j - 1 \in 1 .. m /\ ~(j < k + 1) /\ j # k + 1
        BY <1>10, <3>4
      <4>2. C[j] = A[j - 1] /\ list'[j] = list[j - 1]
        BY <1>11, <2>7, <4>1
      <4>3. A[j - 1] = given[list[j - 1]] /\ given'[list[j - 1]] = given[list[j - 1]]
        BY <1>5, <2>2, <3>1, <4>1
      <4> QED BY <4>2, <4>3
    <3>5. j < k + 1 \/ j = k + 1 \/ j > k + 1
      BY <1>10
    <3> QED BY <3>2, <3>3, <3>4, <3>5
  <2>9. B = C
    <3>1. C = [j \in 1 .. m + 1 |-> C[j]]
      BY <2>7, LenProperties
    <3> QED BY <2>4, <2>8, <3>1
  <2>10. C = Stored!InsertAt(A, k + 1, <<>>)
    BY <2>6 DEF InsertAt, Stored!InsertAt
  <2>11. Pieces' = Stored!InsertAt(Pieces, k + 1, <<>>)
    BY <2>1, <2>9, <2>10
  <2> QED BY <1>2, <2>11 DEF Stored!Insert, Pieces
<1> QED BY <1>13, <1>14, <1>15, <1>16 DEF SInv

(* A page that leaves the list leaves the others where they were.          *)
LEMMA EraseKeeps ==
  ASSUME SInv, NEW k \in Inner, Erase(k)
  PROVE  SInv' /\ (KInv => KInv') /\ Stored!Erase(k)
<1>1. /\ ~save.busy /\ list' = RemoveAt(list, k)
      /\ UNCHANGED <<line, cached, files, litter, save, given>>
  BY DEF Erase
<1>2. PICK m \in Nat : m = Len(list) /\ k \in 1 .. m /\ k \in 2 .. m - 1
  <2>1. Len(list) \in Nat
    BY PiecesFacts
  <2> QED BY <2>1 DEF Inner
<1>3. list \in Seq(PageId) /\ Distinct(list)
  BY DEF SInv, TypeOK, LayoutOK
<1>4. /\ list' \in Seq(PageId) /\ Len(list') = m - 1
      /\ \A j \in 1 .. m - 1 : list'[j] = IF j < k THEN list[j] ELSE list[j + 1]
  BY <1>1, <1>2, <1>3, RemovedList
<1>5. Distinct(list') /\ Listed' \subseteq Listed
  BY <1>1, <1>2, <1>3, RemoveInner DEF Listed
<1>6. TypeOK'
  BY <1>1, <1>4 DEF SInv, TypeOK
<1>7. LayoutOK'
  <2>1. Len(list') >= 2
    BY <1>2, <1>4
  <2> QED BY <1>1, <1>5, <2>1 DEF SInv, LayoutOK
<1>8. ASSUME KInv PROVE KInv'
  <2>1. SaveOK'
    BY <1>1 DEF SaveOK
  <2>2. ASSUME NEW q \in Listed PROVE Kept(q)'
    BY <1>1, <1>8 DEF KInv, KeptOK, Kept
  <2> QED BY <1>5, <2>1, <2>2 DEF KInv, KeptOK
<1>9. Stored!Erase(k)
  <2> DEFINE T == Seq(Byte)
  <2>1. PICK A, B : A = Pieces /\ B = Pieces'
    OBVIOUS
  <2>2. A \in Seq(T) /\ Len(A) = m /\ \A j \in 1 .. m : A[j] = given[list[j]]
    BY <1>2, <2>1, PiecesFacts
  <2>3. B = [j \in 1 .. m - 1 |-> given[list'[j]]]
    BY <1>1, <1>4, <2>1 DEF Pieces
  <2> HIDE DEF T
  <2>4. PICK C : C = RemoveAt(A, k)
    OBVIOUS
  <2>5. /\ C \in Seq(T) /\ Len(C) = m - 1
        /\ \A j \in 1 .. m - 1 : C[j] = IF j < k THEN A[j] ELSE A[j + 1]
    <3>1. k \in 1 .. Len(A) /\ A \in Seq(T)
      BY <1>2, <2>2
    <3>2. /\ RemoveAt(A, k) \in Seq(T) /\ Len(RemoveAt(A, k)) = Len(A) - 1
          /\ \A j \in 1 .. Len(A) - 1 : RemoveAt(A, k)[j] = IF j < k THEN A[j] ELSE A[j + 1]
      BY <3>1, RemovedList
    <3> QED BY <2>2, <2>4, <3>2
  <2>6. ASSUME NEW j \in 1 .. m - 1 PROVE C[j] = given[list'[j]]
    <3>1. j \in 1 .. m /\ j + 1 \in 1 .. m
      BY <1>2
    <3> QED BY <1>4, <2>2, <2>5, <3>1
  <2>7. B = C
    <3>1. C = [j \in 1 .. m - 1 |-> C[j]]
      BY <2>5, LenProperties
    <3> QED BY <2>3, <2>6, <3>1
  <2>8. C = Stored!RemoveAt(A, k)
    BY <2>4 DEF RemoveAt, Stored!RemoveAt
  <2>9. Pieces' = Stored!RemoveAt(Pieces, k)
    BY <2>1, <2>7, <2>8
  <2> QED BY <1>1, <2>9 DEF Stored!Erase, Pieces
<1> QED BY <1>6, <1>7, <1>8, <1>9 DEF SInv

-----------------------------------------------------------------------------
(* save, load and the end of the process.                                  *)

(* A save that has read nothing has read the first pages.                  *)
LEMMA SaveBeginsKeeps ==
  ASSUME SInv, SaveBegins
  PROVE  SInv' /\ (KInv => KInv')
<1>1. /\ save' = [busy |-> TRUE, copied |-> <<>>]
      /\ UNCHANGED <<list, line, cached, files, litter, given>>
  BY DEF SaveBegins
<1>2. save' \in [busy : BOOLEAN, copied : Seq(Seq(Byte))] /\ Len(save'.copied) = 0
  BY <1>1, EmptySeq
<1>3. SInv'
  BY <1>1, <1>2 DEF SInv, TypeOK, LayoutOK, Listed
<1>4. SaveOK'
  BY <1>1, <1>2, PiecesFacts DEF SaveOK
<1>5. KeptOK => KeptOK'
  BY <1>1 DEF KeptOK, Kept, Listed
<1> QED BY <1>3, <1>4, <1>5 DEF KInv

(* A save reads the next page as it was given.                             *)
LEMMA SaveCopiesKeeps ==
  ASSUME SInv, SaveCopies
  PROVE  SInv' /\ (KInv => KInv')
<1> DEFINE T == Seq(Byte)
<1>1. PICK c : c = save.copied
  OBVIOUS
<1>2. PICK p : p = list[Len(c) + 1]
  OBVIOUS
<1>3. /\ save.busy /\ Len(c) < Len(list) /\ p \in cached
      /\ save' = [save EXCEPT !.copied = Append(c, line[p].data)]
      /\ UNCHANGED <<list, line, cached, files, litter, given>>
  BY <1>1, <1>2 DEF SaveCopies
<1>4. c \in Seq(T) /\ save \in [busy : BOOLEAN, copied : Seq(T)] /\ line[p].data \in T
  BY <1>1, <1>3, LineFacts DEF SInv, TypeOK
<1> HIDE DEF T
<1>5. /\ Len(c) \in Nat /\ Append(c, line[p].data) \in Seq(T)
      /\ Len(Append(c, line[p].data)) = Len(c) + 1
      /\ \A k \in 1 .. Len(c) : Append(c, line[p].data)[k] = c[k]
      /\ Append(c, line[p].data)[Len(c) + 1] = line[p].data
  BY <1>4, AppendProperties, LenProperties
<1>6. /\ save' \in [busy : BOOLEAN, copied : Seq(T)]
      /\ save'.copied = Append(c, line[p].data) /\ save'.busy
  BY <1>3, <1>4, <1>5
<1>7. TypeOK'
  BY <1>3, <1>6 DEF SInv, TypeOK, T
<1>8. LayoutOK'
  BY <1>3 DEF SInv, LayoutOK, Listed
<1>9. ASSUME KInv PROVE KInv'
  <2>1. KeptOK'
    BY <1>3, <1>9 DEF KInv, KeptOK, Kept, Listed
  <2>2. Len(list) \in Nat /\ Len(c) + 1 \in 1 .. Len(list)
    BY <1>3, <1>5, PiecesFacts
  <2>3. line[p].data = given[p]
    BY <1>2, <1>3, <1>9, <2>2, PiecesFacts DEF KInv, KeptOK, Kept
  <2>4. \A k \in 1 .. Len(c) : c[k] = given[list[k]]
    BY <1>1, <1>3, <1>9 DEF KInv, SaveOK
  <2>5. ASSUME NEW k \in 1 .. Len(c) + 1 PROVE Append(c, line[p].data)[k] = given[list[k]]
    <3>1. CASE k = Len(c) + 1
      BY <1>2, <1>5, <2>3, <3>1
    <3>2. CASE k # Len(c) + 1
      <4>1. k \in 1 .. Len(c)
        BY <1>5, <3>2
      <4> QED BY <1>5, <2>4, <4>1
    <3> QED BY <3>1, <3>2
  <2>6. SaveOK'
    BY <1>3, <1>5, <1>6, <2>2, <2>5 DEF SaveOK
  <2> QED BY <2>1, <2>6 DEF KInv
<1> QED BY <1>7, <1>8, <1>9 DEF SInv

(* A save that replaces the file writes the bytes of every page.           *)
LEMMA SaveReplacesKeeps ==
  ASSUME SInv, SaveReplaces
  PROVE  SInv' /\ KInv' /\ (KInv => Stored!Save)
<1>1. PICK image : image = FlattenSeq(save.copied)
  OBVIOUS
<1>2. save.copied \in Seq(Seq(Byte))
  BY DEF SInv, TypeOK
<1>3. image \in Seq(Byte)
  BY <1>1, <1>2, FlattenType
<1>4. PICK fs : fs = Cleared
  OBVIOUS
<1>5. Opened(image, fs) /\ litter \in BOOLEAN
  BY <1>1, <1>4 DEF SaveReplaces, Opened, SInv, TypeOK
<1>6. SInv' /\ KInv' /\ Pieces' = Stored!Cut(image) /\ files'[Named] = image
  BY <1>3, <1>5, OpenedKeeps DEF Pieces
<1>7. ASSUME KInv PROVE Stored!Save
  <2> DEFINE T == Seq(Byte)
  <2>1. PICK A, c : A = Pieces /\ c = save.copied
    OBVIOUS
  <2>2. A \in Seq(T) /\ c \in Seq(T)
    BY <1>2, <2>1, PiecesFacts
  <2>3. Len(c) = Len(list) /\ Len(A) = Len(list) /\ Len(list) \in Nat
    BY <2>1, PiecesFacts DEF SaveReplaces
  <2>4. \A k \in 1 .. Len(list) : c[k] = A[k]
    BY <1>7, <2>1, <2>3, PiecesFacts DEF KInv, SaveOK, SaveReplaces
  <2> HIDE DEF T
  <2>5. A = c
    <3>1. A = [k \in 1 .. Len(list) |-> A[k]] /\ c = [k \in 1 .. Len(list) |-> c[k]]
      BY <2>2, <2>3, LenProperties
    <3> QED BY <2>4, <3>1
  <2>6. FlattenSeq(A) = Stored!FlattenSeq(A)
    BY DEF FlattenSeq, Stored!FlattenSeq
  <2>7. files'[Named] = Stored!FlattenSeq(Pieces) /\ Pieces' = Stored!Cut(files'[Named])
    BY <1>1, <1>6, <2>1, <2>5, <2>6
  <2> QED BY <2>7 DEF Stored!Save, Pieces
<1> QED BY <1>6, <1>7

(* Anything else that opens the file goes back to what is there.           *)
LEMMA OpensNamed ==
  ASSUME SInv, SaveFails \/ Reload \/ Crash
  PROVE  SInv' /\ KInv' /\ Stored!Forget
<1>1. PICK image : image = files[Named]
  OBVIOUS
<1>2. image \in Seq(Byte) /\ litter \in BOOLEAN
  BY <1>1 DEF SInv, TypeOK, LayoutOK
<1>3. PICK fs : Opened(image, fs)
  BY <1>1 DEF SaveFails, Reload, Crash, Opened
<1>4. SInv' /\ KInv' /\ Pieces' = Stored!Cut(image) /\ files'[Named] = image
  BY <1>2, <1>3, OpenedKeeps DEF Pieces
<1> QED BY <1>1, <1>4 DEF Stored!Forget, Pieces

-----------------------------------------------------------------------------
(* The theorems.                                                           *)

(* A file that is opened first.                                            *)
LEMMA InitHolds ==
  ASSUME Init
  PROVE  SInv /\ KInv /\ Stored!Init
<1>1. PICK image \in Images :
        /\ Count(Len(image)) <= MaxPages
        /\ list = [k \in 1 .. Count(Len(image)) |-> k]
        /\ line = [k \in 1 .. Count(Len(image)) |-> FirstLine(Len(image), k)]
        /\ cached = {} /\ files = [f \in {Named} |-> image] /\ litter = FALSE /\ save = Idle
        /\ given = [k \in 1 .. Count(Len(image)) |-> Piece(image, k)]
  BY DEF Init
<1>2. image \in Seq(Byte)
  BY BytesAssumption
<1>3. PICK n, L, W, G, f :
        n = Count(Len(image)) /\ L = list /\ W = line /\ G = given /\ f = files
  OBVIOUS
<1>4. IsFresh(image, n, L, W, G, f)
  BY <1>1, <1>3 DEF IsFresh
<1>5. FreshOK(image, n, L, W, G, f)
  BY <1>2, <1>4, FreshFacts
<1>6. DOMAIN W = 1 .. n /\ DOMAIN G = 1 .. n
  BY <1>5 DEF FreshOK
<1>7. save \in [busy : BOOLEAN, copied : Seq(Seq(Byte))] /\ ~save.busy
  BY <1>1, EmptySeq DEF Idle
<1>8. TypeOK
  BY <1>1, <1>3, <1>5, <1>6, <1>7 DEF FreshOK, TypeOK, IsFiles
<1>9. LayoutOK
  BY <1>3, <1>5, <1>6 DEF FreshOK, LayoutOK, Listed
<1>10. KInv
  <2>1. SaveOK
    BY <1>7 DEF SaveOK
  <2>2. ASSUME NEW p \in 1 .. n PROVE Kept(p)
    BY <1>1, <1>3, <1>5 DEF FreshOK, Kept
  <2>3. Listed = 1 .. n
    BY <1>3, <1>5 DEF FreshOK, Listed
  <2> QED BY <2>1, <2>2, <2>3 DEF KInv, KeptOK
<1>11. Pieces = Stored!Cut(image) /\ files[Named] = image
  BY <1>3, <1>5 DEF FreshOK, Pieces
<1>12. Stored!Init
  BY <1>2, <1>11 DEF Stored!Init, Pieces
<1> QED BY <1>8, <1>9, <1>10, <1>12 DEF SInv

(* A step of the cache and of a save that reads is no step of StoredFile.  *)
LEMMA NothingStored ==
  ASSUME SInv, list' = list, \A q \in Listed : given'[q] = given[q], files'[Named] = files[Named]
  PROVE  UNCHANGED Stored!vars
<1>1. \A k \in 1 .. Len(list) : given'[list'[k]] = given[list[k]]
  BY PiecesFacts
<1>2. Pieces' = Pieces
  BY <1>1 DEF Pieces
<1> QED BY <1>2 DEF Stored!vars, Pieces

(* Every step keeps the layout; without a Nul it keeps the bytes, and is a *)
(* step of StoredFile or none.                                             *)
LEMMA StepKeeps ==
  ASSUME SInv, [Next]_vars
  PROVE  /\ SInv'
         /\ KInv /\ Nul \notin Byte => KInv' /\ [Stored!Next]_(Stored!vars)
<1>1. CASE \E p \in PageId : Acquire(p)
  <2>1. PICK p \in PageId : Acquire(p)
    BY <1>1
  <2>2. UNCHANGED <<list, files, given>>
    BY <2>1 DEF Acquire
  <2> QED BY <2>1, <2>2, AcquireKeeps, NothingStored
<1>2. CASE \E p \in PageId : Evict(p)
  <2>1. PICK p \in PageId : Evict(p)
    BY <1>2
  <2>2. list' = list
    BY <2>1 DEF Evict
  <2> QED BY <2>1, <2>2, EvictKeeps, NothingStored
<1>3. CASE \E k \in Inner, b \in Buffers : Put(k, b)
  <2>1. PICK k \in Inner, b \in Buffers : Put(k, b)
    BY <1>3
  <2>2. k \in DOMAIN Pieces
    BY PiecesFacts DEF Inner, Pieces
  <2>3. SInv' /\ (KInv => KInv') /\ Stored!Put(k)
    BY <2>1, PutKeeps
  <2> QED BY <2>2, <2>3 DEF Stored!Next, Pieces
<1>4. CASE \E k \in 1 .. Len(list), n \in Nat : NewPage(k, n)
  <2>1. PICK k \in 1 .. Len(list), n \in Nat : NewPage(k, n)
    BY <1>4
  <2>2. k \in DOMAIN Pieces
    BY DEF Pieces
  <2>3. SInv' /\ (KInv => KInv') /\ Stored!Insert(k)
    BY <2>1, NewPageKeeps
  <2> QED BY <2>2, <2>3 DEF Stored!Next, Pieces
<1>5. CASE \E k \in Inner : Erase(k)
  <2>1. PICK k \in Inner : Erase(k)
    BY <1>5
  <2>2. k \in DOMAIN Pieces
    BY PiecesFacts DEF Inner, Pieces
  <2>3. SInv' /\ (KInv => KInv') /\ Stored!Erase(k)
    BY <2>1, EraseKeeps
  <2> QED BY <2>2, <2>3 DEF Stored!Next, Pieces
<1>6. CASE SaveBegins
  <2>1. UNCHANGED <<list, files, given>>
    BY <1>6 DEF SaveBegins
  <2> QED BY <1>6, <2>1, SaveBeginsKeeps, NothingStored
<1>7. CASE SaveCopies
  <2>1. UNCHANGED <<list, files, given>>
    BY <1>7 DEF SaveCopies
  <2> QED BY <1>7, <2>1, SaveCopiesKeeps, NothingStored
<1>8. CASE SaveReplaces
  BY <1>8, SaveReplacesKeeps DEF Stored!Next
<1>9. CASE SaveFails \/ Reload \/ Crash
  BY <1>9, OpensNamed DEF Stored!Next
<1>10. CASE UNCHANGED vars
  <2>1. UNCHANGED <<list, line, cached, files, litter, save, given>>
    BY <1>10 DEF vars
  <2>2. SInv'
    BY <2>1 DEF SInv, TypeOK, LayoutOK, Listed
  <2>3. KInv => KInv'
    BY <2>1 DEF KInv, KeptOK, Kept, SaveOK, Listed
  <2> QED BY <2>1, <2>2, <2>3, NothingStored
<1>11. CASE \E k \in Inner, b \in Buffers : NewPage(k, Len(b))
  <2>1. \A b \in Buffers : Len(b) \in Nat
    BY BytesAssumption, LenProperties
  <2>2. Inner \subseteq 1 .. Len(list)
    BY PiecesFacts DEF Inner
  <2> QED BY <1>4, <1>11, <2>1, <2>2
<1>12. CASE NewPage(Len(list), 0)
  <2>1. Len(list) \in 1 .. Len(list)
    BY PiecesFacts DEF SInv, LayoutOK
  <2> QED BY <1>4, <1>12, <2>1
<1> QED BY <1>1, <1>2, <1>3, <1>5, <1>6, <1>7, <1>8, <1>9, <1>10, <1>11, <1>12 DEF Next

(* Every state has its type and its layout: no page is twice in the list,  *)
(* a page is in the named file or in its own, the named file is there.     *)
THEOREM LayoutInvariance == Spec => []SInv
<1>1. Init => SInv
  BY InitHolds
<1>2. SInv /\ [Next]_vars => SInv'
  BY StepKeeps
<1> QED BY <1>1, <1>2, PTL DEF Spec

(* Every state is of its type.                                             *)
THEOREM StoreTypeCorrect == Spec => []TypeOK
<1>1. SInv => TypeOK
  BY DEF SInv
<1> QED BY <1>1, LayoutInvariance, PTL

(* Without a Nul, every page of the file has the bytes it was given last,  *)
(* and aux_load finds them, however often the page left the cache.         *)
THEOREM PagesCorrect ==
  ASSUME Nul \notin Byte
  PROVE  Spec => []PagesKeep
<1>1. Init => SInv /\ KInv
  BY InitHolds
<1>2. SInv /\ KInv /\ [Next]_vars => SInv' /\ KInv'
  BY StepKeeps
<1>3. SInv /\ KInv => PagesKeep
  <2>1. SUFFICES ASSUME SInv, KInv, NEW p \in Listed
                 PROVE  (p \notin cached => Readable(line[p])) /\ Bytes(p) = given[p]
    BY DEF PagesKeep
  <2>2. Kept(p) /\ p \in DOMAIN line
    BY <2>1 DEF KInv, KeptOK, SInv, LayoutOK
  <2>3. Readable(line[p])
    BY <2>2, KeptReadable
  <2>4. p \notin cached => Loaded(line[p]) = given[p]
    BY <2>1, <2>2, <2>3, LoadedFacts
  <2>5. p \in cached => line[p].data = given[p]
    BY <2>2 DEF Kept
  <2> QED BY <2>3, <2>4, <2>5 DEF Bytes
<1> QED BY <1>1, <1>2, <1>3, PTL DEF Spec

(* Without a Nul, the pages, their cache and their working files are a     *)
(* list of byte strings and a file that changes to all of them at once:    *)
(* every step is one of StoredFile's, or none.                             *)
THEOREM StoreRefines ==
  ASSUME Nul \notin Byte
  PROVE  Spec => ImplementsStoredFile
<1>1. Init => SInv /\ KInv /\ Stored!Init
  BY InitHolds
<1>2. SInv /\ KInv /\ [Next]_vars => SInv' /\ KInv' /\ [Stored!Next]_(Stored!vars)
  BY StepKeeps
<1> QED BY <1>1, <1>2, PTL DEF Spec, ImplementsStoredFile, Stored!Spec
=============================================================================
