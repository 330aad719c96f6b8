----------------------------- MODULE StoredFile -----------------------------
(***************************************************************************)
(* What the pages of a giga::File and its cache promise, with no cache and *)
(* no working files: the file in memory is a list of byte strings, each of *)
(* which is what was last put there, and beside it are the bytes of the    *)
(* file on disk, which only ever change to all of those strings at once.   *)
(***************************************************************************)
EXTENDS Integers, Sequences, SequencesExt

CONSTANTS Byte, ISize

VARIABLES
  pieces,  \* the bytes of each page, in the order of the list
  saved    \* the bytes of the named file

vars == <<pieces, saved>>

(* An image cut in pieces of ISize bytes, with an empty one at each end.   *)
Cut(image) ==
  LET n == Len(image) IN
  [k \in 1 .. n \div ISize + 3 |->
     IF k \in 2 .. n \div ISize + 2
     THEN SubSeq(image, (k - 2) * ISize + 1, IF (k - 1) * ISize < n THEN (k - 1) * ISize ELSE n)
     ELSE <<>>]

Init == saved \in Seq(Byte) /\ pieces = Cut(saved)

Put(k) ==
  /\ DOMAIN pieces' = DOMAIN pieces
  /\ pieces' = [pieces EXCEPT ![k] = pieces'[k]]
  /\ pieces'[k] \in Seq(Byte)
  /\ UNCHANGED saved

Insert(k) == pieces' = InsertAt(pieces, k + 1, <<>>) /\ UNCHANGED saved
Erase(k)  == pieces' = RemoveAt(pieces, k) /\ UNCHANGED saved

(* A save leaves the same bytes, on disk and in new pieces.                *)
Save == saved' = FlattenSeq(pieces) /\ pieces' = Cut(saved')

(* A load, a crash or a save that could not replace the file goes back to  *)
(* the last save.                                                          *)
Forget == pieces' = Cut(saved) /\ UNCHANGED saved

Next ==
  \/ \E k \in DOMAIN pieces : Put(k) \/ Insert(k) \/ Erase(k)
  \/ Save
  \/ Forget

Spec == Init /\ [][Next]_vars
=============================================================================
