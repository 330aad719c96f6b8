------------------------------ MODULE ByteFile ------------------------------
(***************************************************************************)
(* What giga::File promises, with no pages: a file is one flat sequence of *)
(* bytes, every open client has a cursor into it, and a call changes the   *)
(* bytes only at the cursor of the client that made it.  A call is a       *)
(* series of chunks (the code transfers at most one page at a time), and   *)
(* File::l keeps the chunks of two calls apart, so one task is enough.     *)
(*                                                                         *)
(* A chunk of a read is the bytes at the cursor, in order; a chunk of a    *)
(* write or of an insert is the next bytes of the buffer, in order, and    *)
(* leaves every other byte where it was.  A read ends when it has all it   *)
(* wanted or the cursor is at the end; a write or insert ends only when    *)
(* its buffer is used up.  A seek ends when it has moved as far as it was  *)
(* asked to or is at the beginning or end.  Reads, seeks and overwrites    *)
(* move no other cursor.  Where insert and erase leave the OTHER cursors   *)
(* is not promised here: GigaFile's runs show what the code does.          *)
(***************************************************************************)
EXTENDS Integers, Sequences

CONSTANT Client

VARIABLES
  content,   \* the bytes a reader of the whole file would see
  saved,     \* the bytes of the named file on disk
  cursor,    \* [Client -> Nat]: the bytes before each client's place
  task       \* the call in progress, or how the last one ended

vars == <<content, saved, cursor, task>>

Ended(threw) == [op |-> "idle", threw |-> threw]
Running(op)  == task.op \in op

Init ==
  /\ saved = content
  /\ cursor = [c \in Client |-> 0]
  /\ task = Ended(FALSE)

-----------------------------------------------------------------------------

OpenClose(c) ==
  /\ Running({"idle"})
  /\ cursor' = [cursor EXCEPT ![c] = 0]
  /\ UNCHANGED <<content, saved, task>>

Call ==
  /\ Running({"idle"})
  /\ task'.op \in {"s", "r", "w", "i", "d"}
  /\ task'.client \in Client
  /\ task'.got = <<>>
  /\ UNCHANGED <<content, saved, cursor>>

(* A seek only ever moves the cursor of its own client, n bytes nearer. *)
Move(c) ==
  /\ Running({"s"})
  /\ \E n \in 0..task.want :
       /\ cursor' = [cursor EXCEPT ![c] = IF task.fwd THEN @ + n ELSE @ - n]
       /\ cursor'[c] \in 0..Len(content)
       /\ task' = [task EXCEPT !.want = @ - n]
  /\ UNCHANGED <<content, saved>>

Read(c) ==
  /\ Running({"r"})
  /\ \E n \in 0..task.want :
       /\ cursor[c] + n <= Len(content)
       /\ cursor' = [cursor EXCEPT ![c] = @ + n]
       /\ task' = [task EXCEPT !.want = @ - n,
                               !.got = @ \o SubSeq(content, cursor[c] + 1, cursor[c] + n)]
  /\ UNCHANGED <<content, saved>>

(* The next n bytes of the buffer replace the n bytes at the cursor. *)
Overwrite(c) ==
  /\ Running({"w"})
  /\ \E n \in 1..Len(task.rest) :
       /\ cursor[c] + n <= Len(content)
       /\ content' = SubSeq(content, 1, cursor[c])
                       \o SubSeq(task.rest, 1, n)
                       \o SubSeq(content, cursor[c] + n + 1, Len(content))
       /\ cursor' = [cursor EXCEPT ![c] = @ + n]
       /\ task' = [task EXCEPT !.want = @ - n, !.rest = SubSeq(@, n + 1, Len(@))]
  /\ UNCHANGED saved

WithInserted(c, n) ==
  SubSeq(content, 1, cursor[c])
    \o SubSeq(task.rest, 1, n)
    \o SubSeq(content, cursor[c] + 1, Len(content))

(* The next n bytes of the buffer go in at the cursor. *)
Insert(c) ==
  /\ Running({"w", "i"})
  /\ cursor[c] <= Len(content)
  /\ \E n \in 1..Len(task.rest) :
       /\ content' = WithInserted(c, n)
       /\ cursor'[c] = cursor[c] + n
       /\ task' = [task EXCEPT !.want = @ - n, !.rest = SubSeq(@, n + 1, Len(@))]
  /\ UNCHANGED saved

(* n of the bytes after the cursor go; the cursor stays. *)
Erase(c) ==
  /\ Running({"d"})
  /\ \E n \in 1..task.want :
       /\ cursor[c] + n <= Len(content)
       /\ content' = SubSeq(content, 1, cursor[c])
                       \o SubSeq(content, cursor[c] + n + 1, Len(content))
       /\ task' = [task EXCEPT !.want = @ - n]
  /\ cursor'[c] = cursor[c]
  /\ UNCHANGED saved

(* Only an erase may end early, and a seek or read at the end of the file  *)
(* (or past it, where a save may have put the cursor).                     *)
Return(c) ==
  /\ Running({"s", "r", "w", "i", "d"})
  /\ Running({"s", "r"}) =>
       \/ task.want = 0
       \/ IF task.fwd THEN cursor[c] >= Len(content) ELSE cursor[c] = 0
  /\ Running({"w", "i"}) => task.rest = <<>>
  /\ task' = Ended(FALSE)
  /\ UNCHANGED <<content, saved, cursor>>

(* An exception ends the call; an insert may have placed its last chunk. *)
Throw(c) ==
  /\ Running({"s", "r", "w", "i", "d"})
  /\ task' = Ended(TRUE)
  /\ \/ UNCHANGED <<content, cursor>>
     \/ /\ Running({"w", "i"})
        /\ cursor[c] <= Len(content)
        /\ \E n \in 1..Len(task.rest) : content' = WithInserted(c, n)
  /\ UNCHANGED saved

(* Save puts the bytes on disk and changes none of them; load, and a save  *)
(* whose rename fails, forget every change since the last save.            *)
Save == Running({"idle"}) /\ saved' = content /\ UNCHANGED <<content, task>>
Load == Running({"idle"}) /\ content' = saved /\ UNCHANGED <<saved, task>>

Next ==
  \/ \E c \in Client : OpenClose(c)
  \/ Call
  \/ LET c == task.client IN
       Move(c) \/ Read(c) \/ Overwrite(c) \/ Insert(c) \/ Erase(c) \/ Return(c) \/ Throw(c)
  \/ Save
  \/ Load

Spec == Init /\ [][Next]_vars
=============================================================================
