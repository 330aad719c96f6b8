----------------------------- MODULE ClientLocks ----------------------------
(***************************************************************************)
(* giga::Client (src/client.cc) and the two kinds of recursive mutex:      *)
(* threads call clients, a client takes Client::l, makes a shared pointer  *)
(* of its weak pointer to the File, and calls the File, which takes        *)
(* File::l.  Whoever gives up the last pointer runs ~File, in the middle   *)
(* of a client's call if need be.  A mutex that the thread has already is  *)
(* no step: get_is_closed in close, get_identifier in the File.            *)
(*                                                                         *)
(* What a call does to pages and bytes under File::l is GigaFile's matter; *)
(* here it is two steps, Enter and Work.                                   *)
(***************************************************************************)
EXTENDS Integers, Sequences, FiniteSets, SequencesExt

CONSTANTS
  Thread,
  Nobody,      \* the owner of a mutex that is free
  FileMode,    \* File::mode
  ClientModes, \* the modes that clients are opened with
  Caller,      \* the threads that make calls
  Calls,       \* bound: the calls that they make
  MaxCalls,    \* bound: how many, together
  MaxClients   \* bound: the number of clients made, of which two at the start

ASSUME ThreadAssumption == Nobody \notin Thread /\ Caller \subseteq Thread
ASSUME ModeAssumption == {FileMode} \cup ClientModes \subseteq SUBSET {"r", "w"}
ASSUME CallBounds == MaxCalls \in Nat /\ MaxClients \in Nat \ {0, 1}

Client == 1 .. MaxClients
NoClient == 0

VARIABLES
  clients,     \* File::clients
  lookaside,   \* the clients that have an entry in File::lookaside
  mode,        \* Client::mode of each client made
  closed,      \* the clients with is_closed
  clientLock,  \* who has Client::l
  fileLock,    \* who has File::l
  handle,      \* the threads that have a pointer to the File of their own
  thread,      \* where each thread is, in which call
  left         \* the number of calls that are left to callers

shared == <<clients, lookaside, mode, closed, clientLock, fileLock, handle>>
vars   == <<shared, thread, left>>

Made == DOMAIN mode

(* Calls, and those that look up their client's place in lookaside.        *)
Changing == {"write", "insert", "erase"}
Placing  == Changing \cup {"read", "seek", "get_pos"}
Op       == Placing \cup {"save", "open", "close", "new"}

ASSUME CallAssumption == Calls \subseteq Op

Needs(op) == IF op = "read" THEN {"r"} ELSE IF op \in Changing THEN {"w"} ELSE {}

(* on is the client called, or the one that File::open gave last; pinned   *)
(* is the pointer that the call has of the File.                           *)
Place == [pc : {"idle", "lock", "pin", "enter", "inside", "unpin", "destroy", "closing", "unlock"},
          op : Op \cup {"none"}, on : Client \cup {NoClient}, pinned : BOOLEAN]

LocksTypeOK ==
  /\ clients \in Seq(Client)
  /\ lookaside \subseteq Client
  /\ mode \in Seq(SUBSET {"r", "w"})
  /\ closed \subseteq Made
  /\ clientLock \in [Client -> Thread \cup {Nobody}]
  /\ fileLock \in Thread \cup {Nobody}
  /\ handle \subseteq Thread
  /\ thread \in [Thread -> Place]
  /\ left \in 0 .. MaxCalls

-----------------------------------------------------------------------------
At(t, pc) == thread[t].pc = pc
On(t)     == thread[t].on

Goes(t, pc) == thread' = [thread EXCEPT ![t].pc = pc]

(* The File lives as long as somebody points to it.                        *)
Owners   == handle \cup {t \in Thread : thread[t].pinned}
Alive    == Owners # {}
LastOwner(t)  == Owners = {t} /\ (t \in handle => ~thread[t].pinned)

(* Mutant of Free: no lock_guard.                                          *)
FreeAlways(c, t) == c \in Client

(* Mutant of Free: a mutex that is not recursive.                          *)
FreeOnce(c, t) == clientLock[c] = Nobody

(* Client::l can be had.                                                   *)
Free(c, t) == clientLock[c] \in {Nobody, t}

(* Mutant of FileFree: no lock_guard.                                      *)
FileFreeAlways == fileLock \in Thread \cup {Nobody}

FileFree == fileLock = Nobody

(* Threads point to the File, and the clients in opened were made and      *)
(* opened before there was more than one thread.                           *)
Start(opened, owners, calls) ==
  /\ mode = opened
  /\ clients = [c \in DOMAIN opened |-> c]
  /\ lookaside = DOMAIN opened
  /\ closed = {}
  /\ clientLock = [c \in Client |-> Nobody]
  /\ fileLock = Nobody
  /\ handle = owners
  /\ thread = [t \in Thread |-> [pc |-> "idle", op |-> "none", on |-> NoClient, pinned |-> FALSE]]
  /\ left = calls

-----------------------------------------------------------------------------
(* A call of a client.                                                     *)

Call(t, c, op) ==
  /\ At(t, "idle")
  /\ thread' = [thread EXCEPT ![t].pc = "lock", ![t].op = op, ![t].on = c]
  /\ UNCHANGED shared

(* Mutant of Refused: get_pos does not look at is_closed.                  *)
RefusedButGetPos(c, op) ==
  \/ ~(Needs(op) \subseteq mode[c])
  \/ op = "open" /\ c \notin closed
  \/ op = "close" /\ c \in closed

(* A call that throws or returns under Client::l: without permission, of   *)
(* get_pos on a closed client, and open or close of one that is already.   *)
Refused(c, op) ==
  \/ ~(Needs(op) \subseteq mode[c])
  \/ op \in {"get_pos", "close"} /\ c \in closed
  \/ op = "open" /\ c \notin closed

Lock(t) ==
  /\ At(t, "lock")
  /\ Free(On(t), t)
  /\ ~Refused(On(t), thread[t].op)
  /\ clientLock' = [clientLock EXCEPT ![On(t)] = t]
  /\ Goes(t, "pin")
  /\ UNCHANGED <<clients, lookaside, mode, closed, fileLock, handle>>

Refuse(t) ==
  /\ At(t, "lock")
  /\ Free(On(t), t)
  /\ Refused(On(t), thread[t].op)
  /\ Goes(t, "idle")
  /\ UNCHANGED shared

(* set_is_closed, behind the call of the File if there is one.             *)
IsClosed(c, op) ==
  CASE op = "close" -> closed \cup {c}
    [] op = "open"  -> closed \ {c}
    [] OTHER        -> closed

(* Mutant of Pointed: a bare pointer, which does not keep the File alive.  *)
PointedBarely(t) == [thread EXCEPT ![t].pc = "enter"]

Pointed(t) == [thread EXCEPT ![t].pc = "enter", ![t].pinned = TRUE]

Pin(t) ==
  /\ At(t, "pin")
  /\ IF Alive
     THEN thread' = Pointed(t) /\ UNCHANGED closed
     ELSE Goes(t, "unlock") /\ closed' = IsClosed(On(t), thread[t].op)
  /\ UNCHANGED <<clients, lookaside, mode, clientLock, fileLock, handle>>

(* The call is over, and its pointer to the File with it.                  *)
Unpin(t) ==
  /\ At(t, "unpin")
  /\ closed' = IsClosed(On(t), thread[t].op)
  /\ thread' = [thread EXCEPT ![t].pinned = FALSE, ![t].pc = IF LastOwner(t) THEN "destroy" ELSE "unlock"]
  /\ UNCHANGED <<clients, lookaside, mode, clientLock, fileLock, handle>>

Unlock(t) ==
  /\ At(t, "unlock")
  /\ clientLock' = [clientLock EXCEPT ![On(t)] = Nobody]
  /\ Goes(t, "idle")
  /\ UNCHANGED <<clients, lookaside, mode, closed, fileLock, handle>>

-----------------------------------------------------------------------------
(* A call of the File, by a client or by a thread that points to it.       *)

FileCall(t, op) ==
  /\ At(t, "idle")
  /\ t \in handle
  /\ thread' = [thread EXCEPT ![t].pc = "enter", ![t].op = op, ![t].on = NoClient]
  /\ UNCHANGED shared

Enter(t) ==
  /\ At(t, "enter")
  /\ FileFree
  /\ fileLock' = t
  /\ Goes(t, "inside")
  /\ UNCHANGED <<clients, lookaside, mode, closed, clientLock, handle>>

Leaves(t) ==
  /\ fileLock' = Nobody
  /\ UNCHANGED <<closed, clientLock, handle>>

(* Mutant of NextId: the count of clients is not moved on.                 *)
LastId == Len(mode)

NextId == Len(mode) + 1

(* File::open makes a client, with the File's mode if none is given.       *)
WorkNew(t, m) ==
  /\ At(t, "inside") /\ thread[t].op = "new"
  /\ Len(mode) < MaxClients
  /\ LET c == NextId IN
     /\ mode' = Append(mode, m)
     /\ clients' = Append(clients, c)
     /\ lookaside' = lookaside \cup {c}
     /\ thread' = [thread EXCEPT ![t].pc = "idle", ![t].on = c]
  /\ Leaves(t)

Returned(t) == Goes(t, IF thread[t].pinned THEN "unpin" ELSE "idle")

WorkOpen(t) ==
  /\ At(t, "inside") /\ thread[t].op = "open"
  /\ clients' = Append(clients, On(t))
  /\ lookaside' = lookaside \cup {On(t)}
  /\ UNCHANGED mode
  /\ Returned(t) /\ Leaves(t)

WorkClose(t) ==
  /\ At(t, "inside") /\ thread[t].op = "close"
  /\ lookaside' = lookaside \ {On(t)}
  /\ UNCHANGED <<clients, mode>>
  /\ Returned(t) /\ Leaves(t)

(* The others change pages and places only, or throw before they do.  The  *)
(* call of a client without a place uses a null pointer: no step.          *)
WorkOn(t) ==
  /\ At(t, "inside") /\ thread[t].op \in Placing \cup {"save"}
  /\ thread[t].op \in Placing => On(t) \in lookaside
  /\ UNCHANGED <<clients, lookaside, mode>>
  /\ Returned(t) /\ Leaves(t)

-----------------------------------------------------------------------------
(* ~File.                                                                  *)

(* A thread gives up its pointer.                                          *)
Drop(t) ==
  /\ At(t, "idle")
  /\ t \in handle
  /\ handle' = handle \ {t}
  /\ thread' = [thread EXCEPT ![t].on = NoClient, ![t].pc = IF LastOwner(t) THEN "destroy" ELSE "idle"]
  /\ UNCHANGED <<clients, lookaside, mode, closed, clientLock, fileLock>>

Destroy(t) ==
  /\ At(t, "destroy")
  /\ FileFree
  /\ fileLock' = t
  /\ Goes(t, "closing")
  /\ UNCHANGED <<clients, lookaside, mode, closed, clientLock, handle>>

(* close() of the next client finds no File: it does not come back here.   *)
CloseNext(t) ==
  /\ At(t, "closing")
  /\ clients # <<>>
  /\ Free(Head(clients), t)
  /\ closed' = closed \cup {Head(clients)}
  /\ clients' = Tail(clients)
  /\ UNCHANGED <<lookaside, mode, clientLock, fileLock, handle, thread>>

Destroyed(t) ==
  /\ At(t, "closing")
  /\ clients = <<>>
  /\ lookaside' = {}
  /\ fileLock' = Nobody
  /\ Goes(t, IF On(t) = NoClient THEN "idle" ELSE "unlock")
  /\ UNCHANGED <<clients, mode, closed, clientLock, handle>>

-----------------------------------------------------------------------------
(* What a thread does in a call without being asked.                       *)
Runs(t) ==
  \/ Lock(t) \/ Refuse(t) \/ Pin(t) \/ Unpin(t) \/ Unlock(t)
  \/ Enter(t) \/ WorkOpen(t) \/ WorkClose(t) \/ WorkOn(t)
  \/ Destroy(t) \/ CloseNext(t) \/ Destroyed(t)

(* The caller's side of a contract that the code leaves to it: a client is *)
(* not used when it is closed, nor closed by one thread while another uses *)
(* it.  get_pos, open and save may be called at any time.                  *)
InCall(c, ops) == \E t \in Thread : ~At(t, "idle") /\ On(t) = c /\ thread[t].op \in ops
Proper(c, op) ==
  /\ op \in Placing \ {"get_pos"} => c \notin closed /\ ~InCall(c, {"close"})
  /\ op = "close" => ~InCall(c, Placing \ {"get_pos"})

Opening == {t \in Thread : thread[t].op = "new" /\ ~At(t, "idle")}

Asks(t) ==
  /\ t \in Caller
  /\ left > 0
  /\ left' = left - 1
  /\ \/ \E c \in Made, op \in Calls \ {"new"} : Proper(c, op) /\ Call(t, c, op)
     \/ \E op \in Calls \cap {"save", "new"} :
          /\ op = "new" => Len(mode) + Cardinality(Opening) < MaxClients
          /\ FileCall(t, op)

Init == \E m \in ClientModes : Start(<<FileMode, m>>, Caller, MaxCalls)

Next ==
  \E t \in Thread :
    \/ Asks(t)
    \/ /\ Drop(t) \/ Runs(t) \/ \E m \in {FileMode} \cup ClientModes : WorkNew(t, m)
       /\ UNCHANGED left

(* A thread is scheduled, and a mutex that stays free for it is taken: no  *)
(* thread makes calls without end.                                         *)
Fairness ==
  \A t \in Thread : WF_vars((Runs(t) \/ WorkNew(t, FileMode)) /\ UNCHANGED left)

Spec == Init /\ [][Next]_vars /\ Fairness

-----------------------------------------------------------------------------
(* Properties.                                                             *)

(* Nobody else is in the File, or waits for it, when it is destroyed: the  *)
(* pointer a call makes for itself keeps it, whichever thread gives up the *)
(* last one, and only one thread destroys it.                              *)
FileOutlivesCalls ==
  /\ \A t \in Thread : thread[t].pc \in {"enter", "inside"} => Alive
  /\ \A t, u \in Thread : /\ thread[t].pc \in {"destroy", "closing"}
                          /\ thread[u].pc \in {"enter", "inside", "destroy", "closing"}
                          => t = u

(* No two threads change the File, its table of places or its list of      *)
(* clients at a time, ~File included.                                      *)
AloneInside ==
  \A t, u \in Thread : {thread[t].pc, thread[u].pc} \subseteq {"inside", "closing"} => t = u

(* While no call of a client is under way, it is open if and only if it    *)
(* has a place in the file: is_closed, under Client::l, and lookaside,     *)
(* under File::l, are changed one after the other, never apart.            *)
PlacedIffOpen ==
  Alive => \A c \in Made : clientLock[c] = Nobody => (c \in lookaside <=> c \notin closed)

(* A call that looks up its client's place finds one.                      *)
PlacedWhenUsed ==
  \A t \in Thread : At(t, "inside") /\ thread[t].op \in Placing => On(t) \in lookaside

(* Every call returns, and the thread that runs ~File too: whoever waits   *)
(* for a mutex gets it.                                                    *)
ThreadsReturn == \A t \in Thread : ~At(t, "idle") ~> At(t, "idle")
=============================================================================
