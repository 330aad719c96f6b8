-------------------------- MODULE ClientLocksProofs -------------------------
(***************************************************************************)
(* Proofs about ClientLocks for every set of threads and clients: its      *)
(* types, who is in the File, how long the File lives, and the agreement   *)
(* of Client::is_closed with File::lookaside.                              *)
(*                                                                         *)
(* They are parts of one inductive invariant, and none is inductive alone: *)
(* the client of a call stays as it was checked because the call has       *)
(* Client::l, the File stays because the call is pinned, and lookaside     *)
(* stays because whoever changes it has both mutexes.                      *)
(*                                                                         *)
(* The steps of a thread are proved one by one about the actions, so that  *)
(* they serve any specification whose threads make these calls.            *)
(***************************************************************************)
EXTENDS ClientLocks, SequenceTheorems, TLAPS

-----------------------------------------------------------------------------
(* The inductive invariant.                                                *)

(* Calls of a client, and those that the contract forbids on a closed one. *)
ClientOp == Op \ {"new"}
Using    == Placing \ {"get_pos"}

(* LocksTypeOK without the calls left, and nothing is about a client that  *)
(* was not made.                                                           *)
SharedOK ==
  /\ clients \in Seq(Made)
  /\ lookaside \subseteq Made
  /\ mode \in Seq(SUBSET {"r", "w"}) /\ Len(mode) <= MaxClients
  /\ closed \subseteq Made
  /\ clientLock \in [Client -> Thread \cup {Nobody}]
  /\ fileLock \in Thread \cup {Nobody}
  /\ handle \subseteq Thread
  /\ thread \in [Thread -> Place]

(* A call of a client is for a client that was made, and has a pointer to  *)
(* the File from Pin to Unpin; a call without a client is made by a thread *)
(* that has one of its own.                                                *)
ThreadsOK ==
  \A t \in Thread :
    /\ On(t) \in Made \cup {NoClient}
    /\ thread[t].pc \in {"lock", "pin", "unpin", "unlock"} => On(t) \in Made
    /\ ~At(t, "idle") /\ On(t) \in Made => thread[t].op \in ClientOp
    /\ thread[t].pinned => thread[t].pc \in {"enter", "inside", "unpin"} /\ On(t) \in Made
    /\ At(t, "unpin") => thread[t].pinned
    /\ thread[t].pc \in {"enter", "inside"} /\ ~thread[t].pinned =>
         t \in handle /\ On(t) = NoClient /\ thread[t].op \in {"save", "new"}

(* Who has which mutex.                                                    *)
OwnersOK ==
  \A t \in Thread :
    /\ \A c \in Client : clientLock[c] = t <=> On(t) = c /\ thread[t].pc \notin {"idle", "lock"}
    /\ fileLock = t <=> thread[t].pc \in {"inside", "closing"}

(* The File is destroyed by one thread, when nobody points to it.          *)
Ending(t) == thread[t].pc \in {"destroy", "closing"}

LifetimeOK ==
  /\ \A t \in Thread : Ending(t) => ~Alive
  /\ \A t, u \in Thread : Ending(t) /\ Ending(u) => t = u

(* What Lock found out about a client is still true when it is set open or *)
(* closed, and close has closed it when the call is over.                  *)
CheckedOK ==
  \A t \in Thread :
    /\ On(t) \in Made /\ thread[t].pc \in {"pin", "enter", "inside", "unpin"} =>
         /\ thread[t].op \in {"close", "get_pos"} => On(t) \notin closed
         /\ thread[t].op = "open" => On(t) \in closed
    /\ On(t) \in Made /\ thread[t].pc \in {"destroy", "closing", "unlock"} /\ thread[t].op = "close" =>
         On(t) \in closed

(* Only between a File call that opens or closes a client and the end of   *)
(* its call do is_closed and lookaside disagree.                           *)
Between(c) == \E t \in Thread : At(t, "unpin") /\ On(t) = c /\ thread[t].op \in {"open", "close"}

PlacesOK ==
  Alive => \A c \in Made : Between(c) <=> ~(c \in lookaside <=> c \notin closed)

(* The callers keep to their contract.                                     *)
ContractOK ==
  \A c \in Made : InCall(c, Using) => ~InCall(c, {"close"}) /\ (Alive => c \notin closed)

LInv == SharedOK /\ ThreadsOK /\ OwnersOK /\ LifetimeOK /\ CheckedOK /\ PlacesOK /\ ContractOK

-----------------------------------------------------------------------------
(* What a step changes.                                                    *)

(* Thread t goes on as r, and the others stay where they are.              *)
Moves(t, r) ==
  /\ r \in Place /\ thread' \in [Thread -> Place]
  /\ thread'[t] = r
  /\ \A u \in Thread \ {t} : thread'[u] = thread[u]

(* The fields of a thread.                                                 *)
LEMMA ThreadFields ==
  ASSUME SharedOK, NEW t \in Thread
  PROVE  /\ thread[t] \in Place
         /\ thread[t].op \in Op \cup {"none"}
         /\ On(t) \in Client \cup {NoClient}
         /\ thread[t].pinned \in BOOLEAN
BY DEF SharedOK, Place, On

(* Clients are numbered as they are made.                                  *)
LEMMA MadeClients ==
  ASSUME SharedOK
  PROVE  /\ Len(mode) \in Nat /\ Made = 1 .. Len(mode)
         /\ Made \subseteq Client /\ NoClient \notin Client
<1>1. Len(mode) \in Nat /\ Made = 1 .. Len(mode)
  BY LenProperties DEF SharedOK, Made
<1> QED BY <1>1, CallBounds DEF SharedOK, Client, NoClient

(* Who points to the File after a step that neither makes nor gives up a   *)
(* pointer.                                                                *)
LEMMA SameOwners ==
  ASSUME NEW t \in Thread, NEW r, Moves(t, r), r.pinned = thread[t].pinned, handle' = handle
  PROVE  Owners' = Owners /\ (Alive' <=> Alive)
BY DEF Moves, Owners, Alive

(* Lock moves its thread to pin and takes a mutex that was free.           *)
LEMMA LockKeeps ==
  ASSUME LInv, NEW t \in Thread, Lock(t)
  PROVE  LInv'
<1> DEFINE r == [thread[t] EXCEPT !.pc = "pin"]
<1>1. Moves(t, r)
  BY ThreadFields DEF LInv, SharedOK, Lock, Goes, Moves, Place
<1>2. /\ thread[t].pc = "lock" /\ ~thread[t].pinned /\ On(t) \in Made
      /\ r.pc = "pin" /\ r.op = thread[t].op /\ r.on = On(t) /\ r.pinned = thread[t].pinned
  BY <1>1, ThreadFields DEF Place, On, At, LInv, ThreadsOK, Lock
<1> HIDE DEF r
<1>3. Made' = Made /\ Owners' = Owners /\ (Alive' <=> Alive)
  BY <1>1, <1>2, SameOwners DEF Lock, Made
<1>4. On(t) \in Client
  BY <1>2, MadeClients DEF LInv
<1>5. SharedOK'
  BY <1>1 DEF LInv, SharedOK, Lock, Moves, Made
<1>6. ThreadsOK'
  BY <1>1, <1>2 DEF LInv, ThreadsOK, Lock, Moves, Made, At, On
<1>7. OwnersOK'
  BY <1>1, <1>2, <1>4, ThreadAssumption DEF LInv, SharedOK, OwnersOK, Lock, Moves, On, Free
<1>8. LifetimeOK'
  BY <1>1, <1>2, <1>3 DEF LInv, LifetimeOK, Moves, Ending
<1>9. CheckedOK'
  BY <1>1, <1>2, <1>3 DEF LInv, CheckedOK, Lock, Moves, On, Refused
<1>10. PlacesOK'
  BY <1>1, <1>2, <1>3 DEF LInv, PlacesOK, Between, Lock, Moves, At, On
<1>11. ContractOK'
  BY <1>1, <1>2, <1>3 DEF LInv, ContractOK, InCall, Lock, Moves, At, On
<1> QED BY <1>5, <1>6, <1>7, <1>8, <1>9, <1>10, <1>11 DEF LInv

(* A thread that is refused has no mutex, and changes nothing.             *)
LEMMA RefuseKeeps ==
  ASSUME LInv, NEW t \in Thread, Refuse(t)
  PROVE  LInv'
<1> DEFINE r == [thread[t] EXCEPT !.pc = "idle"]
<1>1. Moves(t, r)
  BY ThreadFields DEF LInv, SharedOK, Refuse, Goes, Moves, Place
<1>2. /\ thread[t].pc = "lock" /\ ~thread[t].pinned /\ On(t) \in Made
      /\ r.pc = "idle" /\ r.op = thread[t].op /\ r.on = On(t) /\ r.pinned = thread[t].pinned
  BY <1>1, ThreadFields DEF Place, On, At, LInv, ThreadsOK, Refuse
<1> HIDE DEF r
<1>3. Made' = Made /\ Owners' = Owners /\ (Alive' <=> Alive)
  BY <1>1, <1>2, SameOwners DEF Refuse, shared, Made
<1>4. SharedOK'
  BY <1>1 DEF LInv, SharedOK, Refuse, shared, Moves, Made
<1>5. ThreadsOK'
  BY <1>1, <1>2 DEF LInv, ThreadsOK, Refuse, shared, Moves, Made, At, On
<1>6. OwnersOK'
  BY <1>1, <1>2 DEF LInv, OwnersOK, Refuse, shared, Moves, On
<1>7. LifetimeOK'
  BY <1>1, <1>2, <1>3 DEF LInv, LifetimeOK, Moves, Ending
<1>8. CheckedOK'
  BY <1>1, <1>2, <1>3 DEF LInv, CheckedOK, Refuse, shared, Moves, On
<1>9. PlacesOK'
  BY <1>1, <1>2, <1>3 DEF LInv, PlacesOK, Between, Refuse, shared, Moves, At, On
<1>10. ContractOK'
  BY <1>1, <1>2, <1>3 DEF LInv, ContractOK, InCall, Refuse, shared, Moves, At, On
<1> QED BY <1>4, <1>5, <1>6, <1>7, <1>8, <1>9, <1>10 DEF LInv

(* Pin: the call has a pointer to the File from here on; without a File it *)
(* sets its client open or closed at once.                                 *)
LEMMA PinKeeps ==
  ASSUME LInv, NEW t \in Thread, Pin(t)
  PROVE  LInv'
<1>0. /\ thread[t].pc = "pin" /\ ~thread[t].pinned /\ On(t) \in Made /\ On(t) \in Client
      /\ thread[t].op \in ClientOp
      /\ UNCHANGED <<clients, lookaside, mode, clientLock, fileLock, handle>> /\ Made' = Made
  BY MadeClients DEF Pin, At, LInv, ThreadsOK, Made
<1>1. CASE Alive
  <2> DEFINE r == [thread[t] EXCEPT !.pc = "enter", !.pinned = TRUE]
  <2>1. Moves(t, r) /\ closed' = closed
    <3>1. thread' = [thread EXCEPT ![t].pc = "enter", ![t].pinned = TRUE] /\ closed' = closed
      BY <1>1 DEF Pin, Pointed
    <3>2. thread \in [Thread -> Place] /\ thread[t] \in Place
      BY ThreadFields DEF LInv, SharedOK
    <3>3. r \in Place
      BY <3>2 DEF Place
    <3>4. thread' = [thread EXCEPT ![t] = r]
      BY <3>1, <3>2 DEF Place
    <3> QED BY <3>1, <3>2, <3>3, <3>4 DEF Moves
  <2>2. r.pc = "enter" /\ r.op = thread[t].op /\ r.on = On(t) /\ r.pinned
    BY ThreadFields DEF Place, On, LInv
  <2> HIDE DEF r
  <2>3. Alive'
    BY <2>1, <2>2 DEF Moves, Alive, Owners
  <2>4. SharedOK'
    BY <1>0, <2>1 DEF LInv, SharedOK, Moves
  <2>5. ThreadsOK'
    BY <1>0, <2>1, <2>2 DEF LInv, ThreadsOK, Moves, At, On
  <2>6. OwnersOK'
    BY <1>0, <2>1, <2>2 DEF LInv, OwnersOK, Moves, On
  <2>7. LifetimeOK'
    BY <1>1, <2>1, <2>2 DEF LInv, LifetimeOK, Moves, Ending
  <2>8. CheckedOK'
    BY <1>0, <2>1, <2>2 DEF LInv, CheckedOK, Moves, On
  <2>9. PlacesOK'
    BY <1>0, <1>1, <2>1, <2>2 DEF LInv, PlacesOK, Between, Moves, At, On
  <2>10. ContractOK'
    BY <1>0, <1>1, <2>1, <2>2 DEF LInv, ContractOK, InCall, Moves, At, On
  <2> QED BY <2>4, <2>5, <2>6, <2>7, <2>8, <2>9, <2>10 DEF LInv
<1>2. CASE ~Alive
  <2> DEFINE r == [thread[t] EXCEPT !.pc = "unlock"]
  <2>1. Moves(t, r) /\ closed' = IsClosed(On(t), thread[t].op)
    BY <1>2, ThreadFields, SMTT(20) DEF LInv, SharedOK, Pin, Goes, Moves, Place
  <2>2. r.pc = "unlock" /\ r.op = thread[t].op /\ r.on = On(t) /\ r.pinned = thread[t].pinned
    BY ThreadFields DEF Place, On, LInv
  <2> HIDE DEF r
  <2>3. ~Alive'
    BY <1>0, <1>2, <2>1, <2>2, SameOwners
  <2>4. SharedOK'
    BY <1>0, <2>1 DEF LInv, SharedOK, Moves, IsClosed
  <2>5. ThreadsOK'
    BY <1>0, <2>1, <2>2 DEF LInv, ThreadsOK, Moves, At, On
  <2>6. OwnersOK'
    BY <1>0, <2>1, <2>2 DEF LInv, OwnersOK, Moves, On
  <2>7. LifetimeOK'
    BY <2>1, <2>2, <2>3 DEF LInv, LifetimeOK, Moves, Ending
  <2>8. CheckedOK'
    BY <1>0, <2>1, <2>2 DEF LInv, CheckedOK, OwnersOK, Moves, On, IsClosed
  <2>9. PlacesOK'
    BY <2>3 DEF PlacesOK
  <2>10. ContractOK'
    BY <1>0, <2>1, <2>2, <2>3 DEF LInv, ContractOK, InCall, Moves, At, On
  <2> QED BY <2>4, <2>5, <2>6, <2>7, <2>8, <2>9, <2>10 DEF LInv
<1> QED BY <1>1, <1>2

(* Unlock gives the mutex back.                                            *)
LEMMA UnlockKeeps ==
  ASSUME LInv, NEW t \in Thread, Unlock(t)
  PROVE  LInv'
<1> DEFINE r == [thread[t] EXCEPT !.pc = "idle"]
<1>1. Moves(t, r)
  BY ThreadFields DEF LInv, SharedOK, Unlock, Goes, Moves, Place
<1>2. /\ thread[t].pc = "unlock" /\ ~thread[t].pinned /\ On(t) \in Made /\ On(t) \in Client
      /\ r.pc = "idle" /\ r.op = thread[t].op /\ r.on = On(t) /\ r.pinned = thread[t].pinned
  BY <1>1, ThreadFields, MadeClients DEF Place, On, At, LInv, ThreadsOK, Unlock
<1> HIDE DEF r
<1>3. Made' = Made /\ Owners' = Owners /\ (Alive' <=> Alive)
  BY <1>1, <1>2, SameOwners DEF Unlock, Made
<1>4. SharedOK'
  BY <1>1 DEF LInv, SharedOK, Unlock, Moves, Made
<1>5. ThreadsOK'
  BY <1>1, <1>2 DEF LInv, ThreadsOK, Unlock, Moves, Made, At, On
<1>6. OwnersOK'
  BY <1>1, <1>2, ThreadAssumption DEF LInv, SharedOK, OwnersOK, Unlock, Moves, On
<1>7. LifetimeOK'
  BY <1>1, <1>2, <1>3 DEF LInv, LifetimeOK, Moves, Ending
<1>8. CheckedOK'
  BY <1>1, <1>2, <1>3 DEF LInv, CheckedOK, Unlock, Moves, On
<1>9. PlacesOK'
  BY <1>1, <1>2, <1>3 DEF LInv, PlacesOK, Between, Unlock, Moves, At, On
<1>10. ContractOK'
  BY <1>1, <1>2, <1>3 DEF LInv, ContractOK, InCall, Unlock, Moves, At, On
<1> QED BY <1>4, <1>5, <1>6, <1>7, <1>8, <1>9, <1>10 DEF LInv

(* Unpin sets the client open or closed, and the thread that gave up the   *)
(* last pointer goes on to ~File.                                          *)
LEMMA UnpinKeeps ==
  ASSUME LInv, NEW t \in Thread, Unpin(t)
  PROVE  LInv'
<1> DEFINE next == IF LastOwner(t) THEN "destroy" ELSE "unlock"
           r == [thread[t] EXCEPT !.pinned = FALSE, !.pc = next]
<1>1. Moves(t, r)
  <2>1. thread' = [thread EXCEPT ![t].pinned = FALSE, ![t].pc = next]
    BY DEF Unpin
  <2>2. thread \in [Thread -> Place] /\ thread[t] \in Place
    BY ThreadFields DEF LInv, SharedOK
  <2>3. r \in Place
    BY <2>2 DEF Place
  <2>4. thread' = [thread EXCEPT ![t] = r]
    BY <2>1, <2>2 DEF Place
  <2> QED BY <2>2, <2>3, <2>4 DEF Moves
<1>2. /\ thread[t].pc = "unpin" /\ thread[t].pinned /\ On(t) \in Made /\ On(t) \in Client
      /\ thread[t].op \in ClientOp
      /\ r.op = thread[t].op /\ r.on = On(t) /\ r.pinned = FALSE /\ r.pc = next
  BY ThreadFields, MadeClients DEF Place, On, At, LInv, ThreadsOK, Unpin
<1>3. /\ UNCHANGED <<clients, lookaside, mode, clientLock, fileLock, handle>> /\ Made' = Made
      /\ closed' = IsClosed(On(t), thread[t].op)
  BY DEF Unpin, Made
<1> HIDE DEF r
<1>4. Alive /\ (LastOwner(t) => ~Alive')
  BY <1>1, <1>2, <1>3 DEF Alive, Owners, Moves, LastOwner
<1>5. SharedOK'
  BY <1>1, <1>2, <1>3 DEF LInv, SharedOK, Moves, IsClosed
<1>6. ThreadsOK'
  BY <1>1, <1>2, <1>3 DEF LInv, ThreadsOK, Moves, At, On
<1>7. OwnersOK'
  BY <1>1, <1>2, <1>3 DEF LInv, OwnersOK, Moves, On
<1>8. LifetimeOK'
  BY <1>1, <1>2, <1>4 DEF LInv, LifetimeOK, Moves, Ending
<1>9. CheckedOK'
  BY <1>1, <1>2, <1>3 DEF LInv, CheckedOK, OwnersOK, Moves, On, IsClosed
<1>10. PlacesOK'
  <2> SUFFICES ASSUME NEW c \in Made PROVE Between(c)' <=> ~(c \in lookaside <=> c \notin closed')
    BY <1>3 DEF PlacesOK
  <2>1. Between(c) <=> ~(c \in lookaside <=> c \notin closed)
    BY <1>4 DEF LInv, PlacesOK
  <2>2. CASE c = On(t)
    <3>1. ~Between(c)'
      BY <1>1, <1>2, <2>2 DEF LInv, OwnersOK, Between, Moves, At, On
    <3>2. Between(c) <=> thread[t].op \in {"open", "close"}
      BY <1>2, <2>2 DEF LInv, OwnersOK, Between, At, On
    <3>3. /\ thread[t].op = "close" => c \notin closed
          /\ thread[t].op = "open" => c \in closed
      BY <1>2, <2>2 DEF LInv, CheckedOK
    <3> QED BY <1>3, <2>1, <2>2, <3>1, <3>2, <3>3 DEF IsClosed
  <2>3. CASE c # On(t)
    <3>1. Between(c)' <=> Between(c)
      BY <1>1, <1>2, <2>3 DEF Between, Moves, At, On
    <3> QED BY <1>3, <2>1, <2>3, <3>1 DEF IsClosed
  <2> QED BY <2>2, <2>3
<1>11. ContractOK'
  <2> SUFFICES ASSUME NEW c \in Made, InCall(c, Using)'
               PROVE  ~InCall(c, {"close"})' /\ c \notin closed'
    BY <1>3 DEF ContractOK
  <2>1. \A ops : InCall(c, ops)' <=> InCall(c, ops)
    BY <1>1, <1>2 DEF InCall, Moves, At, On
  <2>2. ~InCall(c, {"close"}) /\ c \notin closed
    BY <1>4, <2>1 DEF LInv, ContractOK
  <2>3. ~(On(t) = c /\ thread[t].op = "close")
    BY <1>2, <2>2 DEF InCall, At
  <2> QED BY <1>3, <2>1, <2>2, <2>3 DEF IsClosed
<1> QED BY <1>5, <1>6, <1>7, <1>8, <1>9, <1>10, <1>11 DEF LInv

(* A call of a client begins, as the contract allows.                      *)
LEMMA CallKeeps ==
  ASSUME LInv, NEW t \in Thread, NEW c \in Made, NEW op \in ClientOp, Proper(c, op), Call(t, c, op)
  PROVE  LInv'
<1> DEFINE r == [thread[t] EXCEPT !.pc = "lock", !.op = op, !.on = c]
<1>1. Moves(t, r)
  <2>1. thread' = [thread EXCEPT ![t].pc = "lock", ![t].op = op, ![t].on = c]
    BY DEF Call
  <2>2. thread \in [Thread -> Place] /\ thread[t] \in Place
    BY ThreadFields DEF LInv, SharedOK
  <2>3. r \in Place
    BY <2>2, MadeClients DEF Place, LInv, ClientOp
  <2>4. thread' = [thread EXCEPT ![t] = r]
    BY <2>1, <2>2 DEF Place
  <2> QED BY <2>2, <2>3, <2>4 DEF Moves
<1>2. /\ thread[t].pc = "idle" /\ ~thread[t].pinned
      /\ r.pc = "lock" /\ r.op = op /\ r.on = c /\ r.pinned = thread[t].pinned
  BY ThreadFields DEF Place, At, LInv, ThreadsOK, Call
<1> HIDE DEF r
<1>3. UNCHANGED shared /\ Made' = Made /\ Owners' = Owners /\ (Alive' <=> Alive)
  BY <1>1, <1>2, SameOwners DEF Call, shared, Made
<1>4. SharedOK'
  BY <1>1, <1>3 DEF LInv, SharedOK, shared, Moves
<1>5. ThreadsOK'
  BY <1>1, <1>2, <1>3 DEF LInv, ThreadsOK, shared, Moves, At, On
<1>6. OwnersOK'
  BY <1>1, <1>2, <1>3 DEF LInv, OwnersOK, shared, Moves, On
<1>7. LifetimeOK'
  BY <1>1, <1>2, <1>3 DEF LInv, LifetimeOK, Moves, Ending
<1>8. CheckedOK'
  BY <1>1, <1>2, <1>3 DEF LInv, CheckedOK, shared, Moves, On
<1>9. PlacesOK'
  BY <1>1, <1>2, <1>3 DEF LInv, PlacesOK, Between, shared, Moves, At, On
<1>10. ContractOK'
  <2> SUFFICES ASSUME NEW d \in Made, InCall(d, Using)'
               PROVE  ~InCall(d, {"close"})' /\ (Alive => d \notin closed)
    BY <1>3 DEF ContractOK, shared
  <2>1. InCall(d, Using)' => InCall(d, Using) \/ (d = c /\ op \in Using)
    BY <1>1, <1>2 DEF InCall, Moves, At, On
  <2>2. InCall(d, {"close"})' => InCall(d, {"close"}) \/ (d = c /\ op = "close")
    BY <1>1, <1>2 DEF InCall, Moves, At, On
  <2>3. "close" \notin Using
    BY DEF Using, Placing, Changing
  <2> QED BY <2>1, <2>2, <2>3 DEF LInv, ContractOK, Proper, Using
<1> QED BY <1>4, <1>5, <1>6, <1>7, <1>8, <1>9, <1>10 DEF LInv

(* A call of the File begins, by a thread that has a pointer to it.        *)
LEMMA FileCallKeeps ==
  ASSUME LInv, NEW t \in Thread, NEW op \in {"save", "new"}, FileCall(t, op)
  PROVE  LInv'
<1> DEFINE r == [thread[t] EXCEPT !.pc = "enter", !.op = op, !.on = NoClient]
<1>1. Moves(t, r)
  <2>1. thread' = [thread EXCEPT ![t].pc = "enter", ![t].op = op, ![t].on = NoClient]
    BY DEF FileCall
  <2>2. thread \in [Thread -> Place] /\ thread[t] \in Place
    BY ThreadFields DEF LInv, SharedOK
  <2>3. r \in Place
    BY <2>2 DEF Place, Op
  <2>4. thread' = [thread EXCEPT ![t] = r]
    BY <2>1, <2>2 DEF Place
  <2> QED BY <2>2, <2>3, <2>4 DEF Moves
<1>2. /\ thread[t].pc = "idle" /\ ~thread[t].pinned /\ t \in handle
      /\ r.pc = "enter" /\ r.op = op /\ r.on = NoClient /\ r.pinned = thread[t].pinned
      /\ NoClient \notin Client /\ NoClient \notin Made
  BY ThreadFields, MadeClients DEF Place, At, LInv, ThreadsOK, FileCall
<1> HIDE DEF r
<1>3. UNCHANGED shared /\ Made' = Made /\ Owners' = Owners /\ (Alive' <=> Alive)
  BY <1>1, <1>2, SameOwners DEF FileCall, shared, Made
<1>4. SharedOK'
  BY <1>1, <1>3 DEF LInv, SharedOK, shared, Moves
<1>5. ThreadsOK'
  BY <1>1, <1>2, <1>3 DEF LInv, ThreadsOK, shared, Moves, At, On
<1>6. OwnersOK'
  BY <1>1, <1>2, <1>3 DEF LInv, OwnersOK, shared, Moves, On
<1>7. LifetimeOK'
  BY <1>1, <1>2, <1>3 DEF LInv, LifetimeOK, Moves, Ending
<1>8. CheckedOK'
  BY <1>1, <1>2, <1>3 DEF LInv, CheckedOK, shared, Moves, On
<1>9. PlacesOK'
  BY <1>1, <1>2, <1>3 DEF LInv, PlacesOK, Between, shared, Moves, At, On
<1>10. ContractOK'
  BY <1>1, <1>2, <1>3 DEF LInv, ContractOK, InCall, shared, Moves, At, On
<1> QED BY <1>4, <1>5, <1>6, <1>7, <1>8, <1>9, <1>10 DEF LInv

(* Enter takes the File's mutex when nobody has it.                        *)
LEMMA EnterKeeps ==
  ASSUME LInv, NEW t \in Thread, Enter(t)
  PROVE  LInv'
<1> DEFINE r == [thread[t] EXCEPT !.pc = "inside"]
<1>1. Moves(t, r)
  BY ThreadFields DEF LInv, SharedOK, Enter, Goes, Moves, Place
<1>2. /\ thread[t].pc = "enter"
      /\ r.pc = "inside" /\ r.op = thread[t].op /\ r.on = On(t) /\ r.pinned = thread[t].pinned
  BY <1>1, ThreadFields DEF Place, On, At, LInv, Enter
<1> HIDE DEF r
<1>3. Made' = Made /\ Owners' = Owners /\ (Alive' <=> Alive)
  BY <1>1, <1>2, SameOwners DEF Enter, Made
<1>4. SharedOK'
  BY <1>1 DEF LInv, SharedOK, Enter, Moves, Made
<1>5. ThreadsOK'
  BY <1>1, <1>2 DEF LInv, ThreadsOK, Enter, Moves, Made, At, On
<1>6. OwnersOK'
  BY <1>1, <1>2, ThreadAssumption DEF LInv, SharedOK, OwnersOK, Enter, FileFree, Moves, On
<1>7. LifetimeOK'
  BY <1>1, <1>2, <1>3 DEF LInv, LifetimeOK, Moves, Ending
<1>8. CheckedOK'
  BY <1>1, <1>2, <1>3 DEF LInv, CheckedOK, Enter, Moves, On
<1>9. PlacesOK'
  BY <1>1, <1>2, <1>3 DEF LInv, PlacesOK, Between, Enter, Moves, At, On
<1>10. ContractOK'
  BY <1>1, <1>2, <1>3 DEF LInv, ContractOK, InCall, Enter, Moves, At, On
<1> QED BY <1>4, <1>5, <1>6, <1>7, <1>8, <1>9, <1>10 DEF LInv

(* File::open makes a client that nobody has called, open and with a place.*)
LEMMA WorkNewKeeps ==
  ASSUME LInv, NEW t \in Thread, NEW m \in SUBSET {"r", "w"}, WorkNew(t, m)
  PROVE  LInv'
<1> DEFINE c == Len(mode) + 1
           r == [thread[t] EXCEPT !.pc = "idle", !.on = c]
<1>0. /\ mode' = Append(mode, m) /\ clients' = Append(clients, c)
      /\ lookaside' = lookaside \cup {c} /\ fileLock' = Nobody
      /\ UNCHANGED <<closed, clientLock, handle>>
      /\ Len(mode) \in Nat /\ Len(mode) < MaxClients
      /\ Made = 1 .. Len(mode) /\ Made \subseteq Client /\ NoClient \notin Client
  BY MadeClients DEF LInv, WorkNew, NextId, Leaves
<1>1. /\ c \in Client /\ c \notin Made /\ Made' = Made \cup {c}
      /\ Made \subseteq Made' /\ c \in Made' /\ Made' \subseteq Client
      /\ mode' \in Seq(SUBSET {"r", "w"}) /\ Len(mode') <= MaxClients
  <2>1. mode \in Seq(SUBSET {"r", "w"})
    BY DEF LInv, SharedOK
  <2>2. /\ mode' \in Seq(SUBSET {"r", "w"}) /\ Len(mode') = c /\ DOMAIN mode' = 1 .. c
    BY <1>0, <2>1
  <2> QED BY <1>0, <2>2, CallBounds DEF Client, Made
<1>2. Moves(t, r)
  <2>1. thread' = [thread EXCEPT ![t].pc = "idle", ![t].on = c]
    BY DEF WorkNew, NextId
  <2>2. thread \in [Thread -> Place] /\ thread[t] \in Place
    BY ThreadFields DEF LInv, SharedOK
  <2>3. r \in Place
    BY <1>1, <2>2 DEF Place
  <2>4. thread' = [thread EXCEPT ![t] = r]
    BY <2>1, <2>2 DEF Place
  <2> QED BY <2>2, <2>3, <2>4 DEF Moves
<1>3. /\ thread[t].pc = "inside" /\ ~thread[t].pinned /\ On(t) = NoClient
      /\ r.pc = "idle" /\ r.op = thread[t].op /\ r.on = c /\ r.pinned = thread[t].pinned
  BY ThreadFields DEF Place, On, At, LInv, ThreadsOK, WorkNew, ClientOp
<1> HIDE DEF r, c
<1>4. Owners' = Owners /\ (Alive' <=> Alive)
  BY <1>0, <1>2, <1>3, SameOwners
<1>5. SharedOK'
  <2>1. clients' \in Seq(Made')
    BY <1>0, <1>1 DEF LInv, SharedOK
  <2> QED BY <1>0, <1>1, <1>2, <2>1 DEF LInv, SharedOK, Moves
<1>6. ThreadsOK'
  BY <1>0, <1>1, <1>2, <1>3 DEF LInv, ThreadsOK, Moves, At, On
<1>7. OwnersOK'
  BY <1>0, <1>1, <1>2, <1>3, ThreadAssumption DEF LInv, SharedOK, OwnersOK, Moves, On
<1>8. LifetimeOK'
  BY <1>2, <1>3, <1>4 DEF LInv, LifetimeOK, Moves, Ending
<1>9. CheckedOK'
  BY <1>0, <1>1, <1>2, <1>3 DEF LInv, ThreadsOK, CheckedOK, Moves, On
<1>10. PlacesOK'
  <2> SUFFICES ASSUME Alive, NEW d \in Made'
               PROVE  Between(d)' <=> ~(d \in lookaside' <=> d \notin closed)
    BY <1>0, <1>4 DEF PlacesOK
  <2>1. CASE d = c
    <3>1. ~Between(d)'
      BY <1>0, <1>1, <1>2, <1>3, <2>1 DEF LInv, ThreadsOK, Between, Moves, At, On
    <3> QED BY <1>0, <1>1, <2>1, <3>1 DEF LInv, SharedOK
  <2>2. CASE d # c
    <3>1. Between(d)' <=> Between(d)
      BY <1>2, <1>3, <2>2 DEF Between, Moves, At, On
    <3> QED BY <1>0, <1>1, <2>2, <3>1 DEF LInv, PlacesOK
  <2> QED BY <2>1, <2>2
<1>11. ContractOK'
  <2> SUFFICES ASSUME NEW d \in Made', InCall(d, Using)'
               PROVE  ~InCall(d, {"close"})' /\ (Alive => d \notin closed)
    BY <1>0, <1>4 DEF ContractOK
  <2>1. d \in Made /\ InCall(d, Using)
    BY <1>0, <1>1, <1>2, <1>3 DEF LInv, ThreadsOK, InCall, Moves, At, On
  <2>2. InCall(d, {"close"})' => InCall(d, {"close"})
    BY <1>2, <1>3 DEF InCall, Moves, At, On
  <2> QED BY <2>1, <2>2 DEF LInv, ContractOK
<1> QED BY <1>5, <1>6, <1>7, <1>8, <1>9, <1>10, <1>11 DEF LInv

(* Where a call of the File returns to.                                    *)
LEMMA Returning ==
  ASSUME LInv, NEW t \in Thread, At(t, "inside"), Returned(t)
  PROVE  \E r : /\ Moves(t, r)
                /\ r.pc = (IF thread[t].pinned THEN "unpin" ELSE "idle")
                /\ r.op = thread[t].op /\ r.on = On(t) /\ r.pinned = thread[t].pinned
                /\ thread[t].pinned => On(t) \in Made /\ On(t) \in Client /\ thread[t].op \in ClientOp
                /\ ~thread[t].pinned => On(t) = NoClient /\ thread[t].op \in {"save", "new"}
<1> DEFINE r == [thread[t] EXCEPT !.pc = IF thread[t].pinned THEN "unpin" ELSE "idle"]
<1>1. Moves(t, r)
  BY ThreadFields, ZenonT(40) DEF LInv, SharedOK, Returned, Goes, Moves, Place
<1>2. /\ r.pc = (IF thread[t].pinned THEN "unpin" ELSE "idle")
      /\ r.op = thread[t].op /\ r.on = On(t) /\ r.pinned = thread[t].pinned
  BY ThreadFields DEF Place, On, LInv
<1>3. /\ thread[t].pinned => On(t) \in Made /\ On(t) \in Client /\ thread[t].op \in ClientOp
      /\ ~thread[t].pinned => On(t) = NoClient /\ thread[t].op \in {"save", "new"}
  BY MadeClients DEF LInv, ThreadsOK, At
<1> QED BY <1>1, <1>2, <1>3

(* A client that File::open gives a place is between, closed, until Unpin. *)
LEMMA WorkOpenKeeps ==
  ASSUME LInv, NEW t \in Thread, WorkOpen(t)
  PROVE  LInv'
<1>0. PICK r : /\ Moves(t, r)
               /\ r.pc = (IF thread[t].pinned THEN "unpin" ELSE "idle")
               /\ r.op = thread[t].op /\ r.on = On(t) /\ r.pinned = thread[t].pinned
               /\ thread[t].pinned => On(t) \in Made /\ On(t) \in Client /\ thread[t].op \in ClientOp
               /\ ~thread[t].pinned => On(t) = NoClient /\ thread[t].op \in {"save", "new"}
  BY Returning DEF WorkOpen
<1>1. thread[t].pc = "inside" /\ thread[t].op = "open" /\ thread[t].pinned /\ r.pc = "unpin"
  BY <1>0 DEF WorkOpen, At
<1>2. /\ clients' = Append(clients, On(t)) /\ lookaside' = lookaside \cup {On(t)}
      /\ fileLock' = Nobody /\ UNCHANGED <<closed, clientLock, handle, mode>> /\ Made' = Made
  BY DEF WorkOpen, Leaves, Made
<1>3. Owners' = Owners /\ (Alive' <=> Alive)
  BY <1>0, <1>2, SameOwners
<1>4. SharedOK'
  <2>1. clients' \in Seq(Made)
    BY <1>0, <1>1, <1>2 DEF LInv, SharedOK
  <2> QED BY <1>0, <1>1, <1>2, <2>1 DEF LInv, SharedOK, Moves
<1>5. ThreadsOK'
  BY <1>0, <1>1, <1>2, ZenonT(40) DEF LInv, ThreadsOK, Moves, At, On
<1>6. OwnersOK'
  BY <1>0, <1>1, <1>2, ThreadAssumption, SMTT(20) DEF LInv, SharedOK, OwnersOK, Moves, On
<1>7. LifetimeOK'
  BY <1>0, <1>1, <1>3 DEF LInv, LifetimeOK, Moves, Ending
<1>8. CheckedOK'
  BY <1>0, <1>1, <1>2 DEF LInv, CheckedOK, Moves, On
<1>9. PlacesOK'
  <2> SUFFICES ASSUME Alive, NEW c \in Made
               PROVE  Between(c)' <=> ~(c \in lookaside' <=> c \notin closed)
    BY <1>2, <1>3 DEF PlacesOK
  <2>1. CASE c = On(t)
    <3>1. Between(c)'
      BY <1>0, <1>1, <2>1 DEF Between, Moves, At, On
    <3>2. c \in closed
      BY <1>0, <1>1, <2>1 DEF LInv, CheckedOK
    <3> QED BY <1>2, <2>1, <3>1, <3>2
  <2>2. CASE c # On(t)
    <3>1. Between(c)' <=> Between(c)
      BY <1>0, <1>1, <2>2 DEF Between, Moves, At, On
    <3> QED BY <1>2, <2>2, <3>1 DEF LInv, PlacesOK
  <2> QED BY <2>1, <2>2
<1>10. ContractOK'
  BY <1>0, <1>1, <1>2, <1>3 DEF LInv, ContractOK, InCall, Moves, At, On
<1> QED BY <1>4, <1>5, <1>6, <1>7, <1>8, <1>9, <1>10 DEF LInv

(* One that File::close takes its place from is between, open.             *)
LEMMA WorkCloseKeeps ==
  ASSUME LInv, NEW t \in Thread, WorkClose(t)
  PROVE  LInv'
<1>0. PICK r : /\ Moves(t, r)
               /\ r.pc = (IF thread[t].pinned THEN "unpin" ELSE "idle")
               /\ r.op = thread[t].op /\ r.on = On(t) /\ r.pinned = thread[t].pinned
               /\ thread[t].pinned => On(t) \in Made /\ On(t) \in Client /\ thread[t].op \in ClientOp
               /\ ~thread[t].pinned => On(t) = NoClient /\ thread[t].op \in {"save", "new"}
  BY Returning DEF WorkClose
<1>1. thread[t].pc = "inside" /\ thread[t].op = "close" /\ thread[t].pinned /\ r.pc = "unpin"
  BY <1>0 DEF WorkClose, At
<1>2. /\ lookaside' = lookaside \ {On(t)}
      /\ fileLock' = Nobody /\ UNCHANGED <<clients, closed, clientLock, handle, mode>> /\ Made' = Made
  BY DEF WorkClose, Leaves, Made
<1>3. Owners' = Owners /\ (Alive' <=> Alive)
  BY <1>0, <1>2, SameOwners
<1>4. SharedOK'
  BY <1>0, <1>1, <1>2 DEF LInv, SharedOK, Moves
<1>5. ThreadsOK'
  BY <1>0, <1>1, <1>2 DEF LInv, ThreadsOK, Moves, At, On
<1>6. OwnersOK'
  BY <1>0, <1>1, <1>2, ThreadAssumption DEF LInv, SharedOK, OwnersOK, Moves, On
<1>7. LifetimeOK'
  BY <1>0, <1>1, <1>3 DEF LInv, LifetimeOK, Moves, Ending
<1>8. CheckedOK'
  BY <1>0, <1>1, <1>2 DEF LInv, CheckedOK, Moves, On
<1>9. PlacesOK'
  <2> SUFFICES ASSUME Alive, NEW c \in Made
               PROVE  Between(c)' <=> ~(c \in lookaside' <=> c \notin closed)
    BY <1>2, <1>3 DEF PlacesOK
  <2>1. CASE c = On(t)
    <3>1. Between(c)'
      BY <1>0, <1>1, <2>1 DEF Between, Moves, At, On
    <3>2. c \notin closed
      BY <1>0, <1>1, <2>1 DEF LInv, CheckedOK
    <3> QED BY <1>2, <2>1, <3>1, <3>2
  <2>2. CASE c # On(t)
    <3>1. Between(c)' <=> Between(c)
      BY <1>0, <1>1, <2>2 DEF Between, Moves, At, On
    <3> QED BY <1>2, <2>2, <3>1 DEF LInv, PlacesOK
  <2> QED BY <2>1, <2>2
<1>10. ContractOK'
  BY <1>0, <1>1, <1>2, <1>3 DEF LInv, ContractOK, InCall, Moves, At, On
<1> QED BY <1>4, <1>5, <1>6, <1>7, <1>8, <1>9, <1>10 DEF LInv

(* The other calls change no place's being there.                          *)
LEMMA WorkOnKeeps ==
  ASSUME LInv, NEW t \in Thread, WorkOn(t)
  PROVE  LInv'
<1>0. PICK r : /\ Moves(t, r)
               /\ r.pc = (IF thread[t].pinned THEN "unpin" ELSE "idle")
               /\ r.op = thread[t].op /\ r.on = On(t) /\ r.pinned = thread[t].pinned
               /\ thread[t].pinned => On(t) \in Made /\ On(t) \in Client /\ thread[t].op \in ClientOp
               /\ ~thread[t].pinned => On(t) = NoClient /\ thread[t].op \in {"save", "new"}
  BY Returning DEF WorkOn
<1>1. thread[t].pc = "inside" /\ thread[t].op \notin {"open", "close"}
  BY DEF WorkOn, At, Placing, Changing
<1>2. /\ fileLock' = Nobody
      /\ UNCHANGED <<clients, lookaside, closed, clientLock, handle, mode>> /\ Made' = Made
  BY DEF WorkOn, Leaves, Made
<1>3. Owners' = Owners /\ (Alive' <=> Alive)
  BY <1>0, <1>2, SameOwners
<1>4. NoClient \notin Client /\ NoClient \notin Made
  BY MadeClients DEF LInv
<1>5. SharedOK'
  BY <1>0, <1>1, <1>2 DEF LInv, SharedOK, Moves
<1>6. ThreadsOK'
  BY <1>0, <1>1, <1>2, <1>4 DEF LInv, ThreadsOK, Moves, At, On
<1>7. OwnersOK'
  BY <1>0, <1>1, <1>2, <1>4, ThreadAssumption DEF LInv, SharedOK, OwnersOK, Moves, On
<1>8. LifetimeOK'
  BY <1>0, <1>1, <1>3 DEF LInv, LifetimeOK, Moves, Ending
<1>9. CheckedOK'
  BY <1>0, <1>1, <1>2, <1>4 DEF LInv, CheckedOK, Moves, On
<1>10. PlacesOK'
  BY <1>0, <1>1, <1>2, <1>3 DEF LInv, PlacesOK, Between, Moves, At, On
<1>11. ContractOK'
  BY <1>0, <1>1, <1>2, <1>3 DEF LInv, ContractOK, InCall, Moves, At, On
<1> QED BY <1>5, <1>6, <1>7, <1>8, <1>9, <1>10, <1>11 DEF LInv

(* A thread gives up its pointer, and goes on to ~File if it was the last. *)
LEMMA DropKeeps ==
  ASSUME LInv, NEW t \in Thread, Drop(t)
  PROVE  LInv'
<1> DEFINE next == IF LastOwner(t) THEN "destroy" ELSE "idle"
           r == [thread[t] EXCEPT !.on = NoClient, !.pc = next]
<1>1. Moves(t, r)
  <2>1. thread' = [thread EXCEPT ![t].on = NoClient, ![t].pc = next]
    BY DEF Drop
  <2>2. thread \in [Thread -> Place] /\ thread[t] \in Place
    BY ThreadFields DEF LInv, SharedOK
  <2>3. r \in Place
    BY <2>2 DEF Place
  <2>4. thread' = [thread EXCEPT ![t] = r]
    BY <2>1, <2>2 DEF Place
  <2> QED BY <2>2, <2>3, <2>4 DEF Moves
<1>2. /\ thread[t].pc = "idle" /\ ~thread[t].pinned /\ t \in handle
      /\ r.op = thread[t].op /\ r.on = NoClient /\ r.pinned = thread[t].pinned /\ r.pc = next
      /\ NoClient \notin Client /\ NoClient \notin Made
  BY ThreadFields, MadeClients DEF Place, On, At, LInv, ThreadsOK, Drop
<1>3. /\ UNCHANGED <<clients, lookaside, mode, closed, clientLock, fileLock>> /\ Made' = Made
      /\ handle' = handle \ {t}
  BY DEF Drop, Made
<1> HIDE DEF r
<1>4. Alive /\ (LastOwner(t) => ~Alive')
  BY <1>1, <1>2, <1>3 DEF Alive, Owners, Moves, LastOwner
<1>5. SharedOK'
  BY <1>1, <1>2, <1>3 DEF LInv, SharedOK, Moves
<1>6. ThreadsOK'
  BY <1>1, <1>2, <1>3 DEF LInv, ThreadsOK, Moves, At, On
<1>7. OwnersOK'
  BY <1>1, <1>2, <1>3 DEF LInv, OwnersOK, Moves, On
<1>8. LifetimeOK'
  BY <1>1, <1>2, <1>4 DEF LInv, LifetimeOK, Moves, Ending
<1>9. CheckedOK'
  BY <1>1, <1>2, <1>3 DEF LInv, CheckedOK, Moves, On
<1>10. PlacesOK'
  BY <1>1, <1>2, <1>3, <1>4 DEF LInv, PlacesOK, Between, Moves, At, On
<1>11. ContractOK'
  BY <1>1, <1>2, <1>3, <1>4 DEF LInv, ContractOK, InCall, Moves, At, On
<1> QED BY <1>5, <1>6, <1>7, <1>8, <1>9, <1>10, <1>11 DEF LInv

(* ~File takes the File's mutex when nobody has it.                        *)
LEMMA DestroyKeeps ==
  ASSUME LInv, NEW t \in Thread, Destroy(t)
  PROVE  LInv'
<1> DEFINE r == [thread[t] EXCEPT !.pc = "closing"]
<1>1. Moves(t, r)
  BY ThreadFields DEF LInv, SharedOK, Destroy, Goes, Moves, Place
<1>2. /\ thread[t].pc = "destroy"
      /\ r.pc = "closing" /\ r.op = thread[t].op /\ r.on = On(t) /\ r.pinned = thread[t].pinned
  BY <1>1, ThreadFields DEF Place, On, At, LInv, Destroy
<1> HIDE DEF r
<1>3. Made' = Made /\ Owners' = Owners /\ (Alive' <=> Alive)
  BY <1>1, <1>2, SameOwners DEF Destroy, Made
<1>4. SharedOK'
  BY <1>1 DEF LInv, SharedOK, Destroy, Moves, Made
<1>5. ThreadsOK'
  BY <1>1, <1>2 DEF LInv, ThreadsOK, Destroy, Moves, Made, At, On
<1>6. OwnersOK'
  BY <1>1, <1>2, ThreadAssumption DEF LInv, SharedOK, OwnersOK, Destroy, FileFree, Moves, On
<1>7. LifetimeOK'
  BY <1>1, <1>2, <1>3 DEF LInv, LifetimeOK, Moves, Ending
<1>8. CheckedOK'
  BY <1>1, <1>2, <1>3 DEF LInv, CheckedOK, Destroy, Moves, On
<1>9. PlacesOK'
  BY <1>1, <1>2, <1>3 DEF LInv, PlacesOK, Between, Destroy, Moves, At, On
<1>10. ContractOK'
  BY <1>1, <1>2, <1>3 DEF LInv, ContractOK, InCall, Destroy, Moves, At, On
<1> QED BY <1>4, <1>5, <1>6, <1>7, <1>8, <1>9, <1>10 DEF LInv

(* ~File closes clients whose mutex is free: nobody in a call sees it.     *)
LEMMA CloseNextKeeps ==
  ASSUME LInv, NEW t \in Thread, CloseNext(t)
  PROVE  LInv'
<1> DEFINE c == Head(clients)
<1>1. /\ closed' = closed \cup {c} /\ clients' = Tail(clients) /\ Free(c, t)
      /\ UNCHANGED <<lookaside, mode, clientLock, fileLock, handle, thread>>
      /\ Made' = Made /\ Owners' = Owners /\ (Alive' <=> Alive)
  BY DEF CloseNext, Made, Owners, Alive
<1>2. c \in Made /\ c \in Client /\ Tail(clients) \in Seq(Made)
  BY MadeClients DEF LInv, SharedOK, CloseNext
<1> HIDE DEF c
<1>3. thread[t].pc = "closing" /\ ~Alive
  BY DEF LInv, LifetimeOK, Ending, CloseNext, At
<1>4. SharedOK'
  BY <1>1, <1>2 DEF LInv, SharedOK
<1>5. ThreadsOK'
  BY <1>1 DEF LInv, ThreadsOK, At, On
<1>6. OwnersOK'
  BY <1>1 DEF LInv, OwnersOK, On
<1>7. LifetimeOK'
  BY <1>1 DEF LInv, LifetimeOK, Ending
<1>8. CheckedOK'
  BY <1>1, <1>2, <1>3, ThreadAssumption DEF LInv, OwnersOK, CheckedOK, Free, On
<1>9. PlacesOK'
  BY <1>1, <1>3 DEF PlacesOK
<1>10. ContractOK'
  BY <1>1, <1>3 DEF LInv, ContractOK, InCall, At, On
<1> QED BY <1>4, <1>5, <1>6, <1>7, <1>8, <1>9, <1>10 DEF LInv

(* The File is gone, and its thread returns to the call it was in.         *)
LEMMA DestroyedKeeps ==
  ASSUME LInv, NEW t \in Thread, Destroyed(t)
  PROVE  LInv'
<1> DEFINE r == [thread[t] EXCEPT !.pc = IF On(t) = NoClient THEN "idle" ELSE "unlock"]
<1>1. Moves(t, r)
  BY ThreadFields DEF LInv, SharedOK, Destroyed, Goes, Moves, Place
<1>2. /\ thread[t].pc = "closing" /\ ~thread[t].pinned /\ On(t) \in Made \cup {NoClient}
      /\ r.pc = (IF On(t) = NoClient THEN "idle" ELSE "unlock")
      /\ r.op = thread[t].op /\ r.on = On(t) /\ r.pinned = thread[t].pinned
      /\ NoClient \notin Client /\ NoClient \notin Made
  BY <1>1, ThreadFields, MadeClients DEF Place, On, At, LInv, ThreadsOK, Destroyed
<1> HIDE DEF r
<1>3. /\ clients = <<>> /\ lookaside' = {} /\ fileLock' = Nobody
      /\ UNCHANGED <<clients, mode, closed, clientLock, handle>>
      /\ Made' = Made
  BY DEF Destroyed, Made
<1>4. ~Alive /\ ~Alive'
  BY <1>1, <1>2, <1>3, SameOwners DEF LInv, LifetimeOK, Ending
<1>5. SharedOK'
  BY <1>1, <1>3 DEF LInv, SharedOK, Moves
<1>6. ThreadsOK'
  BY <1>1, <1>2, <1>3 DEF LInv, ThreadsOK, Moves, At, On
<1>7. OwnersOK'
  BY <1>1, <1>2, <1>3, ThreadAssumption DEF LInv, SharedOK, OwnersOK, Moves, On
<1>8. LifetimeOK'
  BY <1>1, <1>2, <1>4 DEF LInv, LifetimeOK, Moves, Ending
<1>9. CheckedOK'
  BY <1>1, <1>2, <1>3 DEF LInv, CheckedOK, Moves, On
<1>10. PlacesOK'
  BY <1>4 DEF PlacesOK
<1>11. ContractOK'
  BY <1>1, <1>2, <1>3, <1>4 DEF LInv, ContractOK, InCall, Moves, At, On
<1> QED BY <1>5, <1>6, <1>7, <1>8, <1>9, <1>10, <1>11 DEF LInv

-----------------------------------------------------------------------------
(* The theorems.                                                           *)

(* What a thread does in a call without being asked.                       *)
LEMMA RunsKeep ==
  ASSUME LInv, NEW t \in Thread, Runs(t)
  PROVE  LInv'
BY LockKeeps, RefuseKeeps, PinKeeps, UnpinKeeps, UnlockKeeps, EnterKeeps, WorkOpenKeeps,
   WorkCloseKeeps, WorkOnKeeps, DestroyKeeps, CloseNextKeeps, DestroyedKeeps DEF Runs

(* Every state that Start allows satisfies the invariant.                  *)
LEMMA StartKeeps ==
  ASSUME NEW opened \in Seq(SUBSET {"r", "w"}), Len(opened) <= MaxClients,
         NEW owners \in SUBSET Thread, NEW calls, Start(opened, owners, calls)
  PROVE  LInv
<1>1. /\ mode = opened /\ lookaside = Made /\ closed = {} /\ handle = owners
      /\ clients = [c \in Made |-> c]
      /\ clientLock = [c \in Client |-> Nobody] /\ fileLock = Nobody
      /\ \A t \in Thread : /\ thread[t].pc = "idle" /\ thread[t].on = NoClient
                           /\ ~thread[t].pinned
      /\ thread \in [Thread -> Place]
  BY DEF Start, Made, Place, Op
<1>2. Len(mode) \in Nat /\ Made = 1 .. Len(mode)
  BY <1>1, LenProperties DEF Made
<1>3. SharedOK
  <2>1. clients \in Seq(Made)
    BY <1>1, <1>2
  <2> QED BY <1>1, <2>1 DEF SharedOK
<1>4. Made \subseteq Client /\ NoClient \notin Client
  BY <1>3, MadeClients
<1>5. ThreadsOK /\ LifetimeOK /\ CheckedOK
  BY <1>1, <1>4 DEF ThreadsOK, LifetimeOK, Ending, CheckedOK, On, At
<1>6. OwnersOK
  BY <1>1, <1>4, ThreadAssumption DEF OwnersOK, On
<1>7. PlacesOK /\ ContractOK
  BY <1>1 DEF PlacesOK, Between, ContractOK, InCall, At
<1> QED BY <1>3, <1>5, <1>6, <1>7 DEF LInv

(* The invariant with the calls that are left.                             *)
LocksInv == LInv /\ left \in 0 .. MaxCalls

(* The first state: nobody is in a call, and the File has no clients.      *)
LEMMA InitOK == Init => LocksInv
<1> SUFFICES ASSUME NEW m \in ClientModes, Start(<<FileMode, m>>, Caller, MaxCalls)
             PROVE  LocksInv
  BY DEF Init
<1>1. <<FileMode, m>> \in Seq(SUBSET {"r", "w"}) /\ Len(<<FileMode, m>>) <= MaxClients
  BY ModeAssumption, CallBounds
<1>2. LInv
  BY <1>1, StartKeeps, ThreadAssumption
<1> QED BY <1>2, CallBounds DEF LocksInv, Start

(* A thread asks for a call only when one is left.                         *)
LEMMA AsksKeep ==
  ASSUME LInv, NEW t \in Thread, Asks(t)
  PROVE  LInv'
<1>1. CASE \E c \in Made, op \in Calls \ {"new"} : Proper(c, op) /\ Call(t, c, op)
  BY <1>1, CallKeeps, CallAssumption DEF ClientOp
<1>2. CASE \E op \in Calls \cap {"save", "new"} : FileCall(t, op)
  BY <1>2, FileCallKeeps
<1> QED BY <1>1, <1>2 DEF Asks

(* A step of the threads.                                                  *)
LEMMA NextKeeps == LInv /\ Next => LInv'
<1> SUFFICES ASSUME LInv, NEW t \in Thread,
                    Asks(t) \/ Drop(t) \/ Runs(t) \/ \E m \in {FileMode} \cup ClientModes : WorkNew(t, m)
             PROVE  LInv'
  BY DEF Next
<1> QED BY AsksKeep, DropKeeps, RunsKeep, WorkNewKeeps, ModeAssumption

(* A step that changes neither the File nor a thread keeps the invariant.  *)
LEMMA StutterKeeps == LInv /\ UNCHANGED <<shared, thread>> => LInv'
BY DEF LInv, shared, SharedOK, ThreadsOK, OwnersOK, LifetimeOK, CheckedOK, PlacesOK, ContractOK,
       Made, On, At, Ending, Alive, Owners, Between, InCall

(* Every step of the specification keeps the invariant, and the bound on   *)
(* the calls.                                                              *)
LEMMA NextStep == LocksInv /\ [Next]_vars => LocksInv'
<1> SUFFICES ASSUME LocksInv, [Next]_vars
             PROVE  LocksInv'
  OBVIOUS
<1>1. LInv'
  BY NextKeeps, StutterKeeps DEF LocksInv, vars
<1>2. left' \in 0 .. MaxCalls
  BY CallBounds DEF LocksInv, vars, Next, Asks
<1> QED BY <1>1, <1>2 DEF LocksInv

(* Every reachable state satisfies the invariant.                          *)
THEOREM LocksInvariance == Spec => []LocksInv
<1> QED BY InitOK, NextStep, PTL DEF Spec

(* What the invariant says of the properties of ClientLocks.               *)
LEMMA LInvMeans ==
  ASSUME LInv
  PROVE  /\ FileOutlivesCalls /\ AloneInside /\ PlacedIffOpen /\ PlacedWhenUsed
         /\ left \in 0 .. MaxCalls => LocksTypeOK
<1>1. \A t \in Thread : thread[t].pc \in {"enter", "inside"} => Alive
  BY DEF LInv, ThreadsOK, Alive, Owners
<1>2. FileOutlivesCalls
  BY <1>1 DEF LInv, LifetimeOK, Ending, FileOutlivesCalls
<1>3. AloneInside
  BY DEF LInv, OwnersOK, AloneInside
<1>4. PlacedIffOpen
  <2> SUFFICES ASSUME Alive, NEW c \in Made, clientLock[c] = Nobody
               PROVE  ~Between(c)
    BY DEF LInv, PlacesOK, PlacedIffOpen
  <2> QED BY MadeClients, ThreadAssumption DEF LInv, OwnersOK, Between, At, On
<1>5. PlacedWhenUsed
  <2> SUFFICES ASSUME NEW t \in Thread, thread[t].pc = "inside", thread[t].op \in Placing
               PROVE  On(t) \in lookaside
    BY DEF PlacedWhenUsed, At
  <2>1. On(t) \in Made /\ Alive
    BY <1>1 DEF LInv, ThreadsOK, Placing, Changing
  <2>2. On(t) \notin closed
    <3>1. CASE thread[t].op = "get_pos"
      BY <2>1, <3>1 DEF LInv, CheckedOK
    <3>2. CASE thread[t].op # "get_pos"
      BY <2>1, <3>2 DEF LInv, ContractOK, InCall, At, Using
    <3> QED BY <3>1, <3>2
  <2>3. ~Between(On(t))
    BY <2>1, MadeClients DEF LInv, OwnersOK, Between, At, On
  <2> QED BY <2>1, <2>2, <2>3 DEF LInv, PlacesOK
<1>6. ASSUME left \in 0 .. MaxCalls PROVE LocksTypeOK
  <2>1. clients \in Seq(Client) /\ lookaside \subseteq Client
    BY MadeClients DEF LInv, SharedOK
  <2> QED BY <1>6, <2>1 DEF LInv, SharedOK, LocksTypeOK
<1> QED BY <1>2, <1>3, <1>4, <1>5, <1>6

(* LocksTypeOK: every variable of Client, of the mutexes and of the        *)
(* threads has its type, and only clients that were made are closed.       *)
THEOREM LocksTypeCorrect == Spec => []LocksTypeOK
<1> QED BY LocksInvariance, LInvMeans, PTL DEF LocksInv

(* The File outlives every call, and one thread destroys it.               *)
THEOREM LifetimeCorrect == Spec => []FileOutlivesCalls
<1> QED BY LocksInvariance, LInvMeans, PTL DEF LocksInv

(* One thread at a time is in the File or in ~File.                        *)
THEOREM ExclusionCorrect == Spec => []AloneInside
<1> QED BY LocksInvariance, LInvMeans, PTL DEF LocksInv

(* Between calls, is_closed and lookaside agree.                           *)
THEOREM PlacesCorrect == Spec => []PlacedIffOpen
<1> QED BY LocksInvariance, LInvMeans, PTL DEF LocksInv

(* A call that looks up its client's place finds one.                      *)
THEOREM PlaceUseCorrect == Spec => []PlacedWhenUsed
<1> QED BY LocksInvariance, LInvMeans, PTL DEF LocksInv
=============================================================================
