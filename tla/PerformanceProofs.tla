-------------------------- MODULE PerformanceProofs -------------------------
(***************************************************************************)
(* Proofs about Performance for every number of workers, every pattern and *)
(* every number of rounds and runs: that the properties of ClientLocks     *)
(* hold of the threads of a run too, that a load is alone with the File,   *)
(* and that nothing the workers add to the totals of a run is lost.        *)
(*                                                                         *)
(* What a run leaves to its caller the threads of ClientLocks promise by   *)
(* contract; its workers keep to that contract because each has a client   *)
(* of its own, and closes it with its last call.                           *)
(***************************************************************************)
EXTENDS Performance, ClientLocksProofs, SumTheorems

-----------------------------------------------------------------------------
(* The inductive invariant.                                                *)

Off  == bench.at = "off"
Args == bench.args

(* run, its arguments and its counters, and the results so far.            *)
BenchOK ==
  /\ bench \in [at : {"off", "idle", "load", "loading", "open", "opening", "join", "push"},
                args : Range(Arguments) \cup {NoRun.args}, attempt : Nat, started : Nat]
  /\ Len(did) <= Len(Arguments)
  /\ i_count = Len(did) - (IF Measuring THEN 1 ELSE 0)
  /\ IF Measuring
     THEN /\ did # <<>> /\ Args \in Range(Arguments)
          /\ bench.started <= Args.clients
          /\ bench.at \in {"open", "opening"} => bench.started < Args.clients
          /\ bench.at = "join" => bench.started = Args.clients
          /\ bench.attempt <= Args.attempts
          /\ bench.at = "push" <=> bench.attempt = Args.attempts
     ELSE bench = [NoRun EXCEPT !.at = bench.at]
  /\ Off => did = <<>>

TotalsOK ==
  /\ runtime \in Nat /\ data \in Nat
  /\ did \in Seq([time : Nat, data : Nat, kinds : [Kind -> Nat]])

(* The locals of aux_run: what is left of its script is the rest of what   *)
(* its pattern asks for.                                                   *)
Done(w) == 2 * Len(Args.pattern) + 1 - Len(worker[w].script)

WorkersOK ==
  /\ worker \in [Worker -> [at : {"none", "calls", "expect", "swap", "done"},
                            script : Seq([op : Kind \cup {"seek", "close"}, size : Nat]),
                            client : Client \cup {NoClient}, data : Nat, time : Nat, expected : Nat]]
  /\ \A i \in 1 .. Len(Workers) :
       LET w == Workers[i] IN
       IF bench.at \in {"open", "opening", "join"}
       THEN worker[w].at = "none" <=> i > bench.started
       ELSE worker[w].at \in (IF bench.at \in {"loading", "off"} THEN {"none"} ELSE {"none", "done"})
  /\ \A w \in Worker : worker[w].at = "calls" =>
       /\ Done(w) >= 0
       /\ \A i \in 1 .. Len(worker[w].script) : worker[w].script[i] = Script(Args.pattern)[Done(w) + i]

(* No thread is in a call that run did not have it make, and no thread of  *)
(* a run is left to destroy the File.                                      *)
QuietOK ==
  ~Off =>
    /\ left = 0
    /\ handle \subseteq {Main, Owner} /\ (Measuring => Main \in handle)
    /\ \A t \in Thread \ ({Main} \cup Worker) : thread[t].pc \in {"idle", "destroy", "closing"}
    /\ IF bench.at = "opening"
       THEN \/ thread[Main].pc \in {"enter", "inside"} /\ thread[Main].op = "new" /\ ~thread[Main].pinned
            \/ At(Main, "idle") /\ On(Main) \in Made
       ELSE thread[Main].pc \in {"idle", "destroy", "closing"}
    /\ \A w \in Worker : worker[w].at # "calls" => At(w, "idle")
    /\ \A t \in Thread : Ending(t) => On(t) = NoClient

(* Each client is the one of a worker, and is open until its close.        *)
Given == bench.at = "opening" /\ At(Main, "idle")

OwnOK ==
  ~Off =>
    /\ \A w \in Worker : worker[w].at = "calls" =>
         /\ worker[w].client \in Made
         /\ ~At(w, "idle") => On(w) = worker[w].client
         /\ worker[w].script # <<>> => worker[w].client \notin closed
         /\ worker[w].script # <<>> /\ ~At(w, "idle") => thread[w].op # "close"
         /\ worker[w].script = <<>> => IF At(w, "idle") THEN worker[w].client \in closed ELSE thread[w].op = "close"
         /\ Given => On(Main) # worker[w].client
         /\ \A u \in Worker \ {w} : worker[u].at = "calls" => worker[u].client # worker[w].client
    /\ Given => On(Main) \notin closed
    /\ \A c \in Made \ closed : (Given /\ c = On(Main)) \/ \E w \in Worker : worker[w].at = "calls" /\ worker[w].client = c

(* What is on its way into the totals of a run is with the workers: data   *)
(* and time that they have not added yet, and calls not made.              *)
PendingData == [i \in 1 .. Len(Workers) |-> IF worker[Workers[i]].at = "calls" THEN worker[Workers[i]].data ELSE 0]
PendingTime == [i \in 1 .. Len(Workers) |-> IF worker[Workers[i]].at \in {"expect", "swap"} THEN worker[Workers[i]].time ELSE 0]

Number(p, k, n) == Cardinality({i \in 1 .. Len(p) : 2 * i > n /\ p[i].kind = k})
PendingCalls(k) ==
  [i \in 1 .. Len(Workers) |-> IF worker[Workers[i]].at = "calls" THEN Number(Args.pattern, k, Done(Workers[i])) ELSE 0]

(* The workers started in this run.                                        *)
Begun == bench.attempt * Args.clients + (IF bench.at \in {"open", "opening", "join"} THEN bench.started ELSE 0)

SumsOK ==
  Measuring =>
    LET now == did[Len(did)] IN
    /\ IsSum(PendingData, Len(Workers), now.data - data)
    /\ IsSum(PendingTime, Len(Workers), now.time - runtime)
    /\ \A k \in Kind : IsSum(PendingCalls(k), Len(Workers), Begun * Number(Args.pattern, k, 0) - now.kinds[k])

(* The rows, with what makes their shares a quotient.                      *)
RowsOK ==
  /\ rows \in Seq(Row) /\ reported \in Seq(Row)
  /\ \A i \in 1 .. Len(reported \o rows) : (reported \o rows)[i].n > 0
  /\ RowsExact

PInv == LInv /\ left \in 0 .. MaxCalls /\ BenchOK /\ TotalsOK /\ WorkersOK /\ QuietOK /\ OwnOK /\ SumsOK /\ RowsOK

-----------------------------------------------------------------------------
(* What the steps of a thread in a call change.                            *)

(* A step of a thread inside a call leaves the other threads and the modes *)
(* alone, and closes or opens its own client at most.                      *)
LEMMA RunsEffect ==
  ASSUME LInv, NEW t \in Thread, Runs(t)
  PROVE  /\ \A u \in Thread \ {t} : thread'[u] = thread[u]
         /\ ~At(t, "idle") /\ thread'[t].op = thread[t].op /\ thread'[t].on = On(t)
         /\ UNCHANGED <<mode, handle>>
         /\ IF Ending(t) THEN closed \subseteq closed' /\ (On(t) = NoClient => ~(thread'[t].pc = "unlock"))
            ELSE \/ closed' = closed
                 \/ thread[t].op = "close" /\ closed' = closed \cup {On(t)}
                 \/ thread[t].op = "open" /\ closed' = closed \ {On(t)}
         /\ thread'[t].pc \in {"destroy", "closing"} => Ending(t) \/ LastOwner(t)
         /\ Ending(t) => thread'[t].pc \in {"destroy", "closing", "unlock", "idle"}
         /\ thread'[t].pc = "idle" /\ thread[t].op = "close" /\ On(t) \in Made => On(t) \in closed'
         /\ thread[t].op = "new" /\ ~thread[t].pinned /\ thread[t].pc \in {"enter", "inside"} =>
              thread'[t].pc = "inside" /\ ~thread'[t].pinned
<1> USE ThreadFields DEF LInv, SharedOK, Place, At, On, Goes, Ending, shared
<1>1. CASE Lock(t)
  BY <1>1 DEF Lock
<1>2. CASE Refuse(t)
  BY <1>2 DEF Refuse, Refused, Needs, Changing
<1>3. CASE Pin(t)
  BY <1>3 DEF Pin, Pointed, IsClosed
<1>4. CASE Unpin(t)
  BY <1>4 DEF Unpin, IsClosed
<1>5. CASE Unlock(t)
  BY <1>5 DEF Unlock, CheckedOK
<1>6. CASE Enter(t)
  BY <1>6 DEF Enter
<1>7. CASE WorkOpen(t)
  BY <1>7 DEF WorkOpen, Returned, Leaves, ThreadsOK
<1>8. CASE WorkClose(t)
  BY <1>8 DEF WorkClose, Returned, Leaves, ThreadsOK
<1>9. CASE WorkOn(t)
  BY <1>9 DEF WorkOn, Returned, Leaves, Placing, Changing
<1>10. CASE Destroy(t)
  BY <1>10 DEF Destroy
<1>11. CASE CloseNext(t)
  BY <1>11 DEF CloseNext
<1>12. CASE Destroyed(t)
  BY <1>12, MadeClients DEF Destroyed
<1> QED BY <1>1, <1>2, <1>3, <1>4, <1>5, <1>6, <1>7, <1>8, <1>9, <1>10, <1>11, <1>12 DEF Runs

(* While run has its pointer, no thread destroys the File.                 *)
LEMMA MeasuringLasts ==
  ASSUME PInv, Measuring
  PROVE  /\ Main \in Thread /\ Main \in handle /\ Alive /\ ~Off
         /\ \A t \in Thread : ~Ending(t)
         /\ \A t \in Thread \ {Main} : ~LastOwner(t)
<1>1. Main \in Thread /\ Main \in handle /\ ~Off
  BY WorkersAssumption DEF PInv, QuietOK, Measuring, Off
<1>2. Main \in Owners
  BY <1>1 DEF Owners
<1> QED BY <1>1, <1>2 DEF Alive, LastOwner, PInv, LInv, LifetimeOK

(* The threads of the File's calls find a run as it was.                   *)
LEMMA DropQuiet ==
  ASSUME PInv, ~Off, UNCHANGED <<benchVars, left>>, Measuring => Main \in handle',
         NEW t \in Thread, Drop(t)
  PROVE  QuietOK' /\ OwnOK'
<1>1. /\ t \in {Main, Owner} /\ At(t, "idle") /\ (Measuring => t # Main)
      /\ UNCHANGED <<mode, closed>> /\ handle' = handle \ {t}
  BY DEF PInv, QuietOK, Drop
<1>2. /\ \A u \in Thread \ {t} : thread'[u] = thread[u]
      /\ thread'[t].on = NoClient /\ thread'[t].pc \in {"idle", "destroy"}
      /\ Measuring => thread'[t].pc = "idle"
  BY <1>1, ThreadFields, MeasuringLasts DEF PInv, LInv, SharedOK, Place, Drop
<1>3. t \notin Worker /\ Main # Owner /\ Main \notin Worker /\ Worker \subseteq Thread /\ Main \in Thread
  BY <1>1, WorkersAssumption
<1>4. UNCHANGED <<bench, worker, left>> /\ ~Off' /\ Made' = Made /\ (Measuring' <=> Measuring)
  BY <1>1 DEF benchVars, Off, Made, Measuring
<1>5. bench.at = "opening" => Measuring
  BY DEF Measuring
<1>6. QuietOK'
  BY <1>1, <1>2, <1>3, <1>4, <1>5 DEF PInv, QuietOK, Off, Measuring, At, On, Ending
<1>7. OwnOK'
  BY <1>1, <1>2, <1>3, <1>4, <1>5 DEF PInv, OwnOK, Given, At, On
<1> QED BY <1>6, <1>7

(* The client that run has just had made for it is nobody else's.          *)
LEMMA WorkNewQuiet ==
  ASSUME PInv, ~Off, UNCHANGED <<benchVars, left>>, NEW t \in Thread, NEW m, WorkNew(t, m)
  PROVE  QuietOK' /\ OwnOK'
<1> DEFINE c == Len(mode) + 1
<1>0. Main \notin Worker /\ Worker \subseteq Thread /\ Main \in Thread
  BY WorkersAssumption
<1>1. /\ t = Main /\ bench.at = "opening"
  BY <1>0 DEF PInv, LInv, ThreadsOK, QuietOK, OwnOK, WorkNew, At, On, ClientOp
<1>2. /\ UNCHANGED <<handle, closed>>
      /\ mode' = Append(mode, m) /\ \A u \in Thread \ {t} : thread'[u] = thread[u]
      /\ thread'[t].pc = "idle" /\ thread'[t].on = c
  BY ThreadFields DEF PInv, LInv, SharedOK, Place, WorkNew, Leaves, NextId
<1>3. Made' = Made \cup {c} /\ c \notin Made /\ closed \subseteq Made
  BY <1>2, MadeClients DEF PInv, LInv, SharedOK, Made
<1> HIDE DEF c
<1>4. UNCHANGED <<bench, worker, left>> /\ ~Off' /\ (Measuring' <=> Measuring)
  BY DEF benchVars, Off, Measuring
<1>5. QuietOK'
  BY <1>0, <1>1, <1>2, <1>3, <1>4 DEF PInv, QuietOK, Off, Measuring, At, On, Ending
<1>6. ~Given
  BY <1>0, <1>1 DEF Given, At, WorkNew
<1>7. OwnOK'
  BY <1>0, <1>1, <1>2, <1>3, <1>4, <1>6 DEF PInv, OwnOK, Given, At, On
<1> QED BY <1>5, <1>7

(* A step of a call moves a worker on in its own call, on its own client.  *)
LEMMA RunsQuiet ==
  ASSUME PInv, ~Off, UNCHANGED <<benchVars, left>>, NEW t \in Thread, Runs(t)
  PROVE  QuietOK' /\ OwnOK'
<1>0. Main \notin Worker /\ Worker \subseteq Thread /\ Main \in Thread
  BY WorkersAssumption
<1>1. /\ \A u \in Thread \ {t} : thread'[u] = thread[u]
      /\ ~At(t, "idle") /\ thread'[t].op = thread[t].op /\ thread'[t].on = On(t)
      /\ UNCHANGED <<mode, handle>> /\ Made' = Made
  BY RunsEffect DEF PInv, Made
<1>2. UNCHANGED <<bench, worker, left>> /\ ~Off' /\ (Measuring' <=> Measuring)
  BY DEF benchVars, Off, Measuring
<1>3. LInv
  BY DEF PInv
<1>4. CASE ~Measuring
  <2>1. bench.at = "idle" /\ \A w \in Worker : worker[w].at # "calls"
    <3>1. \A w \in Worker : \E i \in 1 .. Len(Workers) : w = Workers[i]
      BY WorkersAssumption DEF Worker, Range
    <3> QED BY <1>4, <3>1 DEF Measuring, Off, PInv, WorkersOK
  <2>2. Ending(t) /\ On(t) = NoClient /\ t \notin Worker
    BY <1>0, <1>1, <2>1 DEF PInv, QuietOK, Ending, At
  <2>3. /\ thread'[t].pc \in {"destroy", "closing", "idle"}
        /\ closed \subseteq closed'
    BY <1>3, <2>2, RunsEffect
  <2>4. QuietOK'
    BY <1>0, <1>1, <1>2, <1>4, <2>1, <2>2, <2>3 DEF PInv, QuietOK, Off, Measuring, At, On, Ending
  <2>5. OwnOK'
    BY <1>0, <1>1, <1>2, <2>1, <2>2, <2>3 DEF PInv, OwnOK, Given, At, On
  <2> QED BY <2>4, <2>5
<1>5. CASE Measuring
  <2>1. /\ Alive /\ \A u \in Thread : ~Ending(u)
        /\ \A u \in Thread \ {Main} : ~LastOwner(u)
    BY <1>5, MeasuringLasts
  <2>2. CASE t = Main
    <3>1. /\ bench.at = "opening" /\ thread[t].pc \in {"enter", "inside"}
          /\ thread[t].op = "new" /\ ~thread[t].pinned
      BY <1>1, <2>1, <2>2 DEF PInv, QuietOK, Ending, At
    <3>2. thread'[t].pc = "inside" /\ ~thread'[t].pinned /\ closed' = closed
      BY <1>3, <2>1, <3>1, RunsEffect
    <3>3. QuietOK'
      BY <1>0, <1>1, <1>2, <2>2, <3>1, <3>2 DEF PInv, QuietOK, Off, Measuring, At, On, Ending
    <3>4. OwnOK'
      BY <1>0, <1>1, <1>2, <2>2, <3>1, <3>2 DEF PInv, OwnOK, Given, At, On
    <3> QED BY <3>3, <3>4
  <2>3. CASE t # Main
    <3>1. t \in Worker /\ worker[t].at = "calls" /\ On(t) = worker[t].client /\ On(t) \in Made
      BY <1>1, <2>1, <2>3 DEF PInv, QuietOK, OwnOK, Ending, At
    <3>2. /\ thread'[t].pc \notin {"destroy", "closing"}
          /\ \/ closed' = closed
             \/ thread[t].op = "close" /\ closed' = closed \cup {On(t)}
             \/ thread[t].op = "open" /\ closed' = closed \ {On(t)}
          /\ thread'[t].pc = "idle" /\ thread[t].op = "close" => On(t) \in closed'
      BY <1>3, <2>1, <2>3, <3>1, RunsEffect
    <3>3. QuietOK'
      BY <1>0, <1>1, <1>2, <2>1, <2>3, <3>1, <3>2 DEF PInv, QuietOK, Off, Measuring, At, On, Ending
    <3>4. OwnOK'
      <4>1. Given' <=> Given
        BY <1>0, <1>1, <1>2, <2>3 DEF Given, At
      <4>2. ASSUME NEW w \in Worker, worker[w].at = "calls"
            PROVE  /\ worker[w].client \in Made
                   /\ ~At(w, "idle")' => On(w)' = worker[w].client
                   /\ worker[w].script # <<>> => worker[w].client \notin closed'
                   /\ worker[w].script # <<>> /\ ~At(w, "idle")' => thread'[w].op # "close"
                   /\ worker[w].script = <<>> =>
                        IF At(w, "idle")' THEN worker[w].client \in closed' ELSE thread'[w].op = "close"
        BY <1>0, <1>1, <3>1, <3>2, <4>2 DEF PInv, OwnOK, At, On
      <4>3. Given => On(Main)' = On(Main) /\ On(Main) \notin closed'
        BY <1>0, <1>1, <2>3, <3>1, <3>2 DEF PInv, OwnOK, On
      <4>4. \A c \in Made \ closed' : c \in Made \ closed \/ c = On(t)
        BY <3>2
      <4> QED BY <1>1, <1>2, <3>1, <4>1, <4>2, <4>3, <4>4 DEF PInv, OwnOK
    <3> QED BY <3>3, <3>4
  <2> QED BY <2>2, <2>3
<1> QED BY <1>4, <1>5

(* What a step that leaves run, its workers and its results alone leaves.  *)
LEMMA SameBench ==
  ASSUME UNCHANGED <<bench, worker, i_count>>, Len(did') = Len(did), did' = <<>> <=> did = <<>>
  PROVE  /\ BenchOK' <=> BenchOK
         /\ WorkersOK' <=> WorkersOK
BY DEF BenchOK, WorkersOK, Done, Measuring, Off, Args

(* Totals, sums and rows do not depend on the threads.                     *)
LEMMA SameResults ==
  ASSUME UNCHANGED <<bench, worker, runtime, data, rows, i_count, reported, did>>
  PROVE  /\ TotalsOK' <=> TotalsOK
         /\ SumsOK' <=> SumsOK
         /\ RowsOK' <=> RowsOK
<1>1. TotalsOK' <=> TotalsOK
  BY DEF TotalsOK
<1>2. RowsOK' <=> RowsOK
  BY DEF RowsOK, RowsExact, Measuring
<1>3. SumsOK' <=> SumsOK
  BY DEF SumsOK, PendingData, PendingTime, PendingCalls, Number, Done, Begun, Args, Measuring, IsSum
<1> QED BY <1>1, <1>2, <1>3

(* The threads of the File go on.                                          *)
LEMMA CallsKeep ==
  ASSUME PInv, CallsStep
  PROVE  PInv'
<1>1. LInv' /\ left' \in 0 .. MaxCalls /\ UNCHANGED benchVars
  <2>1. LInv'
    BY NextKeeps DEF PInv, CallsStep
  <2>2. left' \in 0 .. MaxCalls
    BY CallBounds DEF PInv, CallsStep, Next, Asks
  <2> QED BY <2>1, <2>2 DEF CallsStep
<1>2. BenchOK' /\ TotalsOK' /\ WorkersOK' /\ SumsOK' /\ RowsOK'
  BY <1>1, SameBench, SameResults DEF PInv, benchVars
<1>3. QuietOK' /\ OwnOK'
  <2>1. CASE Off
    BY <1>1, <2>1 DEF QuietOK, OwnOK, Off, benchVars
  <2>2. CASE ~Off
    <3>1. left = 0
      BY <2>2 DEF PInv, QuietOK
    <3>2. PICK t \in Thread :
            /\ Drop(t) \/ Runs(t) \/ \E m \in {FileMode} \cup ClientModes : WorkNew(t, m)
            /\ UNCHANGED left
      BY <3>1 DEF CallsStep, Next, Asks
    <3> QED BY <1>1, <2>2, <3>2, DropQuiet, RunsQuiet, WorkNewQuiet DEF CallsStep
  <2> QED BY <2>1, <2>2
<1> QED BY <1>1, <1>2, <1>3 DEF PInv

-----------------------------------------------------------------------------
(* The calls of a pattern.                                                 *)

(* The calls of a kind after the first n orders of a script are finitely   *)
(* many.                                                                   *)
LEMMA NumberType ==
  ASSUME NEW p, Len(p) \in Nat, NEW k, NEW n
  PROVE  /\ IsFiniteSet({i \in 1 .. Len(p) : 2 * i > n /\ p[i].kind = k})
         /\ Number(p, k, n) \in Nat
<1> DEFINE S == {i \in 1 .. Len(p) : 2 * i > n /\ p[i].kind = k}
<1>1. IsFiniteSet(1 .. Len(p)) /\ S \in SUBSET (1 .. Len(p))
  BY FS_Interval
<1> HIDE DEF S
<1>2. IsFiniteSet(S) /\ Cardinality(S) \in Nat
  BY <1>1, FS_Subset, FS_CardinalityType
<1> QED BY <1>2 DEF S, Number

(* Their number is a natural number.                                       *)
LEMMA NumberNat ==
  ASSUME NEW p, Len(p) \in Nat, NEW k
  PROVE  \A n : Number(p, k, n) \in Nat
BY NumberType

(* A call at an even place of the script is the pattern's.                 *)
LEMMA NumberEven ==
  ASSUME NEW p, Len(p) \in Nat, NEW k, NEW n \in Nat, NEW j \in 1 .. Len(p), 2 * j = n + 1
  PROVE  Number(p, k, n) = Number(p, k, n + 1) + (IF p[j].kind = k THEN 1 ELSE 0)
<1> DEFINE S == {i \in 1 .. Len(p) : 2 * i > n /\ p[i].kind = k}
           T == {i \in 1 .. Len(p) : 2 * i > n + 1 /\ p[i].kind = k}
<1>1. IsFiniteSet(S) /\ IsFiniteSet(T) /\ Cardinality(T) \in Nat
  BY NumberType DEF Number
<1>2. j \notin T /\ S = IF p[j].kind = k THEN T \cup {j} ELSE T
  OBVIOUS
<1>3. Number(p, k, n) = Cardinality(S) /\ Number(p, k, n + 1) = Cardinality(T)
  BY DEF Number
<1> HIDE DEF S, T
<1> QED BY <1>1, <1>2, <1>3, FS_AddElement

(* A call at an odd place is a seek, or the close at the end.              *)
LEMMA NumberOdd ==
  ASSUME NEW p, Len(p) \in Nat, NEW k, NEW n \in Nat, \A j \in 1 .. Len(p) : 2 * j # n + 1
  PROVE  Number(p, k, n) = Number(p, k, n + 1)
<1>1. \A i \in 1 .. Len(p) : 2 * i > n <=> 2 * i > n + 1
  OBVIOUS
<1> QED BY <1>1 DEF Number

(* Nothing is left behind the end.                                         *)
LEMMA NumberEnd ==
  ASSUME NEW p, Len(p) \in Nat, NEW k
  PROVE  Number(p, k, 2 * Len(p) + 1) = 0
<1>1. {i \in 1 .. Len(p) : 2 * i > 2 * Len(p) + 1 /\ p[i].kind = k} = {}
  OBVIOUS
<1> QED BY <1>1, FS_EmptySet DEF Number

(* Every access of a pattern is of one kind.                               *)
LEMMA NumberAll ==
  ASSUME NEW p \in Pattern, Len(p) \in Nat
  PROVE  Len(p) = Number(p, "read", 0) + Number(p, "write", 0) + Number(p, "insert", 0) + Number(p, "erase", 0)
<1> DEFINE Of(k) == {i \in 1 .. Len(p) : 2 * i > 0 /\ p[i].kind = k}
<1>1. \A k : IsFiniteSet(Of(k)) /\ Number(p, k, 0) = Cardinality(Of(k)) /\ Cardinality(Of(k)) \in Nat
  BY NumberType DEF Number
<1>2. 1 .. Len(p) = ((Of("read") \cup Of("write")) \cup Of("insert")) \cup Of("erase")
  <2>1. ASSUME NEW i \in 1 .. Len(p) PROVE p[i].kind \in Kind
    <3> DEFINE Access == [kind : Kind, size : Nat]
    <3>1. p \in Seq(Access) /\ i \in 1 .. Len(p)
      BY DEF Pattern
    <3>2. p[i] \in Access
      <4> HIDE DEF Access
      <4> QED BY <3>1
    <3> QED BY <3>2
  <2> QED BY <2>1 DEF Kind
<1>3. /\ Of("read") \cap Of("write") = {}
      /\ (Of("read") \cup Of("write")) \cap Of("insert") = {}
      /\ ((Of("read") \cup Of("write")) \cup Of("insert")) \cap Of("erase") = {}
  <2>1. \A k : \A x \in Of(k) : p[x].kind = k
    OBVIOUS
  <2> HIDE DEF Of
  <2> QED BY <2>1
<1>4. Cardinality(1 .. Len(p)) = Len(p)
  <2>1. PICK n \in Nat : n = Len(p)
    OBVIOUS
  <2> HIDE DEF Of
  <2>2. 1 \in Int /\ n \in Int
    BY <2>1
  <2>3. Cardinality(1 .. n) = IF 1 > n THEN 0 ELSE n - 1 + 1
    BY <2>2, FS_Interval
  <2> QED BY <2>1, <2>3
<1> HIDE DEF Of
<1> DEFINE A == Of("read") \cup Of("write")
           B == A \cup Of("insert")
<1>5. IsFiniteSet(A) /\ Cardinality(A) = Cardinality(Of("read")) + Cardinality(Of("write"))
  BY <1>1, <1>3, CardinalityOfTwo
<1>6. IsFiniteSet(B) /\ Cardinality(B) = Cardinality(A) + Cardinality(Of("insert"))
  BY <1>1, <1>3, <1>5, CardinalityOfTwo
<1>7. Cardinality(1 .. Len(p)) = Cardinality(B) + Cardinality(Of("erase"))
  BY <1>1, <1>2, <1>3, <1>6, CardinalityOfTwo
<1> HIDE DEF A, B
<1> QED BY <1>1, <1>4, <1>5, <1>6, <1>7

-----------------------------------------------------------------------------
(* run.                                                                    *)

(* The arguments of a run.                                                 *)
LEMMA ArgumentFacts ==
  ASSUME NEW a \in Range(Arguments)
  PROVE  /\ a.pattern \in Pattern /\ Len(a.pattern) \in Nat /\ Len(a.pattern) > 0
         /\ a.clients \in Nat /\ a.clients \in 1 .. Len(Workers)
         /\ a.attempts \in Nat /\ a.attempts > 0
<1> DEFINE Argument == [pattern : Pattern, clients : 1 .. Len(Workers), attempts : Nat \ {0}]
<1>1. Range(Arguments) \subseteq Argument
  <2>1. Arguments \in Seq(Argument)
    BY ArgumentAssumption
  <2> HIDE DEF Argument
  <2> QED BY <2>1 DEF Range
<1>2. a.pattern \in Pattern /\ a.pattern # <<>>
  BY <1>1, ArgumentAssumption
<1>3. Len(a.pattern) \in Nat /\ Len(a.pattern) > 0
  BY <1>2 DEF Pattern
<1> QED BY <1>1, <1>2, <1>3

(* The threads of a round.                                                 *)
LEMMA WorkerFacts ==
  /\ Len(Workers) \in Nat
  /\ \A i \in 1 .. Len(Workers) : Workers[i] \in Worker
  /\ \A i, j \in 1 .. Len(Workers) : Workers[i] = Workers[j] => i = j
  /\ \A w \in Worker : \E i \in 1 .. Len(Workers) : w = Workers[i]
  /\ Worker \subseteq Thread /\ Main \in Thread /\ Main \notin Worker
BY WorkersAssumption DEF Worker, Range, IsInjective

(* The record of run.                                                      *)
LEMMA BenchFields ==
  ASSUME BenchOK
  PROVE  /\ bench.at \in {"off", "idle", "load", "loading", "open", "opening", "join", "push"}
         /\ bench.attempt \in Nat /\ bench.started \in Nat
         /\ Measuring <=> bench.at \in {"load", "loading", "open", "opening", "join", "push"}
         /\ Off <=> bench.at = "off"
BY DEF BenchOK, Measuring, Off

(* The rows so far agree with what later runs have not touched.            *)
LEMMA SameRows ==
  ASSUME RowsOK, UNCHANGED <<rows, reported>>,
         Len(did') - (IF Measuring' THEN 1 ELSE 0) = Len(did) - (IF Measuring THEN 1 ELSE 0),
         \A k \in 1 .. Len(reported \o rows) : did'[k] = did[k]
  PROVE  RowsOK'
BY DEF RowsOK, RowsExact

(* A run begins with a pointer of its own, and nothing added.              *)
LEMMA RunKeeps ==
  ASSUME PInv, Run
  PROVE  PInv'
<1>0. /\ bench.at = "idle" /\ At(Main, "idle") /\ Alive /\ ~Off /\ ~Measuring
      /\ did \in Seq([time : Nat, data : Nat, kinds : [Kind -> Nat]]) /\ Len(did) \in Nat
      /\ UNCHANGED <<clients, lookaside, mode, closed, clientLock, fileLock, thread, left, worker, rows, i_count, reported>>
      /\ handle' = handle \cup {Main} /\ runtime' = 0 /\ data' = 0
      /\ did' = Append(did, Nothing)
  BY DEF Run, InRun, Off, Measuring, PInv, TotalsOK
<1> DEFINE a == Arguments[Len(did) + 1]
<1>1. /\ a \in Range(Arguments)
      /\ bench' = [at |-> "load", args |-> a, attempt |-> 0, started |-> 0]
      /\ bench'.at = "load" /\ Args' = a /\ bench'.attempt = 0 /\ bench'.started = 0
      /\ Measuring' /\ ~Off'
  <2>1. a \in Range(Arguments)
    <3>1. Len(did) + 1 \in 1 .. Len(Arguments)
      BY <1>0 DEF Run
    <3> QED BY <3>1, ArgumentAssumption DEF Range
  <2>2. bench' = [at |-> "load", args |-> a, attempt |-> 0, started |-> 0]
    BY DEF Run, NoRun
  <2> QED BY <2>1, <2>2 DEF Args, Measuring, Off
<1> HIDE DEF a
<1>2. /\ Len(did') = Len(did) + 1 /\ did'[Len(did')] = Nothing
      /\ \A k \in 1 .. Len(did) : did'[k] = did[k]
      /\ did' \in Seq([time : Nat, data : Nat, kinds : [Kind -> Nat]])
      /\ Nothing.time = 0 /\ Nothing.data = 0 /\ \A k \in Kind : Nothing.kinds[k] = 0
  <2>1. Nothing \in [time : Nat, data : Nat, kinds : [Kind -> Nat]]
    BY DEF Nothing
  <2>2. Nothing.time = 0 /\ Nothing.data = 0 /\ \A k \in Kind : Nothing.kinds[k] = 0
    BY DEF Nothing
  <2> HIDE DEF Nothing
  <2> QED BY <1>0, <2>1, <2>2
<1>3. LInv'
  <2>1. Made' = Made /\ Alive' /\ \A t \in Thread : ~Ending(t)
    BY <1>0 DEF Made, Alive, Owners, PInv, LInv, LifetimeOK
  <2> QED BY <1>0, <2>1, WorkerFacts DEF PInv, LInv, SharedOK, ThreadsOK, OwnersOK, LifetimeOK, CheckedOK,
             PlacesOK, ContractOK, At, On, Ending, Between, InCall
<1>4. BenchOK'
  <2>1. i_count' = Len(did') - 1 /\ Len(did') <= Len(Arguments) /\ did' # <<>>
    BY <1>0, <1>2 DEF PInv, BenchOK, Run
  <2> QED BY <1>1, <2>1, ArgumentFacts DEF BenchOK
<1>5. TotalsOK'
  BY <1>0, <1>2 DEF TotalsOK
<1>6. \A i \in 1 .. Len(Workers) : worker[Workers[i]].at \in {"none", "done"}
  BY <1>0 DEF PInv, WorkersOK
<1>7. \A w \in Worker : worker[w].at \in {"none", "done"}
  BY <1>6, WorkerFacts
<1>8. WorkersOK'
  BY <1>0, <1>1, <1>6, <1>7 DEF PInv, WorkersOK
<1>9. QuietOK'
  BY <1>0, <1>1 DEF PInv, QuietOK, At, On, Ending
<1>10. OwnOK'
  BY <1>0, <1>1, <1>7 DEF PInv, OwnOK, Given, Made
<1>11. SumsOK'
  <2>1. IsSum(PendingData', Len(Workers), 0) /\ IsSum(PendingTime', Len(Workers), 0)
    BY <1>0, <1>6, WorkerFacts, SumOfZeros DEF PendingData, PendingTime
  <2>2. \A k \in Kind : IsSum(PendingCalls(k)', Len(Workers), 0)
    BY <1>0, <1>6, WorkerFacts, SumOfZeros DEF PendingCalls
  <2>3. Begun' = 0
    BY <1>1, ArgumentFacts DEF Begun
  <2>4. \A k \in Kind : Number(Args.pattern, k, 0)' \in Nat
    BY <1>1, ArgumentFacts, NumberType
  <2> QED BY <1>0, <1>2, <2>1, <2>2, <2>3, <2>4 DEF SumsOK
<1>12. RowsOK'
  <2>1. Len(reported \o rows) = Len(did)
    BY <1>0 DEF PInv, RowsOK, RowsExact
  <2> QED BY <1>0, <1>1, <1>2, <2>1, SameRows DEF PInv
<1>13. left' \in 0 .. MaxCalls
  BY <1>0 DEF PInv
<1> QED BY <1>3, <1>4, <1>5, <1>8, <1>9, <1>10, <1>11, <1>12, <1>13 DEF PInv

(* A step that the File and its callers do not notice.                     *)
LEMMA SameCalls ==
  ASSUME PInv, UNCHANGED vars
  PROVE  /\ LInv' /\ left' \in 0 .. MaxCalls /\ Made' = Made
         /\ \A t \in Thread : Ending(t)' <=> Ending(t)
BY StutterKeeps DEF PInv, vars, shared, Made, Ending

(* Between rounds no worker is in a call.                                  *)
LEMMA WorkersRest ==
  ASSUME PInv, bench.at \in {"idle", "load", "loading", "push"}
  PROVE  /\ \A i \in 1 .. Len(Workers) : worker[Workers[i]].at \in {"none", "done"}
         /\ \A w \in Worker : worker[w].at \in {"none", "done"} /\ At(w, "idle")
         /\ closed = Made
<1>1. \A i \in 1 .. Len(Workers) : worker[Workers[i]].at \in {"none", "done"}
  BY DEF PInv, WorkersOK
<1>2. \A w \in Worker : worker[w].at \in {"none", "done"} /\ At(w, "idle")
  BY <1>1, WorkerFacts DEF PInv, QuietOK, Off
<1>3. Made \subseteq closed
  BY <1>2 DEF PInv, OwnOK, Given, Off
<1> QED BY <1>1, <1>2, <1>3 DEF PInv, LInv, SharedOK

(* A round starts with fresh workers.                                      *)
LEMMA LoadKeeps ==
  ASSUME PInv, Load
  PROVE  PInv'
<1>1. /\ bench.at = "load" /\ At(Main, "idle") /\ worker' = [w \in Worker |-> NotRun]
      /\ UNCHANGED <<vars, runtime, data, rows, i_count, reported, did>>
      /\ bench' = [bench EXCEPT !.at = "loading"]
  BY DEF Load, InRun, RunGoes
<1>2. /\ bench'.at = "loading" /\ Args' = Args /\ bench'.attempt = bench.attempt
      /\ bench'.started = bench.started /\ Measuring /\ Measuring' /\ ~Off /\ ~Off'
  BY <1>1 DEF PInv, BenchOK, Args, Measuring, Off
<1>3. LInv' /\ left' \in 0 .. MaxCalls /\ Made' = Made /\ \A t \in Thread : Ending(t)' <=> Ending(t)
  BY <1>1, SameCalls
<1>4. \A w \in Worker : worker[w].at \in {"none", "done"} /\ At(w, "idle")
  BY <1>1, WorkersRest
<1>5. NotRun.at = "none" /\ \A w \in Worker : worker'[w] = NotRun
  BY <1>1 DEF NotRun
<1>6. BenchOK' /\ TotalsOK'
  BY <1>1, <1>2 DEF PInv, BenchOK, TotalsOK, Args
<1>7. WorkersOK'
  BY <1>1, <1>2, <1>5, WorkerFacts DEF WorkersOK, NotRun
<1>8. QuietOK'
  BY <1>1, <1>2, <1>3, <1>4 DEF PInv, QuietOK, At, On, vars, shared
<1>9. OwnOK'
  BY <1>1, <1>2, <1>3, <1>4, <1>5 DEF PInv, OwnOK, Given, At, On, vars, shared
<1>10. SumsOK'
  <2>1. \A i \in 1 .. Len(Workers) : worker[Workers[i]].at \in {"none", "done"} /\ worker'[Workers[i]].at = "none"
    BY <1>1, <1>5, WorkersRest, WorkerFacts
  <2>2. /\ \A i \in 1 .. Len(Workers) : PendingData[i] = 0 /\ PendingData'[i] = 0
        /\ \A i \in 1 .. Len(Workers) : PendingTime[i] = 0 /\ PendingTime'[i] = 0
    BY <2>1 DEF PendingData, PendingTime
  <2>3. \A k \in Kind : \A i \in 1 .. Len(Workers) : PendingCalls(k)[i] = 0 /\ PendingCalls(k)'[i] = 0
    BY <2>1 DEF PendingCalls
  <2>4. Begun' = Begun
    BY <1>1, <1>2 DEF Begun
  <2> QED BY <1>1, <1>2, <2>2, <2>3, <2>4, WorkerFacts, SumSame DEF PInv, SumsOK
<1>11. RowsOK'
  BY <1>1, <1>2, SameRows DEF PInv
<1> QED BY <1>3, <1>6, <1>7, <1>8, <1>9, <1>10, <1>11 DEF PInv

(* When the pages are loaded again, no worker of the next round has begun. *)
LEMMA LoadedKeeps ==
  ASSUME PInv, Loaded
  PROVE  PInv'
<1>1. /\ bench.at = "loading" /\ At(Main, "idle")
      /\ UNCHANGED <<vars, worker, runtime, data, rows, i_count, reported, did>>
      /\ bench' = [bench EXCEPT !.at = "open", !.started = 0]
  BY DEF Loaded, InRun
<1>2. /\ bench' \in [at : {"open"}, args : {Args}, attempt : {bench.attempt}, started : {0}]
      /\ bench'.at = "open" /\ Args' = Args /\ bench'.attempt = bench.attempt
      /\ bench'.started = 0 /\ Measuring /\ Measuring' /\ ~Off /\ ~Off'
      /\ Args \in Range(Arguments) /\ bench.attempt \in Nat
  BY <1>1 DEF PInv, BenchOK, Args, Measuring, Off
<1>3. LInv' /\ left' \in 0 .. MaxCalls /\ Made' = Made /\ \A t \in Thread : Ending(t)' <=> Ending(t)
  BY <1>1, SameCalls
<1>4. BenchOK' /\ TotalsOK'
  <2>1. TotalsOK'
    BY <1>1 DEF PInv, TotalsOK
  <2>2. /\ bench.args = Args /\ Args.clients \in Nat /\ Args.clients > 0
        /\ bench.attempt <= Args.attempts /\ bench.attempt # Args.attempts
        /\ did # <<>> /\ Len(did) <= Len(Arguments) /\ i_count = Len(did) - 1
    BY <1>1, <1>2, ArgumentFacts DEF PInv, BenchOK, Args
  <2>3. UNCHANGED <<did, i_count>>
    BY <1>1
  <2> QED BY <1>2, <2>1, <2>2, <2>3 DEF BenchOK, Args
<1>5. WorkersOK'
  <2>1. \A i \in 1 .. Len(Workers) : worker[Workers[i]].at = "none" /\ i > 0
    BY <1>1, WorkerFacts DEF PInv, WorkersOK
  <2>2. \A w \in Worker : worker[w].at = "none"
    BY <2>1, WorkerFacts
  <2> QED BY <1>1, <1>2, <2>1, <2>2 DEF PInv, WorkersOK
<1>6. QuietOK'
  BY <1>1, <1>2, <1>3 DEF PInv, QuietOK, At, On, vars, shared
<1>7. OwnOK'
  BY <1>1, <1>2, <1>3 DEF PInv, OwnOK, Given, At, On, vars, shared
<1>8. SumsOK'
  <2>1. PendingData' = PendingData /\ PendingTime' = PendingTime
    BY <1>1 DEF PendingData, PendingTime
  <2>2. \A k \in Kind : PendingCalls(k)' = PendingCalls(k)
    BY <1>1, <1>2 DEF PendingCalls, Done
  <2>3. Begun' = Begun
    BY <1>1, <1>2, ArgumentFacts DEF Begun
  <2> QED BY <1>1, <1>2, <2>1, <2>2, <2>3 DEF PInv, SumsOK
<1>9. RowsOK'
  BY <1>1, <1>2, SameRows DEF PInv
<1> QED BY <1>3, <1>4, <1>5, <1>6, <1>7, <1>8, <1>9 DEF PInv

(* run has the File make a client.                                         *)
LEMMA OpenKeeps ==
  ASSUME PInv, Open
  PROVE  PInv'
<1>1. /\ bench.at = "open" /\ At(Main, "idle") /\ FileCall(Main, "new")
      /\ UNCHANGED <<shared, left, worker, runtime, data, rows, i_count, reported, did>>
      /\ bench' = [bench EXCEPT !.at = "opening"]
  BY DEF Open, InRun, RunGoes, FileCall
<1>2. /\ bench'.at = "opening" /\ Args' = Args /\ bench'.attempt = bench.attempt
      /\ bench'.started = bench.started /\ Measuring /\ Measuring' /\ ~Off /\ ~Off'
  BY <1>1 DEF PInv, BenchOK, Args, Measuring, Off
<1>3. LInv' /\ left' \in 0 .. MaxCalls /\ Made' = Made
  BY <1>1, WorkerFacts, FileCallKeeps DEF PInv, shared, Made
<1>4. /\ thread'[Main].pc = "enter" /\ thread'[Main].op = "new" /\ ~thread'[Main].pinned
      /\ thread'[Main].on = NoClient /\ \A u \in Thread \ {Main} : thread'[u] = thread[u]
  BY <1>1, WorkerFacts, ThreadFields DEF PInv, LInv, SharedOK, ThreadsOK, Place, FileCall, At
<1>5. BenchOK' /\ TotalsOK'
  BY <1>1, <1>2 DEF PInv, BenchOK, TotalsOK, Args
<1>6. WorkersOK'
  BY <1>1, <1>2 DEF PInv, WorkersOK, Done
<1>7. QuietOK'
  BY <1>1, <1>2, <1>4, WorkerFacts DEF PInv, QuietOK, At, On, Ending, shared
<1>8. OwnOK'
  BY <1>1, <1>2, <1>3, <1>4, WorkerFacts DEF PInv, OwnOK, Given, At, On, shared
<1>9. SumsOK'
  <2>1. PendingData' = PendingData /\ PendingTime' = PendingTime
    BY <1>1 DEF PendingData, PendingTime
  <2>2. \A k \in Kind : PendingCalls(k)' = PendingCalls(k)
    BY <1>1, <1>2 DEF PendingCalls, Done
  <2>3. Begun' = Begun
    BY <1>1, <1>2 DEF Begun
  <2> QED BY <1>1, <1>2, <2>1, <2>2, <2>3 DEF PInv, SumsOK
<1>10. RowsOK'
  BY <1>1, <1>2, SameRows DEF PInv
<1> QED BY <1>3, <1>5, <1>6, <1>7, <1>8, <1>9, <1>10 DEF PInv

(* The script of a pattern.                                                *)
LEMMA ScriptFacts ==
  ASSUME NEW p \in Pattern, Len(p) \in Nat
  PROVE  /\ Script(p) \in Seq([op : Kind \cup {"seek", "close"}, size : Nat])
         /\ Len(Script(p)) = 2 * Len(p) + 1
         /\ \A i \in 1 .. 2 * Len(p) + 1 :
              /\ i = 2 * Len(p) + 1 <=> Script(p)[i].op = "close"
              /\ Script(p)[i].op \in Kind <=> \E j \in 1 .. Len(p) : i = 2 * j
         /\ \A j \in 1 .. Len(p) : Script(p)[2 * j] = [op |-> p[j].kind, size |-> p[j].size]
<1> DEFINE N == 2 * Len(p) + 1
           Order == [op : Kind \cup {"seek", "close"}, size : Nat]
<1>1. ASSUME NEW j \in 1 .. Len(p) PROVE p[j].kind \in Kind /\ p[j].size \in Nat
  <2> DEFINE Access == [kind : Kind, size : Nat]
  <2>1. p \in Seq(Access)
    BY DEF Pattern
  <2>2. p[j] \in Access
    <3> HIDE DEF Access
    <3> QED BY <2>1
  <2> QED BY <2>2
<1>2. Script(p)[N] = [op |-> "close", size |-> 0]
  BY DEF Script
<1>3. ASSUME NEW i \in 1 .. N, i # N, i % 2 = 1
      PROVE  Script(p)[i] = [op |-> "seek", size |-> 0]
  BY <1>3 DEF Script
<1>4. ASSUME NEW j \in 1 .. Len(p)
      PROVE  Script(p)[2 * j] = [op |-> p[j].kind, size |-> p[j].size]
  <2>1. 2 * j \in 1 .. N /\ 2 * j # N /\ (2 * j) % 2 # 1 /\ (2 * j) \div 2 = j
    OBVIOUS
  <2> QED BY <2>1 DEF Script
<1>5. "seek" \notin Kind /\ "close" \notin Kind /\ "seek" # "close"
  BY DEF Kind
<1>6. ASSUME NEW i \in 1 .. N
      PROVE  /\ Script(p)[i] \in Order
             /\ i = N <=> Script(p)[i].op = "close"
             /\ Script(p)[i].op \in Kind <=> \E j \in 1 .. Len(p) : i = 2 * j
  <2>1. CASE i = N
    <3>1. \A j \in 1 .. Len(p) : i # 2 * j
      BY <2>1
    <3> QED BY <1>2, <1>5, <2>1, <3>1
  <2>2. CASE i # N /\ i % 2 = 1
    <3>1. \A j \in 1 .. Len(p) : i # 2 * j
      BY <2>2
    <3> QED BY <1>3, <1>5, <2>2, <3>1
  <2>3. CASE i # N /\ i % 2 # 1
    <3>1. i \div 2 \in 1 .. Len(p) /\ i = 2 * (i \div 2)
      BY <2>3
    <3> DEFINE j == i \div 2
    <3>2. j \in 1 .. Len(p) /\ i = 2 * j
      BY <3>1
    <3> HIDE DEF j
    <3>3. Script(p)[i] = [op |-> p[j].kind, size |-> p[j].size] /\ p[j].kind \in Kind /\ p[j].size \in Nat
      BY <1>1, <1>4, <3>2
    <3> QED BY <1>5, <2>3, <3>2, <3>3
  <2> QED BY <2>1, <2>2, <2>3
<1>7. Script(p) = [i \in 1 .. N |-> Script(p)[i]] /\ N \in Nat
  BY DEF Script
<1>8. Script(p) \in Seq(Order) /\ Len(Script(p)) = N
  <2> HIDE DEF Order, N
  <2> QED BY <1>6, <1>7
<1> QED BY <1>4, <1>6, <1>8

(* The locals of a thread that is started.                                 *)
LEMMA FreshWorker ==
  ASSUME NEW s, NEW c, NEW r, r = [NotRun EXCEPT !.at = "calls", !.script = s, !.client = c]
  PROVE  r = [at |-> "calls", script |-> s, client |-> c, data |-> 0, time |-> 0, expected |-> 0]
<1>1. r = [at |-> r.at, script |-> r.script, client |-> r.client,
           data |-> r.data, time |-> r.time, expected |-> r.expected]
  BY DEF NotRun
<1>2. r.at = "calls" /\ r.script = s /\ r.client = c /\ r.data = 0 /\ r.time = 0 /\ r.expected = 0
  BY DEF NotRun
<1> QED BY <1>1, <1>2

(* Spawn starts the next thread of a round, with the client that File::open*)
(* made: its calls are added to those begun, and to those pending.         *)
LEMMA SpawnKeeps ==
  ASSUME PInv, Spawn
  PROVE  PInv'
<1>a. PICK i : i = bench.started + 1
  OBVIOUS
<1>b. PICK w : w = Workers[i]
  OBVIOUS
<1> DEFINE S == Script(Args.pattern)
           new == [at |-> "calls", script |-> S, client |-> On(Main), data |-> 0, time |-> 0, expected |-> 0]
<1>1. /\ bench.at = "opening" /\ At(Main, "idle") /\ Given /\ Measuring /\ ~Off
      /\ UNCHANGED <<vars, runtime, data, rows, i_count, reported, did>>
      /\ worker' = [worker EXCEPT ![w] = new]
      /\ bench' = [bench EXCEPT !.at = IF i = bench.args.clients THEN "join" ELSE "open", !.started = i]
  <2>1. [NotRun EXCEPT !.at = "calls", !.script = S, !.client = On(Main)] = new
    <3> HIDE DEF S
    <3> QED BY FreshWorker
  <2> HIDE DEF new
  <2> QED BY <1>a, <1>b, <2>1 DEF Spawn, InRun, Given, Measuring, Off, Args
<1>2. /\ bench.started \in Nat /\ bench.started < Args.clients /\ Args \in Range(Arguments)
      /\ bench.attempt \in Nat
  BY <1>1 DEF PInv, BenchOK
<1>3. /\ i \in Nat /\ i > 0 /\ i <= Args.clients /\ i \in 1 .. Len(Workers) /\ w \in Worker
      /\ i = bench.started + 1 /\ Len(Args.pattern) \in Nat /\ Args.pattern \in Pattern
      /\ Args.clients \in Nat
  BY <1>a, <1>b, <1>2, ArgumentFacts, WorkerFacts
<1>4. /\ bench'.at = (IF i = Args.clients THEN "join" ELSE "open")
      /\ bench' = [at |-> bench'.at, args |-> Args, attempt |-> bench.attempt, started |-> i]
      /\ Args' = Args /\ bench'.attempt = bench.attempt
      /\ bench'.started = i /\ Measuring' /\ ~Off' /\ ~Given'
  BY <1>1 DEF PInv, BenchOK, Args, Measuring, Off, Given
<1>5. LInv' /\ left' \in 0 .. MaxCalls /\ Made' = Made /\ \A t \in Thread : Ending(t)' <=> Ending(t)
  BY <1>1, SameCalls
<1>6. worker[w].at = "none" /\ At(w, "idle")
  BY <1>b, <1>1, <1>2, <1>3 DEF PInv, WorkersOK, QuietOK
<1>7. /\ S \in Seq([op : Kind \cup {"seek", "close"}, size : Nat]) /\ Len(S) = 2 * Len(Args.pattern) + 1
      /\ Len(S) \in Nat /\ S # <<>>
  <2> DEFINE Order == [op : Kind \cup {"seek", "close"}, size : Nat]
  <2>1. S \in Seq(Order) /\ Len(S) = 2 * Len(Args.pattern) + 1
    BY <1>3, ScriptFacts
  <2> HIDE DEF S, Order
  <2>2. Len(S) \in Nat /\ Len(S) # 0
    BY <1>3, <2>1
  <2> QED BY <2>1, <2>2 DEF Order
<1>8. /\ On(Main) \in Made /\ On(Main) \in Client /\ On(Main) \notin closed
      /\ \A u \in Worker : worker[u].at = "calls" => worker[u].client # On(Main)
  BY <1>1, MadeClients, WorkerFacts DEF PInv, LInv, QuietOK, OwnOK, At
<1>9. /\ worker'[w] = new /\ \A u \in Worker \ {w} : worker'[u] = worker[u]
      /\ new.at = "calls" /\ new.script = S /\ new.client = On(Main) /\ new.data = 0
      /\ new \in [at : {"none", "calls", "expect", "swap", "done"},
                  script : Seq([op : Kind \cup {"seek", "close"}, size : Nat]),
                  client : Client \cup {NoClient}, data : Nat, time : Nat, expected : Nat]
  BY <1>1, <1>3, <1>7, <1>8 DEF PInv, WorkersOK
<1>10. \A j \in 1 .. Len(Workers) : j # i => Workers[j] \in Worker \ {w}
  BY <1>b, <1>3, WorkerFacts
<1> HIDE DEF S, new
<1>11. BenchOK'
  BY <1>1, <1>2, <1>3, <1>4 DEF PInv, BenchOK, Args
<1>12. TotalsOK'
  BY <1>1 DEF PInv, TotalsOK
<1>13. Done(w)' = 0 /\ \A u \in Worker \ {w} : Done(u)' = Done(u)
  <2>1. \A u : Done(u)' = 2 * Len(Args.pattern) + 1 - Len(worker'[u].script)
    BY <1>4 DEF Done
  <2>2. Len(worker'[w].script) = 2 * Len(Args.pattern) + 1 /\ Len(Args.pattern) \in Nat
    BY <1>3, <1>7, <1>9
  <2>3. Done(w)' = 0
    <3>1. Done(w)' = 2 * Len(Args.pattern) + 1 - Len(worker'[w].script)
      BY <2>1
    <3> QED BY <2>2, <3>1
  <2>4. \A u \in Worker \ {w} : Done(u)' = Done(u)
    BY <1>9, <2>1 DEF Done
  <2> QED BY <2>3, <2>4
<1>14. WorkersOK'
  <2>1. worker' \in [Worker -> [at : {"none", "calls", "expect", "swap", "done"},
                            script : Seq([op : Kind \cup {"seek", "close"}, size : Nat]),
                            client : Client \cup {NoClient}, data : Nat, time : Nat, expected : Nat]]
    BY <1>1, <1>3, <1>9 DEF PInv, WorkersOK
  <2>2. ASSUME NEW j \in 1 .. Len(Workers)
        PROVE  worker'[Workers[j]].at = "none" <=> j > bench'.started
    <3>1. CASE j = i
      BY <1>b, <1>3, <1>4, <1>9, <3>1
    <3>2. CASE j # i
      <4>1. worker'[Workers[j]] = worker[Workers[j]]
        BY <1>9, <1>10, <3>2
      <4>2. worker[Workers[j]].at = "none" <=> j > bench.started
        BY <1>1 DEF PInv, WorkersOK
      <4> QED BY <1>2, <1>3, <1>4, <3>2, <4>1, <4>2
    <3> QED BY <3>1, <3>2
  <2>4. ASSUME NEW u \in Worker, worker'[u].at = "calls"
        PROVE  /\ Done(u)' >= 0
               /\ \A j \in 1 .. Len(worker'[u].script) : worker'[u].script[j] = S[Done(u)' + j]
    <3>1. CASE u = w
      <4>1. worker'[u].script = S /\ Done(u)' = 0 /\ Len(S) \in Nat
        BY <1>7, <1>9, <1>13, <3>1
      <4> QED BY <4>1
    <3>2. CASE u # w
      <4>1. worker'[u] = worker[u] /\ Done(u)' = Done(u)
        BY <1>9, <1>13, <3>2
      <4> QED BY <2>4, <4>1 DEF PInv, WorkersOK, S
    <3> QED BY <3>1, <3>2
  <2> QED BY <1>4, <2>1, <2>2, <2>4 DEF WorkersOK, S
<1>15. QuietOK'
  BY <1>1, <1>4, <1>5, <1>6, <1>9, WorkerFacts DEF PInv, QuietOK, At, On, vars, shared
<1>16. OwnOK'
  <2>1. closed' = closed /\ thread' = thread /\ Made' = Made /\ ~Given' /\ ~Off /\ Given
    BY <1>1, <1>4, <1>5 DEF vars, shared, Given, Off
  <2>2. /\ worker[w].at = "none" /\ thread[w].pc = "idle"
        /\ worker'[w].at = "calls" /\ worker'[w].script # <<>> /\ worker'[w].client = On(Main)
        /\ \A u \in Worker \ {w} : worker'[u] = worker[u]
    BY <1>6, <1>7, <1>9 DEF At
  <2>3. OwnOK
    BY DEF PInv
  <2> QED BY <1>3, <1>8, <2>1, <2>2, <2>3 DEF OwnOK, At, On
<1>17. SumsOK'
  <2>1. PendingData' = PendingData /\ PendingTime' = PendingTime
    <3>1. /\ worker[w].at = "none" /\ worker'[w].at = "calls" /\ worker'[w].data = 0
          /\ \A j \in 1 .. Len(Workers) : j # i => worker'[Workers[j]] = worker[Workers[j]]
      BY <1>6, <1>9, <1>10
    <3> QED BY <1>b, <3>1 DEF PendingData, PendingTime
  <2>2. ASSUME NEW k \in Kind
        PROVE  IsSum(PendingCalls(k)', Len(Workers),
                     Begun' * Number(Args.pattern, k, 0) - did[Len(did)].kinds[k])
    <3> DEFINE N == Number(Args.pattern, k, 0)
               f == PendingCalls(k)
               g == PendingCalls(k)'
               total == Begun * N - did[Len(did)].kinds[k]
    <3>1. N \in Nat /\ did[Len(did)].kinds[k] \in Nat
      <4>1. did # <<>> /\ did \in Seq([time : Nat, data : Nat, kinds : [Kind -> Nat]])
        BY <1>1 DEF PInv, BenchOK, TotalsOK
      <4> DEFINE D == [time : Nat, data : Nat, kinds : [Kind -> Nat]]
      <4>2. did # <<>> /\ did \in Seq(D)
        BY <4>1
      <4>3. did[Len(did)] \in D
        <5> HIDE DEF D
        <5> QED BY <4>2
      <4> QED BY <1>3, <4>3, NumberNat
    <3>2. \A j \in 1 .. Len(Workers) : f[j] \in Int
      <4>1. \A n : Number(Args.pattern, k, n) \in Int
        BY <1>3, NumberNat
      <4> QED BY <4>1 DEF PendingCalls
    <3>3. f[i] = 0 /\ g[i] = N /\ g[i] = f[i] + N
      <4>1. f[i] = 0
        BY <1>b, <1>3, <1>6 DEF PendingCalls
      <4>2. g[i] = Number(Args.pattern, k, Done(w)')
        BY <1>b, <1>3, <1>4, <1>9 DEF PendingCalls
      <4> QED BY <3>1, <4>1, <4>2, <1>13
    <3>4. \A j \in (1 .. Len(Workers)) \ {i} : g[j] = f[j]
      <4>1. \A j \in (1 .. Len(Workers)) \ {i} :
              worker'[Workers[j]] = worker[Workers[j]] /\ Done(Workers[j])' = Done(Workers[j])
        BY <1>9, <1>10, <1>13
      <4> QED BY <1>4, <4>1 DEF PendingCalls
    <3>5. Begun' = Begun + 1 /\ Begun \in Nat
      BY <1>1, <1>2, <1>3, <1>4 DEF Begun
    <3>6. IsSum(f, Len(Workers), total)
      BY <1>1 DEF PInv, SumsOK
    <3>7. IsSum(g, Len(Workers), total + N)
      <4>1. Len(Workers) \in Nat /\ i \in 1 .. Len(Workers) /\ N \in Int
        BY <1>3, <3>1, WorkerFacts
      <4> HIDE DEF f, g, total, N
      <4> QED BY <4>1, <3>2, <3>3, <3>4, <3>6, SumChange
    <3>8. total + N = Begun' * N - did[Len(did)].kinds[k]
      BY <3>1, <3>5
    <3> QED BY <3>7, <3>8
  <2> QED BY <1>1, <1>4, <2>1, <2>2 DEF PInv, SumsOK
<1>18. RowsOK'
  BY <1>1, <1>4, SameRows DEF PInv
<1> QED BY <1>5, <1>11, <1>12, <1>14, <1>15, <1>16, <1>17, <1>18 DEF PInv

(* A round ends when its threads have: none of its clients is open.        *)
LEMMA JoinKeeps ==
  ASSUME PInv, Join
  PROVE  PInv'
<1>1. /\ bench.at = "join" /\ At(Main, "idle") /\ Joined
      /\ UNCHANGED <<vars, worker, runtime, data, rows, i_count, reported, did>>
      /\ bench' = [bench EXCEPT !.at = IF LastAttempt THEN "push" ELSE "load", !.attempt = @ + 1]
  BY DEF Join, InRun
<1>2. /\ bench.attempt \in Nat /\ bench.started = Args.clients /\ Args \in Range(Arguments)
      /\ bench.attempt < Args.attempts /\ Measuring /\ ~Off
      /\ Args.clients \in Nat /\ Args.attempts \in Nat
  <2>1. Args \in Range(Arguments) /\ Measuring /\ ~Off
    BY <1>1 DEF PInv, BenchOK, Measuring, Off
  <2> QED BY <1>1, <2>1, ArgumentFacts DEF PInv, BenchOK
<1>3. /\ bench' = [at |-> bench'.at, args |-> Args, attempt |-> bench.attempt + 1, started |-> bench.started]
      /\ bench'.at = (IF bench.attempt + 1 = Args.attempts THEN "push" ELSE "load")
      /\ Args' = Args /\ bench'.attempt = bench.attempt + 1
      /\ bench'.started = bench.started /\ Measuring' /\ ~Off' /\ ~Given'
  BY <1>1 DEF PInv, BenchOK, Args, Measuring, Off, LastAttempt, Given
<1>4. LInv' /\ left' \in 0 .. MaxCalls /\ Made' = Made /\ \A t \in Thread : Ending(t)' <=> Ending(t)
  BY <1>1, SameCalls
<1>5. /\ \A i \in 1 .. Len(Workers) : worker[Workers[i]].at \in {"none", "done"}
      /\ \A w \in Worker : worker[w].at \in {"none", "done"}
  <2>1. ASSUME NEW i \in 1 .. Len(Workers) PROVE worker[Workers[i]].at \in {"none", "done"}
    <3>1. worker[Workers[i]].at = "none" <=> i > bench.started
      BY <1>1 DEF PInv, WorkersOK
    <3>2. i <= Args.clients => worker[Workers[i]].at = "done"
      BY <1>1, <1>2 DEF Joined, Args
    <3> QED BY <1>2, <3>1, <3>2, WorkerFacts
  <2> QED BY <2>1, WorkerFacts
<1>6. BenchOK' /\ TotalsOK'
  <2>1. TotalsOK'
    BY <1>1 DEF PInv, TotalsOK
  <2>2. /\ bench.args = Args /\ Args \in Range(Arguments) /\ bench.started <= Args.clients /\ bench.attempt \in Nat
        /\ did # <<>> /\ Len(did) <= Len(Arguments) /\ i_count = Len(did) - 1 /\ bench.started \in Nat
    BY <1>1, <1>2 DEF PInv, BenchOK, Args
  <2>3. UNCHANGED <<did, i_count>>
    BY <1>1
  <2> QED BY <1>2, <1>3, <2>1, <2>2, <2>3 DEF BenchOK, Args
<1>7. WorkersOK'
  <2>1. UNCHANGED worker /\ bench'.at \in {"load", "push"}
    BY <1>1, <1>3
  <2> QED BY <1>5, <2>1, WorkerFacts DEF PInv, WorkersOK
<1>8. QuietOK'
  BY <1>1, <1>2, <1>3, <1>4 DEF PInv, QuietOK, At, On, vars, shared
<1>9. OwnOK'
  BY <1>1, <1>2, <1>3, <1>4, <1>5 DEF PInv, OwnOK, Given, At, On, vars, shared
<1>10. SumsOK'
  <2>1. PendingData' = PendingData /\ PendingTime' = PendingTime
    BY <1>1 DEF PendingData, PendingTime
  <2>2. \A k \in Kind : PendingCalls(k)' = PendingCalls(k)
    BY <1>1, <1>3 DEF PendingCalls, Done
  <2>3. Begun' = Begun
    BY <1>1, <1>2, <1>3 DEF Begun
  <2> QED BY <1>1, <1>2, <1>3, <2>1, <2>2, <2>3 DEF PInv, SumsOK
<1>11. RowsOK'
  BY <1>1, <1>2, <1>3, SameRows DEF PInv
<1> QED BY <1>4, <1>6, <1>7, <1>8, <1>9, <1>10, <1>11 DEF PInv

(* The calls of a run are those of its kinds.                              *)
LEMMA Multiplied ==
  ASSUME NEW a \in Nat, NEW c \in Nat, NEW l \in Nat, a > 0, c > 0, l > 0,
         NEW p \in Nat, NEW q \in Nat, NEW r \in Nat, NEW s \in Nat, l = p + q + r + s
  PROVE  /\ (l * a) * c > 0
         /\ (l * a) * c = ((p * a) * c) + ((q * a) * c) + ((r * a) * c) + ((s * a) * c)
<1>1. a * c \in Nat /\ a * c > 0
  OBVIOUS
<1>2. /\ (l * a) * c = l * (a * c) /\ (p * a) * c = p * (a * c) /\ (q * a) * c = q * (a * c)
      /\ (r * a) * c = r * (a * c) /\ (s * a) * c = s * (a * c)
  OBVIOUS
<1> DEFINE b == a * c
<1>3. b \in Nat /\ b > 0
  BY <1>1
<1> HIDE DEF b
<1>4. l * b > 0 /\ l * b = p * b + q * b + r * b + s * b
  BY <1>3
<1> QED BY <1>2, <1>4 DEF b

(* What a run pushes: with no worker in between, the totals are what the   *)
(* clients did.                                                            *)
LEMMA PushedRow ==
  ASSUME PInv, bench.at = "push",
         NEW row, row = [index |-> i_count, n |-> InAll(Len(bench.args.pattern)),
                         time |-> runtime, data |-> data, kinds |-> [k \in Kind |-> Calling(k)]]
  PROVE  /\ row \in Row /\ row.index = Len(did) - 1 /\ row.n > 0
         /\ row.time = did[Len(did)].time /\ row.data = did[Len(did)].data /\ row.kinds = did[Len(did)].kinds
         /\ row.n = row.kinds["read"] + row.kinds["write"] + row.kinds["insert"] + row.kinds["erase"]
<1> DEFINE D == [time : Nat, data : Nat, kinds : [Kind -> Nat]]
           now == did[Len(did)]
           p == Args.pattern
           a == Args.attempts
           c == Args.clients
<1>1. /\ did # <<>> /\ did \in Seq(D) /\ runtime \in Nat /\ data \in Nat /\ Measuring
      /\ Args \in Range(Arguments) /\ bench.attempt = a /\ i_count = Len(did) - 1
  BY DEF PInv, BenchOK, TotalsOK, Measuring
<1>2. now \in D /\ i_count \in Nat
  <2>1. now \in D
    <3> HIDE DEF D
    <3> QED BY <1>1
  <2>2. Len(did) \in Nat /\ Len(did) > 0
    <3> HIDE DEF D
    <3> QED BY <1>1
  <2> QED BY <1>1, <2>1, <2>2
<1>3. /\ p \in Pattern /\ Len(p) \in Nat /\ Len(p) > 0 /\ a \in Nat /\ a > 0 /\ c \in Nat /\ c > 0
  <2> HIDE DEF D
  <2>1. Args \in Range(Arguments)
    BY <1>1
  <2> QED BY <2>1, ArgumentFacts
<1>4. now.data \in Nat /\ now.time \in Nat /\ now.kinds \in [Kind -> Nat]
  BY <1>2
<1>5. \A i \in 1 .. Len(Workers) : worker[Workers[i]].at \in {"none", "done"}
  BY WorkersRest
<1>6. /\ IsSum(PendingData, Len(Workers), now.data - data)
      /\ IsSum(PendingTime, Len(Workers), now.time - runtime)
      /\ \A k \in Kind : IsSum(PendingCalls(k), Len(Workers), Begun * Number(p, k, 0) - now.kinds[k])
  BY <1>1 DEF PInv, SumsOK
<1>7. now.data - data = 0 /\ now.time - runtime = 0
  <2>1. \A i \in 1 .. Len(Workers) : PendingData[i] = 0
    BY <1>5 DEF PendingData
  <2>2. \A i \in 1 .. Len(Workers) : PendingTime[i] = 0
    BY <1>5 DEF PendingTime
  <2> QED BY <1>6, <2>1, <2>2, WorkerFacts, SumOfZeros
<1>8. ASSUME NEW k \in Kind PROVE Begun * Number(p, k, 0) - now.kinds[k] = 0
  <2>1. \A i \in 1 .. Len(Workers) : PendingCalls(k)[i] = 0
    BY <1>5 DEF PendingCalls
  <2> DEFINE calls == PendingCalls(k)
             total == Begun * Number(p, k, 0) - now.kinds[k]
  <2>2. IsSum(calls, Len(Workers), total) /\ Len(Workers) \in Nat
    BY <1>6, WorkerFacts
  <2>3. \A i \in 1 .. Len(Workers) : calls[i] = 0
    BY <2>1
  <2> HIDE DEF calls, total
  <2>4. total = 0
    BY <2>2, <2>3, SumOfZeros
  <2> QED BY <2>4 DEF total
<1>9. \A k : Number(p, k, 0) \in Nat
  BY <1>3, NumberNat
<1>10. Begun = a * c
  BY <1>1, <1>3 DEF Begun
<1>11. ASSUME NEW k \in Kind
       PROVE  Calling(k) = (Number(p, k, 0) * a) * c /\ Calling(k) = now.kinds[k] /\ row.kinds[k] = Calling(k)
  <2>1. {i \in DOMAIN p : p[i].kind = k} = {i \in 1 .. Len(p) : 2 * i > 0 /\ p[i].kind = k}
    BY <1>3 DEF Pattern
  <2>2. Calling(k) = (Number(p, k, 0) * a) * c
    BY <2>1 DEF Calling, InAll, Number, Args
  <2>3. now.kinds[k] \in Nat /\ Number(p, k, 0) \in Nat
    BY <1>4, <1>9
  <2> DEFINE N == Number(p, k, 0)
  <2>4. (N * a) * c = (a * c) * N
    <3>1. N \in Nat
      BY <2>3
    <3> HIDE DEF N, a, c
    <3> QED BY <1>3, <3>1
  <2> QED BY <1>8, <1>10, <2>2, <2>3, <2>4
<1>12. row.kinds = now.kinds
  BY <1>4, <1>11
<1>13. row.n = (Len(p) * a) * c
  BY DEF InAll, Args
<1>14. {"read", "write", "insert", "erase"} \subseteq Kind
  BY DEF Kind
<1>15. row.n > 0 /\ row.n = row.kinds["read"] + row.kinds["write"] + row.kinds["insert"] + row.kinds["erase"]
  <2>1. Len(p) = Number(p, "read", 0) + Number(p, "write", 0) + Number(p, "insert", 0) + Number(p, "erase", 0)
    BY <1>3, NumberAll
  <2>2. /\ Number(p, "read", 0) \in Nat /\ Number(p, "write", 0) \in Nat
        /\ Number(p, "insert", 0) \in Nat /\ Number(p, "erase", 0) \in Nat
    BY <1>9
  <2>3. /\ row.kinds["read"] = (Number(p, "read", 0) * a) * c /\ row.kinds["write"] = (Number(p, "write", 0) * a) * c
        /\ row.kinds["insert"] = (Number(p, "insert", 0) * a) * c /\ row.kinds["erase"] = (Number(p, "erase", 0) * a) * c
    BY <1>11, <1>14
  <2> DEFINE l == Len(p)
             x == Number(p, "read", 0)
             y == Number(p, "write", 0)
             z == Number(p, "insert", 0)
             v == Number(p, "erase", 0)
  <2>4. /\ (l * a) * c > 0
        /\ (l * a) * c = ((x * a) * c) + ((y * a) * c) + ((z * a) * c) + ((v * a) * c)
    <3>1. l \in Nat /\ l > 0 /\ x \in Nat /\ y \in Nat /\ z \in Nat /\ v \in Nat /\ l = x + y + z + v
      BY <1>3, <2>1, <2>2
    <3> HIDE DEF l, x, y, z, v, a, c
    <3> QED BY <1>3, <3>1, Multiplied
  <2> HIDE DEF p, a, c
  <2> QED BY <1>13, <2>3, <2>4
<1>16. row.n \in Nat
  BY <1>3, <1>13
<1>17. row.time = now.time /\ row.data = now.data
  <2>1. row.time = runtime /\ row.data = data /\ runtime \in Nat /\ data \in Nat
    BY <1>1 DEF PInv, TotalsOK
  <2> QED BY <1>4, <1>7, <2>1
<1>18. row \in Row
  BY <1>1, <1>2, <1>4, <1>12, <1>16 DEF Row
<1> QED BY <1>1, <1>12, <1>15, <1>17, <1>18

(* The rows and the history of runs are one row longer.                    *)
LEMMA MoreRows ==
  ASSUME RowsOK, NEW row \in Row, UNCHANGED <<reported, did>>, rows' = Append(rows, row),
         Len(reported \o rows) = Len(did) - 1, ~Measuring', Len(did) \in Nat,
         row.index = Len(did) - 1, row.n > 0,
         row.time = did[Len(did)].time, row.data = did[Len(did)].data, row.kinds = did[Len(did)].kinds,
         row.n = row.kinds["read"] + row.kinds["write"] + row.kinds["insert"] + row.kinds["erase"]
  PROVE  RowsOK'
<1> DEFINE all  == reported \o rows
           more == reported \o Append(rows, row)
<1>1. rows \in Seq(Row) /\ reported \in Seq(Row)
  BY DEF RowsOK
<1>2. /\ Append(rows, row) \in Seq(Row) /\ Len(more) = Len(all) + 1 /\ more[Len(all) + 1] = row
      /\ Len(all) \in Nat /\ \A k \in 1 .. Len(all) : more[k] = all[k]
  <2> HIDE DEF Row
  <2> QED BY <1>1
<1>3. /\ rows' \in Seq(Row) /\ reported' \in Seq(Row) /\ (reported \o rows)' = more
      /\ did' = did /\ Len(did) = Len(all) + 1
  BY <1>1, <1>2
<1>4. /\ \A k \in 1 .. Len(all) : all[k].n > 0
      /\ \A k \in 1 .. Len(all) :
           /\ all[k].index = k - 1
           /\ all[k].time = did[k].time /\ all[k].data = did[k].data /\ all[k].kinds = did[k].kinds
           /\ all[k].n = all[k].kinds["read"] + all[k].kinds["write"] + all[k].kinds["insert"] + all[k].kinds["erase"]
  BY DEF RowsOK, RowsExact
<1> HIDE DEF all, more
<1>5. ASSUME NEW k \in 1 .. Len(more)
      PROVE  /\ more[k].n > 0
             /\ more[k].index = k - 1
             /\ more[k].time = did[k].time /\ more[k].data = did[k].data /\ more[k].kinds = did[k].kinds
             /\ more[k].n = more[k].kinds["read"] + more[k].kinds["write"] + more[k].kinds["insert"]
                            + more[k].kinds["erase"]
  <2>1. CASE k \in 1 .. Len(all)
    BY <1>2, <1>4, <2>1
  <2>2. CASE k = Len(all) + 1
    BY <1>2, <1>3, <2>2
  <2> QED BY <1>2, <2>1, <2>2
<1> QED BY <1>2, <1>3, <1>5 DEF RowsOK, RowsExact

(* A run gives up its pointer and pushes its row.                          *)
LEMMA PushKeeps ==
  ASSUME PInv, Push
  PROVE  PInv'
<1> DEFINE row == [index |-> i_count, n |-> InAll(Len(bench.args.pattern)),
                   time |-> runtime, data |-> data, kinds |-> [k \in Kind |-> Calling(k)]]
<1>1. /\ bench.at = "push" /\ At(Main, "idle") /\ Drop(Main) /\ rows' = Append(rows, row)
      /\ i_count' = i_count + 1 /\ bench' = NoRun
      /\ UNCHANGED <<left, worker, runtime, data, reported, did>>
  BY DEF Push, InRun
<1>2. /\ row \in Row /\ row.index = Len(did) - 1 /\ row.n > 0
      /\ row.time = did[Len(did)].time /\ row.data = did[Len(did)].data /\ row.kinds = did[Len(did)].kinds
      /\ row.n = row.kinds["read"] + row.kinds["write"] + row.kinds["insert"] + row.kinds["erase"]
  BY <1>1, PushedRow
<1> HIDE DEF row
<1>3. /\ bench'.at = "idle" /\ bench' = [NoRun EXCEPT !.at = bench'.at] /\ Measuring /\ ~Measuring' /\ ~Off /\ ~Off'
      /\ NoRun \in [at : {"idle"}, args : {NoRun.args}, attempt : Nat, started : Nat]
  BY <1>1 DEF NoRun, Measuring, Off
<1>4. /\ \A i \in 1 .. Len(Workers) : worker[Workers[i]].at \in {"none", "done"}
      /\ \A w \in Worker : worker[w].at \in {"none", "done"} /\ At(w, "idle")
      /\ closed = Made
  BY <1>1, WorkersRest
<1>5. LInv' /\ left' \in 0 .. MaxCalls /\ Made' = Made /\ closed' = closed /\ handle' = handle \ {Main}
  BY <1>1, DropKeeps, WorkerFacts DEF PInv, Drop, Made
<1>6. /\ thread'[Main].pc \in {"idle", "destroy"} /\ thread'[Main].on = NoClient
      /\ \A u \in Thread \ {Main} : thread'[u] = thread[u]
  BY <1>1, WorkerFacts, ThreadFields DEF PInv, LInv, SharedOK, Place, Drop
<1>7. BenchOK'
  BY <1>1, <1>3 DEF PInv, BenchOK
<1>8. TotalsOK'
  BY <1>1 DEF PInv, TotalsOK
<1>9. WorkersOK'
  <2>1. UNCHANGED worker /\ bench'.at = "idle"
    BY <1>1, <1>3
  <2> QED BY <1>4, <2>1, WorkerFacts DEF PInv, WorkersOK
<1>10. QuietOK'
  BY <1>1, <1>3, <1>4, <1>5, <1>6, WorkerFacts DEF PInv, QuietOK, At, On, Ending
<1>11. OwnOK'
  BY <1>1, <1>3, <1>4, <1>5 DEF OwnOK, Given
<1>12. SumsOK'
  BY <1>3 DEF SumsOK
<1>13. RowsOK'
  <2>1. Len(did) \in Nat /\ RowsOK
    BY DEF PInv, TotalsOK
  <2>2. Len(reported \o rows) = Len(did) - 1
    BY <1>3, <2>1 DEF RowsOK, RowsExact
  <2> QED BY <1>1, <1>2, <1>3, <2>1, <2>2, MoreRows
<1> QED BY <1>5, <1>7, <1>8, <1>9, <1>10, <1>11, <1>12, <1>13 DEF PInv

-----------------------------------------------------------------------------
(* aux_run.                                                                *)

(* The totals of a run change in its last entry only.                      *)
LEMMA CountsFacts ==
  ASSUME NEW D, did \in Seq(D), did # <<>>, NEW f \in D, Counts(f)
  PROVE  /\ did' \in Seq(D) /\ did' # <<>> /\ Len(did') = Len(did) /\ Len(did) \in Nat
         /\ did'[Len(did')] = f /\ \A k \in 1 .. Len(did) - 1 : did'[k] = did[k]
BY DEF Counts

(* A worker in its calls, or adding to the totals, is in a round.          *)
LEMMA WorkingFacts ==
  ASSUME PInv, NEW w \in Worker, worker[w].at \in {"calls", "expect", "swap"}
  PROVE  /\ bench.at \in {"open", "opening", "join"} /\ Measuring /\ ~Off
         /\ Args \in Range(Arguments) /\ Args.pattern \in Pattern /\ Len(Args.pattern) \in Nat
         /\ did # <<>> /\ did \in Seq([time : Nat, data : Nat, kinds : [Kind -> Nat]])
         /\ did[Len(did)] \in [time : Nat, data : Nat, kinds : [Kind -> Nat]]
         /\ w \in Thread /\ w # Main
         /\ worker[w].script \in Seq([op : Kind \cup {"seek", "close"}, size : Nat])
         /\ worker[w].data \in Nat /\ worker[w].time \in Nat
         /\ \A u \in Worker : worker[u].data \in Nat /\ worker[u].time \in Nat
<1>1. PICK i \in 1 .. Len(Workers) : w = Workers[i]
  BY WorkerFacts
<1>2. bench.at \in {"open", "opening", "join"}
  BY <1>1 DEF PInv, WorkersOK
<1>3. Measuring /\ ~Off
  BY <1>2 DEF Measuring, Off
<1> DEFINE D == [time : Nat, data : Nat, kinds : [Kind -> Nat]]
<1>4. Args \in Range(Arguments) /\ did # <<>> /\ did \in Seq(D)
  BY <1>3 DEF PInv, BenchOK, TotalsOK
<1>5. did[Len(did)] \in D
  <2> HIDE DEF D
  <2> QED BY <1>4
<1>6. w \in Thread /\ w # Main
  BY WorkerFacts
<1>7. /\ worker[w].script \in Seq([op : Kind \cup {"seek", "close"}, size : Nat])
      /\ worker[w].data \in Nat /\ worker[w].time \in Nat
      /\ \A u \in Worker : worker[u].data \in Nat /\ worker[u].time \in Nat
  BY DEF PInv, WorkersOK
<1> QED BY <1>2, <1>3, <1>4, <1>5, <1>6, <1>7, ArgumentFacts

(* A worker that goes on leaves the others, and where run is, alone.       *)
LEMMA WorkerMoves ==
  ASSUME PInv, NEW w \in Worker, worker[w].at \in {"calls", "expect", "swap"}, UNCHANGED bench,
         NEW r \in [at : {"none", "calls", "expect", "swap", "done"},
                    script : Seq([op : Kind \cup {"seek", "close"}, size : Nat]),
                    client : Client \cup {NoClient}, data : Nat, time : Nat, expected : Nat],
         worker' = [worker EXCEPT ![w] = r], r.at # "none",
         r.at = "calls" =>
           /\ 2 * Len(Args.pattern) + 1 - Len(r.script) >= 0
           /\ \A i \in 1 .. Len(r.script) :
                r.script[i] = Script(Args.pattern)[2 * Len(Args.pattern) + 1 - Len(r.script) + i]
  PROVE  /\ WorkersOK'
         /\ worker'[w] = r /\ \A u \in Worker \ {w} : worker'[u] = worker[u]
         /\ \A u : Done(u)' = 2 * Len(Args.pattern) + 1 - Len(worker'[u].script)
         /\ \A u \in Worker \ {w} : Done(u)' = Done(u)
         /\ Args' = Args /\ (Measuring' <=> Measuring) /\ (Off' <=> Off) /\ Begun' = Begun
         /\ \A i, j \in 1 .. Len(Workers) : Workers[i] = w /\ j # i => Workers[j] \in Worker \ {w}
<1> DEFINE Local == [at : {"none", "calls", "expect", "swap", "done"},
                     script : Seq([op : Kind \cup {"seek", "close"}, size : Nat]),
                     client : Client \cup {NoClient}, data : Nat, time : Nat, expected : Nat]
<1>1. worker \in [Worker -> Local]
  BY DEF PInv, WorkersOK
<1>2. /\ worker'[w] = r /\ \A u \in Worker \ {w} : worker'[u] = worker[u]
      /\ worker' \in [Worker -> Local]
  <2> HIDE DEF Local
  <2> QED BY <1>1 DEF Local
<1>3. Args' = Args /\ (Measuring' <=> Measuring) /\ (Off' <=> Off) /\ Begun' = Begun
  BY DEF Args, Measuring, Off, Begun
<1>4. \A u : Done(u)' = 2 * Len(Args.pattern) + 1 - Len(worker'[u].script)
  BY <1>3 DEF Done
<1>5. \A u \in Worker \ {w} : Done(u)' = Done(u)
  BY <1>2, <1>4 DEF Done
<1>6. bench.at \in {"open", "opening", "join"}
  BY WorkingFacts
<1>7. ASSUME NEW i \in 1 .. Len(Workers)
      PROVE  worker'[Workers[i]].at = "none" <=> i > bench'.started
  <2>1. worker[Workers[i]].at = "none" <=> i > bench.started
    BY <1>6 DEF PInv, WorkersOK
  <2>2. worker'[Workers[i]].at = "none" <=> worker[Workers[i]].at = "none"
    BY <1>2, WorkerFacts
  <2> QED BY <2>1, <2>2
<1>8. ASSUME NEW u \in Worker, worker'[u].at = "calls"
      PROVE  /\ Done(u)' >= 0
             /\ \A i \in 1 .. Len(worker'[u].script) : worker'[u].script[i] = Script(Args'.pattern)[Done(u)' + i]
  <2>1. CASE u = w
    <3>1. worker'[u] = r /\ Done(u)' = 2 * Len(Args.pattern) + 1 - Len(r.script)
      BY <1>2, <1>4, <2>1
    <3> QED BY <1>3, <1>8, <3>1
  <2>2. CASE u # w
    <3>1. worker'[u] = worker[u] /\ Done(u)' = Done(u)
      BY <1>2, <1>5, <2>2
    <3> QED BY <1>3, <1>8, <3>1 DEF PInv, WorkersOK
  <2> QED BY <2>1, <2>2
<1>9. WorkersOK'
  <2>1. bench'.at \in {"open", "opening", "join"}
    BY <1>6
  <2>2. \A i \in 1 .. Len(Workers) :
          LET u == Workers[i] IN
          IF bench'.at \in {"open", "opening", "join"}
          THEN worker'[u].at = "none" <=> i > bench'.started
          ELSE worker'[u].at \in (IF bench'.at \in {"loading", "off"} THEN {"none"} ELSE {"none", "done"})
    BY <1>7, <2>1
  <2>3. \A u \in Worker : worker'[u].at = "calls" =>
          /\ Done(u)' >= 0
          /\ \A i \in 1 .. Len(worker'[u].script) : worker'[u].script[i] = Script(Args'.pattern)[Done(u)' + i]
    BY <1>8
  <2> QED BY <1>2, <2>2, <2>3 DEF WorkersOK
<1>10. \A i, j \in 1 .. Len(Workers) : Workers[i] = w /\ j # i => Workers[j] \in Worker \ {w}
  BY WorkerFacts
<1> QED BY <1>2, <1>3, <1>4, <1>5, <1>9, <1>10

(* The first element of a sequence, and the others.                        *)
LEMMA HeadAndTail ==
  ASSUME NEW A, NEW S \in Seq(A), S # <<>>
  PROVE  /\ Head(S) \in A /\ Head(S) = S[1] /\ Tail(S) \in Seq(A) /\ Len(Tail(S)) = Len(S) - 1
         /\ Len(S) \in Nat /\ Len(S) > 0 /\ \A i \in 1 .. Len(Tail(S)) : Tail(S)[i] = S[i + 1]
         /\ Tail(S) = <<>> <=> Len(S) = 1
<1>1. /\ Len(S) \in Nat /\ Len(S) > 0
  BY EmptySeq, LenProperties
<1>2. /\ Head(S) \in A /\ Head(S) = S[1] /\ Tail(S) \in Seq(A) /\ Len(Tail(S)) = Len(S) - 1
      /\ \A i \in 1 .. Len(Tail(S)) : Tail(S)[i] = S[i + 1]
  BY <1>1, HeadTailProperties
<1>3. Tail(S) = <<>> <=> Len(Tail(S)) = 0
  BY <1>2, EmptySeq
<1> QED BY <1>1, <1>2, <1>3

(* The rest of a script is the rest of its rest.                           *)
LEMMA RestOfScript ==
  ASSUME NEW S, NEW r, NEW n, NEW L \in Nat, NEW script, n >= 0, n = L - Len(S),
         Len(S) \in Nat, Len(S) > 0, Len(r) = Len(S) - 1,
         \A i \in 1 .. Len(S) : S[i] = script[n + i], \A i \in 1 .. Len(r) : r[i] = S[i + 1]
  PROVE  /\ n \in Nat /\ n + 1 <= L /\ Len(r) = L - (n + 1)
         /\ S[1] = script[n + 1]
         /\ \A i \in 1 .. Len(r) : r[i] = script[(n + 1) + i]
         /\ n + 1 = L <=> Len(S) = 1
<1>1. n \in Nat /\ n + 1 <= L /\ Len(r) = L - (n + 1) /\ (n + 1 = L <=> Len(S) = 1)
  <2>1. PICK k, m : k = Len(S) /\ m = Len(r)
    OBVIOUS
  <2>2. k \in Nat /\ k > 0 /\ m = k - 1 /\ n = L - k /\ n >= 0 /\ L \in Nat
    BY <2>1
  <2>3. n \in Nat /\ n + 1 <= L /\ m = L - (n + 1) /\ (n + 1 = L <=> k = 1)
    BY <2>2
  <2> QED BY <2>1, <2>3
<1>2. S[1] = script[n + 1]
  OBVIOUS
<1>3. ASSUME NEW i \in 1 .. Len(r) PROVE r[i] = script[(n + 1) + i]
  <2>1. i + 1 \in 1 .. Len(S) /\ n + (i + 1) = (n + 1) + i
    BY <1>1
  <2>2. S[i + 1] = script[n + (i + 1)]
    BY <2>1
  <2> QED BY <2>1, <2>2
<1> QED BY <1>1, <1>2, <1>3

(* The call that a worker makes next, and those behind it.                 *)
LEMMA ScriptHead ==
  ASSUME PInv, NEW w \in Worker, worker[w].at = "calls", worker[w].script # <<>>
  PROVE  \E h, r, n :
         /\ h = Head(worker[w].script) /\ r = Tail(worker[w].script) /\ n = Done(w)
         /\ h \in [op : Kind \cup {"seek", "close"}, size : Nat]
         /\ r \in Seq([op : Kind \cup {"seek", "close"}, size : Nat])
         /\ n \in Nat /\ n + 1 <= 2 * Len(Args.pattern) + 1
         /\ Len(r) = 2 * Len(Args.pattern) + 1 - (n + 1)
         /\ h = Script(Args.pattern)[n + 1]
         /\ \A i \in 1 .. Len(r) : r[i] = Script(Args.pattern)[(n + 1) + i]
         /\ r = <<>> <=> h.op = "close"
<1> DEFINE Order == [op : Kind \cup {"seek", "close"}, size : Nat]
           L == 2 * Len(Args.pattern) + 1
<1>a. PICK h, r, n : h = Head(worker[w].script) /\ r = Tail(worker[w].script) /\ n = Done(w)
  OBVIOUS
<1>1. PICK S : S = worker[w].script
  OBVIOUS
<1>2. worker[w].script \in Seq(Order) /\ Args.pattern \in Pattern /\ Len(Args.pattern) \in Nat
  BY WorkingFacts
<1>3. L \in Nat
  BY <1>2
<1>4. /\ h \in Order /\ h = S[1] /\ r \in Seq(Order) /\ Len(r) = Len(S) - 1
      /\ Len(S) \in Nat /\ Len(S) > 0 /\ \A i \in 1 .. Len(r) : r[i] = S[i + 1]
      /\ r = <<>> <=> Len(S) = 1
  <2> HIDE DEF Order, L
  <2> QED BY <1>a, <1>1, <1>2, HeadAndTail
<1>5. n >= 0 /\ n = L - Len(S)
  <2>1. Done(w) >= 0
    BY DEF PInv, WorkersOK
  <2> QED BY <1>a, <1>1, <2>1 DEF Done
<1>6. \A i \in 1 .. Len(S) : S[i] = Script(Args.pattern)[n + i]
  BY <1>a, <1>1 DEF PInv, WorkersOK
<1> HIDE DEF L
<1>7. /\ n \in Nat /\ n + 1 <= L /\ Len(r) = L - (n + 1)
      /\ S[1] = Script(Args.pattern)[n + 1]
      /\ \A i \in 1 .. Len(r) : r[i] = Script(Args.pattern)[(n + 1) + i]
      /\ n + 1 = L <=> Len(S) = 1
  <2> HIDE DEF Order
  <2> QED BY <1>3, <1>4, <1>5, <1>6, RestOfScript
<1>8. h = Script(Args.pattern)[n + 1]
  BY <1>4, <1>7
<1>9. r = <<>> <=> h.op = "close"
  <2>1. \A i \in 1 .. L : i = L <=> Script(Args.pattern)[i].op = "close"
    BY <1>2, ScriptFacts DEF L
  <2>2. n + 1 \in 1 .. L
    BY <1>3, <1>7
  <2> QED BY <1>4, <1>7, <1>8, <2>1, <2>2
<1>10. /\ n \in Nat /\ n + 1 <= 2 * Len(Args.pattern) + 1
       /\ Len(r) = 2 * Len(Args.pattern) + 1 - (n + 1)
       /\ \A i \in 1 .. Len(r) : r[i] = Script(Args.pattern)[(n + 1) + i]
  <2> HIDE DEF Order
  <2> QED BY <1>7 DEF L
<1>11. h \in Order /\ r \in Seq(Order)
  BY <1>4
<1> HIDE DEF Order
<1> DEFINE P(x, y, z) ==
             /\ x = Head(worker[w].script) /\ y = Tail(worker[w].script) /\ z = Done(w)
             /\ x \in Order
             /\ y \in Seq(Order)
             /\ z \in Nat /\ z + 1 <= 2 * Len(Args.pattern) + 1
             /\ Len(y) = 2 * Len(Args.pattern) + 1 - (z + 1)
             /\ x = Script(Args.pattern)[z + 1]
             /\ \A i \in 1 .. Len(y) : y[i] = Script(Args.pattern)[(z + 1) + i]
             /\ y = <<>> <=> x.op = "close"
<1>12. P(h, r, n)
  BY <1>a, <1>8, <1>9, <1>10, <1>11
<1> HIDE DEF P
<1>13. \E x, y, z : P(x, y, z)
  BY <1>12
<1> QED BY <1>13 DEF P, Order

(* Nobody else is in a call of a worker's client.                          *)
LEMMA OwnClient ==
  ASSUME PInv, NEW w \in Worker, worker[w].at = "calls", worker[w].script # <<>>, At(w, "idle"), NEW op
  PROVE  worker[w].client \in Made /\ worker[w].client \notin closed /\ Proper(worker[w].client, op)
<1> DEFINE c == worker[w].client
<1>1. ~Off /\ Measuring /\ w \in Thread
  BY WorkingFacts
<1>2. c \in Made /\ c \notin closed /\ c # NoClient
  BY <1>1, MadeClients DEF PInv, LInv, OwnOK
<1>3. \A t \in Thread : ~Ending(t)
  BY <1>1, MeasuringLasts
<1>4. ASSUME NEW t \in Thread, ~At(t, "idle"), On(t) = c PROVE FALSE
  <2>1. t # w
    BY <1>4
  <2>2. CASE t = Main
    <3>1. /\ thread[t].pc \in {"enter", "inside"} /\ ~thread[t].pinned
      BY <1>1, <1>3, <1>4, <2>2 DEF PInv, QuietOK, Ending, At
    <3> QED BY <1>2, <1>4, <3>1 DEF PInv, LInv, ThreadsOK
  <2>3. CASE t \in Worker
    <3>1. worker[t].at = "calls"
      BY <1>1, <1>4, <2>3 DEF PInv, QuietOK
    <3> QED BY <1>1, <1>4, <2>1, <2>3, <3>1 DEF PInv, OwnOK
  <2>4. CASE t \notin {Main} \cup Worker
    BY <1>1, <1>3, <1>4, <2>4 DEF PInv, QuietOK, Ending, At
  <2> QED BY <2>2, <2>3, <2>4
<1> QED BY <1>2, <1>4 DEF Proper, InCall

(* The calls that are not made yet, before and after one.                  *)
LEMMA NextNumber ==
  ASSUME NEW p \in Pattern, Len(p) \in Nat, NEW n \in Nat, n + 1 <= 2 * Len(p) + 1, NEW k \in Kind
  PROVE  /\ Number(p, k, n) \in Nat /\ Number(p, k, n + 1) \in Nat
         /\ Number(p, k, n) = Number(p, k, n + 1) + (IF k = Script(p)[n + 1].op THEN 1 ELSE 0)
<1>1. \A x : Number(p, k, x) \in Nat
  BY NumberNat
<1>2. Script(p)[n + 1].op \in Kind <=> \E j \in 1 .. Len(p) : n + 1 = 2 * j
  <2>1. n + 1 \in 1 .. 2 * Len(p) + 1
    OBVIOUS
  <2> QED BY <2>1, ScriptFacts
<1>3. CASE \E j \in 1 .. Len(p) : n + 1 = 2 * j
  <2>1. PICK j \in 1 .. Len(p) : n + 1 = 2 * j
    BY <1>3
  <2>2. Script(p)[n + 1].op = p[j].kind
    <3>1. Script(p)[n + 1] = [op |-> p[j].kind, size |-> p[j].size]
      BY <2>1, ScriptFacts
    <3> QED BY <3>1
  <2>3. Number(p, k, n) = Number(p, k, n + 1) + (IF p[j].kind = k THEN 1 ELSE 0)
    BY <2>1, NumberEven
  <2> QED BY <1>1, <2>2, <2>3
<1>4. CASE ~ \E j \in 1 .. Len(p) : n + 1 = 2 * j
  <2>1. \A j \in 1 .. Len(p) : 2 * j # n + 1
    BY <1>4
  <2>2. Number(p, k, n) = Number(p, k, n + 1)
    BY <2>1, NumberOdd
  <2>3. k # Script(p)[n + 1].op
    BY <1>2, <1>4
  <2> QED BY <1>1, <2>2, <2>3
<1> QED BY <1>3, <1>4

(* A worker's next call has the File's threads as they should be, for its  *)
(* client is its own, and moves what is to come into what was done.        *)
LEMMA NextCallKeeps ==
  ASSUME PInv, NEW w \in Worker, NextCall(w)
  PROVE  PInv'
<1> DEFINE D == [time : Nat, data : Nat, kinds : [Kind -> Nat]]
           Order == [op : Kind \cup {"seek", "close"}, size : Nat]
           Local == [at : {"none", "calls", "expect", "swap", "done"}, script : Seq(Order),
                     client : Client \cup {NoClient}, data : Nat, time : Nat, expected : Nat]
<1>0. worker[w].at = "calls" /\ At(w, "idle") /\ worker[w].script # <<>>
  BY DEF NextCall, InWorker
<1>a. PICK call, rest, n :
        /\ call = Head(worker[w].script) /\ rest = Tail(worker[w].script) /\ n = Done(w)
        /\ call \in Order
        /\ rest \in Seq(Order)
        /\ n \in Nat /\ n + 1 <= 2 * Len(Args.pattern) + 1
        /\ Len(rest) = 2 * Len(Args.pattern) + 1 - (n + 1)
        /\ call = Script(Args.pattern)[n + 1]
        /\ \A j \in 1 .. Len(rest) : rest[j] = Script(Args.pattern)[(n + 1) + j]
        /\ rest = <<>> <=> call.op = "close"
  BY <1>0, ScriptHead
<1>b. PICK p, c, now : p = Args.pattern /\ c = worker[w].client /\ now = did[Len(did)]
  OBVIOUS
<1>c. PICK f : f = [now EXCEPT !.data = @ + call.size,
                               !.kinds = [k \in Kind |-> IF k = call.op THEN @[k] + 1 ELSE @[k]]]
  OBVIOUS
<1>d. PICK r : r = [worker[w] EXCEPT !.script = rest, !.data = @ + call.size]
  OBVIOUS
<1>e. PICK i \in 1 .. Len(Workers) : Workers[i] = w
  BY WorkerFacts
<1>1. /\ worker[w].at = "calls" /\ At(w, "idle") /\ worker[w].script # <<>>
      /\ Call(w, c, call.op) /\ Counts(f) /\ worker' = [worker EXCEPT ![w] = r]
      /\ UNCHANGED <<left, bench, runtime, data, rows, i_count, reported>>
  <2>1. worker' = [worker EXCEPT ![w].script = rest, ![w].data = @ + call.size]
    BY <1>a DEF NextCall
  <2>2. worker' = [worker EXCEPT ![w] = r]
    BY <1>d, <2>1
  <2>3. Counts(f)
    <3>1. call = Head(worker[w].script) /\ now = did[Len(did)]
      BY <1>a, <1>b
    <3> QED BY <1>c, <3>1 DEF NextCall
  <2> QED BY <1>a, <1>b, <2>2, <2>3 DEF NextCall, InWorker
<1>2. /\ bench.at \in {"open", "opening", "join"} /\ Measuring /\ ~Off /\ w \in Thread /\ w # Main
      /\ p \in Pattern /\ Len(p) \in Nat /\ did # <<>> /\ did \in Seq(D) /\ now \in D
      /\ worker[w].data \in Nat /\ \A u \in Worker : worker[u].data \in Nat
  BY <1>b, <1>1, WorkingFacts
<1>3. /\ call \in Order /\ rest \in Seq(Order) /\ n \in Nat /\ n + 1 <= 2 * Len(p) + 1
      /\ Len(rest) = 2 * Len(p) + 1 - (n + 1) /\ call = Script(p)[n + 1]
      /\ \A j \in 1 .. Len(rest) : rest[j] = Script(p)[(n + 1) + j]
      /\ rest = <<>> <=> call.op = "close"
  <2> HIDE DEF Order
  <2> QED BY <1>a, <1>b
<1>4. call.op \in Kind \cup {"seek", "close"} /\ call.size \in Nat /\ call.op \in ClientOp
  <2>1. Kind \cup {"seek", "close"} \subseteq ClientOp
    BY DEF Kind, ClientOp, Op, Placing, Changing
  <2> QED BY <1>3, <2>1
<1>5. /\ r \in Local /\ r.at = "calls" /\ r.script = rest /\ r.client = c
      /\ r.data = worker[w].data + call.size /\ r.time = worker[w].time
  <2>1. worker[w] \in Local
    BY DEF PInv, WorkersOK
  <2>2. worker[w].data + call.size \in Nat
    <3> HIDE DEF D, Order, Local
    <3> QED BY <1>2, <1>4
  <2> DEFINE Orders == Seq(Order)
             Ats == {"none", "calls", "expect", "swap", "done"}
             Clients == Client \cup {NoClient}
  <2>3. /\ worker[w] \in [at : Ats, script : Orders, client : Clients, data : Nat, time : Nat, expected : Nat]
        /\ rest \in Orders
    BY <1>3, <2>1
  <2> HIDE DEF Orders, Ats, Clients, Order
  <2>4. /\ r \in [at : Ats, script : Orders, client : Clients, data : Nat, time : Nat, expected : Nat]
        /\ r.at = worker[w].at /\ r.script = rest /\ r.client = worker[w].client
        /\ r.data = worker[w].data + call.size /\ r.time = worker[w].time
    BY <1>d, <2>2, <2>3
  <2> QED BY <1>b, <1>1, <2>4 DEF Orders, Ats, Clients
<1>6. /\ f \in D /\ f.data = now.data + call.size /\ f.time = now.time
      /\ \A k \in Kind : f.kinds[k] = now.kinds[k] + (IF k = call.op THEN 1 ELSE 0)
  <2>1. PICK g, x : g = [k \in Kind |-> IF k = call.op THEN now.kinds[k] + 1 ELSE now.kinds[k]] /\ x = now.data + call.size
    OBVIOUS
  <2>2. f = [now EXCEPT !.data = x, !.kinds = g]
    BY <1>c, <2>1
  <2>3. /\ now.kinds \in [Kind -> Nat] /\ now.data \in Nat /\ x \in Nat
    <3>1. now \in D
      <4> HIDE DEF D
      <4> QED BY <1>2
    <3>2. now.kinds \in [Kind -> Nat] /\ now.data \in Nat
      BY <3>1
    <3>3. call.size \in Nat
      <4> HIDE DEF D, Order, Local
      <4> QED BY <1>4
    <3> HIDE DEF D, Order, Local
    <3> QED BY <2>1, <3>2, <3>3
  <2>4. g \in [Kind -> Nat] /\ \A k \in Kind : g[k] = now.kinds[k] + (IF k = call.op THEN 1 ELSE 0)
    BY <2>1, <2>3
  <2> DEFINE Counters == [Kind -> Nat]
  <2>5. now \in [time : Nat, data : Nat, kinds : Counters] /\ g \in Counters
    <3>1. now \in D
      <4> HIDE DEF D
      <4> QED BY <1>2
    <3> QED BY <2>4, <3>1
  <2> HIDE DEF Counters
  <2>6. f \in [time : Nat, data : Nat, kinds : Counters] /\ f.data = x /\ f.kinds = g /\ f.time = now.time
    BY <2>2, <2>3, <2>5
  <2> QED BY <2>1, <2>4, <2>6 DEF Counters
<1> HIDE DEF D, Order, Local
<1>7. /\ did' \in Seq(D) /\ did' # <<>> /\ Len(did') = Len(did) /\ Len(did) \in Nat
      /\ did'[Len(did')] = f /\ \A k \in 1 .. Len(did) - 1 : did'[k] = did[k]
  BY <1>1, <1>2, <1>6, CountsFacts
<1>8. /\ WorkersOK'
      /\ worker'[w] = r /\ \A u \in Worker \ {w} : worker'[u] = worker[u]
      /\ \A u : Done(u)' = 2 * Len(p) + 1 - Len(worker'[u].script)
      /\ \A u \in Worker \ {w} : Done(u)' = Done(u)
      /\ Args' = Args /\ (Measuring' <=> Measuring) /\ (Off' <=> Off) /\ Begun' = Begun
      /\ \A j \in 1 .. Len(Workers) : j # i => Workers[j] \in Worker \ {w}
  <2>1. /\ 2 * Len(p) + 1 - Len(r.script) >= 0
        /\ \A j \in 1 .. Len(r.script) : r.script[j] = Script(p)[2 * Len(p) + 1 - Len(r.script) + j]
    <3>1. 2 * Len(p) + 1 - Len(r.script) = n + 1 /\ n + 1 >= 0
      <4>1. Len(p) \in Nat /\ n \in Nat /\ Len(r.script) = 2 * Len(p) + 1 - (n + 1)
        BY <1>2, <1>3, <1>5
      <4> QED BY <4>1
    <3>2. ASSUME NEW j \in 1 .. Len(r.script)
          PROVE  r.script[j] = Script(p)[2 * Len(p) + 1 - Len(r.script) + j]
      <4>1. r.script[j] = Script(p)[(n + 1) + j]
        BY <1>3, <1>5
      <4> QED BY <3>1, <4>1
    <3> QED BY <3>1, <3>2
  <2>2. UNCHANGED bench /\ r.at # "none"
    BY <1>1, <1>5
  <2>3. r \in [at : {"none", "calls", "expect", "swap", "done"},
               script : Seq([op : Kind \cup {"seek", "close"}, size : Nat]),
               client : Client \cup {NoClient}, data : Nat, time : Nat, expected : Nat]
    BY <1>5 DEF Local, Order
  <2>4. worker[w].at = "calls" /\ worker' = [worker EXCEPT ![w] = r]
    BY <1>1
  <2>5. /\ 2 * Len(Args.pattern) + 1 - Len(r.script) >= 0
        /\ \A j \in 1 .. Len(r.script) :
             r.script[j] = Script(Args.pattern)[2 * Len(Args.pattern) + 1 - Len(r.script) + j]
    BY <1>b, <2>1
  <2>6. /\ WorkersOK'
        /\ worker'[w] = r /\ \A u \in Worker \ {w} : worker'[u] = worker[u]
        /\ \A u : Done(u)' = 2 * Len(Args.pattern) + 1 - Len(worker'[u].script)
        /\ \A u \in Worker \ {w} : Done(u)' = Done(u)
        /\ Args' = Args /\ (Measuring' <=> Measuring) /\ (Off' <=> Off) /\ Begun' = Begun
        /\ \A k, j \in 1 .. Len(Workers) : Workers[k] = w /\ j # k => Workers[j] \in Worker \ {w}
    BY <2>2, <2>3, <2>4, <2>5, WorkerMoves
  <2> QED BY <1>b, <1>e, <2>6
<1>9. Done(w)' = n + 1
  <2>1. Done(w)' = 2 * Len(p) + 1 - Len(rest)
    BY <1>5, <1>8
  <2> QED BY <1>2, <1>3, <2>1
<1>10. c \in Made /\ c \notin closed /\ Proper(c, call.op)
  BY <1>b, <1>1, OwnClient
<1>11. LInv' /\ left' \in 0 .. MaxCalls /\ Made' = Made /\ UNCHANGED shared
  <2>1. LInv'
    BY <1>1, <1>2, <1>4, <1>10, CallKeeps DEF PInv
  <2> QED BY <1>1, <2>1 DEF Call, PInv, shared, Made
<1>12. /\ thread'[w].pc = "lock" /\ thread'[w].op = call.op /\ thread'[w].on = c
       /\ \A t \in Thread \ {w} : thread'[t] = thread[t]
  BY <1>1, <1>2, ThreadFields DEF PInv, LInv, SharedOK, Place, Call
<1>13. BenchOK' /\ TotalsOK'
  <2>1. TotalsOK'
    BY <1>1, <1>7 DEF PInv, TotalsOK, D
  <2> QED BY <1>1, <1>2, <1>7, <1>8, <2>1 DEF PInv, BenchOK
<1>14. QuietOK'
  <2>1. ~Off /\ ~Off' /\ bench' = bench /\ left' = left /\ UNCHANGED shared /\ (Measuring' <=> Measuring) /\ Made' = Made
    BY <1>1, <1>2, <1>8, <1>11
  <2>2. /\ w \in Worker /\ w \in Thread /\ w # Main /\ worker[w].at = "calls" /\ worker'[w].at = "calls"
        /\ \A u \in Worker \ {w} : worker'[u] = worker[u]
    BY <1>1, <1>2, <1>5, <1>8
  <2>3. thread'[w].pc = "lock" /\ \A t \in Thread \ {w} : thread'[t] = thread[t]
    BY <1>12
  <2>4. QuietOK
    BY DEF PInv
  <2> QED BY <2>1, <2>2, <2>3, <2>4, WorkerFacts DEF QuietOK, At, On, Ending, shared
<1>15. OwnOK'
  <2>1. Given' <=> Given
    BY <1>1, <1>2, WorkerFacts, <1>12 DEF Given, At
  <2>2. On(Main)' = On(Main) /\ closed' = closed
    BY <1>2, <1>11, <1>12, WorkerFacts DEF On, shared
  <2>3. \A u \in Worker : worker'[u].at = worker[u].at /\ worker'[u].client = worker[u].client
    BY <1>b, <1>1, <1>5, <1>8
  <2>4. ASSUME NEW u \in Worker, worker'[u].at = "calls"
        PROVE  /\ ~At(u, "idle")' => On(u)' = worker'[u].client
               /\ worker'[u].script # <<>> => worker'[u].client \notin closed'
               /\ worker'[u].script # <<>> /\ ~At(u, "idle")' => thread'[u].op # "close"
               /\ worker'[u].script = <<>> =>
                    IF At(u, "idle")' THEN worker'[u].client \in closed' ELSE thread'[u].op = "close"
    <3>1. CASE u = w
      BY <1>3, <1>5, <1>8, <1>10, <1>12, <2>2, <3>1 DEF At, On
    <3>2. CASE u # w
      <4>1. worker'[u] = worker[u] /\ thread'[u] = thread[u]
        BY <1>8, <1>12, <3>2, WorkerFacts
      <4> QED BY <1>2, <2>2, <2>4, <4>1 DEF PInv, OwnOK, At, On
    <3> QED BY <3>1, <3>2
  <2> QED BY <1>2, <1>11, <2>1, <2>2, <2>3, <2>4 DEF PInv, OwnOK
<1>16. SumsOK'
  <2>0. /\ worker[w].at = "calls" /\ worker'[w].at = "calls"
        /\ \A j \in 1 .. Len(Workers) : j # i => worker'[Workers[j]] = worker[Workers[j]]
    BY <1>1, <1>5, <1>8
  <2>1. IsSum(PendingData', Len(Workers), f.data - data')
    <3> DEFINE x == PendingData
               y == PendingData'
               total == now.data - data
    <3>1. \A j \in 1 .. Len(Workers) : x[j] \in Int
      BY <1>2, WorkerFacts DEF PendingData
    <3>2. y[i] = x[i] + call.size
      BY <1>e, <1>5, <1>8, <2>0 DEF PendingData
    <3>3. \A j \in (1 .. Len(Workers)) \ {i} : y[j] = x[j]
      BY <2>0 DEF PendingData
    <3>4. IsSum(x, Len(Workers), total)
      BY <1>b, <1>2 DEF PInv, SumsOK
    <3>5. IsSum(y, Len(Workers), total + call.size)
      <4>1. Len(Workers) \in Nat /\ call.size \in Int
        BY <1>4, WorkerFacts
      <4> HIDE DEF x, y, total
      <4> QED BY <4>1, <3>1, <3>2, <3>3, <3>4, SumChange
    <3>6. total + call.size = f.data - data'
      <4>1. f.data = now.data + call.size /\ data' = data /\ call.size \in Nat
        BY <1>1, <1>4, <1>6
      <4>2. data \in Nat
        BY DEF PInv, TotalsOK
      <4>3. now.data \in Nat
        BY <1>2 DEF D
      <4> QED BY <4>1, <4>2, <4>3
    <3> QED BY <3>5, <3>6
  <2>2. IsSum(PendingTime', Len(Workers), f.time - runtime')
    <3> DEFINE x == PendingTime
               y == PendingTime'
    <3>1. \A j \in 1 .. Len(Workers) : y[j] = x[j]
      BY <1>e, <2>0 DEF PendingTime
    <3>2. IsSum(x, Len(Workers), now.time - runtime)
      BY <1>b, <1>2 DEF PInv, SumsOK
    <3>3. f.time - runtime' = now.time - runtime
      BY <1>1, <1>6
    <3> HIDE DEF x, y
    <3>4. IsSum(y, Len(Workers), now.time - runtime)
      BY <3>1, <3>2, WorkerFacts, SumSame
    <3> QED BY <3>3, <3>4 DEF y
  <2>3. ASSUME NEW k \in Kind
        PROVE  IsSum(PendingCalls(k)', Len(Workers), Begun' * Number(p, k, 0) - f.kinds[k])
    <3> DEFINE x == PendingCalls(k)
               y == PendingCalls(k)'
               d == IF k = call.op THEN 1 ELSE 0
               total == Begun * Number(p, k, 0) - now.kinds[k]
    <3>1. /\ Number(p, k, n) \in Nat /\ Number(p, k, n + 1) \in Nat
          /\ Number(p, k, n) = Number(p, k, n + 1) + d
      BY <1>2, <1>3, NextNumber
    <3>2. \A j \in 1 .. Len(Workers) : x[j] \in Int
      <4>1. \A m : Number(Args.pattern, k, m) \in Int
        BY <1>b, <1>2, NumberNat
      <4> QED BY <4>1 DEF PendingCalls
    <3>3. x[i] = Number(p, k, n)
      BY <1>a, <1>b, <1>e, <2>0 DEF PendingCalls
    <3>4. y[i] = Number(p, k, n + 1)
      <4>1. y[i] = Number(Args.pattern, k, Done(w)')
        BY <1>e, <1>8, <2>0 DEF PendingCalls
      <4> QED BY <1>b, <1>9, <4>1
    <3>5. \A j \in (1 .. Len(Workers)) \ {i} : y[j] = x[j]
      BY <1>8, <2>0 DEF PendingCalls
    <3>6. IsSum(x, Len(Workers), total)
      BY <1>b, <1>2 DEF PInv, SumsOK
    <3>7. y[i] = x[i] + (0 - d) /\ 0 - d \in Int
      BY <3>1, <3>3, <3>4
    <3>8. IsSum(y, Len(Workers), total + (0 - d))
      <4> HIDE DEF x, y, d, total
      <4> QED BY <3>2, <3>5, <3>6, <3>7, WorkerFacts, SumChange
    <3>9. total + (0 - d) = Begun' * Number(p, k, 0) - f.kinds[k]
      <4>1. f.kinds[k] = now.kinds[k] + d /\ Begun' = Begun
        BY <1>6, <1>8
      <4>2. Begun * Number(p, k, 0) \in Int /\ now.kinds[k] \in Int /\ d \in Int
        <5>1. Number(p, k, 0) \in Nat /\ now.kinds[k] \in Nat
          BY <1>2, NumberNat DEF D
        <5>2. Begun \in Nat
          <6>1. Args.clients \in Nat /\ bench.attempt \in Nat /\ bench.started \in Nat
            BY <1>2, ArgumentFacts DEF PInv, BenchOK
          <6> QED BY <6>1 DEF Begun
        <5> QED BY <5>1, <5>2
      <4> DEFINE b == Begun * Number(p, k, 0)
      <4> HIDE DEF b, d
      <4> QED BY <4>1, <4>2 DEF b
    <3> QED BY <3>8, <3>9
  <2> QED BY <1>b, <1>7, <1>8, <2>1, <2>2, <2>3 DEF SumsOK
<1>17. RowsOK'
  <2>1. Len(reported \o rows) = Len(did) - 1
    BY <1>2, <1>7 DEF PInv, RowsOK, RowsExact
  <2> QED BY <1>1, <1>2, <1>7, <1>8, <2>1, SameRows DEF PInv
<1> QED BY <1>8, <1>11, <1>13, <1>14, <1>15, <1>16, <1>17 DEF PInv

(* A worker that adds to the totals is not in a call, and its client is    *)
(* closed.                                                                 *)
LEMMA WorkerAside ==
  ASSUME PInv, NEW w \in Worker, worker[w].at \in {"calls", "expect", "swap"}, At(w, "idle"),
         worker[w].at = "calls" => worker[w].script = <<>>, UNCHANGED <<vars, bench>>,
         worker'[w].at \in {"expect", "swap", "done"}, \A u \in Worker \ {w} : worker'[u] = worker[u]
  PROVE  LInv' /\ left' \in 0 .. MaxCalls /\ QuietOK' /\ OwnOK'
<1>1. /\ LInv' /\ left' \in 0 .. MaxCalls /\ Made' = Made
      /\ \A t \in Thread : Ending(t)' <=> Ending(t)
  BY SameCalls
<1>2. ~Off /\ ~Off' /\ (Measuring' <=> Measuring)
  BY WorkingFacts DEF Off, Measuring
<1>3. QuietOK'
  BY <1>1, <1>2, WorkerFacts DEF PInv, QuietOK, At, On, vars, shared
<1>4. worker[w].at = "calls" => worker[w].client \in closed
  BY <1>2 DEF PInv, OwnOK
<1>5. OwnOK'
  BY <1>1, <1>2, <1>4 DEF PInv, OwnOK, Given, At, On, vars, shared
<1> QED BY <1>1, <1>3, <1>5

(* A worker adds its data to the total, and has its time.                  *)
LEMMA AddDataKeeps ==
  ASSUME PInv, NEW w \in Worker, NEW time \in Times, AddData(w, time)
  PROVE  PInv'
<1> DEFINE D == [time : Nat, data : Nat, kinds : [Kind -> Nat]]
           Ats == {"none", "calls", "expect", "swap", "done"}
           Orders == Seq([op : Kind \cup {"seek", "close"}, size : Nat])
           Clients == Client \cup {NoClient}
           Local == [at : Ats, script : Orders, client : Clients, data : Nat, time : Nat, expected : Nat]
<1>a. PICK p, now : p = Args.pattern /\ now = did[Len(did)]
  OBVIOUS
<1>b. PICK f : f = [now EXCEPT !.time = @ + time]
  OBVIOUS
<1>c. PICK r : r = [worker[w] EXCEPT !.at = "expect", !.time = time]
  OBVIOUS
<1>d. PICK i \in 1 .. Len(Workers) : Workers[i] = w
  BY WorkerFacts
<1>0. worker[w].at = "calls" /\ At(w, "idle") /\ worker[w].script = <<>>
  BY DEF AddData, InWorker
<1>1. /\ data' = data + worker[w].data /\ Counts(f) /\ worker' = [worker EXCEPT ![w] = r]
      /\ UNCHANGED <<vars, bench, runtime, rows, i_count, reported>>
  <2>1. worker' = [worker EXCEPT ![w].at = "expect", ![w].time = time]
    BY DEF AddData
  <2>2. worker' = [worker EXCEPT ![w] = r]
    BY <1>c, <2>1
  <2> QED BY <1>a, <1>b, <2>2 DEF AddData
<1>2. /\ Measuring /\ p \in Pattern /\ Len(p) \in Nat /\ did # <<>> /\ did \in Seq(D) /\ now \in D
      /\ \A u \in Worker : worker[u].data \in Nat /\ worker[u].time \in Nat
  BY <1>a, <1>0, WorkingFacts
<1>3. time \in Nat /\ data \in Nat /\ now.data \in Nat /\ now.time \in Nat /\ runtime \in Nat
  BY <1>2, TimesAssumption DEF PInv, TotalsOK
<1>4. worker[w] \in Local
  BY DEF PInv, WorkersOK
<1> HIDE DEF Orders, Clients, Ats
<1>5. "expect" \in Ats
  BY DEF Ats
<1>6. r \in Local /\ r.at = "expect" /\ r.time = time
  BY <1>c, <1>3, <1>4, <1>5
<1>7. f \in D /\ f.data = now.data /\ f.time = now.time + time /\ f.kinds = now.kinds
  <2>1. now.time + time \in Nat
    BY <1>3
  <2> DEFINE Counters == [Kind -> Nat]
  <2>2. now \in [time : Nat, data : Nat, kinds : Counters]
    BY <1>2
  <2> HIDE DEF Counters
  <2>3. /\ f \in [time : Nat, data : Nat, kinds : Counters]
        /\ f.data = now.data /\ f.kinds = now.kinds /\ f.time = now.time + time
    BY <1>b, <2>1, <2>2
  <2> QED BY <2>3 DEF Counters
<1> HIDE DEF D, Local
<1>8. /\ did' \in Seq(D) /\ did' # <<>> /\ Len(did') = Len(did) /\ Len(did) \in Nat
      /\ did'[Len(did')] = f /\ \A k \in 1 .. Len(did) - 1 : did'[k] = did[k]
  BY <1>1, <1>2, <1>7, CountsFacts
<1>9. /\ WorkersOK'
      /\ worker'[w] = r /\ \A u \in Worker \ {w} : worker'[u] = worker[u]
      /\ \A u \in Worker \ {w} : Done(u)' = Done(u)
      /\ Args' = Args /\ (Measuring' <=> Measuring) /\ (Off' <=> Off) /\ Begun' = Begun
      /\ \A j \in 1 .. Len(Workers) : j # i => Workers[j] \in Worker \ {w}
  <2>1. UNCHANGED bench /\ r.at # "none" /\ r.at # "calls"
    BY <1>1, <1>6
  <2> QED BY <1>d, <1>0, <1>1, <1>6, <2>1, WorkerMoves DEF Local, Orders, Clients, Ats
<1>10. LInv' /\ left' \in 0 .. MaxCalls /\ QuietOK' /\ OwnOK'
  BY <1>0, <1>1, <1>6, <1>9, WorkerAside
<1>11. BenchOK' /\ TotalsOK'
  <2>1. data' \in Nat /\ runtime' \in Nat
    BY <1>1, <1>2, <1>3
  <2>2. TotalsOK'
    BY <1>8, <2>1 DEF TotalsOK, D
  <2> QED BY <1>1, <1>2, <1>8, <1>9, <2>2 DEF PInv, BenchOK
<1>12. SumsOK'
  <2>0. /\ worker[w].at = "calls" /\ worker'[w].at = "expect" /\ worker'[w].time = time
        /\ \A j \in 1 .. Len(Workers) : j # i => worker'[Workers[j]] = worker[Workers[j]]
    BY <1>0, <1>6, <1>9
  <2>1. IsSum(PendingData', Len(Workers), f.data - data')
    <3> DEFINE x == PendingData
               y == PendingData'
               total == now.data - data
    <3>1. \A j \in 1 .. Len(Workers) : x[j] \in Int
      BY <1>2, WorkerFacts DEF PendingData
    <3>2. y[i] = x[i] + (0 - worker[w].data) /\ 0 - worker[w].data \in Int
      BY <1>d, <1>2, <2>0 DEF PendingData
    <3>3. \A j \in (1 .. Len(Workers)) \ {i} : y[j] = x[j]
      BY <2>0 DEF PendingData
    <3>4. IsSum(x, Len(Workers), total)
      BY <1>a, <1>2 DEF PInv, SumsOK
    <3>5. IsSum(y, Len(Workers), total + (0 - worker[w].data))
      <4> HIDE DEF x, y, total
      <4> QED BY <3>1, <3>2, <3>3, <3>4, WorkerFacts, SumChange
    <3>6. total + (0 - worker[w].data) = f.data - data'
      <4>1. /\ worker[w].data \in Nat /\ data \in Nat /\ now.data \in Nat
            /\ f.data = now.data /\ data' = data + worker[w].data
        BY <1>1, <1>2, <1>3, <1>7
      <4> QED BY <4>1
    <3> QED BY <3>5, <3>6
  <2>2. IsSum(PendingTime', Len(Workers), f.time - runtime')
    <3> DEFINE x == PendingTime
               y == PendingTime'
               total == now.time - runtime
    <3>1. \A j \in 1 .. Len(Workers) : x[j] \in Int
      BY <1>2, WorkerFacts DEF PendingTime
    <3>2. y[i] = x[i] + time /\ time \in Int
      BY <1>d, <1>3, <2>0 DEF PendingTime
    <3>3. \A j \in (1 .. Len(Workers)) \ {i} : y[j] = x[j]
      BY <2>0 DEF PendingTime
    <3>4. IsSum(x, Len(Workers), total)
      BY <1>a, <1>2 DEF PInv, SumsOK
    <3>5. IsSum(y, Len(Workers), total + time)
      <4> HIDE DEF x, y, total
      <4> QED BY <3>1, <3>2, <3>3, <3>4, WorkerFacts, SumChange
    <3>6. total + time = f.time - runtime'
      BY <1>1, <1>3, <1>7
    <3> QED BY <3>5, <3>6
  <2>3. ASSUME NEW k \in Kind
        PROVE  IsSum(PendingCalls(k)', Len(Workers), Begun' * Number(p, k, 0) - f.kinds[k])
    <3> DEFINE x == PendingCalls(k)
               y == PendingCalls(k)'
    <3>1. Done(w) = 2 * Len(p) + 1
      BY <1>a, <1>0, <1>2 DEF Done
    <3>2. x[i] = 0 /\ y[i] = 0
      <4>1. x[i] = Number(p, k, 2 * Len(p) + 1)
        BY <1>a, <1>d, <2>0, <3>1 DEF PendingCalls
      <4>2. y[i] = 0
        BY <1>d, <2>0 DEF PendingCalls
      <4> QED BY <1>2, <4>1, <4>2, NumberEnd
    <3>3. \A j \in (1 .. Len(Workers)) \ {i} : y[j] = x[j]
      BY <1>9, <2>0 DEF PendingCalls
    <3>4. \A j \in 1 .. Len(Workers) : y[j] = x[j]
      BY <3>2, <3>3
    <3>5. IsSum(x, Len(Workers), Begun * Number(p, k, 0) - now.kinds[k])
      BY <1>a, <1>2 DEF PInv, SumsOK
    <3>6. Begun' * Number(p, k, 0) - f.kinds[k] = Begun * Number(p, k, 0) - now.kinds[k]
      BY <1>7, <1>9
    <3> HIDE DEF x, y
    <3>7. IsSum(y, Len(Workers), Begun * Number(p, k, 0) - now.kinds[k])
      BY <3>4, <3>5, WorkerFacts, SumSame
    <3> QED BY <3>6, <3>7 DEF y
  <2> QED BY <1>a, <1>8, <1>9, <2>1, <2>2, <2>3 DEF SumsOK
<1>13. RowsOK'
  <2>1. Len(reported \o rows) = Len(did) - 1
    BY <1>2, <1>8 DEF PInv, RowsOK, RowsExact
  <2> QED BY <1>1, <1>2, <1>8, <1>9, <2>1, SameRows DEF PInv
<1> QED BY <1>9, <1>10, <1>11, <1>12, <1>13 DEF PInv

(* A step of a worker that changes neither a total nor what is pending.    *)
LEMMA SameTotals ==
  ASSUME PInv, NEW w \in Worker, worker[w].at \in {"expect", "swap"}, worker'[w].at \in {"expect", "swap"},
         worker'[w].time = worker[w].time, \A u \in Worker \ {w} : worker'[u] = worker[u],
         UNCHANGED <<bench, runtime, data, rows, i_count, reported, did>>
  PROVE  BenchOK' /\ TotalsOK' /\ SumsOK' /\ RowsOK'
<1>1. PICK i \in 1 .. Len(Workers) : Workers[i] = w
  BY WorkerFacts
<1>2. \A j \in 1 .. Len(Workers) : j # i => worker'[Workers[j]] = worker[Workers[j]]
  BY <1>1, WorkerFacts
<1>3. /\ Measuring /\ Measuring' /\ Begun' = Begun /\ Args' = Args
  BY WorkingFacts DEF Measuring, Begun, Args
<1>4. BenchOK' /\ TotalsOK'
  BY <1>3 DEF PInv, BenchOK, TotalsOK, Off
<1>5. \A j \in 1 .. Len(Workers) : PendingData'[j] = PendingData[j] /\ PendingTime'[j] = PendingTime[j]
  BY <1>1, <1>2 DEF PendingData, PendingTime
<1>6. \A k \in Kind : \A j \in 1 .. Len(Workers) : PendingCalls(k)'[j] = PendingCalls(k)[j]
  BY <1>1, <1>2, <1>3 DEF PendingCalls, Done
<1>7. SumsOK'
  BY <1>3, <1>5, <1>6, WorkerFacts, SumSame DEF PInv, SumsOK
<1>8. RowsOK'
  BY <1>3, SameRows DEF PInv
<1> QED BY <1>4, <1>7, <1>8

(* A worker has read the total that it is to change.                       *)
LEMMA ExpectKeeps ==
  ASSUME PInv, NEW w \in Worker, Expect(w)
  PROVE  PInv'
<1> DEFINE Ats == {"none", "calls", "expect", "swap", "done"}
           Orders == Seq([op : Kind \cup {"seek", "close"}, size : Nat])
           Clients == Client \cup {NoClient}
           Local == [at : Ats, script : Orders, client : Clients, data : Nat, time : Nat, expected : Nat]
<1>a. PICK r : r = [worker[w] EXCEPT !.at = "swap", !.expected = runtime]
  OBVIOUS
<1>1. /\ worker[w].at = "expect" /\ At(w, "idle") /\ worker' = [worker EXCEPT ![w] = r]
      /\ UNCHANGED <<vars, bench, runtime, data, rows, i_count, reported, did>>
  <2>1. worker' = [worker EXCEPT ![w].at = "swap", ![w].expected = runtime]
    BY DEF Expect
  <2>2. worker' = [worker EXCEPT ![w] = r]
    BY <1>a, <2>1
  <2> QED BY <2>2 DEF Expect, InWorker
<1>2. worker[w] \in Local /\ runtime \in Nat
  BY DEF PInv, WorkersOK, TotalsOK
<1> HIDE DEF Orders, Clients, Ats
<1>3. "swap" \in Ats
  BY DEF Ats
<1>4. r \in Local /\ r.at = "swap" /\ r.time = worker[w].time
  BY <1>a, <1>2, <1>3
<1> HIDE DEF Local
<1>5. WorkersOK' /\ worker'[w] = r /\ \A u \in Worker \ {w} : worker'[u] = worker[u]
  <2>1. UNCHANGED bench /\ r.at # "none" /\ r.at # "calls"
    BY <1>1, <1>4
  <2> QED BY <1>1, <1>4, <2>1, WorkerMoves DEF Local, Orders, Clients, Ats
<1>6. LInv' /\ left' \in 0 .. MaxCalls /\ QuietOK' /\ OwnOK'
  BY <1>1, <1>4, <1>5, WorkerAside
<1>7. BenchOK' /\ TotalsOK' /\ SumsOK' /\ RowsOK'
  BY <1>1, <1>4, <1>5, SameTotals
<1> QED BY <1>5, <1>6, <1>7 DEF PInv

(* A worker whose exchange failed has read the total again.                *)
LEMMA RetryKeeps ==
  ASSUME PInv, NEW w \in Worker, Retry(w)
  PROVE  PInv'
<1> DEFINE Ats == {"none", "calls", "expect", "swap", "done"}
           Orders == Seq([op : Kind \cup {"seek", "close"}, size : Nat])
           Clients == Client \cup {NoClient}
           Local == [at : Ats, script : Orders, client : Clients, data : Nat, time : Nat, expected : Nat]
<1>a. PICK r : r = [worker[w] EXCEPT !.expected = runtime]
  OBVIOUS
<1>1. /\ worker[w].at = "swap" /\ At(w, "idle") /\ worker' = [worker EXCEPT ![w] = r]
      /\ UNCHANGED <<vars, bench, runtime, data, rows, i_count, reported, did>>
  <2>1. worker' = [worker EXCEPT ![w].expected = runtime]
    BY DEF Retry, Reread
  <2>2. worker' = [worker EXCEPT ![w] = r]
    BY <1>a, <2>1
  <2> QED BY <2>2 DEF Retry, InWorker
<1>2. worker[w] \in Local /\ runtime \in Nat
  BY DEF PInv, WorkersOK, TotalsOK
<1> HIDE DEF Orders, Clients, Ats
<1>4. r \in Local /\ r.at = "swap" /\ r.time = worker[w].time
  BY <1>a, <1>1, <1>2
<1> HIDE DEF Local
<1>5. WorkersOK' /\ worker'[w] = r /\ \A u \in Worker \ {w} : worker'[u] = worker[u]
  <2>1. UNCHANGED bench /\ r.at # "none" /\ r.at # "calls"
    BY <1>1, <1>4
  <2> QED BY <1>1, <1>4, <2>1, WorkerMoves DEF Local, Orders, Clients, Ats
<1>6. LInv' /\ left' \in 0 .. MaxCalls /\ QuietOK' /\ OwnOK'
  BY <1>1, <1>4, <1>5, WorkerAside
<1>7. BenchOK' /\ TotalsOK' /\ SumsOK' /\ RowsOK'
  BY <1>1, <1>4, <1>5, SameTotals
<1> QED BY <1>5, <1>6, <1>7 DEF PInv

(* A worker whose exchange succeeds adds its time to the total as it is:   *)
(* what it has read is what is there.                                      *)
LEMMA SwapKeeps ==
  ASSUME PInv, NEW w \in Worker, Swap(w)
  PROVE  PInv'
<1> DEFINE Ats == {"none", "calls", "expect", "swap", "done"}
           Orders == Seq([op : Kind \cup {"seek", "close"}, size : Nat])
           Clients == Client \cup {NoClient}
           Local == [at : Ats, script : Orders, client : Clients, data : Nat, time : Nat, expected : Nat]
<1>a. PICK r : r = [worker[w] EXCEPT !.at = "done"]
  OBVIOUS
<1>b. PICK i \in 1 .. Len(Workers) : Workers[i] = w
  BY WorkerFacts
<1>1. /\ worker[w].at = "swap" /\ At(w, "idle") /\ worker' = [worker EXCEPT ![w] = r]
      /\ runtime' = runtime + worker[w].time
      /\ UNCHANGED <<vars, bench, data, rows, i_count, reported, did>>
  <2>1. worker' = [worker EXCEPT ![w].at = "done"]
    BY DEF Swap
  <2>2. worker' = [worker EXCEPT ![w] = r]
    BY <1>a, <2>1
  <2> QED BY <2>2 DEF Swap, InWorker, Exchanges
<1>2. worker[w] \in Local /\ runtime \in Nat /\ worker[w].time \in Nat
  BY DEF PInv, WorkersOK, TotalsOK
<1> HIDE DEF Orders, Clients, Ats
<1>3. "done" \in Ats
  BY DEF Ats
<1>4. r \in Local /\ r.at = "done"
  BY <1>a, <1>2, <1>3
<1> HIDE DEF Local
<1>5. /\ WorkersOK' /\ worker'[w] = r /\ \A u \in Worker \ {w} : worker'[u] = worker[u]
      /\ Args' = Args /\ (Measuring' <=> Measuring) /\ Begun' = Begun
      /\ \A u \in Worker \ {w} : Done(u)' = Done(u)
      /\ \A j \in 1 .. Len(Workers) : j # i => Workers[j] \in Worker \ {w}
  <2>1. UNCHANGED bench /\ r.at # "none" /\ r.at # "calls"
    BY <1>1, <1>4
  <2> QED BY <1>b, <1>1, <1>4, <2>1, WorkerMoves DEF Local, Orders, Clients, Ats
<1>6. LInv' /\ left' \in 0 .. MaxCalls /\ QuietOK' /\ OwnOK'
  BY <1>1, <1>4, <1>5, WorkerAside
<1>7. Measuring
  BY <1>1, WorkingFacts
<1>8. BenchOK' /\ TotalsOK'
  <2>1. TotalsOK'
    BY <1>1, <1>2 DEF PInv, TotalsOK
  <2> QED BY <1>1, <2>1 DEF PInv, BenchOK, Measuring, Off, Args
<1>9. SumsOK'
  <2> DEFINE now == did[Len(did)]
  <2>0. /\ worker'[w].at = "done" /\ \A j \in 1 .. Len(Workers) : j # i => worker'[Workers[j]] = worker[Workers[j]]
    BY <1>4, <1>5
  <2>1. \A j \in 1 .. Len(Workers) : PendingData'[j] = PendingData[j]
    BY <1>b, <1>1, <2>0 DEF PendingData
  <2>2. \A k \in Kind : \A j \in 1 .. Len(Workers) : PendingCalls(k)'[j] = PendingCalls(k)[j]
    BY <1>b, <1>1, <1>5, <2>0 DEF PendingCalls
  <2>3. IsSum(PendingTime', Len(Workers), now.time - runtime')
    <3> DEFINE x == PendingTime
               y == PendingTime'
               total == now.time - runtime
    <3>1. \A j \in 1 .. Len(Workers) : x[j] \in Int
      <4>1. \A u \in Worker : worker[u].time \in Nat
        BY <1>1, WorkingFacts
      <4> QED BY <4>1, WorkerFacts DEF PendingTime
    <3>2. y[i] = x[i] + (0 - worker[w].time) /\ 0 - worker[w].time \in Int
      BY <1>b, <1>1, <1>2, <2>0 DEF PendingTime
    <3>3. \A j \in (1 .. Len(Workers)) \ {i} : y[j] = x[j]
      BY <2>0 DEF PendingTime
    <3>4. IsSum(x, Len(Workers), total)
      BY <1>7 DEF PInv, SumsOK
    <3>5. IsSum(y, Len(Workers), total + (0 - worker[w].time))
      <4> HIDE DEF x, y, total
      <4> QED BY <3>1, <3>2, <3>3, <3>4, WorkerFacts, SumChange
    <3>6. total + (0 - worker[w].time) = now.time - runtime'
      <4>1. now \in [time : Nat, data : Nat, kinds : [Kind -> Nat]]
        BY <1>1, WorkingFacts
      <4>2. now.time \in Nat
        BY <4>1
      <4> HIDE DEF now
      <4> QED BY <1>1, <1>2, <4>2
    <3> QED BY <3>5, <3>6
  <2>4. IsSum(PendingData', Len(Workers), now.data - data)
    BY <1>7, <2>1, WorkerFacts, SumSame DEF PInv, SumsOK
  <2>5. ASSUME NEW k \in Kind
        PROVE  IsSum(PendingCalls(k)', Len(Workers), Begun * Number(Args.pattern, k, 0) - now.kinds[k])
    <3>1. IsSum(PendingCalls(k), Len(Workers), Begun * Number(Args.pattern, k, 0) - now.kinds[k])
      BY <1>7 DEF PInv, SumsOK
    <3> DEFINE x == PendingCalls(k)
               y == PendingCalls(k)'
               total == Begun * Number(Args.pattern, k, 0) - now.kinds[k]
    <3>2. \A j \in 1 .. Len(Workers) : y[j] = x[j]
      BY <2>2
    <3> HIDE DEF x, y, total
    <3>3. IsSum(x, Len(Workers), total) => IsSum(y, Len(Workers), total)
      BY <3>2, WorkerFacts, SumSame
    <3> QED BY <3>1, <3>3 DEF x, y, total
  <2> QED BY <1>1, <1>5, <2>3, <2>4, <2>5 DEF SumsOK
<1>10. RowsOK'
  BY <1>1, <1>5, SameRows DEF PInv
<1> QED BY <1>5, <1>6, <1>8, <1>9, <1>10 DEF PInv

-----------------------------------------------------------------------------
(* Result.                                                                 *)

(* A list is its first n elements and the others.                          *)
LEMMA CutInTwo ==
  ASSUME NEW A, NEW r \in Seq(A), NEW s \in Seq(A), NEW n \in 1 .. Len(s)
  PROVE  /\ r \o SubSeq(s, 1, n) \in Seq(A) /\ SubSeq(s, n + 1, Len(s)) \in Seq(A)
         /\ (r \o SubSeq(s, 1, n)) \o SubSeq(s, n + 1, Len(s)) = r \o s
<1> DEFINE a == SubSeq(s, 1, n)
           b == SubSeq(s, n + 1, Len(s))
<1>1. Len(r) \in Nat /\ Len(s) \in Nat /\ \A i \in 1 .. Len(s) : s[i] \in A
  BY LenProperties
<1>2. a \in Seq(A) /\ Len(a) = n /\ \A i \in 1 .. n : a[i] = s[i]
  <2>1. \A i \in 1 .. n : s[i] \in A
    BY <1>1
  <2>2. /\ a \in Seq(A) /\ Len(a) = (IF 1 <= n THEN n - 1 + 1 ELSE 0)
        /\ \A i \in 1 .. n - 1 + 1 : a[i] = s[1 + i - 1]
    BY <1>1, <2>1, SubSeqProperties
  <2> HIDE DEF a
  <2> QED BY <1>1, <2>2
<1>3. b \in Seq(A) /\ Len(b) = Len(s) - n /\ \A i \in 1 .. Len(s) - n : b[i] = s[n + i]
  <2>1. /\ \A i \in n + 1 .. Len(s) : s[i] \in A
        /\ n + 1 \in Int /\ Len(s) \in Int
    BY <1>1
  <2>2. /\ b \in Seq(A) /\ Len(b) = (IF n + 1 <= Len(s) THEN Len(s) - (n + 1) + 1 ELSE 0)
        /\ \A i \in 1 .. Len(s) - (n + 1) + 1 : b[i] = s[(n + 1) + i - 1]
    BY <1>1, <2>1, SubSeqProperties
  <2> HIDE DEF b
  <2>3. Len(s) - (n + 1) + 1 = Len(s) - n /\ (n + 1 <= Len(s) \/ Len(s) - n = 0)
    <3>1. PICK m \in Nat, l \in Nat : m = n /\ l = Len(s) /\ m <= l
      BY <1>1
    <3>2. l - (m + 1) + 1 = l - m /\ (m + 1 <= l \/ l - m = 0)
      BY <3>1
    <3> QED BY <3>1, <3>2
  <2>4. Len(b) = Len(s) - n
    BY <1>1, <2>2, <2>3
  <2>5. ASSUME NEW i \in 1 .. Len(s) - n PROVE b[i] = s[n + i]
    <3>1. (n + 1) + i - 1 = n + i
      BY <1>1
    <3> QED BY <2>2, <2>3, <3>1
  <2> QED BY <2>2, <2>4, <2>5
<1> HIDE DEF a, b
<1>4. /\ r \o a \in Seq(A) /\ Len(r \o a) = Len(r) + n
      /\ \A i \in 1 .. Len(r) + n : (r \o a)[i] = IF i <= Len(r) THEN r[i] ELSE s[i - Len(r)]
  <2>1. /\ r \o a \in Seq(A) /\ Len(r \o a) = Len(r) + Len(a)
        /\ \A i \in 1 .. Len(r) + Len(a) : (r \o a)[i] = IF i <= Len(r) THEN r[i] ELSE a[i - Len(r)]
    BY <1>2, ConcatProperties
  <2>2. ASSUME NEW i \in 1 .. Len(r) + n
        PROVE  (r \o a)[i] = IF i <= Len(r) THEN r[i] ELSE s[i - Len(r)]
    <3>1. ~(i <= Len(r)) => i - Len(r) \in 1 .. n
      BY <1>1
    <3> QED BY <1>2, <2>1, <3>1
  <2> QED BY <1>2, <2>1, <2>2
<1> DEFINE c == r \o a
<1> HIDE DEF c
<1>5. /\ c \o b \in Seq(A) /\ Len(c \o b) = Len(r) + Len(s)
      /\ \A i \in 1 .. Len(r) + Len(s) : (c \o b)[i] = IF i <= Len(r) + n THEN c[i] ELSE b[i - (Len(r) + n)]
  <2>1. c \in Seq(A) /\ Len(c) = Len(r) + n
    BY <1>4 DEF c
  <2>2. /\ c \o b \in Seq(A) /\ Len(c \o b) = Len(c) + Len(b)
        /\ \A i \in 1 .. Len(c) + Len(b) : (c \o b)[i] = IF i <= Len(c) THEN c[i] ELSE b[i - Len(c)]
    BY <1>3, <2>1, ConcatProperties
  <2> QED BY <1>1, <1>3, <2>1, <2>2
<1>6. /\ r \o s \in Seq(A) /\ Len(r \o s) = Len(r) + Len(s)
      /\ \A i \in 1 .. Len(r) + Len(s) : (r \o s)[i] = IF i <= Len(r) THEN r[i] ELSE s[i - Len(r)]
  BY ConcatProperties
<1>7. ASSUME NEW i \in 1 .. Len(r) + Len(s) PROVE (c \o b)[i] = (r \o s)[i]
  <2>1. CASE i <= Len(r) + n
    <3>1. (c \o b)[i] = c[i]
      BY <1>5, <2>1
    <3>2. c[i] = IF i <= Len(r) THEN r[i] ELSE s[i - Len(r)]
      BY <1>1, <1>4, <2>1 DEF c
    <3> QED BY <1>6, <3>1, <3>2
  <2>2. CASE ~(i <= Len(r) + n)
    <3>1. (c \o b)[i] = b[i - (Len(r) + n)]
      BY <1>5, <2>2
    <3>2. i - (Len(r) + n) \in 1 .. Len(s) - n /\ n + (i - (Len(r) + n)) = i - Len(r) /\ ~(i <= Len(r))
      BY <1>1, <2>2
    <3>3. b[i - (Len(r) + n)] = s[i - Len(r)]
      BY <1>3, <3>2
    <3> QED BY <1>6, <3>1, <3>2, <3>3
  <2> QED BY <2>1, <2>2
<1>8. c \o b = r \o s
  BY <1>5, <1>6, <1>7, SeqEqual
<1> QED BY <1>3, <1>4, <1>8 DEF a, b, c

(* Rows are reported in their order.                                       *)
LEMMA PopKeeps ==
  ASSUME PInv, NEW n \in 1 .. Len(rows), Pop(n)
  PROVE  PInv'
<1>1. /\ rows' = SubSeq(rows, n + 1, Len(rows)) /\ reported' = reported \o SubSeq(rows, 1, n)
      /\ UNCHANGED <<vars, bench, worker, runtime, data, i_count, did>>
  BY DEF Pop
<1>2. reported' \in Seq(Row) /\ rows' \in Seq(Row) /\ reported' \o rows' = reported \o rows
  <2>1. reported \in Seq(Row) /\ rows \in Seq(Row)
    BY DEF PInv, RowsOK
  <2>2. /\ reported \o SubSeq(rows, 1, n) \in Seq(Row) /\ SubSeq(rows, n + 1, Len(rows)) \in Seq(Row)
        /\ (reported \o SubSeq(rows, 1, n)) \o SubSeq(rows, n + 1, Len(rows)) = reported \o rows
    BY <2>1, CutInTwo, ZenonT(40)
  <2> QED BY <1>1, <2>2
<1>3. (reported \o rows)' = reported \o rows
  BY <1>2
<1>4. RowsOK'
  <2>1. did' = did /\ (Measuring' <=> Measuring)
    BY <1>1 DEF Measuring
  <2> QED BY <1>2, <1>3, <2>1 DEF PInv, RowsOK, RowsExact
<1>5. LInv' /\ left' \in 0 .. MaxCalls /\ Made' = Made /\ \A t \in Thread : Ending(t)' <=> Ending(t)
  BY <1>1, SameCalls
<1>6. BenchOK' /\ WorkersOK' /\ TotalsOK'
  BY <1>1, SameBench DEF PInv, TotalsOK
<1>7. SumsOK'
  <2>1. /\ (Measuring' <=> Measuring) /\ Begun' = Begun /\ Args' = Args
        /\ PendingData' = PendingData /\ PendingTime' = PendingTime
    BY <1>1 DEF Measuring, Begun, Args, PendingData, PendingTime
  <2>2. \A k \in Kind : PendingCalls(k)' = PendingCalls(k)
    BY <1>1, <2>1 DEF PendingCalls, Done
  <2> QED BY <1>1, <2>1, <2>2 DEF PInv, SumsOK
<1>8. QuietOK' /\ OwnOK'
  <2>1. (Off' <=> Off) /\ (Measuring' <=> Measuring)
    BY <1>1 DEF Off, Measuring
  <2> QED BY <1>1, <1>5, <2>1 DEF PInv, QuietOK, OwnOK, Given, At, On, vars, shared
<1> QED BY <1>4, <1>5, <1>6, <1>7, <1>8 DEF PInv

-----------------------------------------------------------------------------
(* The program.                                                            *)

(* The threads of either program start with what they have to.             *)
LEMMA PerformanceInitOK == PerformanceInit => PInv
<1> SUFFICES ASSUME PerformanceInit
             PROVE  PInv
  OBVIOUS
<1>1. /\ worker = [w \in Worker |-> NotRun] /\ runtime = 0 /\ data = 0
      /\ rows = <<>> /\ i_count = 0 /\ reported = <<>> /\ did = <<>>
  BY DEF PerformanceInit
<1>2. bench = [NoRun EXCEPT !.at = bench.at] /\ bench.at \in {"off", "idle"} /\ ~Measuring
  BY DEF PerformanceInit, NoRun, Measuring
<1>3. LInv /\ left \in 0 .. MaxCalls
  <2>1. CASE Init
    BY <2>1, InitOK DEF LocksInv
  <2>2. CASE Start(<<>>, {Owner}, 0)
    <3>1. <<>> \in Seq(SUBSET {"r", "w"}) /\ Len(<<>>) <= MaxClients
      BY CallBounds
    <3>2. {Owner} \subseteq Thread
      BY WorkersAssumption
    <3>3. LInv
      BY <2>2, <3>1, <3>2, StartKeeps
    <3> QED BY <2>2, <3>3, CallBounds DEF Start
  <2> QED BY <2>1, <2>2 DEF PerformanceInit
<1>4. NotRun.at = "none" /\ \A w \in Worker : worker[w].at = "none"
  BY <1>1 DEF NotRun
<1>5. BenchOK /\ TotalsOK
  BY <1>1, <1>2, ArgumentAssumption DEF BenchOK, TotalsOK, NoRun
<1>6. WorkersOK
  <2>1. worker \in [Worker -> [at : {"none", "calls", "expect", "swap", "done"},
                            script : Seq([op : Kind \cup {"seek", "close"}, size : Nat]),
                            client : Client \cup {NoClient}, data : Nat, time : Nat, expected : Nat]]
    BY <1>1 DEF NotRun
  <2>2. \A i \in 1 .. Len(Workers) : worker[Workers[i]].at = "none"
    BY <1>4, WorkerFacts
  <2> QED BY <1>2, <1>4, <2>1, <2>2 DEF WorkersOK
<1>7. QuietOK /\ OwnOK
  <2>1. CASE Off
    BY <2>1 DEF QuietOK, OwnOK
  <2>2. CASE ~Off
    <3>1. Start(<<>>, {Owner}, 0) /\ bench.at = "idle"
      BY <2>2 DEF PerformanceInit, Off, NoRun
    <3>2. /\ left = 0 /\ handle = {Owner} /\ closed = {} /\ Made = {}
          /\ \A t \in Thread : thread[t].pc = "idle"
      BY <3>1 DEF Start, Made
    <3> QED BY <1>2, <1>4, <3>1, <3>2, WorkerFacts DEF QuietOK, OwnOK, Given, At, Ending
  <2> QED BY <2>1, <2>2
<1>8. SumsOK /\ RowsOK
  BY <1>1, <1>2 DEF SumsOK, RowsOK, RowsExact
<1> QED BY <1>3, <1>5, <1>6, <1>7, <1>8 DEF PInv

(* A step of either program.                                               *)
LEMMA PerformanceNextStep == PInv /\ [PerformanceNext]_allVars => PInv'
<1> SUFFICES ASSUME PInv, [PerformanceNext]_allVars
             PROVE  PInv'
  OBVIOUS
<1>1. CASE CallsStep
  BY <1>1, CallsKeep
<1>2. CASE Run
  BY <1>2, RunKeeps
<1>3. CASE Runner
  BY <1>3, LoadKeeps, LoadedKeeps, OpenKeeps, SpawnKeeps, JoinKeeps, PushKeeps DEF Runner
<1>4. ASSUME NEW w \in Worker, Works(w) PROVE PInv'
  BY <1>4, NextCallKeeps, AddDataKeeps, ExpectKeeps, SwapKeeps, RetryKeeps DEF Works
<1>5. CASE PopFront \/ PopAll
  <2>1. rows \in Seq(Row) /\ rows # <<>>
    BY <1>5 DEF PopFront, PopAll, Pop, PInv, RowsOK
  <2>2. 1 \in 1 .. Len(rows) /\ Len(rows) \in 1 .. Len(rows)
    BY <2>1, EmptySeq
  <2> QED BY <1>5, <2>2, PopKeeps DEF PopFront, PopAll
<1>6. CASE UNCHANGED allVars
  <2>1. UNCHANGED vars /\ UNCHANGED benchVars
    BY <1>6 DEF allVars
  <2>2. LInv' /\ left' \in 0 .. MaxCalls /\ Made' = Made /\ \A t \in Thread : Ending(t)' <=> Ending(t)
    BY <2>1, SameCalls
  <2>3. BenchOK' /\ TotalsOK' /\ WorkersOK' /\ SumsOK' /\ RowsOK'
    BY <2>1, SameBench, SameResults DEF PInv, benchVars
  <2>4. QuietOK' /\ OwnOK'
    <3>1. (Off' <=> Off) /\ (Measuring' <=> Measuring)
      BY <2>1 DEF Off, Measuring, benchVars
    <3> QED BY <2>1, <2>2, <3>1 DEF PInv, QuietOK, OwnOK, Given, At, On, vars, shared, benchVars
  <2> QED BY <2>2, <2>3, <2>4 DEF PInv
<1> QED BY <1>1, <1>2, <1>3, <1>4, <1>5, <1>6 DEF PerformanceNext

(* Every reachable state of a program that measures the File, or calls it, *)
(* satisfies the invariant.                                                *)
THEOREM PerformanceInvariance == PerformanceSpec => []PInv
<1> QED BY PerformanceInitOK, PerformanceNextStep, PTL DEF PerformanceSpec

-----------------------------------------------------------------------------
(* What the invariant says of the properties.                              *)

(* Of the properties of Performance.                                       *)
LEMMA PInvMeans ==
  ASSUME PInv
  PROVE  PerformanceTypeOK /\ RowsExact /\ LoadAlone
<1>1. PerformanceTypeOK
  <2>1. Len(did) \in Nat /\ did \in Seq([time : Nat, data : Nat, kinds : [Kind -> Nat]])
    BY DEF PInv, TotalsOK
  <2>2. i_count \in 0 .. Len(Arguments)
    <3>1. Len(did) <= Len(Arguments) /\ i_count = Len(did) - (IF Measuring THEN 1 ELSE 0)
      BY DEF PInv, BenchOK
    <3>2. Measuring => Len(did) > 0
      BY <2>1 DEF PInv, BenchOK
    <3>3. Len(did) \in Nat /\ Len(Arguments) \in Nat
      BY <2>1, ArgumentAssumption
    <3> QED BY <3>1, <3>2, <3>3
  <2>3. bench.attempt <= bench.args.attempts /\ bench.started <= bench.args.clients
    <3>1. CASE Measuring
      BY <3>1 DEF PInv, BenchOK, Args
    <3>2. CASE ~Measuring
      BY <3>2 DEF PInv, BenchOK, NoRun
    <3> QED BY <3>1, <3>2
  <2> QED BY <2>1, <2>2, <2>3 DEF PInv, BenchOK, TotalsOK, WorkersOK, RowsOK, PerformanceTypeOK
<1>2. RowsExact
  BY DEF PInv, RowsOK
<1>3. LoadAlone
  <2> SUFFICES ASSUME bench.at = "loading"
               PROVE  lookaside = {} /\ \A t \in Thread : At(t, "idle")
    BY DEF LoadAlone
  <2>1. Measuring
    BY DEF Measuring
  <2>2. Alive /\ ~Off /\ \A t \in Thread : ~Ending(t)
    BY <2>1, MeasuringLasts
  <2>3. closed = Made /\ \A w \in Worker : At(w, "idle")
    BY WorkersRest
  <2>4. \A t \in Thread : At(t, "idle")
    BY <2>2, <2>3 DEF PInv, QuietOK, At, Ending
  <2>5. \A c \in Made : ~Between(c)
    BY <2>4 DEF Between, At
  <2> QED BY <2>2, <2>3, <2>4, <2>5 DEF PInv, LInv, SharedOK, PlacesOK
<1> QED BY <1>1, <1>2, <1>3

(* PerformanceTypeOK: every variable of run and of Result has its type.    *)
THEOREM PerformanceTypeCorrect == PerformanceSpec => []PerformanceTypeOK
<1> QED BY PerformanceInvariance, PInvMeans, PTL

(* Each row holds the time, the data and the calls of every client of      *)
(* every round of its run, whatever the order of their additions.          *)
THEOREM RowsCorrect == PerformanceSpec => []RowsExact
<1> QED BY PerformanceInvariance, PInvMeans, PTL

(* A load, which takes no lock, is alone with the File, and no client of   *)
(* an earlier round has a place that it would move.                        *)
THEOREM LoadCorrect == PerformanceSpec => []LoadAlone
<1> QED BY PerformanceInvariance, PInvMeans, PTL

(* The properties of ClientLocks hold of a run's threads too: their types, *)
(* the lifetime of the File, and who is in it.                             *)
THEOREM RunLocksCorrect ==
  PerformanceSpec => [](LocksTypeOK /\ FileOutlivesCalls /\ AloneInside)
<1> QED BY PerformanceInvariance, LInvMeans, PTL DEF PInv

(* And of a run's clients: places are for those that are open, and a call  *)
(* that looks up its client's place finds one.                             *)
THEOREM RunPlacesCorrect == PerformanceSpec => [](PlacedIffOpen /\ PlacedWhenUsed)
<1> QED BY PerformanceInvariance, LInvMeans, PTL DEF PInv
=============================================================================
