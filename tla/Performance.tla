----------------------------- MODULE Performance ----------------------------
(***************************************************************************)
(* giga::Performance and giga::Result (src/performance.cc): run starts a   *)
(* thread for each client, in n_attempts rounds, adds up what they did in  *)
(* two atomics, and gives Result a row, which is reported later.  The      *)
(* threads make the calls of ClientLocks.                                  *)
(*                                                                         *)
(* The program is either one whose threads make calls (ClientLocks), or    *)
(* one that measures a File nobody else calls: run loads the file without  *)
(* File::l, and leaves it to its caller that this is safe.                 *)
(*                                                                         *)
(* A call that throws because of its arguments, of a File that is gone or  *)
(* of a Result without rows changes nothing: no step.  Runtimes are whole  *)
(* numbers: the rounding of doubles is left out.                           *)
(***************************************************************************)
EXTENDS ClientLocks

CONSTANTS
  Main,        \* the thread that calls Performance::run
  Owner,       \* the thread that has a pointer to the File
  Workers,     \* the threads of a round, in the order they are started
  Arguments,   \* bound: those of each run, with type and data_size in one pattern
  Times        \* bound: the time a worker's calls take

Kind    == {"read", "write", "insert", "erase"}
Worker  == Range(Workers)
Pattern == Seq([kind : Kind, size : Nat])

ASSUME WorkersAssumption ==
  /\ IsInjective(Workers) /\ Workers # <<>>
  /\ {Main, Owner} \cup Worker \subseteq Thread
  /\ Main # Owner /\ {Main, Owner} \cap Worker = {}
ASSUME TimesAssumption == Times \subseteq Nat

(* A run without an access makes a row that cannot be reported, and a      *)
(* worker without permission throws, which ends the program.               *)
ASSUME ArgumentAssumption ==
  /\ Arguments \in Seq([pattern : Pattern, clients : 1 .. Len(Workers), attempts : Nat \ {0}])
  /\ \A a \in Range(Arguments) : /\ a.pattern # <<>>
                                /\ \A i \in DOMAIN a.pattern : Needs(a.pattern[i].kind) \subseteq FileMode

VARIABLES
  bench,       \* where run is, and its arguments
  worker,      \* the locals of aux_run in each thread
  runtime,     \* the atomics of a run
  data,
  rows,        \* Result, but for what has been popped
  i_count,     \* Result::i_count
  reported,    \* history: the rows popped
  did          \* history: what the clients did in each run

benchVars == <<bench, worker, runtime, data, rows, i_count, reported, did>>
allVars   == <<vars, benchVars>>

NoRun   == [at |-> "idle", args |-> [pattern |-> <<>>, clients |-> 0, attempts |-> 0], attempt |-> 0, started |-> 0]
NotRun  == [at |-> "none", script |-> <<>>, client |-> NoClient, data |-> 0, time |-> 0, expected |-> 0]
Nothing == [time |-> 0, data |-> 0, kinds |-> [k \in Kind |-> 0]]

(* What push_back is given; tag, sizes and the miss rate are left out.     *)
Row == [index : Nat, n : Nat, time : Nat, data : Nat, kinds : [Kind -> Nat]]

PerformanceTypeOK ==
  /\ bench \in [at : {"off", "idle", "load", "loading", "open", "opening", "join", "push"},
                args : Range(Arguments) \cup {NoRun.args}, attempt : Nat, started : Nat]
  /\ bench.attempt <= bench.args.attempts /\ bench.started <= bench.args.clients
  /\ worker \in [Worker -> [at : {"none", "calls", "expect", "swap", "done"},
                            script : Seq([op : Kind \cup {"seek", "close"}, size : Nat]),
                            client : Client \cup {NoClient}, data : Nat, time : Nat, expected : Nat]]
  /\ runtime \in Nat /\ data \in Nat /\ i_count \in 0 .. Len(Arguments)
  /\ rows \in Seq(Row) /\ reported \in Seq(Row)
  /\ did \in Seq([time : Nat, data : Nat, kinds : [Kind -> Nat]])

-----------------------------------------------------------------------------
(* Performance::run.                                                       *)

Measuring == bench.at \notin {"off", "idle"}

InRun(at) == bench.at = at /\ At(Main, "idle")

RunGoes(at) == bench' = [bench EXCEPT !.at = at]

(* run makes itself a pointer to the File, and gives it up in Push.        *)
Run ==
  /\ InRun("idle") /\ Alive
  /\ Len(did) < Len(Arguments)
  /\ bench' = [NoRun EXCEPT !.at = "load", !.args = Arguments[Len(did) + 1]]
  /\ runtime' = 0 /\ data' = 0
  /\ did' = Append(did, Nothing)
  /\ handle' = handle \cup {Main}
  /\ UNCHANGED <<clients, lookaside, mode, closed, clientLock, fileLock, thread, left,
                 worker, rows, i_count, reported>>

(* The load of a round, without a lock, from here to Loaded.               *)
Load ==
  /\ InRun("load")
  /\ RunGoes("loading")
  /\ worker' = [w \in Worker |-> NotRun]
  /\ UNCHANGED <<vars, runtime, data, rows, i_count, reported, did>>

Loaded ==
  /\ InRun("loading")
  /\ bench' = [bench EXCEPT !.at = "open", !.started = 0]
  /\ UNCHANGED <<vars, worker, runtime, data, rows, i_count, reported, did>>

Open ==
  /\ InRun("open")
  /\ FileCall(Main, "new")
  /\ RunGoes("opening")
  /\ UNCHANGED <<left, worker, runtime, data, rows, i_count, reported, did>>

(* The calls of aux_run.                                                   *)
Script(p) ==
  [i \in 1 .. 2 * Len(p) + 1 |->
     IF i = 2 * Len(p) + 1 THEN [op |-> "close", size |-> 0]
     ELSE IF i % 2 = 1 THEN [op |-> "seek", size |-> 0]
     ELSE [op |-> p[i \div 2].kind, size |-> p[i \div 2].size]]

(* The client that File::open gave goes to a thread of its own.            *)
Spawn ==
  /\ InRun("opening")
  /\ LET i == bench.started + 1 IN
     /\ worker' = [worker EXCEPT ![Workers[i]] =
                     [NotRun EXCEPT !.at = "calls", !.script = Script(bench.args.pattern), !.client = On(Main)]]
     /\ bench' = [bench EXCEPT !.at = IF i = bench.args.clients THEN "join" ELSE "open", !.started = i]
  /\ UNCHANGED <<vars, runtime, data, rows, i_count, reported, did>>

(* Mutant of Joined: the last client's thread is not joined.               *)
JoinedButLast == \A i \in 1 .. bench.args.clients - 1 : worker[Workers[i]].at = "done"

Joined == \A i \in 1 .. bench.args.clients : worker[Workers[i]].at = "done"

(* Mutant of LastAttempt: attempt <= n_attempts.                           *)
LastAttemptLate == bench.attempt = bench.args.attempts

LastAttempt == bench.attempt + 1 = bench.args.attempts

Join ==
  /\ InRun("join") /\ Joined
  /\ bench' = [bench EXCEPT !.at = IF LastAttempt THEN "push" ELSE "load", !.attempt = @ + 1]
  /\ UNCHANGED <<vars, worker, runtime, data, rows, i_count, reported, did>>

InAll(n) == n * bench.args.attempts * bench.args.clients

(* type_tracker: the calls of a kind that a run is to make.                *)
Calling(k) == InAll(Cardinality({i \in DOMAIN bench.args.pattern : bench.args.pattern[i].kind = k}))

Push ==
  /\ InRun("push")
  /\ rows' = Append(rows, [index |-> i_count, n |-> InAll(Len(bench.args.pattern)),
                           time |-> runtime, data |-> data, kinds |-> [k \in Kind |-> Calling(k)]])
  /\ i_count' = i_count + 1
  /\ bench' = NoRun
  /\ Drop(Main)
  /\ UNCHANGED <<left, worker, runtime, data, reported, did>>

Runner == Load \/ Loaded \/ Open \/ Spawn \/ Join \/ Push

-----------------------------------------------------------------------------
(* Performance::aux_run.                                                   *)

InWorker(w, at) == worker[w].at = at /\ At(w, "idle")

Counts(f) == did' = [did EXCEPT ![Len(did)] = f]

NextCall(w) ==
  /\ InWorker(w, "calls")
  /\ worker[w].script # <<>>
  /\ LET call == Head(worker[w].script)
         now  == did[Len(did)]
     IN
     /\ Call(w, worker[w].client, call.op)
     /\ worker' = [worker EXCEPT ![w].script = Tail(@), ![w].data = @ + call.size]
     /\ Counts([now EXCEPT !.data = @ + call.size,
                           !.kinds = [k \in Kind |-> IF k = call.op THEN @[k] + 1 ELSE @[k]]])
  /\ UNCHANGED <<left, bench, runtime, data, rows, i_count, reported>>

AddData(w, time) ==
  /\ InWorker(w, "calls")
  /\ worker[w].script = <<>>
  /\ data' = data + worker[w].data
  /\ worker' = [worker EXCEPT ![w].at = "expect", ![w].time = time]
  /\ Counts([did[Len(did)] EXCEPT !.time = @ + time])
  /\ UNCHANGED <<vars, bench, runtime, rows, i_count, reported>>

Expect(w) ==
  /\ InWorker(w, "expect")
  /\ worker' = [worker EXCEPT ![w].at = "swap", ![w].expected = runtime]
  /\ UNCHANGED <<vars, bench, runtime, data, rows, i_count, reported, did>>

(* Mutant of Exchanges: a store.                                           *)
ExchangesAlways(w) == worker[w].at = "swap"

(* compare_exchange_weak; when it fails for no reason it changes nothing.  *)
Exchanges(w) == worker[w].expected = runtime

(* Mutant of Reread: expected stays what it was.                           *)
RereadNever(w) == worker[w].expected

Reread(w) == runtime

Swap(w) ==
  /\ InWorker(w, "swap") /\ Exchanges(w)
  /\ runtime' = worker[w].expected + worker[w].time
  /\ worker' = [worker EXCEPT ![w].at = "done"]
  /\ UNCHANGED <<vars, bench, data, rows, i_count, reported, did>>

Retry(w) ==
  /\ InWorker(w, "swap") /\ ~Exchanges(w)
  /\ worker' = [worker EXCEPT ![w].expected = Reread(w)]
  /\ UNCHANGED <<vars, bench, runtime, data, rows, i_count, reported, did>>

Works(w) == NextCall(w) \/ (\E time \in Times : AddData(w, time)) \/ Expect(w) \/ Swap(w) \/ Retry(w)

-----------------------------------------------------------------------------
(* Result::pop_front and to_string, between runs.                          *)

Pop(n) ==
  /\ InRun("idle")
  /\ rows # <<>>
  /\ reported' = reported \o SubSeq(rows, 1, n)
  /\ rows' = SubSeq(rows, n + 1, Len(rows))
  /\ UNCHANGED <<vars, bench, worker, runtime, data, i_count, did>>

PopFront == Pop(1)
PopAll   == Pop(Len(rows))

(* get_read, get_write, get_insert, get_erase: a quotient of integers.     *)
Share(row, k) == (row.kinds[k] \div row.n) * 100

-----------------------------------------------------------------------------
PerformanceInit ==
  /\ \/ Init /\ bench = [NoRun EXCEPT !.at = "off"]
     \/ Start(<<>>, {Owner}, 0) /\ bench = NoRun
  /\ worker = [w \in Worker |-> NotRun]
  /\ runtime = 0 /\ data = 0
  /\ rows = <<>> /\ i_count = 0
  /\ reported = <<>> /\ did = <<>>

(* The pointer of a run is not dropped before its end.                     *)
CallsStep ==
  /\ Next
  /\ Measuring => Main \in handle'
  /\ UNCHANGED benchVars

PerformanceNext ==
  \/ CallsStep
  \/ Run
  \/ Runner
  \/ \E w \in Worker : Works(w)
  \/ PopFront
  \/ PopAll

GoesOn(t) ==
  \/ (Runs(t) \/ WorkNew(t, FileMode)) /\ UNCHANGED <<left, benchVars>>
  \/ t = Main /\ Runner
  \/ t \in Worker /\ Works(t)

(* A thread is scheduled, in a call or in what run has it do.              *)
PerformanceFairness == \A t \in Thread : WF_allVars(GoesOn(t))

PerformanceSpec == PerformanceInit /\ [][PerformanceNext]_allVars /\ PerformanceFairness

-----------------------------------------------------------------------------
(* Properties.                                                             *)

(* The rows of Result, popped or not, are those of the runs in order, and  *)
(* each holds the time, the data and the calls of every client of every    *)
(* round of its run: nothing that two clients add at a time is lost.       *)
RowsExact ==
  LET all == reported \o rows IN
  /\ Len(all) = Len(did) - (IF Measuring THEN 1 ELSE 0)
  /\ \A k \in 1 .. Len(all) :
       /\ all[k].index = k - 1
       /\ all[k].time = did[k].time /\ all[k].data = did[k].data /\ all[k].kinds = did[k].kinds
       /\ all[k].n = all[k].kinds["read"] + all[k].kinds["write"] + all[k].kinds["insert"] + all[k].kinds["erase"]

(* While run loads the file, without File::l, nobody is in a call and no   *)
(* client of an earlier round has a place that the load would move.        *)
LoadAlone ==
  bench.at = "loading" => lookaside = {} /\ \A t \in Thread : At(t, "idle")

(* A run ends: its clients get their locks, and their compare-exchange     *)
(* succeeds in the end.                                                    *)
RunEnds == Measuring ~> ~Measuring
=============================================================================
