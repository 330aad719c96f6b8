---------------------------- MODULE MCPerformance ---------------------------
(***************************************************************************)
(* Performance with two callers, or with a main thread, the owner of the   *)
(* File and two workers, for TLC.                                          *)
(***************************************************************************)
EXTENDS Performance

CONSTANTS main, owner, w1, w2

MCThread   == {main, owner, w1, w2}
MCCaller   == {main, owner}
MCWorkers  == <<w1, w2>>
MCFileMode == {"r", "w"}

(* The callers have two clients: one may do all, the other only read.      *)
MCClientModes == {{"r"}}

(* New clients are opened by the main thread of a run.                     *)
MCCalls == {"write", "get_pos", "open", "close", "save"}

MCArguments ==
  <<[pattern |-> <<[kind |-> "write", size |-> 2]>>, clients |-> 2, attempts |-> 2],
    [pattern |-> <<[kind |-> "insert", size |-> 1], [kind |-> "erase", size |-> 2]>>, clients |-> 1, attempts |-> 1]>>

-----------------------------------------------------------------------------
(* performance.md:23, of the columns of a report: "the percentage of read  *)
(* / write / insert / erase calls being made".  To less than one percent,  *)
(* in whichever direction it is rounded.                                   *)
SharesAreCalls ==
  \A i \in 1 .. Len(reported), k \in Kind :
    LET all == reported[i].n IN
    Share(reported[i], k) * all - 100 * did[i].kinds[k] \in 1 - all .. all - 1
=============================================================================
