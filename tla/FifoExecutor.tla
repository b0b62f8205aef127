---------------------------- MODULE FifoExecutor ----------------------------
(***************************************************************************)
(* What the two service threads of SpyTester promise to their callers: a   *)
(* job handed over is run at most once, by one thread, one job at a time,  *)
(* in the order in which the jobs were handed over.  CallbackHandler       *)
(* (which pops a job before it runs it) and Tracer (which pops it only     *)
(* afterwards) both implement this module.                                 *)
(*                                                                         *)
(* submitted, started and finished are the jobs handed over, begun and     *)
(* completed so far, each in the order in which that happened.             *)
(***************************************************************************)
EXTENDS Integers, Sequences

CONSTANT Jobs

VARIABLES submitted, started, finished

vars == <<submitted, started, finished>>

Init == submitted = <<>> /\ started = <<>> /\ finished = <<>>

Submit(j) ==
  /\ submitted' = Append(submitted, j)
  /\ UNCHANGED <<started, finished>>

\* No job is running, and the next one in submission order begins.
Start ==
  /\ Len(started) = Len(finished)
  /\ Len(started) < Len(submitted)
  /\ started' = Append(started, submitted[Len(started) + 1])
  /\ UNCHANGED <<submitted, finished>>

Finish ==
  /\ Len(finished) < Len(started)
  /\ finished' = Append(finished, started[Len(finished) + 1])
  /\ UNCHANGED <<submitted, started>>

Next == (\E j \in Jobs : Submit(j)) \/ Start \/ Finish

Spec == Init /\ [][Next]_vars
=============================================================================
