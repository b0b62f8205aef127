---------------------------- MODULE PtraceThread ----------------------------
(***************************************************************************)
(* One traced thread as the Linux kernel presents it to its tracer.  This  *)
(* is not code of the repository: it is modelled from the requests that    *)
(* source/SpiedThread.cpp, source/SpiedProgram.cpp and include/Tracer.h    *)
(* make, and it is as nondeterministic as those requests allow.            *)
(*                                                                         *)
(* A thread stops for a reason: "start" (the SIGSTOP of a thread created   *)
(* under PTRACE_O_TRACECLONE), the SIGTRAPs "step", "break", "watch" and   *)
(* "clone", or the signals "STOP", "TERM", "SEGV" and "USR" (any other).   *)
(* The reason waits in event until waitpid collects it, as do "EXITED",    *)
(* "TERMINATED" and "CONT", the report (WCONTINUED) that SIGCONT was sent  *)
(* to the program during a stop of all its threads.  rip tells apart "at", *)
(* the address of a breakpoint, "bp", one byte further, where its INT3     *)
(* leaves the thread, other code, and places where only a jump leads.      *)
(***************************************************************************)
EXTENDS Integers, FiniteSets

CONSTANTS
  Reasons,   \* the spontaneous events that are considered
  NbWatch,   \* WatchPoint::maxNb
  MaxStops   \* bound: stops of the thread

ASSUME KernelAssumption ==
  /\ Reasons \subseteq {"watch", "clone", "SEGV", "STOP", "USR", "EXITED", "CONT"}
  /\ NbWatch \in Nat
  /\ MaxStops \in Nat

WatchIdx == 0 .. NbWatch - 1
Reached == {"code", "at"}  \* where the thread goes by itself

VARIABLES
  run,     \* "running", "stepping", "stopped" or "dead"
  event,   \* what waitpid has yet to report, or "none"
  reason,  \* why the thread last stopped
  pending, \* signals sent to the thread and not delivered
  rip,
  dr6,     \* the watchpoints whose bit is set in DR6
  word,    \* what is at the breakpoint's address: "insn" or "int3"
  stops    \* stops so far

kernelVars == <<run, event, reason, pending, rip, dr6, word, stops>>

KernelInit ==
  /\ run = "stopped" /\ event = "start" /\ reason = "start"
  /\ pending = {}
  /\ rip = "code"
  /\ dr6 = {} /\ word = "insn"
  /\ stops = 1

Executing == run \in {"running", "stepping"}

StopFor(why) ==
  /\ Executing /\ stops < MaxStops
  /\ run' = "stopped" /\ event' = why /\ reason' = why
  /\ stops' = stops + 1

-----------------------------------------------------------------------------
(* What the thread does by itself.                                         *)

\* A step of the INT3 is no step: it traps as Int3 does.
StepDone ==
  /\ run = "stepping" /\ ~(rip = "at" /\ word = "int3")
  /\ StopFor("step")
  /\ rip' \in Reached
  /\ UNCHANGED <<pending, dr6, word>>

Int3 ==
  /\ word = "int3" /\ (run = "stepping" => rip = "at")
  /\ StopFor("break")
  /\ rip' = "bp"
  /\ UNCHANGED <<pending, dr6, word>>

\* The signal is taken before the next instruction, or after some.
SignalTaken ==
  \E s \in pending :
    /\ StopFor(s)
    /\ pending' = pending \ {s}
    /\ rip' \in {rip} \cup Reached
    /\ UNCHANGED <<dr6, word>>

\* A stepped instruction may also be a system call or a fault.  A thread may
\* send SIGSTOP to itself, as every main thread does (DynamicNamespace.cpp:100).
Spontaneous ==
  /\ \/ /\ "watch" \in Reasons /\ StopFor("watch")
        /\ \E i \in WatchIdx : dr6' = dr6 \cup {i}
     \/ \E why \in Reasons \cap {"clone", "SEGV", "STOP", "USR"} :
          StopFor(why) /\ UNCHANGED dr6
  /\ rip' \in Reached
  /\ UNCHANGED <<pending, word>>

\* The thread, or its whole group while it is stopped, exits.
Exits ==
  /\ "EXITED" \in Reasons
  /\ run # "dead"
  /\ run' = "dead" /\ event' = "EXITED"
  /\ UNCHANGED <<reason, pending, rip, dr6, word, stops>>

\* The flag is one of the whole program: this thread may run or be stopped.
ReportsContinued ==
  /\ "CONT" \in Reasons
  /\ run # "dead" /\ event = "none"
  /\ event' = "CONT"
  /\ UNCHANGED <<run, reason, pending, rip, dr6, word, stops>>

ThreadStep ==
  StepDone \/ Int3 \/ SignalTaken \/ Spontaneous \/ Exits \/ ReportsContinued

-----------------------------------------------------------------------------
(* The requests of its tracer.  Only a stopped thread accepts one; the     *)
(* others fail with ESRCH.  Resuming discards an event not yet collected.  *)

Accepts == run = "stopped"

\* A signal injected into a signal-delivery stop is delivered: it may kill.
Continue(sig) ==
  \/ /\ Accepts
     /\ run' = "running" /\ event' = "none"
     /\ UNCHANGED <<reason, pending, rip, dr6, word, stops>>
  \/ /\ Accepts /\ sig # "none" /\ reason # "clone"
     /\ run' = "dead" /\ event' = "TERMINATED"
     /\ UNCHANGED <<reason, pending, rip, dr6, word, stops>>
  \/ /\ ~Accepts
     /\ UNCHANGED kernelVars

SingleStepRequest ==
  /\ run' = IF Accepts THEN "stepping" ELSE run
  /\ event' = IF Accepts THEN "none" ELSE event
  /\ UNCHANGED <<reason, pending, rip, dr6, word, stops>>

SetRip(value) ==
  /\ rip' = IF Accepts THEN value ELSE rip
  /\ UNCHANGED <<run, event, reason, pending, dr6, word, stops>>

SetDr6Request(value) ==
  /\ dr6' = IF Accepts THEN value ELSE dr6
  /\ UNCHANGED <<run, event, reason, pending, rip, word, stops>>

Kill(sig) ==
  /\ pending' = IF run = "dead" THEN pending ELSE pending \cup {sig}
  /\ UNCHANGED <<run, event, reason, rip, dr6, word, stops>>

\* A word of the program, which the thread shares with its stopped starter.
Poke(value) ==
  /\ word' = IF run = "dead" THEN word ELSE value
  /\ UNCHANGED <<run, event, reason, pending, rip, dr6, stops>>

\* waitpid reports the event once.
Collect ==
  /\ event # "none"
  /\ event' = "none"
  /\ UNCHANGED <<run, reason, pending, rip, dr6, word, stops>>
=============================================================================
