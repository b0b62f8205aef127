------------------------------- MODULE Tracer -------------------------------
(***************************************************************************)
(* Tracer (include/Tracer.h, source/Tracer.cpp): the one thread allowed to *)
(* issue ptrace requests.  It creates the tracee, hands its pid back       *)
(* through a promise, then runs the commands other threads queue with      *)
(* commandPTrace, tkill and writeWord.  Unlike CallbackHandler it runs a   *)
(* command through a reference to the front of the queue and pops it only  *)
(* afterwards, and it tests its state before it waits, not after.          *)
(*                                                                         *)
(* The starter is the process Tracer::preStart runs in: it stops itself,   *)
(* is continued, creates the main thread (a PTRACE_EVENT_CLONE stop), is   *)
(* continued, and parks in a second SIGSTOP.  It may die at any moment.    *)
(*                                                                         *)
(* A command is identified by its caller and the number of the call.       *)
(* pushed, begun, ended and late are history, as in CallbackHandler.  What *)
(* a command does to the tracee is modelled in SpiedThread.                *)
(***************************************************************************)
EXTENDS Integers, Sequences

CONSTANTS
  Clients,    \* the threads that queue commands
  Survivors,  \* those that may still do so while ~Tracer runs: the callback
              \* thread, since _callbackHandler is destroyed after _tracer
  Worker,     \* the thread _tracer
  NoOne,      \* owner of a free mutex
  MaxCalls,   \* bound: commands queued by one thread
  MaxIntr     \* bound: signals that interrupt sem_wait

ASSUME ConstantsAssumption ==
  /\ Survivors \subseteq Clients
  /\ Worker \notin Clients
  /\ NoOne \notin Clients \cup {Worker}
  /\ MaxCalls \in Nat
  /\ MaxIntr \in Nat

Commands == Clients \X (1 .. MaxCalls)

VARIABLES
  state,      \* _state
  commands,   \* _commands
  mutex,      \* owner of _cmdsMutex
  sem,        \* value of _cmdsSem
  wpc,        \* where the worker is in trace
  current,    \* the command the reference of line 87 denotes
  cpc, calls, \* where each client is in commandPTrace or tkill, and its calls
  opc,        \* where the owner is: startTracing, normal use, ~Tracer
  starter,    \* the process cloned by createTracee
  intr,       \* interruptions of sem_wait so far
  pushed, begun, ended, late

vars == <<state, commands, mutex, sem, wpc, current, cpc, calls, opc, starter,
          intr, pushed, begun, ended, late>>

history == <<pushed, begun, ended, late>>
queueVars == <<commands, mutex, sem>>
clientVars == <<cpc, calls>>

Init ==
  /\ state = "NOT_STARTED"
  /\ commands = <<>> /\ mutex = NoOne /\ sem = 0
  /\ wpc = "unstarted"
  /\ current = <<Worker, 0>>
  /\ cpc = [c \in Clients |-> "idle"]
  /\ calls = [c \in Clients |-> 0]
  /\ opc = "constructed"
  /\ starter = "none"
  /\ intr = 0
  /\ pushed = <<>> /\ begun = <<>> /\ ended = <<>> /\ late = {}

-----------------------------------------------------------------------------
(* startTracing and the tracee's creation.                                 *)

StartTracing ==
  /\ opc = "constructed"
  /\ opc' = "starting"
  /\ wpc' = "clone"
  /\ UNCHANGED <<state, queueVars, current, clientVars, starter, intr, history>>

Clone ==
  /\ wpc = "clone"
  /\ \/ starter' = "fresh" /\ wpc' = "wait1"
     \/ starter' = "none" /\ wpc' = "promise"
  /\ UNCHANGED <<state, queueVars, current, clientVars, opc, intr, history>>

\* Waits for the starter's own SIGSTOP, then sets the options and continues it.
WaitPreStart ==
  /\ wpc = "wait1"
  /\ \/ starter = "stopped" /\ starter' = "creating"
     \/ starter = "dead" /\ starter' = "dead"
  /\ wpc' = "wait2"
  /\ UNCHANGED <<state, queueVars, current, clientVars, opc, intr, history>>

\* Waits for the clone event of the main thread and continues the starter.
WaitMainThread ==
  /\ wpc = "wait2"
  /\ \/ starter = "cloneStop" /\ starter' = "finishing"
     \/ starter = "dead" /\ starter' = "dead"
  /\ wpc' = "promise"
  /\ UNCHANGED <<state, queueVars, current, clientVars, opc, intr, history>>

\* Mutant: the pid is promised only when there is a tracee.
SetPromiseIfCreated ==
  /\ wpc = "promise" /\ starter # "none"
  /\ wpc' = "starting"
  /\ UNCHANGED <<state, queueVars, current, clientVars, opc, starter, intr,
                 history>>

\* promise.set_value, whatever became of the clone.
SetPromise ==
  /\ wpc = "promise"
  /\ wpc' = "starting"
  /\ UNCHANGED <<state, queueVars, current, clientVars, opc, starter, intr,
                 history>>

PromiseSet == wpc \notin {"unstarted", "clone", "wait1", "wait2", "promise"}

StartTracingReturns ==
  /\ opc = "starting" /\ PromiseSet
  /\ opc' = "alive"
  /\ UNCHANGED <<state, queueVars, wpc, current, clientVars, starter, intr,
                 history>>

\* preStart and createMainThread, between two of the tracer's continuations.
StarterAdvances ==
  /\ \/ starter = "fresh" /\ starter' = "stopped"
     \/ starter = "creating" /\ starter' = "cloneStop"
     \/ starter = "finishing" /\ starter' = "parked"
  /\ UNCHANGED <<state, queueVars, wpc, current, clientVars, opc, intr, history>>

StarterDies ==
  /\ starter \notin {"none", "dead"}
  /\ starter' = "dead"
  /\ UNCHANGED <<state, queueVars, wpc, current, clientVars, opc, intr, history>>

-----------------------------------------------------------------------------
(* commandPTrace, tkill and writeWord (a commandPTrace).                   *)

\* A callback exists only if the tracee has had an event.
MayCall(c) ==
  \/ opc = "alive" /\ c \notin Survivors
  \/ opc \in {"alive", "post", "join"} /\ c \in Survivors /\ starter # "none"

Call(c) ==
  /\ cpc[c] = "idle" /\ MayCall(c) /\ calls[c] < MaxCalls
  /\ cpc' = [cpc EXCEPT ![c] = "lock"]
  /\ calls' = [calls EXCEPT ![c] = @ + 1]
  /\ UNCHANGED <<state, queueVars, wpc, current, opc, starter, intr, history>>

Lock(c) ==
  /\ cpc[c] = "lock" /\ mutex = NoOne
  /\ mutex' = c
  /\ cpc' = [cpc EXCEPT ![c] = "locked"]
  /\ UNCHANGED <<state, commands, sem, wpc, current, calls, opc, starter, intr,
                 history>>

PushThen(c, label) ==
  /\ cpc[c] = "locked"
  /\ commands' = Append(commands, <<c, calls[c]>>)
  /\ mutex' = NoOne
  /\ cpc' = [cpc EXCEPT ![c] = label]
  /\ pushed' = Append(pushed, <<c, calls[c]>>)
  /\ late' = IF wpc \in {"starting", "check", "exited"}
             THEN late \cup {<<c, calls[c]>>} ELSE late
  /\ UNCHANGED <<state, sem, wpc, current, calls, opc, starter, intr, begun,
                 ended>>

\* Mutant: the semaphore is not posted.
PushWithoutPost(c) == PushThen(c, "idle")

Push(c) == PushThen(c, "post")

\* The caller drops the future (or has none, for tkill), or goes on to wait.
Post(c) ==
  /\ cpc[c] = "post"
  /\ sem' = sem + 1
  /\ \E next \in {"idle", "wait"} : cpc' = [cpc EXCEPT ![c] = next]
  /\ UNCHANGED <<state, commands, mutex, wpc, current, calls, opc, starter,
                 intr, history>>

\* The promise has its value, or the queue that held it has been destroyed.
FutureReady(c) ==
  /\ cpc[c] = "wait"
  /\ (\E i \in 1 .. Len(ended) : ended[i] = <<c, calls[c]>>) \/ opc = "gone"
  /\ cpc' = [cpc EXCEPT ![c] = "idle"]
  /\ UNCHANGED <<state, queueVars, wpc, current, calls, opc, starter, intr,
                 history>>

-----------------------------------------------------------------------------
(* The loop of trace.                                                      *)

SetStarting ==
  /\ wpc = "starting"
  /\ state' = "STARTING"
  /\ wpc' = "check"
  /\ UNCHANGED <<queueVars, current, clientVars, opc, starter, intr, history>>

CheckState ==
  /\ wpc = "check"
  /\ wpc' = IF state = "STOPPED" THEN "exited" ELSE "semwait"
  /\ UNCHANGED <<state, queueVars, current, clientVars, opc, starter, intr,
                 history>>

\* Mutant: the state is tested again before the queue is drained.
SemWaitThenCheck ==
  /\ wpc = "semwait" /\ sem > 0
  /\ sem' = sem - 1
  /\ wpc' = "check"
  /\ UNCHANGED <<state, commands, mutex, current, clientVars, opc, starter,
                 intr, history>>

SemWait ==
  /\ wpc = "semwait" /\ sem > 0
  /\ sem' = sem - 1
  /\ wpc' = "lock"
  /\ UNCHANGED <<state, commands, mutex, current, clientVars, opc, starter,
                 intr, history>>

\* The result of sem_wait is not looked at: an interruption is a wake-up.
SemWaitInterrupted ==
  /\ wpc = "semwait" /\ sem = 0 /\ intr < MaxIntr
  /\ intr' = intr + 1
  /\ wpc' = "lock"
  /\ UNCHANGED <<state, queueVars, current, clientVars, opc, starter, history>>

WorkerLock ==
  /\ mutex = NoOne
  /\ mutex' = Worker
  /\ \/ wpc = "lock" /\ wpc' = "test"
     \/ wpc = "relock" /\ wpc' = "pop"
  /\ UNCHANGED <<state, commands, sem, current, clientVars, opc, starter, intr,
                 history>>

FrontThen(command) ==
  /\ wpc = "test" /\ commands # <<>>
  /\ current' = command
  /\ mutex' = NoOne
  /\ wpc' = "run"
  /\ begun' = Append(begun, command)
  /\ UNCHANGED <<state, commands, sem, clientVars, opc, starter, intr, pushed,
                 ended, late>>

\* Mutant: the newest command is run, and the oldest popped.
Back == FrontThen(commands[Len(commands)])

\* The front is referenced, the mutex released, and the call begins.
Front == FrontThen(Head(commands))

\* The request has been issued and its promise, if it has one, set.
CommandReturns ==
  /\ wpc = "run"
  /\ ended' = Append(ended, current)
  /\ wpc' = "relock"
  /\ UNCHANGED <<state, queueVars, current, clientVars, opc, starter, intr,
                 pushed, begun, late>>

Pop ==
  /\ wpc = "pop"
  /\ commands' = Tail(commands)
  /\ wpc' = "test"
  /\ UNCHANGED <<state, mutex, sem, current, clientVars, opc, starter, intr,
                 history>>

Drained ==
  /\ wpc = "test" /\ commands = <<>>
  /\ mutex' = NoOne
  /\ wpc' = "check"
  /\ UNCHANGED <<state, commands, sem, current, clientVars, opc, starter, intr,
                 history>>

-----------------------------------------------------------------------------
(* ~Tracer.  ~SpiedProgram runs it after joining the event listener, whose *)
(* loop ends only when the process has no child left, and from the thread  *)
(* that owned the program.                                                 *)

MayDestroy ==
  /\ opc = "alive"
  /\ starter \in {"none", "dead"}
  /\ \A c \in Clients \ Survivors : cpc[c] = "idle"

DestructorThen(label) ==
  /\ MayDestroy
  /\ state' = "STOPPED"
  /\ opc' = label
  /\ UNCHANGED <<queueVars, wpc, current, clientVars, starter, intr, history>>

\* Mutant: the destructor joins without waking the worker.
SetStoppedWithoutPost == DestructorThen("join")

SetStopped == DestructorThen("post")

DestructorPost ==
  /\ opc = "post"
  /\ sem' = sem + 1
  /\ opc' = "join"
  /\ UNCHANGED <<state, commands, mutex, wpc, current, clientVars, starter,
                 intr, history>>

Join ==
  /\ opc = "join" /\ wpc = "exited"
  /\ opc' = "gone"
  /\ UNCHANGED <<state, queueVars, wpc, current, clientVars, starter, intr,
                 history>>

-----------------------------------------------------------------------------
CreateTracee == Clone \/ WaitPreStart \/ WaitMainThread

Trace ==
  \/ CreateTracee \/ SetPromise \/ SetStarting \/ CheckState \/ SemWait
  \/ WorkerLock \/ Front \/ CommandReturns \/ Pop \/ Drained

Queue(c) == Lock(c) \/ Push(c) \/ Post(c)

Next ==
  \/ StartTracing \/ StartTracingReturns
  \/ StarterAdvances \/ StarterDies
  \/ Trace \/ SemWaitInterrupted
  \/ \E c \in Clients : Call(c) \/ Queue(c) \/ FutureReady(c)
  \/ SetStopped \/ DestructorPost \/ Join

Spec == Init /\ [][Next]_vars

(* Every thread inside one of these functions keeps being scheduled, the   *)
(* starter included; no thread is obliged to call one, the starter need    *)
(* not die and no signal need arrive.  The mutex is not fair, but a thread *)
(* that holds it needs no other, and callers are bounded.                  *)
Fairness ==
  /\ WF_vars(StartTracing) /\ WF_vars(StartTracingReturns)
  /\ WF_vars(StarterAdvances)
  /\ WF_vars(Trace)
  /\ \A c \in Clients : WF_vars(Queue(c)) /\ WF_vars(FutureReady(c))
  /\ WF_vars(DestructorPost) /\ WF_vars(Join)

FairSpec == Spec /\ Fairness

-----------------------------------------------------------------------------
States == {"NOT_STARTED", "STARTING", "STOPPED"}

WorkerPcs ==
  {"unstarted", "clone", "wait1", "wait2", "promise", "starting", "check",
   "semwait", "lock", "test", "run", "relock", "pop", "exited"}

OwnerPcs == {"constructed", "starting", "alive", "post", "join", "gone"}

StarterStates ==
  {"none", "fresh", "stopped", "creating", "cloneStop", "finishing", "parked",
   "dead"}

TypeOK ==
  /\ state \in States
  /\ commands \in Seq(Commands)
  /\ mutex \in Clients \cup {Worker, NoOne}
  /\ sem \in Nat
  /\ wpc \in WorkerPcs
  /\ current \in (Clients \cup {Worker}) \X (0 .. MaxCalls)
  /\ cpc \in [Clients -> {"idle", "lock", "locked", "post", "wait"}]
  /\ calls \in [Clients -> 0 .. MaxCalls]
  /\ opc \in OwnerPcs
  /\ starter \in StarterStates
  /\ intr \in 0 .. MaxIntr
  /\ pushed \in Seq(Commands)
  /\ begun \in Seq(Commands)
  /\ ended \in Seq(Commands)
  /\ late \subseteq Commands

(* The worker never sleeps on a command nobody will wake it for, wherever  *)
(* between its test of the queue and its sem_wait a command is pushed.     *)
NoLostWakeup ==
  (wpc \in {"starting", "check", "semwait"} /\ commands # <<>>)
    => (sem > 0 \/ \E c \in Clients : cpc[c] = "post")

(* The command popped at line 93 is the one run at line 90, although the   *)
(* queue was open to the other threads in between.                         *)
PopsWhatItRan ==
  (wpc \in {"run", "relock", "pop"}) => (commands # <<>> /\ Head(commands) = current)

(* Commands run in the order of the pushes, one at a time, none twice.     *)
Executor == INSTANCE FifoExecutor
              WITH Jobs <- Commands, submitted <- pushed,
                   started <- begun, finished <- ended

RunsInSubmissionOrder == Executor!Spec

(* Commands left behind when the worker exits were pushed after it last    *)
(* found the queue empty (line 86), or before its loop began, and before   *)
(* it read STOPPED (line 80).                                              *)
LostOnlyInExitWindow ==
  wpc = "exited" => \A i \in 1 .. Len(commands) : commands[i] \in late

(* A thread that waits on a command's future gets an answer: the command   *)
(* runs, or the destruction of the queue breaks its promise.               *)
FuturesAnswered ==
  \A c \in Clients : (cpc[c] = "wait") ~> (cpc[c] = "idle")

(* startTracing returns, whether or not there is a tracee.                 *)
StartTracingAnswers == (opc = "starting") ~> (opc = "alive")

(* ~Tracer returns, unless STARTING has overwritten its STOPPED: the       *)
(* worker's setState(STARTING) comes after the promise that lets the owner *)
(* go on, so a program destroyed at once can be joined for ever.           *)
DestructorReturnsUnlessOverwritten ==
  (opc \in {"post", "join"}) ~> (opc = "gone" \/ (opc = "join" /\ state = "STARTING"))
=============================================================================
