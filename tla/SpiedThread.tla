----------------------------- MODULE SpiedThread -----------------------------
(***************************************************************************)
(* SpiedThread (include/SpiedThread.h, source/SpiedThread.cpp) with the    *)
(* threads that work on one: the event listener (SpiedProgram::listenEvent *)
(* in source/SpiedProgram.cpp), the callback thread, users' threads, and   *)
(* the Tracer, here a FIFO of commands run one at a time (FifoExecutor).   *)
(* The traced thread itself is PtraceThread.                               *)
(*                                                                         *)
(* todo[a] is what actor a still has to execute: a sequence of atomic      *)
(* instructions [op, arg].  One instruction is a critical section of       *)
(* _stateMutex, or an access made without it; calling a method prepends    *)
(* the method's instructions.  The two requests a critical section queues  *)
(* are queued in one step.                                                 *)
(***************************************************************************)
EXTENDS PtraceThread, Sequences, SequencesExt

CONSTANTS
  Listener, Callback,   \* the thread _eventListener, the callbacks' thread
  Users,                \* the tester's own threads
  NoOne,                \* owner of a free mutex
  CallbackScripts,      \* what a callback may do, by its kind
  UserScripts           \* what a user's thread may do, each thread once

\* Kinds of callback: of a new thread, of a breakpoint, of a watchpoint.
Kinds == {"created", "break", "watch"}

ASSUME ActorsAssumption ==
  /\ Listener \notin Users /\ Callback \notin Users /\ Listener # Callback
  /\ NoOne \notin Users \cup {Listener, Callback}
  /\ DOMAIN CallbackScripts = Kinds

Actors == Users \cup {Listener, Callback}

VARIABLES
  known,      \* the listener has created the SpiedThread
  state,      \* _state
  owner,      \* owner of the recursive _stateMutex
  regSync,    \* _regSync
  trapExp,    \* _isSigTrapExpected
  cRip, cDr6, \* _regs.rip and _dr6
  futRegs,    \* _futureRegs.valid()
  futDr6,     \* _futureDr6.valid()
  peeked,     \* the value of the last PEEKUSER promise set
  queue,      \* the Tracer's commands
  callbacks,  \* the kinds of the callbacks queued and not begun
  todo,       \* what each actor is executing
  done,       \* the users that have run their script
  overtaken,  \* history: see SetState and ThreadEvent
  premature,  \* history: a request ended a stop not yet collected and handled
  spurious,   \* history: a watchpoint hit was reported without a watch trap
  aim         \* history: where a jump means the thread to go on, or "none"

threadVars == <<known, state, regSync, trapExp>>
cacheVars == <<cRip, cDr6, futRegs, futDr6, peeked>>
historyVars == <<overtaken, premature, spurious, aim>>
vars == <<kernelVars, threadVars, owner, cacheVars, queue, callbacks, todo,
          done, historyVars>>

Instr(op, arg) == [op |-> op, arg |-> arg]
Op(op) == Instr(op, "none")

ThreadInit ==
  /\ KernelInit
  /\ known = FALSE /\ state = "STOPPED" /\ regSync = "OLD" /\ trapExp = FALSE
  /\ owner = NoOne
  /\ cRip = "code" /\ cDr6 = {} /\ futRegs = FALSE /\ futDr6 = FALSE
  /\ peeked = {}
  /\ queue = <<>> /\ callbacks = <<>>
  /\ todo = [a \in Actors |-> <<>>]
  /\ done = {}
  /\ overtaken = FALSE /\ premature = FALSE /\ spurious = FALSE
  /\ aim = "none"

-----------------------------------------------------------------------------
(* The instructions of each method.                                        *)

\* Mutant: the registers are written back after the thread is continued.
ResumeWritingLast(sig) == <<Instr("cont", sig), Op("writeRegisters"),
                            Instr("setState", "CONTINUED")>>

\* Mutant: the new state is not recorded.
ResumeUnrecorded(sig) == <<Op("writeRegisters"), Instr("cont", sig)>>

Resume(sig) == <<Op("writeRegisters"), Instr("cont", sig),
                 Instr("setState", "CONTINUED")>>

\* rest is what a caller does if singleStep returns true.
SingleStep(rest) == <<Op("lock"), Op("writeRegisters"), Op("step"),
                      Op("stepWait"), Instr("awaitStep", rest)>>

Stop == <<Op("lock"), Op("stopTest"), Op("unlock")>>

Terminate == <<Op("lock"), Op("terminateTest"), Op("unlock")>>

GetRip == <<Op("readRegisters"), Op("getRegs")>>

Jump(addr) == <<Op("lock"), Op("readRegisters"), Op("getRegs"),
                Instr("setRip", addr), Op("unlock")>>

SetDr6(idx) == <<Op("lock"), Op("readRegisters"), Op("getDr6"),
                 Instr("setDr6", idx), Op("unlock")>>

\* getRip and, unless the address has a file and no name, getRbp, which is
\* the same for another register.
Backtrace == {GetRip, GetRip \o GetRip}

At(a, op) == todo[a] # <<>> /\ Head(todo[a]).op = op
Arg(a) == Head(todo[a]).arg

\* Actor a goes on with the instructions in place of the current one.
Goto(a, instrs) == todo' = [todo EXCEPT ![a] = instrs \o Tail(@)]
Done(a) == Goto(a, <<>>)

Free(a) == owner \in {NoOne, a}
Queued(op) == \E i \in DOMAIN queue : queue[i].op = op

\* stop and early are history: the thread's last stop when the command was
\* queued, and whether the listener had yet to collect or to handle it.
Cmd(a, op, arg) ==
  [op |-> op, arg |-> arg, stop |-> stops,
   early |-> a # Listener /\ (event \notin {"none", "CONT"} \/ todo[Listener] # <<>>)]

Send(cmds) == queue' = queue \o cmds

-----------------------------------------------------------------------------
(* _stateMutex and _stateCV.                                               *)

LockState(a) ==
  /\ At(a, "lock") /\ Free(a)
  /\ owner' = a
  /\ Done(a)
  /\ UNCHANGED <<kernelVars, threadVars, cacheVars, queue, callbacks, done,
                 historyVars>>

UnlockState(a) ==
  /\ At(a, "unlock")
  /\ owner' = NoOne
  /\ Done(a)
  /\ UNCHANGED <<kernelVars, threadVars, cacheVars, queue, callbacks, done,
                 historyVars>>

\* Mutant: the register cache is not invalidated.
SetStateKeepingCache(a) ==
  /\ At(a, "setState") /\ Free(a)
  /\ state' = Arg(a)
  /\ Done(a)
  /\ UNCHANGED <<kernelVars, known, regSync, trapExp, owner, cacheVars, queue,
                 callbacks, done, historyVars>>

\* overtaken: a stop was recorded inside someone else's resume.
SetState(a) ==
  /\ At(a, "setState") /\ Free(a)
  /\ state' = Arg(a)
  /\ regSync' = "OLD"
  /\ overtaken' = (overtaken \/ /\ Arg(a) = "STOPPED"
                                /\ \E b \in Actors \ {a} : At(b, "setState"))
  /\ Done(a)
  /\ UNCHANGED <<kernelVars, known, trapExp, owner, cacheVars, queue, callbacks,
                 done, premature, spurious, aim>>

\* wait_for with a predicate: what is awaited, by instruction.
Awaited(op) == IF op = "awaitDead" THEN {"TERMINATED", "EXITED"} ELSE {"STOPPED"}

Waits == {"awaitStep", "awaitStop", "awaitDead", "awaitTerm"}

\* The predicate holds, at once or after a wake-up, and the mutex is held.
AwaitSucceeds(a, op) ==
  /\ At(a, op) /\ op \in Waits
  /\ Free(a)
  /\ state \in Awaited(op)
  /\ owner' = a
  /\ Goto(a, CASE op = "awaitTerm" -> Resume("TERM") \o <<Op("awaitDead")>>
                [] op = "awaitStep" -> <<Op("unlock")>> \o Arg(a)
                [] OTHER            -> <<>>)
  /\ UNCHANGED <<kernelVars, threadVars, cacheVars, queue, callbacks, done,
                 historyVars>>

\* The mutex is released while the predicate is false.
AwaitBlocks(a, op) ==
  /\ At(a, op) /\ op \in Waits
  /\ owner = a /\ state \notin Awaited(op)
  /\ owner' = NoOne
  /\ UNCHANGED <<kernelVars, threadVars, cacheVars, queue, callbacks, todo, done,
                 historyVars>>

\* Five seconds have passed and the predicate is still false.
AwaitTimesOut(a, op) ==
  /\ At(a, op) /\ op \in Waits
  /\ owner = NoOne /\ state \notin Awaited(op)
  /\ owner' = a
  /\ trapExp' = (trapExp /\ op # "awaitStep")
  /\ Goto(a, IF op = "awaitStep" THEN <<Op("unlock")>> ELSE <<>>)
  /\ UNCHANGED <<kernelVars, known, state, regSync, cacheVars, queue, callbacks,
                 done, historyVars>>

-----------------------------------------------------------------------------
(* The register cache.                                                     *)

ReadRegisters(a) ==
  /\ At(a, "readRegisters") /\ Free(a)
  /\ IF state = "STOPPED" /\ regSync = "OLD"
       THEN /\ Send(<<Cmd(a, "PEEKDR6", "none"), Cmd(a, "GETREGS", "none")>>)
            /\ futDr6' = TRUE /\ futRegs' = TRUE
            /\ regSync' = "SYNC"
       ELSE UNCHANGED <<queue, futDr6, futRegs, regSync>>
  /\ Done(a)
  /\ UNCHANGED <<kernelVars, known, state, trapExp, owner, cRip, cDr6, peeked,
                 callbacks, done, historyVars>>

WriteRegistersWith(a, dr6Too) ==
  /\ At(a, "writeRegisters") /\ Free(a)
  /\ IF regSync = "NEW"
       THEN /\ Send((IF futRegs THEN <<>> ELSE <<Cmd(a, "SETREGS", "none")>>) \o
                    (IF dr6Too /\ ~futDr6 THEN <<Cmd(a, "POKEDR6", cDr6)>>
                                       ELSE <<>>))
            /\ regSync' = "SYNC"
       ELSE UNCHANGED <<queue, regSync>>
  /\ Done(a)
  /\ UNCHANGED <<kernelVars, known, state, trapExp, owner, cacheVars, callbacks,
                 done, historyVars>>

\* Mutant: DR6 is never written back.
WriteRegistersOnlyRegs(a) == WriteRegistersWith(a, FALSE)

WriteRegisters(a) == WriteRegistersWith(a, TRUE)

\* _futureRegs.get(): blocks until the last GETREGS has run.
GetRegs(a) ==
  /\ At(a, "getRegs")
  /\ futRegs => ~Queued("GETREGS")
  /\ futRegs' = FALSE
  /\ Done(a)
  /\ UNCHANGED <<kernelVars, threadVars, owner, cRip, cDr6, futDr6, peeked,
                 queue, callbacks, done, historyVars>>

\* The future of setDr6, whose value is not used.
GetDr6(a) ==
  /\ At(a, "getDr6")
  /\ futDr6 => ~Queued("PEEKDR6")
  /\ futDr6' = FALSE
  /\ Done(a)
  /\ UNCHANGED <<kernelVars, threadVars, owner, cRip, cDr6, futRegs, peeked,
                 queue, callbacks, done, historyVars>>

SetRipField(a) ==
  /\ At(a, "setRip")
  /\ cRip' = Arg(a)
  /\ regSync' = "NEW"
  /\ aim' = IF state = "STOPPED" THEN Arg(a) ELSE aim
  /\ Done(a)
  /\ UNCHANGED <<kernelVars, known, state, trapExp, owner, cDr6, futRegs, futDr6,
                 peeked, queue, callbacks, done, overtaken, premature, spurious>>

SetDr6Field(a) ==
  /\ At(a, "setDr6")
  /\ cDr6' = cDr6 \ {Arg(a)}
  /\ regSync' = "NEW"
  /\ Done(a)
  /\ UNCHANGED <<kernelVars, known, state, trapExp, owner, cRip, futRegs, futDr6,
                 peeked, queue, callbacks, done, historyVars>>

-----------------------------------------------------------------------------
(* resume, singleStep, stop and terminate.                                 *)

PushCont(a) ==
  /\ At(a, "cont")
  /\ Send(<<Cmd(a, "CONT", Arg(a))>>)
  /\ Done(a)
  /\ UNCHANGED <<kernelVars, threadVars, owner, cacheVars, callbacks, done,
                 historyVars>>

PushStep(a) ==
  /\ At(a, "step")
  /\ trapExp' = TRUE
  /\ Send(<<Cmd(a, "STEP", "none")>>)
  /\ Done(a)
  /\ UNCHANGED <<kernelVars, known, state, regSync, owner, cacheVars, callbacks,
                 done, historyVars>>

\* Mutant: the future is not waited for.
StepWaitNot(a) ==
  /\ At(a, "stepWait")
  /\ Done(a)
  /\ UNCHANGED <<kernelVars, threadVars, owner, cacheVars, queue, callbacks, done,
                 historyVars>>

\* Mutant: the stop itself is waited for, without a timer, mutex held.
StepWaitForStop(a) ==
  /\ At(a, "stepWait")
  /\ run = "stopped"
  /\ Done(a)
  /\ UNCHANGED <<kernelVars, threadVars, owner, cacheVars, queue, callbacks, done,
                 historyVars>>

\* The future of PTRACE_SINGLESTEP, waited for with _stateMutex held.
StepWait(a) ==
  /\ At(a, "stepWait")
  /\ ~Queued("STEP")
  /\ Done(a)
  /\ UNCHANGED <<kernelVars, threadVars, owner, cacheVars, queue, callbacks, done,
                 historyVars>>

StopTest(a) ==
  /\ At(a, "stopTest")
  /\ IF state = "STOPPED" THEN Done(a) /\ UNCHANGED queue
                          ELSE /\ Send(<<Cmd(a, "KILL", "STOP")>>)
                               /\ Goto(a, <<Op("awaitStop")>>)
  /\ UNCHANGED <<kernelVars, threadVars, owner, cacheVars, callbacks, done,
                 historyVars>>

TerminateTest(a) ==
  /\ At(a, "terminateTest")
  /\ Goto(a, IF state \in {"TERMINATED", "EXITED"} THEN <<>>
             ELSE (IF state = "STOPPED" THEN Resume("none") ELSE <<>>)
                    \o <<Op("kill"), Op("awaitTerm")>>)
  /\ UNCHANGED <<kernelVars, threadVars, owner, cacheVars, queue, callbacks, done,
                 historyVars>>

PushKill(a) ==
  /\ At(a, "kill")
  /\ Send(<<Cmd(a, "KILL", "TERM")>>)
  /\ Done(a)
  /\ UNCHANGED <<kernelVars, threadVars, owner, cacheVars, callbacks, done,
                 historyVars>>
-----------------------------------------------------------------------------
(* listenEvent and handleEvent.                                            *)

Unhandled == GetRip \o <<Op("matchBreakPoint")>>

\* Mutant: the stop is handled but not recorded.
StoppedUnrecorded == <<Op("readRegisters")>>

Stopped == <<Op("readRegisters"), Instr("setState", "STOPPED")>>

HandleEvent(ev, backtrace) ==
  CASE ev \in {"EXITED", "TERMINATED"} ->
         <<Op("readRegisters"), Instr("setState", ev)>>
    [] ev = "CONT" -> <<Op("readRegisters"), Instr("setState", "CONTINUED")>>
    [] ev \in {"step", "break", "watch", "clone"} ->
         Stopped \o <<Instr("trap", ev)>>
    [] ev = "SEGV" -> Stopped \o backtrace \o Unhandled
    [] ev \in {"start", "STOP"} -> Stopped \o Unhandled
    [] OTHER -> Stopped \o Resume(ev)

\* Mutant: the first event is also handled.
NewThreadAndEvent ==
  /\ todo[Listener] = <<>> /\ ~known
  /\ Collect
  /\ known' = TRUE
  /\ callbacks' = Append(callbacks, "created")
  /\ todo' = [todo EXCEPT ![Listener] = HandleEvent(event, GetRip)]
  /\ UNCHANGED <<state, regSync, trapExp, owner, cacheVars, queue, done,
                 historyVars>>

\* The first event of a thread, whatever it is, creates its SpiedThread.
NewThread ==
  /\ todo[Listener] = <<>> /\ ~known
  /\ Collect
  /\ known' = TRUE
  /\ callbacks' = Append(callbacks, "created")
  /\ UNCHANGED <<state, regSync, trapExp, owner, cacheVars, queue, todo, done,
                 historyVars>>

\* overtaken: CONTINUED is reported of a thread recorded as STOPPED, because the
\* report comes late or inside someone else's resume.
ThreadEvent ==
  /\ todo[Listener] = <<>> /\ known
  /\ Collect
  /\ \E backtrace \in Backtrace :
       todo' = [todo EXCEPT ![Listener] = HandleEvent(event, backtrace)]
  /\ overtaken' = (overtaken \/ (event = "CONT" /\ state = "STOPPED"))
  /\ UNCHANGED <<threadVars, owner, cacheVars, queue, callbacks, done, premature,
                 spurious, aim>>

\* _isSigTrapExpected and the clone event; then DR6 is read.
TrapThen(a, resumed) ==
  /\ At(a, "trap")
  /\ trapExp' = FALSE
  /\ Goto(a, (IF Arg(a) \in resumed THEN Resume("none") ELSE <<>>) \o
             <<Op("readRegisters"),
               Instr("testDr6", <<Arg(a), trapExp \/ Arg(a) = "clone">>)>>)
  /\ UNCHANGED <<kernelVars, known, state, regSync, owner, cacheVars, queue,
                 callbacks, done, historyVars>>

\* Mutant: a thread that has made a clone is not resumed.
TrapKeepingClone(a) == TrapThen(a, {})

Trap(a) == TrapThen(a, {"clone"})

\* getDr6: the result of PEEKUSER is not tested.
FetchedDr6 == IF futDr6 THEN peeked ELSE cDr6

\* The search for the first watchpoint whose bit is set.
TestDr6(a) ==
  /\ At(a, "testDr6")
  /\ futDr6 => ~Queued("PEEKDR6")
  /\ futDr6' = FALSE
  /\ cDr6' = FetchedDr6
  /\ IF cDr6' # {}
       THEN LET idx == CHOOSE i \in cDr6' : \A j \in cDr6' : i <= j
            IN  /\ Goto(a, SetDr6(idx) \o <<Instr("hit", "watch")>>)
                /\ spurious' = (spurious \/ Arg(a)[1] # "watch")
       ELSE /\ Goto(a, IF Arg(a)[2] THEN <<>> ELSE Unhandled)
            /\ UNCHANGED spurious
  /\ UNCHANGED <<kernelVars, threadVars, owner, cRip, futRegs, peeked, queue,
                 callbacks, done, overtaken, premature, aim>>

MatchBreakPointIn(a, places) ==
  /\ At(a, "matchBreakPoint")
  /\ Goto(a, IF cRip \in places THEN <<Instr("hit", "break")>> ELSE <<>>)
  /\ UNCHANGED <<kernelVars, threadVars, owner, cacheVars, queue, callbacks, done,
                 historyVars>>

\* Mutant: the thread's own address is compared as well.
MatchBreakPointAt(a) == MatchBreakPointIn(a, {"bp", "at"})

MatchBreakPoint(a) == MatchBreakPointIn(a, {"bp"})

\* BreakPoint::hit or WatchPoint::hit: a callback is queued.
Hit(a) ==
  /\ At(a, "hit")
  /\ callbacks' = Append(callbacks, Arg(a))
  /\ Done(a)
  /\ UNCHANGED <<kernelVars, threadVars, owner, cacheVars, queue, done,
                 historyVars>>

-----------------------------------------------------------------------------
(* The Tracer's thread: the oldest command is run and its promise set.     *)

\* The command ends a stop that its sender has not seen through.
EndsUnseenStop(c) ==
  Accepts /\ (c.early \/ c.stop # stops)

Ptrace(c) ==
  \/ /\ c.op = "CONT" /\ Continue(c.arg)
     /\ premature' = (premature \/ EndsUnseenStop(c))
     /\ aim' = IF Accepts THEN "none" ELSE aim
     /\ UNCHANGED <<cRip, peeked>>
  \/ /\ c.op = "STEP" /\ SingleStepRequest
     /\ premature' = (premature \/ EndsUnseenStop(c))
     /\ aim' = IF Accepts THEN "none" ELSE aim
     /\ UNCHANGED <<cRip, peeked>>
  \/ /\ c.op = "KILL" /\ Kill(c.arg)
     /\ UNCHANGED <<cRip, peeked, premature, aim>>
  \/ /\ c.op = "SETREGS" /\ SetRip(cRip)
     /\ UNCHANGED <<cRip, peeked, premature, aim>>
  \/ /\ c.op = "POKEDR6" /\ SetDr6Request(c.arg)
     /\ UNCHANGED <<cRip, peeked, premature, aim>>
  \/ /\ c.op = "POKE" /\ Poke(c.arg)
     /\ UNCHANGED <<cRip, peeked, premature, aim>>
  \/ /\ c.op = "GETREGS"
     /\ cRip' = IF Accepts THEN rip ELSE cRip
     /\ UNCHANGED <<kernelVars, peeked, premature, aim>>
  \/ /\ c.op = "PEEKDR6" \* a failure is -1, whose bits are all set
     /\ peeked' = IF Accepts THEN dr6 ELSE WatchIdx
     /\ UNCHANGED <<kernelVars, cRip, premature, aim>>

RunCommand ==
  /\ queue # <<>>
  /\ queue' = Tail(queue)
  /\ Ptrace(Head(queue))
  /\ UNCHANGED <<threadVars, owner, cDr6, futRegs, futDr6, callbacks, todo, done,
                 overtaken, spurious>>

-----------------------------------------------------------------------------
(* The callback thread and the users.                                      *)

BeginCallback ==
  /\ todo[Callback] = <<>> /\ callbacks # <<>>
  /\ callbacks' = Tail(callbacks)
  /\ \E script \in CallbackScripts[Head(callbacks)] :
       todo' = [todo EXCEPT ![Callback] = script]
  /\ UNCHANGED <<kernelVars, threadVars, owner, cacheVars, queue, done,
                 historyVars>>

BeginScript(u) ==
  /\ known /\ u \notin done
  /\ done' = done \cup {u}
  /\ \E script \in UserScripts :
       todo' = [todo EXCEPT ![u] = script]
  /\ UNCHANGED <<kernelVars, threadVars, owner, cacheVars, queue, callbacks,
                 historyVars>>

-----------------------------------------------------------------------------
Synchronise(a) ==
  \/ LockState(a) \/ UnlockState(a) \/ SetState(a)
  \/ \E op \in Waits :
       AwaitSucceeds(a, op) \/ AwaitBlocks(a, op) \/ AwaitTimesOut(a, op)

Registers(a) ==
  \/ ReadRegisters(a) \/ WriteRegisters(a) \/ GetRegs(a) \/ GetDr6(a)
  \/ SetRipField(a) \/ SetDr6Field(a)

Control(a) ==
  \/ PushCont(a) \/ PushStep(a) \/ StepWait(a) \/ StopTest(a)
  \/ TerminateTest(a) \/ PushKill(a)

Handle(a) == Trap(a) \/ TestDr6(a) \/ MatchBreakPoint(a) \/ Hit(a)

Advance(a) == Synchronise(a) \/ Registers(a) \/ Control(a) \/ Handle(a)

Thread ==
  /\ ThreadStep
  /\ UNCHANGED <<threadVars, owner, cacheVars, queue, callbacks, todo, done,
                 historyVars>>

ThreadNext ==
  \/ Thread \/ RunCommand
  \/ NewThread \/ ThreadEvent \/ BeginCallback
  \/ \E u \in Users : BeginScript(u)
  \/ \E a \in Actors : Advance(a)

-----------------------------------------------------------------------------
(* Nothing is under way: every actor is between two calls, or waits for a  *)
(* change of state, and there is no command and no event left.             *)
Quiet ==
  /\ known /\ event = "none" /\ queue = <<>>
  /\ \A a \in Actors : todo[a] = <<>> \/ Head(todo[a]).op \in Waits

(* A stop is recorded as STOPPED once its handling is over, unless the     *)
(* listener recorded it while another thread was between queuing its       *)
(* PTRACE_CONT and recording CONTINUED (lines 46-47), which then           *)
(* overwrites it, as does a report of WCONTINUED that was collected        *)
(* afterwards (lines 271-273).                                             *)
StopsRecorded == (Quiet /\ run = "stopped") => (state = "STOPPED" \/ overtaken)

(* A thread that runs is recorded as CONTINUED, unless a request ended a   *)
(* stop the listener had yet to collect or to handle.                      *)
RunsRecorded == (Quiet /\ run = "running") => (state = "CONTINUED" \/ premature)

(* A watchpoint hit is reported only for a watchpoint trap: getDr6 takes   *)
(* the -1 of a failed PEEKUSER for a DR6 with every bit set, so this needs *)
(* the thread not to be resumed, nor to die, while its stop is handled.    *)
HitsAreReal == spurious => (premature \/ overtaken \/ run = "dead")

(* The two unsynchronised users of _futureRegs, the listener and a         *)
(* callback, never get it at once; after a stop recorded inside resume a   *)
(* stale DR6 may be reported, and its callback meets the listener.         *)
NoConcurrentGet ==
  \A a, b \in Actors :
    (At(a, "getRegs") /\ At(b, "getRegs") /\ futRegs) => (a = b \/ overtaken)

(* What getRip returns for a stopped thread is where it is, whichever      *)
(* thread issued the GETREGS and whenever the Tracer ran it.               *)
RipIsFresh ==
  [][\A a \in Actors :
       (GetRegs(a) /\ run = "stopped" /\ event = "none" /\ regSync # "NEW")
         => (cRip = rip \/ overtaken)]_vars

(* A jump is not lost: the thread goes on at the address it was given,     *)
(* SETREGS being queued before the PTRACE_CONT.                            *)
JumpTakesEffect ==
  [][(run = "stopped" /\ run' = "running" /\ aim # "none")
       => (rip = aim \/ overtaken)]_vars

(* Every method returns, and the actors come to rest when the thread makes *)
(* no more stops: those that hold _stateMutex while they wait on a future  *)
(* need only the Tracer's thread, which never takes that mutex.            *)
CallsReturn == []<>(\A a \in Actors : todo[a] = <<>>)
=============================================================================
