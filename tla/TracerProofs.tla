----------------------------- MODULE TracerProofs -----------------------------
(***************************************************************************)
(* Proofs about Tracer, for any set of client threads and of survivors and *)
(* any number of calls and of interruptions.                               *)
(*                                                                         *)
(* The command that runs stays at the front of the queue until it is       *)
(* popped, so the invariant counts the commands popped: the queue is the   *)
(* rest of the pushes, and while a command is in flight it is both the     *)
(* last one begun and the head of the queue.                               *)
(***************************************************************************)
EXTENDS Tracer, TLAPS

InFlight == wpc \in {"run", "relock", "pop"}

CallsCounted == \A c \in Clients : cpc[c] # "idle" => calls[c] \in 1 .. MaxCalls

TypeInv ==
  TypeOK /\ CallsCounted /\ (InFlight => current \in Commands /\ commands # <<>>)

Popped == IF InFlight THEN Len(begun) - 1 ELSE Len(begun)

QueueInv ==
  /\ Len(pushed) = Popped + Len(commands)
  /\ \A i \in 1 .. Len(commands) : commands[i] = pushed[Popped + i]

RunInv ==
  /\ wpc = "run" => /\ Len(begun) = Len(ended) + 1
                    /\ current = begun[Len(ended) + 1]
  /\ wpc # "run" => Len(begun) = Len(ended)
  /\ InFlight => Len(begun) > 0

OrderInv == PopsWhatItRan /\ QueueInv /\ RunInv

LateInv ==
  wpc \in {"starting", "check", "exited"}
    => \A i \in 1 .. Len(commands) : commands[i] \in late

\* Nothing is queued before the promise lets startTracing return.
StartInv ==
  /\ opc = "constructed" => wpc = "unstarted"
  /\ wpc \in {"unstarted", "clone", "wait1", "wait2", "promise"}
       => /\ commands = <<>>
          /\ opc \in {"constructed", "starting"}
          /\ \A c \in Clients : cpc[c] = "idle"

-----------------------------------------------------------------------------
(* The initial state is well typed, and nothing is queued in it.           *)
LEMMA InitTypeInv == Init => TypeInv /\ StartInv
  BY ConstantsAssumption
  DEF Init, TypeInv, TypeOK, CallsCounted, Commands, InFlight, StartInv, States,
      WorkerPcs, OwnerPcs, StarterStates

(* Each step of a client, of the worker, of the starter and of the owner   *)
(* keeps the types.                                                        *)
LEMMA NextTypeInv == TypeInv /\ [Next]_vars => TypeInv'
<1> SUFFICES ASSUME TypeInv, [Next]_vars PROVE TypeInv'
  OBVIOUS
<1> USE DEF history, queueVars, clientVars
<1>a. ASSUME UNCHANGED <<commands, current, clientVars, history>>,
             state' \in States, wpc' \in WorkerPcs, opc' \in OwnerPcs,
             starter' \in StarterStates, InFlight' => InFlight,
             mutex' \in Clients \cup {Worker, NoOne}, sem' \in Nat,
             intr' \in 0 .. MaxIntr
      PROVE  TypeInv'
  BY <1>a DEF TypeInv, TypeOK, CallsCounted, InFlight, States, WorkerPcs,
              OwnerPcs, StarterStates
<1>b. /\ state \in States /\ wpc \in WorkerPcs /\ opc \in OwnerPcs
      /\ starter \in StarterStates /\ sem \in Nat /\ intr \in 0 .. MaxIntr
      /\ mutex \in Clients \cup {Worker, NoOne}
  BY DEF TypeInv, TypeOK, States, WorkerPcs, OwnerPcs, StarterStates
<1> USE <1>b DEF States, WorkerPcs, OwnerPcs, StarterStates, InFlight
<1>1. CASE StartTracing \/ StartTracingReturns
  BY <1>1, <1>a DEF StartTracing, StartTracingReturns
<1>2. CASE StarterAdvances \/ StarterDies
  BY <1>2, <1>a DEF StarterAdvances, StarterDies
<1>3. CASE Clone \/ SetPromise
  BY <1>3, <1>a DEF Clone, SetPromise
<1>4. CASE WaitPreStart \/ WaitMainThread
  BY <1>4, <1>a DEF WaitPreStart, WaitMainThread
<1>5. CASE SetStarting \/ CheckState
  BY <1>5, <1>a DEF SetStarting, CheckState
<1>6. CASE SemWait
  BY <1>6, <1>a DEF SemWait
<1>7. CASE SemWaitInterrupted
  BY <1>7, <1>a, ConstantsAssumption DEF SemWaitInterrupted
<1>8. CASE WorkerLock
  BY <1>8, <1>a DEF WorkerLock
<1>9. CASE Drained
  BY <1>9, <1>a DEF Drained
<1>10. CASE SetStopped \/ DestructorPost \/ Join
  BY <1>10, <1>a DEF SetStopped, DestructorThen, DestructorPost, Join
<1>11. CASE UNCHANGED vars
  BY <1>11, <1>a DEF vars
<1> USE DEF TypeInv, TypeOK, CallsCounted
<1>12. CASE Front
  <2>1. Head(commands) \in Commands /\ commands # <<>>
    BY <1>12 DEF Front, FrontThen
  <2>2. begun' \in Seq(Commands)
    BY <1>12, <2>1 DEF Front, FrontThen
  <2>3. current' \in Commands
    BY <1>12, <2>1 DEF Front, FrontThen
  <2>4. current' \in (Clients \cup {Worker}) \X (0 .. MaxCalls)
    BY <2>3 DEF Commands
  <2> QED BY <1>12, <2>1, <2>2, <2>3, <2>4 DEF Front, FrontThen
<1>13. CASE CommandReturns
  <2>1. ended' \in Seq(Commands)
    BY <1>13 DEF CommandReturns
  <2> QED BY <1>13, <2>1 DEF CommandReturns
<1>14. CASE Pop
  <2>1. commands' \in Seq(Commands)
    BY <1>14 DEF Pop
  <2> QED BY <1>14, <2>1 DEF Pop
<1>15. ASSUME NEW c \in Clients, Call(c) PROVE TypeInv'
  BY <1>15, ConstantsAssumption DEF Call
<1>16. ASSUME NEW c \in Clients, Lock(c) PROVE TypeInv'
  BY <1>16 DEF Lock
<1>17. ASSUME NEW c \in Clients, Push(c) PROVE TypeInv'
  <2>1. <<c, calls[c]>> \in Commands
    BY <1>17 DEF Push, PushThen, Commands
  <2>2. /\ commands' \in Seq(Commands) /\ pushed' \in Seq(Commands)
        /\ Len(commands') = Len(commands) + 1
    BY <1>17, <2>1 DEF Push, PushThen
  <2>3. commands' # <<>>
    BY <2>2
  <2>4. late' \subseteq Commands
    BY <1>17, <2>1 DEF Push, PushThen
  <2> QED BY <1>17, <2>2, <2>3, <2>4 DEF Push, PushThen
<1>18. ASSUME NEW c \in Clients, Post(c) PROVE TypeInv'
  <2>1. PICK next \in {"idle", "wait"} : cpc' = [cpc EXCEPT ![c] = next]
    BY <1>18 DEF Post
  <2> QED BY <1>18, <2>1 DEF Post
<1>19. ASSUME NEW c \in Clients, FutureReady(c) PROVE TypeInv'
  BY <1>19 DEF FutureReady
<1> QED
  BY <1>1, <1>2, <1>3, <1>4, <1>5, <1>6, <1>7, <1>8, <1>9, <1>10, <1>11, <1>12,
     <1>13, <1>14, <1>15, <1>16, <1>17, <1>18, <1>19
  DEF Next, Trace, CreateTracee, Queue

(* Every variable of Tracer keeps its type.                                *)
THEOREM TypeCorrect == Spec => []TypeOK
<1>1. Spec => []TypeInv
  BY InitTypeInv, NextTypeInv, PTL DEF Spec
<1>2. TypeInv => TypeOK
  BY DEF TypeInv
<1> QED BY <1>1, <1>2, PTL

(* Until the worker has set the promise nobody can have queued anything.   *)
LEMMA NextStartInv == TypeInv /\ StartInv /\ [Next]_vars => StartInv'
<1> SUFFICES ASSUME TypeInv, StartInv, [Next]_vars PROVE StartInv'
  OBVIOUS
<1> USE DEF StartInv, history, queueVars, clientVars
<1>1. CASE StartTracing
  BY <1>1 DEF StartTracing
<1>2. CASE StartTracingReturns
  BY <1>2 DEF StartTracingReturns, PromiseSet
<1>3. CASE StarterAdvances \/ StarterDies
  BY <1>3 DEF StarterAdvances, StarterDies
<1>4. CASE Clone \/ WaitPreStart \/ WaitMainThread
  BY <1>4 DEF Clone, WaitPreStart, WaitMainThread
<1>5. CASE SetPromise \/ SetStarting \/ CheckState \/ SemWait \/ SemWaitInterrupted
  BY <1>5 DEF SetPromise, SetStarting, CheckState, SemWait, SemWaitInterrupted
<1>6. CASE WorkerLock \/ Front \/ CommandReturns \/ Pop \/ Drained
  BY <1>6 DEF WorkerLock, Front, FrontThen, CommandReturns, Pop, Drained
<1>7. ASSUME NEW c \in Clients, Call(c) PROVE StartInv'
  BY <1>7 DEF Call, MayCall
<1>8. ASSUME NEW c \in Clients, Queue(c) \/ FutureReady(c) PROVE StartInv'
  BY <1>8 DEF Queue, Lock, Push, PushThen, Post, FutureReady
<1>9. CASE SetStopped \/ DestructorPost \/ Join
  BY <1>9 DEF SetStopped, DestructorThen, MayDestroy, DestructorPost, Join
<1>10. CASE UNCHANGED vars
  BY <1>10 DEF vars
<1> QED
  BY <1>1, <1>2, <1>3, <1>4, <1>5, <1>6, <1>7, <1>8, <1>9, <1>10
  DEF Next, Trace, CreateTracee

(* A push is followed by a post, and the worker tests the queue between    *)
(* taking a token and sleeping again.                                      *)
LEMMA NextNoLostWakeup ==
  TypeInv /\ StartInv /\ NoLostWakeup /\ [Next]_vars => NoLostWakeup'
<1> SUFFICES ASSUME TypeInv, StartInv, NoLostWakeup, [Next]_vars
             PROVE  NoLostWakeup'
  OBVIOUS
<1> USE DEF NoLostWakeup, history, queueVars, clientVars
<1>0. sem \in Nat /\ cpc \in [Clients -> {"idle", "lock", "locked", "post", "wait"}]
  BY DEF TypeInv, TypeOK
<1>1. CASE StartTracing \/ StartTracingReturns \/ StarterAdvances \/ StarterDies
  BY <1>1 DEF StartTracing, StartTracingReturns, StarterAdvances, StarterDies
<1>2. CASE Clone \/ WaitPreStart \/ WaitMainThread
  BY <1>2 DEF Clone, WaitPreStart, WaitMainThread
<1>3. CASE SetPromise
  BY <1>3 DEF SetPromise, StartInv
<1>4. CASE SetStarting \/ CheckState
  BY <1>4 DEF SetStarting, CheckState
<1>5. CASE SemWait \/ SemWaitInterrupted \/ WorkerLock
  BY <1>5 DEF SemWait, SemWaitInterrupted, WorkerLock
<1>6. CASE Front \/ CommandReturns \/ Pop \/ Drained
  BY <1>6 DEF Front, FrontThen, CommandReturns, Pop, Drained
<1>7. ASSUME NEW c \in Clients, Call(c) \/ Lock(c) PROVE NoLostWakeup'
  BY <1>0, <1>7 DEF Call, Lock
<1>8. ASSUME NEW c \in Clients, Push(c) PROVE NoLostWakeup'
  BY <1>0, <1>8 DEF Push, PushThen
<1>9. ASSUME NEW c \in Clients, Post(c) PROVE NoLostWakeup'
  BY <1>0, <1>9 DEF Post
<1>10. ASSUME NEW c \in Clients, FutureReady(c) PROVE NoLostWakeup'
  BY <1>0, <1>10 DEF FutureReady
<1>11. CASE SetStopped \/ Join
  BY <1>11 DEF SetStopped, DestructorThen, Join
<1>12. CASE DestructorPost
  BY <1>0, <1>12 DEF DestructorPost
<1>13. CASE UNCHANGED vars
  BY <1>13 DEF vars
<1> QED
  BY <1>1, <1>2, <1>3, <1>4, <1>5, <1>6, <1>7, <1>8, <1>9, <1>10, <1>11, <1>12,
     <1>13 DEF Next, Trace, CreateTracee, Queue

(* The worker never sleeps on a command nobody will wake it for.           *)
THEOREM WakeupNeverLost == Spec => []NoLostWakeup
<1>1. Init => NoLostWakeup
  BY DEF Init, NoLostWakeup
<1> QED
  BY <1>1, InitTypeInv, NextTypeInv, NextStartInv, NextNoLostWakeup, PTL DEF Spec

-----------------------------------------------------------------------------
(* The queue stays the part of the pushes not yet popped, and the command  *)
(* in flight stays at its head.                                            *)
LEMMA NextOrderInv ==
  TypeInv /\ StartInv /\ OrderInv /\ [Next]_vars => OrderInv'
<1> SUFFICES ASSUME TypeInv, StartInv, OrderInv, [Next]_vars PROVE OrderInv'
  OBVIOUS
<1> USE DEF history, queueVars, clientVars
<1>0. /\ commands \in Seq(Commands) /\ pushed \in Seq(Commands)
      /\ begun \in Seq(Commands) /\ ended \in Seq(Commands)
      /\ InFlight => current \in Commands /\ commands # <<>>
  BY DEF TypeInv, TypeOK
<1>p. Len(pushed) = Popped + Len(commands)
  BY DEF OrderInv, QueueInv
<1>q. \A i \in 1 .. Len(commands) : commands[i] = pushed[Popped + i]
  BY DEF OrderInv, QueueInv
<1>n. Popped \in Nat /\ Len(commands) \in Nat /\ Len(pushed) \in Nat
  BY <1>0 DEF Popped, OrderInv, RunInv
<1>1. ASSUME NEW c \in Clients, Push(c) PROVE OrderInv'
  <2> DEFINE j == <<c, calls[c]>>
  <2>1. j \in Commands
    BY <1>1 DEF Push, PushThen, TypeInv, TypeOK, CallsCounted, Commands
  <2>2. /\ commands' = Append(commands, j) /\ pushed' = Append(pushed, j)
        /\ UNCHANGED <<begun, ended, wpc, current>>
    BY <1>1 DEF Push, PushThen
  <2> HIDE DEF j
  <2>3. Popped' = Popped /\ Popped \in Int
    BY <1>0, <2>2 DEF Popped, InFlight
  <2>4. PopsWhatItRan'
    BY <1>0, <2>1, <2>2 DEF OrderInv, PopsWhatItRan, InFlight
  <2>5. QueueInv'
    <3>1. Len(commands') = Len(commands) + 1 /\ Len(pushed') = Len(pushed) + 1
      BY <1>0, <2>1, <2>2
    <3>2. Len(pushed') = Popped' + Len(commands')
      BY <1>n, <1>p, <2>3, <3>1
    <3>3. ASSUME NEW i \in 1 .. Len(commands')
          PROVE  commands'[i] = pushed'[Popped' + i]
      <4>1. CASE i \in 1 .. Len(commands)
        <5>1. commands'[i] = commands[i]
          BY <1>0, <2>1, <2>2, <4>1
        <5>2. Popped + i \in 1 .. Len(pushed)
          BY <1>n, <1>p, <4>1
        <5>3. pushed'[Popped + i] = pushed[Popped + i]
          BY <1>0, <2>1, <2>2, <5>2
        <5> QED BY <1>q, <2>3, <4>1, <5>1, <5>3
      <4>2. CASE i = Len(commands) + 1
        <5>1. commands'[i] = j
          BY <1>0, <2>1, <2>2, <4>2
        <5>2. Popped + i = Len(pushed) + 1
          BY <1>n, <1>p, <4>2
        <5>3. pushed'[Len(pushed) + 1] = j
          BY <1>0, <2>1, <2>2
        <5> QED BY <2>3, <5>1, <5>2, <5>3
      <4> QED BY <1>n, <3>1, <4>1, <4>2
    <3> QED BY <3>2, <3>3 DEF QueueInv
  <2>6. RunInv'
    BY <2>2 DEF OrderInv, RunInv, InFlight
  <2> QED BY <2>4, <2>5, <2>6 DEF OrderInv
<1>2. CASE Front
  <2>1. /\ ~InFlight /\ wpc' = "run" /\ InFlight' /\ commands # <<>>
        /\ current' = Head(commands) /\ begun' = Append(begun, Head(commands))
        /\ UNCHANGED <<commands, pushed, ended>>
    BY <1>2 DEF Front, FrontThen, InFlight
  <2>2. Head(commands) \in Commands
    BY <1>0, <2>1
  <2>3. Popped' = Popped
    BY <1>0, <2>1, <2>2 DEF Popped
  <2>4. QueueInv'
    BY <2>1, <2>3 DEF OrderInv, QueueInv
  <2>5. RunInv'
    BY <1>0, <2>1, <2>2, <1>2 DEF OrderInv, RunInv, InFlight
  <2> QED BY <2>1, <2>4, <2>5 DEF OrderInv, PopsWhatItRan
<1>3. CASE CommandReturns
  <2>1. /\ wpc = "run" /\ wpc' = "relock" /\ ended' = Append(ended, current)
        /\ UNCHANGED <<commands, pushed, begun, current>>
    BY <1>3 DEF CommandReturns
  <2>2. Popped' = Popped
    BY <2>1 DEF Popped, InFlight
  <2>3. QueueInv'
    BY <2>1, <2>2 DEF OrderInv, QueueInv
  <2>4. RunInv'
    BY <1>0, <2>1 DEF OrderInv, RunInv, InFlight
  <2> QED BY <2>1, <2>3, <2>4 DEF OrderInv, PopsWhatItRan
<1>4. CASE Pop
  <2>1. /\ wpc = "pop" /\ wpc' = "test" /\ commands' = Tail(commands)
        /\ UNCHANGED <<pushed, begun, ended, current>>
    BY <1>4 DEF Pop
  <2>2. commands # <<>> /\ Len(commands) > 0
    BY <1>0, <2>1 DEF InFlight
  <2>3. Popped' = Popped + 1 /\ Popped \in Int
    BY <1>0, <2>1 DEF Popped, InFlight
  <2>4. QueueInv'
    <3>1. Len(commands') = Len(commands) - 1
      BY <1>0, <2>1, <2>2
    <3>2. ASSUME NEW i \in 1 .. Len(commands')
          PROVE  commands'[i] = pushed'[Popped' + i]
      <4>1. commands'[i] = commands[i + 1] /\ i + 1 \in 1 .. Len(commands)
        BY <1>0, <2>1, <2>2, <3>1
      <4>2. commands[i + 1] = pushed[Popped + (i + 1)]
        BY <4>1 DEF OrderInv, QueueInv
      <4> QED BY <2>1, <2>3, <4>1, <4>2
    <3>3. Len(pushed') = Popped' + Len(commands')
      <4>1. Len(pushed') = Len(pushed)
        BY <2>1
      <4> QED BY <1>n, <1>p, <2>3, <3>1, <4>1
    <3> QED BY <3>2, <3>3 DEF QueueInv
  <2>5. RunInv' /\ PopsWhatItRan'
    BY <2>1 DEF OrderInv, RunInv, PopsWhatItRan, InFlight
  <2> QED BY <2>4, <2>5 DEF OrderInv
<1>5. ASSUME UNCHANGED <<commands, pushed, begun, ended, current>>,
             wpc' = "run" <=> wpc = "run", InFlight' <=> InFlight
      PROVE  OrderInv'
  BY <1>5 DEF OrderInv, PopsWhatItRan, QueueInv, RunInv, Popped, InFlight
<1>6. CASE StartTracing \/ StartTracingReturns \/ StarterAdvances \/ StarterDies
  BY <1>5, <1>6 DEF StartTracing, StartTracingReturns, StarterAdvances,
                    StarterDies, InFlight, StartInv
<1>7. CASE CreateTracee \/ SetPromise \/ SetStarting \/ CheckState
  BY <1>5, <1>7 DEF CreateTracee, Clone, WaitPreStart, WaitMainThread,
                    SetPromise, SetStarting, CheckState, InFlight
<1>8. CASE SemWait \/ SemWaitInterrupted \/ WorkerLock \/ Drained
  BY <1>5, <1>8 DEF SemWait, SemWaitInterrupted, WorkerLock, Drained, InFlight
<1>9. ASSUME NEW c \in Clients, Call(c) \/ Lock(c) \/ Post(c) \/ FutureReady(c)
      PROVE  OrderInv'
  BY <1>5, <1>9 DEF Call, Lock, Post, FutureReady, InFlight
<1>10. CASE SetStopped \/ DestructorPost \/ Join
  BY <1>5, <1>10 DEF SetStopped, DestructorThen, DestructorPost, Join, InFlight
<1>11. CASE UNCHANGED vars
  BY <1>5, <1>11 DEF vars, InFlight
<1> QED
  BY <1>1, <1>2, <1>3, <1>4, <1>6, <1>7, <1>8, <1>9, <1>10, <1>11
  DEF Next, Trace, Queue

(* All the invariants hold for ever.                                       *)
LEMMA OrderCorrect == Spec => [](TypeInv /\ StartInv /\ OrderInv)
<1>1. Init => OrderInv
  BY DEF Init, OrderInv, PopsWhatItRan, QueueInv, RunInv, Popped, InFlight
<1> QED
  BY <1>1, InitTypeInv, NextTypeInv, NextStartInv, NextOrderInv, PTL DEF Spec

(* The command popped is the one that ran, although the mutex was free     *)
(* while it did.                                                           *)
THEOREM PopsTheRightCommand == Spec => []PopsWhatItRan
<1>1. OrderInv => PopsWhatItRan
  BY DEF OrderInv
<1> QED BY <1>1, OrderCorrect, PTL

(* A step of Tracer is a submission, the start of the oldest command, its  *)
(* end, or invisible to FifoExecutor.                                      *)
LEMMA StepSimulation ==
  TypeInv /\ OrderInv /\ [Next]_vars => [Executor!Next]_(Executor!vars)
<1> SUFFICES ASSUME TypeInv, OrderInv, [Next]_vars
             PROVE  Executor!Next \/ UNCHANGED Executor!vars
  OBVIOUS
<1> USE DEF Executor!vars, history, queueVars, clientVars
<1>0. /\ commands \in Seq(Commands) /\ pushed \in Seq(Commands)
      /\ begun \in Seq(Commands) /\ ended \in Seq(Commands)
  BY DEF TypeInv, TypeOK
<1>1. ASSUME NEW c \in Clients, Push(c) PROVE Executor!Next
  <2>1. <<c, calls[c]>> \in Commands
    BY <1>1 DEF Push, PushThen, TypeInv, TypeOK, CallsCounted, Commands
  <2>2. Executor!Submit(<<c, calls[c]>>)
    BY <1>1 DEF Push, PushThen, Executor!Submit
  <2> QED BY <2>1, <2>2 DEF Executor!Next
<1>2. CASE Front
  <2>1. wpc = "test" /\ Popped = Len(begun) /\ Len(begun) = Len(ended)
    BY <1>2 DEF Front, FrontThen, Popped, InFlight, OrderInv, RunInv
  <2>2. Len(commands) > 0 /\ Head(commands) = commands[1]
    BY <1>0, <1>2 DEF Front, FrontThen
  <2>3. Len(pushed) = Len(begun) + Len(commands)
    BY <2>1 DEF OrderInv, QueueInv
  <2>4. Head(commands) = pushed[Len(begun) + 1]
    BY <1>0, <2>1, <2>2 DEF OrderInv, QueueInv
  <2>5. Len(begun) < Len(pushed)
    BY <1>0, <2>2, <2>3
  <2>6. Executor!Start
    BY <1>2, <2>1, <2>4, <2>5 DEF Front, FrontThen, Executor!Start
  <2> QED BY <2>6 DEF Executor!Next
<1>3. CASE CommandReturns
  <2>1. Len(begun) = Len(ended) + 1 /\ current = begun[Len(ended) + 1]
    BY <1>3 DEF CommandReturns, OrderInv, RunInv
  <2>2. Executor!Finish
    BY <1>0, <1>3, <2>1 DEF CommandReturns, Executor!Finish
  <2> QED BY <2>2 DEF Executor!Next
<1>4. ASSUME NEW c \in Clients, Call(c) \/ Lock(c) \/ Post(c) \/ FutureReady(c)
      PROVE  UNCHANGED Executor!vars
  BY <1>4 DEF Call, Lock, Post, FutureReady
<1>5. CASE StartTracing \/ StartTracingReturns \/ StarterAdvances \/ StarterDies
  BY <1>5 DEF StartTracing, StartTracingReturns, StarterAdvances, StarterDies
<1>6. CASE CreateTracee \/ SetPromise \/ SetStarting \/ CheckState
  BY <1>6 DEF CreateTracee, Clone, WaitPreStart, WaitMainThread, SetPromise,
              SetStarting, CheckState
<1>7. CASE SemWait \/ SemWaitInterrupted \/ WorkerLock \/ Pop \/ Drained
  BY <1>7 DEF SemWait, SemWaitInterrupted, WorkerLock, Pop, Drained
<1>8. CASE SetStopped \/ DestructorPost \/ Join
  BY <1>8 DEF SetStopped, DestructorThen, DestructorPost, Join
<1>9. CASE UNCHANGED vars
  BY <1>9 DEF vars
<1> QED
  BY <1>1, <1>2, <1>3, <1>4, <1>5, <1>6, <1>7, <1>8, <1>9 DEF Next, Trace, Queue

(* Tracer implements FifoExecutor: requests reach the kernel in the order  *)
(* in which they were queued, one at a time, none twice.                   *)
THEOREM ImplementsFifo == Spec => RunsInSubmissionOrder
<1>1. Init => Executor!Init
  BY DEF Init, Executor!Init
<1> QED
  BY <1>1, OrderCorrect, StepSimulation, PTL
  DEF Spec, RunsInSubmissionOrder, Executor!Spec

-----------------------------------------------------------------------------
(* What the worker leaves behind came after it last saw the queue empty,   *)
(* or before its loop began.                                               *)
LEMMA NextLateInv == TypeInv /\ StartInv /\ LateInv /\ [Next]_vars => LateInv'
<1> SUFFICES ASSUME TypeInv, StartInv, LateInv, [Next]_vars PROVE LateInv'
  OBVIOUS
<1> USE DEF LateInv, history, queueVars, clientVars
<1>0. commands \in Seq(Commands)
  BY DEF TypeInv, TypeOK
<1>1. ASSUME NEW c \in Clients, Push(c) PROVE LateInv'
  <2> DEFINE j == <<c, calls[c]>>
  <2>1. j \in Commands
    BY <1>1 DEF Push, PushThen, TypeInv, TypeOK, CallsCounted, Commands
  <2>2. /\ commands' = Append(commands, j) /\ wpc' = wpc
        /\ wpc \in {"starting", "check", "exited"} => late' = late \cup {j}
    BY <1>1 DEF Push, PushThen
  <2> HIDE DEF j
  <2> QED BY <1>0, <2>1, <2>2
<1>2. CASE Drained
  BY <1>2 DEF Drained
<1>3. CASE SetPromise
  BY <1>3 DEF SetPromise, StartInv
<1>4. CASE SetStarting \/ CheckState
  BY <1>4 DEF SetStarting, CheckState
<1>5. CASE UNCHANGED <<commands, late, wpc>>
  BY <1>5
<1>6. ASSUME NEW c \in Clients, Call(c) \/ Lock(c) \/ Post(c) \/ FutureReady(c)
      PROVE  LateInv'
  BY <1>5, <1>6 DEF Call, Lock, Post, FutureReady
<1>7. CASE SemWait \/ SemWaitInterrupted \/ WorkerLock \/ Front \/ CommandReturns \/ Pop
  BY <1>7 DEF SemWait, SemWaitInterrupted, WorkerLock, Front, FrontThen,
              CommandReturns, Pop
<1>8. CASE StartTracing \/ CreateTracee
  BY <1>8 DEF StartTracing, CreateTracee, Clone, WaitPreStart, WaitMainThread
<1>9. CASE StartTracingReturns \/ StarterAdvances \/ StarterDies
  BY <1>5, <1>9 DEF StartTracingReturns, StarterAdvances, StarterDies
<1>10. CASE SetStopped \/ DestructorPost \/ Join
  BY <1>5, <1>10 DEF SetStopped, DestructorThen, DestructorPost, Join
<1>11. CASE UNCHANGED vars
  BY <1>5, <1>11 DEF vars
<1> QED
  BY <1>1, <1>2, <1>3, <1>4, <1>6, <1>7, <1>8, <1>9, <1>10, <1>11
  DEF Next, Trace, Queue

(* Only commands pushed in the window before the worker reads STOPPED are  *)
(* lost, even though an interrupted sem_wait wakes it early.               *)
THEOREM LossOnlyAtExit == Spec => []LostOnlyInExitWindow
<1>1. Init => LateInv
  BY DEF Init, LateInv
<1>2. LateInv => LostOnlyInExitWindow
  BY DEF LateInv, LostOnlyInExitWindow
<1> QED BY <1>1, <1>2, OrderCorrect, NextLateInv, PTL DEF Spec
=============================================================================
