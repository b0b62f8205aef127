------------------------ MODULE CallbackHandlerProofs ------------------------
(***************************************************************************)
(* Proofs about CallbackHandler, for any number of client threads and any  *)
(* number of calls.                                                        *)
(*                                                                         *)
(* The inductive invariant has three parts beyond the types: a thread      *)
(* inside executeCallback has counted its call, the queue is the part of   *)
(* the pushes that has not begun, and the callbacks begun and ended differ *)
(* by the one that runs.                                                   *)
(***************************************************************************)
EXTENDS CallbackHandler, TLAPS

CallsCounted == \A t \in Threads : cpc[t] # "idle" => calls[t] \in 1 .. MaxCalls

TypeInv == TypeOK /\ CallsCounted /\ (wpc = "run" => current \in Callbacks)

QueueInv ==
  /\ Len(pushed) = Len(begun) + Len(callbacks)
  /\ \A i \in 1 .. Len(callbacks) : callbacks[i] = pushed[Len(begun) + i]

RunInv ==
  /\ wpc = "run" => /\ Len(begun) = Len(ended) + 1
                    /\ current = begun[Len(ended) + 1]
  /\ wpc # "run" => Len(begun) = Len(ended)

OrderInv == QueueInv /\ RunInv

LateInv ==
  wpc \in {"check", "exited"} => \A i \in 1 .. Len(callbacks) : callbacks[i] \in late

-----------------------------------------------------------------------------
(* The initial state is well typed.                                        *)
LEMMA InitTypeInv == Init => TypeInv
  BY ConstantsAssumption DEF Init, TypeInv, TypeOK, CallsCounted, Threads, Callbacks

(* Each step of executeCallback, of the worker and of the destructor keeps *)
(* the types.                                                              *)
LEMMA NextTypeInv == TypeInv /\ [Next]_vars => TypeInv'
<1> SUFFICES ASSUME TypeInv, [Next]_vars PROVE TypeInv'
  OBVIOUS
<1> USE ConstantsAssumption DEF TypeInv, TypeOK, CallsCounted, Callbacks, history
<1>1. ASSUME NEW t \in Threads, Call(t) PROVE TypeInv'
  BY <1>1 DEF Call, MayCall
<1>2. ASSUME NEW t \in Threads, Lock(t) PROVE TypeInv'
  BY <1>2 DEF Lock
<1>3. ASSUME NEW t \in Threads, Push(t) PROVE TypeInv'
  <2>1. <<t, calls[t]>> \in Callbacks
    BY <1>3 DEF Push, PushThen
  <2>2. callbacks' \in Seq(Callbacks) /\ pushed' \in Seq(Callbacks)
    BY <1>3, <2>1 DEF Push, PushThen
  <2>3. late' \subseteq Callbacks
    BY <1>3, <2>1 DEF Push, PushThen
  <2> QED BY <1>3, <2>2, <2>3 DEF Push, PushThen
<1>4. ASSUME NEW t \in Threads, Post(t) PROVE TypeInv'
  BY <1>4 DEF Post
<1>5. CASE SemWait
  BY <1>5 DEF SemWait, SemWaitThen
<1>6. CASE SemWaitInterrupted
  BY <1>6 DEF SemWaitInterrupted
<1>7. CASE WorkerLock
  BY <1>7 DEF WorkerLock, Threads
<1>8. CASE Take
  <2>1. Head(callbacks) \in Callbacks /\ Tail(callbacks) \in Seq(Callbacks)
    BY <1>8 DEF Take
  <2>2. begun' \in Seq(Callbacks)
    BY <1>8, <2>1 DEF Take
  <2>3. current' \in Callbacks /\ current' \in Threads \X (0 .. MaxCalls)
    BY <1>8, <2>1 DEF Take
  <2> QED BY <1>8, <2>1, <2>2, <2>3 DEF Take
<1>9. CASE CallbackReturns
  <2>1. ended' \in Seq(Callbacks)
    BY <1>9 DEF CallbackReturns
  <2> QED BY <1>9, <2>1 DEF CallbackReturns
<1>10. CASE Drained
  BY <1>10 DEF Drained
<1>11. CASE CheckRunning
  BY <1>11 DEF CheckRunning
<1>12. CASE StopRunning
  BY <1>12 DEF StopRunning, DestructorThen
<1>13. CASE DestructorPost
  BY <1>13 DEF DestructorPost
<1>14. CASE Join
  BY <1>14 DEF Join
<1>15. CASE UNCHANGED vars
  BY <1>15 DEF vars
<1> QED
  BY <1>1, <1>2, <1>3, <1>4, <1>5, <1>6, <1>7, <1>8, <1>9, <1>10, <1>11,
     <1>12, <1>13, <1>14, <1>15 DEF Next, Execute, HandleCallback, Destructor

(* Every variable of CallbackHandler keeps its type.                       *)
THEOREM TypeCorrect == Spec => []TypeOK
<1>1. Spec => []TypeInv
  BY InitTypeInv, NextTypeInv, PTL DEF Spec
<1>2. TypeInv => TypeOK
  BY DEF TypeInv
<1> QED BY <1>1, <1>2, PTL

-----------------------------------------------------------------------------
(* A push is followed by a post, and the worker tests the queue between    *)
(* taking a token and sleeping again.                                      *)
LEMMA NextNoLostWakeup ==
  TypeOK /\ NoLostWakeup /\ [Next]_vars => NoLostWakeup'
<1> SUFFICES ASSUME TypeOK, NoLostWakeup, [Next]_vars PROVE NoLostWakeup'
  OBVIOUS
<1> USE DEF NoLostWakeup, TypeOK
<1>1. ASSUME NEW t \in Threads, Call(t) \/ Lock(t) PROVE NoLostWakeup'
  BY <1>1 DEF Call, Lock
<1>2. ASSUME NEW t \in Threads, Push(t) PROVE NoLostWakeup'
  BY <1>2 DEF Push, PushThen
<1>3. ASSUME NEW t \in Threads, Post(t) PROVE NoLostWakeup'
  BY <1>3 DEF Post
<1>4. CASE SemWait \/ SemWaitInterrupted \/ WorkerLock \/ Take \/ CallbackReturns
  BY <1>4 DEF SemWait, SemWaitThen, SemWaitInterrupted, WorkerLock, Take,
              CallbackReturns
<1>5. CASE Drained
  BY <1>5 DEF Drained
<1>6. CASE CheckRunning
  BY <1>6 DEF CheckRunning
<1>7. CASE StopRunning \/ Join
  BY <1>7 DEF StopRunning, DestructorThen, Join
<1>8. CASE DestructorPost
  BY <1>8 DEF DestructorPost
<1>9. CASE UNCHANGED vars
  BY <1>9 DEF vars
<1> QED
  BY <1>1, <1>2, <1>3, <1>4, <1>5, <1>6, <1>7, <1>8, <1>9
  DEF Next, Execute, HandleCallback, Destructor

(* The worker never sleeps on a callback nobody will wake it for.          *)
THEOREM WakeupNeverLost == Spec => []NoLostWakeup
<1>1. Init => NoLostWakeup
  BY DEF Init, NoLostWakeup
<1> QED BY <1>1, TypeCorrect, NextNoLostWakeup, PTL DEF Spec

-----------------------------------------------------------------------------
(* The queue stays the unbegun part of the pushes, in order.               *)
LEMMA NextOrderInv == TypeInv /\ OrderInv /\ [Next]_vars => OrderInv'
<1> SUFFICES ASSUME TypeInv, OrderInv, [Next]_vars PROVE OrderInv'
  OBVIOUS
<1> USE DEF TypeInv, TypeOK, OrderInv, QueueInv, RunInv
<1>1. ASSUME NEW t \in Threads, Push(t) PROVE OrderInv'
  <2> DEFINE j == <<t, calls[t]>>
  <2>1. j \in Callbacks
    BY <1>1 DEF Push, PushThen, CallsCounted, Callbacks
  <2>2. /\ callbacks' = Append(callbacks, j) /\ pushed' = Append(pushed, j)
        /\ UNCHANGED <<begun, ended, wpc, current>>
    BY <1>1 DEF Push, PushThen
  <2> HIDE DEF j
  <2>3. QueueInv'
    BY <2>1, <2>2
  <2>4. RunInv'
    BY <2>2
  <2> QED BY <2>3, <2>4
<1>2. CASE Take
  <2>1. /\ Len(callbacks) > 0
        /\ Head(callbacks) = pushed[Len(begun) + 1]
        /\ Head(callbacks) \in Callbacks
    BY <1>2 DEF Take
  <2>2. QueueInv'
    <3>1. Len(begun') = Len(begun) + 1 /\ Len(callbacks') = Len(callbacks) - 1
      BY <1>2, <2>1 DEF Take
    <3>2. ASSUME NEW i \in 1 .. Len(callbacks')
          PROVE  callbacks'[i] = pushed'[Len(begun') + i]
      <4>1. callbacks'[i] = callbacks[i + 1]
        BY <1>2, <2>1, <3>1 DEF Take
      <4>2. i + 1 \in 1 .. Len(callbacks)
        BY <3>1
      <4>3. callbacks[i + 1] = pushed[Len(begun) + (i + 1)]
        BY <4>2
      <4> QED BY <1>2, <3>1, <4>1, <4>3 DEF Take
    <3>3. pushed' = pushed /\ Len(pushed) = Len(begun) + Len(callbacks)
      BY <1>2 DEF Take
    <3>4. Len(callbacks) \in Nat /\ Len(begun) \in Nat
      OBVIOUS
    <3> HIDE DEF TypeInv, TypeOK, OrderInv, QueueInv, RunInv
    <3>5. Len(pushed') = Len(begun') + Len(callbacks')
      BY <3>1, <3>3, <3>4
    <3> QED BY <3>2, <3>5 DEF QueueInv
  <2>3. RunInv'
    BY <1>2, <2>1 DEF Take
  <2> QED BY <2>2, <2>3
<1>3. CASE CallbackReturns
  BY <1>3 DEF CallbackReturns
<1>4. CASE UNCHANGED <<callbacks, pushed, begun, ended, current>>
           /\ (wpc = "run" <=> wpc' = "run")
  BY <1>4
<1>5. ASSUME NEW t \in Threads, Call(t) \/ Lock(t) \/ Post(t) PROVE OrderInv'
  BY <1>4, <1>5 DEF Call, Lock, Post, history
<1>6. CASE SemWait \/ SemWaitInterrupted \/ WorkerLock \/ Drained \/ CheckRunning
  BY <1>4, <1>6 DEF SemWait, SemWaitThen, SemWaitInterrupted, WorkerLock,
                    Drained, CheckRunning, history
<1>7. CASE Destructor
  BY <1>4, <1>7 DEF Destructor, StopRunning, DestructorThen, DestructorPost,
                    Join, history
<1>8. CASE UNCHANGED vars
  BY <1>4, <1>8 DEF vars
<1> QED
  BY <1>1, <1>2, <1>3, <1>5, <1>6, <1>7, <1>8 DEF Next, Execute, HandleCallback

(* The invariants the refinement needs hold for ever.                      *)
LEMMA OrderCorrect == Spec => [](TypeInv /\ OrderInv)
<1>1. Init => OrderInv
  BY DEF Init, OrderInv, QueueInv, RunInv
<1> QED BY <1>1, InitTypeInv, NextTypeInv, NextOrderInv, PTL DEF Spec

(* A step of CallbackHandler is a submission, the start of the oldest      *)
(* callback, its end, or invisible to FifoExecutor.                        *)
LEMMA StepSimulation ==
  TypeInv /\ OrderInv /\ [Next]_vars => [Executor!Next]_(Executor!vars)
<1> SUFFICES ASSUME TypeInv, OrderInv, [Next]_vars
             PROVE  Executor!Next \/ UNCHANGED Executor!vars
  OBVIOUS
<1> USE DEF Executor!vars
<1>1. ASSUME NEW t \in Threads, Push(t) PROVE Executor!Next
  <2>1. <<t, calls[t]>> \in Callbacks
    BY <1>1 DEF Push, PushThen, TypeInv, TypeOK, CallsCounted, Callbacks
  <2>2. Executor!Submit(<<t, calls[t]>>)
    BY <1>1 DEF Push, PushThen, Executor!Submit
  <2> QED BY <2>1, <2>2 DEF Executor!Next
<1>2. CASE Take
  <2>1. Len(callbacks) > 0 /\ Head(callbacks) = pushed[Len(begun) + 1]
    BY <1>2 DEF Take, TypeInv, TypeOK, OrderInv, QueueInv
  <2>2. Executor!Start
    BY <1>2, <2>1 DEF Take, Executor!Start, TypeInv, TypeOK, OrderInv,
                      QueueInv, RunInv
  <2> QED BY <2>2 DEF Executor!Next
<1>3. CASE CallbackReturns
  <2>1. Executor!Finish
    BY <1>3 DEF CallbackReturns, Executor!Finish, TypeInv, TypeOK, OrderInv,
                RunInv
  <2> QED BY <2>1 DEF Executor!Next
<1>4. ASSUME NEW t \in Threads, Call(t) \/ Lock(t) \/ Post(t)
      PROVE  UNCHANGED Executor!vars
  BY <1>4 DEF Call, Lock, Post, history
<1>5. CASE SemWait \/ SemWaitInterrupted \/ WorkerLock \/ Drained \/ CheckRunning
  BY <1>5 DEF SemWait, SemWaitThen, SemWaitInterrupted, WorkerLock, Drained,
              CheckRunning, history
<1>6. CASE Destructor
  BY <1>6 DEF Destructor, StopRunning, DestructorThen, DestructorPost, Join,
              history
<1>7. CASE UNCHANGED vars
  BY <1>7 DEF vars
<1> QED
  BY <1>1, <1>2, <1>3, <1>4, <1>5, <1>6, <1>7 DEF Next, Execute, HandleCallback

(* CallbackHandler implements FifoExecutor: callbacks run in the order of  *)
(* the pushes, one at a time, none twice.                                  *)
THEOREM ImplementsFifo == Spec => RunsInSubmissionOrder
<1>1. Init => Executor!Init
  BY DEF Init, Executor!Init
<1> QED
  BY <1>1, OrderCorrect, StepSimulation, PTL
  DEF Spec, RunsInSubmissionOrder, Executor!Spec

-----------------------------------------------------------------------------
(* What the worker leaves behind came after it last saw the queue empty.   *)
LEMMA NextLateInv == TypeInv /\ LateInv /\ [Next]_vars => LateInv'
<1> SUFFICES ASSUME TypeInv, LateInv, [Next]_vars PROVE LateInv'
  OBVIOUS
<1> USE DEF TypeInv, TypeOK, LateInv
<1>1. ASSUME NEW t \in Threads, Push(t) PROVE LateInv'
  <2> DEFINE j == <<t, calls[t]>>
  <2>1. j \in Callbacks
    BY <1>1 DEF Push, PushThen, CallsCounted, Callbacks
  <2>2. /\ callbacks' = Append(callbacks, j) /\ wpc' = wpc
        /\ wpc \in {"check", "exited"} => late' = late \cup {j}
    BY <1>1 DEF Push, PushThen
  <2> HIDE DEF j
  <2> QED BY <2>1, <2>2
<1>2. CASE Drained
  BY <1>2 DEF Drained
<1>3. CASE CheckRunning
  BY <1>3 DEF CheckRunning, history
<1>4. CASE UNCHANGED <<callbacks, late, wpc>>
  BY <1>4
<1>5. ASSUME NEW t \in Threads, Call(t) \/ Lock(t) \/ Post(t) PROVE LateInv'
  BY <1>4, <1>5 DEF Call, Lock, Post, history
<1>6. CASE SemWait \/ SemWaitInterrupted \/ WorkerLock \/ Take \/ CallbackReturns
  BY <1>6 DEF SemWait, SemWaitThen, SemWaitInterrupted, WorkerLock, Take,
              CallbackReturns
<1>7. CASE Destructor
  BY <1>4, <1>7 DEF Destructor, StopRunning, DestructorThen, DestructorPost,
                    Join, history
<1>8. CASE UNCHANGED vars
  BY <1>4, <1>8 DEF vars
<1> QED
  BY <1>1, <1>2, <1>3, <1>5, <1>6, <1>7, <1>8 DEF Next, Execute, HandleCallback

(* When the worker sees that it must stop, only callbacks pushed in the    *)
(* window between its last test of the queue and the test of _running are  *)
(* lost.                                                                   *)
THEOREM LossOnlyAtExit == Spec => []LostOnlyInExitWindow
<1>1. Init => LateInv
  BY DEF Init, LateInv
<1>2. LateInv => LostOnlyInExitWindow
  BY DEF LateInv, LostOnlyInExitWindow
<1> QED BY <1>1, <1>2, NextLateInv, OrderCorrect, PTL DEF Spec
=============================================================================
