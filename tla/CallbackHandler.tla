--------------------------- MODULE CallbackHandler ---------------------------
(***************************************************************************)
(* CallbackHandler (include/CallbackHandler.h, source/CallbackHandler.cpp):*)
(* a queue of callbacks under a mutex, a counting semaphore, and one       *)
(* thread that runs them.  Any thread may call executeCallback, the        *)
(* callbacks included, and the destructor may start at any time.           *)
(*                                                                         *)
(* A callback is identified by the thread that submitted it and the number *)
(* of that thread's call.  pushed, begun, ended and late are history: the  *)
(* callbacks pushed, started and completed so far, and those pushed after  *)
(* the worker last found the queue empty but before it slept again.        *)
(***************************************************************************)
EXTENDS Integers, Sequences

CONSTANTS
  Clients,    \* the threads other than the worker that call executeCallback
  Worker,     \* the thread _callbackHandler
  NoOne,      \* owner of a free mutex
  MaxCalls    \* bound: calls of executeCallback by one thread

ASSUME ConstantsAssumption ==
  /\ Worker \notin Clients
  /\ NoOne \notin Clients \cup {Worker}
  /\ MaxCalls \in Nat

Threads == Clients \cup {Worker}
Callbacks == Threads \X (1 .. MaxCalls)

VARIABLES
  running,    \* _running
  callbacks,  \* _callbacks
  mutex,      \* owner of _callbackMutex
  sem,        \* value of _callbackSem
  wpc,        \* where the worker is in handleCallback
  current,    \* the callback moved out of the queue (meaningful in "run")
  cpc,        \* where each thread is in executeCallback
  calls,      \* calls of executeCallback each thread has made
  dpc,        \* where the owner is in the destructor
  pushed, begun, ended, late

vars == <<running, callbacks, mutex, sem, wpc, current, cpc, calls, dpc,
          pushed, begun, ended, late>>

history == <<pushed, begun, ended, late>>

Init ==
  /\ running = TRUE
  /\ callbacks = <<>>
  /\ mutex = NoOne
  /\ sem = 0
  /\ wpc = "semwait"
  /\ current = <<Worker, 0>>
  /\ cpc = [t \in Threads |-> "idle"]
  /\ calls = [t \in Threads |-> 0]
  /\ dpc = "alive"
  /\ pushed = <<>> /\ begun = <<>> /\ ended = <<>> /\ late = {}

-----------------------------------------------------------------------------
(* executeCallback.  The worker calls it only from inside a callback.      *)

MayCall(t) ==
  /\ dpc # "gone"
  /\ calls[t] < MaxCalls
  /\ t = Worker => wpc = "run"

Call(t) ==
  /\ cpc[t] = "idle" /\ MayCall(t)
  /\ cpc' = [cpc EXCEPT ![t] = "lock"]
  /\ calls' = [calls EXCEPT ![t] = @ + 1]
  /\ UNCHANGED <<running, callbacks, mutex, sem, wpc, current, dpc, history>>

Lock(t) ==
  /\ cpc[t] = "lock"
  /\ mutex = NoOne
  /\ mutex' = t
  /\ cpc' = [cpc EXCEPT ![t] = "locked"]
  /\ UNCHANGED <<running, callbacks, sem, wpc, current, calls, dpc, history>>

PushThen(t, label) ==
  /\ cpc[t] = "locked"
  /\ callbacks' = Append(callbacks, <<t, calls[t]>>)
  /\ mutex' = NoOne
  /\ cpc' = [cpc EXCEPT ![t] = label]
  /\ pushed' = Append(pushed, <<t, calls[t]>>)
  /\ late' = IF wpc \in {"check", "exited"} THEN late \cup {<<t, calls[t]>>}
                                            ELSE late
  /\ UNCHANGED <<running, sem, wpc, current, calls, dpc, begun, ended>>

\* Mutant: the semaphore is not posted.
PushWithoutPost(t) == PushThen(t, "idle")

Push(t) == PushThen(t, "post")

Post(t) ==
  /\ cpc[t] = "post"
  /\ sem' = sem + 1
  /\ cpc' = [cpc EXCEPT ![t] = "idle"]
  /\ UNCHANGED <<running, callbacks, mutex, wpc, current, calls, dpc, history>>

-----------------------------------------------------------------------------
(* handleCallback.                                                         *)

SemWaitThen(label) ==
  /\ wpc = "semwait"
  /\ sem > 0
  /\ sem' = sem - 1
  /\ wpc' = label
  /\ UNCHANGED <<running, callbacks, mutex, current, cpc, calls, dpc, history>>

\* Mutant: _running is tested before the queue is drained.
SemWaitThenCheck == SemWaitThen("check")

SemWait == SemWaitThen("lock")

\* A signal makes sem_wait fail, which ends the loop: the worker is gone.
SemWaitInterrupted ==
  /\ wpc = "semwait" /\ sem = 0
  /\ wpc' = "interrupted"
  /\ UNCHANGED <<running, callbacks, mutex, sem, current, cpc, calls, dpc,
                 history>>

WorkerLock ==
  /\ wpc = "lock"
  /\ mutex = NoOne
  /\ mutex' = Worker
  /\ wpc' = "test"
  /\ UNCHANGED <<running, callbacks, sem, current, cpc, calls, dpc, history>>

\* Mutant: the most recent callback is taken first.
TakeNewest ==
  /\ wpc = "test" /\ callbacks # <<>>
  /\ current' = callbacks[Len(callbacks)]
  /\ callbacks' = SubSeq(callbacks, 1, Len(callbacks) - 1)
  /\ mutex' = NoOne
  /\ wpc' = "run"
  /\ begun' = Append(begun, current')
  /\ UNCHANGED <<running, sem, cpc, calls, dpc, pushed, ended, late>>

\* Mutant: the callback runs with the queue's mutex held.
TakeAndKeepMutex ==
  /\ wpc = "test" /\ callbacks # <<>>
  /\ current' = Head(callbacks)
  /\ callbacks' = Tail(callbacks)
  /\ wpc' = "run"
  /\ begun' = Append(begun, current')
  /\ UNCHANGED <<running, mutex, sem, cpc, calls, dpc, pushed, ended, late>>

Take ==
  /\ wpc = "test" /\ callbacks # <<>>
  /\ current' = Head(callbacks)
  /\ callbacks' = Tail(callbacks)
  /\ mutex' = NoOne
  /\ wpc' = "run"
  /\ begun' = Append(begun, Head(callbacks))
  /\ UNCHANGED <<running, sem, cpc, calls, dpc, pushed, ended, late>>

\* The callback returns, any executeCallback it made included.
CallbackReturns ==
  /\ wpc = "run" /\ cpc[Worker] = "idle"
  /\ ended' = Append(ended, current)
  /\ wpc' = "lock"
  /\ UNCHANGED <<running, callbacks, mutex, sem, current, cpc, calls, dpc,
                 pushed, begun, late>>

Drained ==
  /\ wpc = "test" /\ callbacks = <<>>
  /\ mutex' = NoOne
  /\ wpc' = "check"
  /\ UNCHANGED <<running, callbacks, sem, current, cpc, calls, dpc, history>>

CheckRunning ==
  /\ wpc = "check"
  /\ wpc' = IF running THEN "semwait" ELSE "exited"
  /\ UNCHANGED <<running, callbacks, mutex, sem, current, cpc, calls, dpc,
                 history>>

-----------------------------------------------------------------------------
(* ~CallbackHandler.                                                       *)

DestructorThen(label) ==
  /\ dpc = "alive"
  /\ running' = FALSE
  /\ dpc' = label
  /\ UNCHANGED <<callbacks, mutex, sem, wpc, current, cpc, calls, history>>

\* Mutant: the destructor joins without waking the worker.
StopWithoutPost == DestructorThen("join")

StopRunning == DestructorThen("post")

DestructorPost ==
  /\ dpc = "post"
  /\ sem' = sem + 1
  /\ dpc' = "join"
  /\ UNCHANGED <<running, callbacks, mutex, wpc, current, cpc, calls, history>>

Join ==
  /\ dpc = "join" /\ wpc \in {"exited", "interrupted"}
  /\ dpc' = "gone"
  /\ UNCHANGED <<running, callbacks, mutex, sem, wpc, current, cpc, calls,
                 history>>

-----------------------------------------------------------------------------
Execute(t) == Call(t) \/ Lock(t) \/ Push(t) \/ Post(t)

HandleCallback ==
  \/ SemWait \/ WorkerLock
  \/ Take \/ CallbackReturns \/ Drained \/ CheckRunning

Destructor == StopRunning \/ DestructorPost \/ Join

Next ==
  \/ \E t \in Threads : Execute(t)
  \/ HandleCallback \/ SemWaitInterrupted \/ Destructor

Spec == Init /\ [][Next]_vars

(* A thread that has entered executeCallback or the destructor keeps being *)
(* scheduled, and so does the worker; nobody is obliged to make a call or  *)
(* to destroy the object, and no signal need arrive.                       *)
Fairness ==
  /\ \A t \in Threads : WF_vars(Lock(t) \/ Push(t) \/ Post(t))
  /\ WF_vars(HandleCallback)
  /\ WF_vars(DestructorPost) /\ WF_vars(Join)

FairSpec == Spec /\ Fairness

-----------------------------------------------------------------------------
TypeOK ==
  /\ running \in BOOLEAN
  /\ callbacks \in Seq(Callbacks)
  /\ mutex \in Threads \cup {NoOne}
  /\ sem \in Nat
  /\ wpc \in {"semwait", "lock", "test", "run", "check", "exited",
            "interrupted"}
  /\ current \in Threads \X (0 .. MaxCalls)
  /\ cpc \in [Threads -> {"idle", "lock", "locked", "post"}]
  /\ calls \in [Threads -> 0 .. MaxCalls]
  /\ dpc \in {"alive", "post", "join", "gone"}
  /\ pushed \in Seq(Callbacks)
  /\ begun \in Seq(Callbacks)
  /\ ended \in Seq(Callbacks)
  /\ late \subseteq Callbacks

(* The worker never sleeps on a callback nobody will wake it for: when it  *)
(* is about to wait, or waits, with callbacks queued, either the semaphore *)
(* has a token or some caller has yet to post the one it owes.  A push may *)
(* fall anywhere between the worker's test of the queue and its sem_wait.  *)
NoLostWakeup ==
  (wpc \in {"check", "semwait"} /\ callbacks # <<>>)
    => (sem > 0 \/ \E t \in Threads : cpc[t] = "post")

(* Callbacks run in the order of the pushes, one at a time, none twice.    *)
Executor == INSTANCE FifoExecutor
              WITH Jobs <- Callbacks, submitted <- pushed,
                   started <- begun, finished <- ended

RunsInSubmissionOrder == Executor!Spec

(* The worker leaves no callback behind when it sees that it must stop,    *)
(* except those pushed in the window between its last test of the queue    *)
(* (line 39) and its test of _running (line 50).                           *)
LostOnlyInExitWindow ==
  wpc = "exited" => \A i \in 1 .. Len(callbacks) : callbacks[i] \in late

(* Every callback pushed is started, unless the destructor begins or a     *)
(* signal has ended the worker: also one pushed from inside a callback,    *)
(* whose thread does not hold the mutex it then asks for.                  *)
EveryCallbackRuns ==
  \A j \in Callbacks :
    (\E i \in 1 .. Len(pushed) : pushed[i] = j)
      ~> \/ \E i \in 1 .. Len(begun) : begun[i] = j
         \/ dpc # "alive" \/ wpc = "interrupted"

(* Once the destructor has begun it returns: the worker wakes, drains the  *)
(* queue and sees _running, or a signal has ended it.                      *)
DestructorReturns == (dpc # "alive") ~> (dpc = "gone")
=============================================================================
