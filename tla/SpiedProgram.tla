---------------------------- MODULE SpiedProgram ----------------------------
(***************************************************************************)
(* The life of SpiedPrograms in one tester (source/SpiedProgram.cpp,       *)
(* include/SpiedProgram.h): the tester's thread makes, uses and destroys   *)
(* them; each has a listener, a callback thread and, here, one thread      *)
(* beside its starter.  What handling an event does is in SpiedThread:     *)
(* here a stop ends by a callback or by the listener resuming the thread.  *)
(* Members are destroyed in the reverse of their order in the class.       *)
(***************************************************************************)
EXTENDS WrappedFunction

CONSTANT MaxStops   \* bound: stops of the programs' threads after the first

VARIABLES
  phase,     \* of a program: "none", "alive", where its destructor is, "gone"
  listener,  \* "none", "listening" or "ended"
  event,     \* what waitpid has yet to report of the program's thread
  known,     \* _spiedThreads: whose threads the program has a SpiedThread for
  callbacks, \* callbacks queued, by program: [of, era]
  stops      \* stops so far

lifeVars == <<phase, listener, event, known, callbacks, stops>>
vars == <<wrapVars, lifeVars>>

Init ==
  /\ WrapInit
  /\ phase = [p \in Programs |-> "none"]
  /\ listener = [p \in Programs |-> "none"]
  /\ event = [p \in Programs |-> "none"]
  /\ known = [p \in Programs |-> {}]
  /\ callbacks = [p \in Programs |-> <<>>]
  /\ stops = 0

\* The tester's thread is between two calls.
Ready ==
  user = Idle /\ \A p \in Programs : phase[p] \in {"none", "alive", "gone"}

Goto(p, next) == phase' = [phase EXCEPT ![p] = next]

\* Only the Tracer that created a thread can make requests of it.
Resume(p, q) ==
  IF p = q /\ th[q] = "stopped"
    THEN th' = [th EXCEPT ![q] = "running"] /\ event' = [event EXCEPT ![q] = "none"]
    ELSE UNCHANGED <<th, event>>

-----------------------------------------------------------------------------
(* The tester's thread, outside the destructor.                            *)

\* startTracing leaves the starter and the main thread stopped.  Programs are
\* numbered in the order they are made.
Construct(p) ==
  /\ Ready /\ phase[p] = "none" /\ \A q \in 1 .. p - 1 : phase[q] # "none"
  /\ Goto(p, "alive")
  /\ th' = [th EXCEPT ![p] = "stopped"] /\ event' = [event EXCEPT ![p] = "stop"]
  /\ UNCHANGED <<poolVars, object, slot, queue, user, calling, crash, stray,
                 listener, known, callbacks, stops>>

StartListener(p) ==
  /\ Ready /\ phase[p] = "alive" /\ listener[p] = "none"
  /\ listener' = [listener EXCEPT ![p] = "listening"]
  /\ UNCHANGED <<wrapVars, phase, event, known, callbacks, stops>>

\* resume, for the threads the program knows; stop and terminate lead to
\* ThreadStops and ProgramExits.
ResumeProgram(p) ==
  /\ Ready /\ phase[p] = "alive"
  /\ \E q \in known[p] : Resume(p, q)
  /\ UNCHANGED <<poolVars, object, slot, queue, user, calling, crash, stray,
                 phase, listener, known, callbacks, stops>>

UseWrapped(p) ==
  /\ Ready /\ phase[p] = "alive"
  /\ \E b \in Bins :
       \/ \E lookup \in Lookups :
            NewWrapped(<<p, b>>, lookup) \/ NewWrappedThrows(<<p, b>>, lookup)
       \/ WrapCrashes(<<p, b>>)
       \/ SetWrapper(<<p, b>>)
       \/ \E active \in BOOLEAN : Wrapping(<<p, b>>, active)
  /\ UNCHANGED lifeVars

UserWaits == WrappingReturns /\ UNCHANGED lifeVars

-----------------------------------------------------------------------------
(* The spied program.                                                      *)

ThreadStops(p) ==
  /\ th[p] = "running" /\ stops < MaxStops
  /\ th' = [th EXCEPT ![p] = "stopped"]
  /\ event' = [event EXCEPT ![p] = "stop"]
  /\ stops' = stops + 1
  /\ UNCHANGED <<poolVars, object, slot, queue, user, calling, crash, stray,
                 phase, listener, known, callbacks>>

\* The program exits, or is killed, with its starter.
ProgramExits(p) ==
  /\ th[p] = "running"
  /\ th' = [th EXCEPT ![p] = "dead"]
  /\ event' = [event EXCEPT ![p] = "exit"]
  /\ UNCHANGED <<poolVars, object, slot, queue, user, calling, crash, stray,
                 phase, listener, known, callbacks, stops>>

ProgramCalls(p) ==
  /\ \/ \E b \in Bins : CallDirect(<<p, b>>) \/ EnterWrapper(<<p, b>>)
     \/ LeaveWrapper(p)
  /\ UNCHANGED lifeVars

-----------------------------------------------------------------------------
(* listenEvent: waitpid(-1) collects the events of every child, also those *)
(* of another program.                                                     *)

Cleared(p) == phase[p] \notin {"alive", "clear"}

\* SpiedThreads of the era "old" end when the vector is cleared, later ones
\* with the program's members.
Queue(p, q) ==
  callbacks' = [callbacks EXCEPT ![p] =
                  Append(@, [of |-> q, era |-> IF Cleared(p) THEN "late" ELSE "old"])]

\* Whatever the event is; there may be no _onThreadCreation.
NewThread(p, q) ==
  /\ listener[p] = "listening" /\ event[q] # "none" /\ q \notin known[p]
  /\ event' = [event EXCEPT ![q] = "none"]
  /\ known' = [known EXCEPT ![p] = @ \cup {q}]
  /\ Queue(p, q) \/ UNCHANGED callbacks
  /\ UNCHANGED <<wrapVars, phase, listener, stops>>

\* A stop leads to a callback, to a resumption or to neither.
ThreadEvent(p, q) ==
  /\ listener[p] = "listening" /\ event[q] # "none" /\ q \in known[p]
  /\ \/ event[q] = "stop" /\ Queue(p, q) /\ UNCHANGED th
     \/ /\ event[q] = "stop" /\ p = q
        /\ th' = [th EXCEPT ![q] = "running"] /\ UNCHANGED callbacks
     \/ UNCHANGED <<th, callbacks>>
  /\ event' = [event EXCEPT ![q] = "none"]
  /\ UNCHANGED <<poolVars, object, slot, queue, user, calling, crash, stray, phase,
                 listener, known, stops>>

\* waitpid fails: there is no child left.
ListenerEnds(p) ==
  /\ listener[p] = "listening"
  /\ \A q \in Programs : th[q] \in {"none", "dead"} /\ event[q] = "none"
  /\ listener' = [listener EXCEPT ![p] = "ended"]
  /\ UNCHANGED <<wrapVars, phase, event, known, callbacks, stops>>

Listen(p) == ListenerEnds(p) \/ \E q \in Programs : NewThread(p, q) \/ ThreadEvent(p, q)

\* The callback resumes the thread it is given, which may be freed by now.
RunCallback(p) ==
  /\ callbacks[p] # <<>>
  /\ LET c == Head(callbacks[p])
         ends == IF c.era = "old" THEN Cleared(p) ELSE phase[p] \in {"tracer", "callbacks"}
     IN  /\ crash' = IF ends THEN "freed" ELSE crash
         /\ Resume(p, c.of)
  /\ callbacks' = [callbacks EXCEPT ![p] = Tail(@)]
  /\ UNCHANGED <<poolVars, object, slot, queue, user, calling, stray, phase, listener,
                 known, stops>>

\* Mutant: the Tracer's thread ends before the queue is empty.
TracerRunsWhileAlive(p) == phase[p] = "alive" /\ RunWrite(p) /\ UNCHANGED lifeVars

TracerRuns(p) == RunWrite(p) /\ UNCHANGED lifeVars

-----------------------------------------------------------------------------
(* ~SpiedProgram and the destructors of the members.                       *)

DestroyBegins(p) ==
  /\ Ready /\ phase[p] = "alive"
  /\ Goto(p, "clear")
  /\ UNCHANGED <<wrapVars, listener, event, known, callbacks, stops>>

\* _breakPoints and _spiedThreads are cleared.
ClearThen(p, next) ==
  /\ phase[p] = "clear"
  /\ known' = [known EXCEPT ![p] = {}]
  /\ Goto(p, next)
  /\ UNCHANGED <<wrapVars, listener, event, callbacks, stops>>

\* Mutant: the listener is not joined before the members are destroyed.
ClearUnjoined(p) == ClearThen(p, "functions")

Clear(p) == ClearThen(p, "join")

\* Joining a thread that start has not created throws in the destructor.
Join(p) ==
  /\ phase[p] = "join"
  /\ \/ listener[p] = "ended" /\ Goto(p, "functions") /\ UNCHANGED crash
     \/ listener[p] = "none" /\ crash' = "join" /\ UNCHANGED phase
  /\ UNCHANGED <<poolVars, object, slot, queue, user, th, calling, stray,
                 listener, event, known, callbacks, stops>>

DestroyFunctions(p) ==
  /\ phase[p] = "functions"
  /\ \/ (\E b \in Bins : RestoreSlot(<<p, b>>) \/ ReleaseWrapper(<<p, b>>)) /\ UNCHANGED phase
     \/ /\ \A b \in Bins : object[<<p, b>>] = Nowhere
        /\ Goto(p, "tracer") /\ UNCHANGED wrapVars
  /\ UNCHANGED <<listener, event, known, callbacks, stops>>

\* _breakPoints, _spiedThreads; then the Tracer runs what is queued and ends.
DestroyTracer(p) ==
  /\ phase[p] = "tracer" /\ queue[p] = <<>>
  /\ Goto(p, "callbacks")
  /\ UNCHANGED <<wrapVars, listener, event, known, callbacks, stops>>

\* The namespace, then the CallbackHandler, which runs what is queued first.
DestroyCallbacks(p) ==
  /\ phase[p] = "callbacks" /\ callbacks[p] = <<>>
  /\ Goto(p, "gone")
  /\ UNCHANGED <<wrapVars, listener, event, known, callbacks, stops>>

Destructor(p) ==
  Clear(p) \/ Join(p) \/ DestroyFunctions(p) \/ DestroyTracer(p) \/ DestroyCallbacks(p)

-----------------------------------------------------------------------------
Next ==
  /\ crash = "none"
  /\ \/ UserWaits
     \/ \E p \in Programs :
          \/ Construct(p) \/ StartListener(p) \/ ResumeProgram(p) \/ UseWrapped(p)
          \/ ThreadStops(p) \/ ProgramExits(p) \/ ProgramCalls(p)
          \/ Listen(p) \/ RunCallback(p) \/ TracerRuns(p)
          \/ DestroyBegins(p) \/ Destructor(p)

(* The threads of the tester are scheduled.  Of the spied program it is    *)
(* assumed that it exits when it is left to run.                           *)
Fairness ==
  \A p \in Programs :
    /\ WF_vars(crash = "none" /\ Listen(p))
    /\ WF_vars(crash = "none" /\ RunCallback(p))
    /\ WF_vars(crash = "none" /\ TracerRuns(p))
    /\ WF_vars(crash = "none" /\ Destructor(p))
    /\ WF_vars(crash = "none" /\ ProgramExits(p))

Spec == Init /\ [][Next]_vars /\ Fairness

-----------------------------------------------------------------------------
\* A thread is stopped and there is neither an event nor a callback left that
\* could lead to its resumption.
Forgotten ==
  /\ \E q \in Programs : th[q] = "stopped" /\ event[q] = "none"
  /\ \A p \in Programs : callbacks[p] = <<>>

\* A thread died inside a wrapper, whose wrapperMutex stays locked.
DiedInside == \E q \in Programs : th[q] = "dead" /\ calling[q] # Nowhere

(* ~SpiedProgram returns when the programs it waits for exit, in whatever  *)
(* state their threads, the listeners and the queues of callbacks are when *)
(* it begins.  It does not when a thread is left stopped, its event having *)
(* been collected (by the listener of another program, too, or with        *)
(* nobody to resume it), nor when a thread died inside a wrapper, whose    *)
(* mutex releaseWrapper then waits for; a callback on a freed SpiedThread  *)
(* and the join of a listener never started end the tester.                *)
DestructorReturns ==
  (\E p \in Programs : phase[p] = "clear") ~>
    (Ready \/ crash # "none" \/ Forgotten \/ DiedInside)
=============================================================================
