------------------------------ MODULE BreakPoint ------------------------------
(***************************************************************************)
(* One BreakPoint (include/Breakpoint.h, source/Breakpoint.cpp) and the    *)
(* SpiedThread that runs into it.  set reads the word at the address from  *)
(* the tester, which shares the program's memory; the Tracer writes it,    *)
(* by a command that nobody waits for.  The breakpoint is used by one      *)
(* actor at a time, as nothing guards _isSet and _backup.                  *)
(***************************************************************************)
EXTENDS SpiedThread

VARIABLES isSet, backup  \* _isSet and _backup

allVars == <<vars, isSet, backup>>

Init == ThreadInit /\ isSet = FALSE /\ backup = "insn"

-----------------------------------------------------------------------------
ResumeAndSet ==
  GetRip \o <<Op("jumpBack"), Op("unsetBreak")>>
    \o SingleStep(<<Op("setBreak")>> \o Resume("none"))

ResumeAndUnset == GetRip \o <<Op("jumpBack"), Op("unsetBreak")>> \o Resume("none")

\* getRip() - 1 is the breakpoint's address if the thread has just hit it.
JumpBack(a) ==
  /\ At(a, "jumpBack")
  /\ Goto(a, Jump(IF cRip = "bp" THEN "at" ELSE "wild"))
  /\ UNCHANGED <<kernelVars, threadVars, owner, cacheVars, queue, callbacks, done,
                 historyVars, isSet, backup>>

SetBreak(a) ==
  /\ At(a, "setBreak")
  /\ Done(a)
  /\ isSet' = TRUE
  /\ IF isSet THEN UNCHANGED <<backup, queue>>
              ELSE backup' = word /\ Send(<<Cmd(a, "POKE", "int3")>>)
  /\ UNCHANGED <<kernelVars, threadVars, owner, cacheVars, callbacks, done,
                 historyVars>>

UnsetBreak(a) ==
  /\ At(a, "unsetBreak")
  /\ Done(a)
  /\ isSet' = FALSE
  /\ IF isSet THEN Send(<<Cmd(a, "POKE", backup)>>) ELSE UNCHANGED queue
  /\ UNCHANGED <<kernelVars, threadVars, owner, cacheVars, callbacks, done,
                 historyVars, backup>>

-----------------------------------------------------------------------------
Go(a) ==
  \/ JumpBack(a) \/ SetBreak(a) \/ UnsetBreak(a)
  \/ Advance(a) /\ UNCHANGED <<isSet, backup>>

Next ==
  \/ ThreadNext /\ UNCHANGED <<isSet, backup>>
  \/ \E a \in Actors : JumpBack(a) \/ SetBreak(a) \/ UnsetBreak(a)

Spec == Init /\ [][Next]_allVars

(* The Tracer's thread, the listener and a thread inside a method are      *)
(* scheduled, and timers expire; the traced thread need do nothing.        *)
Fairness ==
  /\ WF_allVars((RunCommand \/ NewThread \/ ThreadEvent) /\ UNCHANGED <<isSet, backup>>)
  /\ WF_allVars(BeginCallback /\ UNCHANGED <<isSet, backup>>)
  /\ \A a \in Actors : WF_allVars(Go(a))

FairSpec == Spec /\ Fairness

-----------------------------------------------------------------------------
(* What a breakpoint will put back is the program's own instruction: set   *)
(* never takes the INT3 for it (line 18), although the write of an earlier *)
(* unset is queued and not waited for; between the unset and the set of    *)
(* resumeAndSet it is the future of the step that is waited for.           *)
BackupIsCode == backup = "insn" \/ run = "dead"

(* The thread is never left stopped with nobody to resume it: when nothing *)
(* is under way and no callback is left it runs, is dead, or stopped for a *)
(* fault or for SIGSTOP, of which no callback is told (lines 316-321 of    *)
(* SpiedThread.cpp): only the tester's own threads can resume it then.  A  *)
(* stop over which CONTINUED is recorded (StopsRecorded) may be missed.    *)
NeverStranded ==
  (Quiet /\ callbacks = <<>> /\ todo[Callback] = <<>> /\ run = "stopped")
    => (reason \in {"SEGV", "STOP"} \/ overtaken)

(* resumeAndSet and resumeAndUnset send the thread back to the address of  *)
(* the breakpoint and nowhere else: the rip they subtract 1 from is that   *)
(* of the stop they were called for.                                       *)
GoesBackToBreakPoint == rip = "wild" => overtaken
=============================================================================
