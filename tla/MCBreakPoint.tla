----------------------------- MODULE MCBreakPoint -----------------------------
(* BreakPoint for TLC: the scripts of the callbacks and of the users.      *)
EXTENDS BreakPoint

\* What is the same for every new thread: set the breakpoint, or not.
Created == {Resume("none"), <<Op("setBreak")>> \o Resume("none")}

\* Callbacks as test/ThreadIdentification writes them: a breakpoint is left
\* behind; a watchpoint's callback looks, perhaps moves the thread, resumes.
Handlers ==
  [k \in Kinds |->
     CASE k = "created" -> Created
       [] k = "break"   -> {ResumeAndUnset}
       [] k = "watch"   -> {GetRip \o Resume("none"), Jump("other") \o Resume("none")}]

\* Callbacks as test/BasicTest writes them: the breakpoint stays.
HandlersThatSet ==
  [k \in Kinds |-> IF k = "break" THEN {ResumeAndSet} ELSE Created]

UserCalls == {Stop \o Resume("none"), Terminate, SingleStep(<<>>)}

NoScript == {}

\* A constraint that leaves nothing out where every property of the run excepts the
\* states in which overtaken holds, which it does for good.
NotOvertaken == ~overtaken
=============================================================================
