------------------------- MODULE BreakPointScripts -------------------------
(***************************************************************************)
(* What is asked of the scripts, constants of SpiedThread, by the theorems *)
(* about it and about BreakPoint.  The scripts of the runs satisfy it      *)
(* (RunScripts and SetScripts, in BreakPointProofs).                       *)
(***************************************************************************)
EXTENDS BreakPoint

Has(s, op) == \E k \in DOMAIN s : s[k].op = op

Scripts == UserScripts \cup UNION {CallbackScripts[k] : k \in Kinds}

\* What follows a single step in a script.
Rests == UNION {{s[k].arg : k \in {j \in DOMAIN s : s[j].op = "awaitStep"}} : s \in Scripts}

IsSeq(s) == Len(s) \in Nat /\ DOMAIN s = 1 .. Len(s) /\ s = [k \in 1 .. Len(s) |-> s[k]]

Sets(s, k) == s[k].op = "setState"
Continued(s, k) == Sets(s, k) /\ s[k].arg = "CONTINUED"

\* CONTINUED is recorded next after PTRACE_CONT is queued, and only then.
Paired(s) ==
  \A k \in DOMAIN s :
    /\ s[k].op = "cont" => k + 1 \in DOMAIN s /\ Continued(s, k + 1)
    /\ k > 1 /\ Continued(s, k) => s[k - 1].op = "cont"
    /\ s[k].op = "awaitStep" => s[k].arg \in Rests
    /\ s[k].op = "hit" => s[k].arg \in Kinds

\* No other state is recorded.
OnlyResumes(s) == \A k \in DOMAIN s : Sets(s, k) => Continued(s, k)

Opens(s) == s # <<>> => ~Sets(s, 1)

\* What is made of calls of the methods.
Methodical(s) == IsSeq(s) /\ Paired(s) /\ OnlyResumes(s) /\ Opens(s)

MethodsOnly == \A s \in Scripts \cup Rests : Methodical(s)

-----------------------------------------------------------------------------
(* What may be done with the breakpoint.                                   *)

\* Instructions that leave the breakpoint alone, whatever they end in.
Apart(s) == \A k \in DOMAIN s : s[k].op \notin {"setBreak", "unsetBreak", "awaitStep"}

\* A user's: what follows a single step leaves the breakpoint alone, too.
Keeps(s) ==
  \A k \in DOMAIN s :
    /\ s[k].op \notin {"setBreak", "unsetBreak"}
    /\ s[k].op = "awaitStep" => Apart(s[k].arg)

\* The step at j is waited for before the breakpoint is set again.
Steps(s, j) == s[j].op = "step" /\ j + 1 \in DOMAIN s /\ s[j + 1].op = "stepWait"
NoSet(s, j) == \A i \in DOMAIN s : i <= j => s[i].op \notin {"setBreak", "awaitStep"}

\* A callback's: whenever it unsets the breakpoint it goes on to a step.
Restoring(s) ==
  \A k \in DOMAIN s :
    /\ s[k].op = "unsetBreak" =>
         \E j \in DOMAIN s : /\ k < j /\ Steps(s, j)
                             /\ \A i \in DOMAIN s : k < i /\ i <= j =>
                                  s[i].op \notin {"setBreak", "awaitStep"}
    /\ s[k].op = "awaitStep" =>
         \A i \in DOMAIN s[k].arg : s[k].arg[i].op \notin {"unsetBreak", "awaitStep"}

RestoredByOne ==
  /\ \A s \in UserScripts : Keeps(s)
  /\ \A k \in Kinds : \A s \in CallbackScripts[k] : Restoring(s)

-----------------------------------------------------------------------------
(* Who resumes the thread.                                                 *)

CallbackOps ==
  {"lock", "unlock", "readRegisters", "getRegs", "setRip", "jumpBack", "setBreak", "unsetBreak"}

\* A callback, or the end of one: it resumes the thread once, which is the last
\* thing it does, and it neither steps, stops nor terminates it.  Registers are
\* used as the methods use them, and a method of the breakpoint, which subtracts 1
\* from rip (Breakpoint.cpp 46 and 61), is called before any jump.
Driving(s) ==
  /\ s # <<>> => Continued(s, Len(s)) /\ (Len(s) > 1 => s[Len(s) - 1].op = "cont")
  /\ \A k \in DOMAIN s :
       /\ s[k].op \in CallbackOps \cup {"writeRegisters", "cont", "setState"}
       /\ s[k].op = "setState" => k = Len(s)
       /\ s[k].op = "cont" => k + 1 = Len(s) /\ (k > 1 => s[k - 1].op = "writeRegisters")
       /\ s[k].op = "writeRegisters" => k + 2 = Len(s)
       /\ s[k].op = "getRegs" /\ k > 1 => s[k - 1].op = "readRegisters"
       /\ s[k].op = "setRip" => /\ s[k].arg \notin {"wild", "none"}
                                /\ k > 1 => s[k - 1].op = "getRegs"
       /\ s[k].op = "jumpBack" =>
            \A j \in DOMAIN s : j < k => s[j].op \notin {"jumpBack", "setRip"}

\* Only callbacks drive the thread, and hit.resume...() is called in those of
\* the breakpoint alone.
DrivenByCallbacks ==
  /\ Users = {}
  /\ \A kind \in Kinds : \A s \in CallbackScripts[kind] :
       /\ Driving(s) /\ Len(s) > 2 /\ s[1].op \notin {"getRegs", "setRip"}
       /\ kind # "break" => ~Has(s, "jumpBack")
=============================================================================
