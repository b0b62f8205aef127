-------------------------- MODULE BreakPointProofs --------------------------
(***************************************************************************)
(* Proofs about SpiedThread and BreakPoint, for any number of stops, any   *)
(* watchpoints and any scripts of which BreakPointScripts' hypotheses hold *)
(* (MethodsOnly in all).  The inductive invariant says what an actor may   *)
(* still have to execute (Shape), what an event the kernel has yet to      *)
(* report means (Kernel), which of the queued requests may end the present *)
(* stop and who is to record a resumption (Requests), and what is under    *)
(* way when _state does not show a stop (Stops).  A second one, BInv,      *)
(* follows the writes of the breakpoint through the Tracer's queue.  A     *)
(* third, TInv, follows a stop from the kernel to the listener, to a       *)
(* callback and through the queue back to the kernel, and says what the    *)
(* caches of the registers hold meanwhile.                                 *)
(***************************************************************************)
EXTENDS BreakPointScripts, MCBreakPoint, TLAPS, SequenceTheorems

\* The listener calls neither stop, nor terminate, nor singleStep.
ListenerOps ==
  {"readRegisters", "setState", "trap", "testDr6", "getRegs", "matchBreakPoint", "hit",
   "writeRegisters", "cont", "lock", "unlock", "getDr6", "setDr6"}

\* It resumes once at most, and last of what concerns the stop.
Tidy(s) ==
  \A k \in DOMAIN s :
    /\ s[k].op \in ListenerOps
    /\ s[k].op = "trap" => k = Len(s) /\ (\A j \in DOMAIN s : s[j].op # "cont")
    /\ s[k].op = "cont" =>
         \A j \in DOMAIN s :
           j > k => s[j].op \notin {"cont", "trap"} /\ (Sets(s, j) => Continued(s, j))
    /\ Sets(s, k) => s[k].arg \in {"STOPPED", "CONTINUED", "EXITED", "TERMINATED"}

Kills == {"STOP", "TERM"}

IsCmd(c) == c.stop \in Nat /\ c.stop <= stops /\ (c.op = "KILL" => c.arg \in Kills)

\* What the listener has to do with a report of WCONTINUED.
Report == <<Op("readRegisters"), Instr("setState", "CONTINUED")>>

Shape ==
  /\ todo = [a \in Actors |-> todo[a]]
  /\ \A a \in Actors : /\ IsSeq(todo[a])
                       /\ Paired(todo[a]) \/ (a = Listener /\ todo[a] = Report)
                       /\ a # Listener => OnlyResumes(todo[a])
  /\ Tidy(todo[Listener])
  /\ \A u \in Users : u \notin done => todo[u] = <<>>
  /\ ~known => /\ \A a \in Actors : todo[a] = <<>>
               /\ callbacks = <<>> /\ state = "STOPPED"
  /\ callbacks \in Seq(Kinds)
  /\ stops \in Nat /\ pending \subseteq Kills
  /\ IsSeq(queue) /\ \A k \in DOMAIN queue : IsCmd(queue[k])

Ended == {"EXITED", "TERMINATED"}

\* What the listener, with s to execute, has yet to do: to record the stop or
\* to resume the thread from it; to record STOPPED; to record the end.
HandlesStop(s) ==
  \E k \in DOMAIN s : s[k].op \in {"cont", "trap"} \/ (Sets(s, k) /\ ~Continued(s, k))
RecordsStop(s) == \E k \in DOMAIN s : Sets(s, k) /\ s[k].arg = "STOPPED"
RecordsEnd(s) == \E k \in DOMAIN s : Sets(s, k) /\ s[k].arg \in Ended

\* An actor has queued PTRACE_CONT and is to record it, or to record a report.
RecordsRun(s) == (s # <<>> /\ Continued(s, 1)) \/ s = Report

\* What waitpid says of the thread when it reports no stop and no end of it.
NoStop == {"none", "CONT"}

Kernel ==
  /\ event \notin NoStop => run \in {"stopped", "dead"}
  /\ event \in Ended => run = "dead"
  /\ RecordsEnd(todo[Listener]) => run = "dead"

Handling == HandlesStop(todo[Listener])
RunRecorded == state = "CONTINUED" \/ \E a \in Actors : RecordsRun(todo[a])

\* A request whose sender has seen the present stop through.
Valid(c) == c.op \in {"CONT", "STEP"} /\ ~c.early /\ c.stop = stops

Requests ==
  premature \/
    /\ run = "stopped" =>
         \A k \in DOMAIN queue : Valid(queue[k]) =>
           /\ event \in NoStop /\ ~Handling
           /\ queue[k].op = "CONT" => RunRecorded
    /\ Handling => run = "dead" \/ (run = "stopped" /\ event \in NoStop)
    /\ run = "running" => RunRecorded

Unrecorded ==
  \/ event \notin NoStop \/ RecordsStop(todo[Listener])
  \/ \E k \in DOMAIN queue : queue[k].op = "CONT"

Stops ==
  overtaken \/ run # "stopped" \/
    /\ state # "STOPPED" => Unrecorded
    /\ \A a \in Actors : RecordsRun(todo[a]) => Unrecorded

IInv == Shape /\ Kernel /\ Requests /\ Stops

-----------------------------------------------------------------------------
(* Sequences.                                                              *)

LEMMA AnySeq == ASSUME NEW S, NEW s \in Seq(S) PROVE IsSeq(s)
<1>1. Len(s) \in Nat /\ s \in [1 .. Len(s) -> S] /\ DOMAIN s = 1 .. Len(s)
  BY LenProperties
<1>2. ASSUME NEW n, s \in [1 .. n -> S] PROVE s = [k \in 1 .. n |-> s[k]]
  BY <1>2
<1>. QED BY <1>1, <1>2 DEF IsSeq

\* The elements of a concatenation, whatever they are.
LEMMA Concat ==
  ASSUME NEW s, NEW t, IsSeq(s), IsSeq(t)
  PROVE  /\ IsSeq(s \o t) /\ Len(s \o t) = Len(s) + Len(t)
         /\ DOMAIN (s \o t) = 1 .. Len(s) + Len(t)
         /\ \A k \in 1 .. Len(s) : (s \o t)[k] = s[k]
         /\ \A k \in Len(s) + 1 .. Len(s) + Len(t) : (s \o t)[k] = t[k - Len(s)]
<1> DEFINE S == {s[k] : k \in 1 .. Len(s)} \cup {t[k] : k \in 1 .. Len(t)}
<1>1. s \in Seq(S) /\ t \in Seq(S)
  <2>1. s \in [1 .. Len(s) -> S] /\ t \in [1 .. Len(t) -> S]
    BY DEF IsSeq
  <2>. QED BY <2>1, SeqDef DEF IsSeq
<1>2. /\ s \o t \in Seq(S) /\ Len(s \o t) = Len(s) + Len(t)
      /\ \A k \in 1 .. Len(s) + Len(t) :
           (s \o t)[k] = IF k <= Len(s) THEN s[k] ELSE t[k - Len(s)]
  <2>. HIDE DEF S
  <2>. QED BY <1>1, ConcatProperties
<1>. HIDE DEF S
<1>3. DOMAIN (s \o t) = 1 .. Len(s \o t)
  BY <1>2, LenProperties
<1>4. IsSeq(s \o t)
  BY <1>2, AnySeq
<1>. QED BY <1>2, <1>3, <1>4 DEF IsSeq

LEMMA IsSeqOfElements ==
  ASSUME NEW s, IsSeq(s) PROVE s \in Seq({s[k] : k \in 1 .. Len(s)})
<1>1. s \in [1 .. Len(s) -> {s[k] : k \in 1 .. Len(s)}]
  BY DEF IsSeq
<1>. QED BY <1>1, SeqDef DEF IsSeq

LEMMA OneAndOne == ASSUME NEW c, NEW d PROVE <<c>> \o <<d>> = <<c, d>>
<1>1. PICK s, t, u : s = <<c>> /\ t = <<d>> /\ u = <<c, d>>
  OBVIOUS
<1>2. s \in Seq({c, d}) /\ t \in Seq({c, d}) /\ u \in Seq({c, d})
  BY <1>1
<1>3. /\ Len(s) = 1 /\ s[1] = c /\ Len(t) = 1 /\ t[1] = d
      /\ Len(u) = 2 /\ u[1] = c /\ u[2] = d
  BY <1>1
<1>4. /\ s \o t \in Seq({c, d}) /\ Len(s \o t) = 2
      /\ \A i \in 1 .. 2 : (s \o t)[i] = IF i <= 1 THEN s[i] ELSE t[i - 1]
  BY <1>2, <1>3, ConcatProperties
<1>5. \A i \in 1 .. 2 : (s \o t)[i] = u[i]
  BY <1>3, <1>4
<1>6. s \o t = u
  BY <1>2, <1>3, <1>4, <1>5, SeqEqual
<1>. QED BY <1>1, <1>6

LEMMA Tailed ==
  ASSUME NEW s, IsSeq(s), s # <<>>
  PROVE  /\ IsSeq(Tail(s)) /\ Len(Tail(s)) = Len(s) - 1 /\ Len(s) > 0
         /\ Head(s) = s[1]
         /\ \A k \in 1 .. Len(s) - 1 : Tail(s)[k] = s[k + 1]
<1> DEFINE S == {s[k] : k \in 1 .. Len(s)}
<1>1. s \in Seq(S)
  BY IsSeqOfElements
<1>2. /\ Tail(s) \in Seq(S) /\ Len(Tail(s)) = Len(s) - 1
      /\ \A k \in 1 .. Len(Tail(s)) : Tail(s)[k] = s[k + 1]
  <2>. HIDE DEF S
  <2>. QED BY <1>1, HeadTailProperties
<1>. HIDE DEF S
<1>3. IsSeq(Tail(s))
  BY <1>2, AnySeq
<1>4. Len(s) > 0
  BY <1>1, EmptySeq
<1>. QED BY <1>1, <1>2, <1>3, <1>4 DEF IsSeq

LEMMA EmptySeqs == \A s : IsSeq(s) /\ s # <<>> => Len(s) > 0 /\ 1 \in DOMAIN s
BY Tailed DEF IsSeq

\* What actor a goes on with after an instruction.
LEMMA Spliced ==
  ASSUME NEW n, NEW s, IsSeq(n), IsSeq(s), s # <<>>,
         NEW t, t = n \o Tail(s)
  PROVE  /\ IsSeq(t) /\ Len(t) = Len(n) + Len(s) - 1 /\ Len(s) > 0
         /\ \A k \in 1 .. Len(n) : t[k] = n[k]
         /\ \A k \in Len(n) + 1 .. Len(t) : t[k] = s[k - Len(n) + 1]
<1>1. /\ IsSeq(Tail(s)) /\ Len(Tail(s)) = Len(s) - 1 /\ Len(s) > 0
      /\ \A k \in 1 .. Len(s) - 1 : Tail(s)[k] = s[k + 1]
  BY Tailed
<1>2. /\ IsSeq(t) /\ Len(t) = Len(n) + Len(Tail(s))
      /\ \A k \in 1 .. Len(n) : t[k] = n[k]
      /\ \A k \in Len(n) + 1 .. Len(n) + Len(Tail(s)) : t[k] = Tail(s)[k - Len(n)]
  BY <1>1, Concat
<1>. QED BY <1>1, <1>2 DEF IsSeq

LEMMA Empty == IsSeq(<<>>) /\ Methodical(<<>>)
BY DEF IsSeq, Methodical, Paired, OnlyResumes, Opens

\* A single instruction.
LEMMA MethodicalOne ==
  ASSUME NEW i, i.op \notin {"cont", "setState", "awaitStep", "hit"}
                  \/ (i.op = "awaitStep" /\ i.arg \in Rests)
                  \/ (i.op = "hit" /\ i.arg \in Kinds)
  PROVE  Methodical(<<i>>)
<1>1. PICK s : s = <<i>>
  OBVIOUS
<1>2. IsSeq(s) /\ DOMAIN s = {1} /\ s[1] = i
  <2>1. s \in Seq({i})
    BY <1>1
  <2>2. IsSeq(s)
    BY <2>1, AnySeq
  <2>3. Len(s) = 1 /\ s[1] = i
    BY <1>1
  <2>. QED BY <2>2, <2>3 DEF IsSeq
<1>3. Paired(s)
  <2>1. /\ i.op # "cont" /\ i.op # "setState"
        /\ i.op = "awaitStep" => i.arg \in Rests
        /\ i.op = "hit" => i.arg \in Kinds
    OBVIOUS
  <2>2. \A k \in DOMAIN s : k = 1 /\ s[k] = i
    BY <1>2
  <2>. QED BY <2>1, <2>2 DEF Paired, Continued, Sets
<1>4. OnlyResumes(s) /\ Opens(s)
  BY <1>2 DEF OnlyResumes, Opens, Sets
<1>. QED BY <1>1, <1>2, <1>3, <1>4 DEF Methodical

LEMMA PairedConcat ==
  ASSUME NEW s, NEW t, IsSeq(s), IsSeq(t), Paired(s), Paired(t),
         s = <<>> \/ t = <<>> \/ ~Continued(t, 1)
  PROVE  /\ Paired(s \o t)
         /\ OnlyResumes(s) /\ OnlyResumes(t) => OnlyResumes(s \o t)
         /\ Opens(s) /\ Opens(t) => Opens(s \o t)
<1>1. PICK c : c = s \o t
  OBVIOUS
<1>2. /\ IsSeq(c) /\ Len(c) = Len(s) + Len(t)
      /\ DOMAIN c = 1 .. Len(s) + Len(t)
      /\ \A k \in 1 .. Len(s) : c[k] = s[k]
      /\ \A k \in Len(s) + 1 .. Len(s) + Len(t) : c[k] = t[k - Len(s)]
  BY <1>1, Concat
<1>3. /\ Len(s) \in Nat /\ DOMAIN s = 1 .. Len(s)
      /\ Len(t) \in Nat /\ DOMAIN t = 1 .. Len(t)
  BY DEF IsSeq
<1>4. s = <<>> => Len(s) = 0
  OBVIOUS
<1>5. t = <<>> => Len(t) = 0
  OBVIOUS
<1>6. OnlyResumes(s) /\ OnlyResumes(t) => OnlyResumes(c)
  BY <1>2, <1>3 DEF OnlyResumes, Sets, Continued
<1>7. Opens(s) /\ Opens(t) => Opens(c)
  <2>. SUFFICES ASSUME Opens(s), Opens(t), c # <<>> PROVE ~Sets(c, 1)
    BY DEF Opens
  <2>1. CASE s = <<>>
    <3>1. Len(t) > 0 /\ c[1] = t[1]
      BY <1>1, <1>2, <1>3, <1>4, <2>1, EmptySeqs
    <3>. QED BY <3>1, <1>5 DEF Opens, Sets
  <2>2. CASE s # <<>>
    BY <1>2, <1>3, <2>2, EmptySeqs DEF Opens, Sets
  <2>. QED BY <2>1, <2>2
<1>8. Paired(c)
  <2>. SUFFICES ASSUME NEW k \in DOMAIN c
                PROVE  /\ c[k].op = "cont" => k + 1 \in DOMAIN c /\ Continued(c, k + 1)
                       /\ k > 1 /\ Continued(c, k) => c[k - 1].op = "cont"
                       /\ c[k].op = "awaitStep" => c[k].arg \in Rests
                       /\ c[k].op = "hit" => c[k].arg \in Kinds
    BY DEF Paired
  <2>1. CASE k <= Len(s)
    BY <1>2, <1>3, <2>1 DEF Paired, Sets, Continued
  <2>2. CASE k = Len(s) + 1
    <3>1. 1 \in DOMAIN t /\ c[k] = t[1]
      BY <1>2, <1>3, <2>2
    <3>2. k > 1 => ~Continued(t, 1)
      BY <1>3, <1>4, <1>5, <2>2, <3>1
    <3>3. 2 \in DOMAIN t => k + 1 \in DOMAIN c /\ c[k + 1] = t[2]
      BY <1>2, <1>3, <2>2
    <3>. QED BY <3>1, <3>2, <3>3 DEF Paired, Sets, Continued
  <2>3. CASE k > Len(s) + 1
    <3>1. PICK j \in DOMAIN t : k = j + Len(s) /\ j > 1
      <4>1. k - Len(s) \in DOMAIN t /\ k = (k - Len(s)) + Len(s) /\ k - Len(s) > 1
        BY <1>2, <1>3, <2>3
      <4>. QED BY <4>1
    <3>2. c[k] = t[j] /\ c[k - 1] = t[j - 1]
      BY <1>2, <1>3, <3>1
    <3>3. j + 1 \in DOMAIN t => k + 1 \in DOMAIN c /\ c[k + 1] = t[j + 1]
      BY <1>2, <1>3, <3>1
    <3>. QED BY <3>1, <3>2, <3>3 DEF Paired, Sets, Continued
  <2>. QED BY <1>2, <1>3, <2>1, <2>2, <2>3
<1>. QED BY <1>1, <1>6, <1>7, <1>8

LEMMA MethodicalConcat ==
  ASSUME NEW s, NEW t, Methodical(s), Methodical(t)
  PROVE  Methodical(s \o t)
<1>1. t = <<>> \/ ~Continued(t, 1)
  BY DEF Methodical, Opens, Continued
<1>. QED BY <1>1, PairedConcat, Concat DEF Methodical

LEMMA PairedTail ==
  ASSUME NEW s, IsSeq(s), s # <<>>, Paired(s)
  PROVE  /\ Paired(Tail(s)) /\ IsSeq(Tail(s))
         /\ OnlyResumes(s) => OnlyResumes(Tail(s))
         /\ s[1].op # "cont" => Tail(s) = <<>> \/ ~Continued(Tail(s), 1)
<1>1. PICK t : t = Tail(s)
  OBVIOUS
<1>2. /\ IsSeq(t) /\ Len(t) = Len(s) - 1 /\ Len(s) \in Nat \ {0}
      /\ DOMAIN t = 1 .. Len(s) - 1 /\ DOMAIN s = 1 .. Len(s)
      /\ \A k \in 1 .. Len(s) - 1 : t[k] = s[k + 1]
  BY <1>1, Tailed DEF IsSeq
<1>3. Paired(t)
  <2>. SUFFICES ASSUME NEW k \in DOMAIN t
                PROVE  /\ t[k].op = "cont" => k + 1 \in DOMAIN t /\ Continued(t, k + 1)
                       /\ k > 1 /\ Continued(t, k) => t[k - 1].op = "cont"
                       /\ t[k].op = "awaitStep" => t[k].arg \in Rests
                       /\ t[k].op = "hit" => t[k].arg \in Kinds
    BY DEF Paired
  <2>1. PICK j \in DOMAIN s : j = k + 1 /\ t[k] = s[j]
    BY <1>2
  <2>2. k > 1 => t[k - 1] = s[j - 1]
    BY <1>2, <2>1
  <2>3. j + 1 \in DOMAIN s => k + 1 \in DOMAIN t /\ t[k + 1] = s[j + 1]
    BY <1>2, <2>1
  <2>4. j > 1
    BY <1>2, <2>1
  <2>. QED BY <2>1, <2>2, <2>3, <2>4 DEF Paired, Sets, Continued
<1>4. OnlyResumes(s) => OnlyResumes(t)
  BY <1>2 DEF OnlyResumes, Sets, Continued
<1>5. s[1].op # "cont" => t = <<>> \/ ~Continued(t, 1)
  <2>. SUFFICES ASSUME s[1].op # "cont", t # <<>> PROVE ~Continued(t, 1)
    OBVIOUS
  <2>1. 2 \in DOMAIN s /\ t[1] = s[2]
    BY <1>2, EmptySeqs
  <2>. QED BY <2>1 DEF Paired, Sets, Continued
<1>. QED BY <1>1, <1>2, <1>3, <1>4, <1>5


(* The scripts made of calls of the methods are methodical, as the runs'   *)
(* are: each method is, one call after another is, and so is what singleStep *)
(* makes of the rest of a script.                                          *)
LEMMA MethodicalMethods ==
  /\ \A sig : Methodical(Resume(sig))
  /\ Methodical(Stop) /\ Methodical(Terminate) /\ Methodical(GetRip)
  /\ \A addr : Methodical(Jump(addr))
  /\ \A idx : Methodical(SetDr6(idx))
  /\ \A rest \in Rests : Methodical(SingleStep(rest))
<1>1. ASSUME NEW sig PROVE Methodical(Resume(sig))
  <2>1. PICK s : s = Resume(sig)
    OBVIOUS
  <2>2. s \in Seq({Op("writeRegisters"), Instr("cont", sig), Instr("setState", "CONTINUED")})
    BY <2>1 DEF Resume
  <2>3. IsSeq(s)
    BY <2>2, AnySeq
  <2>4. /\ DOMAIN s = 1 .. 3 /\ s[1] = Op("writeRegisters") /\ s[2] = Instr("cont", sig)
        /\ s[3] = Instr("setState", "CONTINUED")
    BY <2>1 DEF Resume
  <2>5. /\ s[1].op = "writeRegisters" /\ s[2].op = "cont" /\ s[3].op = "setState"
        /\ s[3].arg = "CONTINUED"
    BY <2>4 DEF Instr, Op
  <2>. QED BY <2>1, <2>3, <2>4, <2>5
           DEF Methodical, Paired, OnlyResumes, Opens, Sets, Continued
<1>2. ASSUME NEW op, op \notin {"cont", "setState", "awaitStep", "hit"}
      PROVE  /\ Methodical(<<Op(op)>>)
             /\ \A arg : Methodical(<<Instr(op, arg)>>)
  BY <1>2, MethodicalOne DEF Op, Instr
<1>3. /\ Methodical(<<Op("lock")>>) /\ Methodical(<<Op("unlock")>>)
      /\ Methodical(<<Op("readRegisters")>>) /\ Methodical(<<Op("getRegs")>>)
      /\ Methodical(<<Op("getDr6")>>)
  BY <1>2
<1>4. Methodical(GetRip)
  <2>1. GetRip = <<Op("readRegisters")>> \o <<Op("getRegs")>>
    BY DEF GetRip
  <2>. QED BY <1>3, <2>1, MethodicalConcat
<1>5. ASSUME NEW i, Methodical(<<i>>)
      PROVE  Methodical(<<Op("lock"), i, Op("unlock")>>)
  <2>1. <<Op("lock"), i, Op("unlock")>> = (<<Op("lock")>> \o <<i>>) \o <<Op("unlock")>>
    OBVIOUS
  <2>. QED BY <1>3, <1>5, <2>1, MethodicalConcat
<1>6. Methodical(Stop) /\ Methodical(Terminate)
  BY <1>2, <1>5 DEF Stop, Terminate
<1>7. ASSUME NEW addr PROVE Methodical(Jump(addr))
  <2>1. Jump(addr) = (((<<Op("lock")>> \o <<Op("readRegisters")>>) \o <<Op("getRegs")>>)
                        \o <<Instr("setRip", addr)>>) \o <<Op("unlock")>>
    BY DEF Jump
  <2>. QED BY <1>2, <1>3, <2>1, MethodicalConcat
<1>8. ASSUME NEW idx PROVE Methodical(SetDr6(idx))
  <2>1. SetDr6(idx) = (((<<Op("lock")>> \o <<Op("readRegisters")>>) \o <<Op("getDr6")>>)
                        \o <<Instr("setDr6", idx)>>) \o <<Op("unlock")>>
    BY DEF SetDr6
  <2>. QED BY <1>2, <1>3, <2>1, MethodicalConcat
<1>9. ASSUME NEW rest \in Rests PROVE Methodical(SingleStep(rest))
  <2>1. SingleStep(rest) = (((<<Op("lock")>> \o <<Op("writeRegisters")>>) \o <<Op("step")>>)
                        \o <<Op("stepWait")>>) \o <<Instr("awaitStep", rest)>>
    BY DEF SingleStep
  <2>2. Methodical(<<Instr("awaitStep", rest)>>)
    BY MethodicalOne DEF Instr
  <2>3. Methodical(<<Op("writeRegisters")>>) /\ Methodical(<<Op("step")>>)
        /\ Methodical(<<Op("stepWait")>>)
    BY <1>2
  <2>. QED BY <1>3, <2>1, <2>2, <2>3, MethodicalConcat
<1>. QED BY <1>1, <1>4, <1>6, <1>7, <1>8, <1>9

-----------------------------------------------------------------------------
(* What an instruction that leaves the stop alone preserves.               *)

\* Instructions of the listener that neither record a state nor resume.
Aside(s) == \A k \in DOMAIN s : s[k].op \in ListenerOps \ {"cont", "trap", "setState"}

LEMMA TidySpliced ==
  ASSUME NEW n, IsSeq(n), Aside(n), NEW s, IsSeq(s), Tidy(s), s # <<>>,
         NEW t, t = n \o Tail(s)
  PROVE  /\ Tidy(t)
         /\ HandlesStop(t) => HandlesStop(s)
         /\ RecordsEnd(t) => RecordsEnd(s)
         /\ s[1].op # "setState" => (RecordsStop(t) <=> RecordsStop(s))
<1>1. /\ Len(n) \in Nat /\ Len(s) \in Nat \ {0}
      /\ DOMAIN n = 1 .. Len(n) /\ DOMAIN s = 1 .. Len(s)
      /\ DOMAIN t = 1 .. Len(n) + Len(s) - 1 /\ Len(t) = Len(n) + Len(s) - 1
      /\ \A k \in 1 .. Len(n) : t[k] = n[k]
      /\ \A k \in Len(n) + 1 .. Len(t) : t[k] = s[k - Len(n) + 1]
  <2>1. /\ IsSeq(t) /\ Len(t) = Len(n) + Len(s) - 1 /\ Len(s) > 0
        /\ \A k \in 1 .. Len(n) : t[k] = n[k]
        /\ \A k \in Len(n) + 1 .. Len(t) : t[k] = s[k - Len(n) + 1]
    <3>1. \A u : u = n \o Tail(s) =>
            /\ IsSeq(u) /\ Len(u) = Len(n) + Len(s) - 1 /\ Len(s) > 0
            /\ \A k \in 1 .. Len(n) : u[k] = n[k]
            /\ \A k \in Len(n) + 1 .. Len(u) : u[k] = s[k - Len(n) + 1]
      BY Spliced
    <3>. QED BY <3>1
  <2>. QED BY <2>1 DEF IsSeq
\* Every instruction of t is one of n, set aside, or one of the rest of s.
<1>2. \A k \in DOMAIN t :
        \/ k <= Len(n) /\ t[k].op \in ListenerOps \ {"cont", "trap", "setState"}
        \/ /\ k > Len(n) /\ k - Len(n) + 1 \in DOMAIN s /\ t[k] = s[k - Len(n) + 1]
  BY <1>1 DEF Aside
<1>3. \A j \in DOMAIN s : j > 1 => Len(n) + j - 1 \in DOMAIN t /\ t[Len(n) + j - 1] = s[j]
  BY <1>1
<1>4. Tidy(t)
  <2>. SUFFICES ASSUME NEW k \in DOMAIN t
                PROVE  /\ t[k].op \in ListenerOps
                       /\ t[k].op = "trap" => k = Len(t) /\ (\A j \in DOMAIN t : t[j].op # "cont")
                       /\ t[k].op = "cont" =>
                            \A j \in DOMAIN t :
                              j > k => t[j].op \notin {"cont", "trap"} /\ (Sets(t, j) => Continued(t, j))
                       /\ Sets(t, k) => t[k].arg \in {"STOPPED", "CONTINUED", "EXITED", "TERMINATED"}
    BY DEF Tidy
  <2>1. CASE k <= Len(n)
    <3>1. t[k].op \in ListenerOps \ {"cont", "trap", "setState"}
      BY <1>1, <1>2, <2>1
    <3>. QED BY <3>1 DEF Sets
  <2>2. CASE k > Len(n)
    <3>1. PICK i \in DOMAIN s : i = k - Len(n) + 1 /\ t[k] = s[i]
      BY <1>2, <2>2
    <3>2. s[i].op = "trap" => k = Len(t)
      BY <1>1, <3>1 DEF Tidy
    <3>3. s[i].op = "trap" => \A j \in DOMAIN t : t[j].op # "cont"
      BY <1>2, <3>1 DEF Tidy
    <3>4. s[i].op = "cont" => \A j \in DOMAIN t :
            j > k => t[j].op \notin {"cont", "trap"} /\ (Sets(t, j) => Continued(t, j))
      <4>. SUFFICES ASSUME s[i].op = "cont", NEW j \in DOMAIN t, j > k
                    PROVE  t[j].op \notin {"cont", "trap"} /\ (Sets(t, j) => Continued(t, j))
        OBVIOUS
      <4>1. PICK m \in DOMAIN s : m = j - Len(n) + 1 /\ t[j] = s[m]
        BY <1>1, <1>2, <2>2
      <4>2. m > i
        BY <1>1, <3>1, <4>1
      <4>. QED BY <4>1, <4>2 DEF Tidy, Sets, Continued
    <3>. QED BY <3>1, <3>2, <3>3, <3>4 DEF Tidy, Sets
  <2>. QED BY <1>1, <2>1, <2>2
<1>5. HandlesStop(t) => HandlesStop(s)
  BY <1>2 DEF HandlesStop, Sets, Continued
<1>6. RecordsEnd(t) => RecordsEnd(s)
  BY <1>2 DEF RecordsEnd, Sets
<1>7. RecordsStop(t) => RecordsStop(s)
  BY <1>2 DEF RecordsStop, Sets
<1>8. s[1].op # "setState" => (RecordsStop(s) => RecordsStop(t))
  <2>. SUFFICES ASSUME s[1].op # "setState", NEW j \in DOMAIN s, Sets(s, j), s[j].arg = "STOPPED"
                PROVE  RecordsStop(t)
    BY DEF RecordsStop
  <2>1. j > 1
    BY <1>1 DEF Sets
  <2>. QED BY <1>3, <2>1 DEF RecordsStop, Sets
<1>. QED BY <1>4, <1>5, <1>6, <1>7, <1>8

\* The queue is left alone, or commands are added to it.
Queues(cmds) ==
  /\ IsSeq(queue')
  /\ \A k \in DOMAIN queue : k \in DOMAIN queue' /\ queue'[k] = queue[k]
  /\ \A k \in DOMAIN queue' : k \in DOMAIN queue \/ queue'[k] \in cmds
  /\ cmds # {} => \E k \in DOMAIN queue' : queue'[k] \in cmds

LEMMA QueueSame == ASSUME Shape, UNCHANGED queue PROVE Queues({})
BY DEF Shape, Queues

LEMMA QueueSent ==
  ASSUME Shape
  PROVE  /\ \A c : Send(<<c>>) => Queues({c})
         /\ \A c, d : Send(<<c, d>>) => Queues({c, d})
<1>1. ASSUME NEW cmds, IsSeq(cmds), queue' = queue \o cmds, cmds # <<>>
      PROVE  Queues({cmds[k] : k \in DOMAIN cmds})
  <2>1. /\ IsSeq(queue') /\ Len(queue') = Len(queue) + Len(cmds)
        /\ DOMAIN queue' = 1 .. Len(queue) + Len(cmds)
        /\ \A k \in 1 .. Len(queue) : queue'[k] = queue[k]
        /\ \A k \in Len(queue) + 1 .. Len(queue) + Len(cmds) : queue'[k] = cmds[k - Len(queue)]
    BY <1>1, Concat DEF Shape
  <2>2. /\ Len(queue) \in Nat /\ DOMAIN queue = 1 .. Len(queue)
        /\ Len(cmds) \in Nat /\ DOMAIN cmds = 1 .. Len(cmds) /\ Len(cmds) > 0
    BY <1>1, EmptySeqs DEF Shape, IsSeq
  <2>3. Len(queue) + 1 \in DOMAIN queue' /\ queue'[Len(queue) + 1] = cmds[1]
    BY <2>1, <2>2
  <2>. QED BY <2>1, <2>2, <2>3 DEF Queues
<1>2. ASSUME NEW c, Send(<<c>>) PROVE Queues({c})
  <2>1. PICK s : s = <<c>>
    OBVIOUS
  <2>2. s \in Seq({c}) /\ s # <<>> /\ Len(s) = 1 /\ s[1] = c
    BY <2>1
  <2>3. IsSeq(s)
    BY <2>2, AnySeq
  <2>4. {s[k] : k \in DOMAIN s} = {c}
    BY <2>2, <2>3 DEF IsSeq
  <2>5. Queues({s[k] : k \in DOMAIN s})
    BY <1>1, <1>2, <2>1, <2>2, <2>3 DEF Send
  <2>. QED BY <2>4, <2>5
<1>3. ASSUME NEW c, NEW d, Send(<<c, d>>) PROVE Queues({c, d})
  <2>1. PICK s : s = <<c, d>>
    OBVIOUS
  <2>2. s \in Seq({c, d}) /\ s # <<>> /\ Len(s) = 2 /\ s[1] = c /\ s[2] = d
    BY <2>1
  <2>3. IsSeq(s)
    BY <2>2, AnySeq
  <2>4. {s[k] : k \in DOMAIN s} = {c, d}
    <3>1. DOMAIN s = {1, 2}
      BY <2>2, <2>3 DEF IsSeq
    <3>. QED BY <2>2, <3>1
  <2>5. Queues({s[k] : k \in DOMAIN s})
    BY <1>1, <1>3, <2>1, <2>2, <2>3 DEF Send
  <2>. QED BY <2>4, <2>5
<1>. QED BY <1>2, <1>3

LEMMA Goes ==
  ASSUME Shape, NEW a \in Actors, NEW n, Goto(a, n)
  PROVE  /\ todo' = [b \in Actors |-> todo'[b]]
         /\ \A b \in Actors \ {a} : todo'[b] = todo[b]
         /\ todo'[a] = n \o Tail(todo[a])
<1>1. /\ todo' = [todo EXCEPT ![a] = n \o Tail(@)]
      /\ todo = [b \in Actors |-> todo[b]]
  BY DEF Goto, Shape
<1>. QED BY <1>1

LEMMA Going ==
  ASSUME Shape, NEW a \in Actors, todo[a] # <<>>, Paired(todo[a]), NEW n, IsSeq(n), Paired(n),
         Goto(a, n), n = <<>> \/ todo[a][1].op # "cont"
  PROVE  /\ todo' = [b \in Actors |-> todo'[b]]
         /\ \A b \in Actors \ {a} : todo'[b] = todo[b]
         /\ todo'[a] = n \o Tail(todo[a])
         /\ IsSeq(todo'[a]) /\ Paired(todo'[a])
         /\ OnlyResumes(n) /\ OnlyResumes(todo[a]) => OnlyResumes(todo'[a])
<1>1. /\ todo' = [b \in Actors |-> todo'[b]]
      /\ \A b \in Actors \ {a} : todo'[b] = todo[b]
      /\ todo'[a] = n \o Tail(todo[a])
  BY Goes
<1>2. PICK s : s = todo[a]
  OBVIOUS
<1>3. IsSeq(s) /\ s # <<>> /\ Paired(s)
  BY <1>2 DEF Shape
<1>4. PICK u : u = Tail(s)
  OBVIOUS
<1>5. /\ IsSeq(u) /\ Paired(u) /\ (OnlyResumes(s) => OnlyResumes(u))
      /\ n = <<>> \/ u = <<>> \/ ~Continued(u, 1)
  BY <1>2, <1>3, <1>4, PairedTail
<1>6. IsSeq(n \o u) /\ Paired(n \o u) /\ (OnlyResumes(n) /\ OnlyResumes(u) => OnlyResumes(n \o u))
  BY <1>5, PairedConcat, Concat
<1>. QED BY <1>1, <1>2, <1>4, <1>5, <1>6

LEMMA ReportElements ==
  /\ IsSeq(Report) /\ Len(Report) = 2 /\ DOMAIN Report = 1 .. 2 /\ Report # <<>>
  /\ Report[1].op = "readRegisters" /\ Report[2].op = "setState" /\ Report[2].arg = "CONTINUED"
  /\ ~Paired(Report) /\ Tidy(Report)
  /\ RecordsRun(Report) /\ ~HandlesStop(Report) /\ ~RecordsStop(Report) /\ ~RecordsEnd(Report)
<1>1. PICK t : t = Report
  OBVIOUS
<1>2. /\ Len(t) = 2 /\ t[1].op = "readRegisters" /\ t[2].op = "setState" /\ t[2].arg = "CONTINUED"
  BY <1>1 DEF Report, Op, Instr
<1>3. t \in Seq({Op("readRegisters"), Instr("setState", "CONTINUED")}) /\ t # <<>>
  BY <1>1 DEF Report
<1>4. IsSeq(t) /\ DOMAIN t = 1 .. 2
  BY <1>2, <1>3, AnySeq DEF IsSeq
<1>5. \A k \in 1 .. 2 : k = 1 \/ k = 2
  OBVIOUS
<1>6. ~Paired(t)
  <2>1. 2 \in DOMAIN t /\ 2 > 1 /\ 2 - 1 = 1
    BY <1>4
  <2>. QED BY <1>2, <2>1 DEF Paired, Sets, Continued
<1>7. Tidy(t)
  BY <1>2, <1>4, <1>5 DEF Tidy, ListenerOps, Sets
<1>8. ~HandlesStop(t) /\ ~RecordsStop(t) /\ ~RecordsEnd(t)
  BY <1>2, <1>4, <1>5 DEF HandlesStop, RecordsStop, RecordsEnd, Sets, Continued, Ended
<1>. QED BY <1>1, <1>2, <1>3, <1>4, <1>6, <1>7, <1>8 DEF RecordsRun

\* What the next instruction of an actor is.
LEMMA AtFirst ==
  ASSUME Shape, NEW a \in Actors, NEW op, At(a, op)
  PROVE  todo[a] # <<>> /\ Head(todo[a]) = todo[a][1] /\ todo[a][1].op = op /\ 1 \in DOMAIN todo[a]
<1>1. todo[a] # <<>> /\ IsSeq(todo[a]) /\ Head(todo[a]).op = op
  BY DEF At, Shape
<1>. QED BY <1>1, Tailed, EmptySeqs

\* Only the listener, and only before readRegisters, has a report to record.
LEMMA PairedUnless ==
  ASSUME Shape, NEW a \in Actors, a # Listener \/ todo[a] = <<>> \/ todo[a][1].op # "readRegisters"
  PROVE  Paired(todo[a])
BY ReportElements DEF Shape

LEMMA ShapeKept ==
  ASSUME Shape, NEW a \in Actors, todo[a] # <<>>, Paired(todo[a]), NEW n, IsSeq(n), Paired(n),
         Goto(a, n), n = <<>> \/ todo[a][1].op # "cont",
         a # Listener => OnlyResumes(n), a = Listener => Tidy(n \o Tail(todo[a])),
         NEW cmds, Queues(cmds), \A c \in cmds : IsCmd(c), callbacks' \in Seq(Kinds),
         UNCHANGED <<known, stops, pending, done>>
  PROVE  Shape'
<1>1. /\ todo' = [b \in Actors |-> todo'[b]]
      /\ \A b \in Actors \ {a} : todo'[b] = todo[b]
      /\ todo'[a] = n \o Tail(todo[a])
      /\ IsSeq(todo'[a]) /\ Paired(todo'[a])
      /\ OnlyResumes(n) /\ OnlyResumes(todo[a]) => OnlyResumes(todo'[a])
  BY Going
<1>2. \A b \in Actors : /\ IsSeq(todo'[b])
                        /\ Paired(todo'[b]) \/ (b = Listener /\ todo'[b] = Report)
                        /\ b # Listener => OnlyResumes(todo'[b])
  BY <1>1 DEF Shape
<1>3. Tidy(todo'[Listener])
  BY <1>1 DEF Shape, Actors
<1>4. \A u \in Users : u \notin done' => todo'[u] = <<>>
  BY <1>1 DEF Shape, Actors
<1>5. known'
  BY DEF Shape
<1>6. IsSeq(queue') /\ \A k \in DOMAIN queue' : queue'[k].stop \in Nat /\ queue'[k].stop <= stops'
                          /\ (queue'[k].op = "KILL" => queue'[k].arg \in Kills)
  BY DEF Shape, Queues, IsCmd
<1>7. stops' \in Nat /\ pending' \subseteq Kills /\ callbacks' \in Seq(Kinds)
  BY DEF Shape
<1>. QED BY <1>1, <1>2, <1>3, <1>4, <1>5, <1>6, <1>7 DEF Shape, IsCmd

LEMMA NoRunRecorded ==
  ASSUME NEW s, IsSeq(s), Paired(s), s # <<>>, s[1].op # "cont",
         NEW n, IsSeq(n), Opens(n), Paired(n)
  PROVE  ~RecordsRun(n \o Tail(s))
<1>1. PICK t : t = n \o Tail(s)
  OBVIOUS
<1>2. PICK u : u = Tail(s)
  OBVIOUS
<1>3. IsSeq(u) /\ Paired(u) /\ (u = <<>> \/ ~Continued(u, 1))
  BY <1>2, PairedTail
<1>4. /\ IsSeq(t) /\ Len(t) = Len(n) + Len(u)
      /\ \A k \in 1 .. Len(n) : t[k] = n[k]
      /\ \A k \in Len(n) + 1 .. Len(n) + Len(u) : t[k] = u[k - Len(n)]
  BY <1>1, <1>2, <1>3, Concat
<1>5. Len(n) \in Nat /\ Len(u) \in Nat /\ Paired(t)
  BY <1>1, <1>2, <1>3, PairedConcat DEF IsSeq
<1>6. ASSUME RecordsRun(t) PROVE FALSE
  <2>1. t # <<>> /\ Continued(t, 1) /\ Len(t) > 0
    BY <1>4, <1>5, <1>6, ReportElements, EmptySeqs DEF RecordsRun
  <2>2. CASE Len(n) > 0
    <3>1. t[1] = n[1] /\ n # <<>>
      BY <1>4, <1>5, <2>2
    <3>. QED BY <2>1, <3>1 DEF Opens, Continued, Sets
  <2>3. CASE Len(n) = 0
    <3>1. t[1] = u[1] /\ u # <<>>
      BY <1>4, <1>5, <2>1, <2>3
    <3>. QED BY <1>3, <2>1, <3>1 DEF Continued, Sets
  <2>. QED BY <1>5, <2>2, <2>3
<1>. QED BY <1>1, <1>6

\* What no request, no stop and no record of a state is about.
stopVars == <<run, event, pending, stops, known, state, done, premature, overtaken>>

IsAside(c) == IsCmd(c) /\ c.op \notin {"CONT", "STEP"}

LEMMA StopKept ==
  ASSUME IInv, Shape', NEW cmds, Queues(cmds), \A c \in cmds : IsAside(c),
         HandlesStop(todo'[Listener]) => HandlesStop(todo[Listener]),
         RecordsEnd(todo'[Listener]) => RecordsEnd(todo[Listener]),
         RecordsStop(todo'[Listener]) <=> RecordsStop(todo[Listener]),
         \A b \in Actors : RecordsRun(todo'[b]) <=> RecordsRun(todo[b]),
         UNCHANGED stopVars
  PROVE  IInv'
<1>1. Kernel /\ Requests /\ Stops
  BY DEF IInv
<1>2. Kernel'
  BY <1>1 DEF Kernel, stopVars
<1>3. \A k \in DOMAIN queue' : queue'[k].op \in {"CONT", "STEP"} =>
        k \in DOMAIN queue /\ queue'[k] = queue[k]
  BY DEF Queues, IsAside
<1>4. Requests'
  BY <1>1, <1>3 DEF Requests, Valid, RunRecorded, Handling, stopVars
<1>5. Stops'
  <2>1. Unrecorded => Unrecorded'
    BY DEF Unrecorded, Queues, stopVars
  <2>. QED BY <1>1, <2>1 DEF Stops, stopVars
<1>. QED BY <1>2, <1>4, <1>5 DEF IInv

LEMMA Plain ==
  ASSUME IInv, NEW a \in Actors, todo[a] # <<>>, todo[a][1].op \notin {"cont", "setState"},
         Paired(todo[a]), NEW n, Methodical(n), Goto(a, n), a = Listener => Aside(n),
         NEW cmds, Queues(cmds), \A c \in cmds : IsAside(c), callbacks' \in Seq(Kinds),
         UNCHANGED stopVars
  PROVE  IInv'
<1>1. Shape /\ Kernel /\ Requests /\ Stops
  BY DEF IInv
<1>2. /\ todo'[a] = n \o Tail(todo[a])
      /\ \A b \in Actors \ {a} : todo'[b] = todo[b]
  BY <1>1, Going DEF Methodical
<1>3. IsSeq(todo[a]) /\ Tidy(todo[Listener]) /\ Listener \in Actors
  BY <1>1 DEF Shape, Actors
<1>4. a = Listener =>
        /\ Tidy(todo'[a])
        /\ HandlesStop(todo'[a]) => HandlesStop(todo[a])
        /\ RecordsEnd(todo'[a]) => RecordsEnd(todo[a])
        /\ RecordsStop(todo'[a]) <=> RecordsStop(todo[a])
  BY <1>2, <1>3, TidySpliced DEF Methodical
<1>5. /\ HandlesStop(todo'[Listener]) => HandlesStop(todo[Listener])
      /\ RecordsEnd(todo'[Listener]) => RecordsEnd(todo[Listener])
      /\ RecordsStop(todo'[Listener]) <=> RecordsStop(todo[Listener])
  BY <1>2, <1>3, <1>4
<1>6. ~RecordsRun(todo[a]) /\ ~RecordsRun(todo'[a])
  <2>1. todo[a] # Report
    BY ReportElements
  <2>2. ~RecordsRun(todo'[a])
    BY <1>2, <1>3, NoRunRecorded DEF Methodical
  <2>. QED BY <2>1, <2>2 DEF RecordsRun, Continued, Sets
<1>7. \A b \in Actors : RecordsRun(todo'[b]) <=> RecordsRun(todo[b])
  BY <1>2, <1>6
<1>8. Shape'
  <2>1. \A c \in cmds : IsCmd(c)
    BY DEF IsAside
  <2>2. UNCHANGED <<known, stops, pending, done>>
    BY DEF stopVars
  <2>. QED BY <1>1, <1>2, <1>4, <2>1, <2>2, ShapeKept DEF Methodical
<1>. QED BY <1>5, <1>7, <1>8, StopKept

LEMMA AsideEmpty == Aside(<<>>)
BY DEF Aside

\* The instructions that end, whatever the state, without another in their place.
LEMMA PlainDone ==
  ASSUME IInv, NEW a \in Actors, NEW op, op \notin {"cont", "setState"}, At(a, op), Done(a),
         op # "readRegisters" \/ Paired(todo[a]),
         NEW cmds, Queues(cmds), \A c \in cmds : IsAside(c), callbacks' \in Seq(Kinds),
         UNCHANGED stopVars
  PROVE  IInv'
<1>1. todo[a] # <<>> /\ todo[a][1].op = op
  BY AtFirst DEF IInv
<1>2. Paired(todo[a])
  BY <1>1, PairedUnless DEF IInv
<1>. QED BY <1>1, <1>2, Plain, Empty, AsideEmpty DEF Done

LEMMA CmdsAside ==
  ASSUME Shape, NEW a, NEW op \in {"KILL", "SETREGS", "POKEDR6", "POKE", "GETREGS", "PEEKDR6"},
         NEW arg, op = "KILL" => arg \in Kills
  PROVE  IsAside(Cmd(a, op, arg))
BY DEF IsAside, IsCmd, Cmd, Shape

LEMMA SynchronisePlain ==
  ASSUME IInv, NEW a \in Actors, LockState(a) \/ UnlockState(a)
  PROVE  IInv'
<1>1. /\ UNCHANGED <<queue, stopVars>> /\ callbacks' \in Seq(Kinds)
      /\ Queues({})
  <2>1. UNCHANGED <<queue, stopVars, callbacks>>
    BY DEF LockState, UnlockState, stopVars, kernelVars, threadVars, historyVars
  <2>. QED BY <2>1, QueueSame DEF IInv, Shape
<1>2. \E op \in {"lock", "unlock"} : At(a, op) /\ Done(a)
  BY DEF LockState, UnlockState
<1>. QED BY <1>1, <1>2, PlainDone

\* The commands with which the register cache is read and written.
CacheOps == {"PEEKDR6", "GETREGS", "SETREGS", "POKEDR6"}
IsOfCache(c) == IsAside(c) /\ c.op \in CacheOps

LEMMA RegistersSend ==
  ASSUME Shape, NEW a \in Actors, Registers(a)
  PROVE  \E cmds : Queues(cmds) /\ \A c \in cmds : IsOfCache(c)
<1>1. CASE UNCHANGED queue
  BY <1>1, QueueSame
<1>2. CASE Send(<<Cmd(a, "PEEKDR6", "none"), Cmd(a, "GETREGS", "none")>>)
  <2>1. PICK c, d : c = Cmd(a, "PEEKDR6", "none") /\ d = Cmd(a, "GETREGS", "none")
    OBVIOUS
  <2>2. IsOfCache(c) /\ IsOfCache(d)
    BY <2>1, CmdsAside DEF IsOfCache, CacheOps, Cmd
  <2>3. Queues({c, d})
    BY <1>2, <2>1, QueueSent
  <2>. QED BY <2>2, <2>3
<1>3. CASE WriteRegisters(a) /\ ~UNCHANGED queue
  <2>1. PICK c, d : c = Cmd(a, "SETREGS", "none") /\ d = Cmd(a, "POKEDR6", cDr6)
    OBVIOUS
  <2>2. \E s \in {<<>>, <<c>>, <<d>>, <<c, d>>} : Send(s)
    <3>1. Send((IF futRegs THEN <<>> ELSE <<c>>) \o (IF ~futDr6 THEN <<d>> ELSE <<>>))
      BY <1>3, <2>1 DEF WriteRegisters, WriteRegistersWith
    <3>2. (IF futRegs THEN <<>> ELSE <<c>>) \o (IF ~futDr6 THEN <<d>> ELSE <<>>)
            \in {<<>>, <<c>>, <<d>>, <<c, d>>}
      <4>1. <<c>> \in Seq({c, d}) /\ <<d>> \in Seq({c, d}) /\ <<>> \in Seq({c, d})
        OBVIOUS
      <4>2. /\ <<>> \o <<>> = <<>> /\ <<>> \o <<d>> = <<d>>
            /\ <<c>> \o <<>> = <<c>>
        BY <4>1, ConcatEmptySeq
      <4>3. <<c>> \o <<d>> = <<c, d>>
        BY OneAndOne
      <4>. QED BY <4>2, <4>3
    <3>. QED BY <3>1, <3>2
  <2>3. ~Send(<<>>)
    <3>1. ASSUME NEW S, queue \in Seq(S) PROVE queue \o <<>> = queue
      BY <3>1, ConcatEmptySeq
    <3>2. queue \in Seq({queue[k] : k \in 1 .. Len(queue)})
      BY IsSeqOfElements DEF Shape
    <3>. QED BY <1>3, <3>1, <3>2 DEF Send
  <2>4. IsOfCache(c) /\ IsOfCache(d)
    BY <2>1, CmdsAside DEF IsOfCache, CacheOps, Cmd
  <2>5. Send(<<c>>) \/ Send(<<d>>) \/ Send(<<c, d>>)
    BY <2>2, <2>3
  <2>6. Queues({c}) \/ Queues({d}) \/ Queues({c, d})
    BY <2>5, QueueSent
  <2>. QED BY <2>4, <2>6
<1>4. \/ UNCHANGED queue
      \/ Send(<<Cmd(a, "PEEKDR6", "none"), Cmd(a, "GETREGS", "none")>>)
      \/ WriteRegisters(a)
  BY DEF Registers, ReadRegisters, GetRegs, GetDr6, SetRipField, SetDr6Field
<1>. QED BY <1>1, <1>2, <1>3, <1>4

LEMMA RegistersPlain ==
  ASSUME IInv, NEW a \in Actors, Registers(a), Paired(todo[a])
  PROVE  IInv'
<1>1. Shape
  BY DEF IInv
<1>2. UNCHANGED <<stopVars, callbacks>> /\ callbacks' \in Seq(Kinds)
  <2>1. UNCHANGED <<stopVars, callbacks>>
    BY DEF Registers, ReadRegisters, WriteRegisters, WriteRegistersWith, GetRegs, GetDr6,
           SetRipField, SetDr6Field, stopVars, kernelVars, threadVars, historyVars
  <2>. QED BY <1>1, <2>1 DEF Shape
<1>3. \E op : op \notin {"cont", "setState"} /\ At(a, op) /\ Done(a)
  BY DEF Registers, ReadRegisters, WriteRegisters, WriteRegistersWith, GetRegs, GetDr6,
         SetRipField, SetDr6Field
<1>4. \E cmds : Queues(cmds) /\ \A c \in cmds : IsAside(c)
  BY <1>1, RegistersSend DEF IsOfCache
<1>. QED BY <1>2, <1>3, <1>4, PlainDone

\* Reading the registers does not change what a report has left to record.
LEMMA ReportRest ==
  ASSUME NEW t, t = <<>> \o Tail(Report)
  PROVE  /\ IsSeq(t) /\ Paired(t) /\ Tidy(t) /\ Len(t) = 1 /\ DOMAIN t = {1}
         /\ t[1].op = "setState" /\ t[1].arg = "CONTINUED"
         /\ RecordsRun(t) /\ ~HandlesStop(t) /\ ~RecordsStop(t) /\ ~RecordsEnd(t)
<1>1. /\ IsSeq(Tail(Report)) /\ Len(Tail(Report)) = 1 /\ Tail(Report)[1] = Report[2]
  <2>1. PICK s : s = Report
    OBVIOUS
  <2>2. IsSeq(s) /\ s # <<>> /\ Len(s) = 2
    BY <2>1, ReportElements
  <2>3. /\ IsSeq(Tail(s)) /\ Len(Tail(s)) = Len(s) - 1
        /\ \A k \in 1 .. Len(s) - 1 : Tail(s)[k] = s[k + 1]
    BY <2>2, Tailed
  <2>. QED BY <2>1, <2>2, <2>3
<1>2. t = Tail(Report)
  BY <1>1, ConcatEmptySeq, IsSeqOfElements
<1>3. /\ IsSeq(t) /\ Len(t) = 1 /\ DOMAIN t = {1}
      /\ t[1].op = "setState" /\ t[1].arg = "CONTINUED"
  BY <1>1, <1>2, ReportElements DEF IsSeq
<1>4. t # <<>>
  BY <1>3
<1>5. Paired(t) /\ Tidy(t)
  BY <1>3 DEF Paired, Tidy, ListenerOps, Sets
<1>6. RecordsRun(t) /\ ~HandlesStop(t) /\ ~RecordsStop(t) /\ ~RecordsEnd(t)
  BY <1>3, <1>4 DEF RecordsRun, HandlesStop, RecordsStop, RecordsEnd, Sets, Continued, Ended
<1>. QED BY <1>3, <1>5, <1>6

LEMMA ReportReads ==
  ASSUME IInv, NEW a \in Actors, Registers(a), ~Paired(todo[a])
  PROVE  IInv'
<1>1. Shape /\ a = Listener /\ todo[Listener] = Report
  BY DEF IInv, Shape
<1>2. UNCHANGED <<stopVars, callbacks>> /\ Goto(a, <<>>)
  BY DEF Registers, ReadRegisters, WriteRegisters, WriteRegistersWith, GetRegs, GetDr6, Done,
         SetRipField, SetDr6Field, stopVars, kernelVars, threadVars, historyVars
<1>3. PICK cmds : Queues(cmds) /\ \A c \in cmds : IsAside(c)
  BY <1>1, RegistersSend DEF IsOfCache
<1>4. PICK t : t = <<>> \o Tail(Report)
  OBVIOUS
<1>5. /\ IsSeq(t) /\ Paired(t) /\ Tidy(t)
      /\ RecordsRun(t) /\ ~HandlesStop(t) /\ ~RecordsStop(t) /\ ~RecordsEnd(t)
  BY <1>4, ReportRest
<1>6. /\ todo' = [b \in Actors |-> todo'[b]] /\ todo'[Listener] = t
      /\ \A b \in Actors \ {Listener} : todo'[b] = todo[b]
  BY <1>1, <1>2, <1>4 DEF Goto, Shape
<1>7. Shape'
  <2>1. \A b \in Actors : /\ IsSeq(todo'[b])
                          /\ Paired(todo'[b]) \/ (b = Listener /\ todo'[b] = Report)
                          /\ b # Listener => OnlyResumes(todo'[b])
    BY <1>1, <1>5, <1>6 DEF Shape
  <2>2. \A u \in Users : u \notin done' => todo'[u] = <<>>
    BY <1>1, <1>2, <1>6, ActorsAssumption DEF Shape, Actors, stopVars
  <2>3. known /\ UNCHANGED <<known, stops, pending, callbacks>>
    BY <1>1, <1>2, ReportElements DEF Shape, stopVars
  <2>4. IsSeq(queue') /\ \A k \in DOMAIN queue' : IsCmd(queue[k])'
    BY <1>1, <1>3, <2>3 DEF Shape, Queues, IsAside, IsCmd
  <2>. QED BY <1>1, <1>5, <1>6, <2>1, <2>2, <2>3, <2>4 DEF Shape
<1>8. \A b \in Actors : RecordsRun(todo'[b]) <=> RecordsRun(todo[b])
  BY <1>1, <1>5, <1>6, ReportElements
<1>. QED BY <1>1, <1>2, <1>3, <1>5, <1>6, <1>7, <1>8, ReportElements, StopKept

LEMMA Stutter ==
  ASSUME IInv, UNCHANGED <<stopVars, queue, callbacks, todo>>
  PROVE  IInv'
<1>1. Shape'
  BY DEF IInv, Shape, IsCmd, stopVars
<1>2. Kernel' /\ Requests' /\ Stops'
  BY DEF IInv, Kernel, Requests, Stops, Valid, RunRecorded, Handling, Unrecorded, stopVars
<1>. QED BY <1>1, <1>2 DEF IInv

LEMMA NotListener ==
  ASSUME Shape, NEW a \in Actors, NEW op, At(a, op), op \notin ListenerOps
  PROVE  a # Listener
BY AtFirst DEF Shape, Tidy

LEMMA WaitsPlain ==
  ASSUME IInv, MethodsOnly, NEW a \in Actors, NEW op \in Waits,
         AwaitSucceeds(a, op) \/ AwaitBlocks(a, op) \/ AwaitTimesOut(a, op)
  PROVE  IInv'
<1>1. Shape /\ At(a, op)
  BY DEF IInv, AwaitSucceeds, AwaitBlocks, AwaitTimesOut
<1>2. UNCHANGED <<stopVars, queue, callbacks>> /\ callbacks' \in Seq(Kinds) /\ Queues({})
  <2>1. UNCHANGED <<stopVars, queue, callbacks>>
    BY DEF AwaitSucceeds, AwaitBlocks, AwaitTimesOut, stopVars, kernelVars, threadVars, historyVars
  <2>. QED BY <1>1, <2>1, QueueSame DEF Shape
<1>3. a # Listener
  BY <1>1, NotListener DEF Waits, ListenerOps
<1>4. todo[a] # <<>> /\ todo[a][1].op = op /\ Head(todo[a]) = todo[a][1] /\ 1 \in DOMAIN todo[a]
  BY <1>1, AtFirst
<1>5. ASSUME NEW n, Methodical(n), Goto(a, n) PROVE IInv'
  BY <1>1, <1>2, <1>3, <1>4, <1>5, PairedUnless, Plain DEF Waits
<1>6. CASE AwaitBlocks(a, op)
  BY <1>2, <1>6, Stutter DEF AwaitBlocks
<1>7. Methodical(<<Op("unlock")>>) /\ Methodical(<<Op("awaitDead")>>)
  BY MethodicalOne DEF Op, Instr
<1>8. CASE AwaitTimesOut(a, op)
  <2>1. Goto(a, <<Op("unlock")>>) \/ Goto(a, <<>>)
    BY <1>8 DEF AwaitTimesOut
  <2>. QED BY <1>5, <1>7, <2>1, Empty
<1>9. CASE AwaitSucceeds(a, op)
  <2>1. \/ Goto(a, Resume("TERM") \o <<Op("awaitDead")>>)
        \/ op = "awaitStep" /\ Goto(a, <<Op("unlock")>> \o Arg(a))
        \/ Goto(a, <<>>)
    BY <1>9 DEF AwaitSucceeds
  <2>2. Methodical(Resume("TERM") \o <<Op("awaitDead")>>)
    BY <1>7, MethodicalMethods, MethodicalConcat
  <2>3. op = "awaitStep" => Methodical(<<Op("unlock")>> \o Arg(a))
    <3>1. op = "awaitStep" => Arg(a) \in Rests
      BY <1>1, <1>3, <1>4, PairedUnless DEF Paired, Arg
    <3>. QED BY <1>7, <3>1, MethodicalConcat DEF MethodsOnly
  <2>. QED BY <1>5, <2>1, <2>2, <2>3, Empty
<1>. QED BY <1>6, <1>8, <1>9

LEMMA ControlPlain ==
  ASSUME IInv, NEW a \in Actors,
         StepWait(a) \/ StopTest(a) \/ TerminateTest(a) \/ PushKill(a)
  PROVE  IInv'
<1>1. Shape
  BY DEF IInv
<1>2. UNCHANGED <<stopVars, callbacks>> /\ callbacks' \in Seq(Kinds)
  <2>1. UNCHANGED <<stopVars, callbacks>>
    BY DEF StepWait, StopTest, TerminateTest, PushKill, stopVars, kernelVars, threadVars, historyVars
  <2>. QED BY <1>1, <2>1 DEF Shape
<1>3. \E op : op \notin {"cont", "setState"} /\ op \notin ListenerOps /\ At(a, op)
  BY DEF StepWait, StopTest, TerminateTest, PushKill, ListenerOps
<1>4. a # Listener /\ todo[a] # <<>> /\ todo[a][1].op \notin {"cont", "setState"}
  BY <1>1, <1>3, NotListener, AtFirst
<1>5. ASSUME NEW n, Methodical(n), Goto(a, n),
             NEW cmds, Queues(cmds), \A c \in cmds : IsAside(c)
      PROVE  IInv'
  BY <1>1, <1>2, <1>4, <1>5, PairedUnless, Plain
<1>6. ASSUME NEW arg \in Kills, Send(<<Cmd(a, "KILL", arg)>>)
      PROVE  \E cmds : Queues(cmds) /\ \A c \in cmds : IsAside(c)
  <2>1. IsAside(Cmd(a, "KILL", arg))
    BY <1>1, CmdsAside
  <2>2. Queues({Cmd(a, "KILL", arg)})
    BY <1>1, <1>6, QueueSent
  <2>. QED BY <2>1, <2>2
<1>7. UNCHANGED queue => Queues({})
  BY <1>1, QueueSame
<1>8. CASE StepWait(a)
  BY <1>5, <1>7, <1>8, Empty DEF StepWait, Done
<1>9. CASE PushKill(a)
  BY <1>5, <1>6, <1>9, Empty DEF PushKill, Done, Kills
<1>10. CASE StopTest(a)
  <2>1. Methodical(<<Op("awaitStop")>>)
    BY MethodicalOne DEF Op, Instr
  <2>2. \/ Goto(a, <<>>) /\ UNCHANGED queue
        \/ Goto(a, <<Op("awaitStop")>>) /\ Send(<<Cmd(a, "KILL", "STOP")>>)
    BY <1>10 DEF StopTest, Done
  <2>. QED BY <1>5, <1>6, <1>7, <2>1, <2>2, Empty DEF Kills
<1>11. CASE TerminateTest(a)
  <2>1. Methodical(<<Op("kill")>>) /\ Methodical(<<Op("awaitTerm")>>)
    BY MethodicalOne DEF Op, Instr
  <2>2. Methodical(<<Op("kill"), Op("awaitTerm")>>)
    BY <2>1, OneAndOne, MethodicalConcat
  <2>3. /\ Methodical(Resume("none") \o <<Op("kill"), Op("awaitTerm")>>)
        /\ Methodical(<<>> \o <<Op("kill"), Op("awaitTerm")>>)
    BY <2>2, MethodicalMethods, MethodicalConcat, Empty
  <2>4. /\ UNCHANGED queue
        /\ \/ Goto(a, <<>>)
           \/ Goto(a, Resume("none") \o <<Op("kill"), Op("awaitTerm")>>)
           \/ Goto(a, <<>> \o <<Op("kill"), Op("awaitTerm")>>)
    BY <1>11 DEF TerminateTest
  <2>. QED BY <1>5, <1>7, <2>3, <2>4, Empty
<1>. QED BY <1>8, <1>9, <1>10, <1>11

\* Looking at DR6, and then for a watchpoint or a breakpoint that was hit.
Look(v) == <<Op("readRegisters"), Instr("testDr6", v)>>

LEMMA AsideConcat ==
  ASSUME NEW s, IsSeq(s), Aside(s), NEW t, IsSeq(t), Aside(t)
  PROVE  Aside(s \o t)
<1>1. PICK c : c = s \o t
  OBVIOUS
<1>2. /\ DOMAIN c = 1 .. Len(s) + Len(t) /\ Len(s) \in Nat /\ Len(t) \in Nat
      /\ DOMAIN s = 1 .. Len(s) /\ DOMAIN t = 1 .. Len(t)
      /\ \A k \in 1 .. Len(s) : c[k] = s[k]
      /\ \A k \in Len(s) + 1 .. Len(s) + Len(t) : c[k] = t[k - Len(s)]
  BY <1>1, Concat DEF IsSeq
<1>. QED BY <1>1, <1>2 DEF Aside

LEMMA LooksAside ==
  /\ \A v : Methodical(Look(v)) /\ Aside(Look(v))
  /\ Methodical(Unhandled) /\ Aside(Unhandled)
  /\ \A k \in Kinds : Methodical(<<Instr("hit", k)>>) /\ Aside(<<Instr("hit", k)>>)
  /\ \A idx : /\ Methodical(SetDr6(idx) \o <<Instr("hit", "watch")>>)
              /\ Aside(SetDr6(idx) \o <<Instr("hit", "watch")>>)
<1>1. ASSUME NEW s, IsSeq(s), Aside(s), NEW t, IsSeq(t), Aside(t) PROVE Aside(s \o t)
  BY <1>1, AsideConcat
<1>2. ASSUME NEW op \in ListenerOps \ {"cont", "trap", "setState"}, NEW arg
      PROVE  Aside(<<Instr(op, arg)>>) /\ Aside(<<Op(op)>>)
  BY <1>2 DEF Aside, Op, Instr
<1>3. ASSUME NEW op \in {"readRegisters", "getRegs", "matchBreakPoint", "testDr6", "hit", "lock",
                        "unlock", "getDr6", "setDr6"}
      PROVE  op \in ListenerOps \ {"cont", "trap", "setState"}
  BY DEF ListenerOps
<1>4. ASSUME NEW op \in {"readRegisters", "getRegs", "matchBreakPoint", "testDr6", "lock",
                        "unlock", "getDr6", "setDr6"}
      PROVE  /\ \A arg : Methodical(<<Instr(op, arg)>>) /\ Aside(<<Instr(op, arg)>>)
             /\ Methodical(<<Op(op)>>) /\ Aside(<<Op(op)>>)
  BY <1>2, <1>3, MethodicalOne DEF Op, Instr
<1>5. ASSUME NEW s, Methodical(s), Aside(s), NEW t, Methodical(t), Aside(t)
      PROVE  Methodical(s \o t) /\ Aside(s \o t)
  BY <1>1, <1>5, MethodicalConcat DEF Methodical
<1>6. ASSUME NEW v PROVE Methodical(Look(v)) /\ Aside(Look(v))
  <2>1. Look(v) = <<Op("readRegisters")>> \o <<Instr("testDr6", v)>>
    BY OneAndOne DEF Look
  <2>. QED BY <1>4, <1>5, <2>1
<1>7. Methodical(Unhandled) /\ Aside(Unhandled)
  <2>1. GetRip = <<Op("readRegisters")>> \o <<Op("getRegs")>>
    BY OneAndOne DEF GetRip
  <2>. QED BY <1>4, <1>5, <2>1 DEF Unhandled
<1>8. ASSUME NEW k \in Kinds
      PROVE  Methodical(<<Instr("hit", k)>>) /\ Aside(<<Instr("hit", k)>>)
  BY <1>2, <1>3, MethodicalOne DEF Instr
<1>9. ASSUME NEW idx PROVE Methodical(SetDr6(idx)) /\ Aside(SetDr6(idx))
  <2>1. SetDr6(idx) = (((<<Op("lock")>> \o <<Op("readRegisters")>>) \o <<Op("getDr6")>>)
                        \o <<Instr("setDr6", idx)>>) \o <<Op("unlock")>>
    BY DEF SetDr6
  <2>2. /\ Methodical(<<Op("lock")>>) /\ Aside(<<Op("lock")>>)
        /\ Methodical(<<Op("readRegisters")>>) /\ Aside(<<Op("readRegisters")>>)
        /\ Methodical(<<Op("getDr6")>>) /\ Aside(<<Op("getDr6")>>)
        /\ Methodical(<<Instr("setDr6", idx)>>) /\ Aside(<<Instr("setDr6", idx)>>)
        /\ Methodical(<<Op("unlock")>>) /\ Aside(<<Op("unlock")>>)
    BY <1>4
  <2>. QED BY <1>5, <2>1, <2>2
<1>. QED BY <1>5, <1>6, <1>7, <1>8, <1>9 DEF Kinds

LEMMA BacktraceAside ==
  ASSUME NEW bt \in Backtrace PROVE Methodical(bt) /\ Aside(bt)
<1>1. Methodical(<<Op("readRegisters")>>) /\ Methodical(<<Op("getRegs")>>)
  BY MethodicalOne DEF Op, Instr
<1>2. Aside(<<Op("readRegisters")>>) /\ Aside(<<Op("getRegs")>>)
  BY DEF Aside, Op, Instr, ListenerOps
<1>3. GetRip = <<Op("readRegisters")>> \o <<Op("getRegs")>>
  BY OneAndOne DEF GetRip
<1>4. Methodical(GetRip) /\ Aside(GetRip)
  BY <1>1, <1>2, <1>3, MethodicalConcat, AsideConcat DEF Methodical
<1>. QED BY <1>4, MethodicalConcat, AsideConcat DEF Backtrace, Methodical

LEMMA HandlePlain ==
  ASSUME IInv, NEW a \in Actors,
         TestDr6(a) \/ MatchBreakPoint(a) \/ Hit(a) \/ (Trap(a) /\ a # Listener)
  PROVE  IInv'
<1>1. Shape
  BY DEF IInv
<1>2. UNCHANGED <<stopVars, queue>> /\ Queues({})
  <2>1. UNCHANGED <<stopVars, queue>>
    BY DEF TestDr6, MatchBreakPoint, MatchBreakPointIn, Hit, Trap, TrapThen, stopVars,
           kernelVars, threadVars, historyVars
  <2>. QED BY <1>1, <2>1, QueueSame
<1>3. \E op \in {"testDr6", "matchBreakPoint", "hit", "trap"} : At(a, op)
  BY DEF TestDr6, MatchBreakPoint, MatchBreakPointIn, Hit, Trap, TrapThen
<1>4. todo[a] # <<>> /\ todo[a][1].op \notin {"cont", "setState"} /\ Paired(todo[a])
  BY <1>1, <1>3, AtFirst, PairedUnless
<1>5. ASSUME NEW n, Methodical(n), a = Listener => Aside(n), Goto(a, n), callbacks' \in Seq(Kinds)
      PROVE  IInv'
  BY <1>2, <1>4, <1>5, Plain
<1>6. UNCHANGED callbacks => callbacks' \in Seq(Kinds)
  BY <1>1 DEF Shape
<1>7. CASE TestDr6(a)
  <2>1. /\ UNCHANGED callbacks
        /\ \/ \E idx : Goto(a, SetDr6(idx) \o <<Instr("hit", "watch")>>)
           \/ Goto(a, <<>>) \/ Goto(a, Unhandled)
    BY <1>7 DEF TestDr6
  <2>. QED BY <1>5, <1>6, <2>1, LooksAside, Empty, AsideEmpty
<1>8. CASE MatchBreakPoint(a)
  <2>1. /\ UNCHANGED callbacks
        /\ Goto(a, <<Instr("hit", "break")>>) \/ Goto(a, <<>>)
    BY <1>8 DEF MatchBreakPoint, MatchBreakPointIn
  <2>2. "break" \in Kinds
    BY DEF Kinds
  <2>. QED BY <1>5, <1>6, <2>1, <2>2, LooksAside, Empty, AsideEmpty
<1>9. CASE Hit(a)
  <2>1. Goto(a, <<>>) /\ callbacks' = Append(callbacks, Arg(a)) /\ At(a, "hit")
    BY <1>9 DEF Hit, Done
  <2>2. Arg(a) \in Kinds
    BY <1>1, <1>4, <2>1, AtFirst DEF Paired, Arg
  <2>3. callbacks' \in Seq(Kinds)
    BY <1>1, <2>1, <2>2 DEF Shape
  <2>. QED BY <1>5, <2>1, <2>3, Empty, AsideEmpty
<1>10. CASE Trap(a) /\ a # Listener
  <2>1. PICK v : v = <<Arg(a), trapExp \/ Arg(a) = "clone">>
    OBVIOUS
  <2>2. /\ UNCHANGED callbacks
        /\ Goto(a, Resume("none") \o Look(v)) \/ Goto(a, <<>> \o Look(v))
    BY <1>10, <2>1 DEF Trap, TrapThen, Look
  <2>3. Methodical(Resume("none") \o Look(v)) /\ Methodical(<<>> \o Look(v))
    BY LooksAside, MethodicalMethods, MethodicalConcat, Empty
  <2>. QED BY <1>5, <1>6, <1>10, <2>2, <2>3
<1>. QED BY <1>7, <1>8, <1>9, <1>10

-----------------------------------------------------------------------------
(* The instructions that concern the stop.                                 *)

LEMMA ResumeElements ==
  ASSUME NEW sig
  PROVE  /\ IsSeq(Resume(sig)) /\ Len(Resume(sig)) = 3
         /\ Resume(sig)[1].op = "writeRegisters"
         /\ Resume(sig)[2].op = "cont"
         /\ Resume(sig)[3].op = "setState" /\ Resume(sig)[3].arg = "CONTINUED"
<1>1. Methodical(Resume(sig))
  BY MethodicalMethods
<1>. QED BY <1>1 DEF Methodical, Resume, Op, Instr

\* A trap is the last thing that the listener has to do for a stop.
LEMMA TrapIsLast ==
  ASSUME Shape, At(Listener, "trap")
  PROVE  /\ Len(todo[Listener]) = 1 /\ todo[Listener][1].op = "trap"
         /\ Tail(todo[Listener]) = <<>>
         /\ HandlesStop(todo[Listener]) /\ ~RecordsStop(todo[Listener])
<1>1. Listener \in Actors
  BY DEF Actors
<1>2. PICK s : s = todo[Listener]
  OBVIOUS
<1>3. IsSeq(s) /\ Tidy(s) /\ s # <<>> /\ s[1].op = "trap" /\ 1 \in DOMAIN s
  BY <1>1, <1>2, AtFirst DEF Shape
<1>4. Len(s) = 1
  BY <1>3 DEF Tidy
<1>5. IsSeq(Tail(s)) /\ Len(Tail(s)) = 0
  BY <1>3, <1>4, Tailed
<1>6. Tail(s) = <<>>
  <2>1. \A u : IsSeq(u) /\ Len(u) = 0 => u = <<>>
    BY EmptySeqs
  <2>. QED BY <1>5, <2>1
<1>7. HandlesStop(s) /\ ~RecordsStop(s)
  BY <1>3, <1>4 DEF HandlesStop, RecordsStop, Sets, IsSeq
<1>. QED BY <1>2, <1>3, <1>4, <1>6, <1>7

LEMMA TrapStep == ASSUME IInv, Trap(Listener) PROVE IInv'
<1>1. Shape /\ Kernel /\ Requests /\ Stops /\ Listener \in Actors
  BY DEF IInv, Actors
<1>2. PICK v : v = <<Arg(Listener), trapExp \/ Arg(Listener) = "clone">>
  OBVIOUS
<1>3. /\ At(Listener, "trap") /\ UNCHANGED <<stopVars, queue, callbacks>>
      /\ Goto(Listener, Resume("none") \o Look(v)) \/ Goto(Listener, <<>> \o Look(v))
  BY <1>2 DEF Trap, TrapThen, Look, stopVars, kernelVars, historyVars
<1>4. Queues({}) /\ callbacks' \in Seq(Kinds)
  BY <1>1, <1>3, QueueSame DEF Shape
<1>5. /\ todo[Listener] # <<>> /\ todo[Listener][1].op = "trap"
      /\ Tail(todo[Listener]) = <<>> /\ Paired(todo[Listener])
      /\ HandlesStop(todo[Listener]) /\ ~RecordsStop(todo[Listener])
  BY <1>1, <1>3, AtFirst, TrapIsLast, PairedUnless
<1>6. CASE Goto(Listener, <<>> \o Look(v))
  <2>1. <<>> \o Look(v) = Look(v)
    BY LooksAside, ConcatEmptySeq, IsSeqOfElements DEF Methodical
  <2>. QED BY <1>1, <1>3, <1>4, <1>5, <1>6, <2>1, LooksAside, Plain
<1>7. CASE Goto(Listener, Resume("none") \o Look(v))
  <2>1. PICK n : n = Resume("none") \o Look(v)
    OBVIOUS
  <2>2. Methodical(n)
    BY <2>1, LooksAside, MethodicalMethods, MethodicalConcat
  <2>3. n \o Tail(todo[Listener]) = n
    BY <1>5, <2>2, ConcatEmptySeq, IsSeqOfElements DEF Methodical
  <2>4. /\ Len(n) = 5 /\ DOMAIN n = 1 .. 5
        /\ n[1].op = "writeRegisters" /\ n[2].op = "cont"
        /\ n[3].op = "setState" /\ n[3].arg = "CONTINUED"
        /\ n[4].op = "readRegisters" /\ n[5].op = "testDr6"
    <3>1. PICK r, l : r = Resume("none") /\ l = Look(v)
      OBVIOUS
    <3>2. IsSeq(l) /\ Len(l) = 2 /\ l[1].op = "readRegisters" /\ l[2].op = "testDr6"
      BY <3>1, LooksAside DEF Methodical, Look, Op, Instr
    <3>3. /\ IsSeq(r) /\ Len(r) = 3 /\ r[1].op = "writeRegisters" /\ r[2].op = "cont"
          /\ r[3].op = "setState" /\ r[3].arg = "CONTINUED"
      BY <3>1, ResumeElements
    <3>4. /\ Len(n) = 5 /\ DOMAIN n = 1 .. 5
          /\ n[1] = r[1] /\ n[2] = r[2] /\ n[3] = r[3]
          /\ n[4] = l[1] /\ n[5] = l[2]
      <4>1. /\ Len(n) = Len(r) + Len(l) /\ DOMAIN n = 1 .. Len(r) + Len(l)
            /\ \A k \in 1 .. Len(r) : n[k] = r[k]
            /\ \A k \in Len(r) + 1 .. Len(r) + Len(l) : n[k] = l[k - Len(r)]
        <5>1. n = r \o l
          BY <2>1, <3>1
        <5>. QED BY <3>2, <3>3, <5>1, Concat
      <4>2. /\ Len(n) = 5 /\ DOMAIN n = 1 .. 5
            /\ \A k \in 1 .. 3 : n[k] = r[k]
            /\ \A k \in {4, 5} : n[k] = l[k - Len(r)]
        BY <3>2, <3>3, <4>1
      <4>3. 4 - Len(r) = 1 /\ 5 - Len(r) = 2
        BY <3>3
      <4>4. n[4] = l[4 - Len(r)] /\ n[5] = l[5 - Len(r)]
        BY <4>2
      <4>. QED BY <4>2, <4>3, <4>4
    <3>. QED BY <3>2, <3>3, <3>4
  <2>5. Tidy(n)
    BY <2>4 DEF Tidy, Sets, Continued, ListenerOps
  <2>6. ~RecordsEnd(n) /\ ~RecordsStop(n) /\ ~RecordsRun(n)
    BY <2>2, <2>4, ReportElements DEF RecordsEnd, RecordsStop, RecordsRun, Sets, Continued, Ended, Methodical
  <2>7. /\ todo'[Listener] = n
        /\ \A b \in Actors \ {Listener} : todo'[b] = todo[b]
    BY <1>1, <1>5, <1>7, <2>1, <2>2, <2>3, Going DEF Methodical
  <2>8. Shape'
    <3>1. UNCHANGED <<known, stops, pending, done>>
      BY <1>3 DEF stopVars
    <3>. QED BY <1>1, <1>4, <1>5, <1>7, <2>1, <2>2, <2>3, <2>5, <3>1, ShapeKept DEF Methodical
  <2>9. Kernel'
    BY <1>1, <1>3, <2>6, <2>7 DEF Kernel, stopVars
  <2>10. \A b \in Actors : RecordsRun(todo'[b]) <=> RecordsRun(todo[b])
    BY <1>5, <2>6, <2>7, ReportElements DEF RecordsRun, Continued, Sets
  <2>11. Requests'
    BY <1>1, <1>3, <1>5, <2>10 DEF Requests, Valid, RunRecorded, Handling, stopVars
  <2>12. Stops'
    BY <1>1, <1>3, <1>5, <2>10 DEF Stops, Unrecorded, stopVars
  <2>. QED BY <2>8, <2>9, <2>11, <2>12 DEF IInv
<1>. QED BY <1>3, <1>6, <1>7

\* A request, when it is made with its sender's eyes open.
LEMMA RequestMade ==
  ASSUME Requests, ~premature, NEW a \in Actors, NEW op \in {"CONT", "STEP"}, NEW arg,
         run = "stopped", Valid(Cmd(a, op, arg)),
         a = Listener => Handling
  PROVE  event \in NoStop /\ (a # Listener => ~Handling)
<1>1. CASE a = Listener
  BY <1>1 DEF Requests
<1>2. CASE a # Listener
  <2>1. event \in NoStop /\ todo[Listener] = <<>>
    BY <1>2 DEF Valid, Cmd, NoStop
  <2>2. ~HandlesStop(<<>>)
    BY DEF HandlesStop
  <2>. QED BY <1>2, <2>1, <2>2 DEF Handling
<1>. QED BY <1>1, <1>2

LEMMA PushContStep ==
  ASSUME IInv, NEW a \in Actors, PushCont(a)
  PROVE  IInv'
<1>1. Shape /\ Kernel /\ Requests /\ Stops /\ Listener \in Actors
  BY DEF IInv, Actors
<1>2. PICK c : c = Cmd(a, "CONT", Arg(a))
  OBVIOUS
<1>3. UNCHANGED <<stopVars, callbacks>> /\ At(a, "cont") /\ Goto(a, <<>>) /\ Send(<<c>>)
  BY <1>2 DEF PushCont, Done, stopVars, kernelVars, threadVars, historyVars
<1>4. Queues({c}) /\ callbacks' \in Seq(Kinds)
  BY <1>1, <1>3, QueueSent DEF Shape
<1>5. IsCmd(c) /\ c.op = "CONT"
  BY <1>1, <1>2 DEF IsCmd, Cmd, Shape
<1>6. todo[a] # <<>> /\ todo[a][1].op = "cont" /\ 1 \in DOMAIN todo[a] /\ Paired(todo[a])
  BY <1>1, <1>3, AtFirst, PairedUnless
<1>7. /\ todo'[a] = Tail(todo[a])
      /\ \A b \in Actors \ {a} : todo'[b] = todo[b]
  <2>1. todo'[a] = <<>> \o Tail(todo[a]) /\ \A b \in Actors \ {a} : todo'[b] = todo[b]
    BY <1>1, <1>3, <1>6, Going, Empty DEF Methodical
  <2>2. IsSeq(Tail(todo[a]))
    BY <1>1, <1>6, Tailed DEF Shape
  <2>. QED BY <2>1, <2>2, ConcatEmptySeq, IsSeqOfElements
<1>8. PICK s, t : s = todo[a] /\ t = Tail(s)
  OBVIOUS
<1>9. /\ IsSeq(s) /\ Paired(s) /\ s # <<>> /\ s[1].op = "cont" /\ (a = Listener => Tidy(s))
  BY <1>1, <1>6, <1>8 DEF Shape
<1>10. /\ IsSeq(t) /\ DOMAIN t = 1 .. Len(s) - 1 /\ Len(s) \in Nat /\ DOMAIN s = 1 .. Len(s)
       /\ \A k \in 1 .. Len(s) - 1 : t[k] = s[k + 1]
  BY <1>8, <1>9, Tailed DEF IsSeq
<1>11. RecordsRun(t)
  <2>1. 2 \in DOMAIN s /\ Continued(s, 2)
    BY <1>9, <1>10, EmptySeqs DEF Paired
  <2>2. 1 \in DOMAIN t /\ t[1] = s[2]
    BY <1>10, <2>1
  <2>3. t # <<>>
    BY <2>2
  <2>. QED BY <2>1, <2>2, <2>3 DEF RecordsRun, Continued, Sets
<1>12. a = Listener => HandlesStop(s) /\ ~HandlesStop(t)
  <2>. SUFFICES ASSUME a = Listener PROVE HandlesStop(s) /\ ~HandlesStop(t)
    OBVIOUS
  <2>1. HandlesStop(s)
    BY <1>6, <1>8 DEF HandlesStop
  <2>2. \A j \in DOMAIN s : j > 1 => s[j].op \notin {"cont", "trap"} /\ (Sets(s, j) => Continued(s, j))
    BY <1>6, <1>8, <1>9 DEF Tidy
  <2>3. \A k \in DOMAIN t : k + 1 \in DOMAIN s /\ k + 1 > 1 /\ t[k] = s[k + 1]
    BY <1>10
  <2>. QED BY <2>1, <2>2, <2>3 DEF HandlesStop, Sets, Continued
<1>13. <<>> \o t = t
  BY <1>10, ConcatEmptySeq, IsSeqOfElements
<1>14. a = Listener => /\ Tidy(t) /\ (RecordsEnd(t) => RecordsEnd(s))
                      /\ (RecordsStop(t) <=> RecordsStop(s))
  BY <1>8, <1>9, <1>13, Empty, AsideEmpty, TidySpliced
<1>15. Shape'
  <2>1. UNCHANGED <<known, stops, pending, done>>
    BY <1>3 DEF stopVars
  <2>. QED BY <1>1, <1>3, <1>4, <1>5, <1>6, <1>8, <1>13, <1>14, <2>1, ShapeKept, Empty DEF Methodical
<1>16. Kernel'
  BY <1>1, <1>3, <1>7, <1>8, <1>14 DEF Kernel, stopVars
<1>17. RunRecorded'
  BY <1>7, <1>8, <1>11 DEF RunRecorded
<1>18. Handling' => Handling /\ a # Listener
  BY <1>1, <1>7, <1>8, <1>12 DEF Handling
<1>19. Requests'
  <2>. SUFFICES ASSUME ~premature PROVE Requests'
    BY <1>3 DEF Requests, stopVars
  <2>1. ASSUME run = "stopped", NEW k \in DOMAIN queue', Valid(queue'[k])
        PROVE  event \in NoStop /\ ~Handling'
    <3>1. CASE k \in DOMAIN queue
      BY <1>1, <1>4, <1>18, <2>1, <3>1 DEF Requests, Queues
    <3>2. CASE queue'[k] = c
      <4>1. a = Listener => Handling
        BY <1>8, <1>12 DEF Handling
      <4>2. event \in NoStop /\ (a # Listener => ~Handling)
        BY <1>1, <1>2, <2>1, <3>2, <4>1, RequestMade
      <4>. QED BY <1>18, <4>2
    <3>. QED BY <1>4, <3>1, <3>2 DEF Queues
  <2>. QED BY <1>1, <1>3, <1>17, <1>18, <2>1 DEF Requests, Valid, stopVars
<1>20. Stops'
  <2>1. Unrecorded'
    BY <1>4, <1>5 DEF Unrecorded, Queues
  <2>. QED BY <1>1, <1>3, <2>1 DEF Stops, stopVars
<1>. QED BY <1>15, <1>16, <1>19, <1>20 DEF IInv

LEMMA PushStepStep ==
  ASSUME IInv, NEW a \in Actors, PushStep(a)
  PROVE  IInv'
<1>1. Shape /\ Kernel /\ Requests /\ Stops /\ Listener \in Actors
  BY DEF IInv, Actors
<1>2. PICK c : c = Cmd(a, "STEP", "none")
  OBVIOUS
<1>3. UNCHANGED <<stopVars, callbacks>> /\ At(a, "step") /\ Goto(a, <<>>) /\ Send(<<c>>)
  BY <1>2 DEF PushStep, Done, stopVars, kernelVars, historyVars
<1>4. Queues({c}) /\ callbacks' \in Seq(Kinds)
  BY <1>1, <1>3, QueueSent DEF Shape
<1>5. IsCmd(c) /\ c.op = "STEP"
  BY <1>1, <1>2 DEF IsCmd, Cmd, Shape
<1>6. todo[a] # <<>> /\ todo[a][1].op = "step" /\ a # Listener /\ Paired(todo[a])
  BY <1>1, <1>3, AtFirst, NotListener, PairedUnless DEF ListenerOps
<1>7. /\ todo'[a] = <<>> \o Tail(todo[a])
      /\ \A b \in Actors \ {a} : todo'[b] = todo[b]
  BY <1>1, <1>3, <1>6, Going, Empty DEF Methodical
<1>8. ~RecordsRun(todo'[a]) /\ ~RecordsRun(todo[a])
  <2>1. IsSeq(todo[a])
    BY <1>1 DEF Shape
  <2>2. ~RecordsRun(todo'[a])
    BY <1>6, <1>7, <2>1, NoRunRecorded, Empty DEF Methodical
  <2>. QED BY <1>6, <2>2, ReportElements DEF RecordsRun, Continued, Sets
<1>9. (\A b \in Actors : RecordsRun(todo'[b]) <=> RecordsRun(todo[b])) /\ todo'[Listener] = todo[Listener]
  BY <1>1, <1>6, <1>7, <1>8
<1>10. Shape'
  <2>1. UNCHANGED <<known, stops, pending, done>>
    BY <1>3 DEF stopVars
  <2>. QED BY <1>1, <1>3, <1>4, <1>5, <1>6, <2>1, ShapeKept, Empty DEF Methodical
<1>11. Kernel'
  BY <1>1, <1>3, <1>9 DEF Kernel, stopVars
<1>12. Requests'
  <2>. SUFFICES ASSUME ~premature PROVE Requests'
    BY <1>3 DEF Requests, stopVars
  <2>1. ASSUME run = "stopped", NEW k \in DOMAIN queue', Valid(queue'[k])
        PROVE  /\ event \in NoStop /\ ~Handling
               /\ queue'[k].op = "CONT" => RunRecorded
    <3>1. CASE k \in DOMAIN queue
      BY <1>1, <1>4, <2>1, <3>1 DEF Requests, Queues
    <3>2. CASE queue'[k] = c
      BY <1>1, <1>2, <1>5, <1>6, <2>1, <3>2, RequestMade
    <3>. QED BY <1>4, <3>1, <3>2 DEF Queues
  <2>. QED BY <1>1, <1>3, <1>9, <2>1 DEF Requests, Valid, RunRecorded, Handling, stopVars
<1>13. Stops'
  <2>1. Unrecorded => Unrecorded'
    BY <1>3, <1>4, <1>9 DEF Unrecorded, Queues, stopVars
  <2>. QED BY <1>1, <1>3, <1>9, <2>1 DEF Stops, stopVars
<1>. QED BY <1>10, <1>11, <1>12, <1>13 DEF IInv

LEMMA SetStateStep ==
  ASSUME IInv, NEW a \in Actors, SetState(a)
  PROVE  IInv'
<1>1. Shape /\ Kernel /\ Requests /\ Stops /\ Listener \in Actors
  BY DEF IInv, Actors
<1>2. /\ At(a, "setState") /\ Goto(a, <<>>) /\ state' = Arg(a)
      /\ overtaken' = (overtaken \/ /\ Arg(a) = "STOPPED"
                                    /\ \E b \in Actors \ {a} : At(b, "setState"))
      /\ UNCHANGED <<run, event, pending, stops, known, done, premature, queue, callbacks>>
  BY DEF SetState, Done, kernelVars
<1>3. Queues({}) /\ callbacks' \in Seq(Kinds)
  BY <1>1, <1>2, QueueSame DEF Shape
<1>4. /\ todo[a] # <<>> /\ todo[a][1].op = "setState" /\ 1 \in DOMAIN todo[a]
      /\ Arg(a) = todo[a][1].arg /\ Paired(todo[a])
  BY <1>1, <1>2, AtFirst, PairedUnless DEF Arg
<1>5. PICK s, t : s = todo[a] /\ t = <<>> \o Tail(s)
  OBVIOUS
<1>6. /\ t = todo'[a]
      /\ \A b \in Actors \ {a} : todo'[b] = todo[b]
  BY <1>1, <1>2, <1>4, <1>5, Going, Empty DEF Methodical
<1>7. /\ IsSeq(s) /\ Paired(s) /\ s # <<>> /\ (a = Listener => Tidy(s))
      /\ a # Listener => OnlyResumes(s)
  BY <1>1, <1>4, <1>5 DEF Shape
<1>8. a = Listener => /\ Tidy(t) /\ (RecordsEnd(t) => RecordsEnd(s))
                     /\ (HandlesStop(t) => HandlesStop(s))
  BY <1>5, <1>7, Empty, AsideEmpty, TidySpliced
<1>9. ~RecordsRun(t)
  BY <1>4, <1>5, <1>7, NoRunRecorded, Empty DEF Methodical
<1>10. Shape'
  BY <1>1, <1>2, <1>3, <1>4, <1>5, <1>8, ShapeKept, Empty DEF Methodical
<1>11. Kernel'
  BY <1>1, <1>2, <1>5, <1>6, <1>8 DEF Kernel
<1>12. Handling' => Handling
  BY <1>1, <1>5, <1>6, <1>8 DEF Handling
<1>13. CASE Arg(a) = "CONTINUED"
  <2>1. RunRecorded' /\ RecordsRun(s)
    BY <1>2, <1>4, <1>5, <1>7, <1>13 DEF RunRecorded, RecordsRun, Continued, Sets
  <2>2. Requests'
    BY <1>1, <1>2, <1>12, <2>1 DEF Requests, Valid
  <2>3. a = Listener => (RecordsStop(s) => RecordsStop(t))
    <3>. SUFFICES ASSUME NEW j \in DOMAIN s, Sets(s, j), s[j].arg = "STOPPED"
                  PROVE  RecordsStop(t)
      BY DEF RecordsStop
    <3>1. j # 1
      BY <1>4, <1>5, <1>13
    <3>2. /\ IsSeq(t) /\ Len(t) = Len(s) - 1 /\ Len(s) \in Nat /\ DOMAIN s = 1 .. Len(s)
          /\ \A k \in 1 .. Len(s) - 1 : t[k] = s[k + 1]
      <4>1. IsSeq(Tail(s)) /\ <<>> \o Tail(s) = Tail(s)
        BY <1>7, Tailed, ConcatEmptySeq, IsSeqOfElements
      <4>. QED BY <1>5, <1>7, <4>1, Tailed DEF IsSeq
    <3>3. j - 1 \in DOMAIN t /\ t[j - 1] = s[j]
      <4>1. j - 1 \in 1 .. Len(s) - 1 /\ j = (j - 1) + 1
        BY <3>1, <3>2
      <4>. QED BY <3>2, <4>1 DEF IsSeq
    <3>. QED BY <3>3 DEF RecordsStop, Sets
  <2>4. Unrecorded => Unrecorded'
    BY <1>1, <1>2, <1>5, <1>6, <2>3 DEF Unrecorded
  <2>5. Stops'
    BY <1>1, <1>2, <1>5, <1>13, <2>1, <2>4 DEF Stops
  <2>. QED BY <1>10, <1>11, <2>2, <2>5 DEF IInv
<1>14. CASE Arg(a) # "CONTINUED"
  <2>1. a = Listener /\ Arg(a) \in {"STOPPED", "EXITED", "TERMINATED"}
    <3>1. 1 \in DOMAIN s /\ Sets(s, 1) /\ ~Continued(s, 1) /\ s[1].arg = Arg(a)
      BY <1>4, <1>5, <1>14 DEF Sets, Continued
    <3>2. a = Listener
      BY <1>7, <3>1 DEF OnlyResumes
    <3>3. s[1].arg \in {"STOPPED", "CONTINUED", "EXITED", "TERMINATED"}
      BY <1>7, <3>1, <3>2 DEF Tidy
    <3>. QED BY <1>14, <3>1, <3>2, <3>3
  <2>2. Handling
    BY <1>4, <1>14, <2>1 DEF Handling, HandlesStop, Sets, Continued
  <2>3. Requests'
    BY <1>1, <1>2, <1>12, <2>2 DEF Requests, Valid
  <2>4. CASE Arg(a) = "STOPPED"
    <3>1. CASE \E b \in Actors \ {a} : At(b, "setState")
      <4>1. overtaken'
        BY <1>2, <2>4, <3>1
      <4>. QED BY <1>10, <1>11, <2>3, <4>1 DEF IInv, Stops
    <3>2. CASE \A b \in Actors \ {a} : ~At(b, "setState")
      <4>1. \A b \in Actors : ~RecordsRun(todo'[b])
        <5>1. ASSUME NEW b \in Actors \ {a}, RecordsRun(todo[b]) PROVE At(b, "setState")
          <6>1. IsSeq(todo[b]) /\ todo[b] # <<>> /\ todo[b][1].op = "setState"
            BY <1>1, <2>1, <5>1, ReportElements DEF RecordsRun, Continued, Sets, Shape
          <6>. QED BY <6>1, Tailed DEF At
        <5>. QED BY <1>6, <1>9, <3>2, <5>1
      <4>2. Stops'
        BY <1>2, <2>4, <4>1 DEF Stops
      <4>. QED BY <1>10, <1>11, <2>3, <4>2 DEF IInv
    <3>. QED BY <3>1, <3>2
  <2>5. CASE Arg(a) \in Ended
    <3>1. run = "dead"
      BY <1>1, <1>4, <2>1, <2>5 DEF Kernel, RecordsEnd, Sets
    <3>2. Stops'
      BY <1>2, <3>1 DEF Stops
    <3>. QED BY <1>10, <1>11, <2>3, <3>2 DEF IInv
  <2>. QED BY <2>1, <2>4, <2>5 DEF Ended
<1>. QED BY <1>13, <1>14

\* A command that has run was the oldest, and the others are still queued.
LEMMA CommandTaken ==
  ASSUME Shape, queue # <<>>, queue' = Tail(queue)
  PROVE  /\ IsSeq(queue') /\ 1 \in DOMAIN queue /\ Head(queue) = queue[1]
         /\ \A k \in DOMAIN queue' : k + 1 \in DOMAIN queue /\ queue'[k] = queue[k + 1]
         /\ \A j \in DOMAIN queue : j # 1 => j - 1 \in DOMAIN queue' /\ queue'[j - 1] = queue[j]
<1>1. IsSeq(queue)
  BY DEF Shape
<1>2. /\ IsSeq(queue') /\ Len(queue') = Len(queue) - 1 /\ Len(queue) > 0
      /\ Head(queue) = queue[1]
      /\ \A k \in 1 .. Len(queue) - 1 : queue'[k] = queue[k + 1]
  BY <1>1, Tailed
<1>3. /\ Len(queue) \in Nat /\ DOMAIN queue = 1 .. Len(queue)
      /\ DOMAIN queue' = 1 .. Len(queue) - 1
  BY <1>1, <1>2 DEF IsSeq
<1>4. ASSUME NEW j \in DOMAIN queue, j # 1
      PROVE  j - 1 \in DOMAIN queue' /\ queue'[j - 1] = queue[j]
  <2>1. j - 1 \in 1 .. Len(queue) - 1 /\ j = (j - 1) + 1
    BY <1>2, <1>3, <1>4
  <2>. QED BY <1>2, <1>3, <2>1
<1>. QED BY <1>2, <1>3, <1>4

LEMMA RunCommandStep == ASSUME IInv, RunCommand PROVE IInv'
<1>1. Shape /\ Kernel /\ Requests /\ Stops
  BY DEF IInv
<1>2. /\ queue # <<>> /\ queue' = Tail(queue)
      /\ UNCHANGED <<known, state, callbacks, todo, done, overtaken>>
  BY DEF RunCommand, threadVars
<1>3. PICK c : c = Head(queue)
  OBVIOUS
<1>4. /\ IsSeq(queue') /\ 1 \in DOMAIN queue /\ c = queue[1]
      /\ \A k \in DOMAIN queue' : k + 1 \in DOMAIN queue /\ queue'[k] = queue[k + 1]
      /\ \A j \in DOMAIN queue : j # 1 => j - 1 \in DOMAIN queue' /\ queue'[j - 1] = queue[j]
  BY <1>1, <1>2, <1>3, CommandTaken
<1>5. IsCmd(c) /\ Ptrace(c)
  BY <1>1, <1>3, <1>4 DEF Shape, RunCommand
<1>6. stops' = stops /\ pending' \subseteq Kills
  <2>1. stops' = stops /\ (pending' = pending \/ (c.op = "KILL" /\ pending' = pending \cup {c.arg}))
    BY <1>5 DEF Ptrace, Continue, SingleStepRequest, Kill, SetRip, SetDr6Request, Poke, kernelVars
  <2>. QED BY <1>1, <1>5, <2>1 DEF IsCmd, Shape
<1>7. Shape'
  <2>1. \A k \in DOMAIN queue' : IsCmd(queue'[k])
    BY <1>1, <1>4 DEF Shape
  <2>. QED BY <1>1, <1>2, <1>4, <1>6, <2>1 DEF Shape, IsCmd
\* The requests that do not end a stop.
<1>8. CASE run' = run /\ event' = event
  <2>1. premature => premature'
    BY <1>5 DEF Ptrace
  <2>2. Kernel'
    BY <1>1, <1>2, <1>8 DEF Kernel
  <2>3. Requests'
    <3>1. \A k \in DOMAIN queue' : Valid(queue[k])' => Valid(queue[k + 1])
      BY <1>4, <1>6 DEF Valid
    <3>. QED BY <1>1, <1>2, <1>4, <1>8, <2>1, <3>1 DEF Requests, Handling, RunRecorded
  <2>4. Stops'
    <3>1. CASE run = "stopped"
      <4>1. c.op # "CONT"
        BY <1>5, <1>8, <3>1 DEF Ptrace, Continue, Accepts
      <4>2. Unrecorded => Unrecorded'
        BY <1>2, <1>4, <1>8, <4>1 DEF Unrecorded
      <4>. QED BY <1>1, <1>2, <1>8, <4>2 DEF Stops
    <3>2. CASE run # "stopped"
      BY <1>8, <3>2 DEF Stops
    <3>. QED BY <3>1, <3>2
  <2>. QED BY <1>7, <2>2, <2>3, <2>4 DEF IInv
\* A request that does.
<1>9. CASE ~(run' = run /\ event' = event)
  <2>1. /\ run = "stopped" /\ c.op \in {"CONT", "STEP"}
        /\ premature' = (premature \/ c.early \/ c.stop # stops)
        /\ \/ run' = "running" /\ event' = "none" /\ c.op = "CONT"
           \/ run' = "stepping" /\ event' = "none"
           \/ run' = "dead" /\ event' = "TERMINATED"
    BY <1>5, <1>9 DEF Ptrace, Continue, SingleStepRequest, Kill, SetRip, SetDr6Request, Poke,
       kernelVars, Accepts, EndsUnseenStop
  <2>2. Kernel'
    BY <1>1, <1>2, <2>1 DEF Kernel, Ended, NoStop
  <2>3. Stops'
    BY <2>1 DEF Stops
  <2>4. Requests'
    <3>. SUFFICES ASSUME ~premature' PROVE Requests'
      BY DEF Requests
    <3>1. Valid(c) /\ ~premature
      BY <2>1 DEF Valid
    <3>2. ~Handling /\ (c.op = "CONT" => RunRecorded)
      BY <1>1, <1>4, <2>1, <3>1 DEF Requests
    <3>. QED BY <1>2, <2>1, <3>2 DEF Requests, Handling, RunRecorded
  <2>. QED BY <1>7, <2>2, <2>3, <2>4 DEF IInv
<1>. QED BY <1>8, <1>9

LEMMA ThreadStepStep == ASSUME IInv, Thread PROVE IInv'
<1>1. Shape /\ Kernel /\ Requests /\ Stops
  BY DEF IInv
<1>2. /\ ThreadStep
      /\ UNCHANGED <<known, state, queue, callbacks, todo, done, overtaken, premature>>
  BY DEF Thread, threadVars, historyVars
<1>3. pending' \subseteq Kills
  BY <1>1, <1>2 DEF ThreadStep, StepDone, Int3, SignalTaken, Spontaneous, Exits, ReportsContinued,
                    Shape
<1>4. ASSUME NEW why, StopFor(why), why \notin Ended \cup NoStop PROVE IInv'
  <2>1. /\ run \in {"running", "stepping"} /\ run' = "stopped" /\ event' = why
        /\ stops' = stops + 1
    BY <1>4 DEF StopFor, Executing
  <2>2. Shape'
    <3>1. \A k \in DOMAIN queue' : IsCmd(queue[k])'
      BY <1>1, <1>2, <2>1 DEF Shape, IsCmd
    <3>. QED BY <1>1, <1>2, <1>3, <2>1, <3>1 DEF Shape
  <2>3. Kernel'
    BY <1>1, <1>2, <1>4, <2>1 DEF Kernel
  <2>4. Requests'
    <3>1. \A k \in DOMAIN queue' : ~Valid(queue[k])'
      BY <1>1, <1>2, <2>1 DEF Shape, IsCmd, Valid
    <3>2. premature \/ ~Handling
      BY <1>1, <2>1 DEF Requests
    <3>. QED BY <1>2, <2>1, <3>1, <3>2 DEF Requests, Handling
  <2>5. Stops'
    BY <1>4, <2>1 DEF Stops, Unrecorded
  <2>. QED BY <2>2, <2>3, <2>4, <2>5 DEF IInv
<1>5. CASE Exits
  <2>1. run' = "dead" /\ event' = "EXITED" /\ stops' = stops
    BY <1>5 DEF Exits
  <2>2. Shape'
    BY <1>1, <1>2, <1>3, <2>1 DEF Shape, IsCmd
  <2>3. Kernel' /\ Requests' /\ Stops'
    BY <2>1 DEF Kernel, Requests, Stops
  <2>. QED BY <2>2, <2>3 DEF IInv
<1>6. CASE StepDone \/ Int3
  BY <1>4, <1>6 DEF StepDone, Int3, Ended, NoStop
<1>7. CASE SignalTaken
  BY <1>1, <1>4, <1>7 DEF SignalTaken, Ended, NoStop, Shape, Kills
<1>8. CASE Spontaneous
  <2>1. \E why \in {"watch", "clone", "SEGV", "STOP", "USR"} : StopFor(why)
    BY <1>8 DEF Spontaneous
  <2>. QED BY <1>4, <2>1 DEF Ended, NoStop
<1>9. CASE ReportsContinued
  <2>1. event = "none" /\ event' = "CONT" /\ UNCHANGED <<run, pending, stops>>
    BY <1>9 DEF ReportsContinued
  <2>2. Shape'
    BY <1>1, <1>2, <2>1 DEF Shape, IsCmd
  <2>3. Kernel' /\ Requests' /\ Stops'
    BY <1>1, <1>2, <2>1 DEF Kernel, Requests, Stops, Valid, RunRecorded, Handling, Unrecorded, NoStop,
                            Ended
  <2>. QED BY <2>2, <2>3 DEF IInv
<1>. QED BY <1>2, <1>5, <1>6, <1>7, <1>8, <1>9 DEF ThreadStep

\* A pair of instructions, the second recording a state other than CONTINUED.
LEMMA RecordsPair ==
  ASSUME NEW st \in {"STOPPED", "EXITED", "TERMINATED"}, NEW t,
         t = <<Op("readRegisters"), Instr("setState", st)>>
  PROVE  /\ IsSeq(t) /\ Paired(t) /\ Len(t) = 2 /\ DOMAIN t = 1 .. 2
         /\ t[1].op = "readRegisters" /\ t[2].op = "setState" /\ t[2].arg = st
<1>1. /\ Len(t) = 2 /\ t[1].op = "readRegisters" /\ t[2].op = "setState" /\ t[2].arg = st
  BY DEF Op, Instr
<1>2. t \in Seq({Op("readRegisters"), Instr("setState", st)})
  OBVIOUS
<1>3. IsSeq(t) /\ DOMAIN t = 1 .. 2
  BY <1>1, <1>2, AnySeq DEF IsSeq
<1>4. \A k \in 1 .. 2 : k = 1 \/ k = 2
  OBVIOUS
<1>5. Paired(t)
  BY <1>1, <1>3, <1>4 DEF Paired, Sets, Continued
<1>. QED BY <1>1, <1>3, <1>5

LEMMA StoppedThen ==
  ASSUME NEW x, Methodical(x), Tidy(x), NEW t, t = Stopped \o x
  PROVE  /\ IsSeq(t) /\ Paired(t) /\ Tidy(t)
         /\ RecordsStop(t) /\ ~RecordsEnd(t) /\ ~RecordsRun(t)
<1>1. PICK s : s = Stopped
  OBVIOUS
<1>2. /\ IsSeq(s) /\ Paired(s) /\ Len(s) = 2 /\ DOMAIN s = 1 .. 2
      /\ s[1].op = "readRegisters" /\ s[2].op = "setState" /\ s[2].arg = "STOPPED"
  <2>1. s = <<Op("readRegisters"), Instr("setState", "STOPPED")>>
    BY <1>1 DEF Stopped
  <2>2. "STOPPED" \in {"STOPPED", "EXITED", "TERMINATED"}
    OBVIOUS
  <2>. QED BY <2>1, <2>2, RecordsPair
<1>3. IsSeq(x) /\ Paired(x) /\ (x = <<>> \/ ~Continued(x, 1)) /\ Len(x) \in Nat /\ DOMAIN x = 1 .. Len(x)
  BY DEF Methodical, Opens, Continued, IsSeq
<1>4. /\ IsSeq(t) /\ Len(t) = Len(s) + Len(x) /\ DOMAIN t = 1 .. Len(s) + Len(x)
      /\ \A k \in 1 .. Len(s) : t[k] = s[k]
      /\ \A k \in Len(s) + 1 .. Len(s) + Len(x) : t[k] = x[k - Len(s)]
  <2>1. t = s \o x
    BY <1>1
  <2>2. /\ IsSeq(s \o x) /\ Len(s \o x) = Len(s) + Len(x)
        /\ DOMAIN (s \o x) = 1 .. Len(s) + Len(x)
        /\ \A k \in 1 .. Len(s) : (s \o x)[k] = s[k]
        /\ \A k \in Len(s) + 1 .. Len(s) + Len(x) : (s \o x)[k] = x[k - Len(s)]
    BY <1>2, <1>3, Concat
  <2>. QED BY <2>1, <2>2
<1>5. Paired(t)
  BY <1>1, <1>2, <1>3, PairedConcat
<1>6. /\ 1 \in DOMAIN t /\ 2 \in DOMAIN t /\ t # <<>>
      /\ t[1].op = "readRegisters" /\ t[2].op = "setState" /\ t[2].arg = "STOPPED"
  <2>1. 1 \in DOMAIN t /\ 2 \in DOMAIN t /\ t[1] = s[1] /\ t[2] = s[2]
    BY <1>2, <1>3, <1>4
  <2>. QED BY <1>2, <2>1
<1>7. \A k \in DOMAIN t : k = 1 \/ k = 2 \/ (k > 2 /\ k - 2 \in DOMAIN x /\ t[k] = x[k - 2])
  BY <1>2, <1>3, <1>4
<1>8. RecordsStop(t) /\ ~RecordsRun(t)
  BY <1>5, <1>6, ReportElements DEF RecordsStop, RecordsRun, Continued, Sets
<1>9. ~RecordsEnd(t)
  <2>1. ASSUME NEW k \in DOMAIN t, Sets(t, k), t[k].arg \in Ended PROVE FALSE
    BY <1>6, <1>7, <2>1 DEF Methodical, OnlyResumes, Sets, Continued, Ended
  <2>. QED BY <2>1 DEF RecordsEnd
<1>10. Tidy(t)
  <2>. SUFFICES ASSUME NEW k \in DOMAIN t
                PROVE  /\ t[k].op \in ListenerOps
                       /\ t[k].op = "trap" => k = Len(t) /\ (\A j \in DOMAIN t : t[j].op # "cont")
                       /\ t[k].op = "cont" =>
                            \A j \in DOMAIN t :
                              j > k => t[j].op \notin {"cont", "trap"} /\ (Sets(t, j) => Continued(t, j))
                       /\ Sets(t, k) => t[k].arg \in {"STOPPED", "CONTINUED", "EXITED", "TERMINATED"}
    BY DEF Tidy
  <2>1. CASE k \in {1, 2}
    BY <1>6, <2>1 DEF ListenerOps, Sets
  <2>2. CASE k \notin {1, 2}
    <3>1. PICK i \in DOMAIN x : i = k - 2 /\ t[k] = x[i] /\ k > 2
      BY <1>7, <2>2
    <3>2. x[i].op = "trap" => k = Len(t)
      BY <1>2, <1>3, <1>4, <3>1 DEF Tidy
    <3>3. x[i].op = "trap" => \A j \in DOMAIN t : t[j].op # "cont"
      BY <1>6, <1>7, <3>1 DEF Tidy
    <3>4. x[i].op = "cont" => \A j \in DOMAIN t :
            j > k => t[j].op \notin {"cont", "trap"} /\ (Sets(t, j) => Continued(t, j))
      <4>. SUFFICES ASSUME x[i].op = "cont", NEW j \in DOMAIN t, j > k
                    PROVE  t[j].op \notin {"cont", "trap"} /\ (Sets(t, j) => Continued(t, j))
        OBVIOUS
      <4>1. PICK m \in DOMAIN x : m = j - 2 /\ t[j] = x[m]
        BY <1>4, <1>7, <3>1
      <4>2. m > i
        BY <1>4, <3>1, <4>1
      <4>. QED BY <4>1, <4>2 DEF Tidy, Sets, Continued
    <3>. QED BY <3>1, <3>2, <3>3, <3>4 DEF Tidy, Sets
  <2>. QED BY <2>1, <2>2
<1>. QED BY <1>4, <1>5, <1>8, <1>9, <1>10

LEMMA StoppedIsSeq == IsSeq(Stopped)
BY RecordsPair DEF Stopped

LEMMA ConcatAssociates ==
  ASSUME NEW s, NEW t, NEW u, IsSeq(s), IsSeq(t), IsSeq(u)
  PROVE  (s \o t) \o u = s \o (t \o u)
<1> DEFINE S == {s[k] : k \in 1 .. Len(s)} \cup {t[k] : k \in 1 .. Len(t)}
                  \cup {u[k] : k \in 1 .. Len(u)}
<1>1. s \in Seq(S) /\ t \in Seq(S) /\ u \in Seq(S)
  <2>1. ASSUME NEW v \in {s, t, u} PROVE v \in Seq(S)
    <3>1. v \in Seq({v[k] : k \in 1 .. Len(v)})
      BY IsSeqOfElements
    <3>2. {v[k] : k \in 1 .. Len(v)} \subseteq S
      OBVIOUS
    <3>. QED BY <3>1, <3>2, SeqMonotonic
  <2>. QED BY <2>1
<1>. HIDE DEF S
<1>. QED BY <1>1, ConcatAssociative

LEMMA HandleEventShape ==
  ASSUME NEW ev, NEW bt \in Backtrace, NEW t, t = HandleEvent(ev, bt)
  PROVE  /\ IsSeq(t) /\ Tidy(t)
         /\ ev = "CONT" => t = Report
         /\ ev # "CONT" => Paired(t) /\ ~RecordsRun(t)
         /\ ev \notin Ended \cup {"CONT"} => RecordsStop(t)
         /\ ev \notin Ended => ~RecordsEnd(t)
<1>1. CASE ev \in Ended
  <2>1. t = <<Op("readRegisters"), Instr("setState", ev)>>
    BY <1>1 DEF HandleEvent, Ended
  <2>2. /\ IsSeq(t) /\ Paired(t) /\ Len(t) = 2 /\ DOMAIN t = 1 .. 2
        /\ t[1].op = "readRegisters" /\ t[2].op = "setState" /\ t[2].arg = ev
    BY <1>1, <2>1, RecordsPair DEF Ended
  <2>3. \A k \in DOMAIN t : k = 1 \/ k = 2
    BY <2>2
  <2>4. Tidy(t)
    BY <1>1, <2>2, <2>3 DEF Tidy, ListenerOps, Sets, Ended
  <2>5. ~RecordsRun(t)
    BY <2>2, ReportElements DEF RecordsRun, Continued, Sets
  <2>. QED BY <1>1, <2>2, <2>4, <2>5 DEF Ended
<1>2. CASE ev \notin Ended \cup {"CONT"}
  <2>1. \E x : Methodical(x) /\ Tidy(x) /\ t = Stopped \o x
    <3>1. ASSUME NEW x, Methodical(x), Aside(x) PROVE Tidy(x)
      BY <3>1 DEF Aside, Tidy, Sets
    <3>2. Methodical(bt) /\ Aside(bt)
      BY BacktraceAside
    <3>3. Methodical(bt \o Unhandled) /\ Aside(bt \o Unhandled)
      BY <3>2, LooksAside, MethodicalConcat, AsideConcat DEF Methodical
    <3>4. Methodical(<<Instr("trap", ev)>>) /\ Tidy(<<Instr("trap", ev)>>)
      <4>1. Methodical(<<Instr("trap", ev)>>)
        BY MethodicalOne DEF Instr
      <4>2. PICK x : x = <<Instr("trap", ev)>>
        OBVIOUS
      <4>3. Len(x) = 1 /\ x[1].op = "trap" /\ DOMAIN x = 1 .. Len(x)
        BY <4>1, <4>2 DEF Instr, Methodical, IsSeq
      <4>4. \A k \in DOMAIN x : k = 1
        BY <4>3
      <4>5. Tidy(x)
        BY <4>3, <4>4 DEF Tidy, ListenerOps, Sets
      <4>. QED BY <4>1, <4>2, <4>5
    <3>5. Methodical(Resume(ev)) /\ Tidy(Resume(ev))
      <4>1. PICK x : x = Resume(ev)
        OBVIOUS
      <4>2. /\ IsSeq(x) /\ Len(x) = 3 /\ DOMAIN x = 1 .. Len(x) /\ x[1].op = "writeRegisters" /\ x[2].op = "cont"
            /\ x[3].op = "setState" /\ x[3].arg = "CONTINUED"
        BY <4>1, ResumeElements DEF IsSeq
      <4>3. \A k \in DOMAIN x : k = 1 \/ k = 2 \/ k = 3
        BY <4>2
      <4>4. Tidy(x)
        BY <4>2, <4>3 DEF Tidy, ListenerOps, Sets, Continued
      <4>. QED BY <4>1, <4>4, MethodicalMethods
    <3>6. \/ t = Stopped \o <<Instr("trap", ev)>>
          \/ t = (Stopped \o bt) \o Unhandled
          \/ t = Stopped \o Unhandled
          \/ t = Stopped \o Resume(ev)
      BY <1>2 DEF HandleEvent, Ended
    <3>7. (Stopped \o bt) \o Unhandled = Stopped \o (bt \o Unhandled)
      BY <3>2, LooksAside, ConcatAssociates, StoppedIsSeq DEF Methodical
    <3>. QED BY <3>1, <3>3, <3>4, <3>5, <3>6, <3>7, LooksAside
  <2>. QED BY <1>2, <2>1, StoppedThen
<1>3. CASE ev = "CONT"
  <2>1. t = Report
    BY <1>3 DEF HandleEvent, Report
  <2>. QED BY <1>3, <2>1, ReportElements DEF Ended
<1>. QED BY <1>1, <1>2, <1>3

LEMMA NewThreadStep == ASSUME IInv, NewThread PROVE IInv'
<1>1. Shape /\ Kernel /\ Requests /\ Stops
  BY DEF IInv
<1>2. /\ ~known /\ known' = TRUE /\ callbacks' = Append(callbacks, "created")
      /\ event # "none" /\ event' = "none"
      /\ UNCHANGED <<run, pending, stops, state, queue, todo, done, overtaken, premature>>
  BY DEF NewThread, Collect, historyVars
<1>3. callbacks' \in Seq(Kinds)
  <2>1. "created" \in Kinds
    BY DEF Kinds
  <2>. QED BY <1>1, <1>2, <2>1 DEF Shape
<1>4. Shape'
  BY <1>1, <1>2, <1>3 DEF Shape, IsCmd
<1>5. (\A a \in Actors : todo[a] = <<>>) /\ state = "STOPPED"
  BY <1>1, <1>2 DEF Shape
<1>6. ~Handling
  BY <1>5 DEF Handling, HandlesStop, Actors
<1>7. Kernel'
  BY <1>1, <1>2 DEF Kernel, Ended, NoStop
<1>8. Requests'
  BY <1>1, <1>2, <1>6 DEF NoStop, Requests, Valid, Handling, RunRecorded
<1>9. Stops'
  BY <1>2, <1>5, ReportElements DEF Stops, RecordsRun
<1>. QED BY <1>4, <1>7, <1>8, <1>9 DEF IInv

LEMMA ThreadEventStep == ASSUME IInv, ThreadEvent PROVE IInv'
<1>1. Shape /\ Kernel /\ Requests /\ Stops /\ Listener \in Actors
  BY DEF IInv, Actors
<1>2. /\ todo[Listener] = <<>> /\ known /\ event # "none" /\ event' = "none"
      /\ overtaken' = (overtaken \/ (event = "CONT" /\ state = "STOPPED"))
      /\ UNCHANGED <<run, pending, stops, known, state, queue, callbacks, done, premature>>
  BY DEF ThreadEvent, Collect, threadVars
<1>3. PICK bt \in Backtrace : todo' = [todo EXCEPT ![Listener] = HandleEvent(event, bt)]
  BY DEF ThreadEvent
<1>4. PICK t : t = HandleEvent(event, bt)
  OBVIOUS
<1>5. /\ IsSeq(t) /\ Tidy(t)
      /\ event = "CONT" => t = Report
      /\ event # "CONT" => Paired(t) /\ ~RecordsRun(t)
      /\ event \notin Ended \cup {"CONT"} => RecordsStop(t)
      /\ event \notin Ended => ~RecordsEnd(t)
  BY <1>4, HandleEventShape
<1>6. /\ todo' = [b \in Actors |-> todo'[b]]
      /\ todo'[Listener] = t
      /\ \A b \in Actors \ {Listener} : todo'[b] = todo[b]
  <2>1. todo = [b \in Actors |-> todo[b]]
    BY <1>1 DEF Shape
  <2>. QED BY <1>1, <1>3, <1>4, <2>1
<1>7. Shape'
  <2>1. \A b \in Actors : /\ IsSeq(todo'[b])
                          /\ Paired(todo'[b]) \/ (b = Listener /\ todo'[b] = Report)
                          /\ b # Listener => OnlyResumes(todo'[b])
    BY <1>1, <1>5, <1>6 DEF Shape
  <2>2. \A u \in Users : u \notin done' => todo'[u] = <<>>
    BY <1>1, <1>2, <1>6, ActorsAssumption DEF Shape, Actors
  <2>. QED BY <1>1, <1>2, <1>5, <1>6, <2>1, <2>2 DEF Shape, IsCmd
<1>8. Kernel'
  BY <1>1, <1>2, <1>5, <1>6 DEF Kernel, Ended, NoStop
<1>9. ~RecordsRun(<<>>)
  BY ReportElements DEF RecordsRun
<1>10. \A b \in Actors : RecordsRun(todo[b]) => RecordsRun(todo'[b])
  BY <1>2, <1>6, <1>9
<1>11. CASE event \notin NoStop
  <2>1. run \in {"stopped", "dead"} /\ (event \in Ended => run = "dead")
    BY <1>1, <1>11 DEF Kernel
  <2>2. Requests'
    BY <1>1, <1>2, <1>11, <2>1 DEF Requests, Valid, NoStop
  <2>3. run = "stopped" => Unrecorded'
    BY <1>5, <1>6, <1>11, <2>1 DEF Unrecorded, NoStop
  <2>4. Stops'
    BY <1>2, <2>3 DEF Stops
  <2>. QED BY <1>7, <1>8, <2>2, <2>4 DEF IInv
\* A report says nothing new but of a thread recorded as STOPPED.
<1>12. CASE event \in NoStop
  <2>1. event = "CONT" /\ t = Report
    BY <1>2, <1>5, <1>12 DEF NoStop
  <2>2. ~HandlesStop(todo'[Listener])
    BY <1>6, <2>1, ReportElements
  <2>3. Requests'
    BY <1>1, <1>2, <1>10, <2>2 DEF Requests, Valid, Handling, RunRecorded, NoStop
  <2>4. Unrecorded => Unrecorded'
    BY <1>2, <1>12 DEF Unrecorded, RecordsStop
  <2>5. Stops'
    <3>. SUFFICES ASSUME ~overtaken', run = "stopped" PROVE Unrecorded'
      BY <1>2 DEF Stops
    <3>. QED BY <1>1, <1>2, <2>1, <2>4 DEF Stops
  <2>. QED BY <1>7, <1>8, <2>3, <2>5 DEF IInv
<1>. QED BY <1>11, <1>12

\* A callback, or a user, begins a script.
LEMMA BeginStep ==
  ASSUME IInv, NEW a \in Actors \ {Listener}, todo[a] = <<>>, known,
         NEW s, Methodical(s), todo' = [todo EXCEPT ![a] = s],
         callbacks' \in Seq(Kinds), done' \in {done, done \cup {a}}, a \in Users => a \in done',
         UNCHANGED <<run, event, pending, stops, known, state, queue, overtaken, premature>>
  PROVE  IInv'
<1>1. Shape /\ Kernel /\ Requests /\ Stops /\ Listener \in Actors
  BY DEF IInv, Actors
<1>2. /\ todo' = [b \in Actors |-> todo'[b]]
      /\ todo'[a] = s
      /\ \A b \in Actors \ {a} : todo'[b] = todo[b]
  <2>1. todo = [b \in Actors |-> todo[b]]
    BY <1>1 DEF Shape
  <2>. QED BY <2>1
<1>3. todo'[Listener] = todo[Listener]
  BY <1>1, <1>2
<1>4. Shape'
  <2>1. \A b \in Actors : /\ IsSeq(todo'[b])
                          /\ Paired(todo'[b]) \/ (b = Listener /\ todo'[b] = Report)
                          /\ b # Listener => OnlyResumes(todo'[b])
    BY <1>1, <1>2 DEF Shape, Methodical
  <2>2. \A u \in Users : u \notin done' => todo'[u] = <<>>
    BY <1>1, <1>2 DEF Shape, Actors
  <2>. QED BY <1>1, <1>2, <1>3, <2>1, <2>2 DEF Shape, IsCmd
<1>5. ~RecordsRun(s) /\ ~RecordsRun(<<>>)
  BY ReportElements DEF RecordsRun, Methodical, Opens, Continued
<1>6. \A b \in Actors : RecordsRun(todo'[b]) <=> RecordsRun(todo[b])
  BY <1>2, <1>5
<1>7. Kernel'
  BY <1>1, <1>3 DEF Kernel
<1>8. Requests'
  BY <1>1, <1>3, <1>6 DEF Requests, Valid, Handling, RunRecorded
<1>9. Stops'
  BY <1>1, <1>3, <1>6 DEF Stops, Unrecorded
<1>. QED BY <1>4, <1>7, <1>8, <1>9 DEF IInv

LEMMA BeginCallbackStep == ASSUME IInv, MethodsOnly, BeginCallback PROVE IInv'
<1>1. /\ Shape /\ todo[Callback] = <<>> /\ callbacks # <<>> /\ callbacks' = Tail(callbacks)
      /\ UNCHANGED <<run, event, pending, stops, known, state, queue, done, overtaken, premature>>
  BY DEF IInv, BeginCallback, kernelVars, threadVars, historyVars
<1>2. callbacks \in Seq(Kinds) /\ known
  BY <1>1 DEF Shape
<1>3. Head(callbacks) \in Kinds /\ callbacks' \in Seq(Kinds)
  BY <1>1, <1>2, HeadTailProperties
<1>4. PICK s \in CallbackScripts[Head(callbacks)] : todo' = [todo EXCEPT ![Callback] = s]
  BY DEF BeginCallback
<1>5. Methodical(s)
  BY <1>3, <1>4 DEF MethodsOnly, Scripts
<1>6. Callback \in Actors \ {Listener} /\ Callback \notin Users
  BY ActorsAssumption DEF Actors
<1>. QED BY <1>1, <1>2, <1>3, <1>4, <1>5, <1>6, BeginStep

LEMMA BeginScriptStep ==
  ASSUME IInv, MethodsOnly, NEW u \in Users, BeginScript(u)
  PROVE  IInv'
<1>1. /\ Shape /\ known /\ u \notin done /\ done' = done \cup {u}
      /\ UNCHANGED <<run, event, pending, stops, known, state, queue, callbacks, overtaken, premature>>
  BY DEF IInv, BeginScript, kernelVars, threadVars, historyVars
<1>2. callbacks' \in Seq(Kinds) /\ todo[u] = <<>>
  BY <1>1 DEF Shape
<1>3. PICK s \in UserScripts : todo' = [todo EXCEPT ![u] = s]
  BY DEF BeginScript
<1>4. Methodical(s)
  <2>1. s \in Scripts
    BY <1>3 DEF Scripts
  <2>. QED BY <2>1 DEF MethodsOnly
<1>5. u \in Actors \ {Listener}
  BY ActorsAssumption DEF Actors
<1>. QED BY <1>1, <1>2, <1>3, <1>4, <1>5, BeginStep

\* The breakpoint's own instructions.
LEMMA BreakPointPlain ==
  ASSUME IInv, NEW a \in Actors, JumpBack(a) \/ SetBreak(a) \/ UnsetBreak(a)
  PROVE  IInv'
<1>1. Shape
  BY DEF IInv
<1>2. UNCHANGED <<stopVars, callbacks>> /\ callbacks' \in Seq(Kinds)
  <2>1. UNCHANGED <<stopVars, callbacks>>
    BY DEF JumpBack, SetBreak, UnsetBreak, stopVars, kernelVars, threadVars, historyVars
  <2>. QED BY <1>1, <2>1 DEF Shape
<1>3. \E op \in {"jumpBack", "setBreak", "unsetBreak"} : At(a, op)
  BY DEF JumpBack, SetBreak, UnsetBreak
<1>4. /\ a # Listener /\ todo[a] # <<>> /\ todo[a][1].op \notin {"cont", "setState"}
      /\ Paired(todo[a])
  BY <1>1, <1>3, NotListener, AtFirst, PairedUnless DEF ListenerOps
<1>5. ASSUME NEW n, Methodical(n), Goto(a, n),
             NEW cmds, Queues(cmds), \A c \in cmds : IsAside(c)
      PROVE  IInv'
  BY <1>2, <1>4, <1>5, Plain
<1>6. CASE JumpBack(a)
  <2>1. \E addr : Goto(a, Jump(addr)) /\ UNCHANGED queue
    BY <1>6 DEF JumpBack
  <2>. QED BY <1>1, <1>5, <2>1, QueueSame, MethodicalMethods
<1>7. CASE SetBreak(a) \/ UnsetBreak(a)
  <2>1. Goto(a, <<>>)
    BY <1>7 DEF SetBreak, UnsetBreak, Done
  <2>2. CASE UNCHANGED queue
    BY <1>1, <1>5, <2>1, <2>2, QueueSame, Empty
  <2>3. ASSUME NEW w, Send(<<Cmd(a, "POKE", w)>>) PROVE IInv'
    <3>1. Queues({Cmd(a, "POKE", w)}) /\ IsAside(Cmd(a, "POKE", w))
      BY <1>1, <2>3, QueueSent, CmdsAside
    <3>. QED BY <1>5, <2>1, <3>1, Empty
  <2>. QED BY <1>7, <2>2, <2>3 DEF SetBreak, UnsetBreak
<1>. QED BY <1>6, <1>7

-----------------------------------------------------------------------------
(* The theorems.                                                           *)

LEMMA InitIInv == Init => IInv
<1>. SUFFICES ASSUME Init PROVE IInv
  OBVIOUS
<1>1. /\ run = "stopped" /\ event = "start" /\ pending = {} /\ stops = 1
      /\ known = FALSE /\ state = "STOPPED" /\ queue = <<>> /\ callbacks = <<>>
      /\ todo = [a \in Actors |-> <<>>] /\ Listener \in Actors
  BY DEF Init, ThreadInit, KernelInit, Actors
<1>2. Shape
  <2>1. Tidy(<<>>)
    BY DEF Tidy
  <2>2. \A a \in Actors : todo[a] = <<>>
    BY <1>1
  <2>3. queue = <<>> => \A k \in DOMAIN queue : IsCmd(queue[k])
    OBVIOUS
  <2>4. todo = [a \in Actors |-> todo[a]]
    BY <1>1
  <2>5. callbacks \in Seq(Kinds)
    BY <1>1
  <2>6. \A u \in Users : todo[u] = <<>>
    BY <2>2 DEF Actors
  <2>. QED BY <1>1, <2>1, <2>2, <2>3, <2>4, <2>5, <2>6, Empty DEF Shape, Methodical
<1>3. Kernel /\ Requests /\ Stops
  BY <1>1, ReportElements
     DEF Kernel, Requests, Stops, Ended, RecordsEnd, Handling, HandlesStop, RecordsRun
<1>. QED BY <1>2, <1>3 DEF IInv

LEMMA NextIInv == ASSUME MethodsOnly, IInv, [Next]_allVars PROVE IInv'
<1>1. CASE UNCHANGED allVars
  BY <1>1, Stutter DEF allVars, vars, stopVars, kernelVars, threadVars, historyVars
<1>2. ASSUME NEW a \in Actors, Advance(a) PROVE IInv'
  <2>1. CASE Synchronise(a)
    BY <2>1, SynchronisePlain, SetStateStep, WaitsPlain DEF Synchronise
  <2>2. CASE Registers(a)
    BY <2>2, RegistersPlain, ReportReads
  <2>3. CASE Control(a)
    BY <2>3, PushContStep, PushStepStep, ControlPlain DEF Control
  <2>4. CASE Handle(a)
    BY <2>4, HandlePlain, TrapStep DEF Handle
  <2>. QED BY <1>2, <2>1, <2>2, <2>3, <2>4 DEF Advance
<1>3. CASE ThreadNext
  BY <1>2, <1>3, ThreadStepStep, RunCommandStep, NewThreadStep, ThreadEventStep,
     BeginCallbackStep, BeginScriptStep DEF ThreadNext
<1>4. CASE \E a \in Actors : JumpBack(a) \/ SetBreak(a) \/ UnsetBreak(a)
  BY <1>4, BreakPointPlain
<1>. QED BY <1>1, <1>3, <1>4 DEF Next

\* Nothing that a waiting actor executes records a state.
LEMMA QuietActors ==
  ASSUME IInv, Quiet
  PROVE  (\A a \in Actors : ~RecordsRun(todo[a])) /\ ~Unrecorded
<1>1. Shape /\ Listener \in Actors /\ event = "none" /\ queue = <<>>
  BY DEF IInv, Actors, Quiet
<1>2. ASSUME NEW a \in Actors
      PROVE  todo[a] = <<>> \/ \E op \in Waits : At(a, op)
  BY DEF Quiet, At
<1>3. ASSUME NEW a \in Actors PROVE ~RecordsRun(todo[a])
  BY <1>1, <1>2, AtFirst, ReportElements DEF RecordsRun, Continued, Sets, Waits
<1>4. todo[Listener] = <<>>
  BY <1>1, <1>2, NotListener DEF Waits, ListenerOps
<1>. QED BY <1>1, <1>3, <1>4 DEF Unrecorded, RecordsStop, NoStop

(* Once nothing is under way, a thread that is stopped is recorded as      *)
(* STOPPED, whatever the callbacks and the users called and however their  *)
(* requests met its stops, unless the stop was recorded inside someone     *)
(* else's resume.                                                          *)
THEOREM StopsAlwaysRecorded ==
  ASSUME MethodsOnly
  PROVE  Spec => []StopsRecorded
<1>1. Init => IInv
  BY InitIInv
<1>2. IInv /\ [Next]_allVars => IInv'
  BY NextIInv
<1>3. IInv => StopsRecorded
  BY QuietActors DEF StopsRecorded, IInv, Stops
<1>. QED BY <1>1, <1>2, <1>3, PTL DEF Spec

(* Once nothing is under way, a thread that runs is recorded as CONTINUED, *)
(* unless a request ended a stop that the listener had yet to collect or   *)
(* to handle.                                                              *)
THEOREM RunsAlwaysRecorded ==
  ASSUME MethodsOnly
  PROVE  Spec => []RunsRecorded
<1>1. Init => IInv
  BY InitIInv
<1>2. IInv /\ [Next]_allVars => IInv'
  BY NextIInv
<1>3. IInv => RunsRecorded
  BY QuietActors DEF RunsRecorded, IInv, Requests, RunRecorded
<1>. QED BY <1>1, <1>2, <1>3, PTL DEF Spec

-----------------------------------------------------------------------------
(* What the breakpoint puts back.                                          *)

Uses == Restoring(todo[Callback]) /\ \A u \in Users : Keeps(todo[u])

\* The writes that the Tracer has yet to make.
IsPoke(k) == queue[k].op = "POKE"
Written == \A k \in DOMAIN queue : ~IsPoke(k)
LastPoke(k) == IsPoke(k) /\ \A j \in DOMAIN queue : IsPoke(j) => j <= k

\* The step that the callback is to wait for, once all is written.
Leads(s) == \E j \in DOMAIN s : Steps(s, j) /\ NoSet(s, j)
Follows ==
  /\ todo[Callback] # <<>> /\ todo[Callback][1].op = "stepWait"
  /\ \E i \in DOMAIN queue : /\ queue[i].op = "STEP"
                             /\ \A j \in DOMAIN queue : IsPoke(j) => j < i

PutBack ==
  /\ Written => word = "insn"
  /\ \A k \in DOMAIN queue : LastPoke(k) => queue[k].arg = "insn"
  /\ Written \/ Leads(todo[Callback]) \/ Follows

Code == run = "dead" \/ (backup = "insn" /\ (isSet \/ PutBack))

BInv == Uses /\ Code

\* What actor a goes on with: the instructions of n, then those after the first of s.
LEMMA SplicedParts ==
  ASSUME NEW n, NEW s, IsSeq(n), IsSeq(s), s # <<>>, NEW t, t = n \o Tail(s)
  PROVE  /\ \A k \in DOMAIN t :
              \/ k \in DOMAIN n /\ t[k] = n[k]
              \/ /\ k > Len(n) /\ k - Len(n) + 1 \in DOMAIN s /\ k - Len(n) + 1 > 1
                 /\ t[k] = s[k - Len(n) + 1]
         /\ \A j \in DOMAIN s : j > 1 =>
              /\ Len(n) + j - 1 \in DOMAIN t /\ t[Len(n) + j - 1] = s[j]
         /\ Len(n) \in Nat /\ DOMAIN n = 1 .. Len(n) /\ DOMAIN s = 1 .. Len(s)
         /\ Len(s) \in Nat /\ DOMAIN t = 1 .. Len(t) /\ Len(t) \in Nat
<1>1. /\ IsSeq(t) /\ Len(t) = Len(n) + Len(s) - 1 /\ Len(s) > 0
      /\ \A k \in 1 .. Len(n) : t[k] = n[k]
      /\ \A k \in Len(n) + 1 .. Len(t) : t[k] = s[k - Len(n) + 1]
  <2>1. \A u : u = n \o Tail(s) =>
          /\ IsSeq(u) /\ Len(u) = Len(n) + Len(s) - 1 /\ Len(s) > 0
          /\ \A k \in 1 .. Len(n) : u[k] = n[k]
          /\ \A k \in Len(n) + 1 .. Len(u) : u[k] = s[k - Len(n) + 1]
    BY Spliced
  <2>. QED BY <2>1
<1>2. /\ Len(n) \in Nat /\ DOMAIN n = 1 .. Len(n) /\ DOMAIN s = 1 .. Len(s)
      /\ Len(s) \in Nat /\ DOMAIN t = 1 .. Len(t) /\ Len(t) \in Nat
  BY <1>1 DEF IsSeq
<1>3. ASSUME NEW k \in DOMAIN t
      PROVE  \/ k \in DOMAIN n /\ t[k] = n[k]
             \/ /\ k > Len(n) /\ k - Len(n) + 1 \in DOMAIN s /\ k - Len(n) + 1 > 1
                /\ t[k] = s[k - Len(n) + 1]
  BY <1>1, <1>2
<1>4. ASSUME NEW j \in DOMAIN s, j > 1
      PROVE  Len(n) + j - 1 \in DOMAIN t /\ t[Len(n) + j - 1] = s[j]
  BY <1>1, <1>2, <1>4
<1>. QED BY <1>2, <1>3, <1>4

LEMMA KeepsSpliced ==
  ASSUME NEW n, NEW s, IsSeq(n), IsSeq(s), s # <<>>, NEW t, t = n \o Tail(s),
         Apart(n), Keeps(s)
  PROVE  Keeps(t)
<1>1. \A k \in DOMAIN t :
        \/ k \in DOMAIN n /\ t[k] = n[k]
        \/ k - Len(n) + 1 \in DOMAIN s /\ t[k] = s[k - Len(n) + 1]
  BY SplicedParts
<1>. QED BY <1>1 DEF Keeps, Apart

\* Instructions that do not unset the breakpoint and do not step.
NoUnset(s) == \A k \in DOMAIN s : s[k].op \notin {"unsetBreak", "awaitStep"}

LEMMA RestoringSpliced ==
  ASSUME NEW n, NEW s, IsSeq(n), IsSeq(s), s # <<>>, NEW t, t = n \o Tail(s),
         NoUnset(n), Restoring(s)
  PROVE  /\ Restoring(t)
         /\ (Leads(s) /\ s[1].op # "step" /\ Apart(n)) => Leads(t)
         /\ (s[1].op = "unsetBreak" /\ n = <<>>) => Leads(t)
<1>1. /\ \A k \in DOMAIN t :
           \/ k \in DOMAIN n /\ t[k] = n[k]
           \/ /\ k > Len(n) /\ k - Len(n) + 1 \in DOMAIN s /\ k - Len(n) + 1 > 1
              /\ t[k] = s[k - Len(n) + 1]
      /\ \A j \in DOMAIN s : j > 1 =>
           /\ Len(n) + j - 1 \in DOMAIN t /\ t[Len(n) + j - 1] = s[j]
      /\ Len(n) \in Nat /\ DOMAIN n = 1 .. Len(n) /\ DOMAIN s = 1 .. Len(s)
      /\ Len(s) \in Nat /\ DOMAIN t = 1 .. Len(t) /\ Len(t) \in Nat
  BY SplicedParts
<1>2. ASSUME NEW j \in DOMAIN s, j > 1, Steps(s, j)
      PROVE  Len(n) + j - 1 \in DOMAIN t /\ Steps(t, Len(n) + j - 1)
  <2>1. /\ Len(n) + j - 1 \in DOMAIN t /\ t[Len(n) + j - 1] = s[j]
        /\ j + 1 \in DOMAIN s
    BY <1>1, <1>2 DEF Steps
  <2>2. PICK i \in DOMAIN s : i = j + 1 /\ i > 1
    BY <1>1, <1>2, <2>1
  <2>3. Len(n) + i - 1 \in DOMAIN t /\ t[Len(n) + i - 1] = s[i]
    BY <1>1, <2>2
  <2>4. Len(n) + i - 1 = (Len(n) + j - 1) + 1
    BY <1>1, <2>2
  <2>. QED BY <1>2, <2>1, <2>2, <2>3, <2>4 DEF Steps
<1>3. ASSUME NEW k \in DOMAIN t, t[k].op = "unsetBreak"
      PROVE  \E j \in DOMAIN t : /\ k < j /\ Steps(t, j)
                                 /\ \A i \in DOMAIN t : k < i /\ i <= j =>
                                      t[i].op \notin {"setBreak", "awaitStep"}
  <2>1. PICK m \in DOMAIN s : /\ m = k - Len(n) + 1 /\ m > 1 /\ t[k] = s[m] /\ k > Len(n)
    BY <1>1, <1>3 DEF NoUnset
  <2>2. PICK j \in DOMAIN s : /\ m < j /\ Steps(s, j)
                              /\ \A i \in DOMAIN s : m < i /\ i <= j =>
                                   s[i].op \notin {"setBreak", "awaitStep"}
    BY <1>3, <2>1 DEF Restoring
  <2>3. Len(n) + j - 1 \in DOMAIN t /\ Steps(t, Len(n) + j - 1) /\ k < Len(n) + j - 1
    BY <1>1, <1>2, <2>1, <2>2
  <2>4. ASSUME NEW i \in DOMAIN t, k < i, i <= Len(n) + j - 1
        PROVE  t[i].op \notin {"setBreak", "awaitStep"}
    <3>1. i \notin DOMAIN n
      BY <1>1, <2>1, <2>4
    <3>2. i - Len(n) + 1 \in DOMAIN s /\ t[i] = s[i - Len(n) + 1]
      BY <1>1, <3>1
    <3>3. m < i - Len(n) + 1 /\ i - Len(n) + 1 <= j
      BY <1>1, <2>1, <2>4
    <3>. QED BY <2>2, <3>2, <3>3
  <2>. QED BY <2>3, <2>4
<1>4. ASSUME NEW k \in DOMAIN t, t[k].op = "awaitStep"
      PROVE  \A i \in DOMAIN t[k].arg : t[k].arg[i].op \notin {"unsetBreak", "awaitStep"}
  <2>1. k - Len(n) + 1 \in DOMAIN s /\ t[k] = s[k - Len(n) + 1]
    BY <1>1, <1>4 DEF NoUnset
  <2>. QED BY <1>4, <2>1 DEF Restoring
<1>5. ASSUME NEW j \in DOMAIN s, j > 1, Steps(s, j), Apart(n),
             \A i \in DOMAIN s : 1 < i /\ i <= j => s[i].op \notin {"setBreak", "awaitStep"}
      PROVE  Leads(t)
  <2>1. ASSUME NEW i \in DOMAIN t, i <= Len(n) + j - 1
        PROVE  t[i].op \notin {"setBreak", "awaitStep"}
    <3>1. CASE i \in DOMAIN n /\ t[i] = n[i]
      BY <1>5, <3>1 DEF Apart
    <3>2. CASE /\ i - Len(n) + 1 \in DOMAIN s /\ i - Len(n) + 1 > 1
               /\ t[i] = s[i - Len(n) + 1]
      <4>1. i - Len(n) + 1 <= j
        BY <1>1, <2>1
      <4>. QED BY <1>5, <3>2, <4>1
    <3>. QED BY <1>1, <3>1, <3>2
  <2>. QED BY <1>2, <1>5, <2>1 DEF Leads, NoSet
<1>6. ASSUME Leads(s), s[1].op # "step", Apart(n) PROVE Leads(t)
  <2>1. PICK j \in DOMAIN s : Steps(s, j) /\ NoSet(s, j)
    BY <1>6 DEF Leads
  <2>2. j > 1
    BY <1>1, <1>6, <2>1 DEF Steps
  <2>. QED BY <1>5, <1>6, <2>1, <2>2 DEF NoSet
<1>7. ASSUME s[1].op = "unsetBreak", n = <<>> PROVE Leads(t)
  <2>1. 1 \in DOMAIN s
    BY EmptySeqs
  <2>2. PICK j \in DOMAIN s : /\ 1 < j /\ Steps(s, j)
                              /\ \A i \in DOMAIN s : 1 < i /\ i <= j =>
                                   s[i].op \notin {"setBreak", "awaitStep"}
    BY <1>7, <2>1 DEF Restoring
  <2>3. Apart(n)
    BY <1>7 DEF Apart
  <2>. QED BY <1>1, <1>5, <2>2, <2>3
<1>. QED BY <1>3, <1>4, <1>6, <1>7 DEF Restoring

-----------------------------------------------------------------------------
(* How the invariant is kept.                                              *)

\* Commands that write nothing are added, or none.
Adds == \E cmds : Queues(cmds) /\ \A c \in cmds : c.op # "POKE"

LEMMA CodeKept ==
  ASSUME Shape, Code, Adds, UNCHANGED <<isSet, backup, word>>, run = "dead" => run' = "dead",
         Leads(todo[Callback]) => Leads(todo[Callback])' \/ Follows',
         Follows => UNCHANGED todo[Callback] \/ Written
  PROVE  Code'
<1>1. PICK cmds : Queues(cmds) /\ \A c \in cmds : c.op # "POKE"
  BY DEF Adds
<1>2. /\ \A k \in DOMAIN queue : k \in DOMAIN queue' /\ queue'[k] = queue[k]
      /\ \A k \in DOMAIN queue' : queue'[k].op = "POKE" => k \in DOMAIN queue
  BY <1>1 DEF Queues
<1>3. /\ Written <=> Written'
      /\ \A k \in DOMAIN queue' : LastPoke(k)' => k \in DOMAIN queue /\ LastPoke(k)
  BY <1>2 DEF Written, LastPoke, IsPoke
<1>4. ASSUME Follows PROVE Written' \/ Follows'
  <2>1. CASE Written
    BY <1>3, <2>1
  <2>2. CASE UNCHANGED todo[Callback]
    <3>1. PICK i \in DOMAIN queue : /\ queue[i].op = "STEP"
                                    /\ \A j \in DOMAIN queue : IsPoke(j) => j < i
      BY <1>4 DEF Follows
    <3>2. i \in DOMAIN queue' /\ queue'[i].op = "STEP"
      BY <1>2, <3>1
    <3>3. \A j \in DOMAIN queue' : queue'[j].op = "POKE" => j < i
      BY <1>2, <3>1 DEF IsPoke
    <3>. QED BY <1>4, <2>2, <3>2, <3>3 DEF Follows, IsPoke
  <2>. QED BY <1>4, <2>1, <2>2
<1>5. PutBack => PutBack'
  <2>1. \A k \in DOMAIN queue' : LastPoke(k)' => queue'[k].arg = queue[k].arg
    BY <1>2, <1>3
  <2>. QED BY <1>3, <1>4, <2>1 DEF PutBack
<1>. QED BY <1>5 DEF Code

\* An instruction of actor a is over, n is what it leaves to do.
LEMMA UsesKept ==
  ASSUME Shape, Uses, NEW a \in Actors, todo[a] # <<>>, NEW n, Methodical(n), Goto(a, n),
         n = <<>> \/ todo[a][1].op # "cont",
         a \in Users => Apart(n), a = Callback => NoUnset(n)
  PROVE  /\ Uses'
         /\ a # Callback => UNCHANGED todo[Callback]
         /\ a = Callback /\ todo[a][1].op # "step" /\ Apart(n)
              => (Leads(todo[Callback]) => Leads(todo[Callback])')
         /\ a = Callback /\ todo[a][1].op = "unsetBreak" /\ n = <<>> => Leads(todo[Callback])'
<1>1. /\ \A b \in Actors \ {a} : todo'[b] = todo[b]
      /\ todo'[a] = n \o Tail(todo[a])
  BY Goes
<1>2. IsSeq(todo[a]) /\ IsSeq(n) /\ Callback \in Actors /\ Callback \notin Users
  BY ActorsAssumption DEF Shape, Methodical, Actors
<1>3. a # Callback => UNCHANGED todo[Callback]
  BY <1>1, <1>2
<1>4. ASSUME NEW u \in Users PROVE Keeps(todo[u])'
  <2>1. CASE u = a
    <3>1. Keeps(todo[a]) /\ Apart(n)
      BY <2>1 DEF Uses
    <3>2. PICK t : t = n \o Tail(todo[a])
      OBVIOUS
    <3>3. Keeps(t) /\ todo'[u] = t
      BY <1>1, <1>2, <2>1, <3>1, <3>2, KeepsSpliced
    <3>. QED BY <3>3 DEF Keeps, Apart
  <2>2. CASE u # a
    <3>1. todo'[u] = todo[u] /\ Keeps(todo[u])
      BY <1>1, <2>2 DEF Uses, Actors
    <3>. QED BY <3>1 DEF Keeps, Apart
  <2>. QED BY <2>1, <2>2
<1>5. ASSUME a = Callback
      PROVE  /\ Restoring(todo'[a])
             /\ (Leads(todo[a]) /\ todo[a][1].op # "step" /\ Apart(n)) => Leads(todo'[a])
             /\ (todo[a][1].op = "unsetBreak" /\ n = <<>>) => Leads(todo'[a])
  <2>1. Restoring(todo[a]) /\ NoUnset(n)
    BY <1>5 DEF Uses
  <2>. QED BY <1>1, <1>2, <2>1, RestoringSpliced
<1>6. Restoring(todo'[Callback])
  BY <1>3, <1>5 DEF Uses
<1>7. Uses'
  BY <1>4, <1>6 DEF Uses
<1>. QED BY <1>3, <1>5, <1>7

LEMMA Moves ==
  ASSUME Shape, BInv, NEW a \in Actors, todo[a] # <<>>, NEW n, Methodical(n), Goto(a, n),
         n = <<>> \/ todo[a][1].op # "cont",
         a \in Users => Apart(n),
         a = Callback => /\ NoUnset(n) /\ todo[a][1].op # "step"
                         /\ todo[a][1].op = "awaitStep" \/ Apart(n)
                         /\ todo[a][1].op = "stepWait" => ~Queued("STEP"),
         Adds, UNCHANGED <<isSet, backup, word, run>>
  PROVE  BInv'
<1>1. /\ Uses'
      /\ a # Callback => UNCHANGED todo[Callback]
      /\ a = Callback /\ Apart(n) => (Leads(todo[Callback]) => Leads(todo[Callback])')
  BY UsesKept DEF BInv
<1>2. IsSeq(todo[a]) /\ 1 \in DOMAIN todo[a]
  BY EmptySeqs DEF Shape
<1>3. a = Callback /\ todo[a][1].op = "awaitStep" => ~Leads(todo[Callback])
  BY <1>2 DEF Leads, NoSet, Steps, IsSeq
<1>4. Leads(todo[Callback]) => Leads(todo[Callback])' \/ Follows'
  <2>1. a # Callback => (Leads(todo[Callback]) => Leads(todo[Callback])')
    BY <1>1 DEF Leads, Steps, NoSet
  <2>. QED BY <1>1, <1>3, <2>1
<1>5. Follows => UNCHANGED todo[Callback]
  BY <1>1 DEF Follows, Queued
<1>6. Code'
  BY <1>4, <1>5, CodeKept DEF BInv
<1>. QED BY <1>1, <1>6 DEF BInv

LEMMA ApartConcat ==
  ASSUME NEW s, NEW t, IsSeq(s), IsSeq(t), Apart(s), Apart(t)
  PROVE  Apart(s \o t)
<1>1. PICK c : c = s \o t
  OBVIOUS
<1>2. /\ DOMAIN c = 1 .. Len(s) + Len(t) /\ Len(s) \in Nat /\ Len(t) \in Nat
      /\ DOMAIN s = 1 .. Len(s) /\ DOMAIN t = 1 .. Len(t)
      /\ \A k \in 1 .. Len(s) : c[k] = s[k]
      /\ \A k \in Len(s) + 1 .. Len(s) + Len(t) : c[k] = t[k - Len(s)]
  BY <1>1, Concat DEF IsSeq
<1>. QED BY <1>1, <1>2 DEF Apart

LEMMA ApartOne ==
  /\ \A i : i.op \notin {"setBreak", "unsetBreak", "awaitStep"} => Apart(<<i>>)
  /\ Apart(<<>>)
  /\ \A s : Aside(s) => Apart(s)
  /\ \A s : Apart(s) => NoUnset(s)
BY DEF Apart, NoUnset, Aside, ListenerOps

\* What the methods are made of leaves the breakpoint alone.
LEMMA ApartMethods ==
  /\ \A sig : Apart(Resume(sig))
  /\ \A addr : Apart(Jump(addr))
  /\ Apart(<<Op("kill"), Op("awaitTerm")>>)
<1>1. ASSUME NEW op \in {"writeRegisters", "cont", "setState", "lock", "readRegisters", "getRegs",
                         "setRip", "unlock", "kill", "awaitTerm"}, NEW arg
      PROVE  /\ Apart(<<Instr(op, arg)>>) /\ IsSeq(<<Instr(op, arg)>>)
             /\ Apart(<<Op(op)>>) /\ IsSeq(<<Op(op)>>)
  <2>1. Apart(<<Instr(op, arg)>>) /\ Apart(<<Op(op)>>)
    BY ApartOne DEF Instr, Op
  <2>2. IsSeq(<<Instr(op, arg)>>) /\ IsSeq(<<Op(op)>>)
    BY DEF IsSeq
  <2>. QED BY <2>1, <2>2
<1>2. ASSUME NEW s, NEW t, IsSeq(s), IsSeq(t), Apart(s), Apart(t)
      PROVE  IsSeq(s \o t) /\ Apart(s \o t)
  BY <1>2, Concat, ApartConcat
<1>3. ASSUME NEW sig PROVE Apart(Resume(sig))
  <2>1. Resume(sig) = (<<Op("writeRegisters")>> \o <<Instr("cont", sig)>>)
                         \o <<Instr("setState", "CONTINUED")>>
    BY DEF Resume
  <2>. QED BY <1>1, <1>2, <2>1
<1>4. ASSUME NEW addr PROVE Apart(Jump(addr))
  <2>1. Jump(addr) = (((<<Op("lock")>> \o <<Op("readRegisters")>>) \o <<Op("getRegs")>>)
                        \o <<Instr("setRip", addr)>>) \o <<Op("unlock")>>
    BY DEF Jump
  <2>. QED BY <1>1, <1>2, <2>1
<1>5. Apart(<<Op("kill"), Op("awaitTerm")>>)
  BY <1>1, <1>2, OneAndOne
<1>. QED BY <1>3, <1>4, <1>5

LEMMA AddsSame == ASSUME Shape, UNCHANGED queue PROVE Adds
BY QueueSame DEF Adds

LEMMA AddsSent ==
  ASSUME Shape, NEW a, NEW op, op # "POKE", NEW arg, Send(<<Cmd(a, op, arg)>>)
  PROVE  Adds
<1>1. Cmd(a, op, arg).op # "POKE"
  BY DEF Cmd
<1>2. Queues({Cmd(a, op, arg)})
  BY QueueSent
<1>. QED BY <1>1, <1>2 DEF Adds

\* An instruction that leaves nothing behind it.
LEMMA DoneMoves ==
  ASSUME Shape, BInv, NEW a \in Actors, NEW op, op \notin {"step", "stepWait"}, At(a, op), Done(a),
         Adds, UNCHANGED <<isSet, backup, word, run>>
  PROVE  BInv'
<1>1. todo[a] # <<>> /\ todo[a][1].op = op
  BY AtFirst
<1>2. Apart(<<>>) /\ NoUnset(<<>>)
  BY ApartOne
<1>. QED BY <1>1, <1>2, Empty, Moves DEF Done

LEMMA SynchroniseBreak ==
  ASSUME Shape, MethodsOnly, BInv, NEW a \in Actors, Synchronise(a), UNCHANGED <<isSet, backup>>
  PROVE  BInv'
<1>1. UNCHANGED <<isSet, backup, word, run, queue>> /\ Adds
  BY AddsSame DEF Synchronise, LockState, UnlockState, SetState, AwaitSucceeds, AwaitBlocks,
                  AwaitTimesOut, kernelVars
<1>2. CASE LockState(a) \/ UnlockState(a) \/ SetState(a)
  BY <1>1, <1>2, DoneMoves DEF LockState, UnlockState, SetState
<1>3. ASSUME NEW op \in Waits, AwaitBlocks(a, op) PROVE BInv'
  BY <1>1, <1>3 DEF AwaitBlocks, BInv, Uses, Keeps, Restoring, Apart, Code, PutBack, Written,
                    LastPoke, IsPoke, Leads, Follows, Steps, NoSet
<1>4. ASSUME NEW op \in Waits, At(a, op),
             NEW n, Methodical(n), Goto(a, n), a \in Users => Apart(n),
             a = Callback => NoUnset(n) /\ (op = "awaitStep" \/ Apart(n))
      PROVE  BInv'
  <2>1. todo[a] # <<>> /\ todo[a][1].op = op
    BY <1>4, AtFirst
  <2>. QED BY <1>1, <1>4, <2>1, Moves DEF Waits
<1>5. /\ Methodical(<<Op("unlock")>>) /\ Methodical(<<Op("awaitDead")>>)
      /\ Apart(<<Op("unlock")>>) /\ Apart(<<Op("awaitDead")>>)
  BY MethodicalOne, ApartOne DEF Op, Instr
<1>6. ASSUME NEW op \in Waits, AwaitTimesOut(a, op) PROVE BInv'
  <2>1. At(a, op) /\ (Goto(a, <<Op("unlock")>>) \/ Goto(a, <<>>))
    BY <1>6 DEF AwaitTimesOut
  <2>2. Apart(<<>>) /\ NoUnset(<<>>) /\ NoUnset(<<Op("unlock")>>)
    BY <1>5, ApartOne
  <2>. QED BY <1>4, <1>5, <2>1, <2>2, Empty
<1>7. ASSUME NEW op \in Waits, AwaitSucceeds(a, op) PROVE BInv'
  <2>1. /\ At(a, op)
        /\ \/ Goto(a, Resume("TERM") \o <<Op("awaitDead")>>)
           \/ op = "awaitStep" /\ Goto(a, <<Op("unlock")>> \o Arg(a))
           \/ Goto(a, <<>>)
    BY <1>7 DEF AwaitSucceeds
  <2>2. Apart(<<>>) /\ NoUnset(<<>>)
    BY ApartOne
  <2>3. CASE Goto(a, Resume("TERM") \o <<Op("awaitDead")>>)
    <3>1. Methodical(Resume("TERM") \o <<Op("awaitDead")>>)
      BY <1>5, MethodicalMethods, MethodicalConcat
    <3>2. Apart(Resume("TERM") \o <<Op("awaitDead")>>)
      BY <1>5, ApartMethods, ApartConcat, MethodicalMethods DEF Methodical
    <3>. QED BY <1>4, <2>1, <2>3, <3>1, <3>2, ApartOne
  <2>4. CASE op = "awaitStep" /\ Goto(a, <<Op("unlock")>> \o Arg(a))
    <3>1. /\ todo[a] # <<>> /\ 1 \in DOMAIN todo[a] /\ todo[a][1].op = "awaitStep"
          /\ Arg(a) = todo[a][1].arg /\ a # Listener
      <4>1. a # Listener
        BY <2>1, <2>4, NotListener DEF ListenerOps
      <4>. QED BY <2>1, <2>4, <4>1, AtFirst DEF Arg
    <3>2. Methodical(Arg(a))
      <4>1. Arg(a) \in Rests
        BY <3>1, PairedUnless DEF Paired
      <4>. QED BY <4>1 DEF MethodsOnly
    <3>3. a \in Users => Apart(Arg(a))
      BY <3>1 DEF BInv, Uses, Keeps
    <3>4. a = Callback => NoUnset(Arg(a))
      BY <3>1 DEF BInv, Uses, Restoring, NoUnset
    <3>5. PICK n : n = <<Op("unlock")>> \o Arg(a)
      OBVIOUS
    <3>6. Methodical(n)
      BY <1>5, <3>2, <3>5, MethodicalConcat
    <3>7. a \in Users => Apart(n)
      BY <1>5, <3>2, <3>3, <3>5, ApartConcat DEF Methodical
    <3>8. a = Callback => NoUnset(n)
      <4>1. /\ DOMAIN n = 1 .. Len(<<Op("unlock")>>) + Len(Arg(a)) 
            /\ \A k \in 1 .. Len(<<Op("unlock")>>) : n[k] = <<Op("unlock")>>[k]
            /\ \A k \in Len(<<Op("unlock")>>) + 1 .. Len(<<Op("unlock")>>) + Len(Arg(a)) :
                 n[k] = Arg(a)[k - Len(<<Op("unlock")>>)]
            /\ DOMAIN Arg(a) = 1 .. Len(Arg(a)) /\ Len(Arg(a)) \in Nat
        BY <1>5, <3>2, <3>5, Concat DEF Methodical, IsSeq
      <4>2. Len(<<Op("unlock")>>) = 1
        OBVIOUS
      <4>3. \A k \in DOMAIN n : k = 1 \/ (k - 1 \in DOMAIN Arg(a) /\ n[k] = Arg(a)[k - 1])
        BY <4>1, <4>2
      <4>4. n[1].op = "unlock"
        BY <4>1, <4>2 DEF Op, Instr
      <4>. QED BY <3>4, <4>3, <4>4 DEF NoUnset
    <3>. QED BY <1>4, <2>1, <2>4, <3>5, <3>6, <3>7, <3>8
  <2>. QED BY <1>4, <2>1, <2>2, <2>3, <2>4, Empty
<1>. QED BY <1>2, <1>3, <1>6, <1>7 DEF Synchronise

LEMMA RegistersBreak ==
  ASSUME Shape, BInv, NEW a \in Actors, Registers(a), UNCHANGED <<isSet, backup>>
  PROVE  BInv'
<1>1. UNCHANGED <<isSet, backup, word, run>>
  BY DEF Registers, ReadRegisters, WriteRegisters, WriteRegistersWith, GetRegs, GetDr6,
         SetRipField, SetDr6Field, kernelVars
<1>2. Adds
  BY RegistersSend DEF Adds, IsOfCache, CacheOps
<1>3. \E op : op \notin {"step", "stepWait"} /\ At(a, op) /\ Done(a)
  BY DEF Registers, ReadRegisters, WriteRegisters, WriteRegistersWith, GetRegs, GetDr6,
         SetRipField, SetDr6Field
<1>. QED BY <1>1, <1>2, <1>3, DoneMoves

\* The last command of a queue to which one is added.
LEMMA SentLast ==
  ASSUME Shape, NEW c, Send(<<c>>)
  PROVE  /\ Len(queue) \in Nat /\ DOMAIN queue = 1 .. Len(queue)
         /\ DOMAIN queue' = 1 .. Len(queue) + 1
         /\ \A k \in DOMAIN queue : queue'[k] = queue[k]
         /\ queue'[Len(queue) + 1] = c
<1>1. PICK s : s = <<c>>
  OBVIOUS
<1>2. s \in Seq({c}) /\ Len(s) = 1 /\ s[1] = c
  BY <1>1
<1>3. IsSeq(s) /\ IsSeq(queue) /\ queue' = queue \o s
  BY <1>1, <1>2, AnySeq DEF Shape, Send
<1>4. /\ DOMAIN queue' = 1 .. Len(queue) + Len(s)
      /\ \A k \in 1 .. Len(queue) : queue'[k] = queue[k]
      /\ \A k \in Len(queue) + 1 .. Len(queue) + Len(s) : queue'[k] = s[k - Len(queue)]
  BY <1>3, Concat
<1>5. Len(queue) \in Nat /\ DOMAIN queue = 1 .. Len(queue)
  BY <1>3 DEF IsSeq
<1>. QED BY <1>2, <1>4, <1>5

\* The step is queued after whatever was to be written.
LEMMA PushStepBreak ==
  ASSUME Shape, BInv, NEW a \in Actors, PushStep(a), UNCHANGED <<isSet, backup>>
  PROVE  BInv'
<1>1. /\ UNCHANGED <<isSet, backup, word, run>> /\ Goto(a, <<>>) /\ At(a, "step")
      /\ Send(<<Cmd(a, "STEP", "none")>>)
  BY DEF PushStep, Done, kernelVars
<1>2. Adds
  BY <1>1, AddsSent
<1>3. /\ todo[a] # <<>> /\ todo[a][1].op = "step" /\ 1 \in DOMAIN todo[a]
      /\ Apart(<<>>) /\ NoUnset(<<>>) /\ IsSeq(todo[a])
  BY <1>1, AtFirst, ApartOne DEF Shape
<1>4. /\ Uses'
      /\ a # Callback => UNCHANGED todo[Callback]
  BY <1>1, <1>3, UsesKept, Empty DEF BInv
<1>5. CASE a # Callback
  <2>1. Leads(todo[Callback]) => Leads(todo[Callback])'
    BY <1>4, <1>5 DEF Leads, Steps, NoSet
  <2>2. Code'
    BY <1>1, <1>2, <1>4, <1>5, <2>1, CodeKept DEF BInv
  <2>. QED BY <1>4, <2>2 DEF BInv
<1>6. CASE a = Callback
  <2>1. todo'[a] = <<>> \o Tail(todo[a])
    BY <1>1, Goes
  <2>2. PICK s, t : s = todo[a] /\ t = <<>> \o Tail(s)
    OBVIOUS
  <2>3. /\ \A j \in DOMAIN s : j > 1 => Len(<<>>) + j - 1 \in DOMAIN t /\ t[Len(<<>>) + j - 1] = s[j]
        /\ \A k \in DOMAIN t : k - Len(<<>>) + 1 \in DOMAIN s /\ t[k] = s[k - Len(<<>>) + 1]
        /\ DOMAIN s = 1 .. Len(s) /\ DOMAIN t = 1 .. Len(t)
        /\ Len(s) \in Nat /\ Len(t) \in Nat
    BY <1>3, <2>2, SplicedParts, Empty
  <2>4. /\ \A j \in DOMAIN s : j > 1 => j - 1 \in DOMAIN t /\ t[j - 1] = s[j]
        /\ \A k \in DOMAIN t : k + 1 \in DOMAIN s /\ t[k] = s[k + 1]
    BY <2>3
  <2>5. ASSUME Leads(s) PROVE Leads(t) \/ (t # <<>> /\ t[1].op = "stepWait")
    <3>1. PICK j \in DOMAIN s : Steps(s, j) /\ NoSet(s, j)
      BY <2>5 DEF Leads
    <3>2. CASE j = 1
      <4>1. 2 \in DOMAIN s /\ s[2].op = "stepWait"
        BY <3>1, <3>2 DEF Steps
      <4>2. 1 \in DOMAIN t /\ t[1].op = "stepWait"
        BY <2>4, <4>1
      <4>. QED BY <4>2
    <3>3. CASE j > 1
      <4>1. PICK i \in DOMAIN t : i = j - 1 /\ t[i] = s[j]
        BY <2>4, <3>3
      <4>2. j + 1 \in DOMAIN s /\ j + 1 > 1 /\ s[j + 1].op = "stepWait" /\ s[j].op = "step"
        BY <2>3, <3>1, <3>3 DEF Steps
      <4>3. i + 1 \in DOMAIN t /\ t[i + 1] = s[j + 1]
        <5>1. (j + 1) - 1 = i + 1
          BY <2>3, <4>1
        <5>. QED BY <2>4, <4>2, <5>1
      <4>4. NoSet(t, i)
        <5>1. ASSUME NEW m \in DOMAIN t, m <= i PROVE m + 1 \in DOMAIN s /\ m + 1 <= j /\ t[m] = s[m + 1]
          BY <2>3, <2>4, <4>1, <5>1
        <5>. QED BY <3>1, <5>1 DEF NoSet
      <4>. QED BY <4>1, <4>2, <4>3, <4>4 DEF Leads, Steps
    <3>. QED BY <2>3, <3>2, <3>3
  <2>6. ASSUME t # <<>>, t[1].op = "stepWait" PROVE Follows'
    <3>1. /\ Len(queue) \in Nat /\ DOMAIN queue = 1 .. Len(queue)
          /\ DOMAIN queue' = 1 .. Len(queue) + 1
          /\ queue'[Len(queue) + 1] = Cmd(a, "STEP", "none")
      BY <1>1, SentLast
    <3>2. queue'[Len(queue) + 1].op = "STEP" /\ Len(queue) + 1 \in DOMAIN queue'
      BY <3>1 DEF Cmd
    <3>3. \A j \in DOMAIN queue' : queue'[j].op = "POKE" => j < Len(queue) + 1
      BY <3>1, <3>2
    <3>. QED BY <1>6, <2>1, <2>2, <2>6, <3>2, <3>3 DEF Follows, IsPoke
  <2>7. Leads(todo[Callback]) => Leads(todo[Callback])' \/ Follows'
    BY <1>6, <2>1, <2>2, <2>5, <2>6 DEF Leads, Steps, NoSet
  <2>8. ~Follows
    BY <1>3, <1>6 DEF Follows
  <2>9. Code'
    BY <1>1, <1>2, <2>7, <2>8, CodeKept DEF BInv
  <2>. QED BY <1>4, <2>9 DEF BInv
<1>. QED BY <1>5, <1>6

LEMMA ControlBreak ==
  ASSUME Shape, BInv, NEW a \in Actors, Control(a), UNCHANGED <<isSet, backup>>
  PROVE  BInv'
<1>1. UNCHANGED <<isSet, backup, word, run>>
  BY DEF Control, PushCont, PushStep, StepWait, StopTest, TerminateTest, PushKill, kernelVars
<1>2. CASE PushStep(a)
  BY <1>2, PushStepBreak
<1>3. CASE PushCont(a) \/ PushKill(a)
  BY <1>1, <1>3, AddsSent, DoneMoves DEF PushCont, PushKill
<1>4. ASSUME NEW op, op \notin {"cont", "step", "stepWait"}, At(a, op),
             NEW n, Methodical(n), Apart(n), Goto(a, n), Adds
      PROVE  BInv'
  <2>1. todo[a] # <<>> /\ todo[a][1].op = op
    BY <1>4, AtFirst
  <2>. QED BY <1>1, <1>4, <2>1, ApartOne, Moves
<1>5. CASE StepWait(a)
  <2>1. At(a, "stepWait") /\ ~Queued("STEP") /\ Goto(a, <<>>) /\ UNCHANGED queue
    BY <1>5 DEF StepWait, Done
  <2>2. todo[a] # <<>> /\ todo[a][1].op = "stepWait" /\ Adds
    BY <2>1, AtFirst, AddsSame
  <2>. QED BY <1>1, <2>1, <2>2, ApartOne, Empty, Moves
<1>6. CASE StopTest(a)
  <2>1. Methodical(<<Op("awaitStop")>>) /\ Apart(<<Op("awaitStop")>>)
    BY MethodicalOne, ApartOne DEF Op, Instr
  <2>2. /\ At(a, "stopTest")
        /\ \/ Goto(a, <<>>) /\ UNCHANGED queue
           \/ Goto(a, <<Op("awaitStop")>>) /\ Send(<<Cmd(a, "KILL", "STOP")>>)
    BY <1>6 DEF StopTest, Done
  <2>. QED BY <1>4, <2>1, <2>2, AddsSame, AddsSent, ApartOne, Empty
<1>7. CASE TerminateTest(a)
  <2>1. Methodical(<<Op("kill")>>) /\ Methodical(<<Op("awaitTerm")>>)
    BY MethodicalOne DEF Op, Instr
  <2>2. Methodical(<<Op("kill"), Op("awaitTerm")>>)
    BY <2>1, OneAndOne, MethodicalConcat
  <2>3. /\ Methodical(Resume("none") \o <<Op("kill"), Op("awaitTerm")>>)
        /\ Methodical(<<>> \o <<Op("kill"), Op("awaitTerm")>>)
    BY <2>2, MethodicalMethods, MethodicalConcat, Empty
  <2>4. /\ Apart(Resume("none") \o <<Op("kill"), Op("awaitTerm")>>)
        /\ Apart(<<>> \o <<Op("kill"), Op("awaitTerm")>>)
    BY <2>2, MethodicalMethods, Empty, ApartMethods, ApartOne, ApartConcat DEF Methodical
  <2>5. /\ At(a, "terminateTest") /\ UNCHANGED queue
        /\ \/ Goto(a, <<>>)
           \/ Goto(a, Resume("none") \o <<Op("kill"), Op("awaitTerm")>>)
           \/ Goto(a, <<>> \o <<Op("kill"), Op("awaitTerm")>>)
    BY <1>7 DEF TerminateTest
  <2>. QED BY <1>4, <2>3, <2>4, <2>5, AddsSame, ApartOne, Empty
<1>. QED BY <1>2, <1>3, <1>5, <1>6, <1>7 DEF Control

LEMMA HandleBreak ==
  ASSUME Shape, BInv, NEW a \in Actors, Handle(a), UNCHANGED <<isSet, backup>>
  PROVE  BInv'
<1>1. UNCHANGED <<isSet, backup, word, run>> /\ UNCHANGED queue
  BY DEF Handle, TestDr6, MatchBreakPoint, MatchBreakPointIn, Hit, Trap, TrapThen, kernelVars
<1>2. ASSUME NEW op \in {"testDr6", "matchBreakPoint", "hit", "trap"}, At(a, op),
             NEW n, Methodical(n), Apart(n), Goto(a, n)
      PROVE  BInv'
  <2>1. todo[a] # <<>> /\ todo[a][1].op = op /\ Adds
    BY <1>1, <1>2, AtFirst, AddsSame
  <2>. QED BY <1>1, <1>2, <2>1, ApartOne, Moves
<1>3. CASE TestDr6(a)
  <2>1. /\ At(a, "testDr6")
        /\ \/ \E idx : Goto(a, SetDr6(idx) \o <<Instr("hit", "watch")>>)
           \/ Goto(a, <<>>) \/ Goto(a, Unhandled)
    BY <1>3 DEF TestDr6
  <2>. QED BY <1>2, <2>1, LooksAside, Empty, ApartOne
<1>4. CASE MatchBreakPoint(a)
  <2>1. At(a, "matchBreakPoint") /\ (Goto(a, <<Instr("hit", "break")>>) \/ Goto(a, <<>>))
    BY <1>4 DEF MatchBreakPoint, MatchBreakPointIn
  <2>2. "break" \in Kinds
    BY DEF Kinds
  <2>. QED BY <1>2, <2>1, <2>2, LooksAside, Empty, ApartOne
<1>5. CASE Hit(a)
  BY <1>2, <1>5, Empty, ApartOne DEF Hit, Done
<1>6. CASE Trap(a)
  <2>1. PICK v : v = <<Arg(a), trapExp \/ Arg(a) = "clone">>
    OBVIOUS
  <2>2. /\ At(a, "trap")
        /\ Goto(a, Resume("none") \o Look(v)) \/ Goto(a, <<>> \o Look(v))
    BY <1>6, <2>1 DEF Trap, TrapThen, Look
  <2>3. Methodical(Resume("none") \o Look(v)) /\ Methodical(<<>> \o Look(v))
    BY LooksAside, MethodicalMethods, MethodicalConcat, Empty
  <2>4. Apart(Resume("none") \o Look(v)) /\ Apart(<<>> \o Look(v))
    BY LooksAside, MethodicalMethods, Empty, ApartMethods, ApartOne, ApartConcat DEF Methodical
  <2>. QED BY <1>2, <2>2, <2>3, <2>4
<1>. QED BY <1>3, <1>4, <1>5, <1>6 DEF Handle

\* Only a callback uses the breakpoint.
LEMMA SetAndUnset ==
  ASSUME Shape, BInv, NEW a \in Actors, NEW op \in {"setBreak", "unsetBreak"}, At(a, op), Done(a)
  PROVE  /\ a = Callback /\ Uses'
         /\ op = "unsetBreak" => Leads(todo[Callback])'
         /\ op = "setBreak" => ~Leads(todo[Callback])
         /\ ~Follows
<1>1. /\ todo[a] # <<>> /\ todo[a][1].op = op /\ 1 \in DOMAIN todo[a] /\ IsSeq(todo[a])
  BY AtFirst DEF Shape
<1>2. a # Listener
  BY NotListener DEF ListenerOps
<1>3. a \notin Users
  BY <1>1 DEF BInv, Uses, Keeps
<1>4. a = Callback
  BY <1>2, <1>3 DEF Actors
<1>5. Apart(<<>>) /\ NoUnset(<<>>) /\ Goto(a, <<>>)
  BY ApartOne DEF Done
<1>6. Uses' /\ (op = "unsetBreak" => Leads(todo[Callback])')
  BY <1>1, <1>4, <1>5, Empty, UsesKept DEF BInv
<1>7. ~Follows
  BY <1>1, <1>4 DEF Follows
<1>8. op = "setBreak" => ~Leads(todo[Callback])
  BY <1>1, <1>4 DEF Leads, NoSet, Steps, IsSeq
<1>. QED BY <1>4, <1>6, <1>7, <1>8

\* What is read at the breakpoint is the instruction: nothing is to be written.
LEMMA SetBreakBreak == ASSUME Shape, BInv, NEW a \in Actors, SetBreak(a) PROVE BInv'
<1>1. /\ At(a, "setBreak") /\ Done(a) /\ isSet' = TRUE /\ UNCHANGED run
      /\ backup' = IF isSet THEN backup ELSE word
  BY DEF SetBreak, kernelVars
<1>2. Uses' /\ ~Leads(todo[Callback]) /\ ~Follows
  BY <1>1, SetAndUnset
<1>3. run = "dead" \/ backup' = "insn"
  BY <1>1, <1>2 DEF BInv, Code, PutBack
<1>4. Code'
  BY <1>1, <1>3 DEF Code
<1>. QED BY <1>2, <1>4 DEF BInv

\* The instruction is the last that will be written, and a step comes first.
LEMMA UnsetBreakBreak == ASSUME Shape, BInv, NEW a \in Actors, UnsetBreak(a) PROVE BInv'
<1>1. /\ At(a, "unsetBreak") /\ Done(a) /\ isSet' = FALSE /\ UNCHANGED <<run, word, backup>>
      /\ IF isSet THEN Send(<<Cmd(a, "POKE", backup)>>) ELSE UNCHANGED queue
  BY DEF UnsetBreak, kernelVars
<1>2. Uses' /\ Leads(todo[Callback])' /\ ~Follows
  BY <1>1, SetAndUnset
<1>3. ASSUME run # "dead" PROVE backup = "insn" /\ PutBack'
  <2>1. backup = "insn" /\ (isSet \/ PutBack)
    BY <1>3 DEF BInv, Code
  <2>2. CASE isSet
    <3>1. PICK c : c = Cmd(a, "POKE", backup)
      OBVIOUS
    <3>2. c.op = "POKE" /\ c.arg = "insn" /\ Send(<<c>>)
      BY <1>1, <2>1, <2>2, <3>1 DEF Cmd
    <3>3. /\ Len(queue) \in Nat /\ DOMAIN queue = 1 .. Len(queue)
          /\ DOMAIN queue' = 1 .. Len(queue) + 1
          /\ queue'[Len(queue) + 1] = c
      BY <3>2, SentLast
    <3>4. ~Written'
      BY <3>2, <3>3 DEF Written, IsPoke
    <3>5. ASSUME NEW k \in DOMAIN queue', LastPoke(k)' PROVE queue'[k].arg = "insn"
      <4>1. \A j \in DOMAIN queue' : queue'[j].op = "POKE" => j <= k
        BY <3>5 DEF LastPoke, IsPoke
      <4>2. k = Len(queue) + 1
        BY <3>2, <3>3, <4>1
      <4>. QED BY <3>2, <3>3, <4>2
    <3>. QED BY <1>2, <2>1, <3>4, <3>5 DEF PutBack
  <2>3. CASE ~isSet
    <3>1. UNCHANGED queue /\ PutBack
      BY <1>1, <2>1, <2>3
    <3>2. (Written <=> Written') /\ \A k \in DOMAIN queue : LastPoke(k)' => LastPoke(k)
      BY <3>1 DEF Written, LastPoke, IsPoke
    <3>. QED BY <1>1, <1>2, <2>1, <3>1, <3>2 DEF PutBack
  <2>. QED BY <2>1, <2>2, <2>3
<1>4. Code'
  BY <1>1, <1>3 DEF Code
<1>. QED BY <1>2, <1>4 DEF BInv

LEMMA JumpBackBreak == ASSUME Shape, BInv, NEW a \in Actors, JumpBack(a) PROVE BInv'
<1>1. /\ At(a, "jumpBack") /\ UNCHANGED <<isSet, backup, word, run, queue>>
      /\ \E addr : Goto(a, Jump(addr))
  BY DEF JumpBack, kernelVars
<1>2. todo[a] # <<>> /\ todo[a][1].op = "jumpBack" /\ Adds
  BY <1>1, AtFirst, AddsSame
<1>3. PICK n : Methodical(n) /\ Apart(n) /\ Goto(a, n)
  BY <1>1, MethodicalMethods, ApartMethods
<1>. QED BY <1>1, <1>2, <1>3, ApartOne, Moves

\* The commands run in the order in which they were queued.
LEMMA RunCommandBreak ==
  ASSUME Shape, BInv, RunCommand, UNCHANGED <<isSet, backup>>
  PROVE  BInv'
<1>1. queue # <<>> /\ queue' = Tail(queue) /\ UNCHANGED todo
  BY DEF RunCommand
<1>2. PICK c : c = Head(queue)
  OBVIOUS
<1>3. /\ 1 \in DOMAIN queue /\ c = queue[1]
      /\ \A k \in DOMAIN queue' : k + 1 \in DOMAIN queue /\ queue'[k] = queue[k + 1]
      /\ \A j \in DOMAIN queue : j # 1 => j - 1 \in DOMAIN queue' /\ queue'[j - 1] = queue[j]
      /\ DOMAIN queue' \subseteq Nat /\ DOMAIN queue \subseteq Nat \ {0}
  <2>1. IsSeq(queue) /\ IsSeq(queue')
    BY <1>1, CommandTaken DEF Shape
  <2>. QED BY <1>1, <1>2, <2>1, CommandTaken DEF IsSeq
<1>4. /\ run = "dead" => run' = "dead"
      /\ word' = IF c.op = "POKE" /\ run # "dead" THEN c.arg ELSE word
  <2>1. Ptrace(c)
    BY <1>2 DEF RunCommand
  <2>. QED BY <2>1 DEF Ptrace, Continue, SingleStepRequest, Kill, SetRip, SetDr6Request, Poke,
                       kernelVars, Accepts
<1>5. Uses'
  BY <1>1 DEF BInv, Uses, Keeps, Apart, Restoring
<1>6. ASSUME run # "dead", PutBack PROVE PutBack'
  <2>1. Written => Written'
    BY <1>3 DEF Written, IsPoke
  <2>2. ASSUME NEW k \in DOMAIN queue', LastPoke(k)' PROVE LastPoke(k + 1)
    <3>1. IsPoke(k + 1)
      BY <1>3, <2>2 DEF LastPoke, IsPoke
    <3>2. ASSUME NEW j \in DOMAIN queue, IsPoke(j) PROVE j <= k + 1
      <4>1. CASE j = 1
        BY <1>3, <4>1
      <4>2. CASE j # 1
        <5>1. j - 1 \in DOMAIN queue' /\ queue'[j - 1].op = "POKE"
          BY <1>3, <3>2, <4>2 DEF IsPoke
        <5>2. j - 1 <= k
          BY <2>2, <5>1 DEF LastPoke, IsPoke
        <5>. QED BY <1>3, <5>2
      <4>. QED BY <4>1, <4>2
    <3>. QED BY <3>1, <3>2 DEF LastPoke
  <2>3. \A k \in DOMAIN queue' : LastPoke(k)' => queue'[k].arg = "insn"
    BY <1>3, <1>6, <2>2 DEF PutBack
  <2>4. Written' => word' = "insn"
    <3>. SUFFICES ASSUME Written' PROVE word' = "insn"
      OBVIOUS
    <3>1. \A j \in DOMAIN queue : IsPoke(j) => j = 1
      BY <1>3 DEF Written, IsPoke
    <3>2. CASE c.op = "POKE"
      <4>1. LastPoke(1)
        BY <1>3, <3>1, <3>2 DEF LastPoke, IsPoke
      <4>. QED BY <1>3, <1>4, <1>6, <3>2, <4>1 DEF PutBack
    <3>3. CASE c.op # "POKE"
      <4>1. Written
        BY <1>3, <3>1, <3>3 DEF Written, IsPoke
      <4>. QED BY <1>4, <1>6, <3>3, <4>1 DEF PutBack
    <3>. QED BY <3>2, <3>3
  <2>5. ASSUME Follows PROVE Written' \/ Follows'
    <3>1. PICK i \in DOMAIN queue : /\ queue[i].op = "STEP"
                                    /\ \A j \in DOMAIN queue : IsPoke(j) => j < i
      BY <2>5 DEF Follows
    <3>2. CASE i = 1
      <4>1. \A j \in DOMAIN queue : ~(j < 1)
        BY <1>3
      <4>2. Written
        BY <3>1, <3>2, <4>1 DEF Written
      <4>. QED BY <2>1, <4>2
    <3>3. CASE i # 1
      <4>1. i - 1 \in DOMAIN queue' /\ queue'[i - 1].op = "STEP"
        BY <1>3, <3>1, <3>3
      <4>2. ASSUME NEW j \in DOMAIN queue', queue'[j].op = "POKE" PROVE j < i - 1
        <5>1. j + 1 \in DOMAIN queue /\ IsPoke(j + 1)
          BY <1>3, <4>2 DEF IsPoke
        <5>2. j + 1 < i
          BY <3>1, <5>1
        <5>. QED BY <1>3, <5>2
      <4>. QED BY <1>1, <2>5, <4>1, <4>2 DEF Follows, IsPoke
    <3>. QED BY <3>2, <3>3
  <2>6. Leads(todo[Callback]) => Leads(todo[Callback])'
    BY <1>1 DEF Leads, Steps, NoSet
  <2>. QED BY <1>6, <2>1, <2>3, <2>4, <2>5, <2>6 DEF PutBack
<1>7. Code'
  BY <1>4, <1>6 DEF BInv, Code
<1>. QED BY <1>5, <1>7 DEF BInv

\* What the thread does by itself, and the events that the listener collects.
LEMMA OthersBreak ==
  ASSUME Shape, BInv, Thread \/ NewThread \/ ThreadEvent, UNCHANGED <<isSet, backup>>
  PROVE  BInv'
<1>1. UNCHANGED <<word, queue>> /\ (run = "dead" => run' = "dead")
  BY DEF Thread, NewThread, ThreadEvent, Collect, ThreadStep, StepDone, Int3, SignalTaken,
         Spontaneous, Exits, ReportsContinued, StopFor, Executing
<1>2. /\ todo'[Callback] = todo[Callback]
      /\ \A u \in Users : todo'[u] = todo[u]
  <2>1. \/ UNCHANGED todo
        \/ \E ev, bt : todo' = [todo EXCEPT ![Listener] = HandleEvent(ev, bt)]
    BY DEF Thread, NewThread, ThreadEvent
  <2>. QED BY <2>1, ActorsAssumption DEF Shape, Actors
<1>3. Uses'
  BY <1>2 DEF BInv, Uses, Keeps, Apart, Restoring
<1>4. Leads(todo[Callback]) => Leads(todo[Callback])'
  BY <1>2 DEF Leads, Steps, NoSet
<1>5. Code'
  BY <1>1, <1>2, <1>4, AddsSame, CodeKept DEF BInv
<1>. QED BY <1>3, <1>5 DEF BInv

LEMMA BeginBreak ==
  ASSUME Shape, RestoredByOne, BInv, BeginCallback \/ (\E u \in Users : BeginScript(u)),
         UNCHANGED <<isSet, backup>>
  PROVE  BInv'
<1>1. UNCHANGED <<word, queue, run>> /\ Adds /\ todo = [b \in Actors |-> todo[b]]
      /\ Callback \in Actors /\ Callback \notin Users
  BY AddsSame, ActorsAssumption DEF BeginCallback, BeginScript, kernelVars, Shape, Actors
<1>2. CASE BeginCallback
  <2>1. todo[Callback] = <<>> /\ callbacks # <<>>
    BY <1>2 DEF BeginCallback
  <2>2. Head(callbacks) \in Kinds
    BY <2>1, HeadTailProperties DEF Shape
  <2>3. PICK s \in CallbackScripts[Head(callbacks)] : todo' = [todo EXCEPT ![Callback] = s]
    BY <1>2 DEF BeginCallback
  <2>4. todo'[Callback] = s /\ \A u \in Users : todo'[u] = todo[u]
    BY <1>1, <2>3 DEF Actors
  <2>5. Restoring(s)
    BY <2>2 DEF RestoredByOne
  <2>6. Uses'
    BY <2>4, <2>5 DEF BInv, Uses, Keeps, Apart, Restoring
  <2>7. ~Leads(todo[Callback]) /\ ~Follows
    BY <2>1 DEF Leads, Follows
  <2>8. Code'
    BY <1>1, <2>7, CodeKept DEF BInv
  <2>. QED BY <2>6, <2>8 DEF BInv
<1>3. ASSUME NEW u \in Users, BeginScript(u) PROVE BInv'
  <2>1. PICK s \in UserScripts : todo' = [todo EXCEPT ![u] = s]
    BY <1>3 DEF BeginScript
  <2>2. /\ todo'[Callback] = todo[Callback] /\ todo'[u] = s
        /\ \A v \in Users \ {u} : todo'[v] = todo[v]
    BY <1>1, <2>1 DEF Actors
  <2>3. Keeps(s)
    BY DEF RestoredByOne
  <2>4. Uses'
    BY <2>2, <2>3 DEF BInv, Uses, Keeps, Apart, Restoring
  <2>5. Leads(todo[Callback]) => Leads(todo[Callback])'
    BY <2>2 DEF Leads, Steps, NoSet
  <2>6. Code'
    BY <1>1, <2>2, <2>5, CodeKept DEF BInv
  <2>. QED BY <2>4, <2>6 DEF BInv
<1>. QED BY <1>2, <1>3

LEMMA NextBInv ==
  ASSUME MethodsOnly, RestoredByOne, IInv, BInv, [Next]_allVars
  PROVE  BInv'
<1>1. Shape
  BY DEF IInv
<1>2. CASE UNCHANGED allVars
  BY <1>2 DEF allVars, vars, kernelVars, BInv, Uses, Keeps, Restoring, Apart, Code, PutBack,
              Written, LastPoke, IsPoke, Leads, Follows, Steps, NoSet
<1>3. CASE ThreadNext /\ UNCHANGED <<isSet, backup>>
  <2>1. ASSUME NEW a \in Actors, Advance(a) PROVE BInv'
    BY <1>1, <1>3, <2>1, SynchroniseBreak, RegistersBreak, ControlBreak, HandleBreak DEF Advance
  <2>. QED BY <1>1, <1>3, <2>1, RunCommandBreak, OthersBreak, BeginBreak DEF ThreadNext
<1>4. CASE \E a \in Actors : JumpBack(a) \/ SetBreak(a) \/ UnsetBreak(a)
  BY <1>1, <1>4, JumpBackBreak, SetBreakBreak, UnsetBreakBreak
<1>. QED BY <1>2, <1>3, <1>4 DEF Next

(* set never takes the INT3 for the program's instruction, although what   *)
(* unset writes is queued and not waited for, if each callback that unsets *)
(* the breakpoint goes on to a single step before it is set again, as      *)
(* resumeAndSet does, and the users leave the breakpoint to the callbacks. *)
THEOREM BackupAlwaysCode ==
  ASSUME MethodsOnly, RestoredByOne
  PROVE  Spec => []BackupIsCode
<1>1. Init => IInv /\ BInv
  <2>1. Init => BInv
    BY DEF Init, ThreadInit, KernelInit, BInv, Uses, Keeps, Restoring, Code, PutBack, Written,
           LastPoke, IsPoke, Actors
  <2>. QED BY <2>1, InitIInv
<1>2. IInv /\ BInv /\ [Next]_allVars => IInv' /\ BInv'
  BY NextIInv, NextBInv
<1>3. BInv => BackupIsCode
  BY DEF BInv, Code, BackupIsCode
<1>. QED BY <1>1, <1>2, <1>3, PTL DEF Spec

-----------------------------------------------------------------------------
(* The stop of the thread is passed on, as long as only callbacks drive    *)
(* it: from the kernel to the listener (handleEvent), from there straight  *)
(* to a resumption or to a callback (hit), and from either, in the queue   *)
(* of the Tracer, to PTRACE_CONT.  One of them at a time has it.           *)

ListenerTodo == todo[Listener]
CallbackTodo == todo[Callback]

\* The instruction gives the stop to a callback, or to the queue.
Hands(s, k) ==
  \/ s[k].op \in {"trap", "cont", "matchBreakPoint", "hit"}
  \/ s[k].op = "testDr6" /\ s[k].arg[1] # "clone"

HandsOver(s) == \E k \in DOMAIN s : Hands(s, k)

\* The listener has yet to look at DR6, for another stop than a clone's.
Tests(s) == \E k \in DOMAIN s : s[k].op = "testDr6" /\ s[k].arg[1] # "clone"

\* s begins with op.
Starts(s, op) == s # <<>> /\ s[1].op = op

\* Methods in which an instruction comes only after another.
Before ==
  [trap |-> "setState", writeRegisters |-> "setState", cont |-> "writeRegisters",
   testDr6 |-> "readRegisters", getRegs |-> "readRegisters", matchBreakPoint |-> "getRegs",
   setDr6 |-> "getDr6"]

\* What handleEvent leaves to do.  What gives the stop away comes last but for a
\* resumption's CONTINUED and for readings, and it gives it away once.
Orderly(s) ==
  \A k \in DOMAIN s :
    /\ s[k].op \in {"trap", "matchBreakPoint", "hit", "testDr6"} => k = Len(s)
    /\ s[k].op = "cont" \/ Continued(s, k) => \A j \in DOMAIN s : j > k => ~Hands(s, j)
    /\ s[k].op \in {"setState", "readRegisters", "testDr6"}
       \/ \E j \in DOMAIN s : j >= k /\ Hands(s, j)
    /\ Sets(s, k) /\ ~Continued(s, k) =>
         /\ \A j \in DOMAIN s : j < k => s[j].op = "readRegisters"
         /\ \E j \in DOMAIN s : j >= k /\ Hands(s, j)
         /\ \A j \in DOMAIN s : s[j].op \notin {"hit", "setDr6", "testDr6"}
    /\ k > 1 /\ s[k].op \in DOMAIN Before => s[k - 1].op = Before[s[k].op]
    /\ k > 1 /\ s[k].op \in {"trap", "writeRegisters"} => ~Continued(s, k - 1)
    /\ s[k].op = "testDr6" /\ s[k].arg[1] # "clone" => k <= 2

\* Who has the stop: the kernel (or nobody, while the thread runs), the
\* listener, a callback, or the PTRACE_CONT in the queue.
KTurn == run # "stopped" \/ event \notin NoStop
LTurn == HandsOver(ListenerTodo)
CTurn == callbacks # <<>> \/ Has(CallbackTodo, "cont")
QTurn == Queued("CONT")
\* The listener has recorded the stop it handles.
Past == ~RecordsStop(ListenerTodo)

Traps == {"break", "watch", "clone"}

\* What the listener and the callback have to do is what the stop calls for.
Told ==
  /\ Orderly(ListenerTodo)
  /\ \A k \in DOMAIN ListenerTodo :
       /\ ListenerTodo[k].op = "trap" => ListenerTodo[k].arg = reason /\ reason \in Traps
       /\ ListenerTodo[k].op = "testDr6" =>
            IF ListenerTodo[k].arg[1] = "clone" THEN ListenerTodo[k].arg[2]
            ELSE ListenerTodo[k].arg[1] = reason /\ reason \in Traps /\ ~ListenerTodo[k].arg[2]
       /\ ListenerTodo[k].op = "matchBreakPoint" => reason \in {"break", "SEGV", "STOP"}
       /\ ListenerTodo[k].op = "hit" => ListenerTodo[k].arg \in {"watch", "break"}
       /\ ListenerTodo[k].op = "setDr6" =>
            /\ Has(ListenerTodo, "hit")
            /\ \A j \in DOMAIN ListenerTodo : ListenerTodo[j].op = "setDr6" => j = k
  /\ Driving(CallbackTodo)

QueueOps == {"CONT", "SETREGS", "POKEDR6", "POKE", "GETREGS", "PEEKDR6"}

\* What is queued: nothing follows PTRACE_CONT, and what is read is awaited.
Sent ==
  /\ \A k \in DOMAIN queue : /\ queue[k].op \in QueueOps
                             /\ queue[k].op = "POKEDR6" => queue[k].arg = {}
                             /\ queue[k].op = "CONT" => k = Len(queue)
  /\ Queued("GETREGS") => futRegs
  /\ Queued("PEEKDR6") => futDr6
  /\ Queued("SETREGS") \/ Queued("POKEDR6") => QTurn \/ Starts(CallbackTodo, "cont")

\* There is no step, so no trap is taken for one (trapExp); a stop yet to be
\* collected is the present one.
Base ==
  /\ run # "stepping" /\ pending = {} /\ ~trapExp /\ ~spurious
  /\ state \in {"STOPPED", "CONTINUED"}
  /\ event \notin NoStop => /\ reason = event
                            /\ event \in Traps \cup {"start", "SEGV", "STOP", "USR"}
                            /\ known <=> event # "start"
  /\ ~known => event \notin NoStop /\ regSync = "OLD"

\* One has the stop at a time; only that of a fault or of SIGSTOP may have been
\* given up by all.
Turns ==
  /\ KTurn => ~LTurn /\ ~CTurn /\ queue = <<>>
  /\ LTurn => ~CTurn /\ ~QTurn /\ known
  /\ CTurn => ~QTurn /\ ListenerTodo = <<>> /\ state = "STOPPED" /\ known
  /\ callbacks # <<>> => Len(callbacks) = 1 /\ CallbackTodo = <<>>
  /\ LTurn /\ Past => state = "STOPPED" /\ CallbackTodo = <<>>
  /\ ~(KTurn \/ LTurn \/ CTurn \/ QTurn) =>
       /\ reason \in {"SEGV", "STOP"} /\ state = "STOPPED"
       /\ ListenerTodo = <<>> /\ CallbackTodo = <<>>
  /\ ~LTurn /\ ListenerTodo # <<>> => Continued(ListenerTodo, 1) \/ state = "CONTINUED"

\* When the register cache is dirty, and when it holds nothing of this stop.
Caches ==
  /\ regSync = "NEW" => (LTurn /\ Has(ListenerTodo, "hit")) \/ (CTurn /\ ~Starts(CallbackTodo, "cont"))
  /\ Starts(ListenerTodo, "trap") \/ Starts(ListenerTodo, "writeRegisters") \/ Starts(ListenerTodo, "cont")
       => regSync = "OLD"
  /\ Starts(ListenerTodo, "readRegisters") /\ Tests(ListenerTodo) => regSync = "OLD"

\* The listener knows of a watchpoint's stop and has yet to look at DR6.
WatchSeen == LTurn /\ reason = "watch" /\ (Has(ListenerTodo, "trap") \/ Tests(ListenerTodo))

\* What the cached DR6 and the thread's are: the thread's is set from the trap to
\* the request that clears it, and the listener sees what is in it.
Dr6 ==
  /\ cDr6 = {} \/ \E k \in DOMAIN ListenerTodo : ListenerTodo[k].op = "setDr6" /\ cDr6 = {ListenerTodo[k].arg}
  /\ futDr6 => Queued("PEEKDR6") \/ peeked = {} \/ (LTurn /\ reason = "watch" /\ peeked = dr6)
  /\ Starts(ListenerTodo, "testDr6") /\ Tests(ListenerTodo) =>
       futDr6 /\ regSync = "SYNC" /\ (Queued("PEEKDR6") \/ peeked = dr6)
  /\ Has(ListenerTodo, "setDr6") => ~futDr6 /\ regSync = "SYNC"
  /\ Has(ListenerTodo, "hit") => regSync # "OLD" /\ (reason = "watch" => ~futDr6)
  /\ dr6 # {} =>
       /\ \E i \in WatchIdx : dr6 = {i}
       /\ \/ event = "watch" \/ WatchSeen
          \/ Has(ListenerTodo, "setDr6")
          \/ ~futDr6 /\ regSync = "NEW"
          \/ ~futDr6 /\ Queued("POKEDR6")
  /\ event = "watch" \/ WatchSeen => dr6 # {}

\* The cached rip is the one just after the breakpoint's INT3.
AtBreak == cRip = "bp" /\ ~futRegs /\ regSync # "OLD"

\* The cached rip is the thread's, or where a jump is to lead; after a breakpoint
\* it is just after the INT3 until a callback jumps.
Rip ==
  /\ rip # "wild" /\ cRip # "wild"
  /\ KTurn \/ LTurn => aim = "none"
  /\ aim # "none" =>
       /\ CTurn \/ QTurn
       /\ cRip = aim /\ ~futRegs
       /\ CTurn /\ ~Starts(CallbackTodo, "cont") => regSync = "NEW"
       /\ (CTurn /\ ~Starts(CallbackTodo, "cont")) \/ Queued("SETREGS") \/ rip = aim
  /\ (LTurn /\ Past) \/ CTurn =>
       regSync = "OLD" \/ aim # "none" \/ Queued("GETREGS") \/ cRip = rip
  /\ Starts(ListenerTodo, "getRegs") \/ Starts(CallbackTodo, "getRegs") => regSync # "OLD"
  /\ Starts(CallbackTodo, "setRip") => ~futRegs /\ regSync # "OLD"
  /\ Starts(ListenerTodo, "matchBreakPoint") => ~futRegs /\ regSync # "OLD"
  /\ \A k \in DOMAIN ListenerTodo : ListenerTodo[k].op = "hit" /\ ListenerTodo[k].arg = "break" => AtBreak
  /\ (\E k \in DOMAIN callbacks : callbacks[k] = "break") \/ Has(CallbackTodo, "jumpBack") => AtBreak
  /\ event = "break" \/ (LTurn /\ reason = "break") => rip = "bp"

\* While the thread lives.
Turn == Told /\ Sent /\ Base /\ Turns /\ Caches /\ Dr6 /\ Rip

LastOps == {"trap", "matchBreakPoint", "hit", "testDr6"}

\* What hands the stop over is the last thing to do.
Closing(s) == \A k \in DOMAIN s : s[k].op \in LastOps => k = Len(s)

\* What a callback ends with.
Ending(s) ==
  /\ s # <<>> => s[Len(s)].op = "setState" /\ (Len(s) > 1 => s[Len(s) - 1].op = "cont")
  /\ \A k \in DOMAIN s : s[k].op \in CallbackOps \cup {"writeRegisters", "cont", "setState"}

\* The thread is dead: the listener has its end to record, or had a stop to
\* handle, and then no callback had the stop.
Parted ==
  /\ Closing(ListenerTodo) /\ Ending(CallbackTodo)
  /\ CTurn => \A k \in DOMAIN ListenerTodo : ListenerTodo[k].op \in {"readRegisters", "setState"}
  /\ rip # "wild"

Lone == Parted /\ event \in Ended \cup {"none"}

\* The invariant speaks of a thread no stop of which was recorded inside resume.
TInv == overtaken \/ IF run = "dead" THEN Lone ELSE Turn

-----------------------------------------------------------------------------
(* Lists of instructions, and what has been executed of them.              *)

\* t is what is left of s after its first element.
Rest(s, t) ==
  /\ s # <<>> /\ IsSeq(t) /\ Len(s) \in Nat \ {0} /\ DOMAIN s = 1 .. Len(s) /\ 1 \in DOMAIN s
  /\ Len(t) = Len(s) - 1 /\ DOMAIN t = 1 .. Len(s) - 1
  /\ \A k \in DOMAIN t : k + 1 \in DOMAIN s /\ t[k] = s[k + 1]
  /\ \A j \in DOMAIN s : j # 1 => j - 1 \in DOMAIN t /\ t[j - 1] = s[j]
  /\ t # <<>> => 1 \in DOMAIN t /\ 2 \in DOMAIN s /\ t[1] = s[2]

LEMMA Tailing ==
  ASSUME NEW s, IsSeq(s), s # <<>>, NEW t, t = Tail(s)
  PROVE  Rest(s, t) /\ Head(s) = s[1]
<1>1. /\ IsSeq(t) /\ Len(t) = Len(s) - 1 /\ Len(s) > 0 /\ Head(s) = s[1]
      /\ \A k \in 1 .. Len(s) - 1 : t[k] = s[k + 1]
  BY Tailed
<1>2. /\ Len(s) \in Nat \ {0} /\ DOMAIN s = 1 .. Len(s)
      /\ DOMAIN t = 1 .. Len(s) - 1
  BY <1>1 DEF IsSeq
<1>3. ASSUME NEW j \in DOMAIN s, j # 1
      PROVE  j - 1 \in DOMAIN t /\ t[j - 1] = s[j]
  <2>1. j - 1 \in 1 .. Len(s) - 1 /\ j = (j - 1) + 1
    BY <1>2, <1>3
  <2>. QED BY <1>1, <1>2, <2>1
<1>4. t # <<>> => 1 \in DOMAIN t /\ 2 \in DOMAIN s /\ t[1] = s[2]
  <2>1. t # <<>> => Len(t) > 0
    BY <1>1, EmptySeqs
  <2>. QED BY <1>1, <1>2, <2>1
<1>. QED BY <1>1, <1>2, <1>3, <1>4 DEF Rest

LEMMA HasTail ==
  ASSUME NEW s, NEW t, Rest(s, t), NEW op
  PROVE  /\ Has(t, op) => Has(s, op)
         /\ Has(s, op) => Has(t, op) \/ s[1].op = op
BY DEF Rest, Has

LEMMA OrderlyTail ==
  ASSUME NEW s, NEW t, Rest(s, t), Orderly(s)
  PROVE  /\ Orderly(t)
         /\ HandsOver(t) => HandsOver(s)
         /\ Hands(s, 1) => ~HandsOver(t)
         /\ HandsOver(s) /\ ~Hands(s, 1) => HandsOver(t)
         /\ s[1].op \in {"trap", "matchBreakPoint", "hit", "testDr6"} => t = <<>>
         /\ t # <<>> /\ t[1].op \in DOMAIN Before => s[1].op = Before[t[1].op]
<1>1. /\ IsSeq(t) /\ Len(s) \in Nat \ {0} /\ DOMAIN s = 1 .. Len(s)
      /\ Len(t) = Len(s) - 1 /\ DOMAIN t = 1 .. Len(s) - 1
      /\ \A k \in DOMAIN t : k + 1 \in DOMAIN s /\ t[k] = s[k + 1]
      /\ \A j \in DOMAIN s : j # 1 => j - 1 \in DOMAIN t /\ t[j - 1] = s[j]
      /\ t # <<>> => 1 \in DOMAIN t /\ 2 \in DOMAIN s /\ t[1] = s[2]
  BY DEF Rest
<1>2. \A k \in DOMAIN t : Hands(t, k) <=> Hands(s, k + 1)
  BY <1>1 DEF Hands
<1>3. \A j \in DOMAIN s : j # 1 /\ Hands(s, j) => Hands(t, j - 1)
  BY <1>1 DEF Hands
<1>4. ASSUME NEW k \in DOMAIN t
      PROVE  /\ \A j \in DOMAIN s : j >= k + 1 /\ Hands(s, j) =>
                  j - 1 \in DOMAIN t /\ j - 1 >= k /\ Hands(t, j - 1)
             /\ \A j \in DOMAIN t : j > k /\ Hands(t, j) =>
                  j + 1 \in DOMAIN s /\ j + 1 > k + 1 /\ Hands(s, j + 1)
  BY <1>1, <1>2, <1>3
<1>5. ASSUME NEW k \in DOMAIN t
      PROVE  /\ t[k].op \in {"trap", "matchBreakPoint", "hit", "testDr6"} => k = Len(t)
             /\ t[k].op = "cont" \/ Continued(t, k) => \A j \in DOMAIN t : j > k => ~Hands(t, j)
             /\ t[k].op \in {"setState", "readRegisters", "testDr6"}
                \/ \E j \in DOMAIN t : j >= k /\ Hands(t, j)
             /\ k > 1 /\ t[k].op \in DOMAIN Before => t[k - 1].op = Before[t[k].op]
             /\ t[k].op = "testDr6" /\ t[k].arg[1] # "clone" => k <= 2
  <2>1. k + 1 \in DOMAIN s /\ t[k] = s[k + 1] /\ (k > 1 => t[k - 1] = s[k] /\ k \in DOMAIN s)
    BY <1>1
  <2>2. /\ s[k + 1].op \in {"trap", "matchBreakPoint", "hit", "testDr6"} => k + 1 = Len(s)
        /\ s[k + 1].op = "cont" \/ Continued(s, k + 1) => \A j \in DOMAIN s : j > k + 1 => ~Hands(s, j)
        /\ s[k + 1].op \in {"setState", "readRegisters", "testDr6"}
             \/ \E j \in DOMAIN s : j >= k + 1 /\ Hands(s, j)
        /\ k + 1 > 1 /\ s[k + 1].op \in DOMAIN Before => s[(k + 1) - 1].op = Before[s[k + 1].op]
        /\ s[k + 1].op = "testDr6" /\ s[k + 1].arg[1] # "clone" => k + 1 <= 2
    BY <2>1 DEF Orderly
  <2>3. t[k].op \in {"trap", "matchBreakPoint", "hit", "testDr6"} => k = Len(t)
    BY <1>1, <2>1, <2>2
  <2>4. t[k].op = "cont" \/ Continued(t, k) => \A j \in DOMAIN t : j > k => ~Hands(t, j)
    BY <1>4, <2>1, <2>2 DEF Continued, Sets
  <2>5. t[k].op \in {"setState", "readRegisters", "testDr6"}
          \/ \E j \in DOMAIN t : j >= k /\ Hands(t, j)
    BY <1>4, <2>1, <2>2
  <2>6. k > 1 /\ t[k].op \in DOMAIN Before => t[k - 1].op = Before[t[k].op]
    <3>1. (k + 1) - 1 = k /\ k + 1 > 1
      BY <1>1
    <3>. QED BY <2>1, <2>2, <3>1
  <2>7. t[k].op = "testDr6" /\ t[k].arg[1] # "clone" => k <= 2
    BY <1>1, <2>1, <2>2
  <2>. QED BY <2>3, <2>4, <2>5, <2>6, <2>7
<1>6. ASSUME NEW k \in DOMAIN t
      PROVE  /\ Sets(t, k) /\ ~Continued(t, k) =>
                  /\ \A j \in DOMAIN t : j < k => t[j].op = "readRegisters"
                  /\ \E j \in DOMAIN t : j >= k /\ Hands(t, j)
                  /\ \A j \in DOMAIN t : t[j].op \notin {"hit", "setDr6", "testDr6"}
             /\ k > 1 /\ t[k].op \in {"trap", "writeRegisters"} => ~Continued(t, k - 1)
  <2>1. k + 1 \in DOMAIN s /\ t[k] = s[k + 1] /\ (k > 1 => t[k - 1] = s[k] /\ k \in DOMAIN s)
    BY <1>1
  <2>2. /\ Sets(s, k + 1) /\ ~Continued(s, k + 1) =>
             /\ \A j \in DOMAIN s : j < k + 1 => s[j].op = "readRegisters"
             /\ \E j \in DOMAIN s : j >= k + 1 /\ Hands(s, j)
             /\ \A j \in DOMAIN s : s[j].op \notin {"hit", "setDr6", "testDr6"}
        /\ k + 1 > 1 /\ s[k + 1].op \in {"trap", "writeRegisters"} => ~Continued(s, (k + 1) - 1)
    BY <2>1 DEF Orderly
  <2>3. \A j \in DOMAIN t : j < k => j + 1 < k + 1
    BY <1>1
  <2>4. Sets(t, k) /\ ~Continued(t, k) =>
             /\ \A j \in DOMAIN t : j < k => t[j].op = "readRegisters"
             /\ \E j \in DOMAIN t : j >= k /\ Hands(t, j)
             /\ \A j \in DOMAIN t : t[j].op \notin {"hit", "setDr6", "testDr6"}
    <3>. SUFFICES ASSUME Sets(t, k), ~Continued(t, k)
                  PROVE  /\ \A j \in DOMAIN t : j < k => t[j].op = "readRegisters"
                         /\ \E j \in DOMAIN t : j >= k /\ Hands(t, j)
                         /\ \A j \in DOMAIN t : t[j].op \notin {"hit", "setDr6", "testDr6"}
      OBVIOUS
    <3>1. Sets(s, k + 1) /\ ~Continued(s, k + 1)
      BY <2>1 DEF Sets, Continued
    <3>. QED BY <1>1, <1>4, <2>2, <2>3, <3>1
  <2>5. k > 1 /\ t[k].op \in {"trap", "writeRegisters"} => ~Continued(t, k - 1)
    <3>1. (k + 1) - 1 = k /\ k + 1 > 1
      BY <1>1
    <3>. QED BY <2>1, <2>2, <3>1 DEF Sets, Continued
  <2>. QED BY <2>4, <2>5
<1>7. Orderly(t)
  BY <1>5, <1>6 DEF Orderly
<1>8. /\ HandsOver(t) => HandsOver(s)
      /\ HandsOver(s) /\ ~Hands(s, 1) => HandsOver(t)
  BY <1>1, <1>2, <1>3 DEF HandsOver
<1>9. s[1].op \in {"trap", "matchBreakPoint", "hit", "testDr6"} => t = <<>>
  <2>1. 1 \in DOMAIN s
    BY <1>1
  <2>2. s[1].op \in {"trap", "matchBreakPoint", "hit", "testDr6"} => 1 = Len(s)
    BY <2>1 DEF Orderly
  <2>. QED BY <1>1, <2>2
<1>10. Hands(s, 1) => ~HandsOver(t)
  <2>1. s[1].op = "cont" => \A j \in DOMAIN s : j > 1 => ~Hands(s, j)
    <3>1. 1 \in DOMAIN s
      BY DEF Rest
    <3>2. s[1].op = "cont" \/ Continued(s, 1) => \A j \in DOMAIN s : j > 1 => ~Hands(s, j)
      BY ONLY <3>1, Orderly(s) DEF Orderly
    <3>. QED BY <3>2
  <2>2. \A k \in DOMAIN t : k + 1 > 1
    BY <1>1
  <2>. QED BY <1>1, <1>2, <1>9, <2>1, <2>2 DEF Hands, HandsOver
<1>11. t # <<>> /\ t[1].op \in DOMAIN Before => s[1].op = Before[t[1].op]
  <2>1. t # <<>> => 2 \in DOMAIN s /\ t[1] = s[2]
    BY <1>1
  <2>2. 2 \in DOMAIN s /\ s[2].op \in DOMAIN Before => s[2 - 1].op = Before[s[2].op]
    BY DEF Orderly
  <2>. QED BY <2>1, <2>2
<1>. QED BY <1>7, <1>8, <1>9, <1>10, <1>11

LEMMA DrivingTail ==
  ASSUME NEW s, NEW t, Rest(s, t), Driving(s)
  PROVE  /\ Driving(t)
         /\ s[1].op \notin {"cont", "setState"} => t # <<>> /\ Has(s, "cont") /\ Has(t, "cont")
         /\ s[1].op = "cont" => t # <<>> /\ ~Has(t, "cont") /\ Continued(t, 1)
         /\ s[1].op = "setState" => t = <<>>
         /\ t # <<>> /\ t[1].op = "cont" => s[1].op = "writeRegisters"
         /\ s[1].op = "writeRegisters" => t[1].op = "cont"
         /\ t # <<>> /\ t[1].op = "getRegs" => s[1].op = "readRegisters"
         /\ t # <<>> /\ t[1].op = "setRip" => s[1].op = "getRegs"
<1>1. /\ IsSeq(t) /\ Len(s) \in Nat \ {0} /\ DOMAIN s = 1 .. Len(s) /\ 1 \in DOMAIN s
      /\ Len(t) = Len(s) - 1 /\ DOMAIN t = 1 .. Len(s) - 1
      /\ \A k \in DOMAIN t : k + 1 \in DOMAIN s /\ t[k] = s[k + 1]
      /\ \A j \in DOMAIN s : j # 1 => j - 1 \in DOMAIN t /\ t[j - 1] = s[j]
      /\ t # <<>> => 1 \in DOMAIN t /\ 2 \in DOMAIN s /\ t[1] = s[2]
  BY DEF Rest
<1>2. Continued(s, Len(s)) /\ (Len(s) > 1 => s[Len(s) - 1].op = "cont")
  BY DEF Driving, Rest
<1>3. t = <<>> <=> Len(s) = 1
  BY <1>1, EmptySeqs
<1>4. Len(s) \in DOMAIN s /\ s[Len(s)].op = "setState"
  BY <1>1, <1>2 DEF Continued, Sets
<1>5. /\ s[1].op = "setState" => 1 = Len(s)
      /\ s[1].op = "cont" => 1 + 1 = Len(s)
      /\ s[1].op = "writeRegisters" => 1 + 2 = Len(s)
  BY <1>1 DEF Driving
<1>6. Len(s) > 1 => Len(s) - 1 \in DOMAIN s
  BY <1>1
<1>7. Driving(t)
  <2>1. t # <<>> => Continued(t, Len(t)) /\ (Len(t) > 1 => t[Len(t) - 1].op = "cont")
    <3>. SUFFICES ASSUME t # <<>>
                  PROVE  Continued(t, Len(t)) /\ (Len(t) > 1 => t[Len(t) - 1].op = "cont")
      OBVIOUS
    <3>1. Len(t) \in DOMAIN t /\ Len(t) + 1 = Len(s) /\ Len(s) > 1
      BY <1>1, <1>3
    <3>2. t[Len(t)] = s[Len(s)]
      BY <1>1, <3>1
    <3>3. Len(t) > 1 => Len(t) - 1 \in DOMAIN t /\ (Len(t) - 1) + 1 = Len(s) - 1
      BY <1>1, <3>1
    <3>4. Len(t) > 1 => t[Len(t) - 1] = s[Len(s) - 1]
      BY <1>1, <3>3
    <3>. QED BY <1>2, <3>1, <3>2, <3>4 DEF Continued, Sets
  <2>2. ASSUME NEW k \in DOMAIN t
        PROVE  /\ t[k].op \in CallbackOps \cup {"writeRegisters", "cont", "setState"}
               /\ t[k].op = "setState" => k = Len(t)
               /\ t[k].op = "cont" => k + 1 = Len(t) /\ (k > 1 => t[k - 1].op = "writeRegisters")
               /\ t[k].op = "writeRegisters" => k + 2 = Len(t)
               /\ t[k].op = "getRegs" /\ k > 1 => t[k - 1].op = "readRegisters"
               /\ t[k].op = "setRip" => /\ t[k].arg \notin {"wild", "none"}
                                        /\ k > 1 => t[k - 1].op = "getRegs"
               /\ t[k].op = "jumpBack" =>
                    \A j \in DOMAIN t : j < k => t[j].op \notin {"jumpBack", "setRip"}
    <3>1. /\ k + 1 \in DOMAIN s /\ t[k] = s[k + 1] /\ (k > 1 => t[k - 1] = s[k])
          /\ (k + 1) - 1 = k /\ k + 1 > 1
      BY <1>1
    <3>2. /\ s[k + 1].op \in CallbackOps \cup {"writeRegisters", "cont", "setState"}
          /\ s[k + 1].op = "setState" => k + 1 = Len(s)
          /\ s[k + 1].op = "cont" => (k + 1) + 1 = Len(s)
          /\ s[k + 1].op = "cont" => s[k].op = "writeRegisters"
          /\ s[k + 1].op = "writeRegisters" => (k + 1) + 2 = Len(s)
          /\ s[k + 1].op = "getRegs" => s[k].op = "readRegisters"
          /\ s[k + 1].op = "setRip" => /\ s[k + 1].arg \notin {"wild", "none"}
                                       /\ s[k].op = "getRegs"
          /\ s[k + 1].op = "jumpBack" =>
               \A j \in DOMAIN s : j < k + 1 => s[j].op \notin {"jumpBack", "setRip"}
      BY <3>1 DEF Driving
    <3>3. t[k].op = "jumpBack" =>
            \A j \in DOMAIN t : j < k => t[j].op \notin {"jumpBack", "setRip"}
      <4>1. \A j \in DOMAIN t : j < k => j + 1 < k + 1 /\ j + 1 \in DOMAIN s /\ t[j] = s[j + 1]
        BY <1>1
      <4>. QED BY <3>1, <3>2, <4>1
    <3>4. /\ t[k].op = "setState" => k = Len(t)
          /\ t[k].op = "cont" => k + 1 = Len(t)
          /\ t[k].op = "writeRegisters" => k + 2 = Len(t)
      BY <1>1, <3>1, <3>2
    <3>. QED BY <3>1, <3>2, <3>3, <3>4
  <2>. QED BY <2>1, <2>2 DEF Driving
<1>8. s[1].op \notin {"cont", "setState"} => t # <<>> /\ Has(s, "cont") /\ Has(t, "cont")
  <2>. SUFFICES ASSUME s[1].op \notin {"cont", "setState"}
                PROVE  t # <<>> /\ Has(s, "cont") /\ Has(t, "cont")
    OBVIOUS
  <2>1. Len(s) > 1
    BY <1>1, <1>4
  <2>2. Len(s) - 1 \in DOMAIN s /\ s[Len(s) - 1].op = "cont"
    BY <1>2, <1>6, <2>1
  <2>3. Len(s) - 1 # 1
    BY <2>2
  <2>4. PICK j \in DOMAIN t : t[j] = s[Len(s) - 1]
    BY <1>1, <2>2, <2>3
  <2>5. Has(s, "cont")
    BY <2>2 DEF Has
  <2>6. Has(t, "cont")
    BY <2>2, <2>4 DEF Has
  <2>. QED BY <1>3, <2>1, <2>5, <2>6
<1>9. s[1].op = "cont" => t # <<>> /\ ~Has(t, "cont") /\ Continued(t, 1)
  <2>. SUFFICES ASSUME s[1].op = "cont" PROVE t # <<>> /\ ~Has(t, "cont") /\ Continued(t, 1)
    OBVIOUS
  <2>1. Len(s) = 2
    BY <1>5
  <2>2. DOMAIN t = {1} /\ t[1] = s[2] /\ t # <<>>
    BY <1>1, <1>3, <2>1
  <2>3. Continued(s, 2)
    BY <1>2, <2>1
  <2>. QED BY <2>2, <2>3 DEF Has, Continued, Sets
<1>10. s[1].op = "writeRegisters" => t[1].op = "cont"
  <2>. SUFFICES ASSUME s[1].op = "writeRegisters" PROVE t[1].op = "cont"
    OBVIOUS
  <2>1. Len(s) = 3
    BY <1>5
  <2>. QED BY <1>1, <1>2, <1>3, <2>1
<1>11. /\ t # <<>> /\ t[1].op = "cont" => s[1].op = "writeRegisters"
       /\ t # <<>> /\ t[1].op = "getRegs" => s[1].op = "readRegisters"
       /\ t # <<>> /\ t[1].op = "setRip" => s[1].op = "getRegs"
  <2>1. 2 \in DOMAIN s => /\ s[2].op = "cont" => s[2 - 1].op = "writeRegisters"
                          /\ s[2].op = "getRegs" => s[2 - 1].op = "readRegisters"
                          /\ s[2].op = "setRip" => s[2 - 1].op = "getRegs"
    BY DEF Driving
  <2>. QED BY <1>1, <2>1
<1>12. s[1].op = "setState" => t = <<>>
  BY <1>3, <1>5
<1>. QED BY <1>7, <1>8, <1>9, <1>10, <1>11, <1>12

LEMMA TestsFirst ==
  ASSUME NEW s, IsSeq(s), Orderly(s), Tests(s)
  PROVE  /\ s # <<>> /\ s[1].op \in {"readRegisters", "testDr6"} /\ ~RecordsStop(s)
         /\ s[1].op = "readRegisters" => 2 \in DOMAIN s /\ s[2].op = "testDr6"
<1>1. PICK k \in DOMAIN s : s[k].op = "testDr6" /\ s[k].arg[1] # "clone"
  BY DEF Tests
<1>2. k \in {1, 2} /\ s # <<>>
  BY <1>1 DEF IsSeq, Orderly
<1>3. k = 2 => s[k - 1].op = "readRegisters"
  BY <1>1 DEF Orderly, Before
<1>4. ~RecordsStop(s)
  BY <1>1 DEF Orderly, RecordsStop, Continued
<1>. QED BY <1>1, <1>2, <1>3, <1>4

LEMMA PastFirst ==
  ASSUME NEW s, IsSeq(s), Orderly(s), s # <<>>, s[1].op \notin {"readRegisters", "setState"}
  PROVE  ~RecordsStop(s) /\ (s[1].op # "testDr6" => HandsOver(s))
<1>1. DOMAIN s = 1 .. Len(s) /\ Len(s) \in Nat /\ 1 \in DOMAIN s
  BY EmptySeqs DEF IsSeq
<1>2. \A k \in DOMAIN s : Sets(s, k) /\ ~Continued(s, k) => k = 1
  BY <1>1 DEF Orderly
<1>. QED BY <1>1, <1>2 DEF Orderly, RecordsStop, Sets, Continued, HandsOver

LEMMA HandsOverHas ==
  ASSUME NEW s, Orderly(s), NEW op, op \notin {"setState", "readRegisters", "testDr6"}, Has(s, op)
  PROVE  HandsOver(s)
BY DEF Has, Orderly, HandsOver

LEMMA DrivingHas ==
  ASSUME NEW s, IsSeq(s), Driving(s)
  PROVE  /\ \A op : op # "setState" /\ (Has(s, op) \/ Starts(s, op)) => Has(s, "cont")
         /\ ~Has(s, "cont") => s = <<>> \/ s[1].op = "setState"
<1>1. s # <<>> => 1 \in DOMAIN s
  BY EmptySeqs
<1>2. DOMAIN s = 1 .. Len(s) /\ Len(s) \in Nat
  BY DEF IsSeq
<1>3. ASSUME NEW k \in DOMAIN s, s[k].op # "setState" PROVE Has(s, "cont")
  <2>1. s # <<>> /\ s[Len(s)].op = "setState"
    BY <1>2, <1>3 DEF Driving, Continued, Sets
  <2>2. Len(s) > 1 /\ Len(s) - 1 \in DOMAIN s
    BY <1>2, <1>3, <2>1
  <2>. QED BY <2>1, <2>2 DEF Driving, Has
<1>. QED BY <1>1, <1>3 DEF Has, Starts

LEMMA RecordsTail ==
  ASSUME NEW s, NEW t, Rest(s, t)
  PROVE  /\ RecordsStop(t) => RecordsStop(s)
         /\ RecordsStop(s) => RecordsStop(t) \/ (Sets(s, 1) /\ s[1].arg = "STOPPED")
BY DEF RecordsStop, Rest, Sets

LEMMA TestsTail ==
  ASSUME NEW s, NEW t, Rest(s, t)
  PROVE  /\ Tests(t) => Tests(s)
         /\ Tests(s) => Tests(t) \/ s[1].op = "testDr6"
BY DEF Tests, Rest

(* An actor goes on to its next instruction.                               *)
LEMMA GoesOn ==
  ASSUME Shape, NEW a \in Actors, NEW op, At(a, op), Done(a)
  PROVE  /\ Rest(todo[a], todo'[a]) /\ todo[a][1].op = op /\ Arg(a) = todo[a][1].arg
         /\ \A b \in Actors \ {a} : todo'[b] = todo[b]
<1>1. /\ todo[a] # <<>> /\ Head(todo[a]) = todo[a][1] /\ todo[a][1].op = op
      /\ IsSeq(todo[a])
  BY AtFirst DEF Shape
<1>2. /\ todo' = [todo EXCEPT ![a] = <<>> \o Tail(todo[a])]
      /\ todo = [b \in Actors |-> todo[b]]
  BY DEF Done, Goto, Shape
<1>3. IsSeq(Tail(todo[a]))
  BY <1>1, Tailed
<1>4. <<>> \o Tail(todo[a]) = Tail(todo[a])
  <2>1. PICK t : t = Tail(todo[a])
    OBVIOUS
  <2>2. t \in Seq({t[k] : k \in 1 .. Len(t)})
    BY <1>3, <2>1, IsSeqOfElements
  <2>. QED BY <2>1, <2>2, ConcatEmptySeq
<1>5. todo'[a] = Tail(todo[a]) /\ \A b \in Actors \ {a} : todo'[b] = todo[b]
  BY <1>2, <1>4
<1>6. Rest(todo[a], todo'[a])
  BY <1>1, <1>5, Tailing
<1>. QED BY <1>1, <1>5, <1>6 DEF Arg

ListenerMoving ==
  {"setState", "readRegisters", "writeRegisters", "getRegs", "getDr6", "setDr6", "lock", "unlock"}

LEMMA ListenerMoves ==
  ASSUME Shape, Told, NEW op \in ListenerMoving \cup {"cont"}, At(Listener, op), Done(Listener), reason' = reason
  PROVE  /\ Told' /\ UNCHANGED CallbackTodo /\ Rest(ListenerTodo, ListenerTodo')
         /\ Starts(ListenerTodo, op) /\ Arg(Listener) = ListenerTodo[1].arg
         /\ op # "cont" => (LTurn' <=> LTurn)
         /\ op = "cont" => LTurn /\ ~LTurn'
         /\ Tests(ListenerTodo)' <=> Tests(ListenerTodo)
         /\ Tests(ListenerTodo) =>
              op = "readRegisters" /\ Past /\ LTurn /\ Starts(ListenerTodo, "testDr6")'
         /\ op # "setState" => (Past' <=> Past)
         /\ \A o : /\ Has(ListenerTodo, o)' => Has(ListenerTodo, o)
                   /\ Has(ListenerTodo, o) => Has(ListenerTodo, o)' \/ o = op
                   /\ Starts(ListenerTodo, o)' /\ o \in DOMAIN Before => op = Before[o]
<1>1. Listener \in Actors /\ Callback \in Actors \ {Listener}
  BY ActorsAssumption DEF Actors
<1>2. PICK s, t : s = ListenerTodo /\ t = ListenerTodo'
  OBVIOUS
<1>3. /\ Rest(s, t) /\ s[1].op = op /\ Arg(Listener) = s[1].arg /\ UNCHANGED CallbackTodo
  BY <1>1, <1>2, GoesOn DEF ListenerTodo, CallbackTodo
<1>4. Orderly(s) /\ IsSeq(s) /\ s # <<>>
  <2>1. IsSeq(s)
    BY <1>1, <1>2 DEF Shape, ListenerTodo
  <2>. QED BY <1>2, <1>3, <2>1 DEF Told, Rest
<1>5. /\ Orderly(t)
      /\ HandsOver(t) => HandsOver(s)
      /\ Hands(s, 1) => ~HandsOver(t)
      /\ HandsOver(s) /\ ~Hands(s, 1) => HandsOver(t)
      /\ \A o : t # <<>> /\ t[1].op = o /\ o \in DOMAIN Before => s[1].op = Before[o]
  BY <1>3, <1>4, OrderlyTail
<1>6. (op # "cont" => ~Hands(s, 1)) /\ (op = "cont" => Hands(s, 1) /\ HandsOver(s))
  BY <1>3 DEF ListenerMoving, Hands, HandsOver, Rest
<1>7. \A o : (Has(t, o) => Has(s, o)) /\ (Has(s, o) => Has(t, o) \/ s[1].op = o)
  BY <1>3, HasTail
<1>8. (Tests(t) => Tests(s)) /\ (Tests(s) => Tests(t) \/ s[1].op = "testDr6")
  BY <1>3, TestsTail
<1>9. Tests(s) => /\ op = "readRegisters" /\ ~RecordsStop(s) /\ HandsOver(s)
                  /\ t # <<>> /\ t[1].op = "testDr6"
  <2>. SUFFICES ASSUME Tests(s) PROVE /\ op = "readRegisters" /\ ~RecordsStop(s) /\ HandsOver(s)
                                      /\ t # <<>> /\ t[1].op = "testDr6"
    OBVIOUS
  <2>1. op = "readRegisters" /\ ~RecordsStop(s) /\ 2 \in DOMAIN s /\ s[2].op = "testDr6"
    BY <1>3, <1>4, TestsFirst DEF ListenerMoving
  <2>2. 1 \in DOMAIN t /\ t[1] = s[2] /\ t # <<>>
    BY <1>3, <2>1 DEF Rest, IsSeq
  <2>3. HandsOver(s)
    BY DEF Tests, HandsOver, Hands
  <2>. QED BY <2>1, <2>2, <2>3
<1>10. op # "setState" => (RecordsStop(t) <=> RecordsStop(s))
  BY <1>3, RecordsTail DEF Sets
<1>11. Told'
  <2>1. \A k \in DOMAIN t : k + 1 \in DOMAIN s /\ t[k] = s[k + 1]
    BY <1>3 DEF Rest
  <2>2. ASSUME NEW k \in DOMAIN t, t[k].op = "setDr6"
        PROVE  Has(t, "hit") /\ \A j \in DOMAIN t : t[j].op = "setDr6" => j = k
    <3>1. k \in Nat /\ k + 1 \in DOMAIN s /\ s[k + 1].op = "setDr6"
      BY <1>3, <2>1, <2>2 DEF Rest
    <3>2. Has(s, "hit") /\ \A j \in DOMAIN s : s[j].op = "setDr6" => j = k + 1
      BY <1>2, <3>1 DEF Told
    <3>3. s[1].op # "hit"
      BY <1>3 DEF ListenerMoving
    <3>4. \A j \in DOMAIN t : j \in Nat /\ k \in Nat
      BY <1>3 DEF Rest
    <3>. QED BY <1>7, <2>1, <3>2, <3>3, <3>4
  <2>3. /\ Driving(CallbackTodo)'
        /\ \A k \in DOMAIN t :
             /\ t[k].op = "trap" => t[k].arg = reason /\ reason \in Traps
             /\ t[k].op = "testDr6" =>
                  IF t[k].arg[1] = "clone" THEN t[k].arg[2]
                  ELSE t[k].arg[1] = reason /\ reason \in Traps /\ ~t[k].arg[2]
             /\ t[k].op = "matchBreakPoint" => reason \in {"break", "SEGV", "STOP"}
             /\ t[k].op = "hit" => t[k].arg \in {"watch", "break"}
    BY <1>2, <1>3, <2>1 DEF Told
  <2>. QED BY <1>2, <1>5, <2>2, <2>3 DEF Told
<1>12. (LTurn' <=> HandsOver(t)) /\ (LTurn <=> HandsOver(s)) /\ (Past <=> ~RecordsStop(s)) /\ (Past' <=> ~RecordsStop(t))
  BY <1>2 DEF LTurn, Past
<1>14. Tests(s) => Starts(ListenerTodo, "testDr6")'
  BY <1>2, <1>9 DEF Starts
<1>13. /\ Starts(ListenerTodo, op)
       /\ \A o : Starts(ListenerTodo, o)' /\ o \in DOMAIN Before => op = Before[o]
  BY <1>2, <1>3, <1>4, <1>5 DEF Starts
<1>. QED BY <1>2, <1>3, <1>5, <1>6, <1>7, <1>8, <1>9, <1>10, <1>11, <1>12, <1>13, <1>14 DEF ListenerMoving

-----------------------------------------------------------------------------
(* The steps of the listener.                                              *)

(* What the listener's move leaves alone.                                  *)
LEMMA QueueKept ==
  ASSUME UNCHANGED queue
  PROVE  (QTurn' <=> QTurn) /\ \A op : Queued(op)' <=> Queued(op)
BY DEF QTurn, Queued

LEMMA CallbackKept ==
  ASSUME UNCHANGED <<CallbackTodo, callbacks>>
  PROVE  (CTurn' <=> CTurn) /\ \A op : (Has(CallbackTodo, op)' <=> Has(CallbackTodo, op))
                                   /\ (Starts(CallbackTodo, op)' <=> Starts(CallbackTodo, op))
BY DEF CTurn

LEMMA KernelKept ==
  ASSUME UNCHANGED <<run, event>>
  PROVE  KTurn' <=> KTurn
BY DEF KTurn

LEMMA ListenerDone ==
  ASSUME Shape, Told, NEW op \in ListenerMoving, At(Listener, op), Done(Listener),
         UNCHANGED <<run, event, reason, callbacks>>
  PROVE  /\ Told' /\ UNCHANGED CallbackTodo /\ Rest(ListenerTodo, ListenerTodo')
         /\ Starts(ListenerTodo, op) /\ Arg(Listener) = ListenerTodo[1].arg
         /\ LTurn' <=> LTurn
         /\ CTurn' <=> CTurn
         /\ KTurn' <=> KTurn
         /\ Tests(ListenerTodo)' <=> Tests(ListenerTodo)
         /\ Tests(ListenerTodo) =>
              op = "readRegisters" /\ Past /\ LTurn /\ Starts(ListenerTodo, "testDr6")'
         /\ op # "setState" => (Past' <=> Past)
         /\ op \notin {"setState", "readRegisters"} => LTurn /\ Past
         /\ \A o : /\ Has(ListenerTodo, o)' => Has(ListenerTodo, o)
                   /\ Has(ListenerTodo, o) => Has(ListenerTodo, o)' \/ o = op
                   /\ Starts(ListenerTodo, o)' /\ o \in DOMAIN Before => op = Before[o]
                   /\ Has(CallbackTodo, o)' <=> Has(CallbackTodo, o)
                   /\ Starts(CallbackTodo, o)' <=> Starts(CallbackTodo, o)
<1>1. /\ Told' /\ UNCHANGED CallbackTodo /\ Rest(ListenerTodo, ListenerTodo')
      /\ Starts(ListenerTodo, op) /\ Arg(Listener) = ListenerTodo[1].arg
      /\ LTurn' <=> LTurn
      /\ Tests(ListenerTodo)' <=> Tests(ListenerTodo)
      /\ Tests(ListenerTodo) =>
           op = "readRegisters" /\ Past /\ LTurn /\ Starts(ListenerTodo, "testDr6")'
      /\ op # "setState" => (Past' <=> Past)
      /\ \A o : /\ Has(ListenerTodo, o)' => Has(ListenerTodo, o)
                /\ Has(ListenerTodo, o) => Has(ListenerTodo, o)' \/ o = op
                /\ Starts(ListenerTodo, o)' /\ o \in DOMAIN Before => op = Before[o]
  BY ListenerMoves DEF ListenerMoving
<1>2. /\ (CTurn' <=> CTurn) /\ (KTurn' <=> KTurn)
      /\ \A o : (Has(CallbackTodo, o)' <=> Has(CallbackTodo, o))
             /\ (Starts(CallbackTodo, o)' <=> Starts(CallbackTodo, o))
  BY <1>1, CallbackKept, KernelKept
<1>3. op \notin {"setState", "readRegisters"} => LTurn /\ Past
  <2>1. IsSeq(ListenerTodo) /\ Orderly(ListenerTodo)
    BY ActorsAssumption DEF Told, Shape, ListenerTodo, Actors
  <2>2. op # "testDr6"
    BY DEF ListenerMoving
  <2>. QED BY <1>1, <2>1, <2>2, PastFirst DEF Starts, LTurn, Past
<1>. QED BY <1>1, <1>2, <1>3

LEMMA ListenerLocks ==
  ASSUME Shape, Turn, NEW op \in {"lock", "unlock"}, At(Listener, op), Done(Listener),
         UNCHANGED <<kernelVars, threadVars, cacheVars, queue, callbacks, spurious, aim>>
  PROVE  Turn'
<1>1. /\ Told' /\ UNCHANGED CallbackTodo /\ Rest(ListenerTodo, ListenerTodo')
      /\ Starts(ListenerTodo, op)
      /\ LTurn' <=> LTurn
      /\ Tests(ListenerTodo)' <=> Tests(ListenerTodo)
      /\ ~Tests(ListenerTodo)
      /\ (Past' <=> Past)
      /\ \A o : /\ Has(ListenerTodo, o)' => Has(ListenerTodo, o)
                /\ Has(ListenerTodo, o) => Has(ListenerTodo, o)' \/ o = op
                /\ Starts(ListenerTodo, o)' /\ o \in DOMAIN Before => op = Before[o]
  BY ListenerMoves DEF ListenerMoving, Turn, kernelVars
<1>2. /\ (QTurn' <=> QTurn) /\ (\A o : Queued(o)' <=> Queued(o))
      /\ (CTurn' <=> CTurn) /\ (KTurn' <=> KTurn)
      /\ \A o : (Has(CallbackTodo, o)' <=> Has(CallbackTodo, o))
             /\ (Starts(CallbackTodo, o)' <=> Starts(CallbackTodo, o))
  BY <1>1, QueueKept, CallbackKept, KernelKept DEF kernelVars
<1>3. UNCHANGED <<run, event, reason, pending, rip, dr6, known, state, regSync, trapExp,
                  cRip, cDr6, futRegs, futDr6, peeked, spurious, aim, queue, callbacks>>
  BY DEF kernelVars, threadVars, cacheVars
<1>4. Told /\ Sent /\ Base /\ Turns /\ Caches /\ Dr6 /\ Rip
  BY DEF Turn
<1>5. Sent' /\ Base'
  BY <1>2, <1>3, <1>4 DEF Sent, Base
<1>6. LTurn
  BY <1>1, <1>4 DEF Told, LTurn, Starts, Orderly, Rest, HandsOver
<1>7. Turns'
  BY <1>1, <1>2, <1>3, <1>4, <1>6 DEF Turns
<1>8. ~Starts(ListenerTodo, "trap")' /\ ~Starts(ListenerTodo, "writeRegisters")' /\ ~Starts(ListenerTodo, "cont")'
      /\ ~Starts(ListenerTodo, "getRegs")' /\ ~Starts(ListenerTodo, "matchBreakPoint")'
  BY <1>1 DEF Before
<1>9. Caches'
  BY <1>1, <1>2, <1>3, <1>4, <1>8 DEF Caches
<1>10. Dr6'
  <2>1. cDr6 # {} => \E k \in DOMAIN ListenerTodo' : ListenerTodo'[k].op = "setDr6" /\ cDr6 = {ListenerTodo'[k].arg}
    BY <1>1, <1>4 DEF Dr6, Rest, Starts
  <2>2. WatchSeen' <=> WatchSeen
    BY <1>1, <1>3 DEF WatchSeen
  <2>. QED BY <1>1, <1>2, <1>3, <1>4, <1>6, <2>1, <2>2 DEF Dr6
<1>11. Rip'
  <2>1. AtBreak' <=> AtBreak
    BY <1>3 DEF AtBreak
  <2>2. \A k \in DOMAIN ListenerTodo' : ListenerTodo'[k].op = "hit" /\ ListenerTodo'[k].arg = "break" => AtBreak
    BY <1>1, <1>4 DEF Rip, Rest
  <2>. QED BY <1>1, <1>2, <1>3, <1>4, <1>6, <1>8, <2>1, <2>2 DEF Rip
<1>. QED BY <1>1, <1>5, <1>7, <1>9, <1>10, <1>11 DEF Turn

LEMMA ListenerGetsDr6 ==
  ASSUME Shape, Turn, GetDr6(Listener)
  PROVE  Turn'
<1>1. /\ Told' /\ UNCHANGED CallbackTodo /\ Rest(ListenerTodo, ListenerTodo')
      /\ Starts(ListenerTodo, "getDr6") /\ Arg(Listener) = ListenerTodo[1].arg
      /\ (LTurn' <=> LTurn) /\ (CTurn' <=> CTurn) /\ (KTurn' <=> KTurn)
      /\ Tests(ListenerTodo)' <=> Tests(ListenerTodo)
      /\ LTurn /\ Past /\ Past' /\ ~Tests(ListenerTodo)
      /\ \A o : /\ Has(ListenerTodo, o)' => Has(ListenerTodo, o)
                /\ Has(ListenerTodo, o) => Has(ListenerTodo, o)' \/ o = "getDr6"
                /\ Starts(ListenerTodo, o)' /\ o \in DOMAIN Before => "getDr6" = Before[o]
                /\ Has(CallbackTodo, o)' <=> Has(CallbackTodo, o)
                /\ Starts(CallbackTodo, o)' <=> Starts(CallbackTodo, o)
  <2>1. "getDr6" \in ListenerMoving /\ At(Listener, "getDr6") /\ Done(Listener) /\ Told
    BY DEF ListenerMoving, Turn, GetDr6
  <2>2. UNCHANGED <<run, event, reason, callbacks>>
    BY DEF GetDr6, kernelVars
  <2>. QED BY <2>1, <2>2, ListenerDone
<1>2. (QTurn' <=> QTurn) /\ (\A o : Queued(o)' <=> Queued(o))
  BY QueueKept DEF GetDr6
<1>3. UNCHANGED <<run, event, reason, pending, rip, dr6, known, state, regSync, trapExp,
                  cRip, cDr6, futRegs, peeked, spurious, aim, queue, callbacks>>
      /\ futDr6' = FALSE /\ (futDr6 => ~Queued("PEEKDR6"))
  BY DEF GetDr6, kernelVars, threadVars, historyVars
<1>4. Told /\ Sent /\ Base /\ Turns /\ Caches /\ Dr6 /\ Rip
  BY DEF Turn
<1>5. Sent' /\ Base'
  BY <1>1, <1>2, <1>3, <1>4 DEF Sent, Base, Turns
<1>7. Turns'
  BY <1>1, <1>2, <1>3, <1>4 DEF Turns
<1>8. /\ ~Starts(ListenerTodo, "trap")' /\ ~Starts(ListenerTodo, "writeRegisters")'
      /\ ~Starts(ListenerTodo, "cont")'
      /\ ~Starts(ListenerTodo, "getRegs")' /\ ~Starts(ListenerTodo, "matchBreakPoint")'
  BY <1>1 DEF Before
<1>9. Caches'
  BY <1>1, <1>2, <1>3, <1>4, <1>8 DEF Caches
<1>10. Dr6'
  <2>1. cDr6 # {} => \E k \in DOMAIN ListenerTodo' : ListenerTodo'[k].op = "setDr6" /\ cDr6 = {ListenerTodo'[k].arg}
    BY <1>1, <1>4 DEF Dr6, Rest, Starts
  <2>2. WatchSeen' <=> WatchSeen
    BY <1>1, <1>3 DEF WatchSeen
  <2>. QED BY <1>1, <1>2, <1>3, <1>4, <2>1, <2>2 DEF Dr6
<1>11. Rip'
  <2>1. AtBreak' <=> AtBreak
    BY <1>3 DEF AtBreak
  <2>2. \A k \in DOMAIN ListenerTodo' : ListenerTodo'[k].op = "hit" /\ ListenerTodo'[k].arg = "break" => AtBreak
    BY <1>1, <1>4 DEF Rip, Rest
  <2>. QED BY <1>1, <1>2, <1>3, <1>4, <1>8, <2>1, <2>2 DEF Rip
<1>. QED BY <1>1, <1>5, <1>7, <1>9, <1>10, <1>11 DEF Turn

LEMMA ListenerGetsRegs ==
  ASSUME Shape, Turn, GetRegs(Listener)
  PROVE  Turn'
<1>1. /\ Told' /\ UNCHANGED CallbackTodo /\ Rest(ListenerTodo, ListenerTodo')
      /\ Starts(ListenerTodo, "getRegs") /\ Arg(Listener) = ListenerTodo[1].arg
      /\ (LTurn' <=> LTurn) /\ (CTurn' <=> CTurn) /\ (KTurn' <=> KTurn)
      /\ Tests(ListenerTodo)' <=> Tests(ListenerTodo)
      /\ LTurn /\ Past /\ Past' /\ ~Tests(ListenerTodo)
      /\ \A o : /\ Has(ListenerTodo, o)' => Has(ListenerTodo, o)
                /\ Has(ListenerTodo, o) => Has(ListenerTodo, o)' \/ o = "getRegs"
                /\ Starts(ListenerTodo, o)' /\ o \in DOMAIN Before => "getRegs" = Before[o]
                /\ Has(CallbackTodo, o)' <=> Has(CallbackTodo, o)
                /\ Starts(CallbackTodo, o)' <=> Starts(CallbackTodo, o)
  <2>1. "getRegs" \in ListenerMoving /\ At(Listener, "getRegs") /\ Done(Listener) /\ Told
    BY DEF ListenerMoving, Turn, GetRegs
  <2>2. UNCHANGED <<run, event, reason, callbacks>>
    BY DEF GetRegs, kernelVars
  <2>. QED BY <2>1, <2>2, ListenerDone
<1>2. (QTurn' <=> QTurn) /\ (\A o : Queued(o)' <=> Queued(o))
  BY QueueKept DEF GetRegs
<1>3. UNCHANGED <<run, event, reason, pending, rip, dr6, known, state, regSync, trapExp,
                  cRip, cDr6, futDr6, peeked, spurious, aim, queue, callbacks>>
      /\ futRegs' = FALSE /\ (futRegs => ~Queued("GETREGS"))
  BY DEF GetRegs, kernelVars, threadVars, historyVars
<1>4. Told /\ Sent /\ Base /\ Turns /\ Caches /\ Dr6 /\ Rip
  BY DEF Turn
<1>5. Sent' /\ Base'
  BY <1>1, <1>2, <1>3, <1>4 DEF Sent, Base, Turns
<1>7. Turns'
  BY <1>1, <1>2, <1>3, <1>4 DEF Turns
<1>8. /\ ~Starts(ListenerTodo, "trap")' /\ ~Starts(ListenerTodo, "writeRegisters")'
      /\ ~Starts(ListenerTodo, "cont")'
      /\ ~Starts(ListenerTodo, "getRegs")'
  BY <1>1 DEF Before
<1>9. Caches'
  BY <1>1, <1>2, <1>3, <1>4, <1>8 DEF Caches
<1>10. Dr6'
  <2>1. cDr6 # {} => \E k \in DOMAIN ListenerTodo' : ListenerTodo'[k].op = "setDr6" /\ cDr6 = {ListenerTodo'[k].arg}
    BY <1>1, <1>4 DEF Dr6, Rest, Starts
  <2>2. WatchSeen' <=> WatchSeen
    BY <1>1, <1>3 DEF WatchSeen
  <2>. QED BY <1>1, <1>2, <1>3, <1>4, <2>1, <2>2 DEF Dr6
<1>11. Rip'
  <2>1. AtBreak => AtBreak'
    BY <1>3 DEF AtBreak
  <2>2. \A k \in DOMAIN ListenerTodo' : ListenerTodo'[k].op = "hit" /\ ListenerTodo'[k].arg = "break" => AtBreak
    BY <1>1, <1>4 DEF Rip, Rest
  <2>3. regSync # "OLD"
    BY <1>1, <1>4 DEF Rip
  <2>. QED BY <1>1, <1>2, <1>3, <1>4, <1>8, <2>1, <2>2, <2>3 DEF Rip
<1>. QED BY <1>1, <1>5, <1>7, <1>9, <1>10, <1>11 DEF Turn

LEMMA ListenerSetsDr6 ==
  ASSUME Shape, Turn, SetDr6Field(Listener)
  PROVE  Turn'
<1>1. /\ Told' /\ UNCHANGED CallbackTodo /\ Rest(ListenerTodo, ListenerTodo')
      /\ Starts(ListenerTodo, "setDr6") /\ Arg(Listener) = ListenerTodo[1].arg
      /\ (LTurn' <=> LTurn) /\ (CTurn' <=> CTurn) /\ (KTurn' <=> KTurn)
      /\ Tests(ListenerTodo)' <=> Tests(ListenerTodo)
      /\ LTurn /\ Past /\ Past' /\ ~Tests(ListenerTodo)
      /\ \A o : /\ Has(ListenerTodo, o)' => Has(ListenerTodo, o)
                /\ Has(ListenerTodo, o) => Has(ListenerTodo, o)' \/ o = "setDr6"
                /\ Starts(ListenerTodo, o)' /\ o \in DOMAIN Before => "setDr6" = Before[o]
                /\ Has(CallbackTodo, o)' <=> Has(CallbackTodo, o)
                /\ Starts(CallbackTodo, o)' <=> Starts(CallbackTodo, o)
  <2>1. "setDr6" \in ListenerMoving /\ At(Listener, "setDr6") /\ Done(Listener) /\ Told
    BY DEF ListenerMoving, Turn, SetDr6Field
  <2>2. UNCHANGED <<run, event, reason, callbacks>>
    BY DEF SetDr6Field, kernelVars
  <2>. QED BY <2>1, <2>2, ListenerDone
<1>2. (QTurn' <=> QTurn) /\ (\A o : Queued(o)' <=> Queued(o))
  BY QueueKept DEF SetDr6Field
<1>3. UNCHANGED <<run, event, reason, pending, rip, dr6, known, state, trapExp,
                  cRip, futRegs, futDr6, peeked, spurious, aim, queue, callbacks>>
      /\ regSync' = "NEW" /\ cDr6' = cDr6 \ {Arg(Listener)}
  BY DEF SetDr6Field, kernelVars, threadVars, historyVars
<1>4. Told /\ Sent /\ Base /\ Turns /\ Caches /\ Dr6 /\ Rip
  BY DEF Turn
<1>5. Sent' /\ Base'
  BY <1>1, <1>2, <1>3, <1>4 DEF Sent, Base, Turns
<1>7. Turns'
  BY <1>1, <1>2, <1>3, <1>4 DEF Turns
<1>8. /\ ~Starts(ListenerTodo, "trap")' /\ ~Starts(ListenerTodo, "writeRegisters")'
      /\ ~Starts(ListenerTodo, "cont")'
      /\ ~Starts(ListenerTodo, "getRegs")' /\ ~Starts(ListenerTodo, "matchBreakPoint")'
  BY <1>1 DEF Before
<1>12. 1 \in DOMAIN ListenerTodo /\ ListenerTodo[1].op = "setDr6"
  BY <1>1 DEF Rest, Starts
<1>13. Has(ListenerTodo, "hit") /\ \A k \in DOMAIN ListenerTodo : ListenerTodo[k].op = "setDr6" => k = 1
  BY <1>4, <1>12 DEF Told
<1>14. Has(ListenerTodo, "setDr6") /\ ~futDr6 /\ regSync = "SYNC"
  BY <1>4, <1>12 DEF Has, Dr6
<1>15. cDr6' = {}
  BY <1>1, <1>3, <1>4, <1>13 DEF Dr6
<1>16. ~Has(ListenerTodo, "setDr6")'
  BY <1>1, <1>13 DEF Has, Rest
<1>9. Caches'
  BY <1>1, <1>2, <1>3, <1>4, <1>8, <1>13 DEF Caches
<1>10. Dr6'
  <2>2. WatchSeen' <=> WatchSeen
    BY <1>1, <1>3 DEF WatchSeen
  <2>. QED BY <1>1, <1>2, <1>3, <1>4, <1>14, <1>15, <1>16, <2>2 DEF Dr6
<1>11. Rip'
  <2>1. AtBreak => AtBreak'
    BY <1>3 DEF AtBreak
  <2>2. \A k \in DOMAIN ListenerTodo' : ListenerTodo'[k].op = "hit" /\ ListenerTodo'[k].arg = "break" => AtBreak
    BY <1>1, <1>4 DEF Rip, Rest
  <2>. QED BY <1>1, <1>2, <1>3, <1>4, <1>8, <1>14, <2>1, <2>2 DEF Rip
<1>. QED BY <1>1, <1>5, <1>7, <1>9, <1>10, <1>11 DEF Turn

\* What the queue holds once commands are sent.
LEMMA QueuedOne ==
  ASSUME Shape, NEW c, Send(<<c>>)
  PROVE  /\ \A o : Queued(o)' <=> (Queued(o) \/ o = c.op)
         /\ Len(queue) \in Nat /\ Len(queue') = Len(queue) + 1
         /\ \A k \in DOMAIN queue' : \/ k \in DOMAIN queue /\ queue'[k] = queue[k]
                                     \/ k = Len(queue') /\ queue'[k] = c
<1>1. /\ Len(queue) \in Nat /\ DOMAIN queue = 1 .. Len(queue)
      /\ DOMAIN queue' = 1 .. Len(queue) + 1
      /\ \A k \in DOMAIN queue : queue'[k] = queue[k]
      /\ queue'[Len(queue) + 1] = c
  BY SentLast
<1>2. Len(queue') = Len(queue) + 1
  <2>1. Queues({c})
    BY QueueSent
  <2>. QED BY <1>1, <2>1 DEF IsSeq, Queues
<1>3. Len(queue) + 1 \in DOMAIN queue' /\ \A k \in DOMAIN queue : k \in DOMAIN queue'
  BY <1>1
<1>4. \A k \in DOMAIN queue' : k \in DOMAIN queue \/ k = Len(queue) + 1
  BY <1>1
<1>. QED BY <1>1, <1>2, <1>3, <1>4 DEF Queued

LEMMA QueuedTwo ==
  ASSUME Shape, NEW c, NEW d, Send(<<c, d>>)
  PROVE  /\ \A o : Queued(o)' <=> (Queued(o) \/ o = c.op \/ o = d.op)
         /\ \A k \in DOMAIN queue' : \/ k \in DOMAIN queue /\ queue'[k] = queue[k]
                                     \/ queue'[k] \in {c, d}
<1>1. PICK t : t = <<c, d>>
  OBVIOUS
<1>2. t \in Seq({c, d}) /\ Len(t) = 2 /\ t[1] = c /\ t[2] = d
  BY <1>1
<1>3. IsSeq(t)
  BY <1>2, AnySeq
<1>4. IsSeq(queue) /\ queue' = queue \o t
  BY <1>1 DEF Shape, Send
<1>5. /\ DOMAIN queue' = 1 .. Len(queue) + 2
      /\ \A k \in 1 .. Len(queue) : queue'[k] = queue[k]
      /\ \A k \in Len(queue) + 1 .. Len(queue) + 2 : queue'[k] = t[k - Len(queue)]
  <2>1. PICK q : q = queue \o t
    OBVIOUS
  <2>2. /\ DOMAIN q = 1 .. Len(queue) + Len(t)
        /\ \A k \in 1 .. Len(queue) : q[k] = queue[k]
        /\ \A k \in Len(queue) + 1 .. Len(queue) + Len(t) : q[k] = t[k - Len(queue)]
    BY <1>3, <1>4, <2>1, Concat
  <2>. QED BY <1>2, <1>4, <2>1, <2>2
<1>6. DOMAIN queue = 1 .. Len(queue) /\ Len(queue) \in Nat
  BY <1>4 DEF IsSeq
<1>7. queue'[Len(queue) + 1] = c /\ queue'[Len(queue) + 2] = d
  <2>1. (Len(queue) + 1) - Len(queue) = 1 /\ (Len(queue) + 2) - Len(queue) = 2
    BY <1>6
  <2>. QED BY <1>2, <1>5, <1>6, <2>1
<1>8. Len(queue) + 1 \in DOMAIN queue' /\ Len(queue) + 2 \in DOMAIN queue'
  BY <1>5, <1>6
<1>9. \A k \in DOMAIN queue' : k \in DOMAIN queue \/ k = Len(queue) + 1 \/ k = Len(queue) + 2
  BY <1>5, <1>6
<1>10. \A k \in DOMAIN queue : k \in DOMAIN queue' /\ queue'[k] = queue[k]
  BY <1>5, <1>6
<1>. QED BY <1>7, <1>8, <1>9, <1>10 DEF Queued

LEMMA ListenerReads ==
  ASSUME Shape, Turn, ReadRegisters(Listener)
  PROVE  Turn'
<1>1. /\ Told' /\ UNCHANGED CallbackTodo /\ Rest(ListenerTodo, ListenerTodo')
      /\ Starts(ListenerTodo, "readRegisters")
      /\ (LTurn' <=> LTurn) /\ (CTurn' <=> CTurn) /\ (KTurn' <=> KTurn)
      /\ Tests(ListenerTodo)' <=> Tests(ListenerTodo)
      /\ Tests(ListenerTodo) => Past /\ LTurn /\ Starts(ListenerTodo, "testDr6")'
      /\ (Past' <=> Past)
      /\ \A o : /\ Has(ListenerTodo, o)' => Has(ListenerTodo, o)
                /\ Has(ListenerTodo, o) => Has(ListenerTodo, o)' \/ o = "readRegisters"
                /\ Starts(ListenerTodo, o)' /\ o \in DOMAIN Before => "readRegisters" = Before[o]
                /\ Has(CallbackTodo, o)' <=> Has(CallbackTodo, o)
                /\ Starts(CallbackTodo, o)' <=> Starts(CallbackTodo, o)
  <2>1. "readRegisters" \in ListenerMoving /\ At(Listener, "readRegisters") /\ Done(Listener) /\ Told
    BY DEF ListenerMoving, Turn, ReadRegisters
  <2>2. UNCHANGED <<run, event, reason, callbacks>>
    BY DEF ReadRegisters, kernelVars
  <2>3. "readRegisters" # "setState"
    OBVIOUS
  <2>. QED BY <2>1, <2>2, <2>3, ListenerDone
<1>3. UNCHANGED <<run, event, reason, pending, rip, dr6, known, state, trapExp,
                  cRip, cDr6, peeked, spurious, aim, callbacks>>
  BY DEF ReadRegisters, kernelVars, historyVars
<1>4. Told /\ Sent /\ Base /\ Turns /\ Caches /\ Dr6 /\ Rip
  BY DEF Turn
<1>8. /\ ~Starts(ListenerTodo, "trap")' /\ ~Starts(ListenerTodo, "writeRegisters")'
      /\ ~Starts(ListenerTodo, "cont")' /\ ~Starts(ListenerTodo, "matchBreakPoint")'
  BY <1>1 DEF Before
<1>12. known
  BY <1>1, ActorsAssumption DEF Shape, Actors, ListenerTodo, Starts
<1>13. WatchSeen' <=> WatchSeen
  BY <1>1, <1>3 DEF WatchSeen
<1>14. \A k \in DOMAIN ListenerTodo' : k + 1 \in DOMAIN ListenerTodo /\ ListenerTodo'[k] = ListenerTodo[k + 1]
  BY <1>1 DEF Rest
<1>15. cDr6 # {} => \E k \in DOMAIN ListenerTodo' : ListenerTodo'[k].op = "setDr6" /\ cDr6 = {ListenerTodo'[k].arg}
  BY <1>1, <1>4 DEF Dr6, Rest, Starts
<1>16. Starts(ListenerTodo, "getRegs")' => Past /\ LTurn
  <2>. SUFFICES ASSUME Starts(ListenerTodo, "getRegs")' PROVE Past /\ LTurn
    OBVIOUS
  <2>1. IsSeq(ListenerTodo') /\ Orderly(ListenerTodo')
    BY <1>1 DEF Rest, Told
  <2>2. ~RecordsStop(ListenerTodo') /\ HandsOver(ListenerTodo')
    BY <2>1, PastFirst DEF Starts
  <2>. QED BY <1>1, <2>2 DEF Past, LTurn
<1>17. Tests(ListenerTodo)' => ~Starts(ListenerTodo, "readRegisters")'
  BY <1>1 DEF Starts
<1>18. ListenerTodo # <<>> /\ ~Continued(ListenerTodo, 1)
  BY <1>1 DEF Starts, Continued, Sets
<1>20. CASE state = "STOPPED" /\ regSync = "OLD"
  <2>1. /\ futDr6' = TRUE /\ futRegs' = TRUE /\ regSync' = "SYNC"
        /\ Send(<<Cmd(Listener, "PEEKDR6", "none"), Cmd(Listener, "GETREGS", "none")>>)
    BY <1>20 DEF ReadRegisters
  <2>12. PICK c : c = Cmd(Listener, "PEEKDR6", "none")
    OBVIOUS
  <2>13. PICK d : d = Cmd(Listener, "GETREGS", "none")
    OBVIOUS
  <2>2. c.op = "PEEKDR6" /\ d.op = "GETREGS"
    BY <2>12, <2>13 DEF Cmd
  <2>3. /\ \A o : Queued(o)' <=> (Queued(o) \/ o = "PEEKDR6" \/ o = "GETREGS")
        /\ \A k \in DOMAIN queue' : \/ k \in DOMAIN queue /\ queue'[k] = queue[k]
                                    \/ queue'[k].op \in {"PEEKDR6", "GETREGS"}
    <3>1. Send(<<c, d>>)
      BY <2>1, <2>12, <2>13
    <3>. QED BY <2>2, <3>1, QueuedTwo
  <2>4. LTurn
    <3>1. ListenerTodo # <<>> /\ ~Continued(ListenerTodo, 1) /\ state # "CONTINUED"
      BY <1>1, <1>20 DEF Starts, Continued, Sets
    <3>. QED BY <1>4, <3>1 DEF Turns
  <2>5. ~KTurn /\ ~CTurn /\ ~QTurn
    BY <1>4, <2>4 DEF Turns
  <2>6. ~QTurn' /\ Sent'
    <3>1. ~Queued("CONT")
      BY <2>5 DEF QTurn
    <3>2. ~QTurn'
      BY <2>3, <3>1 DEF QTurn
    <3>3. \A k \in DOMAIN queue : queue[k].op # "CONT"
      BY <3>1 DEF Queued
    <3>4. \A k \in DOMAIN queue' : /\ queue'[k].op \in QueueOps /\ queue'[k].op # "CONT"
                                   /\ queue'[k].op = "POKEDR6" => queue'[k].arg = {}
      BY <1>4, <2>3, <3>3 DEF Sent, QueueOps
    <3>5. Queued("SETREGS")' \/ Queued("POKEDR6")' => QTurn' \/ Starts(CallbackTodo, "cont")'
      BY <1>1, <1>4, <2>3, <2>5 DEF Sent
    <3>. QED BY <2>1, <3>2, <3>4, <3>5 DEF Sent
  <2>7. Base'
    BY <1>3, <1>4, <1>12 DEF Base
  <2>8. Turns'
    BY <1>1, <1>3, <1>4, <2>4, <2>5, <2>6 DEF Turns
  <2>9. Caches'
    BY <1>8, <1>17, <2>1 DEF Caches
  <2>10. Dr6'
    <3>1. ~Has(ListenerTodo, "setDr6") /\ ~Has(ListenerTodo, "hit")
      BY <1>4, <1>20 DEF Dr6
    <3>2. ~Has(ListenerTodo, "setDr6")' /\ ~Has(ListenerTodo, "hit")'
      BY <1>1, <3>1
    <3>3. dr6 # {} => (\E i \in WatchIdx : dr6 = {i}) /\ (event = "watch" \/ WatchSeen)
      <4>1. ~Queued("POKEDR6")
        BY <1>4, <2>4, <2>5, DrivingHas, ActorsAssumption DEF Sent, CTurn, Told, Shape, Actors, CallbackTodo
      <4>. QED BY <1>4, <1>20, <3>1, <4>1 DEF Dr6
    <3>. QED BY <1>1, <1>3, <1>4, <1>13, <1>15, <2>1, <2>3, <2>5, <3>2, <3>3 DEF Dr6
  <2>11. Rip'
    <3>1. ~AtBreak
      BY <1>20 DEF AtBreak
    <3>2. /\ \A k \in DOMAIN ListenerTodo' : ~(ListenerTodo'[k].op = "hit" /\ ListenerTodo'[k].arg = "break")
          /\ ~((\E k \in DOMAIN callbacks' : callbacks'[k] = "break") \/ Has(CallbackTodo, "jumpBack")')
      BY <1>1, <1>3, <1>4, <1>14, <3>1 DEF Rip
    <3>3. ~Starts(CallbackTodo, "setRip")' /\ ~Starts(CallbackTodo, "getRegs")'
      BY <1>1, <1>4, <1>20 DEF Rip
    <3>4. aim = "none"
      BY <1>4, <2>4 DEF Rip
    <3>. QED BY <1>1, <1>3, <1>4, <1>8, <2>1, <2>3, <3>2, <3>3, <3>4 DEF Rip
  <2>. QED BY <1>1, <2>6, <2>7, <2>8, <2>9, <2>10, <2>11 DEF Turn
<1>30. CASE ~(state = "STOPPED" /\ regSync = "OLD")
  <2>1. UNCHANGED <<queue, futDr6, futRegs, regSync>>
    BY <1>30 DEF ReadRegisters
  <2>2. (QTurn' <=> QTurn) /\ (\A o : Queued(o)' <=> Queued(o))
    BY <2>1, QueueKept
  <2>3. ~Tests(ListenerTodo)
    <3>1. Tests(ListenerTodo) => regSync = "OLD" /\ state = "STOPPED"
      BY <1>1, <1>4 DEF Turns, Caches
    <3>. QED BY <1>30, <3>1
  <2>4. Starts(ListenerTodo, "getRegs")' => regSync # "OLD"
    BY <1>1, <1>16, <1>30, <1>4 DEF Turns
  <2>5. Sent' /\ Base'
    BY <1>1, <1>3, <1>4, <2>1, <2>2 DEF Sent, Base
  <2>6. Turns'
    BY <1>1, <1>3, <1>4, <1>18, <2>1, <2>2 DEF Turns
  <2>7. Caches'
    BY <1>1, <1>3, <1>4, <1>8, <2>1, <2>2, <2>3 DEF Caches
  <2>8. Dr6'
    BY <1>1, <1>3, <1>4, <1>13, <1>15, <2>1, <2>2, <2>3 DEF Dr6
  <2>9. Rip'
    <3>1. AtBreak' <=> AtBreak
      BY <1>3, <2>1 DEF AtBreak
    <3>2. \A k \in DOMAIN ListenerTodo' : ListenerTodo'[k].op = "hit" /\ ListenerTodo'[k].arg = "break" => AtBreak
      BY <1>1, <1>4, <1>14 DEF Rip
    <3>. QED BY <1>1, <1>3, <1>4, <1>8, <2>1, <2>2, <2>4, <3>1, <3>2 DEF Rip
  <2>. QED BY <1>1, <2>5, <2>6, <2>7, <2>8, <2>9 DEF Turn
<1>. QED BY <1>20, <1>30

LEMMA ListenerWrites ==
  ASSUME Shape, Turn, WriteRegisters(Listener)
  PROVE  Turn'
<1>1. /\ Told' /\ UNCHANGED CallbackTodo /\ Rest(ListenerTodo, ListenerTodo')
      /\ Starts(ListenerTodo, "writeRegisters")
      /\ (LTurn' <=> LTurn) /\ (CTurn' <=> CTurn) /\ (KTurn' <=> KTurn)
      /\ Tests(ListenerTodo)' <=> Tests(ListenerTodo)
      /\ LTurn /\ Past /\ Past' /\ ~Tests(ListenerTodo)
      /\ \A o : /\ Has(ListenerTodo, o)' => Has(ListenerTodo, o)
                /\ Has(ListenerTodo, o) => Has(ListenerTodo, o)' \/ o = "writeRegisters"
                /\ Starts(ListenerTodo, o)' /\ o \in DOMAIN Before => "writeRegisters" = Before[o]
                /\ Has(CallbackTodo, o)' <=> Has(CallbackTodo, o)
                /\ Starts(CallbackTodo, o)' <=> Starts(CallbackTodo, o)
  <2>1. "writeRegisters" \in ListenerMoving /\ At(Listener, "writeRegisters") /\ Done(Listener) /\ Told
    BY DEF ListenerMoving, Turn, WriteRegisters, WriteRegistersWith
  <2>2. UNCHANGED <<run, event, reason, callbacks>>
    BY DEF WriteRegisters, WriteRegistersWith, kernelVars
  <2>. QED BY <2>1, <2>2, ListenerDone
<1>4. Told /\ Sent /\ Base /\ Turns /\ Caches /\ Dr6 /\ Rip
  BY DEF Turn
<1>3. UNCHANGED <<run, event, reason, pending, rip, dr6, known, state, trapExp, regSync, queue,
                  cRip, cDr6, futRegs, futDr6, peeked, spurious, aim, callbacks>>
  <2>1. regSync = "OLD"
    BY <1>1, <1>4 DEF Caches
  <2>. QED BY <2>1 DEF WriteRegisters, WriteRegistersWith, kernelVars, cacheVars, historyVars
<1>2. (QTurn' <=> QTurn) /\ (\A o : Queued(o)' <=> Queued(o))
  BY <1>3, QueueKept
<1>5. Sent' /\ Base'
  BY <1>1, <1>2, <1>3, <1>4 DEF Sent, Base
<1>7. Turns'
  BY <1>1, <1>2, <1>3, <1>4 DEF Turns
<1>8. /\ ~Starts(ListenerTodo, "trap")' /\ ~Starts(ListenerTodo, "writeRegisters")'
      /\ ~Starts(ListenerTodo, "getRegs")' /\ ~Starts(ListenerTodo, "matchBreakPoint")'
  BY <1>1 DEF Before
<1>9. Caches'
  <2>1. regSync = "OLD"
    BY <1>1, <1>4 DEF Caches
  <2>. QED BY <1>1, <1>2, <1>3, <1>4, <1>8, <2>1 DEF Caches
<1>10. Dr6'
  <2>1. cDr6 # {} => \E k \in DOMAIN ListenerTodo' : ListenerTodo'[k].op = "setDr6" /\ cDr6 = {ListenerTodo'[k].arg}
    BY <1>1, <1>4 DEF Dr6, Rest, Starts
  <2>2. WatchSeen' <=> WatchSeen
    BY <1>1, <1>3 DEF WatchSeen
  <2>. QED BY <1>1, <1>2, <1>3, <1>4, <2>1, <2>2 DEF Dr6
<1>11. Rip'
  <2>1. AtBreak' <=> AtBreak
    BY <1>3 DEF AtBreak
  <2>2. \A k \in DOMAIN ListenerTodo' : ListenerTodo'[k].op = "hit" /\ ListenerTodo'[k].arg = "break" => AtBreak
    BY <1>1, <1>4 DEF Rip, Rest
  <2>. QED BY <1>1, <1>2, <1>3, <1>4, <1>8, <2>1, <2>2 DEF Rip
<1>. QED BY <1>1, <1>5, <1>7, <1>9, <1>10, <1>11 DEF Turn

LEMMA ListenerConts ==
  ASSUME Shape, Turn, PushCont(Listener)
  PROVE  Turn'
<1>1. /\ Told' /\ UNCHANGED CallbackTodo /\ Rest(ListenerTodo, ListenerTodo')
      /\ Starts(ListenerTodo, "cont")
      /\ LTurn /\ ~LTurn'
      /\ ~Tests(ListenerTodo)' /\ ~Tests(ListenerTodo)
      /\ Past' <=> Past
      /\ \A o : /\ Has(ListenerTodo, o)' => Has(ListenerTodo, o)
                /\ Has(ListenerTodo, o) => Has(ListenerTodo, o)' \/ o = "cont"
                /\ Starts(ListenerTodo, o)' /\ o \in DOMAIN Before => "cont" = Before[o]
  <2>1. "cont" \in ListenerMoving \cup {"cont"} /\ At(Listener, "cont") /\ Done(Listener) /\ Told
    BY DEF Turn, PushCont
  <2>2. UNCHANGED reason
    BY DEF PushCont, kernelVars
  <2>. QED BY <2>1, <2>2, ListenerMoves
<1>3. UNCHANGED <<run, event, reason, pending, rip, dr6, known, state, trapExp, regSync,
                  cRip, cDr6, futRegs, futDr6, peeked, spurious, aim, callbacks>>
      /\ Send(<<Cmd(Listener, "CONT", Arg(Listener))>>)
  BY DEF PushCont, kernelVars, threadVars, cacheVars, historyVars
<1>4. Told /\ Sent /\ Base /\ Turns /\ Caches /\ Dr6 /\ Rip
  BY DEF Turn
<1>2. /\ (CTurn' <=> CTurn) /\ (KTurn' <=> KTurn)
      /\ \A o : (Has(CallbackTodo, o)' <=> Has(CallbackTodo, o))
             /\ (Starts(CallbackTodo, o)' <=> Starts(CallbackTodo, o))
  BY <1>1, <1>3, CallbackKept, KernelKept
<1>5. PICK c : c = Cmd(Listener, "CONT", Arg(Listener))
  OBVIOUS
<1>6. c.op = "CONT"
  BY <1>5 DEF Cmd
<1>7. /\ \A o : Queued(o)' <=> (Queued(o) \/ o = "CONT")
      /\ Len(queue) \in Nat /\ Len(queue') = Len(queue) + 1
      /\ \A k \in DOMAIN queue' : \/ k \in DOMAIN queue /\ queue'[k] = queue[k]
                                  \/ k = Len(queue') /\ queue'[k] = c
  <2>1. Send(<<c>>)
    BY <1>3, <1>5
  <2>. QED BY <1>6, <2>1, QueuedOne
<1>8. QTurn'
  BY <1>7 DEF QTurn
<1>9. /\ ~KTurn /\ ~CTurn /\ ~QTurn /\ regSync = "OLD" /\ known /\ event \in NoStop /\ aim = "none"
      /\ callbacks = <<>> /\ ~Has(CallbackTodo, "cont")
  BY <1>1, <1>4 DEF Turns, Caches, KTurn, Rip, CTurn
<1>10. /\ ~Has(ListenerTodo, "hit") /\ ~Has(ListenerTodo, "trap") /\ ~Has(ListenerTodo, "setDr6")
       /\ ~Has(ListenerTodo, "matchBreakPoint") /\ ~Has(ListenerTodo, "getRegs")
  <2>1. 1 \in DOMAIN ListenerTodo /\ ListenerTodo[1].op = "cont" /\ Orderly(ListenerTodo) /\ DOMAIN ListenerTodo = 1 .. Len(ListenerTodo)
    BY <1>1, <1>4 DEF Rest, Starts, Told
  <2>2. \A j \in DOMAIN ListenerTodo : j > 1 => ~Hands(ListenerTodo, j)
    BY <2>1 DEF Orderly
  <2>3. \A j \in DOMAIN ListenerTodo : j # 1 => j > 1
    BY <2>1
  <2>4. \A j \in DOMAIN ListenerTodo : ListenerTodo[j].op \notin {"hit", "trap", "matchBreakPoint"}
    BY <2>1, <2>2, <2>3 DEF Hands
  <2>5. ~HandsOver(ListenerTodo)'
    BY <1>1 DEF LTurn
  <2>6. \A o : o \notin {"setState", "readRegisters", "testDr6"} => ~Has(ListenerTodo, o)'
    BY <1>1, <2>5, HandsOverHas DEF Told
  <2>. QED BY <1>1, <2>4, <2>6 DEF Has
<1>11. Sent'
  <2>1. \A k \in DOMAIN queue : queue[k].op # "CONT"
    BY <1>9 DEF QTurn, Queued
  <2>2. \A k \in DOMAIN queue' : /\ queue'[k].op \in QueueOps
                                 /\ queue'[k].op = "POKEDR6" => queue'[k].arg = {}
                                 /\ queue'[k].op = "CONT" => k = Len(queue')
    BY <1>4, <1>6, <1>7, <2>1 DEF Sent, QueueOps
  <2>. QED BY <1>3, <1>4, <1>7, <1>8, <2>2 DEF Sent
<1>12. Base'
  BY <1>3, <1>4 DEF Base
<1>13. Continued(ListenerTodo', 1)
  <2>0. 1 \in DOMAIN ListenerTodo /\ ListenerTodo[1].op = "cont"
    BY <1>1 DEF Rest, Starts
  <2>1. Paired(ListenerTodo) /\ 1 \in DOMAIN ListenerTodo /\ ListenerTodo[1].op = "cont"
    <3>1. Listener \in Actors /\ todo[Listener][1].op # "readRegisters"
      BY <2>0 DEF Actors, ListenerTodo
    <3>. QED BY <2>0, <3>1, PairedUnless DEF ListenerTodo
  <2>2. 2 \in DOMAIN ListenerTodo /\ Continued(ListenerTodo, 2)
    BY <2>1 DEF Paired
  <2>3. 1 \in DOMAIN ListenerTodo' /\ ListenerTodo'[1] = ListenerTodo[2]
    BY <1>1, <2>2 DEF Rest
  <2>. QED BY <2>2, <2>3 DEF Continued, Sets
<1>14. Turns'
  BY <1>1, <1>2, <1>3, <1>4, <1>8, <1>9, <1>13 DEF Turns
<1>15. /\ \A o : o \in DOMAIN Before => ~Starts(ListenerTodo, o)'
       /\ ~Has(ListenerTodo, "hit")' /\ ~Has(ListenerTodo, "setDr6")'
  BY <1>1, <1>10 DEF Before
<1>16. Caches'
  BY <1>1, <1>3, <1>9, <1>15 DEF Caches, Before
<1>17. Dr6'
  <2>1. dr6 = {} /\ cDr6 = {}
    <3>1. ~WatchSeen
      BY <1>1, <1>10 DEF WatchSeen
    <3>2. ~Queued("POKEDR6")
      BY <1>4, <1>9, DrivingHas, ActorsAssumption DEF Sent, Told, Shape, Actors, CallbackTodo
    <3>3. \A k \in DOMAIN ListenerTodo : ListenerTodo[k].op # "setDr6"
      BY <1>10 DEF Has
    <3>. QED BY <1>4, <1>9, <1>10, <3>1, <3>2, <3>3 DEF Dr6, NoStop
  <2>2. ~WatchSeen'
    BY <1>1 DEF WatchSeen
  <2>3. futDr6 => Queued("PEEKDR6")' \/ peeked = {}
    BY <1>4, <1>7, <2>1 DEF Dr6
  <2>. QED BY <1>1, <1>3, <1>9, <1>15, <2>1, <2>2, <2>3 DEF Dr6, NoStop
<1>18. Rip'
  <2>1. ~(CTurn') /\ callbacks' = <<>>
    BY <1>2, <1>3, <1>9
  <2>2. \A o : o # "setState" => ~Has(CallbackTodo, o)' /\ ~Starts(CallbackTodo, o)'
    <3>1. IsSeq(CallbackTodo) /\ Driving(CallbackTodo)
      BY <1>4, ActorsAssumption DEF Told, Shape, Actors, CallbackTodo
    <3>. QED BY <1>2, <1>9, <3>1, DrivingHas
  <2>3. \A k \in DOMAIN ListenerTodo' : ListenerTodo'[k].op # "hit"
    BY <1>15 DEF Has
  <2>4. rip # "wild" /\ cRip # "wild"
    BY <1>4 DEF Rip
  <2>. QED BY <1>1, <1>2, <1>3, <1>9, <1>15, <2>1, <2>2, <2>3, <2>4 DEF Rip, Before, NoStop
<1>. QED BY <1>1, <1>11, <1>12, <1>14, <1>16, <1>17, <1>18 DEF Turn

LEMMA ListenerSetsState ==
  ASSUME Shape, Kernel, Turn, SetState(Listener), run # "dead", ~overtaken'
  PROVE  Turn'
<1>1. /\ Told' /\ UNCHANGED CallbackTodo /\ Rest(ListenerTodo, ListenerTodo')
      /\ Starts(ListenerTodo, "setState") /\ Arg(Listener) = ListenerTodo[1].arg
      /\ (LTurn' <=> LTurn) /\ (CTurn' <=> CTurn) /\ (KTurn' <=> KTurn)
      /\ ~Tests(ListenerTodo)' /\ ~Tests(ListenerTodo)
      /\ \A o : /\ Has(ListenerTodo, o)' => Has(ListenerTodo, o)
                /\ Has(ListenerTodo, o) => Has(ListenerTodo, o)' \/ o = "setState"
                /\ Starts(ListenerTodo, o)' /\ o \in DOMAIN Before => "setState" = Before[o]
                /\ Has(CallbackTodo, o)' <=> Has(CallbackTodo, o)
                /\ Starts(CallbackTodo, o)' <=> Starts(CallbackTodo, o)
  <2>1. "setState" \in ListenerMoving /\ At(Listener, "setState") /\ Done(Listener) /\ Told
    BY DEF ListenerMoving, Turn, SetState
  <2>2. UNCHANGED <<run, event, reason, callbacks>>
    BY DEF SetState, kernelVars
  <2>3. "setState" # "readRegisters"
    OBVIOUS
  <2>. QED BY <2>1, <2>2, <2>3, ListenerDone
<1>3. UNCHANGED <<run, event, reason, pending, rip, dr6, known, trapExp, queue,
                  cRip, cDr6, futRegs, futDr6, peeked, spurious, aim, callbacks>>
      /\ state' = Arg(Listener) /\ regSync' = "OLD"
  BY DEF SetState, kernelVars, cacheVars
<1>4. Told /\ Sent /\ Base /\ Turns /\ Caches /\ Dr6 /\ Rip
  BY DEF Turn
<1>2. (QTurn' <=> QTurn) /\ (\A o : Queued(o)' <=> Queued(o))
  BY <1>3, QueueKept
<1>6. /\ 1 \in DOMAIN ListenerTodo /\ Sets(ListenerTodo, 1) /\ ListenerTodo # <<>>
      /\ Orderly(ListenerTodo) /\ Tidy(ListenerTodo)
      /\ IsSeq(CallbackTodo) /\ Driving(CallbackTodo)
  <2>1. Tidy(ListenerTodo) /\ IsSeq(CallbackTodo)
    BY ActorsAssumption DEF Shape, Actors, ListenerTodo, CallbackTodo
  <2>. QED BY <1>1, <1>4, <2>1 DEF Rest, Starts, Told, Sets
<1>7. Arg(Listener) \in {"STOPPED", "CONTINUED"}
  <2>1. Arg(Listener) \in {"STOPPED", "CONTINUED", "EXITED", "TERMINATED"}
    BY <1>1, <1>6 DEF Tidy
  <2>2. Arg(Listener) \notin Ended
    BY <1>1, <1>6 DEF Kernel, RecordsEnd, ListenerTodo
  <2>. QED BY <2>1, <2>2 DEF Ended
<1>5. Sent' /\ Base'
  BY <1>1, <1>2, <1>3, <1>4, <1>7 DEF Sent, Base
<1>8. /\ \A k \in DOMAIN ListenerTodo : ListenerTodo[k].op \notin {"hit", "setDr6"}
      /\ Arg(Listener) = "STOPPED" => LTurn
      /\ Arg(Listener) = "CONTINUED" => ~LTurn
  <2>1. CASE Arg(Listener) = "STOPPED"
    <3>1. Sets(ListenerTodo, 1) /\ ~Continued(ListenerTodo, 1)
      BY <1>1, <1>6, <2>1 DEF Continued
    <3>. QED BY <1>6, <2>1, <3>1 DEF Orderly, LTurn, HandsOver
  <2>2. CASE Arg(Listener) = "CONTINUED"
    <3>1. Continued(ListenerTodo, 1)
      BY <1>1, <1>6, <2>2 DEF Continued
    <3>2. \A j \in DOMAIN ListenerTodo : j > 1 => ~Hands(ListenerTodo, j)
      BY <1>6, <3>1 DEF Orderly
    <3>3. ~Hands(ListenerTodo, 1)
      BY <1>6 DEF Hands, Sets
    <3>4. \A j \in DOMAIN ListenerTodo : j # 1 => j > 1
      BY <1>1 DEF Rest
    <3>5. ~LTurn
      BY <3>2, <3>3, <3>4 DEF LTurn, HandsOver
    <3>6. ~Has(ListenerTodo, "hit") /\ ~Has(ListenerTodo, "setDr6")
      BY <1>6, <3>5, HandsOverHas DEF LTurn
    <3>. QED BY <2>2, <3>5, <3>6 DEF Has
  <2>. QED BY <1>7, <2>1, <2>2
<1>9. ~CTurn /\ ~Has(CallbackTodo, "cont") /\ callbacks = <<>>
  BY <1>4, <1>6, ActorsAssumption DEF Turns, CTurn
<1>10. \A o : o # "setState" => ~Has(CallbackTodo, o)' /\ ~Starts(CallbackTodo, o)'
  BY <1>1, <1>6, <1>9, DrivingHas
<1>11. Arg(Listener) = "STOPPED" => CallbackTodo = <<>>
  <2>. SUFFICES ASSUME Arg(Listener) = "STOPPED", CallbackTodo # <<>> PROVE FALSE
    OBVIOUS
  <2>1. CallbackTodo[1].op = "setState"
    BY <1>6, <1>9, DrivingHas
  <2>2. Head(CallbackTodo) = CallbackTodo[1]
    BY <1>6, Tailed
  <2>3. At(Callback, "setState") /\ Callback \in Actors \ {Listener}
    BY <2>1, <2>2, ActorsAssumption DEF At, CallbackTodo, Actors
  <2>. QED BY <2>3 DEF SetState
<1>12. /\ ~Has(ListenerTodo, "hit")' /\ ~Has(ListenerTodo, "setDr6")'
       /\ ~Has(ListenerTodo, "hit") /\ ~Has(ListenerTodo, "setDr6")
  BY <1>1, <1>8 DEF Has
<1>13. regSync # "NEW" /\ ~Starts(ListenerTodo, "getRegs")' /\ ~Starts(ListenerTodo, "matchBreakPoint")'
       /\ ~Starts(ListenerTodo, "testDr6")'
  BY <1>1, <1>4, <1>9, <1>12 DEF Caches, Before
<1>14. Turns'
  BY <1>1, <1>2, <1>3, <1>4, <1>6, <1>7, <1>8, <1>9, <1>11 DEF Turns
<1>15. Caches'
  BY <1>3 DEF Caches
<1>16. Dr6'
  <2>1. WatchSeen' <=> WatchSeen
    BY <1>1, <1>3 DEF WatchSeen
  <2>2. cDr6 = {}
    BY <1>4, <1>8 DEF Dr6
  <2>. QED BY <1>1, <1>2, <1>3, <1>4, <1>12, <1>13, <2>1, <2>2 DEF Dr6
<1>17. Rip'
  <2>1. \A k \in DOMAIN ListenerTodo' : ListenerTodo'[k].op # "hit"
    BY <1>12 DEF Has
  <2>2. callbacks' = <<>> /\ ~(CTurn')
    BY <1>1, <1>3, <1>9
  <2>. QED BY <1>1, <1>2, <1>3, <1>4, <1>9, <1>10, <1>13, <2>1, <2>2 DEF Rip
<1>. QED BY <1>1, <1>5, <1>14, <1>15, <1>16, <1>17 DEF Turn

\* The lists the listener goes on with.
LEMMA UnhandledElements ==
  ASSUME NEW t, t = Unhandled
  PROVE  /\ IsSeq(t) /\ Len(t) = 3 /\ DOMAIN t = 1 .. 3
         /\ t[1].op = "readRegisters" /\ t[2].op = "getRegs" /\ t[3].op = "matchBreakPoint"
<1>1. PICK s : s = GetRip
  OBVIOUS
<1>2. PICK u : u = <<Op("matchBreakPoint")>>
  OBVIOUS
<1>3. s \in Seq({Op("readRegisters"), Op("getRegs")}) /\ Len(s) = 2 /\ s[1] = Op("readRegisters") /\ s[2] = Op("getRegs")
  BY <1>1 DEF GetRip
<1>4. u \in Seq({Op("matchBreakPoint")}) /\ Len(u) = 1 /\ u[1] = Op("matchBreakPoint")
  BY <1>2
<1>5. IsSeq(s) /\ IsSeq(u)
  BY <1>3, <1>4, AnySeq
<1>6. t = s \o u
  BY <1>1, <1>2 DEF Unhandled
<1>9. /\ IsSeq(t) /\ Len(t) = Len(s) + Len(u) /\ DOMAIN t = 1 .. Len(s) + Len(u)
      /\ \A k \in 1 .. Len(s) : t[k] = s[k]
      /\ \A k \in Len(s) + 1 .. Len(s) + Len(u) : t[k] = u[k - Len(s)]
  <2>1. /\ IsSeq(s \o u) /\ Len(s \o u) = Len(s) + Len(u) /\ DOMAIN (s \o u) = 1 .. Len(s) + Len(u)
        /\ \A k \in 1 .. Len(s) : (s \o u)[k] = s[k]
        /\ \A k \in Len(s) + 1 .. Len(s) + Len(u) : (s \o u)[k] = u[k - Len(s)]
    BY <1>3, <1>5, Concat
  <2>. QED BY <1>6, <2>1
<1>7. /\ IsSeq(t) /\ Len(t) = 3 /\ DOMAIN t = 1 .. 3
      /\ \A k \in 1 .. 2 : t[k] = s[k]
      /\ \A k \in 3 .. 3 : t[k] = u[k - 2]
  BY <1>3, <1>4, <1>9
<1>8. t[1] = s[1] /\ t[2] = s[2] /\ t[3] = u[1]
  BY <1>7
<1>. QED BY <1>3, <1>4, <1>7, <1>8 DEF Op, Instr

WatchHit(idx) == SetDr6(idx) \o <<Instr("hit", "watch")>>
CloneThen(x) == Resume("none") \o <<Op("readRegisters"), Instr("testDr6", x)>>

LEMMA WatchHitElements ==
  ASSUME NEW idx, NEW t, t = WatchHit(idx)
  PROVE  /\ IsSeq(t) /\ Len(t) = 6 /\ DOMAIN t = 1 .. 6
         /\ t[1].op = "lock" /\ t[2].op = "readRegisters" /\ t[3].op = "getDr6"
         /\ t[4].op = "setDr6" /\ t[4].arg = idx /\ t[5].op = "unlock"
         /\ t[6].op = "hit" /\ t[6].arg = "watch"
<1>1. PICK s : s = SetDr6(idx)
  OBVIOUS
<1>2. PICK u : u = <<Instr("hit", "watch")>>
  OBVIOUS
<1> DEFINE S == {Op("lock"), Op("readRegisters"), Op("getDr6"), Instr("setDr6", idx), Op("unlock")}
<1>3. /\ s \in Seq(S) /\ Len(s) = 5
      /\ s[1] = Op("lock") /\ s[2] = Op("readRegisters") /\ s[3] = Op("getDr6")
      /\ s[4] = Instr("setDr6", idx) /\ s[5] = Op("unlock")
  BY <1>1 DEF SetDr6
<1>4. u \in Seq({Instr("hit", "watch")}) /\ Len(u) = 1 /\ u[1] = Instr("hit", "watch")
  BY <1>2
<1>5. IsSeq(s) /\ IsSeq(u)
  <2>. HIDE DEF S
  <2>. QED BY <1>3, <1>4, AnySeq
<1>6. t = s \o u
  BY <1>1, <1>2 DEF WatchHit, CloneThen
<1>9. /\ IsSeq(t) /\ Len(t) = Len(s) + Len(u) /\ DOMAIN t = 1 .. Len(s) + Len(u)
      /\ \A k \in 1 .. Len(s) : t[k] = s[k]
      /\ \A k \in Len(s) + 1 .. Len(s) + Len(u) : t[k] = u[k - Len(s)]
  <2>1. /\ IsSeq(s \o u) /\ Len(s \o u) = Len(s) + Len(u) /\ DOMAIN (s \o u) = 1 .. Len(s) + Len(u)
        /\ \A k \in 1 .. Len(s) : (s \o u)[k] = s[k]
        /\ \A k \in Len(s) + 1 .. Len(s) + Len(u) : (s \o u)[k] = u[k - Len(s)]
    BY <1>3, <1>5, Concat
  <2>. QED BY <1>6, <2>1
<1>7. /\ IsSeq(t) /\ Len(t) = 6 /\ DOMAIN t = 1 .. 6
      /\ \A k \in 1 .. 5 : t[k] = s[k]
      /\ \A k \in 6 .. 6 : t[k] = u[k - 5]
  BY <1>3, <1>4, <1>9
<1>8. t[1] = s[1] /\ t[2] = s[2] /\ t[3] = s[3] /\ t[4] = s[4] /\ t[5] = s[5] /\ t[6] = u[1]
  BY <1>7
<1>. QED BY <1>3, <1>4, <1>7, <1>8 DEF Op, Instr

LEMMA CloneElements ==
  ASSUME NEW x, NEW t, t = CloneThen(x)
  PROVE  /\ IsSeq(t) /\ Len(t) = 5 /\ DOMAIN t = 1 .. 5
         /\ t[1].op = "writeRegisters" /\ t[2].op = "cont" /\ Continued(t, 3)
         /\ t[4].op = "readRegisters" /\ t[5].op = "testDr6" /\ t[5].arg = x
<1>1. PICK s : s = Resume("none")
  OBVIOUS
<1>2. PICK u : u = <<Op("readRegisters"), Instr("testDr6", x)>>
  OBVIOUS
<1>3. /\ IsSeq(s) /\ Len(s) = 3 /\ s[1].op = "writeRegisters" /\ s[2].op = "cont"
      /\ s[3].op = "setState" /\ s[3].arg = "CONTINUED"
  BY <1>1, ResumeElements
<1>4. /\ u \in Seq({Op("readRegisters"), Instr("testDr6", x)}) /\ Len(u) = 2
      /\ u[1] = Op("readRegisters") /\ u[2] = Instr("testDr6", x)
  BY <1>2
<1>5. IsSeq(u)
  BY <1>4, AnySeq
<1>6. t = s \o u
  BY <1>1, <1>2 DEF WatchHit, CloneThen
<1>9. /\ IsSeq(t) /\ Len(t) = Len(s) + Len(u) /\ DOMAIN t = 1 .. Len(s) + Len(u)
      /\ \A k \in 1 .. Len(s) : t[k] = s[k]
      /\ \A k \in Len(s) + 1 .. Len(s) + Len(u) : t[k] = u[k - Len(s)]
  <2>1. /\ IsSeq(s \o u) /\ Len(s \o u) = Len(s) + Len(u) /\ DOMAIN (s \o u) = 1 .. Len(s) + Len(u)
        /\ \A k \in 1 .. Len(s) : (s \o u)[k] = s[k]
        /\ \A k \in Len(s) + 1 .. Len(s) + Len(u) : (s \o u)[k] = u[k - Len(s)]
    BY <1>3, <1>5, Concat
  <2>. QED BY <1>6, <2>1
<1>7. /\ IsSeq(t) /\ Len(t) = 5 /\ DOMAIN t = 1 .. 5
      /\ \A k \in 1 .. 3 : t[k] = s[k]
      /\ \A k \in 4 .. 5 : t[k] = u[k - 3]
  BY <1>3, <1>4, <1>9
<1>8. t[1] = s[1] /\ t[2] = s[2] /\ t[3] = s[3] /\ t[4] = u[1] /\ t[5] = u[2]
  BY <1>7
<1>. QED BY <1>3, <1>4, <1>7, <1>8 DEF Op, Instr, Continued, Sets

LEMMA TestElements ==
  ASSUME NEW x, NEW t, t = <<Op("readRegisters"), Instr("testDr6", x)>>
  PROVE  /\ IsSeq(t) /\ Len(t) = 2 /\ DOMAIN t = 1 .. 2
         /\ t[1].op = "readRegisters" /\ t[2].op = "testDr6" /\ t[2].arg = x
<1>1. /\ t \in Seq({Op("readRegisters"), Instr("testDr6", x)}) /\ Len(t) = 2
      /\ t[1] = Op("readRegisters") /\ t[2] = Instr("testDr6", x)
  OBVIOUS
<1>2. IsSeq(t)
  BY <1>1, AnySeq
<1>. QED BY <1>1, <1>2 DEF IsSeq, Op, Instr

LEMMA HitElements ==
  ASSUME NEW x, NEW t, t = <<Instr("hit", x)>>
  PROVE  IsSeq(t) /\ Len(t) = 1 /\ DOMAIN t = 1 .. 1 /\ t[1].op = "hit" /\ t[1].arg = x
<1>1. t \in Seq({Instr("hit", x)}) /\ Len(t) = 1 /\ t[1] = Instr("hit", x)
  OBVIOUS
<1>2. IsSeq(t)
  BY <1>1, AnySeq
<1>. QED BY <1>1, <1>2 DEF IsSeq, Instr

\* The instruction is the listener's last.
LEMMA ListenerLast ==
  ASSUME Shape, Told, NEW op \in {"trap", "testDr6", "matchBreakPoint", "hit"}, At(Listener, op),
         NEW n, IsSeq(n), Goto(Listener, n)
  PROVE  /\ ListenerTodo' = n /\ UNCHANGED CallbackTodo
         /\ DOMAIN ListenerTodo = {1} /\ ListenerTodo[1].op = op /\ ListenerTodo # <<>>
         /\ Arg(Listener) = ListenerTodo[1].arg
         /\ Past /\ Starts(ListenerTodo, op)
         /\ LTurn <=> (op # "testDr6" \/ Arg(Listener)[1] # "clone")
<1>1. Listener \in Actors /\ Callback \in Actors \ {Listener}
  BY ActorsAssumption DEF Actors
<1>2. PICK s : s = ListenerTodo
  OBVIOUS
<1>3. s # <<>> /\ Head(s) = s[1] /\ s[1].op = op /\ 1 \in DOMAIN s /\ IsSeq(s) /\ Orderly(s)
  BY <1>1, <1>2, AtFirst DEF ListenerTodo, Shape, Told
<1>4. Len(s) = 1 /\ DOMAIN s = {1}
  BY <1>3 DEF Orderly, IsSeq
<1>5. IsSeq(Tail(s)) /\ Len(Tail(s)) = 0
  BY <1>3, <1>4, Tailed
<1>6. Tail(s) = <<>>
  <2>1. PICK u : u = Tail(s)
    OBVIOUS
  <2>. QED BY <1>5, <2>1, EmptySeqs
<1>7. n \o <<>> = n
  BY IsSeqOfElements, ConcatEmptySeq
<1>8. /\ todo' = [todo EXCEPT ![Listener] = n \o Tail(todo[Listener])]
      /\ todo = [b \in Actors |-> todo[b]]
  BY DEF Goto, Shape
<1>9. todo'[Listener] = n /\ todo'[Callback] = todo[Callback]
  BY <1>1, <1>2, <1>6, <1>7, <1>8 DEF ListenerTodo
<1>10. LTurn <=> (op # "testDr6" \/ s[1].arg[1] # "clone")
  BY <1>2, <1>3, <1>4 DEF LTurn, HandsOver, Hands
<1>11. ~RecordsStop(s)
  BY <1>3, <1>4 DEF RecordsStop, Sets
<1>. QED BY <1>2, <1>3, <1>4, <1>9, <1>10, <1>11 DEF ListenerTodo, CallbackTodo, Arg, Past, Starts

LEMMA OrderlyTest ==
  ASSUME NEW x, x[1] # "clone", NEW t, t = <<Op("readRegisters"), Instr("testDr6", x)>>
  PROVE  Orderly(t) /\ HandsOver(t) /\ Tests(t) /\ ~RecordsStop(t)
<1>1. /\ IsSeq(t) /\ Len(t) = 2 /\ DOMAIN t = 1 .. 2
      /\ t[1].op = "readRegisters" /\ t[2].op = "testDr6" /\ t[2].arg = x
  BY TestElements
<1>2. \A k \in DOMAIN t : (Hands(t, k) <=> k = 2) /\ ~Sets(t, k) /\ (k = 1 \/ k = 2)
  BY <1>1 DEF Hands, Sets
<1>3. Orderly(t)
  BY <1>1, <1>2 DEF Orderly, Continued, Before
<1>. QED BY <1>1, <1>2, <1>3 DEF HandsOver, Tests, RecordsStop

LEMMA OrderlyHitWatch ==
  ASSUME NEW idx, NEW t, t = WatchHit(idx)
  PROVE  Orderly(t) /\ HandsOver(t) /\ ~Tests(t) /\ ~RecordsStop(t)
<1>1. /\ IsSeq(t) /\ Len(t) = 6 /\ DOMAIN t = 1 .. 6
      /\ t[1].op = "lock" /\ t[2].op = "readRegisters" /\ t[3].op = "getDr6"
      /\ t[4].op = "setDr6" /\ t[4].arg = idx /\ t[5].op = "unlock"
      /\ t[6].op = "hit" /\ t[6].arg = "watch"
  BY WatchHitElements
<1>2. \A k \in DOMAIN t : k = 1 \/ k = 2 \/ k = 3 \/ k = 4 \/ k = 5 \/ k = 6
  BY <1>1
<1>3. \A k \in DOMAIN t : (Hands(t, k) <=> k = 6) /\ ~Sets(t, k) /\ t[k].op \notin {"testDr6", "cont", "trap", "matchBreakPoint"}
  BY <1>1, <1>2 DEF Hands, Sets
<1>4. \A k \in DOMAIN t : (t[k].op = "hit" => k = 6) /\ 6 \in DOMAIN t /\ 6 >= k
  BY <1>1, <1>2
<1>5. \A k \in DOMAIN t : k > 1 /\ t[k].op \in DOMAIN Before => t[k - 1].op = Before[t[k].op]
  BY <1>1, <1>2 DEF Before
<1>6. Orderly(t)
  BY <1>1, <1>3, <1>4, <1>5 DEF Orderly, Continued
<1>. QED BY <1>1, <1>3, <1>4, <1>6 DEF HandsOver, Tests, RecordsStop

LEMMA OrderlyClone ==
  ASSUME NEW x, x[1] = "clone", NEW t, t = CloneThen(x)
  PROVE  Orderly(t) /\ HandsOver(t) /\ ~Tests(t) /\ ~RecordsStop(t)
<1>1. /\ IsSeq(t) /\ Len(t) = 5 /\ DOMAIN t = 1 .. 5
      /\ t[1].op = "writeRegisters" /\ t[2].op = "cont" /\ Continued(t, 3)
      /\ t[4].op = "readRegisters" /\ t[5].op = "testDr6" /\ t[5].arg = x
  BY CloneElements
<1>2. \A k \in DOMAIN t : k = 1 \/ k = 2 \/ k = 3 \/ k = 4 \/ k = 5
  BY <1>1
<1>3. t[3].op = "setState" /\ t[3].arg = "CONTINUED"
  BY <1>1 DEF Continued, Sets
<1>4. \A k \in DOMAIN t : (Hands(t, k) <=> k = 2) /\ (Sets(t, k) => Continued(t, k) /\ k = 3)
                          /\ t[k].op \notin {"trap", "matchBreakPoint", "hit"}
  BY <1>1, <1>2, <1>3 DEF Hands, Sets
<1>5. \A k \in DOMAIN t : k > 1 /\ t[k].op \in DOMAIN Before => t[k - 1].op = Before[t[k].op]
  BY <1>1, <1>2, <1>3 DEF Before
<1>6. \A k \in DOMAIN t : /\ t[k].op = "testDr6" => k = 5
                          /\ t[k].op = "cont" => k = 2
                          /\ t[k].op = "writeRegisters" => k = 1
  BY <1>1, <1>2, <1>3
<1>8. \A k \in DOMAIN t : t[k].op \notin {"setState", "readRegisters", "testDr6"} => 2 >= k
  BY <1>1, <1>2, <1>3
<1>9. 2 \in DOMAIN t /\ Hands(t, 2)
  BY <1>1, <1>4
<1>7. Orderly(t)
  BY <1>1, <1>4, <1>5, <1>6, <1>8, <1>9 DEF Orderly, Continued
<1>. QED BY <1>1, <1>3, <1>4, <1>6, <1>7 DEF HandsOver, Tests, RecordsStop, Continued

LEMMA OrderlyUnhandled ==
  ASSUME NEW t, t = Unhandled
  PROVE  Orderly(t) /\ HandsOver(t) /\ ~Tests(t) /\ ~RecordsStop(t)
<1>1. /\ IsSeq(t) /\ Len(t) = 3 /\ DOMAIN t = 1 .. 3
      /\ t[1].op = "readRegisters" /\ t[2].op = "getRegs" /\ t[3].op = "matchBreakPoint"
  BY UnhandledElements
<1>2. \A k \in DOMAIN t : k = 1 \/ k = 2 \/ k = 3
  BY <1>1
<1>3. \A k \in DOMAIN t : (Hands(t, k) <=> k = 3) /\ ~Sets(t, k) /\ t[k].op \notin {"testDr6", "cont", "trap", "hit"}
  BY <1>1, <1>2 DEF Hands, Sets
<1>4. \A k \in DOMAIN t : (t[k].op = "matchBreakPoint" => k = 3) /\ 3 \in DOMAIN t /\ 3 >= k
  BY <1>1, <1>2
<1>5. \A k \in DOMAIN t : k > 1 /\ t[k].op \in DOMAIN Before => t[k - 1].op = Before[t[k].op]
  BY <1>1, <1>2 DEF Before
<1>6. Orderly(t)
  BY <1>1, <1>3, <1>4, <1>5 DEF Orderly, Continued
<1>. QED BY <1>1, <1>3, <1>4, <1>6 DEF HandsOver, Tests, RecordsStop

LEMMA OrderlyHit ==
  ASSUME NEW x, NEW t, t = <<Instr("hit", x)>>
  PROVE  Orderly(t) /\ HandsOver(t) /\ ~Tests(t) /\ ~RecordsStop(t)
<1>1. DOMAIN t = 1 .. 1 /\ t[1].op = "hit" /\ Len(t) = 1
  BY HitElements
<1>2. \A k \in DOMAIN t : k = 1 /\ Hands(t, k) /\ ~Sets(t, k)
  BY <1>1 DEF Hands, Sets
<1>3. Orderly(t)
  BY <1>1, <1>2 DEF Orderly, Continued
<1>. QED BY <1>1, <1>2, <1>3 DEF HandsOver, Tests, RecordsStop

LEMMA OrderlyNone == Orderly(<<>>) /\ ~HandsOver(<<>>) /\ ~Tests(<<>>) /\ ~RecordsStop(<<>>)
BY DEF Orderly, HandsOver, Tests, RecordsStop

\* The listener's list is empty.
LEMMA ListenerEmpty ==
  ASSUME ListenerTodo = <<>>
  PROVE  /\ Orderly(ListenerTodo) /\ ~LTurn /\ Past /\ ~Tests(ListenerTodo)
         /\ \A o : ~Has(ListenerTodo, o) /\ ~Starts(ListenerTodo, o)
         /\ \A k \in DOMAIN ListenerTodo : FALSE
         /\ ~WatchSeen
BY OrderlyNone DEF LTurn, Past, Has, Starts, WatchSeen

LEMMA CallbackEmpty ==
  ASSUME CallbackTodo = <<>>
  PROVE  \A o : ~Has(CallbackTodo, o) /\ ~Starts(CallbackTodo, o)
BY DEF Has, Starts

LEMMA ListenerHits ==
  ASSUME Shape, Turn, Hit(Listener)
  PROVE  Turn'
<1>1. /\ ListenerTodo' = <<>> /\ UNCHANGED CallbackTodo
      /\ DOMAIN ListenerTodo = {1} /\ ListenerTodo[1].op = "hit" /\ ListenerTodo # <<>>
      /\ Arg(Listener) = ListenerTodo[1].arg
      /\ Past /\ Starts(ListenerTodo, "hit") /\ LTurn
  <2>1. "hit" \in {"trap", "testDr6", "matchBreakPoint", "hit"} /\ At(Listener, "hit") /\ Goto(Listener, <<>>)
        /\ IsSeq(<<>>) /\ Told
    BY Empty DEF Turn, Hit, Done
  <2>2. "hit" # "testDr6"
    OBVIOUS
  <2>. QED BY <2>1, <2>2, ListenerLast
<1>3. UNCHANGED <<run, event, reason, pending, rip, dr6, known, state, trapExp, regSync, queue,
                  cRip, cDr6, futRegs, futDr6, peeked, spurious, aim>>
      /\ callbacks' = Append(callbacks, Arg(Listener))
  BY DEF Hit, kernelVars, threadVars, cacheVars, historyVars
<1>4. Told /\ Sent /\ Base /\ Turns /\ Caches /\ Dr6 /\ Rip
  BY DEF Turn
<1>5. /\ (QTurn' <=> QTurn) /\ (KTurn' <=> KTurn) /\ \A o : Queued(o)' <=> Queued(o)
      /\ \A o : (Has(CallbackTodo, o)' <=> Has(CallbackTodo, o))
             /\ (Starts(CallbackTodo, o)' <=> Starts(CallbackTodo, o))
  BY <1>1, <1>3, QueueKept, KernelKept
<1>6. /\ ~KTurn /\ ~CTurn /\ ~QTurn /\ known /\ state = "STOPPED" /\ CallbackTodo = <<>> /\ callbacks = <<>>
  BY <1>1, <1>4 DEF Turns, CTurn
<1>7. callbacks' = <<Arg(Listener)>> /\ callbacks' # <<>> /\ Len(callbacks') = 1 /\ CTurn'
  BY <1>3, <1>6 DEF CTurn
<1>8. /\ Orderly(ListenerTodo)' /\ ~LTurn' /\ Past' /\ ~Tests(ListenerTodo)'
      /\ \A o : ~Has(ListenerTodo, o)' /\ ~Starts(ListenerTodo, o)'
      /\ \A k \in DOMAIN ListenerTodo' : FALSE
      /\ ~WatchSeen'
  <2>1. ~WatchSeen'
    BY <1>1, OrderlyNone DEF WatchSeen, LTurn
  <2>. QED BY <1>1, <2>1, OrderlyNone DEF LTurn, Past, Has, Starts
<1>9. \A o : ~Has(CallbackTodo, o) /\ ~Starts(CallbackTodo, o)
  BY <1>6, CallbackEmpty
<1>10. Told'
  BY <1>1, <1>4, <1>8 DEF Told
<1>11. Sent' /\ Base'
  BY <1>1, <1>3, <1>4, <1>5 DEF Sent, Base
<1>12. Turns'
  BY <1>1, <1>3, <1>5, <1>6, <1>7, <1>8 DEF Turns
<1>13. Has(ListenerTodo, "hit") /\ ~Has(ListenerTodo, "trap") /\ ~Tests(ListenerTodo) /\ ~Has(ListenerTodo, "setDr6")
  BY <1>1 DEF Has, Tests
<1>14. Caches'
  BY <1>3, <1>5, <1>7, <1>8, <1>9 DEF Caches
<1>15. Dr6'
  <2>1. ~WatchSeen
    BY <1>13 DEF WatchSeen
  <2>2. cDr6 = {}
    BY <1>1, <1>4 DEF Dr6
  <2>. QED BY <1>3, <1>4, <1>5, <1>6, <1>8, <1>13, <2>1, <2>2 DEF Dr6, KTurn
<1>16. Rip'
  <2>1. AtBreak' <=> AtBreak
    BY <1>3 DEF AtBreak
  <2>2. (\E k \in DOMAIN callbacks' : callbacks'[k] = "break") => AtBreak
    BY <1>1, <1>4, <1>7 DEF Rip
  <2>. QED BY <1>1, <1>3, <1>4, <1>5, <1>6, <1>7, <1>8, <1>9, <2>1, <2>2 DEF Rip
<1>. QED BY <1>10, <1>11, <1>12, <1>14, <1>15, <1>16 DEF Turn

LEMMA ListenerMatches ==
  ASSUME Shape, Turn, MatchBreakPoint(Listener)
  PROVE  Turn'
<1>1. PICK n : n = IF cRip = "bp" THEN <<Instr("hit", "break")>> ELSE <<>>
  OBVIOUS
<1>2. /\ cRip = "bp" => /\ DOMAIN n = 1 .. 1 /\ n[1].op = "hit" /\ n[1].arg = "break"
                        /\ IsSeq(n) /\ Orderly(n) /\ HandsOver(n) /\ ~Tests(n) /\ ~RecordsStop(n)
      /\ cRip # "bp" => n = <<>> /\ IsSeq(n) /\ Orderly(n) /\ ~HandsOver(n) /\ ~Tests(n) /\ ~RecordsStop(n)
  <2>1. CASE cRip = "bp"
    <3>1. n = <<Instr("hit", "break")>>
      BY <1>1, <2>1
    <3>2. DOMAIN n = 1 .. 1 /\ n[1].op = "hit" /\ n[1].arg = "break" /\ IsSeq(n)
      BY <3>1, HitElements
    <3>3. Orderly(n) /\ HandsOver(n) /\ ~Tests(n) /\ ~RecordsStop(n)
      BY <3>1, OrderlyHit
    <3>. QED BY <2>1, <3>2, <3>3
  <2>2. CASE cRip # "bp"
    BY <1>1, <2>2, OrderlyNone, Empty
  <2>. QED BY <2>1, <2>2
<1>3. /\ ListenerTodo' = n /\ UNCHANGED CallbackTodo
      /\ DOMAIN ListenerTodo = {1} /\ ListenerTodo[1].op = "matchBreakPoint" /\ ListenerTodo # <<>>
      /\ Past /\ Starts(ListenerTodo, "matchBreakPoint") /\ LTurn
  <2>1. "matchBreakPoint" \in {"trap", "testDr6", "matchBreakPoint", "hit"} /\ At(Listener, "matchBreakPoint")
        /\ Goto(Listener, n) /\ IsSeq(n) /\ Told
    BY <1>1, <1>2 DEF Turn, MatchBreakPoint, MatchBreakPointIn
  <2>2. "matchBreakPoint" # "testDr6"
    OBVIOUS
  <2>. QED BY <2>1, <2>2, ListenerLast
<1>4. UNCHANGED <<run, event, reason, pending, rip, dr6, known, state, trapExp, regSync, queue,
                  cRip, cDr6, futRegs, futDr6, peeked, spurious, aim, callbacks>>
  BY DEF MatchBreakPoint, MatchBreakPointIn, kernelVars, threadVars, cacheVars, historyVars
<1>5. Told /\ Sent /\ Base /\ Turns /\ Caches /\ Dr6 /\ Rip
  BY DEF Turn
<1>6. /\ (QTurn' <=> QTurn) /\ (KTurn' <=> KTurn) /\ (CTurn' <=> CTurn) /\ \A o : Queued(o)' <=> Queued(o)
      /\ \A o : (Has(CallbackTodo, o)' <=> Has(CallbackTodo, o))
             /\ (Starts(CallbackTodo, o)' <=> Starts(CallbackTodo, o))
  BY <1>3, <1>4, QueueKept, KernelKept, CallbackKept
<1>7. /\ ~KTurn /\ ~CTurn /\ ~QTurn /\ known /\ state = "STOPPED" /\ CallbackTodo = <<>>
      /\ callbacks = <<>> /\ aim = "none" /\ event \in NoStop
  BY <1>3, <1>5 DEF Turns, CTurn, Rip, KTurn
<1>8. ~futRegs /\ regSync # "OLD" /\ reason \in {"break", "SEGV", "STOP"} /\ cRip = rip
  BY <1>3, <1>5, <1>7 DEF Rip, Told, Sent
<1>9. reason = "break" => cRip = "bp"
  BY <1>3, <1>5, <1>8 DEF Rip
<1>10. ~Has(ListenerTodo, "hit") /\ ~Has(ListenerTodo, "trap") /\ ~Tests(ListenerTodo) /\ ~Has(ListenerTodo, "setDr6")
  BY <1>3 DEF Has, Tests
<1>11. /\ Orderly(ListenerTodo') /\ ~Tests(ListenerTodo)' /\ Past' /\ (LTurn' <=> cRip = "bp")
       /\ \A o : Has(ListenerTodo, o)' \/ Starts(ListenerTodo, o)' => o = "hit" /\ cRip = "bp"
       /\ \A k \in DOMAIN ListenerTodo' : ListenerTodo'[k].op = "hit" /\ ListenerTodo'[k].arg = "break"
       /\ cRip = "bp" => Has(ListenerTodo, "hit")'
       /\ cRip # "bp" => ListenerTodo' = <<>>
  <2>1. n # <<>> => cRip = "bp"
    BY <1>2
  <2>2. \A k \in DOMAIN n : cRip = "bp" /\ k = 1
    BY <1>2
  <2>3. cRip = "bp" => 1 \in DOMAIN n
    BY <1>2
  <2>. QED BY <1>2, <1>3, <2>1, <2>2, <2>3 DEF LTurn, Past, Has, Starts
<1>12. Told'
  BY <1>3, <1>5, <1>11 DEF Told
<1>13. Sent' /\ Base'
  BY <1>4, <1>5, <1>6 DEF Sent, Base
<1>14. Turns'
  BY <1>3, <1>4, <1>6, <1>7, <1>8, <1>9, <1>11 DEF Turns
<1>16. regSync # "NEW"
  BY <1>5, <1>7, <1>10 DEF Caches
<1>17. Caches'
  BY <1>4, <1>11, <1>16 DEF Caches
<1>18. Dr6'
  <2>1. ~WatchSeen /\ ~WatchSeen'
    BY <1>4, <1>8 DEF WatchSeen
  <2>2. cDr6 = {}
    BY <1>3, <1>5 DEF Dr6
  <2>3. \A o : ~Has(CallbackTodo, o) /\ ~Starts(CallbackTodo, o)
    BY <1>7, CallbackEmpty
  <2>. QED BY <1>4, <1>5, <1>6, <1>7, <1>8, <1>10, <1>11, <1>16, <2>1, <2>2, <2>3 DEF Dr6
<1>19. Rip'
  <2>1. cRip = "bp" => AtBreak'
    BY <1>4, <1>8 DEF AtBreak
  <2>2. \A o : ~Has(CallbackTodo, o)' /\ ~Starts(CallbackTodo, o)'
    BY <1>6, <1>7, CallbackEmpty
  <2>. QED BY <1>3, <1>4, <1>5, <1>6, <1>7, <1>8, <1>11, <2>1, <2>2 DEF Rip
<1>. QED BY <1>12, <1>13, <1>14, <1>17, <1>18, <1>19 DEF Turn

\* What testDr6 makes of DR6.
LEMMA Watched ==
  ASSUME NEW i \in WatchIdx
  PROVE  (CHOOSE k \in {i} : \A j \in {i} : k <= j) = i
<1>1. i <= i
  BY KernelAssumption DEF WatchIdx
<1>2. \E k \in {i} : \A j \in {i} : k <= j
  BY <1>1
<1>3. (CHOOSE k \in {i} : \A j \in {i} : k <= j) \in {i}
  BY <1>2
<1>. QED BY <1>3

LEMMA ListenerTests ==
  ASSUME Shape, Turn, TestDr6(Listener)
  PROVE  Turn'
<1>1. /\ DOMAIN ListenerTodo = {1} /\ ListenerTodo[1].op = "testDr6" /\ ListenerTodo # <<>>
      /\ Arg(Listener) = ListenerTodo[1].arg
      /\ Past /\ Starts(ListenerTodo, "testDr6")
      /\ LTurn <=> Arg(Listener)[1] # "clone"
      /\ \A n : IsSeq(n) /\ Goto(Listener, n) => ListenerTodo' = n /\ UNCHANGED CallbackTodo
  <2>1. "testDr6" \in {"trap", "testDr6", "matchBreakPoint", "hit"} /\ At(Listener, "testDr6") /\ Told
    BY DEF Turn, TestDr6
  <2>2. ASSUME NEW n, IsSeq(n), Goto(Listener, n)
        PROVE  /\ ListenerTodo' = n /\ UNCHANGED CallbackTodo
               /\ DOMAIN ListenerTodo = {1} /\ ListenerTodo[1].op = "testDr6" /\ ListenerTodo # <<>>
               /\ Arg(Listener) = ListenerTodo[1].arg
               /\ Past /\ Starts(ListenerTodo, "testDr6")
               /\ LTurn <=> Arg(Listener)[1] # "clone"
    BY <2>1, <2>2, ListenerLast
  <2>3. \E n : IsSeq(n) /\ Goto(Listener, n)
    <3>1. CASE cDr6' # {}
      <4>1. PICK idx : Goto(Listener, WatchHit(idx))
        BY <3>1 DEF TestDr6, WatchHit
      <4>2. IsSeq(WatchHit(idx))
        BY WatchHitElements
      <4>. QED BY <4>1, <4>2
    <3>2. CASE ~(cDr6' # {})
      <4>1. IsSeq(<<>>) /\ IsSeq(Unhandled)
        BY Empty, UnhandledElements
      <4>. QED BY <3>2, <4>1 DEF TestDr6
    <3>. QED BY <3>1, <3>2
  <2>. QED BY <2>2, <2>3
<1>3. UNCHANGED <<run, event, reason, pending, rip, dr6, known, state, trapExp, regSync, queue,
                  cRip, futRegs, peeked, aim, callbacks>>
      /\ futDr6' = FALSE /\ cDr6' = FetchedDr6 /\ (futDr6 => ~Queued("PEEKDR6"))
  BY DEF TestDr6, kernelVars, threadVars
<1>4. Told /\ Sent /\ Base /\ Turns /\ Caches /\ Dr6 /\ Rip
  BY DEF Turn
<1>5. /\ (QTurn' <=> QTurn) /\ (KTurn' <=> KTurn) /\ \A o : Queued(o)' <=> Queued(o)
  BY <1>3, QueueKept, KernelKept
<1>6. ~Has(ListenerTodo, "hit") /\ ~Has(ListenerTodo, "setDr6") /\ cDr6 = {} /\ ~Has(ListenerTodo, "trap")
  BY <1>1, <1>4 DEF Has, Dr6
<1>10. CASE Arg(Listener)[1] = "clone"
  <2>1. ~LTurn /\ ~Tests(ListenerTodo) /\ Arg(Listener)[2]
    BY <1>1, <1>4, <1>10 DEF Tests, Told
  <2>2. futDr6 => peeked = {}
    BY <1>3, <1>4, <2>1 DEF Dr6
  <2>3. cDr6' = {}
    BY <1>3, <1>6, <2>2 DEF FetchedDr6
  <2>4. Goto(Listener, <<>>) /\ UNCHANGED spurious /\ IsSeq(<<>>)
    BY <2>1, <2>3, Empty DEF TestDr6
  <2>5. ListenerTodo' = <<>> /\ UNCHANGED CallbackTodo
    BY <1>1, <2>4
  <2>6. /\ Orderly(ListenerTodo)' /\ ~LTurn' /\ Past' /\ ~Tests(ListenerTodo)'
        /\ \A o : ~Has(ListenerTodo, o)' /\ ~Starts(ListenerTodo, o)'
        /\ \A k \in DOMAIN ListenerTodo' : FALSE
        /\ ~WatchSeen' /\ ~WatchSeen
    <3>1. ~WatchSeen' /\ ~WatchSeen
      BY <2>1, <2>5, OrderlyNone DEF WatchSeen, LTurn
    <3>. QED BY <2>5, <3>1, OrderlyNone DEF LTurn, Past, Has, Starts
  <2>7. /\ CTurn' <=> CTurn
        /\ \A o : (Has(CallbackTodo, o)' <=> Has(CallbackTodo, o))
             /\ (Starts(CallbackTodo, o)' <=> Starts(CallbackTodo, o))
    BY <1>3, <2>5, CallbackKept
  <2>8. Told' /\ Sent' /\ Base'
    BY <1>3, <1>4, <1>5, <2>4, <2>5, <2>6, <2>7 DEF Told, Sent, Base
  <2>9. Turns'
    BY <1>1, <1>3, <1>4, <1>5, <2>1, <2>5, <2>6, <2>7 DEF Turns
  <2>10. Caches'
    BY <1>3, <1>4, <2>1, <2>6, <2>7 DEF Caches
  <2>11. Dr6'
    BY <1>3, <1>4, <1>5, <1>6, <2>1, <2>3, <2>6, <2>7 DEF Dr6
  <2>12. Rip'
    <3>1. AtBreak' <=> AtBreak
      BY <1>3 DEF AtBreak
    <3>. QED BY <1>3, <1>4, <1>5, <2>1, <2>6, <2>7, <3>1 DEF Rip
  <2>. QED BY <2>8, <2>9, <2>10, <2>11, <2>12 DEF Turn
<1>11. CASE Arg(Listener)[1] # "clone"
  <2>1. /\ LTurn /\ Tests(ListenerTodo) /\ ~Arg(Listener)[2] /\ Arg(Listener)[1] = reason
        /\ reason \in {"break", "watch"}
    BY <1>1, <1>4, <1>11 DEF Tests, Told, Traps
  <2>2. /\ ~KTurn /\ ~CTurn /\ ~QTurn /\ known /\ state = "STOPPED" /\ CallbackTodo = <<>>
        /\ callbacks = <<>> /\ aim = "none" /\ event \in NoStop
    BY <1>1, <1>4, <2>1 DEF Turns, CTurn, Rip, KTurn
  <2>3. futDr6 /\ regSync = "SYNC" /\ peeked = dr6 /\ ~Queued("PEEKDR6")
    BY <1>1, <1>3, <1>4, <2>1 DEF Dr6
  <2>4. cDr6' = dr6
    BY <1>3, <2>3 DEF FetchedDr6
  <2>5. WatchSeen <=> reason = "watch"
    BY <2>1 DEF WatchSeen
  <2>6. dr6 # {} => reason = "watch" /\ \E i \in WatchIdx : dr6 = {i}
    BY <1>4, <1>6, <2>2, <2>3, <2>5 DEF Dr6
  <2>7. reason = "watch" => dr6 # {}
    BY <1>4, <2>5 DEF Dr6
  <2>8. \A o : ~Has(CallbackTodo, o) /\ ~Starts(CallbackTodo, o)
    BY <2>2, CallbackEmpty
  <2>20. CASE dr6 = {}
    <3>1. Goto(Listener, Unhandled) /\ UNCHANGED spurious
      BY <2>1, <2>4, <2>20 DEF TestDr6
    <3>2. PICK n : n = Unhandled
      OBVIOUS
    <3>3. /\ IsSeq(n) /\ DOMAIN n = 1 .. 3
          /\ n[1].op = "readRegisters" /\ n[2].op = "getRegs" /\ n[3].op = "matchBreakPoint"
          /\ Orderly(n) /\ HandsOver(n) /\ ~Tests(n) /\ ~RecordsStop(n)
      BY <3>2, UnhandledElements, OrderlyUnhandled
    <3>4. ListenerTodo' = n /\ UNCHANGED CallbackTodo
      BY <1>1, <3>1, <3>2, <3>3
    <3>5. /\ Orderly(ListenerTodo') /\ LTurn' /\ Past' /\ ~Tests(ListenerTodo)'
          /\ \A k \in DOMAIN ListenerTodo' : ListenerTodo'[k].op \in {"readRegisters", "getRegs", "matchBreakPoint"}
          /\ \A o : Has(ListenerTodo, o)' => o \in {"readRegisters", "getRegs", "matchBreakPoint"}
          /\ \A o : Starts(ListenerTodo, o)' => o = "readRegisters"
      BY <3>3, <3>4 DEF LTurn, Past, Has, Starts
    <3>6. /\ CTurn' <=> CTurn
          /\ \A o : (Has(CallbackTodo, o)' <=> Has(CallbackTodo, o))
               /\ (Starts(CallbackTodo, o)' <=> Starts(CallbackTodo, o))
      BY <1>3, <3>4, CallbackKept
    <3>7. Told' /\ Sent' /\ Base'
      BY <1>3, <1>4, <1>5, <2>1, <2>7, <2>20, <3>1, <3>4, <3>5, <3>6 DEF Told, Sent, Base
    <3>8. Turns'
      BY <1>3, <1>5, <2>2, <3>4, <3>5, <3>6 DEF Turns
    <3>9. Caches'
      BY <1>3, <2>3, <3>5 DEF Caches
    <3>10. Dr6'
      BY <1>3, <2>2, <2>3, <2>4, <2>7, <2>20, <3>5 DEF Dr6, WatchSeen, NoStop
    <3>11. Rip'
      <4>1. \A k \in DOMAIN ListenerTodo' : ListenerTodo'[k].op # "hit"
        BY <3>5
      <4>. QED BY <1>1, <1>3, <1>4, <1>5, <2>1, <2>2, <2>3, <2>8, <3>5, <3>6, <4>1 DEF Rip
    <3>. QED BY <3>7, <3>8, <3>9, <3>10, <3>11 DEF Turn
  <2>21. CASE dr6 # {}
    <3>12. PICK i \in WatchIdx : dr6 = {i}
      BY <2>6, <2>21
    <3>1. Goto(Listener, WatchHit(i)) /\ (spurious' <=> spurious \/ Arg(Listener)[1] # "watch")
      <4>1. cDr6' = {i}
        BY <2>4, <3>12
      <4>2. (CHOOSE k \in cDr6' : \A j \in cDr6' : k <= j) = i
        BY <4>1, Watched
      <4>. QED BY <4>1, <4>2 DEF TestDr6, WatchHit
    <3>2. PICK n : n = WatchHit(i)
      OBVIOUS
    <3>3. /\ IsSeq(n) /\ DOMAIN n = 1 .. 6
          /\ n[1].op = "lock" /\ n[2].op = "readRegisters" /\ n[3].op = "getDr6"
          /\ n[4].op = "setDr6" /\ n[4].arg = i /\ n[5].op = "unlock"
          /\ n[6].op = "hit" /\ n[6].arg = "watch"
          /\ Orderly(n) /\ HandsOver(n) /\ ~Tests(n) /\ ~RecordsStop(n)
      BY <3>2, WatchHitElements, OrderlyHitWatch
    <3>4. ListenerTodo' = n /\ UNCHANGED CallbackTodo
      BY <1>1, <3>1, <3>2, <3>3
    <3>13. \A k \in DOMAIN n : k = 1 \/ k = 2 \/ k = 3 \/ k = 4 \/ k = 5 \/ k = 6
      BY <3>3
    <3>14. 1 \in DOMAIN n /\ 4 \in DOMAIN n /\ 6 \in DOMAIN n
      BY <3>3
    <3>5. /\ Orderly(ListenerTodo') /\ LTurn' /\ Past' /\ ~Tests(ListenerTodo)'
          /\ \A k \in DOMAIN ListenerTodo' :
               /\ ListenerTodo'[k].op \notin {"trap", "testDr6", "matchBreakPoint"}
               /\ ListenerTodo'[k].op = "hit" => ListenerTodo'[k].arg = "watch"
               /\ ListenerTodo'[k].op = "setDr6" => k = 4
          /\ Has(ListenerTodo, "hit")' /\ Has(ListenerTodo, "setDr6")' /\ ~Has(ListenerTodo, "trap")'
          /\ \A o : Starts(ListenerTodo, o)' => o = "lock"
      BY <3>3, <3>4, <3>13, <3>14 DEF LTurn, Past, Has, Starts
    <3>6. /\ CTurn' <=> CTurn
          /\ \A o : (Has(CallbackTodo, o)' <=> Has(CallbackTodo, o))
               /\ (Starts(CallbackTodo, o)' <=> Starts(CallbackTodo, o))
      BY <1>3, <3>4, CallbackKept
    <3>7. Told'
      BY <1>4, <3>4, <3>5 DEF Told
    <3>15. Sent' /\ Base'
      BY <1>3, <1>4, <1>5, <2>1, <2>6, <2>21, <3>1, <3>6 DEF Sent, Base
    <3>8. Turns'
      BY <1>3, <1>5, <2>2, <3>4, <3>5, <3>6 DEF Turns
    <3>9. Caches'
      BY <1>3, <2>3, <3>5 DEF Caches
    <3>10. Dr6'
      <4>1. \E k \in DOMAIN ListenerTodo' : ListenerTodo'[k].op = "setDr6" /\ cDr6' = {ListenerTodo'[k].arg}
        BY <2>4, <3>3, <3>4, <3>12, <3>14
      <4>. QED BY <1>3, <2>2, <2>3, <2>6, <2>21, <3>5, <4>1 DEF Dr6, WatchSeen
    <3>11. Rip'
      BY <1>1, <1>3, <1>4, <1>5, <2>1, <2>2, <2>3, <2>8, <3>5, <3>6 DEF Rip
    <3>. QED BY <3>7, <3>8, <3>9, <3>10, <3>11, <3>15 DEF Turn
  <2>. QED BY <2>20, <2>21
<1>. QED BY <1>10, <1>11

LEMMA ListenerTraps ==
  ASSUME Shape, Turn, Trap(Listener)
  PROVE  Turn'
<1>4. Told /\ Sent /\ Base /\ Turns /\ Caches /\ Dr6 /\ Rip
  BY DEF Turn
<1>1. /\ DOMAIN ListenerTodo = {1} /\ ListenerTodo[1].op = "trap" /\ ListenerTodo # <<>>
      /\ Arg(Listener) = ListenerTodo[1].arg
      /\ Past /\ Starts(ListenerTodo, "trap") /\ LTurn
      /\ \A n : IsSeq(n) /\ Goto(Listener, n) => ListenerTodo' = n /\ UNCHANGED CallbackTodo
  <2>1. "trap" \in {"trap", "testDr6", "matchBreakPoint", "hit"} /\ At(Listener, "trap") /\ Told
    BY DEF Turn, Trap, TrapThen
  <2>2. ASSUME NEW n, IsSeq(n), Goto(Listener, n)
        PROVE  /\ ListenerTodo' = n /\ UNCHANGED CallbackTodo
               /\ DOMAIN ListenerTodo = {1} /\ ListenerTodo[1].op = "trap" /\ ListenerTodo # <<>>
               /\ Arg(Listener) = ListenerTodo[1].arg
               /\ Past /\ Starts(ListenerTodo, "trap") /\ LTurn
    <3>1. "trap" # "testDr6"
      OBVIOUS
    <3>. QED BY <2>1, <2>2, <3>1, ListenerLast
  <2>3. \E n : IsSeq(n) /\ Goto(Listener, n)
    <3>1. PICK x : x = <<Arg(Listener), trapExp \/ Arg(Listener) = "clone">>
      OBVIOUS
    <3>2. CASE Arg(Listener) = "clone"
      <4>1. Goto(Listener, CloneThen(x))
        BY <3>1, <3>2 DEF Trap, TrapThen, CloneThen
      <4>2. IsSeq(CloneThen(x))
        BY CloneElements
      <4>. QED BY <4>1, <4>2
    <3>3. CASE Arg(Listener) # "clone"
      <4>1. PICK n : n = <<Op("readRegisters"), Instr("testDr6", x)>>
        OBVIOUS
      <4>2. IsSeq(n)
        BY <4>1, TestElements
      <4>3. <<>> \o n = n
        BY <4>2, IsSeqOfElements, ConcatEmptySeq
      <4>4. Goto(Listener, <<>> \o n)
        BY <3>1, <3>3, <4>1 DEF Trap, TrapThen
      <4>. QED BY <4>2, <4>3, <4>4
    <3>. QED BY <3>2, <3>3
  <2>. QED BY <2>2, <2>3
<1>3. UNCHANGED <<run, event, reason, pending, rip, dr6, known, state, regSync, queue,
                  cRip, cDr6, futRegs, futDr6, peeked, spurious, aim, callbacks>>
      /\ trapExp' = FALSE
  BY DEF Trap, TrapThen, kernelVars, cacheVars, historyVars
<1>5. /\ (QTurn' <=> QTurn) /\ (KTurn' <=> KTurn) /\ \A o : Queued(o)' <=> Queued(o)
  BY <1>3, QueueKept, KernelKept
<1>6. /\ ~Has(ListenerTodo, "hit") /\ ~Has(ListenerTodo, "setDr6") /\ cDr6 = {} /\ Has(ListenerTodo, "trap")
      /\ Arg(Listener) = reason /\ reason \in Traps /\ ~trapExp
  BY <1>1, <1>4 DEF Has, Dr6, Told, Base
<1>7. /\ ~KTurn /\ ~CTurn /\ ~QTurn /\ known /\ state = "STOPPED" /\ CallbackTodo = <<>>
      /\ callbacks = <<>> /\ aim = "none" /\ event \in NoStop /\ regSync = "OLD"
  BY <1>1, <1>4 DEF Turns, CTurn, Rip, KTurn, Caches
<1>8. PICK x : x = <<reason, reason = "clone">>
  OBVIOUS
<1>9. x[1] = reason /\ x[2] = (reason = "clone")
  BY <1>8
<1>12. \A o : ~Has(CallbackTodo, o) /\ ~Starts(CallbackTodo, o)
  BY <1>7, CallbackEmpty
<1>13. WatchSeen <=> reason = "watch"
  BY <1>1, <1>6 DEF WatchSeen
<1>14. dr6 # {} => reason = "watch" /\ \E i \in WatchIdx : dr6 = {i}
  <2>1. ~Queued("POKEDR6")
    BY <1>4, <1>7, <1>12 DEF Sent
  <2>. QED BY <1>4, <1>6, <1>7, <1>13, <2>1 DEF Dr6, NoStop
<1>10. CASE reason = "clone"
  <2>1. PICK n : n = CloneThen(x)
    OBVIOUS
  <2>2. /\ IsSeq(n) /\ DOMAIN n = 1 .. 5
        /\ n[1].op = "writeRegisters" /\ n[2].op = "cont" /\ Continued(n, 3)
        /\ n[4].op = "readRegisters" /\ n[5].op = "testDr6" /\ n[5].arg = x
        /\ Orderly(n) /\ HandsOver(n) /\ ~Tests(n) /\ ~RecordsStop(n)
    BY <1>9, <1>10, <2>1, CloneElements, OrderlyClone
  <2>3. ListenerTodo' = n /\ UNCHANGED CallbackTodo
    <3>1. x = <<Arg(Listener), trapExp \/ Arg(Listener) = "clone">>
      BY <1>6, <1>8, <1>10
    <3>2. Goto(Listener, n)
      BY <1>6, <1>10, <2>1, <3>1 DEF Trap, TrapThen, CloneThen
    <3>. QED BY <1>1, <2>2, <3>2
  <2>4. \A k \in DOMAIN n : k = 1 \/ k = 2 \/ k = 3 \/ k = 4 \/ k = 5
    BY <2>2
  <2>5. n[3].op = "setState" /\ n # <<>>
    BY <2>2 DEF Continued, Sets
  <2>6. /\ Orderly(ListenerTodo') /\ LTurn' /\ Past' /\ ~Tests(ListenerTodo)'
        /\ \A k \in DOMAIN ListenerTodo' :
             /\ ListenerTodo'[k].op \notin {"trap", "matchBreakPoint", "hit", "setDr6"}
             /\ ListenerTodo'[k].op = "testDr6" => ListenerTodo'[k].arg = x
        /\ ~Has(ListenerTodo, "hit")' /\ ~Has(ListenerTodo, "setDr6")'
        /\ \A o : Starts(ListenerTodo, o)' => o = "writeRegisters"
    BY <2>2, <2>3, <2>4, <2>5 DEF LTurn, Past, Has, Starts
  <2>7. /\ CTurn' <=> CTurn
        /\ \A o : (Has(CallbackTodo, o)' <=> Has(CallbackTodo, o))
             /\ (Starts(CallbackTodo, o)' <=> Starts(CallbackTodo, o))
    BY <1>3, <2>3, CallbackKept
  <2>8. Sent' /\ Base'
    BY <1>3, <1>4, <1>5, <1>7, <2>7 DEF Sent, Base
  <2>9. Told'
    BY <1>4, <1>9, <1>10, <2>3, <2>6 DEF Told
  <2>10. Turns'
    BY <1>3, <1>5, <1>7, <2>3, <2>6, <2>7 DEF Turns
  <2>11. Caches'
    BY <1>3, <1>7 DEF Caches
  <2>12. Dr6'
    <3>1. dr6 = {}
      BY <1>10, <1>14
    <3>2. ~WatchSeen'
      BY <1>3, <1>10 DEF WatchSeen
    <3>. QED BY <1>3, <1>4, <1>5, <1>6, <1>7, <1>10, <2>6, <3>1, <3>2 DEF Dr6
  <2>13. Rip'
    BY <1>3, <1>4, <1>5, <1>7, <1>10, <1>12, <2>6, <2>7 DEF Rip
  <2>. QED BY <2>8, <2>9, <2>10, <2>11, <2>12, <2>13 DEF Turn
<1>11. CASE reason # "clone"
  <2>1. PICK n : n = <<Op("readRegisters"), Instr("testDr6", x)>>
    OBVIOUS
  <2>2. /\ IsSeq(n) /\ DOMAIN n = 1 .. 2
        /\ n[1].op = "readRegisters" /\ n[2].op = "testDr6" /\ n[2].arg = x
        /\ Orderly(n) /\ HandsOver(n) /\ Tests(n) /\ ~RecordsStop(n)
    BY <1>9, <1>11, <2>1, TestElements, OrderlyTest
  <2>3. ListenerTodo' = n /\ UNCHANGED CallbackTodo
    <3>1. x = <<Arg(Listener), trapExp \/ Arg(Listener) = "clone">>
      BY <1>6, <1>8, <1>11
    <3>2. <<>> \o n = n
      BY <2>2, IsSeqOfElements, ConcatEmptySeq
    <3>3. Goto(Listener, <<>> \o n)
      BY <1>6, <1>11, <2>1, <3>1 DEF Trap, TrapThen
    <3>. QED BY <1>1, <2>2, <3>2, <3>3
  <2>4. \A k \in DOMAIN n : k = 1 \/ k = 2
    BY <2>2
  <2>6. /\ Orderly(ListenerTodo') /\ LTurn' /\ Past' /\ Tests(ListenerTodo)'
        /\ \A k \in DOMAIN ListenerTodo' :
             /\ ListenerTodo'[k].op \in {"readRegisters", "testDr6"}
             /\ ListenerTodo'[k].op = "testDr6" => ListenerTodo'[k].arg = x
        /\ ~Has(ListenerTodo, "hit")' /\ ~Has(ListenerTodo, "setDr6")'
        /\ \A o : Starts(ListenerTodo, o)' => o = "readRegisters"
    BY <2>2, <2>3, <2>4 DEF LTurn, Past, Has, Starts
  <2>7. /\ CTurn' <=> CTurn
        /\ \A o : (Has(CallbackTodo, o)' <=> Has(CallbackTodo, o))
             /\ (Starts(CallbackTodo, o)' <=> Starts(CallbackTodo, o))
    BY <1>3, <2>3, CallbackKept
  <2>8. Sent' /\ Base'
    BY <1>3, <1>4, <1>5, <1>7, <2>7 DEF Sent, Base
  <2>9. Told'
    BY <1>3, <1>4, <1>6, <1>9, <1>11, <2>3, <2>6 DEF Told
  <2>10. Turns'
    BY <1>3, <1>5, <1>7, <2>3, <2>6, <2>7 DEF Turns
  <2>11. Caches'
    BY <1>3, <1>7 DEF Caches
  <2>12. Dr6'
    <3>2. WatchSeen' <=> WatchSeen
      BY <1>3, <1>13, <2>6 DEF WatchSeen
    <3>. QED BY <1>3, <1>4, <1>5, <1>6, <1>7, <1>13, <1>14, <2>6, <3>2 DEF Dr6
  <2>13. Rip'
    BY <1>1, <1>3, <1>4, <1>5, <1>7, <1>11, <1>12, <2>6, <2>7 DEF Rip
  <2>. QED BY <2>8, <2>9, <2>10, <2>11, <2>12, <2>13 DEF Turn
<1>. QED BY <1>10, <1>11

-----------------------------------------------------------------------------
(* The steps of a callback.                                                *)

(* What the callback's move leaves alone, when it has yet to resume.       *)
CallbackMoving == (CallbackOps \cup {"writeRegisters"}) \ {"jumpBack"}

CallbackHolds ==
  /\ CTurn /\ ~KTurn /\ ~LTurn /\ ~QTurn /\ ListenerTodo = <<>> /\ callbacks = <<>>
  /\ state = "STOPPED" /\ known /\ run = "stopped" /\ event \in NoStop /\ cDr6 = {}

LEMMA CallbackHasTurn ==
  ASSUME Turn, Has(CallbackTodo, "cont")
  PROVE  CallbackHolds
<1>1. CTurn /\ CallbackTodo # <<>>
  BY DEF CTurn, Has
<1>2. ~KTurn /\ ~QTurn /\ ~LTurn /\ ListenerTodo = <<>> /\ state = "STOPPED" /\ known /\ callbacks = <<>>
  BY <1>1 DEF Turn, Turns
<1>3. cDr6 = {}
  BY <1>2, ListenerEmpty DEF Turn, Dr6
<1>. QED BY <1>1, <1>2, <1>3 DEF CallbackHolds, KTurn

LEMMA CallbackDone ==
  ASSUME Shape, Turn, NEW op \in CallbackMoving, At(Callback, op), Done(Callback),
         UNCHANGED <<run, event, reason, callbacks>>, QTurn' => QTurn
  PROVE  /\ CallbackHolds
         /\ Told' /\ CTurn' /\ ~KTurn' /\ ~QTurn' /\ ~LTurn' /\ ListenerTodo' = <<>>
         /\ Starts(CallbackTodo, op) /\ Arg(Callback) = CallbackTodo[1].arg
         /\ \A o : Has(CallbackTodo, o)' => Has(CallbackTodo, o)
         /\ op = "writeRegisters" <=> Starts(CallbackTodo, "cont")'
         /\ Starts(CallbackTodo, "getRegs")' => op = "readRegisters"
         /\ Starts(CallbackTodo, "setRip")' => op = "getRegs"
         /\ op = "setRip" => ~Has(CallbackTodo, "jumpBack")' /\ Arg(Callback) \notin {"wild", "none"}
         /\ \A o : ~Has(ListenerTodo, o) /\ ~Starts(ListenerTodo, o)
         /\ \A o : ~Has(ListenerTodo, o)' /\ ~Starts(ListenerTodo, o)'
         /\ \A k \in DOMAIN ListenerTodo' : FALSE
         /\ ~Tests(ListenerTodo)' /\ ~WatchSeen /\ ~WatchSeen' /\ ~Starts(CallbackTodo, "cont")
<1>1. Callback \in Actors /\ Listener \in Actors \ {Callback}
  BY ActorsAssumption DEF Actors
<1>2. PICK s, t : s = CallbackTodo /\ t = CallbackTodo'
  OBVIOUS
<1>3. /\ Rest(s, t) /\ s[1].op = op /\ Arg(Callback) = s[1].arg /\ UNCHANGED ListenerTodo
  BY <1>1, <1>2, GoesOn DEF ListenerTodo, CallbackTodo
<1>4. Driving(s) /\ s # <<>>
  BY <1>2, <1>3 DEF Turn, Told, Rest
<1>5. op \notin {"cont", "setState"}
  BY DEF CallbackMoving, CallbackOps
<1>6. /\ Driving(t) /\ t # <<>> /\ Has(s, "cont") /\ Has(t, "cont")
      /\ t[1].op = "cont" => op = "writeRegisters"
      /\ op = "writeRegisters" => t[1].op = "cont"
      /\ t[1].op = "getRegs" => op = "readRegisters"
      /\ t[1].op = "setRip" => op = "getRegs"
  BY <1>3, <1>4, <1>5, DrivingTail
<1>7. CallbackHolds
  BY <1>2, <1>6, CallbackHasTurn
<1>8. \A o : Has(t, o) => Has(s, o)
  BY <1>3, HasTail
<1>9. op = "setRip" => ~Has(t, "jumpBack") /\ Arg(Callback) \notin {"wild", "none"}
  <2>. SUFFICES ASSUME op = "setRip" PROVE ~Has(t, "jumpBack") /\ Arg(Callback) \notin {"wild", "none"}
    OBVIOUS
  <2>1. 1 \in DOMAIN s /\ s[1].op = "setRip"
    BY <1>3 DEF Rest
  <2>2. \A k \in DOMAIN t : k + 1 \in DOMAIN s /\ t[k] = s[k + 1] /\ 1 < k + 1
    BY <1>3 DEF Rest
  <2>3. \A k \in DOMAIN s : s[k].op = "jumpBack" => ~(1 < k)
    BY <1>4, <2>1 DEF Driving
  <2>. QED BY <1>3, <1>4, <2>1, <2>2, <2>3 DEF Has, Driving
<1>10. /\ ListenerTodo = <<>> /\ ListenerTodo' = <<>>
       /\ CTurn' /\ ~KTurn' /\ ~QTurn' /\ ~LTurn'
  <2>1. ListenerTodo = <<>> /\ ~KTurn /\ ~QTurn
    BY <1>7 DEF CallbackHolds
  <2>2. ~HandsOver(ListenerTodo')
    BY <1>3, <2>1, OrderlyNone
  <2>. QED BY <1>2, <1>3, <1>6, <2>1, <2>2 DEF CTurn, KTurn, LTurn
<1>11. /\ \A o : ~Has(ListenerTodo, o) /\ ~Starts(ListenerTodo, o)
       /\ \A o : ~Has(ListenerTodo, o)' /\ ~Starts(ListenerTodo, o)'
       /\ \A k \in DOMAIN ListenerTodo' : FALSE
       /\ ~Tests(ListenerTodo)' /\ ~WatchSeen /\ ~WatchSeen'
  BY <1>7, <1>10, ListenerEmpty, OrderlyNone DEF Has, Starts, CallbackHolds, WatchSeen
<1>12. Told'
  BY <1>2, <1>6, <1>10, <1>11, OrderlyNone DEF Told
<1>13. ~Starts(CallbackTodo, "cont")
  BY <1>2, <1>3, <1>5 DEF Starts
<1>. QED BY <1>2, <1>3, <1>4, <1>6, <1>7, <1>8, <1>9, <1>10, <1>11, <1>12, <1>13 DEF Starts
LEMMA CallbackLocks ==
  ASSUME Shape, Turn, LockState(Callback)
  PROVE  Turn'
<1>1. /\ CallbackHolds
      /\ Told' /\ CTurn' /\ ~KTurn' /\ ~QTurn' /\ ~LTurn' /\ ListenerTodo' = <<>>
      /\ Starts(CallbackTodo, "lock") /\ Arg(Callback) = CallbackTodo[1].arg
      /\ \A o : Has(CallbackTodo, o)' => Has(CallbackTodo, o)
      /\ ~Starts(CallbackTodo, "cont")'
      /\ ~Starts(CallbackTodo, "getRegs")'
      /\ ~Starts(CallbackTodo, "setRip")'
      /\ \A o : ~Has(ListenerTodo, o) /\ ~Starts(ListenerTodo, o)
      /\ \A o : ~Has(ListenerTodo, o)' /\ ~Starts(ListenerTodo, o)'
      /\ \A k \in DOMAIN ListenerTodo' : FALSE
      /\ ~Tests(ListenerTodo)' /\ ~WatchSeen /\ ~WatchSeen' /\ ~Starts(CallbackTodo, "cont")
  <2>1. "lock" \in CallbackMoving /\ At(Callback, "lock") /\ Done(Callback)
    BY DEF CallbackMoving, CallbackOps, LockState
  <2>2. UNCHANGED <<run, event, reason, callbacks>>
    BY DEF LockState, kernelVars
  <2>3. QTurn' => QTurn
    BY QueueKept DEF LockState
  <2>. QED BY <2>1, <2>2, <2>3, CallbackDone
<1>2. (QTurn' <=> QTurn) /\ (\A o : Queued(o)' <=> Queued(o))
  BY QueueKept DEF LockState
<1>3. UNCHANGED <<run, event, reason, pending, rip, dr6, known, state, trapExp, regSync, queue, cRip, cDr6, futRegs, futDr6, peeked, spurious, aim, callbacks>>
  BY DEF LockState, kernelVars, threadVars, cacheVars, historyVars
<1>4. Told /\ Sent /\ Base /\ Turns /\ Caches /\ Dr6 /\ Rip
  BY DEF Turn
<1>7. Turns'
  BY <1>1, <1>3 DEF Turns, CallbackHolds
<1>5. Sent' /\ Base'
  BY <1>1, <1>2, <1>3, <1>4 DEF Sent, Base, CallbackHolds
<1>9. Caches'
  BY <1>1, <1>3, <1>4 DEF Caches
<1>10. Dr6'
  BY <1>1, <1>2, <1>3, <1>4 DEF Dr6, CallbackHolds
<1>11. Rip'
  <2>1. AtBreak' <=> AtBreak
    BY <1>3 DEF AtBreak
  <2>. QED BY <1>1, <1>2, <1>3, <1>4, <2>1 DEF Rip, CallbackHolds
<1>. QED BY <1>1, <1>5, <1>7, <1>9, <1>10, <1>11 DEF Turn

LEMMA CallbackUnlocks ==
  ASSUME Shape, Turn, UnlockState(Callback)
  PROVE  Turn'
<1>1. /\ CallbackHolds
      /\ Told' /\ CTurn' /\ ~KTurn' /\ ~QTurn' /\ ~LTurn' /\ ListenerTodo' = <<>>
      /\ Starts(CallbackTodo, "unlock") /\ Arg(Callback) = CallbackTodo[1].arg
      /\ \A o : Has(CallbackTodo, o)' => Has(CallbackTodo, o)
      /\ ~Starts(CallbackTodo, "cont")'
      /\ ~Starts(CallbackTodo, "getRegs")'
      /\ ~Starts(CallbackTodo, "setRip")'
      /\ \A o : ~Has(ListenerTodo, o) /\ ~Starts(ListenerTodo, o)
      /\ \A o : ~Has(ListenerTodo, o)' /\ ~Starts(ListenerTodo, o)'
      /\ \A k \in DOMAIN ListenerTodo' : FALSE
      /\ ~Tests(ListenerTodo)' /\ ~WatchSeen /\ ~WatchSeen' /\ ~Starts(CallbackTodo, "cont")
  <2>1. "unlock" \in CallbackMoving /\ At(Callback, "unlock") /\ Done(Callback)
    BY DEF CallbackMoving, CallbackOps, UnlockState
  <2>2. UNCHANGED <<run, event, reason, callbacks>>
    BY DEF UnlockState, kernelVars
  <2>3. QTurn' => QTurn
    BY QueueKept DEF UnlockState
  <2>. QED BY <2>1, <2>2, <2>3, CallbackDone
<1>2. (QTurn' <=> QTurn) /\ (\A o : Queued(o)' <=> Queued(o))
  BY QueueKept DEF UnlockState
<1>3. UNCHANGED <<run, event, reason, pending, rip, dr6, known, state, trapExp, regSync, queue, cRip, cDr6, futRegs, futDr6, peeked, spurious, aim, callbacks>>
  BY DEF UnlockState, kernelVars, threadVars, cacheVars, historyVars
<1>4. Told /\ Sent /\ Base /\ Turns /\ Caches /\ Dr6 /\ Rip
  BY DEF Turn
<1>7. Turns'
  BY <1>1, <1>3 DEF Turns, CallbackHolds
<1>5. Sent' /\ Base'
  BY <1>1, <1>2, <1>3, <1>4 DEF Sent, Base, CallbackHolds
<1>9. Caches'
  BY <1>1, <1>3, <1>4 DEF Caches
<1>10. Dr6'
  BY <1>1, <1>2, <1>3, <1>4 DEF Dr6, CallbackHolds
<1>11. Rip'
  <2>1. AtBreak' <=> AtBreak
    BY <1>3 DEF AtBreak
  <2>. QED BY <1>1, <1>2, <1>3, <1>4, <2>1 DEF Rip, CallbackHolds
<1>. QED BY <1>1, <1>5, <1>7, <1>9, <1>10, <1>11 DEF Turn

LEMMA CallbackGetsRegs ==
  ASSUME Shape, Turn, GetRegs(Callback)
  PROVE  Turn'
<1>1. /\ CallbackHolds
      /\ Told' /\ CTurn' /\ ~KTurn' /\ ~QTurn' /\ ~LTurn' /\ ListenerTodo' = <<>>
      /\ Starts(CallbackTodo, "getRegs") /\ Arg(Callback) = CallbackTodo[1].arg
      /\ \A o : Has(CallbackTodo, o)' => Has(CallbackTodo, o)
      /\ ~Starts(CallbackTodo, "cont")'
      /\ ~Starts(CallbackTodo, "getRegs")'
      /\ \A o : ~Has(ListenerTodo, o) /\ ~Starts(ListenerTodo, o)
      /\ \A o : ~Has(ListenerTodo, o)' /\ ~Starts(ListenerTodo, o)'
      /\ \A k \in DOMAIN ListenerTodo' : FALSE
      /\ ~Tests(ListenerTodo)' /\ ~WatchSeen /\ ~WatchSeen' /\ ~Starts(CallbackTodo, "cont")
  <2>1. "getRegs" \in CallbackMoving /\ At(Callback, "getRegs") /\ Done(Callback)
    BY DEF CallbackMoving, CallbackOps, GetRegs
  <2>2. UNCHANGED <<run, event, reason, callbacks>>
    BY DEF GetRegs, kernelVars
  <2>3. QTurn' => QTurn
    BY QueueKept DEF GetRegs
  <2>. QED BY <2>1, <2>2, <2>3, CallbackDone
<1>2. (QTurn' <=> QTurn) /\ (\A o : Queued(o)' <=> Queued(o))
  BY QueueKept DEF GetRegs
<1>3. UNCHANGED <<run, event, reason, pending, rip, dr6, known, state, trapExp, regSync, queue, cRip, cDr6, futDr6, peeked, spurious, aim, callbacks>>
      /\ futRegs' = FALSE /\ (futRegs => ~Queued("GETREGS"))
  BY DEF GetRegs, kernelVars, threadVars, cacheVars, historyVars
<1>4. Told /\ Sent /\ Base /\ Turns /\ Caches /\ Dr6 /\ Rip
  BY DEF Turn
<1>7. Turns'
  BY <1>1, <1>3 DEF Turns, CallbackHolds
<1>5. Sent' /\ Base'
  BY <1>1, <1>2, <1>3, <1>4 DEF Sent, Base, CallbackHolds
<1>9. Caches'
  BY <1>1, <1>3, <1>4 DEF Caches
<1>10. Dr6'
  BY <1>1, <1>2, <1>3, <1>4 DEF Dr6, CallbackHolds
<1>11. Rip'
  <2>1. AtBreak => AtBreak'
    BY <1>3 DEF AtBreak
  <2>. QED BY <1>1, <1>2, <1>3, <1>4, <2>1 DEF Rip, CallbackHolds
<1>. QED BY <1>1, <1>5, <1>7, <1>9, <1>10, <1>11 DEF Turn

LEMMA CallbackSetsRip ==
  ASSUME Shape, Turn, SetRipField(Callback)
  PROVE  Turn'
<1>1. /\ CallbackHolds
      /\ Told' /\ CTurn' /\ ~KTurn' /\ ~QTurn' /\ ~LTurn' /\ ListenerTodo' = <<>>
      /\ Starts(CallbackTodo, "setRip") /\ Arg(Callback) = CallbackTodo[1].arg
      /\ \A o : Has(CallbackTodo, o)' => Has(CallbackTodo, o)
      /\ ~Starts(CallbackTodo, "cont")'
      /\ ~Starts(CallbackTodo, "getRegs")'
      /\ ~Starts(CallbackTodo, "setRip")'
      /\ ~Has(CallbackTodo, "jumpBack")' /\ Arg(Callback) \notin {"wild", "none"}
      /\ \A o : ~Has(ListenerTodo, o) /\ ~Starts(ListenerTodo, o)
      /\ \A o : ~Has(ListenerTodo, o)' /\ ~Starts(ListenerTodo, o)'
      /\ \A k \in DOMAIN ListenerTodo' : FALSE
      /\ ~Tests(ListenerTodo)' /\ ~WatchSeen /\ ~WatchSeen' /\ ~Starts(CallbackTodo, "cont")
  <2>1. "setRip" \in CallbackMoving /\ At(Callback, "setRip") /\ Done(Callback)
    BY DEF CallbackMoving, CallbackOps, SetRipField
  <2>2. UNCHANGED <<run, event, reason, callbacks>>
    BY DEF SetRipField, kernelVars
  <2>3. QTurn' => QTurn
    BY QueueKept DEF SetRipField
  <2>. QED BY <2>1, <2>2, <2>3, CallbackDone
<1>2. (QTurn' <=> QTurn) /\ (\A o : Queued(o)' <=> Queued(o))
  BY QueueKept DEF SetRipField
<1>3. UNCHANGED <<run, event, reason, pending, rip, dr6, known, state, trapExp, queue, cDr6, futRegs, futDr6, peeked, spurious, callbacks>>
      /\ cRip' = Arg(Callback) /\ regSync' = "NEW" /\ aim' = IF state = "STOPPED" THEN Arg(Callback) ELSE aim
  BY DEF SetRipField, kernelVars, threadVars, cacheVars, historyVars
<1>4. Told /\ Sent /\ Base /\ Turns /\ Caches /\ Dr6 /\ Rip
  BY DEF Turn
<1>7. Turns'
  BY <1>1, <1>3 DEF Turns, CallbackHolds
<1>5. Sent' /\ Base'
  BY <1>1, <1>2, <1>3, <1>4 DEF Sent, Base, CallbackHolds
<1>9. Caches'
  BY <1>1, <1>3, <1>4 DEF Caches
<1>10. Dr6'
  <2>1. regSync # "OLD"
    BY <1>1, <1>4 DEF Rip
  <2>. QED BY <1>1, <1>2, <1>3, <1>4, <2>1 DEF Dr6, CallbackHolds
<1>11. Rip'
  <2>1. ~futRegs /\ aim' = Arg(Callback)
    BY <1>1, <1>3, <1>4 DEF Rip, CallbackHolds
  <2>. QED BY <1>1, <1>2, <1>3, <1>4, <2>1 DEF Rip, CallbackHolds
<1>. QED BY <1>1, <1>5, <1>7, <1>9, <1>10, <1>11 DEF Turn

LEMMA CallbackSends ==
  ASSUME Shape, Turn, NEW op \in {"setBreak", "unsetBreak"}, At(Callback, op), Done(Callback), NEW cmd,
         cmd.op = "POKE", UNCHANGED queue \/ Send(<<cmd>>),
         UNCHANGED <<run, event, reason, pending, rip, dr6, known, state, trapExp, regSync, cRip, cDr6,
                     futRegs, futDr6, peeked, spurious, aim, callbacks>>
  PROVE  Turn'
<1>2. /\ \A o : Queued(o)' => Queued(o) \/ o = "POKE"
      /\ \A o : Queued(o) => Queued(o)'
      /\ \A k \in DOMAIN queue' : \/ k \in DOMAIN queue /\ queue'[k] = queue[k]
                                  \/ queue'[k] = cmd
  <2>1. CASE UNCHANGED queue
    BY <2>1, QueueKept
  <2>2. CASE Send(<<cmd>>)
    <3>1. /\ \A o : Queued(o)' <=> (Queued(o) \/ o = cmd.op)
          /\ \A k \in DOMAIN queue' : \/ k \in DOMAIN queue /\ queue'[k] = queue[k]
                                      \/ queue'[k] = cmd
      BY <2>2, QueuedOne
    <3>. QED BY <3>1
  <2>. QED BY <2>1, <2>2
<1>1. /\ CallbackHolds
      /\ Told' /\ CTurn' /\ ~KTurn' /\ ~QTurn' /\ ~LTurn' /\ ListenerTodo' = <<>>
      /\ Starts(CallbackTodo, op)
      /\ \A o : Has(CallbackTodo, o)' => Has(CallbackTodo, o)
      /\ ~Starts(CallbackTodo, "cont")'
      /\ ~Starts(CallbackTodo, "getRegs")'
      /\ ~Starts(CallbackTodo, "setRip")'
      /\ \A o : ~Has(ListenerTodo, o) /\ ~Starts(ListenerTodo, o)
      /\ \A o : ~Has(ListenerTodo, o)' /\ ~Starts(ListenerTodo, o)'
      /\ \A k \in DOMAIN ListenerTodo' : FALSE
      /\ ~Tests(ListenerTodo)' /\ ~WatchSeen /\ ~WatchSeen' /\ ~Starts(CallbackTodo, "cont")
  <2>1. op \in CallbackMoving /\ op \notin {"writeRegisters", "readRegisters", "getRegs"}
    BY DEF CallbackMoving, CallbackOps
  <2>2. QTurn' => QTurn
    BY <1>2 DEF QTurn
  <2>. QED BY <2>1, <2>2, CallbackDone
<1>3. UNCHANGED <<run, event, reason, pending, rip, dr6, known, state, trapExp, regSync, cRip, cDr6,
                  futRegs, futDr6, peeked, spurious, aim, callbacks>>
  OBVIOUS
<1>4. Told /\ Sent /\ Base /\ Turns /\ Caches /\ Dr6 /\ Rip
  BY DEF Turn
<1>5. Sent' /\ Base'
  <2>1. ~Queued("CONT")
    BY <1>1 DEF CallbackHolds, QTurn
  <2>2. \A k \in DOMAIN queue : queue[k].op # "CONT"
    BY <2>1 DEF Queued
  <2>3. \A k \in DOMAIN queue' : /\ queue'[k].op \in QueueOps /\ queue'[k].op # "CONT"
                                 /\ queue'[k].op = "POKEDR6" => queue'[k].arg = {}
    BY <1>2, <1>4, <2>2 DEF Sent, QueueOps
  <2>4. /\ Queued("GETREGS")' => futRegs'
        /\ Queued("PEEKDR6")' => futDr6'
        /\ ~Queued("SETREGS")' /\ ~Queued("POKEDR6")'
    BY <1>1, <1>2, <1>4 DEF Sent, CallbackHolds
  <2>. QED BY <1>1, <1>3, <1>4, <2>3, <2>4 DEF Sent, Base
<1>7. Turns'
  BY <1>1, <1>3 DEF Turns, CallbackHolds
<1>9. Caches'
  BY <1>1, <1>3, <1>4 DEF Caches
<1>10. Dr6'
  BY <1>1, <1>2, <1>3, <1>4 DEF Dr6, CallbackHolds
<1>11. Rip'
  <2>1. AtBreak' <=> AtBreak
    BY <1>3 DEF AtBreak
  <2>. QED BY <1>1, <1>2, <1>3, <1>4, <2>1 DEF Rip, CallbackHolds
<1>. QED BY <1>1, <1>5, <1>7, <1>9, <1>10, <1>11 DEF Turn

LEMMA CallbackSetsBreak ==
  ASSUME Shape, Turn, SetBreak(Callback) \/ UnsetBreak(Callback)
  PROVE  Turn'
<1>1. UNCHANGED <<run, event, reason, pending, rip, dr6, known, state, trapExp, regSync, cRip, cDr6,
                  futRegs, futDr6, peeked, spurious, aim, callbacks>>
  BY DEF SetBreak, UnsetBreak, kernelVars, threadVars, cacheVars, historyVars
<1>2. \A arg : Cmd(Callback, "POKE", arg).op = "POKE"
  BY DEF Cmd
<1>3. CASE SetBreak(Callback)
  <2>1. /\ At(Callback, "setBreak") /\ Done(Callback)
        /\ UNCHANGED queue \/ Send(<<Cmd(Callback, "POKE", "int3")>>)
    BY <1>3 DEF SetBreak
  <2>. QED BY <1>1, <1>2, <2>1, CallbackSends
<1>4. CASE UnsetBreak(Callback)
  <2>1. /\ At(Callback, "unsetBreak") /\ Done(Callback)
        /\ UNCHANGED queue \/ Send(<<Cmd(Callback, "POKE", backup)>>)
    BY <1>4 DEF UnsetBreak
  <2>. QED BY <1>1, <1>2, <2>1, CallbackSends
<1>. QED BY <1>3, <1>4

LEMMA CallbackReads ==
  ASSUME Shape, Turn, ReadRegisters(Callback)
  PROVE  Turn'
<1>4. Told /\ Sent /\ Base /\ Turns /\ Caches /\ Dr6 /\ Rip
  BY DEF Turn
<1>3. UNCHANGED <<run, event, reason, pending, rip, dr6, known, state, trapExp,
                  cRip, cDr6, peeked, spurious, aim, callbacks>>
  BY DEF ReadRegisters, kernelVars, historyVars
<1>2. /\ regSync = "OLD" /\ state = "STOPPED" =>
           /\ regSync' = "SYNC" /\ futRegs' /\ futDr6'
           /\ \A o : Queued(o)' <=> (Queued(o) \/ o \in {"PEEKDR6", "GETREGS"})
           /\ \A k \in DOMAIN queue' : \/ k \in DOMAIN queue /\ queue'[k] = queue[k]
                                       \/ queue'[k].op \in {"PEEKDR6", "GETREGS"}
      /\ ~(regSync = "OLD" /\ state = "STOPPED") =>
           /\ UNCHANGED <<queue, futDr6, futRegs, regSync>>
           /\ \A o : Queued(o)' <=> Queued(o)
  <2>1. CASE regSync = "OLD" /\ state = "STOPPED"
    <3>1. /\ futDr6' = TRUE /\ futRegs' = TRUE /\ regSync' = "SYNC"
          /\ Send(<<Cmd(Callback, "PEEKDR6", "none"), Cmd(Callback, "GETREGS", "none")>>)
      BY <2>1 DEF ReadRegisters
    <3>2. PICK c : c = Cmd(Callback, "PEEKDR6", "none")
      OBVIOUS
    <3>3. PICK d : d = Cmd(Callback, "GETREGS", "none")
      OBVIOUS
    <3>4. c.op = "PEEKDR6" /\ d.op = "GETREGS"
      BY <3>2, <3>3 DEF Cmd
    <3>5. Send(<<c, d>>)
      BY <3>1, <3>2, <3>3
    <3>6. /\ \A o : Queued(o)' <=> (Queued(o) \/ o = "PEEKDR6" \/ o = "GETREGS")
          /\ \A k \in DOMAIN queue' : \/ k \in DOMAIN queue /\ queue'[k] = queue[k]
                                      \/ queue'[k].op \in {"PEEKDR6", "GETREGS"}
      BY <3>4, <3>5, QueuedTwo
    <3>. QED BY <2>1, <3>1, <3>6
  <2>2. CASE ~(regSync = "OLD" /\ state = "STOPPED")
    <3>1. UNCHANGED <<queue, futDr6, futRegs, regSync>>
      BY <2>2 DEF ReadRegisters
    <3>. QED BY <2>2, <3>1, QueueKept
  <2>. QED BY <2>1, <2>2
<1>1. /\ CallbackHolds
      /\ Told' /\ CTurn' /\ ~KTurn' /\ ~QTurn' /\ ~LTurn' /\ ListenerTodo' = <<>>
      /\ Starts(CallbackTodo, "readRegisters")
      /\ \A o : Has(CallbackTodo, o)' => Has(CallbackTodo, o)
      /\ ~Starts(CallbackTodo, "cont")'
      /\ ~Starts(CallbackTodo, "setRip")'
      /\ \A o : ~Has(ListenerTodo, o) /\ ~Starts(ListenerTodo, o)
      /\ \A o : ~Has(ListenerTodo, o)' /\ ~Starts(ListenerTodo, o)'
      /\ \A k \in DOMAIN ListenerTodo' : FALSE
      /\ ~Tests(ListenerTodo)' /\ ~WatchSeen /\ ~WatchSeen' /\ ~Starts(CallbackTodo, "cont")
  <2>1. "readRegisters" \in CallbackMoving /\ At(Callback, "readRegisters") /\ Done(Callback)
    BY DEF CallbackMoving, CallbackOps, ReadRegisters
  <2>2. QTurn' => QTurn
    BY <1>2 DEF QTurn
  <2>. QED BY <1>3, <2>1, <2>2, CallbackDone
<1>6. /\ ~Queued("SETREGS") /\ ~Queued("POKEDR6") /\ ~Queued("CONT") /\ state = "STOPPED"
      /\ regSync' # "OLD"
  BY <1>1, <1>2, <1>4 DEF Sent, CallbackHolds, QTurn
<1>5. Sent' /\ Base'
  <2>2. \A k \in DOMAIN queue : queue[k].op # "CONT"
    BY <1>6 DEF Queued
  <2>3. \A k \in DOMAIN queue' : /\ queue'[k].op \in QueueOps /\ queue'[k].op # "CONT"
                                 /\ queue'[k].op = "POKEDR6" => queue'[k].arg = {}
    BY <1>2, <1>4, <2>2 DEF Sent, QueueOps
  <2>4. /\ Queued("GETREGS")' => futRegs'
        /\ Queued("PEEKDR6")' => futDr6'
        /\ ~Queued("SETREGS")' /\ ~Queued("POKEDR6")'
    BY <1>2, <1>4, <1>6 DEF Sent
  <2>. QED BY <1>1, <1>3, <1>4, <2>3, <2>4 DEF Sent, Base, CallbackHolds
<1>7. Turns'
  BY <1>1, <1>3 DEF Turns, CallbackHolds
<1>9. Caches'
  BY <1>1, <1>2, <1>3, <1>4 DEF Caches
<1>10. Dr6'
  BY <1>1, <1>2, <1>3, <1>4, <1>6 DEF Dr6, CallbackHolds, KTurn
<1>11. Rip'
  <2>1. AtBreak => AtBreak'
    BY <1>2, <1>3 DEF AtBreak
  <2>2. aim # "none" => regSync # "OLD" /\ ~futRegs
    BY <1>1, <1>4 DEF Rip, CallbackHolds
  <2>. QED BY <1>1, <1>2, <1>3, <1>4, <1>6, <2>1, <2>2 DEF Rip, CallbackHolds
<1>. QED BY <1>1, <1>5, <1>7, <1>9, <1>10, <1>11 DEF Turn

\* What writeRegisters puts in the queue.
LEMMA WritesSend ==
  ASSUME Shape, NEW a, WriteRegisters(a), regSync = "NEW"
  PROVE  /\ \A o : Queued(o)' <=> \/ Queued(o)
                                  \/ ~futRegs /\ o = "SETREGS"
                                  \/ ~futDr6 /\ o = "POKEDR6"
         /\ \A k \in DOMAIN queue' : \/ k \in DOMAIN queue /\ queue'[k] = queue[k]
                                     \/ queue'[k].op = "SETREGS"
                                     \/ queue'[k].op = "POKEDR6" /\ queue'[k].arg = cDr6
<1>1. PICK c : c = Cmd(a, "SETREGS", "none")
  OBVIOUS
<1>2. PICK d : d = Cmd(a, "POKEDR6", cDr6)
  OBVIOUS
<1>3. c.op = "SETREGS" /\ d.op = "POKEDR6" /\ d.arg = cDr6
  BY <1>1, <1>2 DEF Cmd
<1>4. Send((IF futRegs THEN <<>> ELSE <<c>>) \o (IF ~futDr6 THEN <<d>> ELSE <<>>))
  BY <1>1, <1>2 DEF WriteRegisters, WriteRegistersWith
<1>5. <<c>> \in Seq({c, d}) /\ <<d>> \in Seq({c, d}) /\ <<>> \in Seq({c, d})
  OBVIOUS
<1>6. /\ <<>> \o <<>> = <<>> /\ <<>> \o <<d>> = <<d>>
      /\ <<c>> \o <<>> = <<c>>
  BY <1>5, ConcatEmptySeq
<1>7. <<c>> \o <<d>> = <<c, d>>
  BY OneAndOne
<1>10. CASE futRegs /\ futDr6
  <2>1. Send(<<>>)
    BY <1>4, <1>6, <1>10
  <2>2. ASSUME NEW S, queue \in Seq(S) PROVE queue \o <<>> = queue
    BY <2>2, ConcatEmptySeq
  <2>3. queue \in Seq({queue[k] : k \in 1 .. Len(queue)})
    BY IsSeqOfElements DEF Shape
  <2>4. queue' = queue
    BY <2>1, <2>2, <2>3 DEF Send
  <2>. QED BY <1>10, <2>4, QueueKept
<1>11. CASE futRegs /\ ~futDr6
  <2>1. Send(<<d>>)
    BY <1>4, <1>6, <1>11
  <2>2. /\ \A o : Queued(o)' <=> (Queued(o) \/ o = d.op)
        /\ \A k \in DOMAIN queue' : \/ k \in DOMAIN queue /\ queue'[k] = queue[k]
                                    \/ queue'[k] = d
    BY <2>1, QueuedOne
  <2>. QED BY <1>3, <1>11, <2>2
<1>12. CASE ~futRegs /\ futDr6
  <2>1. Send(<<c>>)
    BY <1>4, <1>6, <1>12
  <2>2. /\ \A o : Queued(o)' <=> (Queued(o) \/ o = c.op)
        /\ \A k \in DOMAIN queue' : \/ k \in DOMAIN queue /\ queue'[k] = queue[k]
                                    \/ queue'[k] = c
    BY <2>1, QueuedOne
  <2>. QED BY <1>3, <1>12, <2>2
<1>13. CASE ~futRegs /\ ~futDr6
  <2>1. Send(<<c, d>>)
    BY <1>4, <1>7, <1>13
  <2>2. /\ \A o : Queued(o)' <=> (Queued(o) \/ o = c.op \/ o = d.op)
        /\ \A k \in DOMAIN queue' : \/ k \in DOMAIN queue /\ queue'[k] = queue[k]
                                    \/ queue'[k] \in {c, d}
    BY <2>1, QueuedTwo
  <2>. QED BY <1>3, <1>13, <2>2
<1>. QED BY <1>10, <1>11, <1>12, <1>13

LEMMA CallbackWrites ==
  ASSUME Shape, Turn, WriteRegisters(Callback)
  PROVE  Turn'
<1>4. Told /\ Sent /\ Base /\ Turns /\ Caches /\ Dr6 /\ Rip
  BY DEF Turn
<1>3. /\ UNCHANGED <<run, event, reason, pending, rip, dr6, known, state, trapExp,
                     cRip, cDr6, futRegs, futDr6, peeked, spurious, aim, callbacks>>
      /\ regSync = "NEW" => regSync' = "SYNC"
      /\ regSync # "NEW" => UNCHANGED <<queue, regSync>>
  BY DEF WriteRegisters, WriteRegistersWith, kernelVars, cacheVars, historyVars
<1>2. /\ \A o : Queued(o)' <=> \/ Queued(o)
                               \/ regSync = "NEW" /\ ~futRegs /\ o = "SETREGS"
                               \/ regSync = "NEW" /\ ~futDr6 /\ o = "POKEDR6"
      /\ \A k \in DOMAIN queue' : \/ k \in DOMAIN queue /\ queue'[k] = queue[k]
                                  \/ queue'[k].op = "SETREGS"
                                  \/ queue'[k].op = "POKEDR6" /\ queue'[k].arg = cDr6
  <2>1. CASE regSync = "NEW"
    BY <2>1, WritesSend
  <2>2. CASE regSync # "NEW"
    BY <1>3, <2>2, QueueKept
  <2>. QED BY <2>1, <2>2
<1>1. /\ CallbackHolds
      /\ Told' /\ CTurn' /\ ~KTurn' /\ ~QTurn' /\ ~LTurn' /\ ListenerTodo' = <<>>
      /\ \A o : Has(CallbackTodo, o)' => Has(CallbackTodo, o)
      /\ Starts(CallbackTodo, "cont")'
      /\ ~Starts(CallbackTodo, "getRegs")'
      /\ ~Starts(CallbackTodo, "setRip")'
      /\ \A o : ~Has(ListenerTodo, o) /\ ~Starts(ListenerTodo, o)
      /\ \A o : ~Has(ListenerTodo, o)' /\ ~Starts(ListenerTodo, o)'
      /\ \A k \in DOMAIN ListenerTodo' : FALSE
      /\ ~Tests(ListenerTodo)' /\ ~WatchSeen /\ ~WatchSeen' /\ ~Starts(CallbackTodo, "cont")
  <2>1. "writeRegisters" \in CallbackMoving /\ At(Callback, "writeRegisters") /\ Done(Callback)
    BY DEF CallbackMoving, CallbackOps, WriteRegisters, WriteRegistersWith
  <2>2. QTurn' => QTurn
    BY <1>2 DEF QTurn
  <2>. QED BY <1>3, <2>1, <2>2, CallbackDone
<1>6. ~Queued("SETREGS") /\ ~Queued("POKEDR6") /\ ~Queued("CONT") /\ cDr6 = {} /\ known
  BY <1>1, <1>4 DEF Sent, CallbackHolds, QTurn
<1>5. Sent' /\ Base'
  <2>2. \A k \in DOMAIN queue : queue[k].op # "CONT"
    BY <1>6 DEF Queued
  <2>3. \A k \in DOMAIN queue' : /\ queue'[k].op \in QueueOps /\ queue'[k].op # "CONT"
                                 /\ queue'[k].op = "POKEDR6" => queue'[k].arg = {}
    BY <1>2, <1>4, <1>6, <2>2 DEF Sent, QueueOps
  <2>4. /\ Queued("GETREGS")' => futRegs'
        /\ Queued("PEEKDR6")' => futDr6'
    BY <1>2, <1>3, <1>4 DEF Sent
  <2>. QED BY <1>1, <1>3, <1>4, <1>6, <2>3, <2>4 DEF Sent, Base
<1>7. Turns'
  BY <1>1, <1>3 DEF Turns, CallbackHolds
<1>8. regSync' # "NEW" /\ (regSync # "OLD" => regSync' # "OLD")
  BY <1>3
<1>9. Caches'
  BY <1>1, <1>8 DEF Caches
<1>10. Dr6'
  BY <1>1, <1>2, <1>3, <1>4, <1>6 DEF Dr6, CallbackHolds, KTurn
<1>11. Rip'
  <2>1. AtBreak => AtBreak'
    BY <1>3, <1>8 DEF AtBreak
  <2>2. aim # "none" => regSync = "NEW" /\ ~futRegs /\ cRip = aim
    BY <1>1, <1>4 DEF Rip, CallbackHolds
  <2>3. regSync = "OLD" => regSync' = "OLD"
    BY <1>3
  <2>. QED BY <1>1, <1>2, <1>3, <1>4, <2>1, <2>2, <2>3 DEF Rip, CallbackHolds
<1>. QED BY <1>1, <1>5, <1>7, <1>9, <1>10, <1>11 DEF Turn

LEMMA CallbackConts ==
  ASSUME Shape, Turn, PushCont(Callback)
  PROVE  Turn'
<1>4. Told /\ Sent /\ Base /\ Turns /\ Caches /\ Dr6 /\ Rip
  BY DEF Turn
<1>3. UNCHANGED <<run, event, reason, pending, rip, dr6, known, state, trapExp, regSync,
                  cRip, cDr6, futRegs, futDr6, peeked, spurious, aim, callbacks>>
      /\ Send(<<Cmd(Callback, "CONT", Arg(Callback))>>)
  BY DEF PushCont, kernelVars, threadVars, cacheVars, historyVars
<1>5. PICK c : c = Cmd(Callback, "CONT", Arg(Callback))
  OBVIOUS
<1>6. c.op = "CONT"
  BY <1>5 DEF Cmd
<1>7. /\ \A o : Queued(o)' <=> (Queued(o) \/ o = "CONT")
      /\ Len(queue) \in Nat /\ Len(queue') = Len(queue) + 1
      /\ \A k \in DOMAIN queue' : \/ k \in DOMAIN queue /\ queue'[k] = queue[k]
                                  \/ k = Len(queue') /\ queue'[k] = c
  <2>1. Send(<<c>>)
    BY <1>3, <1>5
  <2>. QED BY <1>6, <2>1, QueuedOne
<1>8. QTurn'
  BY <1>7 DEF QTurn
<1>1. /\ Starts(CallbackTodo, "cont") /\ Has(CallbackTodo, "cont")
      /\ Driving(CallbackTodo') /\ CallbackTodo' # <<>> /\ IsSeq(CallbackTodo')
      /\ ~Has(CallbackTodo, "cont")' /\ UNCHANGED ListenerTodo
  <2>1. Callback \in Actors /\ Listener \in Actors \ {Callback}
    BY ActorsAssumption DEF Actors
  <2>2. PICK s, t : s = CallbackTodo /\ t = CallbackTodo'
    OBVIOUS
  <2>3. /\ Rest(s, t) /\ s[1].op = "cont" /\ UNCHANGED ListenerTodo
    <3>1. At(Callback, "cont") /\ Done(Callback)
      BY DEF PushCont
    <3>. QED BY <2>1, <2>2, <3>1, GoesOn DEF ListenerTodo, CallbackTodo
  <2>4. Driving(s) /\ s # <<>> /\ 1 \in DOMAIN s
    BY <1>4, <2>2, <2>3 DEF Told, Rest
  <2>5. Driving(t) /\ t # <<>> /\ ~Has(t, "cont")
    BY <2>3, <2>4, DrivingTail
  <2>. QED BY <2>2, <2>3, <2>4, <2>5 DEF Starts, Has, Rest
<1>2. CallbackHolds
  BY <1>1, CallbackHasTurn
<1>9. /\ ListenerTodo = <<>> /\ ListenerTodo' = <<>> /\ ~KTurn' /\ ~LTurn' /\ ~CTurn' /\ callbacks' = <<>>
      /\ Told' /\ \A o : o # "setState" => ~Has(CallbackTodo, o)' /\ ~Starts(CallbackTodo, o)'
  <2>1. ListenerTodo = <<>> /\ ListenerTodo' = <<>> /\ ~KTurn' /\ callbacks' = <<>>
    BY <1>1, <1>2, <1>3 DEF CallbackHolds, KTurn
  <2>2. ~LTurn' /\ Told'
    BY <1>1, <2>1, OrderlyNone DEF LTurn, Told
  <2>3. \A o : o # "setState" => ~Has(CallbackTodo, o)' /\ ~Starts(CallbackTodo, o)'
    BY <1>1, DrivingHas
  <2>. QED BY <1>1, <2>1, <2>2, <2>3 DEF CTurn
<1>10. /\ \A o : ~Has(ListenerTodo, o) /\ ~Starts(ListenerTodo, o)
       /\ \A o : ~Has(ListenerTodo, o)' /\ ~Starts(ListenerTodo, o)'
       /\ \A k \in DOMAIN ListenerTodo' : FALSE
       /\ ~Tests(ListenerTodo)' /\ ~WatchSeen /\ ~WatchSeen'
  BY <1>2, <1>9, OrderlyNone DEF Has, Starts, CallbackHolds, WatchSeen
<1>11. Sent'
  <2>1. \A k \in DOMAIN queue : queue[k].op # "CONT"
    BY <1>2 DEF CallbackHolds, QTurn, Queued
  <2>2. \A k \in DOMAIN queue' : /\ queue'[k].op \in QueueOps
                                 /\ queue'[k].op = "POKEDR6" => queue'[k].arg = {}
                                 /\ queue'[k].op = "CONT" => k = Len(queue')
    BY <1>4, <1>6, <1>7, <2>1 DEF Sent, QueueOps
  <2>. QED BY <1>3, <1>4, <1>7, <1>8, <2>2 DEF Sent
<1>12. Base'
  BY <1>3, <1>4 DEF Base
<1>13. Turns'
  BY <1>2, <1>3, <1>8, <1>9 DEF Turns
<1>14. regSync # "NEW"
  BY <1>1, <1>4, <1>10 DEF Caches
<1>15. Caches'
  BY <1>3, <1>10, <1>14 DEF Caches
<1>16. Dr6'
  BY <1>2, <1>3, <1>4, <1>7, <1>8, <1>10, <1>14 DEF Dr6, CallbackHolds
<1>17. Rip'
  BY <1>1, <1>2, <1>3, <1>4, <1>7, <1>8, <1>9, <1>10 DEF Rip, CallbackHolds
<1>. QED BY <1>9, <1>11, <1>12, <1>13, <1>15, <1>16, <1>17 DEF Turn

LEMMA DrivingNone == Driving(<<>>)
BY DEF Driving

LEMMA CallbackSetsState ==
  ASSUME Shape, Turn, SetState(Callback)
  PROVE  Turn'
<1>4. Told /\ Sent /\ Base /\ Turns /\ Caches /\ Dr6 /\ Rip
  BY DEF Turn
<1>3. /\ UNCHANGED <<run, event, reason, pending, rip, dr6, known, trapExp, queue,
                     cRip, cDr6, futRegs, futDr6, peeked, spurious, aim, callbacks>>
      /\ regSync' = "OLD" /\ state' = Arg(Callback)
      /\ At(Callback, "setState") /\ Done(Callback)
  BY DEF SetState, kernelVars, cacheVars
<1>1. /\ CallbackTodo # <<>> /\ CallbackTodo' = <<>> /\ UNCHANGED ListenerTodo
      /\ ~Has(CallbackTodo, "cont") /\ ~Starts(CallbackTodo, "cont") /\ Arg(Callback) = "CONTINUED"
  <2>1. Callback \in Actors /\ Listener \in Actors \ {Callback}
    BY ActorsAssumption DEF Actors
  <2>2. PICK s, t : s = CallbackTodo /\ t = CallbackTodo'
    OBVIOUS
  <2>3. /\ Rest(s, t) /\ s[1].op = "setState" /\ Arg(Callback) = s[1].arg /\ UNCHANGED ListenerTodo
    BY <1>3, <2>1, <2>2, GoesOn DEF ListenerTodo, CallbackTodo
  <2>4. Driving(s) /\ s # <<>> /\ 1 \in DOMAIN s /\ DOMAIN s = 1 .. Len(s)
    BY <1>4, <2>2, <2>3 DEF Told, Rest
  <2>5. Len(s) = 1 /\ Continued(s, Len(s))
    BY <2>3, <2>4 DEF Driving
  <2>6. t = <<>>
    BY <2>3, <2>4, DrivingTail
  <2>. QED BY <2>2, <2>3, <2>4, <2>5, <2>6 DEF Has, Starts, Continued
<1>2. (QTurn' <=> QTurn) /\ (\A o : Queued(o)' <=> Queued(o))
  BY <1>3, QueueKept
<1>5. /\ callbacks = <<>> /\ ~CTurn /\ ~CTurn' /\ (LTurn => ~Past)
      /\ (KTurn' <=> KTurn) /\ (LTurn' <=> LTurn) /\ (Past' <=> Past)
      /\ WatchSeen' <=> WatchSeen
  <2>1. callbacks = <<>> /\ ~CTurn /\ (LTurn => ~Past)
    BY <1>1, <1>4 DEF Turns, CTurn
  <2>2. ~Has(<<>>, "cont")
    BY DEF Has
  <2>. QED BY <1>1, <1>3, <2>1, <2>2 DEF CTurn, KTurn, LTurn, Past, WatchSeen
<1>6. /\ ~Tests(ListenerTodo) /\ ~Has(ListenerTodo, "hit") /\ ~Has(ListenerTodo, "setDr6")
      /\ ~Starts(ListenerTodo, "getRegs") /\ ~Starts(ListenerTodo, "matchBreakPoint")
  <2>1. IsSeq(ListenerTodo) /\ Orderly(ListenerTodo)
    BY <1>4, ActorsAssumption DEF Told, Shape, ListenerTodo, Actors
  <2>2. ~Tests(ListenerTodo)
    <3>1. Tests(ListenerTodo) => Past /\ LTurn
      BY <2>1, TestsFirst DEF Past, LTurn, Tests, HandsOver, Hands
    <3>. QED BY <1>5, <3>1
  <2>3. ~Starts(ListenerTodo, "getRegs") /\ ~Starts(ListenerTodo, "matchBreakPoint")
    BY <1>5, <2>1, PastFirst DEF Starts, Past, LTurn
  <2>4. ASSUME NEW op \in {"hit", "setDr6"}, Has(ListenerTodo, op) PROVE FALSE
    <3>1. LTurn
      BY <2>1, <2>4, HandsOverHas DEF LTurn
    <3>2. PICK k \in DOMAIN ListenerTodo : Sets(ListenerTodo, k) /\ ListenerTodo[k].arg = "STOPPED"
      BY <1>5, <3>1 DEF Past, RecordsStop
    <3>3. \A j \in DOMAIN ListenerTodo : ListenerTodo[j].op \notin {"hit", "setDr6", "testDr6"}
      BY <2>1, <3>2 DEF Orderly, Continued
    <3>. QED BY <2>4, <3>3 DEF Has
  <2>. QED BY <2>2, <2>3, <2>4
<1>7. /\ ~Tests(ListenerTodo)' /\ ~Has(ListenerTodo, "hit")' /\ ~Has(ListenerTodo, "setDr6")'
      /\ ~Starts(ListenerTodo, "getRegs")' /\ ~Starts(ListenerTodo, "matchBreakPoint")'
      /\ \A o : ~Has(CallbackTodo, o)' /\ ~Starts(CallbackTodo, o)'
  BY <1>1, <1>6 DEF Has, Starts
<1>8. known
  BY <1>1, ActorsAssumption DEF Shape, Actors, CallbackTodo
<1>9. Told'
  BY <1>1, <1>3, <1>4, DrivingNone DEF Told
<1>10. Sent' /\ Base'
  BY <1>1, <1>2, <1>3, <1>4, <1>8 DEF Sent, Base
<1>11. Turns'
  BY <1>1, <1>2, <1>3, <1>4, <1>5 DEF Turns
<1>12. regSync # "NEW"
  BY <1>4, <1>5, <1>6 DEF Caches
<1>13. Caches'
  BY <1>3 DEF Caches
<1>14. Dr6'
  <2>1. cDr6 = {}
    BY <1>4, <1>6 DEF Dr6, Has
  <2>. QED BY <1>2, <1>3, <1>4, <1>5, <1>6, <1>7, <1>12, <2>1 DEF Dr6
<1>15. Rip'
  <2>1. \A k \in DOMAIN ListenerTodo' : ListenerTodo'[k].op # "hit"
    BY <1>7 DEF Has
  <2>. QED BY <1>2, <1>3, <1>4, <1>5, <1>7, <2>1 DEF Rip
<1>. QED BY <1>9, <1>10, <1>11, <1>13, <1>14, <1>15 DEF Turn

LEMMA JumpElements ==
  ASSUME NEW addr, NEW n, n = Jump(addr)
  PROVE  /\ IsSeq(n) /\ Len(n) = 5 /\ DOMAIN n = 1 .. 5
         /\ n[1].op = "lock" /\ n[2].op = "readRegisters" /\ n[3].op = "getRegs"
         /\ n[4].op = "setRip" /\ n[4].arg = addr /\ n[5].op = "unlock"
<1> DEFINE S == {Op("lock"), Op("readRegisters"), Op("getRegs"), Instr("setRip", addr), Op("unlock")}
<1>1. /\ n \in Seq(S) /\ Len(n) = 5
      /\ n[1] = Op("lock") /\ n[2] = Op("readRegisters") /\ n[3] = Op("getRegs")
      /\ n[4] = Instr("setRip", addr) /\ n[5] = Op("unlock")
  BY DEF Jump
<1>2. IsSeq(n)
  <2>. HIDE DEF S
  <2>. QED BY <1>1, AnySeq
<1>. QED BY <1>1, <1>2 DEF IsSeq, Op, Instr

\* A jump in place of resumeAndUnset's first instruction.
LEMMA DrivingJump ==
  ASSUME NEW s, IsSeq(s), s # <<>>, Driving(s), s[1].op = "jumpBack",
         NEW addr, addr \notin {"wild", "none"}, NEW t, t = Jump(addr) \o Tail(s)
  PROVE  /\ Driving(t) /\ IsSeq(t) /\ Has(t, "cont") /\ Starts(t, "lock")
         /\ ~Has(t, "jumpBack")
<1>1. PICK n : n = Jump(addr)
  OBVIOUS
<1>2. /\ IsSeq(n) /\ Len(n) = 5 /\ DOMAIN n = 1 .. 5
      /\ n[1].op = "lock" /\ n[2].op = "readRegisters" /\ n[3].op = "getRegs"
      /\ n[4].op = "setRip" /\ n[4].arg = addr /\ n[5].op = "unlock"
  BY <1>1, JumpElements
<1>3. t = n \o Tail(s)
  BY <1>1
<1>4. /\ IsSeq(t) /\ Len(t) = Len(n) + Len(s) - 1 /\ Len(s) > 0
      /\ \A k \in 1 .. Len(n) : t[k] = n[k]
      /\ \A k \in Len(n) + 1 .. Len(t) : t[k] = s[k - Len(n) + 1]
  <2>1. \A u : u = n \o Tail(s) =>
          /\ IsSeq(u) /\ Len(u) = Len(n) + Len(s) - 1 /\ Len(s) > 0
          /\ \A k \in 1 .. Len(n) : u[k] = n[k]
          /\ \A k \in Len(n) + 1 .. Len(u) : u[k] = s[k - Len(n) + 1]
    BY <1>2, Spliced
  <2>. QED BY <1>3, <2>1
<1>5. /\ Len(s) \in Nat /\ DOMAIN s = 1 .. Len(s) /\ 1 \in DOMAIN s
      /\ Len(t) = Len(s) + 4 /\ DOMAIN t = 1 .. Len(s) + 4
      /\ \A k \in 1 .. 5 : t[k] = n[k] /\ k \in DOMAIN t
      /\ \A k \in 6 .. Len(s) + 4 : t[k] = s[k - 4] /\ k - 4 \in DOMAIN s /\ k - 4 > 1
  BY <1>2, <1>4 DEF IsSeq
<1>6. Len(s) > 1 /\ Continued(s, Len(s)) /\ s[Len(s) - 1].op = "cont"
  <2>1. Continued(s, Len(s))
    BY DEF Driving
  <2>2. Len(s) # 1
    BY <2>1 DEF Continued, Sets
  <2>. QED BY <1>5, <2>1, <2>2 DEF Driving
<1>7. t # <<>> => Continued(t, Len(t)) /\ (Len(t) > 1 => t[Len(t) - 1].op = "cont")
  <2>1. t[Len(t)] = s[Len(s)]
    BY <1>5, <1>6
  <2>2. Len(s) # 2
    BY <1>6
  <2>3. t[Len(t) - 1] = s[Len(s) - 1]
    BY <1>5, <1>6, <2>2
  <2>. QED BY <1>6, <2>1, <2>3 DEF Continued, Sets
<1>8. ASSUME NEW k \in DOMAIN t, k > 5
      PROVE  \E j \in DOMAIN s : /\ j > 1 /\ j = k - 4 /\ t[k] = s[j] /\ (j > 2 => t[k - 1] = s[j - 1])
  <2>1. k \in 6 .. Len(s) + 4
    BY <1>5, <1>8
  <2>2. k - 4 > 2 => k - 1 \in 6 .. Len(s) + 4 /\ (k - 1) - 4 = (k - 4) - 1
    BY <1>5, <2>1
  <2>. QED BY <1>5, <2>1, <2>2
<1>9. \A k \in DOMAIN t : t[k].op # "jumpBack"
  <2>1. ASSUME NEW k \in DOMAIN t, k > 5 PROVE t[k].op # "jumpBack"
    <3>1. PICK j \in DOMAIN s : j > 1 /\ t[k] = s[j]
      BY <1>8, <2>1
    <3>. QED BY <1>5, <3>1 DEF Driving
  <2>2. ASSUME NEW k \in DOMAIN t, ~(k > 5) PROVE t[k].op # "jumpBack"
    <3>1. k \in 1 .. 5 /\ (k = 1 \/ k = 2 \/ k = 3 \/ k = 4 \/ k = 5)
      BY <1>5, <2>2
    <3>. QED BY <1>2, <1>5, <3>1
  <2>. QED BY <2>1, <2>2
<1>10. ASSUME NEW k \in DOMAIN t
       PROVE  /\ t[k].op \in CallbackOps \cup {"writeRegisters", "cont", "setState"}
              /\ t[k].op = "setState" => k = Len(t)
              /\ t[k].op = "cont" => k + 1 = Len(t) /\ (k > 1 => t[k - 1].op = "writeRegisters")
              /\ t[k].op = "writeRegisters" => k + 2 = Len(t)
              /\ t[k].op = "getRegs" /\ k > 1 => t[k - 1].op = "readRegisters"
              /\ t[k].op = "setRip" => /\ t[k].arg \notin {"wild", "none"}
                                       /\ k > 1 => t[k - 1].op = "getRegs"
  <2>1. CASE k > 5
    <3>1. PICK j \in DOMAIN s : /\ j > 1 /\ j = k - 4 /\ t[k] = s[j] /\ (j > 2 => t[k - 1] = s[j - 1])
      BY <1>8, <2>1
    <3>2. j = 2 => s[j - 1].op = "jumpBack"
      OBVIOUS
    <3>3. /\ s[j].op \in CallbackOps \cup {"writeRegisters", "cont", "setState"}
          /\ s[j].op = "setState" => j = Len(s)
          /\ s[j].op = "cont" => j + 1 = Len(s) /\ s[j - 1].op = "writeRegisters"
          /\ s[j].op = "writeRegisters" => j + 2 = Len(s)
          /\ s[j].op = "getRegs" => s[j - 1].op = "readRegisters"
          /\ s[j].op = "setRip" => s[j].arg \notin {"wild", "none"} /\ s[j - 1].op = "getRegs"
      BY <3>1 DEF Driving
    <3>4. j > 2 \/ s[j].op \notin {"cont", "getRegs", "setRip"}
      BY <1>5, <3>1, <3>2, <3>3
    <3>5. /\ j = Len(s) => k = Len(t)
          /\ j + 1 = Len(s) => k + 1 = Len(t)
          /\ j + 2 = Len(s) => k + 2 = Len(t)
      BY <1>5, <3>1
    <3>. QED BY <3>1, <3>3, <3>4, <3>5
  <2>2. CASE ~(k > 5)
    <3>1. k = 1 \/ k = 2 \/ k = 3 \/ k = 4 \/ k = 5
      BY <1>5, <2>2
    <3>2. t[1] = n[1] /\ t[2] = n[2] /\ t[3] = n[3] /\ t[4] = n[4] /\ t[5] = n[5]
      BY <1>5
    <3>3. t[k].op \in CallbackOps \ {"jumpBack"}
      BY <1>2, <3>1, <3>2 DEF CallbackOps
    <3>6. t[k].op = "getRegs" => k = 3
      BY <1>2, <3>1, <3>2
    <3>7. t[k].op = "setRip" => k = 4 /\ t[k].arg = addr
      BY <1>2, <3>1, <3>2
    <3>8. (k = 3 => k - 1 = 2) /\ (k = 4 => k - 1 = 3)
      OBVIOUS
    <3>4. t[k].op = "getRegs" => t[k - 1].op = "readRegisters"
      BY <1>2, <3>2, <3>6, <3>8
    <3>5. t[k].op = "setRip" => t[k].arg = addr /\ t[k - 1].op = "getRegs"
      BY <1>2, <3>2, <3>7, <3>8
    <3>. QED BY <3>3, <3>4, <3>5 DEF CallbackOps
  <2>. QED BY <2>1, <2>2
<1>11. Driving(t)
  BY <1>7, <1>9, <1>10 DEF Driving
<1>12. t # <<>> /\ t[1].op = "lock"
  BY <1>2, <1>5
<1>13. Has(t, "cont")
  <2>1. t[1].op # "setState"
    BY <1>12
  <2>. QED BY <1>4, <1>11, <1>12, DrivingHas
<1>. QED BY <1>4, <1>9, <1>11, <1>12, <1>13 DEF Starts, Has

LEMMA CallbackJumpsBack ==
  ASSUME Shape, Turn, JumpBack(Callback)
  PROVE  Turn'
<1>4. Told /\ Sent /\ Base /\ Turns /\ Caches /\ Dr6 /\ Rip
  BY DEF Turn
<1>3. /\ UNCHANGED <<run, event, reason, pending, rip, dr6, known, state, trapExp, regSync, queue,
                     cRip, cDr6, futRegs, futDr6, peeked, spurious, aim, callbacks>>
      /\ At(Callback, "jumpBack") /\ Goto(Callback, Jump(IF cRip = "bp" THEN "at" ELSE "wild"))
  BY DEF JumpBack, kernelVars, threadVars, cacheVars, historyVars
<1>1. Callback \in Actors /\ Listener \in Actors \ {Callback}
  BY ActorsAssumption DEF Actors
<1>2. PICK s, t : s = CallbackTodo /\ t = CallbackTodo'
  OBVIOUS
<1>5. /\ IsSeq(s) /\ s # <<>> /\ s[1].op = "jumpBack" /\ 1 \in DOMAIN s /\ Driving(s)
  BY <1>1, <1>2, <1>3, <1>4, AtFirst DEF Shape, CallbackTodo, Told
<1>6. Has(s, "cont") /\ Has(s, "jumpBack")
  BY <1>5, DrivingHas DEF Has, Starts
<1>7. CallbackHolds /\ AtBreak /\ ~Starts(CallbackTodo, "cont")
  BY <1>2, <1>4, <1>5, <1>6, CallbackHasTurn DEF Rip, Starts
<1>8. t = Jump("at") \o Tail(s) /\ UNCHANGED ListenerTodo
  <2>1. Goto(Callback, Jump("at"))
    BY <1>3, <1>7 DEF AtBreak
  <2>. QED BY <1>1, <1>2, <2>1 DEF Goto, Shape, ListenerTodo, CallbackTodo
<1>9. Driving(t) /\ IsSeq(t) /\ Has(t, "cont") /\ Starts(t, "lock") /\ ~Has(t, "jumpBack")
  <2>1. "at" \notin {"wild", "none"}
    OBVIOUS
  <2>. QED BY <1>5, <1>8, <2>1, DrivingJump
<1>10. /\ Has(CallbackTodo, "cont")' /\ ~Has(CallbackTodo, "jumpBack")'
       /\ ~Starts(CallbackTodo, "cont")' /\ ~Starts(CallbackTodo, "getRegs")' /\ ~Starts(CallbackTodo, "setRip")'
  BY <1>2, <1>9 DEF Starts
<1>11. (QTurn' <=> QTurn) /\ (\A o : Queued(o)' <=> Queued(o))
  BY <1>3, QueueKept
<1>12. /\ CTurn' /\ ~KTurn' /\ ~QTurn' /\ ~LTurn' /\ ListenerTodo' = <<>>
  BY <1>3, <1>7, <1>8, <1>10, <1>11, OrderlyNone DEF CTurn, KTurn, LTurn, CallbackHolds
<1>13. /\ \A o : ~Has(ListenerTodo, o) /\ ~Starts(ListenerTodo, o)
       /\ \A o : ~Has(ListenerTodo, o)' /\ ~Starts(ListenerTodo, o)'
       /\ \A k \in DOMAIN ListenerTodo' : FALSE
       /\ ~Tests(ListenerTodo)' /\ ~WatchSeen /\ ~WatchSeen'
  BY <1>7, <1>12, ListenerEmpty, OrderlyNone DEF Has, Starts, CallbackHolds, WatchSeen
<1>14. Told'
  BY <1>2, <1>9, <1>12, <1>13, OrderlyNone DEF Told
<1>15. Turns'
  BY <1>3, <1>7, <1>12 DEF Turns, CallbackHolds
<1>16. Sent' /\ Base'
  BY <1>3, <1>4, <1>7, <1>11, <1>12 DEF Sent, Base, CallbackHolds
<1>17. Caches'
  BY <1>3, <1>4, <1>7, <1>10, <1>12, <1>13 DEF Caches
<1>18. Dr6'
  BY <1>3, <1>4, <1>7, <1>11, <1>12, <1>13 DEF Dr6, CallbackHolds
<1>19. Rip'
  <2>1. AtBreak' <=> AtBreak
    BY <1>3 DEF AtBreak
  <2>. QED BY <1>3, <1>4, <1>7, <1>10, <1>11, <1>12, <1>13, <2>1 DEF Rip, CallbackHolds
<1>. QED BY <1>14, <1>15, <1>16, <1>17, <1>18, <1>19 DEF Turn

LEMMA CallbackBegins ==
  ASSUME MethodsOnly, DrivenByCallbacks, Shape, Turn, BeginCallback
  PROVE  Turn'
<1>4. Told /\ Sent /\ Base /\ Turns /\ Caches /\ Dr6 /\ Rip
  BY DEF Turn
<1>3. /\ UNCHANGED <<run, event, reason, pending, rip, dr6, known, state, trapExp, regSync, queue,
                     cRip, cDr6, futRegs, futDr6, peeked, spurious, aim>>
      /\ callbacks # <<>> /\ callbacks' = Tail(callbacks) /\ CallbackTodo = <<>>
  BY DEF BeginCallback, kernelVars, threadVars, cacheVars, historyVars, CallbackTodo
<1>1. Callback \in Actors /\ Listener \in Actors \ {Callback}
  BY ActorsAssumption DEF Actors
<1>2. PICK kind : kind = Head(callbacks)
  OBVIOUS
<1>5. kind \in Kinds /\ kind = callbacks[1] /\ 1 \in DOMAIN callbacks /\ callbacks' = <<>>
  <2>1. callbacks \in Seq(Kinds) /\ Len(callbacks) = 1
    BY <1>3, <1>4 DEF Shape, Turns
  <2>2. IsSeq(callbacks)
    BY <2>1, AnySeq
  <2>3. Head(callbacks) \in Kinds /\ Head(callbacks) = callbacks[1]
    BY <1>3, <2>1, HeadTailProperties
  <2>4. IsSeq(callbacks') /\ Len(callbacks') = 0
    BY <1>3, <2>1, <2>2, Tailed
  <2>5. 1 \in DOMAIN callbacks
    BY <1>3, <2>2, EmptySeqs
  <2>6. callbacks' = <<>>
    <3>1. PICK u : u = callbacks'
      OBVIOUS
    <3>2. IsSeq(u) /\ Len(u) = 0
      BY <2>4, <3>1
    <3>. QED BY <3>1, <3>2, EmptySeqs
  <2>. QED BY <1>2, <2>3, <2>5, <2>6
<1>6. PICK s \in CallbackScripts[kind] : todo' = [todo EXCEPT ![Callback] = s]
  BY <1>2 DEF BeginCallback
<1>7. CallbackTodo' = s /\ UNCHANGED ListenerTodo
  BY <1>1, <1>6 DEF Shape, CallbackTodo, ListenerTodo
<1>8. /\ Driving(s) /\ Len(s) > 2 /\ s[1].op \notin {"getRegs", "setRip"} /\ IsSeq(s)
      /\ kind # "break" => ~Has(s, "jumpBack")
  BY <1>5 DEF DrivenByCallbacks, MethodsOnly, Scripts, Methodical
<1>9. /\ s # <<>> /\ s[1].op \notin {"cont", "setState", "getRegs", "setRip"} /\ Has(s, "cont")
  <2>1. s # <<>> /\ 1 \in DOMAIN s
    BY <1>8, EmptySeqs DEF IsSeq
  <2>2. s[1].op \notin {"cont", "setState"}
    BY <1>8, <2>1 DEF Driving
  <2>. QED BY <1>8, <2>1, <2>2, DrivingHas
<1>10. /\ Has(CallbackTodo, "cont")'
       /\ ~Starts(CallbackTodo, "cont")' /\ ~Starts(CallbackTodo, "getRegs")' /\ ~Starts(CallbackTodo, "setRip")'
  BY <1>7, <1>9 DEF Starts
<1>11. (QTurn' <=> QTurn) /\ (\A o : Queued(o)' <=> Queued(o))
  BY <1>3, QueueKept
<1>16. /\ CTurn /\ ~KTurn /\ ~QTurn /\ ~LTurn /\ ListenerTodo = <<>> /\ state = "STOPPED" /\ known
       /\ ~Starts(CallbackTodo, "cont")
  BY <1>3, <1>4 DEF Turns, CTurn, Starts
<1>12. /\ CTurn' /\ ~KTurn' /\ ~QTurn' /\ ~LTurn' /\ ListenerTodo' = <<>> /\ callbacks' = <<>>
  BY <1>3, <1>5, <1>7, <1>10, <1>11, <1>16, OrderlyNone DEF CTurn, KTurn, LTurn
<1>13. /\ \A o : ~Has(ListenerTodo, o) /\ ~Starts(ListenerTodo, o)
       /\ \A o : ~Has(ListenerTodo, o)' /\ ~Starts(ListenerTodo, o)'
       /\ \A k \in DOMAIN ListenerTodo' : FALSE
       /\ ~Tests(ListenerTodo)' /\ ~WatchSeen /\ ~WatchSeen'
  BY <1>12, <1>16, ListenerEmpty, OrderlyNone DEF Has, Starts, WatchSeen
<1>14. Told'
  BY <1>7, <1>8, <1>12, <1>13, OrderlyNone DEF Told
<1>15. Turns'
  BY <1>3, <1>12, <1>16 DEF Turns
<1>17. Sent' /\ Base'
  BY <1>3, <1>4, <1>11, <1>12, <1>16 DEF Sent, Base
<1>18. Caches'
  BY <1>3, <1>4, <1>10, <1>12, <1>13, <1>16 DEF Caches
<1>19. Dr6'
  BY <1>3, <1>4, <1>11, <1>12, <1>13, <1>16 DEF Dr6
<1>20. Rip'
  <2>1. AtBreak' <=> AtBreak
    BY <1>3 DEF AtBreak
  <2>2. Has(CallbackTodo, "jumpBack")' => AtBreak
    BY <1>4, <1>5, <1>7, <1>8 DEF Rip
  <2>. QED BY <1>3, <1>4, <1>10, <1>11, <1>12, <1>13, <1>16, <2>1, <2>2 DEF Rip
<1>. QED BY <1>14, <1>15, <1>17, <1>18, <1>19, <1>20 DEF Turn

-----------------------------------------------------------------------------
(* The commands that the Tracer runs.                                      *)

\* The command that the Tracer runs.
Running(op) == /\ queue # <<>> /\ Head(queue).op = op
               /\ \A o : (Queued(o)' => Queued(o)) /\ (Queued(o) => Queued(o)' \/ o = op)
               /\ Queued(op) /\ op \in QueueOps

LEMMA RestOfOne == ASSUME NEW s, NEW t, Rest(s, t), Len(s) = 1 PROVE t = <<>>
<1>1. IsSeq(t) /\ Len(t) = Len(s) - 1
  BY DEF Rest
<1>. QED BY <1>1, EmptySeqs

LEMMA CommandRuns ==
  ASSUME Shape, Turn, RunCommand
  PROVE  /\ Running(Head(queue).op) /\ Accepts
         /\ run = "stopped" /\ event \in NoStop /\ ~KTurn /\ known
         /\ UNCHANGED <<ListenerTodo, CallbackTodo, callbacks, known, state, trapExp, regSync,
                        cDr6, futRegs, futDr6, spurious>>
         /\ Head(queue).op = "POKEDR6" => Head(queue).arg = {}
         /\ Head(queue).op = "CONT" => queue' = <<>> /\ (\A o : ~Queued(o)') /\ (\A o : Queued(o) => o = "CONT")
         /\ \A k \in DOMAIN queue' : /\ queue'[k].op \in QueueOps
                                     /\ queue'[k].op = "POKEDR6" => queue'[k].arg = {}
                                     /\ queue'[k].op = "CONT" => k = Len(queue')
<1>1. PICK c : c = Head(queue)
  OBVIOUS
<1>2. queue # <<>> /\ queue' = Tail(queue)
  BY DEF RunCommand
<1>3. Sent /\ Turns /\ Base
  BY DEF Turn
<1>4. PICK q, r : q = queue /\ r = queue'
  OBVIOUS
<1>5. /\ Rest(q, r) /\ c = q[1]
  <2>1. IsSeq(queue)
    BY DEF Shape
  <2>. QED BY <1>1, <1>2, <1>4, <2>1, Tailing
<1>6. /\ 1 \in DOMAIN q /\ DOMAIN q = 1 .. Len(q) /\ Len(q) \in Nat \ {0} /\ Len(r) = Len(q) - 1
      /\ DOMAIN r = 1 .. Len(q) - 1 /\ IsSeq(r)
      /\ \A k \in DOMAIN r : k + 1 \in DOMAIN q /\ r[k] = q[k + 1]
      /\ \A j \in DOMAIN q : j # 1 => j - 1 \in DOMAIN r /\ r[j - 1] = q[j]
  BY <1>5 DEF Rest
<1>7. \A k \in DOMAIN q : /\ q[k].op \in QueueOps
                          /\ q[k].op = "POKEDR6" => q[k].arg = {}
                          /\ q[k].op = "CONT" => k = Len(q)
  BY <1>3, <1>4 DEF Sent
<1>8. \A k \in DOMAIN queue' : /\ queue'[k].op \in QueueOps
                               /\ queue'[k].op = "POKEDR6" => queue'[k].arg = {}
                               /\ queue'[k].op = "CONT" => k = Len(queue')
  <2>1. ASSUME NEW k \in DOMAIN r
        PROVE  /\ r[k].op \in QueueOps
               /\ r[k].op = "POKEDR6" => r[k].arg = {}
               /\ r[k].op = "CONT" => k = Len(r)
    <3>1. k + 1 \in DOMAIN q /\ r[k] = q[k + 1]
      BY <1>6
    <3>2. /\ q[k + 1].op \in QueueOps
          /\ q[k + 1].op = "POKEDR6" => q[k + 1].arg = {}
          /\ q[k + 1].op = "CONT" => k + 1 = Len(q)
      BY <1>7, <3>1
    <3>. QED BY <1>6, <3>1, <3>2
  <2>. QED BY <1>4, <2>1
<1>9. /\ \A o : (Queued(o)' => Queued(o)) /\ (Queued(o) => Queued(o)' \/ o = c.op)
      /\ Queued(c.op)
  <2>1. ASSUME NEW o
        PROVE  /\ (\E k \in DOMAIN r : r[k].op = o) => (\E k \in DOMAIN q : q[k].op = o)
               /\ (\E k \in DOMAIN q : q[k].op = o) => (\E k \in DOMAIN r : r[k].op = o) \/ o = c.op
    BY <1>5, <1>6
  <2>. QED BY <1>4, <1>5, <1>6, <2>1 DEF Queued
<1>10. c.op = "CONT" => r = <<>> /\ \A o : (Queued(o) => o = "CONT") /\ ~Queued(o)'
  <2>. SUFFICES ASSUME c.op = "CONT" PROVE r = <<>> /\ \A o : (Queued(o) => o = "CONT") /\ ~Queued(o)'
    OBVIOUS
  <2>1. Len(q) = 1
    BY <1>5, <1>6, <1>7
  <2>2. r = <<>>
    BY <1>5, <2>1, RestOfOne
  <2>3. DOMAIN q = {1} /\ DOMAIN r = {}
    BY <1>6, <2>1
  <2>. QED BY <1>4, <1>5, <2>2, <2>3 DEF Queued
<1>11. ~KTurn /\ run = "stopped" /\ event \in NoStop /\ known
  BY <1>2, <1>3 DEF Turns, KTurn, Base
<1>12. UNCHANGED <<ListenerTodo, CallbackTodo, callbacks, known, state, trapExp, regSync,
                   cDr6, futRegs, futDr6, spurious>>
  BY DEF RunCommand, threadVars, ListenerTodo, CallbackTodo
<1>. QED BY <1>1, <1>2, <1>4, <1>5, <1>6, <1>7, <1>8, <1>9, <1>10, <1>11, <1>12 DEF Running, Accepts

LEMMA ContRuns ==
  ASSUME Shape, Turn, RunCommand, Head(queue).op = "CONT"
  PROVE  /\ aim # "none" => rip = aim
         /\ run' = "dead" \/ Turn'
<1>1. Told /\ Sent /\ Base /\ Turns /\ Caches /\ Dr6 /\ Rip
  BY DEF Turn
<1>2. /\ Running("CONT") /\ Accepts
      /\ run = "stopped" /\ event \in NoStop /\ ~KTurn /\ known
      /\ UNCHANGED <<ListenerTodo, CallbackTodo, callbacks, known, state, trapExp, regSync,
                     cDr6, futRegs, futDr6, spurious>>
      /\ queue' = <<>> /\ (\A o : ~Queued(o)') /\ (\A o : Queued(o) => o = "CONT")
  BY CommandRuns
<1>3. /\ Continue(Head(queue).arg) /\ aim' = "none" /\ UNCHANGED <<cRip, peeked>>
  BY <1>2 DEF RunCommand, Ptrace
<1>4. /\ UNCHANGED <<reason, pending, rip, dr6>>
      /\ run' = "dead" \/ (run' = "running" /\ event' = "none")
  BY <1>2, <1>3 DEF Continue
<1>5. QTurn /\ ~LTurn /\ ~CTurn /\ ~LTurn' /\ ~CTurn' /\ ~QTurn'
  <2>1. QTurn /\ ~QTurn'
    BY <1>2 DEF Running, QTurn
  <2>2. ~LTurn /\ ~CTurn
    BY <1>1, <2>1 DEF Turns
  <2>. QED BY <1>2, <2>1, <2>2, CallbackKept DEF LTurn
<1>6. aim # "none" => rip = aim
  BY <1>1, <1>2, <1>5 DEF Rip
<1>7. ASSUME run' # "dead" PROVE Turn'
  <2>1. run' = "running" /\ event' = "none" /\ KTurn'
    BY <1>4, <1>7 DEF KTurn
  <2>2. Orderly(ListenerTodo) /\ IsSeq(ListenerTodo)
    BY <1>1, ActorsAssumption DEF Told, Shape, Actors, ListenerTodo
  <2>3. ~Has(ListenerTodo, "setDr6") /\ ~Tests(ListenerTodo) /\ ~Has(ListenerTodo, "hit") /\ ~WatchSeen
    <3>1. Tests(ListenerTodo) => LTurn
      BY DEF Tests, LTurn, HandsOver, Hands
    <3>. QED BY <1>5, <2>2, <3>1, HandsOverHas DEF LTurn, WatchSeen
  <2>4. ~Has(ListenerTodo, "setDr6")' /\ ~Tests(ListenerTodo)' /\ ~Has(ListenerTodo, "hit")' /\ ~WatchSeen'
    BY <1>2, <1>5, <2>3 DEF Has, Tests, WatchSeen
  <2>5. /\ \A o : (Has(ListenerTodo, o)' <=> Has(ListenerTodo, o)) /\ (Starts(ListenerTodo, o)' <=> Starts(ListenerTodo, o))
        /\ \A o : (Has(CallbackTodo, o)' <=> Has(CallbackTodo, o)) /\ (Starts(CallbackTodo, o)' <=> Starts(CallbackTodo, o))
    BY <1>2 DEF Has, Starts
  <2>6. Told'
    BY <1>1, <1>2, <1>4 DEF Told
  <2>7. Sent'
    <3>1. DOMAIN queue' = {}
      BY <1>2
    <3>. QED BY <1>2, <3>1 DEF Sent
  <2>8. Base'
    BY <1>1, <1>2, <1>4, <2>1 DEF Base, NoStop
  <2>9. Turns'
    BY <1>1, <1>2, <1>5, <2>1 DEF Turns
  <2>10. Caches'
    BY <1>1, <1>2, <1>5, <2>4, <2>5 DEF Caches
  <2>11. Dr6'
    <3>1. dr6 = {}
      BY <1>1, <1>2, <1>5, <2>3 DEF Dr6, Caches, NoStop
    <3>. QED BY <1>1, <1>2, <1>3, <1>4, <1>5, <2>1, <2>3, <2>4, <2>5, <3>1 DEF Dr6
  <2>12. Rip'
    <3>1. AtBreak' <=> AtBreak
      BY <1>2, <1>3 DEF AtBreak
    <3>. QED BY <1>1, <1>2, <1>3, <1>4, <1>5, <2>1, <2>5, <3>1 DEF Rip
  <2>. QED BY <2>6, <2>7, <2>8, <2>9, <2>10, <2>11, <2>12 DEF Turn
<1>. QED BY <1>6, <1>7

LEMMA OthersRun ==
  ASSUME Shape, Turn, RunCommand, Head(queue).op # "CONT"
  PROVE  Turn'
<1>1. Told /\ Sent /\ Base /\ Turns /\ Caches /\ Dr6 /\ Rip
  BY DEF Turn
<1>c. PICK c : c = Head(queue)
  OBVIOUS
<1>2. /\ Running(c.op) /\ Accepts
      /\ run = "stopped" /\ event \in NoStop /\ ~KTurn /\ known
      /\ UNCHANGED <<ListenerTodo, CallbackTodo, callbacks, known, state, trapExp, regSync,
                     cDr6, futRegs, futDr6, spurious>>
      /\ \A k \in DOMAIN queue' : /\ queue'[k].op \in QueueOps
                                  /\ queue'[k].op = "POKEDR6" => queue'[k].arg = {}
                                  /\ queue'[k].op = "CONT" => k = Len(queue')
      /\ c.op = "POKEDR6" => c.arg = {}
  BY <1>c, CommandRuns
<1>3. /\ \A o : Queued(o)' => Queued(o)
      /\ \A o : Queued(o) => Queued(o)' \/ o = c.op
      /\ Queued(c.op) /\ c.op \in QueueOps /\ c.op # "CONT"
  BY <1>c, <1>2 DEF Running
<1>4. /\ Ptrace(c)
  BY <1>c DEF RunCommand
<1>5. UNCHANGED <<run, event, reason, pending, aim>>
  BY <1>3, <1>4 DEF Ptrace, QueueOps, SetRip, SetDr6Request, Poke, kernelVars
<1>6. /\ c.op = "SETREGS" => rip' = cRip
      /\ c.op = "GETREGS" => cRip' = rip
      /\ c.op = "PEEKDR6" => peeked' = dr6
      /\ c.op = "POKEDR6" => dr6' = {}
      /\ c.op # "SETREGS" => rip' = rip
      /\ c.op # "GETREGS" => cRip' = cRip
      /\ c.op # "PEEKDR6" => peeked' = peeked
      /\ c.op # "POKEDR6" => dr6' = dr6
  BY <1>2, <1>3, <1>4 DEF Ptrace, QueueOps, SetRip, SetDr6Request, Poke, kernelVars
<1>7. /\ \A o : (Has(ListenerTodo, o)' <=> Has(ListenerTodo, o)) /\ (Starts(ListenerTodo, o)' <=> Starts(ListenerTodo, o))
      /\ \A o : (Has(CallbackTodo, o)' <=> Has(CallbackTodo, o)) /\ (Starts(CallbackTodo, o)' <=> Starts(CallbackTodo, o))
      /\ Tests(ListenerTodo)' <=> Tests(ListenerTodo)
      /\ (LTurn' <=> LTurn) /\ (CTurn' <=> CTurn) /\ ~KTurn' /\ (Past' <=> Past) /\ (WatchSeen' <=> WatchSeen)
  BY <1>2, <1>5 DEF Has, Starts, Tests, LTurn, CTurn, KTurn, Past, WatchSeen
<1>8. QTurn' <=> QTurn
  BY <1>3 DEF QTurn
<1>9. c.op \in {"SETREGS", "POKEDR6"} => (QTurn \/ (CTurn /\ Starts(CallbackTodo, "cont"))) /\ ~LTurn
  <2>1. IsSeq(CallbackTodo) /\ Driving(CallbackTodo)
    BY <1>1, ActorsAssumption DEF Told, Shape, Actors, CallbackTodo
  <2>2. Starts(CallbackTodo, "cont") => CTurn
    BY <2>1, DrivingHas DEF CTurn
  <2>. QED BY <1>1, <1>3, <2>2 DEF Sent, Turns
<1>10. Tests(ListenerTodo) => LTurn
  BY DEF Tests, LTurn, HandsOver, Hands
<1>11. Told'
  BY <1>1, <1>2, <1>5 DEF Told
<1>12. Sent' /\ Base'
  BY <1>1, <1>2, <1>3, <1>5, <1>7, <1>8 DEF Sent, Base
<1>13. Turns'
  BY <1>1, <1>2, <1>5, <1>7, <1>8 DEF Turns
<1>14. Caches'
  BY <1>1, <1>2, <1>7 DEF Caches
<1>15. Dr6'
  <2>1. CASE c.op = "POKEDR6"
    <3>1. dr6' = {} /\ ~LTurn /\ ~Tests(ListenerTodo) /\ ~WatchSeen
      BY <1>6, <1>9, <1>10, <2>1 DEF WatchSeen
    <3>2. UNCHANGED peeked /\ (Queued("PEEKDR6") => Queued("PEEKDR6")')
      BY <1>3, <1>6, <2>1
    <3>. QED BY <1>1, <1>2, <1>5, <1>7, <3>1, <3>2 DEF Dr6, NoStop
  <2>2. CASE c.op = "PEEKDR6"
    <3>1. peeked' = dr6 /\ UNCHANGED dr6 /\ futDr6
      BY <1>1, <1>3, <1>6, <2>2 DEF Sent
    <3>2. Queued("POKEDR6") => Queued("POKEDR6")'
      BY <1>3, <2>2
    <3>3. dr6 # {} => LTurn /\ reason = "watch"
      BY <1>1, <1>2, <3>1 DEF Dr6, WatchSeen, NoStop
    <3>. QED BY <1>1, <1>2, <1>5, <1>7, <3>1, <3>2, <3>3 DEF Dr6
  <2>3. CASE c.op \notin {"POKEDR6", "PEEKDR6"}
    <3>1. /\ UNCHANGED <<dr6, peeked>>
          /\ Queued("POKEDR6") <=> Queued("POKEDR6")'
          /\ Queued("PEEKDR6") <=> Queued("PEEKDR6")'
      BY <1>3, <1>6, <2>3
    <3>. QED BY <1>1, <1>2, <1>5, <1>7, <3>1 DEF Dr6
  <2>. QED BY <2>1, <2>2, <2>3
<1>16. Rip'
  <2>1. CASE c.op = "SETREGS"
    <3>1. /\ rip' = cRip /\ UNCHANGED cRip /\ ~LTurn /\ (Queued("GETREGS") => Queued("GETREGS")')
          /\ AtBreak' <=> AtBreak
      BY <1>2, <1>3, <1>6, <1>9, <2>1 DEF AtBreak
    <3>. QED BY <1>1, <1>2, <1>5, <1>7, <1>8, <3>1 DEF Rip, NoStop
  <2>2. CASE c.op = "GETREGS"
    <3>1. /\ cRip' = rip /\ UNCHANGED rip /\ futRegs /\ (Queued("SETREGS") => Queued("SETREGS")')
          /\ ~AtBreak
      BY <1>1, <1>3, <1>6, <2>2 DEF AtBreak, Sent
    <3>. QED BY <1>1, <1>2, <1>5, <1>7, <1>8, <3>1 DEF Rip
  <2>3. CASE c.op \notin {"SETREGS", "GETREGS"}
    <3>1. /\ UNCHANGED <<rip, cRip>>
          /\ Queued("SETREGS") <=> Queued("SETREGS")'
          /\ Queued("GETREGS") <=> Queued("GETREGS")'
          /\ AtBreak' <=> AtBreak
      BY <1>2, <1>3, <1>6, <2>3 DEF AtBreak
    <3>. QED BY <1>1, <1>2, <1>5, <1>7, <1>8, <3>1 DEF Rip
  <2>. QED BY <2>1, <2>2, <2>3
<1>. QED BY <1>11, <1>12, <1>13, <1>14, <1>15, <1>16 DEF Turn

-----------------------------------------------------------------------------
(* The steps of the thread, and what the listener makes of its stops.      *)

\* The kernel has the turn: neither the listener nor a callback has the stop.
KernelHolds ==
  /\ ~LTurn /\ ~CTurn /\ ~QTurn /\ queue = <<>> /\ (\A o : ~Queued(o)) /\ callbacks = <<>>
  /\ ~WatchSeen /\ ~Tests(ListenerTodo) /\ cDr6 = {} /\ (futDr6 => peeked = {}) /\ regSync # "NEW"
  /\ (dr6 # {} => event = "watch") /\ aim = "none"
  /\ \A k \in DOMAIN ListenerTodo :
       ListenerTodo[k].op \notin {"trap", "matchBreakPoint", "hit", "setDr6"}
  /\ ~Starts(ListenerTodo, "getRegs") /\ ~Starts(ListenerTodo, "matchBreakPoint")
  /\ \A o : o # "setState" => ~Has(CallbackTodo, o) /\ ~Starts(CallbackTodo, o)

LEMMA KernelHasTurn ==
  ASSUME Shape, Turn, KTurn
  PROVE  KernelHolds
<1>1. Told /\ Sent /\ Base /\ Turns /\ Caches /\ Dr6 /\ Rip
  BY DEF Turn
<1>2. ~LTurn /\ ~CTurn /\ queue = <<>>
  BY <1>1 DEF Turns
<1>3. \A o : ~Queued(o)
  <2>1. DOMAIN queue = {}
    BY <1>2
  <2>. QED BY <2>1 DEF Queued
<1>4. /\ IsSeq(ListenerTodo) /\ Orderly(ListenerTodo)
      /\ IsSeq(CallbackTodo) /\ Driving(CallbackTodo)
  BY <1>1, ActorsAssumption DEF Told, Shape, Actors, ListenerTodo, CallbackTodo
<1>5. /\ ~Has(ListenerTodo, "trap") /\ ~Has(ListenerTodo, "matchBreakPoint")
      /\ ~Has(ListenerTodo, "hit") /\ ~Has(ListenerTodo, "setDr6")
  BY <1>2, <1>4, HandsOverHas DEF LTurn
<1>6. ~Tests(ListenerTodo) /\ ~WatchSeen
  BY <1>2 DEF Tests, LTurn, HandsOver, Hands, WatchSeen
<1>7. ~Starts(ListenerTodo, "getRegs") /\ ~Starts(ListenerTodo, "matchBreakPoint")
  BY <1>2, <1>4, PastFirst DEF LTurn, Starts
<1>8. \A o : o # "setState" => ~Has(CallbackTodo, o) /\ ~Starts(CallbackTodo, o)
  BY <1>2, <1>4, DrivingHas DEF CTurn
<1>9. \A k \in DOMAIN ListenerTodo :
        ListenerTodo[k].op \notin {"trap", "matchBreakPoint", "hit", "setDr6"}
  BY <1>5 DEF Has
<1>10. regSync # "NEW" /\ callbacks = <<>> /\ aim = "none" /\ ~QTurn
  BY <1>1, <1>2, <1>3 DEF Caches, CTurn, Rip, QTurn
<1>11. cDr6 = {} /\ (futDr6 => peeked = {}) /\ (dr6 # {} => event = "watch")
  BY <1>1, <1>2, <1>3, <1>5, <1>6, <1>9, <1>10 DEF Dr6
<1>. QED BY <1>2, <1>3, <1>6, <1>7, <1>8, <1>9, <1>10, <1>11 DEF KernelHolds

\* A report of WCONTINUED gives the turn to nobody.
LEMMA ThreadReports ==
  ASSUME Turn, Thread, ReportsContinued
  PROVE  Turn'
<1>1. Told /\ Sent /\ Base /\ Turns /\ Caches /\ Dr6 /\ Rip
  BY DEF Turn
<1>2. /\ UNCHANGED <<ListenerTodo, CallbackTodo, queue, callbacks, known, state, trapExp, regSync,
                     cRip, cDr6, futRegs, futDr6, peeked, spurious, aim>>
      /\ UNCHANGED <<run, reason, pending, rip, dr6>> /\ event = "none" /\ event' = "CONT"
  BY DEF Thread, ReportsContinued, threadVars, cacheVars, historyVars, ListenerTodo, CallbackTodo
<1>3. /\ (KTurn' <=> KTurn) /\ (LTurn' <=> LTurn) /\ (CTurn' <=> CTurn) /\ (QTurn' <=> QTurn)
      /\ (Past' <=> Past) /\ (\A o : Queued(o)' <=> Queued(o))
      /\ (Tests(ListenerTodo)' <=> Tests(ListenerTodo)) /\ (WatchSeen' <=> WatchSeen)
      /\ \A o : (Starts(ListenerTodo, o)' <=> Starts(ListenerTodo, o)) /\ (Has(ListenerTodo, o)' <=> Has(ListenerTodo, o))
      /\ \A o : (Starts(CallbackTodo, o)' <=> Starts(CallbackTodo, o)) /\ (Has(CallbackTodo, o)' <=> Has(CallbackTodo, o))
  <2>1. KTurn' <=> KTurn
    BY <1>2 DEF KTurn, NoStop
  <2>2. (LTurn' <=> LTurn) /\ (Past' <=> Past) /\ (Tests(ListenerTodo)' <=> Tests(ListenerTodo))
    BY <1>2 DEF LTurn, Past, Tests
  <2>3. (CTurn' <=> CTurn) /\ (QTurn' <=> QTurn) /\ (\A o : Queued(o)' <=> Queued(o))
    BY <1>2, CallbackKept, QueueKept
  <2>. QED BY <1>2, <2>1, <2>2, <2>3 DEF WatchSeen, Starts, Has
<1>4. Told'
  BY <1>1, <1>2 DEF Told
<1>5. Sent'
  BY <1>1, <1>2, <1>3 DEF Sent
<1>6. Base'
  BY <1>1, <1>2 DEF Base, NoStop
<1>7. Turns'
  BY <1>1, <1>2, <1>3 DEF Turns
<1>8. Caches'
  BY <1>1, <1>2, <1>3 DEF Caches
<1>9. Dr6'
  BY <1>1, <1>2, <1>3 DEF Dr6
<1>10. Rip'
  <2>1. AtBreak' <=> AtBreak
    BY <1>2 DEF AtBreak
  <2>. QED BY <1>1, <1>2, <1>3, <2>1 DEF Rip
<1>. QED BY <1>4, <1>5, <1>6, <1>7, <1>8, <1>9, <1>10 DEF Turn

LEMMA ThreadStops ==
  ASSUME Shape, Kernel, Turn, Thread
  PROVE  run' = "dead" \/ Turn'
<1>1. Told /\ Sent /\ Base /\ Turns /\ Caches /\ Dr6 /\ Rip
  BY DEF Turn
<1>2. UNCHANGED <<ListenerTodo, CallbackTodo, queue, callbacks, known, state, trapExp, regSync,
                  cRip, cDr6, futRegs, futDr6, peeked, spurious, aim>>
  BY DEF Thread, threadVars, cacheVars, historyVars, ListenerTodo, CallbackTodo
<1>3. SUFFICES ASSUME Int3 \/ Spontaneous PROVE Turn'
  <2>1. ThreadStep
    BY DEF Thread
  <2>. QED BY <1>1, <2>1, ThreadReports DEF ThreadStep, StepDone, SignalTaken, Exits, Base
<1>4. PICK why : /\ StopFor(why) /\ UNCHANGED pending /\ rip' # "wild"
                 /\ why \in {"break", "watch", "clone", "SEGV", "STOP", "USR"}
                 /\ why = "break" => rip' = "bp"
                 /\ why = "watch" => \E i \in WatchIdx : dr6' = dr6 \cup {i}
                 /\ why # "watch" => UNCHANGED dr6
  <2>1. CASE Int3
    BY <2>1 DEF Int3
  <2>2. CASE Spontaneous
    BY <2>2, KernelAssumption DEF Spontaneous, Reached
  <2>. QED BY <1>3, <2>1, <2>2
<1>5. run = "running" /\ run' = "stopped" /\ event' = why /\ reason' = why /\ event \in NoStop
  BY <1>1, <1>4 DEF StopFor, Executing, Base, Kernel
<1>6. KTurn /\ KTurn'
  BY <1>4, <1>5 DEF KTurn, NoStop
<1>7. KernelHolds /\ known /\ dr6 = {}
  BY <1>1, <1>5, <1>6, KernelHasTurn DEF Base, KernelHolds, NoStop
<1>8. /\ ~LTurn' /\ ~CTurn' /\ ~QTurn' /\ (\A o : ~Queued(o)') /\ ~Tests(ListenerTodo)' /\ ~WatchSeen'
      /\ \A o : (Starts(ListenerTodo, o)' <=> Starts(ListenerTodo, o)) /\ (Has(ListenerTodo, o)' <=> Has(ListenerTodo, o))
      /\ \A o : (Starts(CallbackTodo, o)' <=> Starts(CallbackTodo, o)) /\ (Has(CallbackTodo, o)' <=> Has(CallbackTodo, o))
  <2>1. ~LTurn' /\ ~Tests(ListenerTodo)'
    BY <1>2, <1>7 DEF KernelHolds, LTurn, Tests
  <2>2. CTurn' <=> CTurn
    BY <1>2, CallbackKept
  <2>. QED BY <1>2, <1>7, <2>1, <2>2, QueueKept DEF KernelHolds, WatchSeen, Starts, Has
<1>9. Told'
  <2>1. \A k \in DOMAIN ListenerTodo : ListenerTodo[k].op = "testDr6" => ListenerTodo[k].arg[1] = "clone"
    BY <1>7 DEF KernelHolds, Tests
  <2>. QED BY <1>1, <1>2, <1>7, <2>1 DEF Told, KernelHolds
<1>10. Sent'
  BY <1>1, <1>2, <1>8 DEF Sent
<1>11. Base'
  BY <1>1, <1>2, <1>4, <1>5, <1>7 DEF Base, Traps, NoStop
<1>12. Turns'
  BY <1>1, <1>2, <1>6, <1>7, <1>8 DEF Turns, KernelHolds
<1>13. Caches'
  BY <1>1, <1>2, <1>7, <1>8 DEF Caches, KernelHolds
<1>14. Dr6'
  <2>1. dr6' # {} <=> why = "watch"
    BY <1>4, <1>7
  <2>2. dr6' # {} => \E i \in WatchIdx : dr6' = {i}
    BY <1>4, <1>7
  <2>3. ~Has(ListenerTodo, "hit") /\ ~Has(ListenerTodo, "setDr6")
    BY <1>7 DEF KernelHolds, Has
  <2>. QED BY <1>2, <1>5, <1>7, <1>8, <2>1, <2>2, <2>3 DEF Dr6, KernelHolds
<1>15. Rip'
  <2>1. AtBreak' <=> AtBreak
    BY <1>2 DEF AtBreak
  <2>. QED BY <1>1, <1>2, <1>4, <1>5, <1>7, <1>8, <2>1 DEF Rip, KernelHolds
<1>. QED BY <1>9, <1>10, <1>11, <1>12, <1>13, <1>14, <1>15 DEF Turn

LEMMA ThreadBegins ==
  ASSUME Shape, Kernel, Turn, run # "dead", NewThread
  PROVE  Turn'
<1>1. Told /\ Sent /\ Base /\ Turns /\ Caches /\ Dr6 /\ Rip
  BY DEF Turn
<1>2. /\ UNCHANGED <<run, reason, pending, rip, dr6, queue, state, trapExp, regSync,
                     cRip, cDr6, futRegs, futDr6, peeked, spurious, aim>>
      /\ UNCHANGED todo /\ event # "none" /\ event' = "none" /\ ~known /\ known'
      /\ callbacks' = Append(callbacks, "created") /\ ListenerTodo = <<>>
  BY DEF NewThread, Collect, cacheVars, historyVars, ListenerTodo
<1>12. UNCHANGED <<ListenerTodo, CallbackTodo>>
  BY <1>2 DEF ListenerTodo, CallbackTodo
<1>3. /\ CallbackTodo = <<>> /\ callbacks = <<>> /\ state = "STOPPED" /\ event = "start" /\ regSync = "OLD"
      /\ run = "stopped"
  BY <1>1, <1>2, ActorsAssumption DEF Base, Shape, Actors, CallbackTodo, Kernel
<1>4. callbacks' # <<>> /\ Len(callbacks') = 1 /\ \A k \in DOMAIN callbacks' : callbacks'[k] # "break"
  <2>1. PICK u : u = <<"created">>
    OBVIOUS
  <2>2. u \in Seq({"created"}) /\ Len(u) = 1 /\ u[1] = "created" /\ u # <<>>
    BY <2>1
  <2>3. DOMAIN u = 1 .. 1
    BY <2>2, AnySeq DEF IsSeq
  <2>4. callbacks' = u
    BY <1>2, <1>3, <2>1
  <2>. QED BY <2>2, <2>3, <2>4
<1>5. KernelHolds
  BY <1>3, KernelHasTurn DEF KTurn, NoStop
<1>6. ~KTurn' /\ CTurn' /\ ~LTurn' /\ ~QTurn' /\ ListenerTodo' = <<>>
  BY <1>2, <1>3, <1>4, <1>5, <1>12, QueueKept, OrderlyNone DEF KTurn, CTurn, LTurn, KernelHolds, NoStop
<1>7. /\ \A o : ~Has(ListenerTodo, o)' /\ ~Starts(ListenerTodo, o)' /\ ~Has(CallbackTodo, o)' /\ ~Starts(CallbackTodo, o)'
      /\ \A k \in DOMAIN ListenerTodo' : FALSE
      /\ ~Tests(ListenerTodo)' /\ ~WatchSeen' /\ \A o : ~Queued(o)'
  BY <1>2, <1>3, <1>5, <1>6, <1>12, QueueKept, OrderlyNone DEF Has, Starts, WatchSeen, KernelHolds
<1>8. Told'
  BY <1>2, <1>3, <1>6, <1>7, <1>12, OrderlyNone, DrivingNone DEF Told
<1>9. Sent' /\ Base'
  BY <1>1, <1>2, <1>3, <1>7 DEF Sent, Base, NoStop
<1>10. Turns'
  BY <1>2, <1>3, <1>4, <1>6, <1>12 DEF Turns
<1>11. Caches'
  BY <1>2, <1>3, <1>7 DEF Caches
<1>13. Dr6'
  <2>1. dr6 = {}
    BY <1>3, <1>5 DEF KernelHolds
  <2>. QED BY <1>2, <1>5, <1>7, <2>1 DEF Dr6, KernelHolds
<1>14. Rip'
  BY <1>1, <1>2, <1>3, <1>4, <1>5, <1>6, <1>7 DEF Rip, KernelHolds
<1>. QED BY <1>8, <1>9, <1>10, <1>11, <1>13, <1>14 DEF Turn

\* t is a, b and the elements of x.
Prefixed(t, a, b, x) ==
  /\ IsSeq(t) /\ Len(t) = Len(x) + 2 /\ 1 \in DOMAIN t /\ 2 \in DOMAIN t /\ t[1] = a /\ t[2] = b
  /\ \A k \in DOMAIN x : k + 2 \in DOMAIN t /\ t[k + 2] = x[k]
  /\ \A k \in DOMAIN t : k = 1 \/ k = 2 \/ \E j \in DOMAIN x : k = j + 2 /\ t[k] = x[j]
  /\ DOMAIN x = 1 .. Len(x) /\ Len(x) \in Nat /\ t # <<>>

LEMMA TwoThen ==
  ASSUME NEW a, NEW b, NEW x, IsSeq(x)
  PROVE  Prefixed(<<a, b>> \o x, a, b, x)
<1>0. PICK t : t = <<a, b>> \o x
  OBVIOUS
<1>1. PICK s : s = <<a, b>>
  OBVIOUS
<1>2. s \in Seq({a, b}) /\ Len(s) = 2 /\ s[1] = a /\ s[2] = b
  BY <1>1
<1>3. IsSeq(s)
  BY <1>2, AnySeq
<1>4. /\ IsSeq(s \o x) /\ Len(s \o x) = Len(s) + Len(x) /\ DOMAIN (s \o x) = 1 .. Len(s) + Len(x)
      /\ \A k \in 1 .. Len(s) : (s \o x)[k] = s[k]
      /\ \A k \in Len(s) + 1 .. Len(s) + Len(x) : (s \o x)[k] = x[k - Len(s)]
  BY <1>3, Concat
<1>5. t = s \o x
  BY <1>0, <1>1
<1>6. /\ IsSeq(t) /\ Len(t) = 2 + Len(x) /\ DOMAIN t = 1 .. 2 + Len(x)
      /\ \A k \in 1 .. 2 : t[k] = s[k]
      /\ \A k \in 3 .. 2 + Len(x) : t[k] = x[k - 2]
  BY <1>2, <1>4, <1>5
<1>7. Len(x) \in Nat /\ DOMAIN x = 1 .. Len(x)
  BY DEF IsSeq
<1>8. t[1] = a /\ t[2] = b
  BY <1>2, <1>6
<1>9. ASSUME NEW k \in DOMAIN x PROVE k + 2 \in DOMAIN t /\ t[k + 2] = x[k]
  <2>1. k + 2 \in 3 .. 2 + Len(x) /\ (k + 2) - 2 = k
    BY <1>7
  <2>. QED BY <1>6, <1>7, <2>1
<1>10. ASSUME NEW k \in DOMAIN t
       PROVE  k = 1 \/ k = 2 \/ \E j \in DOMAIN x : k = j + 2 /\ t[k] = x[j]
  <2>1. k = 1 \/ k = 2 \/ (k \in 3 .. 2 + Len(x) /\ k - 2 \in DOMAIN x /\ k = (k - 2) + 2)
    BY <1>6, <1>7
  <2>. QED BY <1>6, <2>1
<1>11. t # <<>>
  BY <1>6, <1>7
<1>12. Prefixed(t, a, b, x)
  BY <1>6, <1>7, <1>8, <1>9, <1>10, <1>11 DEF Prefixed
<1>. QED BY <1>0, <1>12

\* Nothing of x is a hit, and it records no state but CONTINUED.
Follow(x) ==
  /\ IsSeq(x) /\ Orderly(x) /\ HandsOver(x) /\ x # <<>>
  /\ \A k \in DOMAIN x : /\ x[k].op \notin {"hit", "setDr6", "testDr6"}
                         /\ Sets(x, k) => Continued(x, k)

Foregone(t, b, x) ==
  /\ IsSeq(t) /\ Orderly(t) /\ HandsOver(t) /\ t # <<>> /\ Starts(t, "readRegisters")
  /\ \A k \in DOMAIN t : t[k].op \notin {"hit", "setDr6", "testDr6"}
  /\ b.op = "getRegs" => \A k \in DOMAIN t : Sets(t, k) => Continued(t, k)
  /\ b.op = "setState" => RecordsStop(t)
  /\ \A k \in DOMAIN t : t[k].op \in {"trap", "matchBreakPoint"} =>
       \E j \in DOMAIN x : x[j] = t[k]

\* Readings put before what is orderly, or the recording of a stop.
LEMMA OrderlyTwo ==
  ASSUME NEW a, NEW b, NEW x, Follow(x), NEW t, Prefixed(t, a, b, x), a.op = "readRegisters",
         b.op = "setState" => b.arg = "STOPPED",
         b.op \in {"setState", "getRegs"},
         x[1].op \in DOMAIN Before => b.op = Before[x[1].op]
  PROVE  Foregone(t, b, x)
<1>1. /\ IsSeq(x) /\ Orderly(x) /\ HandsOver(x) /\ x # <<>>
      /\ \A k \in DOMAIN x : /\ x[k].op \notin {"hit", "setDr6", "testDr6"}
                             /\ Sets(x, k) => Continued(x, k)
  BY DEF Follow
<1>2. /\ IsSeq(t) /\ Len(t) = Len(x) + 2 /\ 1 \in DOMAIN t /\ 2 \in DOMAIN t /\ t[1] = a /\ t[2] = b
      /\ \A k \in DOMAIN x : k + 2 \in DOMAIN t /\ t[k + 2] = x[k]
      /\ \A k \in DOMAIN t : k = 1 \/ k = 2 \/ \E j \in DOMAIN x : k = j + 2 /\ t[k] = x[j]
      /\ DOMAIN x = 1 .. Len(x) /\ Len(x) \in Nat /\ t # <<>>
  BY DEF Prefixed
<1>3. \A j \in DOMAIN x : Hands(x, j) => j + 2 \in DOMAIN t /\ Hands(t, j + 2)
  BY <1>2 DEF Hands
<1>4. \A k \in DOMAIN t : Hands(t, k) => \E j \in DOMAIN x : k = j + 2 /\ Hands(x, j)
  BY <1>2 DEF Hands
<1>5. /\ ~Hands(t, 1) /\ ~Hands(t, 2) /\ ~Sets(t, 1) /\ (Sets(t, 2) <=> b.op = "setState")
      /\ ~Continued(t, 2) /\ ~Continued(t, 1)
  BY <1>2 DEF Hands, Sets, Continued
<1>6. PICK h \in DOMAIN t : h > 2 /\ Hands(t, h)
  <2>1. PICK j \in DOMAIN x : Hands(x, j)
    BY <1>1 DEF HandsOver
  <2>2. j + 2 \in DOMAIN t /\ Hands(t, j + 2) /\ j + 2 > 2
    BY <1>2, <1>3, <2>1
  <2>. QED BY <2>2
<1>7. \A k \in DOMAIN t : t[k].op \notin {"hit", "setDr6", "testDr6"}
  BY <1>1, <1>2
<1>8. ASSUME NEW k \in DOMAIN t, k = 1 \/ k = 2
      PROVE  /\ t[k].op \in {"trap", "matchBreakPoint", "hit", "testDr6"} => k = Len(t)
             /\ t[k].op = "cont" \/ Continued(t, k) => \A j \in DOMAIN t : j > k => ~Hands(t, j)
             /\ t[k].op \in {"setState", "readRegisters", "testDr6"}
                \/ \E j \in DOMAIN t : j >= k /\ Hands(t, j)
             /\ Sets(t, k) /\ ~Continued(t, k) =>
                  /\ \A j \in DOMAIN t : j < k => t[j].op = "readRegisters"
                  /\ \E j \in DOMAIN t : j >= k /\ Hands(t, j)
                  /\ \A j \in DOMAIN t : t[j].op \notin {"hit", "setDr6", "testDr6"}
             /\ k > 1 /\ t[k].op \in DOMAIN Before => t[k - 1].op = Before[t[k].op]
             /\ k > 1 /\ t[k].op \in {"trap", "writeRegisters"} => ~Continued(t, k - 1)
             /\ t[k].op = "testDr6" /\ t[k].arg[1] # "clone" => k <= 2
  <2>1. h >= k /\ h \in Nat
    BY <1>2, <1>6, <1>8 DEF IsSeq
  <2>2. t[k].op \in {"readRegisters", "setState", "getRegs"}
    BY <1>2, <1>8
  <2>3. \A j \in DOMAIN t : j < k => j = 1
    BY <1>2, <1>8 DEF IsSeq
  <2>4. k > 1 /\ t[k].op \in DOMAIN Before => t[k - 1].op = Before[t[k].op]
    <3>1. 2 - 1 = 1
      OBVIOUS
    <3>. QED BY <1>2, <1>8, <3>1 DEF Before
  <2>. QED BY <1>2, <1>5, <1>6, <1>7, <1>8, <2>1, <2>2, <2>3, <2>4
<1>9. ASSUME NEW j \in DOMAIN x, NEW k \in DOMAIN t, k = j + 2, t[k] = x[j]
      PROVE  /\ t[k].op \in {"trap", "matchBreakPoint", "hit", "testDr6"} => k = Len(t)
             /\ t[k].op = "cont" \/ Continued(t, k) => \A i \in DOMAIN t : i > k => ~Hands(t, i)
             /\ t[k].op \in {"setState", "readRegisters", "testDr6"}
                \/ \E i \in DOMAIN t : i >= k /\ Hands(t, i)
             /\ Sets(t, k) => Continued(t, k)
             /\ k > 1 /\ t[k].op \in DOMAIN Before => t[k - 1].op = Before[t[k].op]
             /\ k > 1 /\ t[k].op \in {"trap", "writeRegisters"} => ~Continued(t, k - 1)
             /\ t[k].op # "testDr6"
  <2>1. /\ x[j].op \in {"trap", "matchBreakPoint", "hit", "testDr6"} => j = Len(x)
        /\ x[j].op = "cont" \/ Continued(x, j) => \A i \in DOMAIN x : i > j => ~Hands(x, i)
        /\ x[j].op \in {"setState", "readRegisters", "testDr6"}
           \/ \E i \in DOMAIN x : i >= j /\ Hands(x, i)
        /\ j > 1 /\ x[j].op \in DOMAIN Before => x[j - 1].op = Before[x[j].op]
        /\ j > 1 /\ x[j].op \in {"trap", "writeRegisters"} => ~Continued(x, j - 1)
    BY <1>1 DEF Orderly
  <2>2. (t[k].op = "cont" \/ Continued(t, k)) => \A i \in DOMAIN t : i > k => ~Hands(t, i)
    <3>1. Continued(t, k) => Continued(x, j)
      BY <1>9 DEF Continued, Sets
    <3>2. \A i \in DOMAIN t : i > k /\ Hands(t, i) => \E l \in DOMAIN x : l > j /\ Hands(x, l)
      <4>1. ASSUME NEW i \in DOMAIN t, i > k, Hands(t, i) PROVE \E l \in DOMAIN x : l > j /\ Hands(x, l)
        <5>1. PICK l \in DOMAIN x : i = l + 2 /\ Hands(x, l)
          BY <1>4, <4>1
        <5>2. l > j
          BY <1>2, <1>9, <4>1, <5>1
        <5>. QED BY <5>1, <5>2
      <4>. QED BY <4>1
    <3>. QED BY <1>9, <2>1, <3>1, <3>2
  <2>3. (\E i \in DOMAIN x : i >= j /\ Hands(x, i)) => \E i \in DOMAIN t : i >= k /\ Hands(t, i)
    <3>1. ASSUME NEW i \in DOMAIN x, i >= j, Hands(x, i) PROVE \E l \in DOMAIN t : l >= k /\ Hands(t, l)
      <4>1. i + 2 >= k
        BY <1>2, <1>9, <3>1
      <4>. QED BY <1>3, <3>1, <4>1
    <3>. QED BY <3>1
  <2>4. Sets(t, k) => Continued(t, k)
    BY <1>1, <1>9 DEF Sets, Continued
  <2>5. k - 1 = IF j = 1 THEN 2 ELSE (j - 1) + 2
    BY <1>2, <1>9
  <2>6. j # 1 => j > 1 /\ j - 1 \in DOMAIN x /\ t[(j - 1) + 2] = x[j - 1]
    BY <1>2
  <2>7. t[k].op \in DOMAIN Before => t[k - 1].op = Before[t[k].op]
    <3>1. CASE j = 1
      BY <1>2, <1>9, <2>5, <3>1
    <3>2. CASE j # 1
      BY <1>9, <2>1, <2>5, <2>6, <3>2
    <3>. QED BY <3>1, <3>2
  <2>8. t[k].op \in {"trap", "writeRegisters"} => ~Continued(t, k - 1)
    <3>1. CASE j = 1
      BY <1>5, <2>5, <3>1
    <3>2. CASE j # 1
      BY <1>9, <2>1, <2>5, <2>6, <3>2 DEF Continued, Sets
    <3>. QED BY <3>1, <3>2
  <2>. QED BY <1>1, <1>2, <1>9, <2>1, <2>2, <2>3, <2>4, <2>7, <2>8
<1>10. Orderly(t)
  <2>1. ASSUME NEW k \in DOMAIN t
        PROVE  /\ t[k].op \in {"trap", "matchBreakPoint", "hit", "testDr6"} => k = Len(t)
               /\ t[k].op = "cont" \/ Continued(t, k) => \A j \in DOMAIN t : j > k => ~Hands(t, j)
               /\ t[k].op \in {"setState", "readRegisters", "testDr6"}
                  \/ \E j \in DOMAIN t : j >= k /\ Hands(t, j)
               /\ Sets(t, k) /\ ~Continued(t, k) =>
                    /\ \A j \in DOMAIN t : j < k => t[j].op = "readRegisters"
                    /\ \E j \in DOMAIN t : j >= k /\ Hands(t, j)
                    /\ \A j \in DOMAIN t : t[j].op \notin {"hit", "setDr6", "testDr6"}
               /\ k > 1 /\ t[k].op \in DOMAIN Before => t[k - 1].op = Before[t[k].op]
               /\ k > 1 /\ t[k].op \in {"trap", "writeRegisters"} => ~Continued(t, k - 1)
               /\ t[k].op = "testDr6" /\ t[k].arg[1] # "clone" => k <= 2
    <3>1. CASE k = 1 \/ k = 2
      BY <1>8, <3>1
    <3>2. CASE \E j \in DOMAIN x : k = j + 2 /\ t[k] = x[j]
      BY <1>9, <3>2
    <3>. QED BY <1>2, <3>1, <3>2
  <2>. QED BY <2>1 DEF Orderly
<1>11. HandsOver(t) /\ Starts(t, "readRegisters")
  <2>1. HandsOver(t)
    BY <1>6 DEF HandsOver
  <2>2. Starts(t, "readRegisters")
    BY <1>2 DEF Starts
  <2>. QED BY <2>1, <2>2
<1>12. b.op = "getRegs" => \A k \in DOMAIN t : Sets(t, k) => Continued(t, k)
  BY <1>2, <1>5, <1>9
<1>13. b.op = "setState" => RecordsStop(t)
  BY <1>2, <1>5 DEF RecordsStop
<1>14. \A k \in DOMAIN t : t[k].op \in {"trap", "matchBreakPoint"} => \E j \in DOMAIN x : x[j] = t[k]
  BY <1>2
<1>. QED BY <1>2, <1>7, <1>10, <1>11, <1>12, <1>13, <1>14 DEF Foregone

LEMMA FollowTrap ==
  ASSUME NEW ev, NEW x, x = <<Instr("trap", ev)>>
  PROVE  Follow(x) /\ DOMAIN x = {1} /\ x[1].op = "trap" /\ x[1].arg = ev
<1>1. x \in Seq({Instr("trap", ev)}) /\ Len(x) = 1 /\ x[1] = Instr("trap", ev) /\ x # <<>>
  OBVIOUS
<1>2. IsSeq(x) /\ x[1].op = "trap" /\ x[1].arg = ev
  BY <1>1, AnySeq DEF Instr
<1>3. DOMAIN x = {1}
  BY <1>1, <1>2 DEF IsSeq
<1>4. Hands(x, 1) /\ ~Sets(x, 1)
  BY <1>2 DEF Hands, Sets
<1>5. Orderly(x)
  BY <1>1, <1>2, <1>3, <1>4 DEF Orderly, Continued
<1>. QED BY <1>1, <1>2, <1>3, <1>4, <1>5 DEF Follow, HandsOver

Searches(x) == Follow(x) /\ x[1].op = "readRegisters" /\ \A k \in DOMAIN x : x[k].op # "trap"

LEMMA FollowUnhandled ==
  ASSUME NEW x, x = Unhandled
  PROVE  Searches(x)
<1>1. /\ IsSeq(x) /\ Len(x) = 3 /\ DOMAIN x = 1 .. 3
      /\ x[1].op = "readRegisters" /\ x[2].op = "getRegs" /\ x[3].op = "matchBreakPoint"
  BY UnhandledElements
<1>2. \A k \in DOMAIN x : k = 1 \/ k = 2 \/ k = 3
  BY <1>1
<1>3. Orderly(x) /\ HandsOver(x)
  BY OrderlyUnhandled
<1>4. x # <<>>
  BY <1>1
<1>. QED BY <1>1, <1>2, <1>3, <1>4 DEF Searches, Follow, Sets

LEMMA FollowResume ==
  ASSUME NEW sig, NEW x, x = Resume(sig)
  PROVE  /\ Follow(x) /\ x[1].op = "writeRegisters"
         /\ \A k \in DOMAIN x : x[k].op \notin {"trap", "matchBreakPoint"}
<1>1. /\ IsSeq(x) /\ Len(x) = 3 /\ x[1].op = "writeRegisters" /\ x[2].op = "cont"
      /\ x[3].op = "setState" /\ x[3].arg = "CONTINUED"
  BY ResumeElements
<1>2. DOMAIN x = 1 .. 3 /\ x # <<>>
  BY <1>1 DEF IsSeq
<1>3. \A k \in DOMAIN x : k = 1 \/ k = 2 \/ k = 3
  BY <1>2
<1>4. \A k \in DOMAIN x : (Hands(x, k) <=> k = 2) /\ (Sets(x, k) <=> k = 3) /\ (Continued(x, k) <=> k = 3)
  BY <1>1, <1>3 DEF Hands, Sets, Continued
<1>5. \A k \in DOMAIN x : k > 1 /\ x[k].op \in DOMAIN Before => x[k - 1].op = Before[x[k].op]
  BY <1>1, <1>3 DEF Before
<1>6. \A k \in DOMAIN x : x[k].op \notin {"trap", "matchBreakPoint", "hit", "testDr6", "setDr6"}
  BY <1>1, <1>3
<1>7. \A k \in DOMAIN x : x[k].op = "writeRegisters" => k = 1
  BY <1>1, <1>3
<1>8. \A k \in DOMAIN x : x[k].op \notin {"setState", "readRegisters", "testDr6"} => 2 >= k
  BY <1>1, <1>3
<1>9. 2 \in DOMAIN x /\ Hands(x, 2)
  BY <1>2, <1>4
<1>10. \A k \in DOMAIN x : x[k].op = "cont" \/ Continued(x, k) => \A j \in DOMAIN x : j > k => ~Hands(x, j)
  BY <1>1, <1>3, <1>4
<1>11. Orderly(x)
  BY <1>4, <1>5, <1>6, <1>7, <1>8, <1>9, <1>10 DEF Orderly
<1>. QED BY <1>1, <1>2, <1>4, <1>6, <1>9, <1>11 DEF Follow, HandsOver

AfterGetRip(x) == GetRip \o x

\* getRip is called before x.
LEMMA FollowGetRip ==
  ASSUME NEW x, Searches(x)
  PROVE  Searches(AfterGetRip(x))
<1>0. PICK t : t = AfterGetRip(x)
  OBVIOUS
<1>00. Follow(x) /\ x[1].op = "readRegisters" /\ \A k \in DOMAIN x : x[k].op # "trap"
  BY DEF Searches
<1>1. PICK a : a = Op("readRegisters")
  OBVIOUS
<1>2. PICK b : b = Op("getRegs")
  OBVIOUS
<1>3. a.op = "readRegisters" /\ b.op = "getRegs"
  BY <1>1, <1>2 DEF Op, Instr
<1>4. Prefixed(<<a, b>> \o x, a, b, x)
  BY <1>00, TwoThen DEF Follow
<1>5. Prefixed(t, a, b, x)
  BY <1>0, <1>1, <1>2, <1>4 DEF GetRip, AfterGetRip
<1>6. x[1].op \in DOMAIN Before => b.op = Before[x[1].op]
  BY <1>00 DEF Before
<1>9. b.op = "setState" => b.arg = "STOPPED"
  BY <1>3
<1>10. Foregone(t, b, x)
  BY <1>00, <1>3, <1>5, <1>6, <1>9, OrderlyTwo
<1>7. /\ IsSeq(t) /\ Orderly(t) /\ HandsOver(t) /\ t # <<>> /\ Starts(t, "readRegisters")
      /\ \A k \in DOMAIN t : t[k].op \notin {"hit", "setDr6", "testDr6"}
      /\ \A k \in DOMAIN t : Sets(t, k) => Continued(t, k)
  BY <1>3, <1>10 DEF Foregone
<1>8. \A k \in DOMAIN t : t[k].op # "trap"
  BY <1>00, <1>3, <1>5 DEF Prefixed
<1>. QED BY <1>0, <1>7, <1>8 DEF Searches, Follow, Starts

\* What the listener has to do for a stop of reason ev.
Handles(t, ev) ==
  /\ IsSeq(t) /\ Orderly(t) /\ HandsOver(t) /\ t # <<>> /\ Starts(t, "readRegisters")
  /\ \A k \in DOMAIN t : /\ t[k].op \notin {"hit", "setDr6", "testDr6"}
                         /\ t[k].op = "trap" => t[k].arg = ev /\ ev \in Traps
                         /\ t[k].op = "matchBreakPoint" => ev \in {"SEGV", "STOP"}
  /\ RecordsStop(t)
  /\ ev \in Traps => Has(t, "trap")

LEMMA StoppedHandles ==
  ASSUME NEW ev, NEW x, Follow(x), x[1].op \in DOMAIN Before => Before[x[1].op] = "setState",
         \A k \in DOMAIN x : /\ x[k].op = "trap" => x[k].arg = ev /\ ev \in Traps
                             /\ x[k].op = "matchBreakPoint" => ev \in {"SEGV", "STOP"},
         ev \in Traps => Has(x, "trap")
  PROVE  Handles(Stopped \o x, ev)
<1>0. PICK t : t = Stopped \o x
  OBVIOUS
<1>1. PICK a : a = Op("readRegisters")
  OBVIOUS
<1>2. PICK b : b = Instr("setState", "STOPPED")
  OBVIOUS
<1>3. a.op = "readRegisters" /\ b.op = "setState" /\ b.arg = "STOPPED"
  BY <1>1, <1>2 DEF Op, Instr
<1>4. Prefixed(<<a, b>> \o x, a, b, x)
  BY TwoThen DEF Follow
<1>5. Prefixed(t, a, b, x)
  BY <1>0, <1>1, <1>2, <1>4 DEF Stopped
<1>6. x[1].op \in DOMAIN Before => b.op = Before[x[1].op]
  BY <1>3
<1>10. Foregone(t, b, x)
  BY <1>3, <1>5, <1>6, OrderlyTwo
<1>7. /\ IsSeq(t) /\ Orderly(t) /\ HandsOver(t) /\ t # <<>> /\ Starts(t, "readRegisters")
      /\ \A k \in DOMAIN t : t[k].op \notin {"hit", "setDr6", "testDr6"}
      /\ RecordsStop(t)
      /\ \A k \in DOMAIN t : t[k].op \in {"trap", "matchBreakPoint"} => \E j \in DOMAIN x : x[j] = t[k]
  BY <1>3, <1>10 DEF Foregone
<1>8. ev \in Traps => Has(t, "trap")
  BY <1>5 DEF Has, Prefixed
<1>. QED BY <1>0, <1>7, <1>8 DEF Handles

LEMMA EventHandled ==
  ASSUME NEW ev \in Traps \cup {"SEGV", "STOP", "USR"}, NEW bt \in Backtrace
  PROVE  Handles(HandleEvent(ev, bt), ev)
<1>1. CASE ev \in Traps
  <2>1. PICK x : x = <<Instr("trap", ev)>>
    OBVIOUS
  <2>2. Follow(x) /\ DOMAIN x = {1} /\ x[1].op = "trap" /\ x[1].arg = ev
    BY <2>1, FollowTrap
  <2>3. HandleEvent(ev, bt) = Stopped \o x
    BY <1>1, <2>1 DEF HandleEvent, Traps
  <2>4. Has(x, "trap") /\ Before["trap"] = "setState"
    BY <2>2 DEF Has, Before
  <2>5. Handles(Stopped \o x, ev)
    BY <1>1, <2>2, <2>4, StoppedHandles
  <2>. QED BY <2>3, <2>5
<1>2. CASE ev = "SEGV"
  <2>1. PICK u : u = Unhandled
    OBVIOUS
  <2>2. Searches(u)
    BY <2>1, FollowUnhandled
  <2>3. Searches(AfterGetRip(u))
    BY <2>2, FollowGetRip
  <2>4. Searches(AfterGetRip(AfterGetRip(u)))
    <3>1. PICK v : v = AfterGetRip(u)
      OBVIOUS
    <3>2. Searches(v)
      BY <2>3, <3>1
    <3>3. Searches(AfterGetRip(v))
      BY <3>2, FollowGetRip
    <3>. QED BY <3>1, <3>3
  <2>5. IsSeq(GetRip) /\ IsSeq(u) /\ IsSeq(bt)
    BY <2>2, MethodicalMethods, BacktraceAside DEF Searches, Follow, Methodical
  <2>6. (GetRip \o GetRip) \o u = GetRip \o (GetRip \o u)
    BY <2>5, ConcatAssociates
  <2>7. bt \o u = AfterGetRip(u) \/ bt \o u = AfterGetRip(AfterGetRip(u))
    BY <2>6 DEF Backtrace, AfterGetRip
  <2>8. Searches(bt \o u)
    BY <2>3, <2>4, <2>7
  <2>9. PICK x : x = bt \o u
    OBVIOUS
  <2>10. Follow(x) /\ x[1].op = "readRegisters" /\ \A k \in DOMAIN x : x[k].op # "trap"
    BY <2>8, <2>9 DEF Searches
  <2>11. HandleEvent(ev, bt) = (Stopped \o bt) \o u
    BY <1>2, <2>1 DEF HandleEvent
  <2>12. (Stopped \o bt) \o u = Stopped \o (bt \o u)
    BY <2>5, StoppedIsSeq, ConcatAssociates
  <2>13. Handles(Stopped \o x, ev)
    <3>1. ev \notin Traps /\ (x[1].op \in DOMAIN Before => Before[x[1].op] = "setState")
      BY <1>2, <2>10 DEF Before, Traps
    <3>2. \A k \in DOMAIN x : /\ x[k].op = "trap" => x[k].arg = ev /\ ev \in Traps
                              /\ x[k].op = "matchBreakPoint" => ev \in {"SEGV", "STOP"}
      BY <1>2, <2>10
    <3>. QED BY <2>10, <3>1, <3>2, StoppedHandles
  <2>. QED BY <2>9, <2>11, <2>12, <2>13
<1>3. CASE ev = "USR"
  <2>1. PICK x : x = Resume(ev)
    OBVIOUS
  <2>2. /\ Follow(x) /\ x[1].op = "writeRegisters"
        /\ \A k \in DOMAIN x : x[k].op \notin {"trap", "matchBreakPoint"}
    BY <2>1, FollowResume
  <2>3. HandleEvent(ev, bt) = Stopped \o x
    BY <1>3, <2>1 DEF HandleEvent
  <2>4. Handles(Stopped \o x, ev)
    <3>1. ev \notin Traps /\ (x[1].op \in DOMAIN Before => Before[x[1].op] = "setState")
      BY <1>3, <2>2 DEF Before, Traps
    <3>2. \A k \in DOMAIN x : /\ x[k].op = "trap" => x[k].arg = ev /\ ev \in Traps
                              /\ x[k].op = "matchBreakPoint" => ev \in {"SEGV", "STOP"}
      BY <2>2
    <3>. QED BY <2>2, <3>1, <3>2, StoppedHandles
  <2>. QED BY <2>3, <2>4
<1>4. CASE ev = "STOP"
  <2>1. PICK x : x = Unhandled
    OBVIOUS
  <2>2. Follow(x) /\ x[1].op = "readRegisters" /\ \A k \in DOMAIN x : x[k].op # "trap"
    BY <2>1, FollowUnhandled DEF Searches
  <2>3. HandleEvent(ev, bt) = Stopped \o x
    BY <1>4, <2>1 DEF HandleEvent
  <2>4. Handles(Stopped \o x, ev)
    <3>1. ev \notin Traps /\ (x[1].op \in DOMAIN Before => Before[x[1].op] = "setState")
      BY <1>4, <2>2 DEF Before, Traps
    <3>2. \A k \in DOMAIN x : /\ x[k].op = "trap" => x[k].arg = ev /\ ev \in Traps
                              /\ x[k].op = "matchBreakPoint" => ev \in {"SEGV", "STOP"}
      BY <1>4, <2>2
    <3>. QED BY <2>2, <3>1, <3>2, StoppedHandles
  <2>. QED BY <2>3, <2>4
<1>. QED BY <1>1, <1>2, <1>3, <1>4

LEMMA StopHandled ==
  ASSUME Shape, Kernel, Turn, run # "dead", ThreadEvent, event # "CONT"
  PROVE  Turn'
<1>1. Told /\ Sent /\ Base /\ Turns /\ Caches /\ Dr6 /\ Rip
  BY DEF Turn
<1>2. /\ UNCHANGED <<run, reason, pending, rip, dr6, queue, callbacks, known, state, trapExp, regSync,
                     cRip, cDr6, futRegs, futDr6, peeked, spurious, aim>>
      /\ event # "none" /\ event' = "none" /\ known /\ ListenerTodo = <<>>
  BY DEF ThreadEvent, Collect, cacheVars, threadVars, ListenerTodo
<1>3. event \in Traps \cup {"SEGV", "STOP", "USR"} /\ reason = event /\ run = "stopped"
  <2>1. event \notin NoStop
    BY <1>2 DEF NoStop
  <2>. QED BY <1>1, <1>2, <2>1 DEF Base, Kernel
<1>4. /\ Handles(ListenerTodo', event) /\ UNCHANGED CallbackTodo
  <2>1. PICK bt \in Backtrace : todo' = [todo EXCEPT ![Listener] = HandleEvent(event, bt)]
    BY DEF ThreadEvent
  <2>2. PICK t : t = HandleEvent(event, bt)
    OBVIOUS
  <2>3. todo'[Listener] = t /\ todo'[Callback] = todo[Callback]
    <3>1. todo = [b \in Actors |-> todo[b]] /\ Listener \in Actors /\ Callback \in Actors \ {Listener}
      BY ActorsAssumption DEF Shape, Actors
    <3>. QED BY <2>1, <2>2, <3>1
  <2>4. Handles(t, event)
    BY <1>3, <2>2, EventHandled
  <2>. QED BY <2>3, <2>4 DEF ListenerTodo, CallbackTodo
<1>5. KernelHolds
  BY <1>2, KernelHasTurn DEF KTurn, NoStop
<1>6. /\ ~KTurn' /\ LTurn' /\ ~Past' /\ ~CTurn' /\ ~QTurn' /\ (\A o : ~Queued(o)')
      /\ Starts(ListenerTodo, "readRegisters")' /\ ~Tests(ListenerTodo)'
  <2>1. CTurn' <=> CTurn
    BY <1>2, <1>4, CallbackKept
  <2>2. LTurn' /\ ~Past' /\ Starts(ListenerTodo, "readRegisters")' /\ ~Tests(ListenerTodo)'
    BY <1>4 DEF Handles, LTurn, Past, Tests
  <2>3. (\A o : ~Queued(o)') /\ ~QTurn'
    BY <1>2, <1>5, QueueKept DEF KernelHolds
  <2>. QED BY <1>2, <1>3, <1>5, <2>1, <2>2, <2>3 DEF KernelHolds, KTurn, NoStop
<1>7. /\ \A k \in DOMAIN ListenerTodo' : ListenerTodo'[k].op \notin {"hit", "setDr6", "testDr6"}
      /\ ~Has(ListenerTodo, "hit")' /\ ~Has(ListenerTodo, "setDr6")'
      /\ ~Starts(ListenerTodo, "trap")' /\ ~Starts(ListenerTodo, "writeRegisters")'
      /\ ~Starts(ListenerTodo, "cont")' /\ ~Starts(ListenerTodo, "getRegs")'
      /\ ~Starts(ListenerTodo, "matchBreakPoint")' /\ ~Starts(ListenerTodo, "testDr6")'
      /\ ListenerTodo' # <<>>
  BY <1>4 DEF Handles, Has, Starts
<1>8. \A o : (Starts(CallbackTodo, o)' <=> Starts(CallbackTodo, o)) /\ (Has(CallbackTodo, o)' <=> Has(CallbackTodo, o))
  BY <1>4 DEF Starts, Has
<1>9. Told'
  BY <1>1, <1>2, <1>3, <1>4, <1>7 DEF Told, Handles
<1>10. Sent' /\ Base'
  BY <1>1, <1>2, <1>6, <1>7 DEF Sent, Base, KernelHolds, NoStop
<1>11. Turns'
  BY <1>1, <1>2, <1>5, <1>6 DEF Turns, KernelHolds
<1>12. Caches'
  BY <1>1, <1>2, <1>5, <1>6, <1>7 DEF Caches, KernelHolds
<1>13. WatchSeen' <=> event = "watch"
  BY <1>2, <1>3, <1>4, <1>6 DEF WatchSeen, Handles, Traps
<1>14. Dr6'
  BY <1>1, <1>2, <1>5, <1>6, <1>7, <1>13 DEF Dr6, KernelHolds
<1>15. Rip'
  <2>1. AtBreak' <=> AtBreak
    BY <1>2 DEF AtBreak
  <2>. QED BY <1>1, <1>2, <1>3, <1>5, <1>6, <1>7, <1>8, <2>1 DEF Rip, KernelHolds
<1>. QED BY <1>9, <1>10, <1>11, <1>12, <1>14, <1>15 DEF Turn

\* CONTINUED is to be recorded, and was already: nothing else would follow it.
LEMMA ReportHandled ==
  ASSUME Shape, Turn, ThreadEvent, event = "CONT", ~overtaken'
  PROVE  Turn'
<1>1. Told /\ Sent /\ Base /\ Turns /\ Caches /\ Dr6 /\ Rip
  BY DEF Turn
<1>2. /\ UNCHANGED <<run, reason, pending, rip, dr6, queue, callbacks, known, state, trapExp, regSync,
                     cRip, cDr6, futRegs, futDr6, peeked, spurious, aim>>
      /\ event = "CONT" /\ event' = "none" /\ known /\ ListenerTodo = <<>>
  BY DEF ThreadEvent, Collect, cacheVars, threadVars, ListenerTodo
<1>3. state = "CONTINUED"
  BY <1>1, <1>2 DEF ThreadEvent, Base
<1>4. ListenerTodo' = Report /\ UNCHANGED CallbackTodo
  <2>1. PICK bt \in Backtrace : todo' = [todo EXCEPT ![Listener] = HandleEvent(event, bt)]
    BY DEF ThreadEvent
  <2>2. HandleEvent(event, bt) = Report
    BY <1>2 DEF HandleEvent, Report
  <2>3. todo = [b \in Actors |-> todo[b]] /\ Listener \in Actors /\ Callback \in Actors \ {Listener}
    BY ActorsAssumption DEF Shape, Actors
  <2>. QED BY <2>1, <2>2, <2>3 DEF ListenerTodo, CallbackTodo
<1>5. PICK t : t = ListenerTodo'
  OBVIOUS
<1>6. /\ DOMAIN t = {1, 2} /\ t # <<>> /\ Len(t) = 2
      /\ t[1].op = "readRegisters" /\ t[2].op = "setState" /\ t[2].arg = "CONTINUED"
  <2>1. DOMAIN t = 1 .. 2
    BY <1>4, <1>5, ReportElements
  <2>. QED BY <1>4, <1>5, <2>1, ReportElements
<1>7. \A k \in {1, 2} : ~Hands(t, k) /\ (Sets(t, k) => Continued(t, k))
  BY <1>6 DEF Hands, Sets, Continued
<1>8. Orderly(t) /\ ~HandsOver(t) /\ ~Tests(t) /\ ~RecordsStop(t)
  <2>1. "readRegisters" \notin DOMAIN Before /\ "setState" \notin DOMAIN Before
    BY DEF Before
  <2>2. Orderly(t)
    BY <1>6, <1>7, <2>1 DEF Orderly
  <2>. QED BY <1>6, <1>7, <2>2 DEF HandsOver, Tests, RecordsStop, Sets, Continued
<1>9. /\ \A o : Has(ListenerTodo, o)' => o \in {"readRegisters", "setState"}
      /\ \A o : Starts(ListenerTodo, o)' => o = "readRegisters"
      /\ \A o : ~Has(ListenerTodo, o) /\ ~Starts(ListenerTodo, o)
      /\ \A o : (Starts(CallbackTodo, o)' <=> Starts(CallbackTodo, o)) /\ (Has(CallbackTodo, o)' <=> Has(CallbackTodo, o))
  BY <1>2, <1>4, <1>5, <1>6, ListenerEmpty DEF Has, Starts
<1>10. /\ ~LTurn /\ ~LTurn' /\ ~Tests(ListenerTodo)' /\ ~WatchSeen /\ ~WatchSeen'
       /\ (KTurn' <=> KTurn) /\ (CTurn' <=> CTurn) /\ (QTurn' <=> QTurn) /\ (\A o : Queued(o)' <=> Queued(o))
  <2>1. ~LTurn /\ ~LTurn' /\ ~Tests(ListenerTodo)'
    BY <1>2, <1>5, <1>8, OrderlyNone DEF LTurn
  <2>2. KTurn' <=> KTurn
    BY <1>2 DEF KTurn, NoStop
  <2>3. (CTurn' <=> CTurn) /\ (QTurn' <=> QTurn) /\ (\A o : Queued(o)' <=> Queued(o))
    BY <1>2, <1>4, CallbackKept, QueueKept
  <2>. QED BY <2>1, <2>2, <2>3 DEF WatchSeen
<1>11. ~CTurn /\ (KTurn \/ QTurn)
  BY <1>1, <1>3, <1>10 DEF Turns
<1>12. Told'
  <2>1. \A k \in DOMAIN t : t[k].op \in {"readRegisters", "setState"}
    BY <1>6
  <2>. QED BY <1>1, <1>4, <1>5, <1>8, <2>1 DEF Told
<1>13. Sent' /\ Base'
  BY <1>1, <1>2, <1>9, <1>10 DEF Sent, Base, NoStop
<1>14. Turns'
  BY <1>1, <1>2, <1>3, <1>4, <1>10, <1>11 DEF Turns
<1>15. Caches'
  BY <1>1, <1>2, <1>9, <1>10, <1>11 DEF Caches
<1>16. Dr6'
  <2>1. \A k \in DOMAIN ListenerTodo : FALSE
    BY <1>2, ListenerEmpty
  <2>. QED BY <1>1, <1>2, <1>9, <1>10, <2>1 DEF Dr6
<1>17. Rip'
  <2>1. AtBreak' <=> AtBreak
    BY <1>2 DEF AtBreak
  <2>2. \A k \in DOMAIN ListenerTodo' : ListenerTodo'[k].op # "hit"
    BY <1>5, <1>6
  <2>. QED BY <1>1, <1>2, <1>9, <1>10, <2>1, <2>2 DEF Rip
<1>. QED BY <1>12, <1>13, <1>14, <1>15, <1>16, <1>17 DEF Turn

LEMMA ThreadHandled ==
  ASSUME Shape, Kernel, Turn, run # "dead", ThreadEvent, ~overtaken'
  PROVE  Turn'
BY StopHandled, ReportHandled

-----------------------------------------------------------------------------
(* The thread's death.                                                     *)

\* A living thread dies: nothing else changes.
LEMMA ThreadDies ==
  ASSUME Shape, Turn, UNCHANGED <<todo, callbacks, rip>>, event' \in Ended
  PROVE  Lone'
<1>1. Told /\ Turns /\ Rip
  BY DEF Turn
<1>2. UNCHANGED <<ListenerTodo, CallbackTodo>> /\ IsSeq(CallbackTodo) /\ Driving(CallbackTodo)
  BY <1>1, ActorsAssumption DEF Told, Shape, Actors, ListenerTodo, CallbackTodo
<1>3. CTurn' <=> CTurn
  BY <1>2, CallbackKept
<1>4. Closing(ListenerTodo)
  BY <1>1 DEF Told, Orderly, Closing, LastOps
<1>5. Ending(CallbackTodo)
  BY <1>2 DEF Driving, Ending, Continued, Sets
<1>6. Parted
  BY <1>1, <1>4, <1>5 DEF Parted, Turns, Rip
<1>7. Closing(ListenerTodo)' /\ Ending(CallbackTodo)'
  BY <1>2, <1>4, <1>5 DEF Closing, Ending
<1>. QED BY <1>2, <1>3, <1>6, <1>7 DEF Lone, Parted

LEMMA EndingHas ==
  ASSUME NEW s, IsSeq(s), Ending(s)
  PROVE  /\ \A op : op # "setState" /\ (Has(s, op) \/ Starts(s, op)) => Has(s, "cont")
         /\ s # <<>> /\ s[1].op # "setState" => Has(s, "cont")
<1>1. s # <<>> => 1 \in DOMAIN s
  BY EmptySeqs
<1>2. DOMAIN s = 1 .. Len(s) /\ Len(s) \in Nat
  BY DEF IsSeq
<1>3. ASSUME NEW k \in DOMAIN s, s[k].op # "setState" PROVE Has(s, "cont")
  <2>1. s # <<>> /\ s[Len(s)].op = "setState"
    BY <1>2, <1>3 DEF Ending
  <2>2. Len(s) > 1 /\ Len(s) - 1 \in DOMAIN s
    BY <1>2, <1>3, <2>1
  <2>. QED BY <2>1, <2>2 DEF Ending, Has
<1>. QED BY <1>1, <1>3 DEF Has, Starts

LEMMA EndingTail ==
  ASSUME NEW s, NEW t, Rest(s, t), Ending(s)
  PROVE  Ending(t)
<1>1. /\ IsSeq(t) /\ Len(s) \in Nat \ {0} /\ DOMAIN s = 1 .. Len(s)
      /\ Len(t) = Len(s) - 1 /\ DOMAIN t = 1 .. Len(s) - 1
      /\ \A k \in DOMAIN t : k + 1 \in DOMAIN s /\ t[k] = s[k + 1]
  BY DEF Rest
<1>2. s[Len(s)].op = "setState" /\ (Len(s) > 1 => s[Len(s) - 1].op = "cont")
  BY DEF Rest, Ending
<1>3. t # <<>> => Len(t) > 0
  BY <1>1, EmptySeqs
<1>4. t # <<>> => t[Len(t)] = s[Len(s)]
  <2>1. t # <<>> => Len(t) \in DOMAIN t /\ Len(t) + 1 = Len(s)
    BY <1>1, <1>3
  <2>. QED BY <1>1, <2>1
<1>5. Len(t) > 1 => Len(s) > 1 /\ t[Len(t) - 1] = s[Len(s) - 1]
  <2>1. Len(t) > 1 => Len(t) - 1 \in DOMAIN t /\ (Len(t) - 1) + 1 = Len(s) - 1 /\ Len(s) > 1
    BY <1>1
  <2>. QED BY <1>1, <2>1
<1>. QED BY <1>1, <1>2, <1>4, <1>5 DEF Ending

\* BreakPoint's methods end as their callback does.
LEMMA EndingJump ==
  ASSUME NEW s, IsSeq(s), s # <<>>, Ending(s), s[1].op = "jumpBack", NEW addr
  PROVE  Ending(Jump(addr) \o Tail(s))
<1>0. PICK t : t = Jump(addr) \o Tail(s)
  OBVIOUS
<1>1. PICK n : n = Jump(addr)
  OBVIOUS
<1>2. /\ IsSeq(n) /\ Len(n) = 5 /\ DOMAIN n = 1 .. 5
      /\ n[1].op = "lock" /\ n[2].op = "readRegisters" /\ n[3].op = "getRegs"
      /\ n[4].op = "setRip" /\ n[5].op = "unlock"
  BY <1>1, JumpElements
<1>3. PICK u : u = Tail(s)
  OBVIOUS
<1>4. Rest(s, u)
  BY <1>3, Tailing
<1>5. Ending(u) /\ IsSeq(u)
  BY <1>4, EndingTail DEF Rest
<1>6. /\ IsSeq(n \o u) /\ Len(n \o u) = Len(n) + Len(u) /\ DOMAIN (n \o u) = 1 .. Len(n) + Len(u)
      /\ \A k \in 1 .. Len(n) : (n \o u)[k] = n[k]
      /\ \A k \in Len(n) + 1 .. Len(n) + Len(u) : (n \o u)[k] = u[k - Len(n)]
  BY <1>2, <1>5, Concat
<1>7. t = n \o u
  BY <1>0, <1>1, <1>3
<1>8. /\ Len(t) = 5 + Len(u) /\ DOMAIN t = 1 .. 5 + Len(u)
      /\ \A k \in 1 .. 5 : t[k] = n[k]
      /\ \A k \in 6 .. 5 + Len(u) : t[k] = u[k - 5]
  BY <1>2, <1>6, <1>7
<1>9. Len(s) > 2 /\ Len(u) = Len(s) - 1 /\ Len(s) \in Nat
  <2>1. s[Len(s)].op = "setState" /\ (Len(s) > 1 => s[Len(s) - 1].op = "cont")
    BY DEF Ending
  <2>2. Len(s) # 1 /\ Len(s) # 2
    <3>1. 2 - 1 = 1
      OBVIOUS
    <3>. QED BY <2>1, <3>1
  <2>. QED BY <1>4, <2>2 DEF Rest
<1>10. /\ Len(t) \in 6 .. 5 + Len(u) /\ Len(t) - 5 = Len(u)
       /\ Len(t) - 1 \in 6 .. 5 + Len(u) /\ (Len(t) - 1) - 5 = Len(u) - 1 /\ Len(u) > 1
  BY <1>8, <1>9
<1>11. t[Len(t)] = u[Len(u)] /\ t[Len(t) - 1] = u[Len(u) - 1] /\ u # <<>>
  BY <1>8, <1>10
<1>12. t[Len(t)].op = "setState" /\ t[Len(t) - 1].op = "cont"
  BY <1>5, <1>10, <1>11 DEF Ending
<1>13. ASSUME NEW k \in DOMAIN t
       PROVE  t[k].op \in CallbackOps \cup {"writeRegisters", "cont", "setState"}
  <2>1. CASE k \in 1 .. 5
    <3>1. k = 1 \/ k = 2 \/ k = 3 \/ k = 4 \/ k = 5
      BY <2>1
    <3>. QED BY <1>2, <1>8, <2>1, <3>1 DEF CallbackOps
  <2>2. CASE k \notin 1 .. 5
    <3>1. k \in 6 .. 5 + Len(u) /\ k - 5 \in 1 .. Len(u)
      BY <1>8, <1>9, <2>2
    <3>2. k - 5 \in DOMAIN u
      BY <1>5, <3>1 DEF IsSeq
    <3>. QED BY <1>5, <1>8, <3>1, <3>2 DEF Ending
  <2>. QED BY <2>1, <2>2
<1>. QED BY <1>0, <1>12, <1>13 DEF Ending

\* The listener goes on after the thread's death.
LEMMA ListenerLone ==
  ASSUME Shape, Lone, NEW op, At(Listener, op), NEW n, IsSeq(n), Goto(Listener, n), Closing(n),
         n # <<>> => op \in LastOps,
         UNCHANGED callbacks \/ (op = "hit" /\ n = <<>>),
         UNCHANGED <<rip, event>>
  PROVE  Lone'
<1>1. Listener \in Actors /\ Callback \in Actors \ {Listener}
  BY ActorsAssumption DEF Actors
<1>2. PICK s : s = ListenerTodo
  OBVIOUS
<1>3. s # <<>> /\ s[1].op = op /\ 1 \in DOMAIN s /\ IsSeq(s) /\ Closing(s)
  BY <1>1, <1>2, AtFirst DEF ListenerTodo, Shape, Lone, Parted
<1>4. PICK u : u = Tail(s)
  OBVIOUS
<1>5. Rest(s, u)
  BY <1>3, <1>4, Tailing
<1>6. /\ todo' = [todo EXCEPT ![Listener] = n \o Tail(todo[Listener])]
      /\ todo = [b \in Actors |-> todo[b]]
  BY DEF Goto, Shape
<1>7. ListenerTodo' = n \o u /\ UNCHANGED CallbackTodo
  BY <1>1, <1>2, <1>4, <1>6 DEF ListenerTodo, CallbackTodo
<1>8. op \in LastOps => u = <<>>
  <2>1. op \in LastOps => Len(s) = 1
    BY <1>3 DEF Closing
  <2>. QED BY <1>5, <2>1, RestOfOne
<1>9. n = <<>> => n \o u = u
  BY <1>5, IsSeqOfElements, ConcatEmptySeq DEF Rest
<1>10. op \in LastOps => n \o u = n
  BY <1>8, IsSeqOfElements, ConcatEmptySeq
<1>11. PICK t : t = ListenerTodo'
  OBVIOUS
<1>12. t = u \/ (op \in LastOps /\ t = n)
  BY <1>7, <1>9, <1>10, <1>11
<1>13. Closing(u)
  BY <1>3, <1>5 DEF Closing, Rest
<1>14. Closing(t)
  BY <1>12, <1>13
<1>15. CTurn => op \notin LastOps
  BY <1>2, <1>3 DEF Lone, Parted, LastOps
<1>16. UNCHANGED callbacks => (CTurn' <=> CTurn)
  BY <1>7, CallbackKept
<1>17. ~UNCHANGED callbacks => \A k \in DOMAIN t : FALSE
  BY <1>8, <1>12 DEF LastOps
<1>18. CTurn /\ op \notin LastOps => \A k \in DOMAIN t : t[k].op \in {"readRegisters", "setState"}
  BY <1>2, <1>5, <1>12 DEF Lone, Parted, Rest
<1>19. CTurn' => \A k \in DOMAIN t : t[k].op \in {"readRegisters", "setState"}
  BY <1>15, <1>16, <1>17, <1>18
<1>20. Ending(CallbackTodo)' /\ Closing(ListenerTodo)'
  BY <1>7, <1>11, <1>14 DEF Lone, Parted, Ending
<1>. QED BY <1>11, <1>19, <1>20 DEF Lone, Parted

\* The callback goes on after the thread's death.
LEMMA CallbackLone ==
  ASSUME Shape, Lone, NEW op, At(Callback, op), NEW n, Goto(Callback, n),
         n = <<>> \/ (op = "jumpBack" /\ \E addr : n = Jump(addr)),
         UNCHANGED <<callbacks, rip, event>>
  PROVE  Lone'
<1>1. Callback \in Actors /\ Listener \in Actors \ {Callback}
  BY ActorsAssumption DEF Actors
<1>2. PICK s : s = CallbackTodo
  OBVIOUS
<1>3. s # <<>> /\ s[1].op = op /\ 1 \in DOMAIN s /\ IsSeq(s) /\ Ending(s)
  BY <1>1, <1>2, AtFirst DEF CallbackTodo, Shape, Lone, Parted
<1>4. PICK u : u = Tail(s)
  OBVIOUS
<1>5. Rest(s, u)
  BY <1>3, <1>4, Tailing
<1>6. /\ todo' = [todo EXCEPT ![Callback] = n \o Tail(todo[Callback])]
      /\ todo = [b \in Actors |-> todo[b]]
  BY DEF Goto, Shape
<1>7. CallbackTodo' = n \o u /\ UNCHANGED ListenerTodo
  BY <1>1, <1>2, <1>4, <1>6 DEF ListenerTodo, CallbackTodo
<1>8. n = <<>> => n \o u = u
  BY <1>5, IsSeqOfElements, ConcatEmptySeq DEF Rest
<1>9. Ending(u) /\ (Has(u, "cont") => Has(s, "cont"))
  BY <1>3, <1>5, EndingTail, HasTail
<1>10. op = "jumpBack" => Has(s, "cont")
  <2>1. "jumpBack" # "setState"
    OBVIOUS
  <2>. QED BY <1>3, <2>1, EndingHas
<1>11. CASE n = <<>>
  <2>1. CallbackTodo' = u
    BY <1>7, <1>8, <1>11
  <2>2. CTurn' => CTurn
    BY <1>2, <1>9, <2>1 DEF CTurn
  <2>3. Ending(CallbackTodo)'
    BY <1>9, <2>1 DEF Ending
  <2>. QED BY <1>7, <2>2, <2>3 DEF Lone, Parted, Closing
<1>12. CASE op = "jumpBack" /\ \E addr : n = Jump(addr)
  <2>1. PICK addr : n = Jump(addr)
    BY <1>12
  <2>2. Ending(Jump(addr) \o Tail(s))
    BY <1>3, <1>12, EndingJump
  <2>3. PICK t : t = CallbackTodo'
    OBVIOUS
  <2>4. t = Jump(addr) \o Tail(s)
    BY <1>4, <1>7, <2>1, <2>3
  <2>5. Ending(t)
    BY <2>2, <2>4
  <2>6. Ending(CallbackTodo)'
    BY <2>3, <2>5 DEF Ending
  <2>7. CTurn
    BY <1>2, <1>10, <1>12 DEF CTurn
  <2>. QED BY <1>7, <2>6, <2>7 DEF Lone, Parted, Closing
<1>. QED BY <1>11, <1>12

\* What an actor does without calling a method.
Proceeds(a) ==
  \/ LockState(a) \/ UnlockState(a) \/ SetState(a)
  \/ Registers(a)
  \/ PushCont(a) \/ PushStep(a) \/ StepWait(a) \/ PushKill(a)
  \/ SetBreak(a) \/ UnsetBreak(a)

LEMMA Proceeding ==
  ASSUME NEW a, Proceeds(a)
  PROVE  /\ \E op : At(a, op) /\ Done(a)
         /\ UNCHANGED <<kernelVars, callbacks, done, spurious, known>>
<1>1. /\ LockState(a) \/ UnlockState(a) \/ SetState(a)
         => (\E op : At(a, op) /\ Done(a)) /\ UNCHANGED <<kernelVars, callbacks, done, spurious, known>>
  BY DEF LockState, UnlockState, SetState, threadVars, historyVars
<1>2. /\ ReadRegisters(a) \/ WriteRegisters(a) \/ GetRegs(a)
         => (\E op : At(a, op) /\ Done(a)) /\ UNCHANGED <<kernelVars, callbacks, done, spurious, known>>
  BY DEF ReadRegisters, WriteRegisters, WriteRegistersWith, GetRegs, threadVars, historyVars
<1>3. /\ GetDr6(a) \/ SetRipField(a) \/ SetDr6Field(a)
         => (\E op : At(a, op) /\ Done(a)) /\ UNCHANGED <<kernelVars, callbacks, done, spurious, known>>
  BY DEF GetDr6, SetRipField, SetDr6Field, threadVars, historyVars
<1>4. /\ PushCont(a) \/ PushStep(a) \/ StepWait(a) \/ PushKill(a)
         => (\E op : At(a, op) /\ Done(a)) /\ UNCHANGED <<kernelVars, callbacks, done, spurious, known>>
  BY DEF PushCont, PushStep, StepWait, PushKill, threadVars, historyVars
<1>5. /\ SetBreak(a) \/ UnsetBreak(a)
         => (\E op : At(a, op) /\ Done(a)) /\ UNCHANGED <<kernelVars, callbacks, done, spurious, known>>
  BY DEF SetBreak, UnsetBreak, threadVars, historyVars
<1>. QED BY <1>1, <1>2, <1>3, <1>4, <1>5 DEF Proceeds, Registers

\* The instructions that call methods, and those that handle a stop.
Calls(a) ==
  \/ \E op \in Waits : AwaitSucceeds(a, op) \/ AwaitBlocks(a, op) \/ AwaitTimesOut(a, op)
  \/ StopTest(a) \/ TerminateTest(a)

LEMMA Calling ==
  ASSUME NEW a, Calls(a)
  PROVE  \E op \in Waits \cup {"stopTest", "terminateTest"} : At(a, op)
BY DEF Calls, AwaitSucceeds, AwaitBlocks, AwaitTimesOut, StopTest, TerminateTest

LEMMA ActorGoes ==
  ASSUME NEW a, Go(a)
  PROVE  Proceeds(a) \/ Calls(a) \/ Handle(a) \/ JumpBack(a)
BY DEF Go, Advance, Synchronise, Control, Proceeds, Calls

LEMMA ListenerCalls ==
  ASSUME Shape, Go(Listener)
  PROVE  Proceeds(Listener) \/ Handle(Listener)
<1>1. Listener \in Actors
  BY DEF Actors
<1>2. ~Calls(Listener)
  <2>1. Calls(Listener) => \E op : At(Listener, op) /\ op \notin ListenerOps
    BY Calling DEF Waits, ListenerOps
  <2>. QED BY <1>1, <2>1, NotListener
<1>3. ~JumpBack(Listener)
  <2>1. JumpBack(Listener) => \E op : At(Listener, op) /\ op \notin ListenerOps
    BY DEF JumpBack, ListenerOps
  <2>. QED BY <1>1, <2>1, NotListener
<1>. QED BY <1>2, <1>3, ActorGoes

LEMMA CallbackCalls ==
  ASSUME Shape, Go(Callback),
         \A k \in DOMAIN CallbackTodo :
           CallbackTodo[k].op \in CallbackOps \cup {"writeRegisters", "cont", "setState"}
  PROVE  Proceeds(Callback) \/ JumpBack(Callback)
<1>1. Callback \in Actors
  BY DEF Actors
<1>2. \A op : At(Callback, op) => op \in CallbackOps \cup {"writeRegisters", "cont", "setState"}
  <2>1. ASSUME NEW op, At(Callback, op)
        PROVE  op \in CallbackOps \cup {"writeRegisters", "cont", "setState"}
    <3>1. 1 \in DOMAIN CallbackTodo /\ CallbackTodo[1].op = op
      BY <1>1, <2>1, AtFirst DEF Shape, CallbackTodo
    <3>. QED BY <3>1
  <2>. QED BY <2>1
<1>3. ~Calls(Callback)
  BY <1>2, Calling DEF Waits, CallbackOps
<1>4. ~Handle(Callback)
  <2>1. Handle(Callback) => \E op \in LastOps : At(Callback, op)
    BY DEF Handle, Trap, TrapThen, TestDr6, MatchBreakPoint, MatchBreakPointIn, Hit, LastOps
  <2>. QED BY <1>2, <2>1 DEF LastOps, CallbackOps
<1>. QED BY <1>3, <1>4, ActorGoes

LEMMA ListenerDead ==
  ASSUME Shape, Lone, Go(Listener)
  PROVE  Lone'
<1>1. CASE Proceeds(Listener)
  <2>1. PICK op : At(Listener, op) /\ Goto(Listener, <<>>)
    BY <1>1, Proceeding DEF Done
  <2>2. UNCHANGED <<callbacks, rip, event>>
    BY <1>1, Proceeding DEF kernelVars
  <2>3. IsSeq(<<>>) /\ Closing(<<>>)
    BY Empty DEF Closing
  <2>. QED BY <2>1, <2>2, <2>3, ListenerLone
<1>2. CASE Trap(Listener)
  <2>1. At(Listener, "trap") /\ UNCHANGED <<callbacks, rip, event>> /\ "trap" \in LastOps
    BY <1>2 DEF Trap, TrapThen, kernelVars, LastOps
  <2>2. PICK x : x = <<Arg(Listener), trapExp \/ Arg(Listener) = "clone">>
    OBVIOUS
  <2>3. PICK u : u = <<Op("readRegisters"), Instr("testDr6", x)>>
    OBVIOUS
  <2>4. /\ IsSeq(u) /\ Len(u) = 2 /\ DOMAIN u = 1 .. 2
        /\ u[1].op = "readRegisters" /\ u[2].op = "testDr6"
    BY <2>3, TestElements
  <2>5. \A k \in DOMAIN u : k = 1 \/ k = 2
    BY <2>4
  <2>6. Closing(u)
    BY <2>4, <2>5 DEF Closing, LastOps
  <2>7. <<>> \o u = u
    BY <2>4, IsSeqOfElements, ConcatEmptySeq
  <2>8. PICK v : v = CloneThen(x)
    OBVIOUS
  <2>9. /\ IsSeq(v) /\ Len(v) = 5 /\ DOMAIN v = 1 .. 5
        /\ v[1].op = "writeRegisters" /\ v[2].op = "cont" /\ Continued(v, 3)
        /\ v[4].op = "readRegisters" /\ v[5].op = "testDr6"
    BY <2>8, CloneElements
  <2>10. \A k \in DOMAIN v : k = 1 \/ k = 2 \/ k = 3 \/ k = 4 \/ k = 5
    BY <2>9
  <2>11. Closing(v)
    BY <2>9, <2>10 DEF Closing, LastOps, Continued, Sets
  <2>12. Goto(Listener, u) \/ Goto(Listener, v)
    <3>1. Goto(Listener, (IF Arg(Listener) \in {"clone"} THEN Resume("none") ELSE <<>>) \o u)
      BY <1>2, <2>2, <2>3 DEF Trap, TrapThen
    <3>2. Resume("none") \o u = v
      BY <2>3, <2>8 DEF CloneThen
    <3>. QED BY <2>7, <3>1, <3>2
  <2>. QED BY <2>1, <2>4, <2>6, <2>9, <2>11, <2>12, ListenerLone
<1>3. CASE TestDr6(Listener)
  <2>1. At(Listener, "testDr6") /\ UNCHANGED <<callbacks, rip, event>> /\ "testDr6" \in LastOps
    BY <1>3 DEF TestDr6, kernelVars, LastOps
  <2>2. \/ \E idx : Goto(Listener, WatchHit(idx))
        \/ Goto(Listener, <<>>) \/ Goto(Listener, Unhandled)
    BY <1>3 DEF TestDr6, WatchHit
  <2>3. CASE Goto(Listener, <<>>)
    <3>1. IsSeq(<<>>) /\ Closing(<<>>)
      BY Empty DEF Closing
    <3>. QED BY <2>1, <2>3, <3>1, ListenerLone
  <2>4. CASE Goto(Listener, Unhandled)
    <3>1. PICK t : t = Unhandled
      OBVIOUS
    <3>2. /\ IsSeq(t) /\ Len(t) = 3 /\ DOMAIN t = 1 .. 3
          /\ t[1].op = "readRegisters" /\ t[2].op = "getRegs" /\ t[3].op = "matchBreakPoint"
      BY <3>1, UnhandledElements
    <3>3. \A k \in DOMAIN t : k = 1 \/ k = 2 \/ k = 3
      BY <3>2
    <3>4. Closing(t)
      BY <3>2, <3>3 DEF Closing, LastOps
    <3>. QED BY <2>1, <2>4, <3>1, <3>2, <3>4, ListenerLone
  <2>5. CASE \E idx : Goto(Listener, WatchHit(idx))
    <3>0. PICK idx : Goto(Listener, WatchHit(idx))
      BY <2>5
    <3>1. PICK t : t = WatchHit(idx)
      OBVIOUS
    <3>2. /\ IsSeq(t) /\ Len(t) = 6 /\ DOMAIN t = 1 .. 6
          /\ t[1].op = "lock" /\ t[2].op = "readRegisters" /\ t[3].op = "getDr6"
          /\ t[4].op = "setDr6" /\ t[5].op = "unlock" /\ t[6].op = "hit"
      BY <3>1, WatchHitElements
    <3>3. \A k \in DOMAIN t : k = 1 \/ k = 2 \/ k = 3 \/ k = 4 \/ k = 5 \/ k = 6
      BY <3>2
    <3>4. Closing(t)
      BY <3>2, <3>3 DEF Closing, LastOps
    <3>. QED BY <2>1, <3>0, <3>1, <3>2, <3>4, ListenerLone
  <2>. QED BY <2>2, <2>3, <2>4, <2>5
<1>4. CASE MatchBreakPoint(Listener)
  <2>1. At(Listener, "matchBreakPoint") /\ UNCHANGED <<callbacks, rip, event>> /\ "matchBreakPoint" \in LastOps
    BY <1>4 DEF MatchBreakPoint, MatchBreakPointIn, kernelVars, LastOps
  <2>2. Goto(Listener, <<>>) \/ Goto(Listener, <<Instr("hit", "break")>>)
    BY <1>4 DEF MatchBreakPoint, MatchBreakPointIn
  <2>3. CASE Goto(Listener, <<>>)
    <3>1. IsSeq(<<>>) /\ Closing(<<>>)
      BY Empty DEF Closing
    <3>. QED BY <2>1, <2>3, <3>1, ListenerLone
  <2>4. CASE Goto(Listener, <<Instr("hit", "break")>>)
    <3>1. PICK t : t = <<Instr("hit", "break")>>
      OBVIOUS
    <3>2. IsSeq(t) /\ Len(t) = 1 /\ DOMAIN t = 1 .. 1
      BY <3>1, HitElements
    <3>4. Closing(t)
      BY <3>2 DEF Closing
    <3>. QED BY <2>1, <2>4, <3>1, <3>2, <3>4, ListenerLone
  <2>. QED BY <2>2, <2>3, <2>4
<1>5. CASE Hit(Listener)
  <2>1. At(Listener, "hit") /\ UNCHANGED <<rip, event>> /\ Goto(Listener, <<>>)
    BY <1>5 DEF Hit, Done, kernelVars
  <2>2. IsSeq(<<>>) /\ Closing(<<>>)
    BY Empty DEF Closing
  <2>. QED BY <2>1, <2>2, ListenerLone
<1>. QED BY <1>1, <1>2, <1>3, <1>4, <1>5, ListenerCalls DEF Handle

LEMMA CallbackDead ==
  ASSUME Shape, Lone, Go(Callback)
  PROVE  Lone'
<1>1. CASE Proceeds(Callback)
  <2>1. PICK op : At(Callback, op) /\ Goto(Callback, <<>>)
    BY <1>1, Proceeding DEF Done
  <2>2. UNCHANGED <<callbacks, rip, event>>
    BY <1>1, Proceeding DEF kernelVars
  <2>. QED BY <2>1, <2>2, CallbackLone
<1>2. CASE JumpBack(Callback)
  <2>1. PICK addr : Goto(Callback, Jump(addr))
    BY <1>2 DEF JumpBack
  <2>2. At(Callback, "jumpBack") /\ UNCHANGED <<callbacks, rip, event>>
    BY <1>2 DEF JumpBack, kernelVars
  <2>. QED BY <2>1, <2>2, CallbackLone
<1>. QED BY <1>1, <1>2, CallbackCalls DEF Lone, Parted, Ending

LEMMA OthersDead ==
  ASSUME MethodsOnly, DrivenByCallbacks, Shape, Lone, run = "dead",
         Thread \/ RunCommand \/ NewThread \/ ThreadEvent \/ BeginCallback
  PROVE  Lone'
<1>1. /\ Listener \in Actors /\ Callback \in Actors \ {Listener} /\ todo = [b \in Actors |-> todo[b]]
  BY ActorsAssumption DEF Actors, Shape
<1>2. CASE Thread
  BY <1>2 DEF Thread, ThreadStep, StepDone, Int3, SignalTaken, Spontaneous, Exits, ReportsContinued,
              StopFor, Executing
<1>3. ASSUME UNCHANGED <<ListenerTodo, CallbackTodo, rip>>, event' \in {event, "none"},
             UNCHANGED callbacks \/ ListenerTodo = <<>>
      PROVE  Lone'
  <2>1. UNCHANGED callbacks => (CTurn' <=> CTurn)
    BY <1>3, CallbackKept
  <2>2. Ending(CallbackTodo)' /\ Closing(ListenerTodo)'
    BY <1>3 DEF Lone, Parted, Ending, Closing
  <2>. QED BY <1>3, <2>1, <2>2 DEF Lone, Parted
<1>4. CASE RunCommand
  <2>1. UNCHANGED <<todo, callbacks, event, rip>>
    BY <1>4 DEF RunCommand, Ptrace, Accepts, Continue, SingleStepRequest, Kill, SetRip, SetDr6Request,
                Poke, kernelVars
  <2>. QED BY <1>3, <2>1 DEF ListenerTodo, CallbackTodo
<1>5. CASE NewThread
  BY <1>3, <1>5 DEF NewThread, Collect, ListenerTodo, CallbackTodo
<1>6. CASE ThreadEvent
  <2>1. event \in Ended /\ event' = "none" /\ UNCHANGED <<rip, callbacks>>
    BY <1>6 DEF ThreadEvent, Collect, Lone
  <2>2. PICK t : t = <<Op("readRegisters"), Instr("setState", event)>>
    OBVIOUS
  <2>3. ListenerTodo' = t /\ UNCHANGED CallbackTodo
    <3>1. PICK bt \in Backtrace : todo' = [todo EXCEPT ![Listener] = HandleEvent(event, bt)]
      BY <1>6 DEF ThreadEvent
    <3>2. HandleEvent(event, bt) = t
      BY <2>1, <2>2 DEF HandleEvent, Ended
    <3>. QED BY <1>1, <3>1, <3>2 DEF ListenerTodo, CallbackTodo
  <2>4. /\ DOMAIN t = 1 .. 2 /\ t[1].op = "readRegisters" /\ t[2].op = "setState"
    BY <2>1, <2>2, RecordsPair DEF Ended
  <2>5. \A k \in DOMAIN t : t[k].op \in {"readRegisters", "setState"}
    BY <2>4
  <2>6. Ending(CallbackTodo)' /\ Closing(ListenerTodo)'
    BY <2>3, <2>5 DEF Lone, Parted, Ending, Closing, LastOps
  <2>. QED BY <2>1, <2>3, <2>5, <2>6 DEF Lone, Parted
<1>7. CASE BeginCallback
  <2>1. callbacks # <<>> /\ UNCHANGED <<rip, event>>
    BY <1>7 DEF BeginCallback, kernelVars
  <2>2. Head(callbacks) \in Kinds
    BY <2>1 DEF Shape
  <2>3. PICK s \in CallbackScripts[Head(callbacks)] : todo' = [todo EXCEPT ![Callback] = s]
    BY <1>7 DEF BeginCallback
  <2>4. Driving(s) /\ IsSeq(s)
    BY <2>2, <2>3 DEF DrivenByCallbacks, MethodsOnly, Scripts, Methodical
  <2>5. Ending(s)
    BY <2>4 DEF Driving, Ending, Continued, Sets
  <2>6. CallbackTodo' = s /\ UNCHANGED ListenerTodo
    BY <1>1, <2>3 DEF ListenerTodo, CallbackTodo
  <2>7. Ending(CallbackTodo)' /\ Closing(ListenerTodo)'
    BY <2>5, <2>6 DEF Lone, Parted, Ending, Closing
  <2>. QED BY <2>1, <2>6, <2>7 DEF Lone, Parted, CTurn
<1>. QED BY <1>2, <1>4, <1>5, <1>6, <1>7

-----------------------------------------------------------------------------
(* All steps.                                                              *)

\* An actor's own steps change nothing of the thread.
LEMMA ActorsAside ==
  ASSUME NEW a, Go(a)
  PROVE  UNCHANGED kernelVars /\ (overtaken => overtaken')
<1>1. CASE Synchronise(a)
  <2>1. CASE SetState(a)
    <3>1. UNCHANGED kernelVars
      BY <2>1 DEF SetState
    <3>2. overtaken => overtaken'
      BY <2>1 DEF SetState
    <3>. QED BY <3>1, <3>2
  <2>2. CASE LockState(a) \/ UnlockState(a)
    BY <2>2 DEF LockState, UnlockState, historyVars
  <2>3. ASSUME NEW op \in Waits, AwaitSucceeds(a, op) \/ AwaitBlocks(a, op) \/ AwaitTimesOut(a, op)
        PROVE  UNCHANGED kernelVars /\ UNCHANGED overtaken
    BY <2>3 DEF AwaitSucceeds, AwaitBlocks, AwaitTimesOut, historyVars
  <2>. QED BY <1>1, <2>1, <2>2, <2>3 DEF Synchronise
<1>2. CASE Registers(a)
  BY <1>2 DEF Registers, ReadRegisters, WriteRegisters, WriteRegistersWith, GetRegs, GetDr6, SetRipField,
              SetDr6Field, historyVars
<1>3. CASE Control(a)
  BY <1>3 DEF Control, PushCont, PushStep, StepWait, StopTest, TerminateTest, PushKill, historyVars
<1>4. CASE Handle(a)
  BY <1>4 DEF Handle, Trap, TrapThen, TestDr6, MatchBreakPoint, MatchBreakPointIn, Hit, historyVars
<1>5. CASE JumpBack(a) \/ SetBreak(a) \/ UnsetBreak(a)
  BY <1>5 DEF JumpBack, SetBreak, UnsetBreak, historyVars
<1>. QED BY <1>1, <1>2, <1>3, <1>4, <1>5 DEF Go, Advance

LEMMA OthersOvertake ==
  ASSUME Thread \/ RunCommand \/ NewThread \/ ThreadEvent \/ BeginCallback
  PROVE  overtaken => overtaken'
BY DEF Thread, RunCommand, NewThread, ThreadEvent, BeginCallback, historyVars

\* The steps there are when only callbacks use the thread.
LEMMA CallbacksSteps ==
  ASSUME Users = {}, Next
  PROVE  \/ Thread \/ RunCommand \/ NewThread \/ ThreadEvent \/ BeginCallback
         \/ Go(Listener) \/ Go(Callback)
<1>1. Actors = {Listener, Callback}
  BY DEF Actors
<1>. QED BY <1>1 DEF Next, ThreadNext, Go

LEMMA ListenerLive ==
  ASSUME Shape, Kernel, Turn, run # "dead", ~overtaken', Go(Listener)
  PROVE  Turn'
<1>1. Listener \in Actors
  BY DEF Actors
<1>2. CASE LockState(Listener)
  <2>1. /\ "lock" \in {"lock", "unlock"} /\ At(Listener, "lock") /\ Done(Listener)
        /\ UNCHANGED <<kernelVars, threadVars, cacheVars, queue, callbacks, spurious, aim>>
    BY <1>2 DEF LockState, historyVars
  <2>. QED BY <2>1, ListenerLocks
<1>3. CASE UnlockState(Listener)
  <2>1. /\ "unlock" \in {"lock", "unlock"} /\ At(Listener, "unlock") /\ Done(Listener)
        /\ UNCHANGED <<kernelVars, threadVars, cacheVars, queue, callbacks, spurious, aim>>
    BY <1>3 DEF UnlockState, historyVars
  <2>. QED BY <2>1, ListenerLocks
<1>4. CASE SetState(Listener)
  BY <1>4, ListenerSetsState
<1>5. CASE Registers(Listener)
  <2>1. ~SetRipField(Listener)
    <3>1. SetRipField(Listener) => At(Listener, "setRip")
      BY DEF SetRipField
    <3>. QED BY <1>1, <3>1, NotListener DEF ListenerOps
  <2>. QED BY <1>5, <2>1, ListenerReads, ListenerWrites, ListenerGetsRegs, ListenerGetsDr6, ListenerSetsDr6
           DEF Registers
<1>6. CASE PushCont(Listener)
  BY <1>6, ListenerConts
<1>7. ~(PushStep(Listener) \/ StepWait(Listener) \/ PushKill(Listener) \/ SetBreak(Listener) \/ UnsetBreak(Listener))
  <2>1. PushStep(Listener) \/ StepWait(Listener) \/ PushKill(Listener) \/ SetBreak(Listener) \/ UnsetBreak(Listener)
          => \E op : At(Listener, op) /\ op \notin ListenerOps
    BY DEF PushStep, StepWait, PushKill, SetBreak, UnsetBreak, ListenerOps
  <2>. QED BY <1>1, <2>1, NotListener
<1>8. CASE Handle(Listener)
  BY <1>8, ListenerTraps, ListenerTests, ListenerMatches, ListenerHits DEF Handle
<1>. QED BY <1>2, <1>3, <1>4, <1>5, <1>6, <1>7, <1>8, ListenerCalls DEF Proceeds

LEMMA CallbackLive ==
  ASSUME Shape, Turn, Go(Callback)
  PROVE  Turn'
<1>1. Callback \in Actors
  BY DEF Actors
<1>2. \A k \in DOMAIN CallbackTodo : CallbackTodo[k].op \in CallbackOps \cup {"writeRegisters", "cont", "setState"}
  BY DEF Turn, Told, Driving
<1>3. \A op : At(Callback, op) => op \in CallbackOps \cup {"writeRegisters", "cont", "setState"}
  <2>1. ASSUME NEW op, At(Callback, op)
        PROVE  op \in CallbackOps \cup {"writeRegisters", "cont", "setState"}
    <3>1. 1 \in DOMAIN CallbackTodo /\ CallbackTodo[1].op = op
      BY <1>1, <2>1, AtFirst DEF Shape, CallbackTodo
    <3>. QED BY <1>2, <3>1
  <2>. QED BY <2>1
<1>4. ~(GetDr6(Callback) \/ SetDr6Field(Callback) \/ PushStep(Callback) \/ StepWait(Callback) \/ PushKill(Callback))
  BY <1>3 DEF GetDr6, SetDr6Field, PushStep, StepWait, PushKill, CallbackOps
<1>. QED BY <1>2, <1>4, CallbackCalls, CallbackLocks, CallbackUnlocks, CallbackSetsState, CallbackReads,
            CallbackWrites, CallbackGetsRegs, CallbackSetsRip, CallbackConts, CallbackSetsBreak,
            CallbackJumpsBack
         DEF Proceeds, Registers

LEMMA CommandLive ==
  ASSUME Shape, Turn, run # "dead", RunCommand
  PROVE  IF run' = "dead" THEN Lone' ELSE Turn'
<1>1. CASE Head(queue).op = "CONT"
  <2>1. Continue(Head(queue).arg) /\ UNCHANGED <<todo, callbacks>>
    BY <1>1 DEF RunCommand, Ptrace
  <2>2. run' = "dead" => UNCHANGED rip /\ event' \in Ended
    BY <2>1 DEF Continue, kernelVars, Ended
  <2>3. run' = "dead" => Lone'
    BY <2>1, <2>2, ThreadDies
  <2>. QED BY <1>1, <2>3, ContRuns
<1>2. CASE Head(queue).op # "CONT"
  <2>1. run' # "dead"
    BY <1>2 DEF RunCommand, Ptrace, SingleStepRequest, Kill, SetRip, SetDr6Request, Poke, kernelVars
  <2>. QED BY <1>2, <2>1, OthersRun
<1>. QED BY <1>1, <1>2

LEMMA ThreadLive ==
  ASSUME Shape, Kernel, Turn, run # "dead", Thread
  PROVE  IF run' = "dead" THEN Lone' ELSE Turn'
<1>1. run' = "dead" => Exits
  BY DEF Thread, ThreadStep, StepDone, Int3, SignalTaken, Spontaneous, ReportsContinued, StopFor
<1>2. run' = "dead" => event' \in Ended /\ UNCHANGED <<todo, callbacks, rip>>
  BY <1>1 DEF Exits, Thread, Ended
<1>. QED BY <1>2, ThreadDies, ThreadStops

(* No step breaks the third invariant.                                     *)
LEMMA NextTInv ==
  ASSUME MethodsOnly, DrivenByCallbacks, IInv, TInv, [Next]_allVars
  PROVE  TInv'
<1>1. Shape /\ Kernel /\ Users = {}
  BY DEF IInv, DrivenByCallbacks
<1>2. CASE UNCHANGED allVars
  <2>1. UNCHANGED <<vars, ListenerTodo, CallbackTodo>>
    BY <1>2 DEF allVars, vars, ListenerTodo, CallbackTodo
  <2>2. (CTurn' <=> CTurn) /\ (KTurn' <=> KTurn) /\ (QTurn' <=> QTurn) /\ (LTurn' <=> LTurn)
        /\ (Past' <=> Past) /\ (WatchSeen' <=> WatchSeen) /\ (AtBreak' <=> AtBreak)
        /\ \A o : Queued(o)' <=> Queued(o)
    BY <2>1 DEF vars, kernelVars, cacheVars, threadVars, CTurn, KTurn, QTurn, LTurn, Past, WatchSeen, AtBreak, Queued
  <2>3. Told' <=> Told
    BY <2>1 DEF vars, kernelVars, Told
  <2>4. Sent' <=> Sent
    BY <2>1, <2>2 DEF vars, cacheVars, Sent
  <2>5. Base' <=> Base
    BY <2>1 DEF vars, kernelVars, threadVars, historyVars, Base
  <2>6. Turns' <=> Turns
    BY <2>1, <2>2 DEF vars, kernelVars, threadVars, Turns
  <2>7. Caches' <=> Caches
    BY <2>1, <2>2 DEF vars, threadVars, Caches
  <2>8. Dr6' <=> Dr6
    BY <2>1, <2>2 DEF vars, kernelVars, threadVars, cacheVars, Dr6
  <2>9. Rip' <=> Rip
    BY <2>1, <2>2 DEF vars, kernelVars, threadVars, cacheVars, historyVars, Rip
  <2>10. Lone' <=> Lone
    BY <2>1, <2>2 DEF vars, kernelVars, Lone, Parted
  <2>. QED BY <2>1, <2>3, <2>4, <2>5, <2>6, <2>7, <2>8, <2>9, <2>10
           DEF vars, kernelVars, historyVars, TInv, Turn
<1>3. CASE Next
  <2>1. overtaken => overtaken'
    BY <1>1, <1>3, CallbacksSteps, ActorsAside, OthersOvertake
  <2>. SUFFICES ASSUME ~overtaken, ~overtaken' PROVE IF run' = "dead" THEN Lone' ELSE Turn'
    BY <2>1 DEF TInv
  <2>2. CASE run = "dead"
    <3>1. Lone
      BY <2>2 DEF TInv
    <3>2. CASE Go(Listener) \/ Go(Callback)
      BY <1>1, <2>2, <3>1, <3>2, ActorsAside, ListenerDead, CallbackDead DEF kernelVars
    <3>3. CASE Thread \/ RunCommand \/ NewThread \/ ThreadEvent \/ BeginCallback
      <4>1. run' = "dead"
        BY <2>2, <3>3 DEF Thread, ThreadStep, StepDone, Int3, SignalTaken, Spontaneous, Exits,
              ReportsContinued, StopFor, Executing,
              RunCommand, Ptrace, Continue, Accepts, SingleStepRequest, Kill, SetRip, SetDr6Request, Poke,
              NewThread, ThreadEvent, Collect, BeginCallback, kernelVars
      <4>. QED BY <1>1, <2>2, <3>1, <3>3, <4>1, OthersDead
    <3>. QED BY <1>1, <1>3, <3>2, <3>3, CallbacksSteps
  <2>3. CASE run # "dead"
    <3>1. Turn
      BY <2>3 DEF TInv
    <3>2. CASE Go(Listener) \/ Go(Callback)
      BY <1>1, <2>3, <3>1, <3>2, ActorsAside, ListenerLive, CallbackLive DEF kernelVars
    <3>3. CASE Thread \/ RunCommand
      BY <1>1, <2>3, <3>1, <3>3, ThreadLive, CommandLive
    <3>4. CASE NewThread \/ ThreadEvent \/ BeginCallback
      <4>1. UNCHANGED run
        BY <3>4 DEF NewThread, ThreadEvent, Collect, BeginCallback, kernelVars
      <4>. QED BY <1>1, <2>3, <3>1, <3>4, <4>1, ThreadBegins, ThreadHandled, CallbackBegins
    <3>. QED BY <1>1, <1>3, <3>2, <3>3, <3>4, CallbacksSteps
  <2>. QED BY <2>2, <2>3
<1>. QED BY <1>2, <1>3

-----------------------------------------------------------------------------
(* The scripts of the runs.                                                *)

\* What a callback may do before the rest, which resumes the thread.
Opening(p) ==
  \A k \in DOMAIN p :
    /\ p[k].op \in CallbackOps
    /\ p[k].op = "getRegs" => k > 1 /\ p[k - 1].op = "readRegisters"
    /\ p[k].op = "setRip" => /\ p[k].arg \notin {"wild", "none"}
                             /\ k > 1 /\ p[k - 1].op = "getRegs"
    /\ p[k].op = "jumpBack" => \A j \in DOMAIN p : j < k => p[j].op \notin {"jumpBack", "setRip"}

Drives(s) == IsSeq(s) /\ Driving(s) /\ Len(s) > 2 /\ s[1].op \notin {"getRegs", "setRip"}

LEMMA DrivesConcat ==
  ASSUME NEW p, IsSeq(p), Opening(p), NEW s, Drives(s),
         Has(s, "jumpBack") => ~Has(p, "jumpBack") /\ ~Has(p, "setRip")
  PROVE  /\ Drives(p \o s)
         /\ \A op : Has(p \o s, op) => Has(p, op) \/ Has(s, op)
<1>1. PICK t : t = p \o s
  OBVIOUS
<1>2. /\ IsSeq(t) /\ Len(t) = Len(p) + Len(s) /\ DOMAIN t = 1 .. Len(p) + Len(s)
      /\ \A k \in 1 .. Len(p) : t[k] = p[k]
      /\ \A k \in Len(p) + 1 .. Len(p) + Len(s) : t[k] = s[k - Len(p)]
      /\ Len(p) \in Nat /\ DOMAIN p = 1 .. Len(p) /\ Len(s) \in Nat /\ DOMAIN s = 1 .. Len(s)
      /\ Len(s) > 2
  <2>1. IsSeq(s) /\ Len(s) > 2
    BY DEF Drives
  <2>2. /\ IsSeq(t) /\ Len(t) = Len(p) + Len(s) /\ DOMAIN t = 1 .. Len(p) + Len(s)
        /\ \A k \in 1 .. Len(p) : t[k] = p[k]
        /\ \A k \in Len(p) + 1 .. Len(p) + Len(s) : t[k] = s[k - Len(p)]
    BY <1>1, <2>1, Concat
  <2>. QED BY <2>1, <2>2 DEF IsSeq
<1>3. ASSUME NEW k \in DOMAIN t
      PROVE  \/ /\ k \in DOMAIN p /\ t[k] = p[k]
                /\ \A j \in DOMAIN t : j < k => j \in DOMAIN p /\ t[j] = p[j]
             \/ /\ k - Len(p) \in DOMAIN s /\ t[k] = s[k - Len(p)]
                /\ k - Len(p) > 1 => t[k - 1] = s[(k - Len(p)) - 1]
                /\ \A j \in DOMAIN t : j < k =>
                     \/ j \in DOMAIN p /\ t[j] = p[j]
                     \/ j - Len(p) \in DOMAIN s /\ t[j] = s[j - Len(p)] /\ j - Len(p) < k - Len(p)
  <2>1. CASE k <= Len(p)
    BY <1>2, <2>1
  <2>2. CASE k > Len(p)
    <3>1. k - Len(p) \in DOMAIN s /\ t[k] = s[k - Len(p)]
      BY <1>2, <2>2
    <3>2. k - Len(p) > 1 => t[k - 1] = s[(k - Len(p)) - 1]
      <4>1. k - Len(p) > 1 => /\ k - 1 \in Len(p) + 1 .. Len(p) + Len(s)
                              /\ (k - 1) - Len(p) = (k - Len(p)) - 1
        BY <1>2
      <4>. QED BY <1>2, <4>1
    <3>3. ASSUME NEW j \in DOMAIN t, j < k
          PROVE  \/ j \in DOMAIN p /\ t[j] = p[j]
                 \/ j - Len(p) \in DOMAIN s /\ t[j] = s[j - Len(p)] /\ j - Len(p) < k - Len(p)
      BY <1>2, <3>3
    <3>. QED BY <3>1, <3>2, <3>3
  <2>. QED BY <1>2, <2>1, <2>2
<1>4. \A op : Has(t, op) => Has(p, op) \/ Has(s, op)
  BY <1>3 DEF Has
<1>5. t # <<>> => Continued(t, Len(t)) /\ (Len(t) > 1 => t[Len(t) - 1].op = "cont")
  <2>1. s # <<>>
    BY <1>2
  <2>2. t[Len(t)] = s[Len(s)] /\ t[Len(t) - 1] = s[Len(s) - 1]
    <3>1. /\ Len(t) \in Len(p) + 1 .. Len(p) + Len(s) /\ Len(t) - Len(p) = Len(s)
          /\ Len(t) - 1 \in Len(p) + 1 .. Len(p) + Len(s) /\ (Len(t) - 1) - Len(p) = Len(s) - 1
      BY <1>2
    <3>. QED BY <1>2, <3>1
  <2>. QED BY <1>2, <2>1, <2>2 DEF Drives, Driving, Continued, Sets
<1>6. ASSUME NEW k \in DOMAIN t, k \in DOMAIN p, t[k] = p[k],
             \A j \in DOMAIN t : j < k => j \in DOMAIN p /\ t[j] = p[j]
      PROVE  /\ t[k].op \in CallbackOps
             /\ t[k].op = "getRegs" /\ k > 1 => t[k - 1].op = "readRegisters"
             /\ t[k].op = "setRip" => /\ t[k].arg \notin {"wild", "none"}
                                      /\ k > 1 => t[k - 1].op = "getRegs"
             /\ t[k].op = "jumpBack" => \A j \in DOMAIN t : j < k => t[j].op \notin {"jumpBack", "setRip"}
  <2>1. k > 1 => k - 1 \in DOMAIN t /\ k - 1 < k
    BY <1>2
  <2>2. k > 1 => t[k - 1] = p[k - 1]
    BY <1>6, <2>1
  <2>. QED BY <1>6, <2>2 DEF Opening
<1>7. ASSUME NEW k \in DOMAIN t, NEW i \in DOMAIN s, i = k - Len(p), t[k] = s[i],
             i > 1 => t[k - 1] = s[i - 1],
             \A j \in DOMAIN t : j < k =>
               \/ j \in DOMAIN p /\ t[j] = p[j]
               \/ j - Len(p) \in DOMAIN s /\ t[j] = s[j - Len(p)] /\ j - Len(p) < i
      PROVE  /\ t[k].op \in CallbackOps \cup {"writeRegisters", "cont", "setState"}
             /\ t[k].op = "setState" => k = Len(t)
             /\ t[k].op = "cont" => k + 1 = Len(t) /\ (k > 1 => t[k - 1].op = "writeRegisters")
             /\ t[k].op = "writeRegisters" => k + 2 = Len(t)
             /\ t[k].op = "getRegs" /\ k > 1 => t[k - 1].op = "readRegisters"
             /\ t[k].op = "setRip" => /\ t[k].arg \notin {"wild", "none"}
                                      /\ k > 1 => t[k - 1].op = "getRegs"
             /\ t[k].op = "jumpBack" => \A j \in DOMAIN t : j < k => t[j].op \notin {"jumpBack", "setRip"}
  <2>1. /\ s[i].op \in CallbackOps \cup {"writeRegisters", "cont", "setState"}
        /\ s[i].op = "setState" => i = Len(s)
        /\ s[i].op = "cont" => i + 1 = Len(s) /\ (i > 1 => s[i - 1].op = "writeRegisters")
        /\ s[i].op = "writeRegisters" => i + 2 = Len(s)
        /\ s[i].op = "getRegs" /\ i > 1 => s[i - 1].op = "readRegisters"
        /\ s[i].op = "setRip" => /\ s[i].arg \notin {"wild", "none"}
                                 /\ i > 1 => s[i - 1].op = "getRegs"
        /\ s[i].op = "jumpBack" => \A j \in DOMAIN s : j < i => s[j].op \notin {"jumpBack", "setRip"}
    BY DEF Drives, Driving
  <2>2. i = 1 => s[i].op \notin {"getRegs", "setRip", "cont"}
    <3>1. i = 1 => s[i].op \notin {"getRegs", "setRip"}
      BY DEF Drives
    <3>2. i = 1 => s[i].op # "cont"
      BY <1>2, <2>1
    <3>. QED BY <3>1, <3>2
  <2>3. i = 1 \/ i > 1
    BY <1>2
  <2>4. /\ i = Len(s) => k = Len(t)
        /\ i + 1 = Len(s) => k + 1 = Len(t)
        /\ i + 2 = Len(s) => k + 2 = Len(t)
    <3>1. i \in Nat /\ k \in Nat
      BY <1>2
    <3>2. Len(p) \in Nat /\ Len(s) \in Nat /\ Len(t) = Len(p) + Len(s)
      BY <1>2
    <3>3. i = k - Len(p)
      BY <1>7
    <3>4. \A a, b, c, d \in Nat : a = b - c =>
            \A n : n = c + d => /\ a = d => b = n
                                /\ a + 1 = d => b + 1 = n
                                /\ a + 2 = d => b + 2 = n
      OBVIOUS
    <3>. QED BY <3>1, <3>2, <3>3, <3>4
  <2>5. t[k].op = "jumpBack" => \A j \in DOMAIN t : j < k => t[j].op \notin {"jumpBack", "setRip"}
    <3>1. t[k].op = "jumpBack" => Has(s, "jumpBack")
      BY <1>7 DEF Has
    <3>2. t[k].op = "jumpBack" => \A j \in DOMAIN p : p[j].op \notin {"jumpBack", "setRip"}
      BY <3>1 DEF Has
    <3>. QED BY <1>7, <2>1, <3>2
  <2>. QED BY <1>7, <2>1, <2>2, <2>3, <2>4, <2>5
<1>8. Driving(t)
  <2>1. ASSUME NEW k \in DOMAIN t
        PROVE  /\ t[k].op \in CallbackOps \cup {"writeRegisters", "cont", "setState"}
               /\ t[k].op = "setState" => k = Len(t)
               /\ t[k].op = "cont" => k + 1 = Len(t) /\ (k > 1 => t[k - 1].op = "writeRegisters")
               /\ t[k].op = "writeRegisters" => k + 2 = Len(t)
               /\ t[k].op = "getRegs" /\ k > 1 => t[k - 1].op = "readRegisters"
               /\ t[k].op = "setRip" => /\ t[k].arg \notin {"wild", "none"}
                                        /\ k > 1 => t[k - 1].op = "getRegs"
               /\ t[k].op = "jumpBack" => \A j \in DOMAIN t : j < k => t[j].op \notin {"jumpBack", "setRip"}
    <3>1. CASE /\ k \in DOMAIN p /\ t[k] = p[k]
               /\ \A j \in DOMAIN t : j < k => j \in DOMAIN p /\ t[j] = p[j]
      <4>1. t[k].op \notin {"writeRegisters", "cont", "setState"}
        BY <1>6, <3>1 DEF CallbackOps
      <4>. QED BY <1>6, <3>1, <4>1
    <3>2. CASE /\ k - Len(p) \in DOMAIN s /\ t[k] = s[k - Len(p)]
               /\ k - Len(p) > 1 => t[k - 1] = s[(k - Len(p)) - 1]
               /\ \A j \in DOMAIN t : j < k =>
                    \/ j \in DOMAIN p /\ t[j] = p[j]
                    \/ j - Len(p) \in DOMAIN s /\ t[j] = s[j - Len(p)] /\ j - Len(p) < k - Len(p)
      BY <1>7, <3>2
    <3>. QED BY <1>3, <3>1, <3>2
  <2>. QED BY <1>5, <2>1 DEF Driving
<1>9. t[1].op \notin {"getRegs", "setRip"}
  <2>1. CASE Len(p) = 0
    <3>1. t[1] = s[1]
      BY <1>2, <2>1
    <3>. QED BY <3>1 DEF Drives
  <2>2. CASE Len(p) > 0
    <3>1. t[1] = p[1] /\ 1 \in DOMAIN p /\ ~(1 > 1)
      BY <1>2, <2>2
    <3>. QED BY <3>1 DEF Opening
  <2>. QED BY <1>2, <2>1, <2>2
<1>. QED BY <1>1, <1>2, <1>4, <1>8, <1>9 DEF Drives

LEMMA ResumeDrives == \A sig : Drives(Resume(sig)) /\ ~Has(Resume(sig), "jumpBack")
<1>. SUFFICES ASSUME NEW sig, NEW s, s = Resume(sig) PROVE Drives(s) /\ ~Has(s, "jumpBack")
  OBVIOUS
<1>1. IsSeq(s) /\ Len(s) = 3 /\ DOMAIN s = 1 .. 3
      /\ s[1].op = "writeRegisters" /\ s[2].op = "cont" /\ s[3].op = "setState" /\ s[3].arg = "CONTINUED"
  <2> DEFINE S == {Op("writeRegisters"), Instr("cont", sig), Instr("setState", "CONTINUED")}
  <2>1. /\ s \in Seq(S) /\ Len(s) = 3
        /\ s[1] = Op("writeRegisters") /\ s[2] = Instr("cont", sig) /\ s[3] = Instr("setState", "CONTINUED")
    BY DEF Resume
  <2>2. IsSeq(s)
    <3>. HIDE DEF S
    <3>. QED BY <2>1, AnySeq
  <2>. QED BY <2>1, <2>2 DEF IsSeq, Op, Instr
<1>2. \A k \in DOMAIN s : k = 1 \/ k = 2 \/ k = 3
  BY <1>1
<1>. QED BY <1>1, <1>2 DEF Drives, Driving, Has, Continued, Sets

LEMMA OpeningMethods ==
  /\ IsSeq(GetRip) /\ Opening(GetRip)
  /\ \A addr : IsSeq(Jump(addr)) /\ (addr \notin {"wild", "none"} => Opening(Jump(addr)))
  /\ \A op \in CallbackOps \ {"getRegs", "setRip"} : IsSeq(<<Op(op)>>) /\ Opening(<<Op(op)>>)
<1>1. IsSeq(GetRip) /\ Opening(GetRip)
  <2>1. PICK s : s = GetRip
    OBVIOUS
  <2>2. s \in Seq({Op("readRegisters"), Op("getRegs")}) /\ Len(s) = 2
        /\ s[1] = Op("readRegisters") /\ s[2] = Op("getRegs")
    BY <2>1 DEF GetRip
  <2>3. IsSeq(s)
    BY <2>2, AnySeq
  <2>4. DOMAIN s = {1, 2} /\ s[1].op = "readRegisters" /\ s[2].op = "getRegs"
    BY <2>2, <2>3 DEF IsSeq, Op, Instr
  <2>. QED BY <2>1, <2>3, <2>4 DEF Opening, CallbackOps
<1>2. ASSUME NEW addr PROVE IsSeq(Jump(addr)) /\ (addr \notin {"wild", "none"} => Opening(Jump(addr)))
  <2>1. PICK s : s = Jump(addr)
    OBVIOUS
  <2>2. /\ IsSeq(s) /\ Len(s) = 5 /\ DOMAIN s = 1 .. 5
        /\ s[1].op = "lock" /\ s[2].op = "readRegisters" /\ s[3].op = "getRegs"
        /\ s[4].op = "setRip" /\ s[4].arg = addr /\ s[5].op = "unlock"
    BY <2>1, JumpElements
  <2>3. \A k \in DOMAIN s : k = 1 \/ k = 2 \/ k = 3 \/ k = 4 \/ k = 5
    BY <2>2
  <2>4. addr \notin {"wild", "none"} => Opening(s)
    BY <2>2, <2>3 DEF Opening, CallbackOps
  <2>. QED BY <2>1, <2>2, <2>4
<1>3. ASSUME NEW op \in CallbackOps \ {"getRegs", "setRip"} PROVE IsSeq(<<Op(op)>>) /\ Opening(<<Op(op)>>)
  <2>1. PICK s : s = <<Op(op)>>
    OBVIOUS
  <2>2. s \in Seq({Op(op)}) /\ Len(s) = 1 /\ s[1] = Op(op)
    BY <2>1
  <2>3. IsSeq(s)
    BY <2>2, AnySeq
  <2>4. DOMAIN s = {1} /\ s[1].op = op
    BY <2>2, <2>3 DEF IsSeq, Op, Instr
  <2>. QED BY <2>1, <2>3, <2>4 DEF Opening
<1>. QED BY <1>1, <1>2, <1>3

LEMMA HasMethods ==
  /\ ~Has(GetRip, "jumpBack") /\ ~Has(GetRip, "setRip")
  /\ \A addr : ~Has(Jump(addr), "jumpBack")
  /\ \A op, o : Has(<<Op(op)>>, o) => o = op
<1>1. ~Has(GetRip, "jumpBack") /\ ~Has(GetRip, "setRip")
  <2>1. PICK s : s = GetRip
    OBVIOUS
  <2>2. Len(s) = 2 /\ DOMAIN s = {1, 2} /\ s[1].op = "readRegisters" /\ s[2].op = "getRegs"
    BY <2>1 DEF GetRip, Op, Instr
  <2>. QED BY <2>1, <2>2 DEF Has
<1>2. ASSUME NEW addr PROVE ~Has(Jump(addr), "jumpBack")
  <2>1. PICK s : s = Jump(addr)
    OBVIOUS
  <2>2. /\ DOMAIN s = 1 .. 5
        /\ s[1].op = "lock" /\ s[2].op = "readRegisters" /\ s[3].op = "getRegs"
        /\ s[4].op = "setRip" /\ s[5].op = "unlock"
    BY <2>1, JumpElements
  <2>3. \A k \in DOMAIN s : k = 1 \/ k = 2 \/ k = 3 \/ k = 4 \/ k = 5
    BY <2>2
  <2>. QED BY <2>1, <2>2, <2>3 DEF Has
<1>3. ASSUME NEW op, NEW o, Has(<<Op(op)>>, o) PROVE o = op
  BY <1>3 DEF Has, Op, Instr
<1>. QED BY <1>1, <1>2, <1>3

\* The callbacks of test/ThreadIdentification, and of test/BasicTest for a
\* new thread, drive the thread.
LEMMA CreatedDrive == \A s \in Created : Drives(s) /\ ~Has(s, "jumpBack") /\ Methodical(s)
<1>1. Drives(Resume("none")) /\ ~Has(Resume("none"), "jumpBack") /\ Methodical(Resume("none"))
  BY ResumeDrives, MethodicalMethods
<1>2. "setBreak" \in CallbackOps \ {"getRegs", "setRip"} /\ Op("setBreak").op = "setBreak"
  BY DEF CallbackOps, Op, Instr
<1>3. /\ IsSeq(<<Op("setBreak")>>) /\ Opening(<<Op("setBreak")>>)
      /\ ~Has(<<Op("setBreak")>>, "jumpBack") /\ Methodical(<<Op("setBreak")>>)
  BY <1>2, OpeningMethods, HasMethods, MethodicalOne
<1>4. /\ Drives(<<Op("setBreak")>> \o Resume("none"))
      /\ ~Has(<<Op("setBreak")>> \o Resume("none"), "jumpBack")
      /\ Methodical(<<Op("setBreak")>> \o Resume("none"))
  BY <1>1, <1>3, DrivesConcat, MethodicalConcat
<1>. QED BY <1>1, <1>4 DEF Created

\* getRip() - 1 is jumped to, and the breakpoint is unset.
LEMMA UnsetsMethods ==
  ASSUME NEW p, p = GetRip \o <<Op("jumpBack"), Op("unsetBreak")>>
  PROVE  /\ IsSeq(p) /\ Len(p) = 4 /\ DOMAIN p = 1 .. 4
         /\ p[1].op = "readRegisters" /\ p[2].op = "getRegs"
         /\ p[3].op = "jumpBack" /\ p[4].op = "unsetBreak"
         /\ Opening(p) /\ Methodical(p)
<1> DEFINE S == {Op("readRegisters"), Op("getRegs"), Op("jumpBack"), Op("unsetBreak")}
<1>1. p \in Seq(S) /\ Len(p) = 4
      /\ p[1] = Op("readRegisters") /\ p[2] = Op("getRegs")
      /\ p[3] = Op("jumpBack") /\ p[4] = Op("unsetBreak")
  BY DEF GetRip
<1>2. IsSeq(p)
  <2>. HIDE DEF S
  <2>. QED BY <1>1, AnySeq
<1>3. /\ DOMAIN p = 1 .. 4
      /\ p[1].op = "readRegisters" /\ p[2].op = "getRegs"
      /\ p[3].op = "jumpBack" /\ p[4].op = "unsetBreak"
  BY <1>1, <1>2 DEF IsSeq, Op, Instr
<1>4. \A k \in DOMAIN p : k = 1 \/ k = 2 \/ k = 3 \/ k = 4
  BY <1>3
<1>5. Opening(p)
  <2>1. \A k \in DOMAIN p : p[k].op \in CallbackOps /\ p[k].op # "setRip"
    BY <1>3, <1>4 DEF CallbackOps
  <2>2. \A k \in DOMAIN p : p[k].op = "getRegs" => k = 2
    BY <1>3, <1>4
  <2>3. \A k \in DOMAIN p : p[k].op = "jumpBack" => k = 3
    BY <1>3, <1>4
  <2>4. 2 > 1 /\ p[2 - 1].op = "readRegisters"
    BY <1>3
  <2>5. \A k \in DOMAIN p : p[k].op = "getRegs" => k > 1 /\ p[k - 1].op = "readRegisters"
    BY <2>2, <2>4
  <2>6. \A k, j \in DOMAIN p : p[k].op = "jumpBack" /\ j < k => p[j].op \notin {"jumpBack", "setRip"}
    <3>1. ~(3 < 3)
      OBVIOUS
    <3>. QED BY <2>1, <2>3, <3>1
  <2>. QED BY <2>1, <2>5, <2>6 DEF Opening
<1>6. Methodical(p)
  <2>1. \A k \in DOMAIN p : p[k].op \notin {"cont", "setState", "awaitStep", "hit"}
    BY <1>3, <1>4
  <2>2. Paired(p)
    BY <2>1 DEF Paired, Continued, Sets
  <2>3. OnlyResumes(p)
    BY <2>1 DEF OnlyResumes, Sets
  <2>4. Opens(p)
    BY <1>3 DEF Opens, Sets
  <2>. QED BY <1>2, <2>2, <2>3, <2>4 DEF Methodical
<1>. QED BY <1>1, <1>2, <1>3, <1>5, <1>6

(* The hypotheses of the theorems are met by the callbacks of              *)
(* test/ThreadIdentification, which the run `breakpoints' checks.          *)
LEMMA RunScripts ==
  ASSUME CallbackScripts = Handlers, UserScripts = NoScript, Users = {}
  PROVE  MethodsOnly /\ DrivenByCallbacks
<1>1. ASSUME NEW s \in {GetRip \o Resume("none"), Jump("other") \o Resume("none")}
      PROVE  Drives(s) /\ ~Has(s, "jumpBack") /\ Methodical(s)
  <2>1. PICK r : r = Resume("none")
    OBVIOUS
  <2>2. Drives(r) /\ ~Has(r, "jumpBack") /\ Methodical(r)
    BY <2>1, ResumeDrives, MethodicalMethods
  <2>3. /\ IsSeq(GetRip) /\ Opening(GetRip) /\ ~Has(GetRip, "jumpBack") /\ Methodical(GetRip)
        /\ IsSeq(Jump("other")) /\ Opening(Jump("other")) /\ ~Has(Jump("other"), "jumpBack")
        /\ Methodical(Jump("other"))
    BY OpeningMethods, HasMethods, MethodicalMethods
  <2>. QED BY <2>1, <2>2, <2>3, DrivesConcat, MethodicalConcat
<1>2. Drives(ResumeAndUnset) /\ Methodical(ResumeAndUnset)
  <2>1. PICK p : p = GetRip \o <<Op("jumpBack"), Op("unsetBreak")>>
    OBVIOUS
  <2>2. PICK r : r = Resume("none")
    OBVIOUS
  <2>3. Drives(r) /\ ~Has(r, "jumpBack") /\ Methodical(r)
    BY <2>2, ResumeDrives, MethodicalMethods
  <2>4. IsSeq(p) /\ Opening(p) /\ Methodical(p)
    BY <2>1, UnsetsMethods
  <2>5. ResumeAndUnset = p \o r
    BY <2>1, <2>2 DEF ResumeAndUnset
  <2>. QED BY <2>3, <2>4, <2>5, DrivesConcat, MethodicalConcat
<1>3. ASSUME NEW kind \in Kinds, NEW s \in CallbackScripts[kind]
      PROVE  Drives(s) /\ Methodical(s) /\ (kind # "break" => ~Has(s, "jumpBack"))
  <2>1. CASE kind = "created"
    <3>1. CallbackScripts[kind] = Created
      BY <2>1 DEF Handlers
    <3>. QED BY <2>1, <3>1, CreatedDrive
  <2>2. CASE kind = "break"
    <3>1. CallbackScripts[kind] = {ResumeAndUnset}
      BY <2>2 DEF Handlers
    <3>. QED BY <1>2, <2>2, <3>1
  <2>3. CASE kind = "watch"
    <3>1. CallbackScripts[kind] = {GetRip \o Resume("none"), Jump("other") \o Resume("none")}
      BY <2>3 DEF Handlers
    <3>. QED BY <1>1, <3>1
  <2>. QED BY <2>1, <2>2, <2>3 DEF Kinds
<1>4. DrivenByCallbacks
  BY <1>3 DEF DrivenByCallbacks, Drives
<1>5. \A s \in Scripts : Drives(s) /\ Methodical(s)
  BY <1>3 DEF Scripts, NoScript
<1>6. Rests = {}
  <2>1. \A s \in Scripts : \A k \in DOMAIN s : s[k].op # "awaitStep"
    BY <1>5 DEF Drives, Driving, CallbackOps
  <2>. QED BY <2>1 DEF Rests
<1>. QED BY <1>4, <1>5, <1>6 DEF MethodsOnly

LEMMA SingleStepElements ==
  ASSUME NEW rest, NEW s, s = SingleStep(rest)
  PROVE  /\ IsSeq(s) /\ Len(s) = 5 /\ DOMAIN s = 1 .. 5
         /\ s[1].op = "lock" /\ s[2].op = "writeRegisters" /\ s[3].op = "step"
         /\ s[4].op = "stepWait" /\ s[5].op = "awaitStep" /\ s[5].arg = rest
<1> DEFINE S == {Op("lock"), Op("writeRegisters"), Op("step"), Op("stepWait"), Instr("awaitStep", rest)}
<1>1. /\ s \in Seq(S) /\ Len(s) = 5
      /\ s[1] = Op("lock") /\ s[2] = Op("writeRegisters") /\ s[3] = Op("step")
      /\ s[4] = Op("stepWait") /\ s[5] = Instr("awaitStep", rest)
  BY DEF SingleStep
<1>2. IsSeq(s)
  <2>. HIDE DEF S
  <2>. QED BY <1>1, AnySeq
<1>. QED BY <1>1, <1>2 DEF IsSeq, Op, Instr

\* Neither steps nor touches the breakpoint but to set it.
LEMMA CreatedApart ==
  ASSUME NEW s \in Created, NEW k \in DOMAIN s
  PROVE  s[k].op \notin {"unsetBreak", "awaitStep"}
<1>1. ASSUME NEW r, r = Resume("none"), NEW j \in DOMAIN r
      PROVE  r[j].op \in {"writeRegisters", "cont", "setState"}
  BY <1>1 DEF Resume, Op, Instr
<1>2. CASE s = Resume("none")
  BY <1>1, <1>2
<1>3. CASE s = <<Op("setBreak")>> \o Resume("none")
  <2>1. Has(s, s[k].op)
    BY DEF Has
  <2>2. Drives(Resume("none"))
    BY ResumeDrives
  <2>3. "setBreak" \in CallbackOps \ {"getRegs", "setRip"}
    BY DEF CallbackOps
  <2>4. IsSeq(<<Op("setBreak")>>) /\ Opening(<<Op("setBreak")>>) /\ ~Has(<<Op("setBreak")>>, "jumpBack")
        /\ ~Has(<<Op("setBreak")>>, "setRip")
    BY <2>3, OpeningMethods, HasMethods
  <2>5. Has(<<Op("setBreak")>>, s[k].op) \/ Has(Resume("none"), s[k].op)
    BY <1>3, <2>1, <2>2, <2>4, DrivesConcat
  <2>6. Has(<<Op("setBreak")>>, s[k].op) => s[k].op = "setBreak"
    BY HasMethods
  <2>7. Has(Resume("none"), s[k].op) => s[k].op \in {"writeRegisters", "cont", "setState"}
    BY <1>1 DEF Has
  <2>. QED BY <2>5, <2>6, <2>7
<1>. QED BY <1>2, <1>3 DEF Created

\* What resumeAndSet is made of.
LEMMA ResumeAndSetElements ==
  ASSUME NEW s, s = ResumeAndSet
  PROVE  /\ IsSeq(s) /\ Len(s) = 9 /\ DOMAIN s = 1 .. 9
         /\ s[1].op = "readRegisters" /\ s[2].op = "getRegs"
         /\ s[3].op = "jumpBack" /\ s[4].op = "unsetBreak"
         /\ s[5].op = "lock" /\ s[6].op = "writeRegisters" /\ s[7].op = "step"
         /\ s[8].op = "stepWait" /\ s[9].op = "awaitStep"
         /\ s[9].arg = <<Op("setBreak")>> \o Resume("none")
<1>1. PICK p : p = GetRip \o <<Op("jumpBack"), Op("unsetBreak")>>
  OBVIOUS
<1>2. PICK r : r = <<Op("setBreak")>> \o Resume("none")
  OBVIOUS
<1>3. PICK t : t = SingleStep(r)
  OBVIOUS
<1>4. s = p \o t
  BY <1>1, <1>2, <1>3 DEF ResumeAndSet
<1>5. /\ IsSeq(p) /\ Len(p) = 4
      /\ p[1].op = "readRegisters" /\ p[2].op = "getRegs"
      /\ p[3].op = "jumpBack" /\ p[4].op = "unsetBreak"
  BY <1>1, UnsetsMethods
<1>6. /\ IsSeq(t) /\ Len(t) = 5
      /\ t[1].op = "lock" /\ t[2].op = "writeRegisters" /\ t[3].op = "step"
      /\ t[4].op = "stepWait" /\ t[5].op = "awaitStep" /\ t[5].arg = r
  BY <1>3, SingleStepElements
<1>7. /\ IsSeq(s) /\ Len(s) = 4 + 5 /\ DOMAIN s = 1 .. 4 + 5
      /\ \A k \in 1 .. 4 : s[k] = p[k]
      /\ \A k \in 4 + 1 .. 4 + 5 : s[k] = t[k - 4]
  <2>1. \A w : w = p \o t =>
          /\ IsSeq(w) /\ Len(w) = Len(p) + Len(t) /\ DOMAIN w = 1 .. Len(p) + Len(t)
          /\ \A k \in 1 .. Len(p) : w[k] = p[k]
          /\ \A k \in Len(p) + 1 .. Len(p) + Len(t) : w[k] = t[k - Len(p)]
    <3>1. IsSeq(p) /\ IsSeq(t)
      BY <1>5, <1>6
    <3>. QED BY <3>1, Concat
  <2>2. /\ IsSeq(s) /\ Len(s) = Len(p) + Len(t) /\ DOMAIN s = 1 .. Len(p) + Len(t)
        /\ \A k \in 1 .. Len(p) : s[k] = p[k]
        /\ \A k \in Len(p) + 1 .. Len(p) + Len(t) : s[k] = t[k - Len(p)]
    BY <1>4, <2>1
  <2>3. Len(p) = 4 /\ Len(t) = 5
    BY <1>5, <1>6
  <2>. QED BY <2>2, <2>3
<1>8. /\ s[1] = p[1] /\ s[2] = p[2] /\ s[3] = p[3] /\ s[4] = p[4]
      /\ s[5] = t[1] /\ s[6] = t[2] /\ s[7] = t[3] /\ s[8] = t[4] /\ s[9] = t[5]
  BY <1>7
<1>. QED BY <1>2, <1>5, <1>6, <1>7, <1>8

\* resumeAndSet steps after it has unset the breakpoint.
LEMMA ResumeAndSetRestores == Restoring(ResumeAndSet)
<1>1. PICK s : s = ResumeAndSet
  OBVIOUS
<1>2. PICK r : r = <<Op("setBreak")>> \o Resume("none")
  OBVIOUS
<1>3. /\ DOMAIN s = 1 .. 9
      /\ s[1].op = "readRegisters" /\ s[2].op = "getRegs"
      /\ s[3].op = "jumpBack" /\ s[4].op = "unsetBreak"
      /\ s[5].op = "lock" /\ s[6].op = "writeRegisters" /\ s[7].op = "step"
      /\ s[8].op = "stepWait" /\ s[9].op = "awaitStep" /\ s[9].arg = r
  BY <1>1, <1>2, ResumeAndSetElements
<1>4. \A k \in DOMAIN s : k \in {1, 2, 3, 4, 5, 6, 7, 8, 9}
  BY <1>3
<1>5. \A k \in DOMAIN s : s[k].op = "unsetBreak" => k = 4
  BY <1>3, <1>4
<1>6. \A k \in DOMAIN s : s[k].op = "awaitStep" => s[k].arg = r
  BY <1>3, <1>4
<1>7. /\ 7 \in DOMAIN s /\ 4 < 7 /\ Steps(s, 7)
      /\ \A i \in DOMAIN s : 4 < i /\ i <= 7 => s[i].op \notin {"setBreak", "awaitStep"}
  <2>1. 7 \in DOMAIN s /\ 7 + 1 \in DOMAIN s /\ 7 + 1 = 8
    BY <1>3
  <2>2. ASSUME NEW i \in DOMAIN s, i <= 7 PROVE s[i].op \notin {"setBreak", "awaitStep"}
    <3>1. i \in {1, 2, 3, 4, 5, 6, 7}
      BY <1>4, <2>2
    <3>. QED BY <1>3, <3>1
  <2>. QED BY <1>3, <2>1, <2>2 DEF Steps
<1>8. \A i \in DOMAIN r : r[i].op \notin {"unsetBreak", "awaitStep"}
  <2>1. r \in Created
    BY <1>2 DEF Created
  <2>. QED BY <2>1, CreatedApart
<1>. QED BY <1>1, <1>5, <1>6, <1>7, <1>8 DEF Restoring

(* The hypotheses of the theorems are met by the callbacks of              *)
(* test/BasicTest with users who stop and resume, step or terminate, which *)
(* the run `thread_users' checks.                                          *)
LEMMA SetScripts ==
  ASSUME CallbackScripts = HandlersThatSet, UserScripts = UserCalls
  PROVE  MethodsOnly /\ RestoredByOne
<1>1. PICK r : r = <<Op("setBreak")>> \o Resume("none")
  OBVIOUS
<1>2. PICK e : e = SingleStep(<<>>)
  OBVIOUS
<1>3. PICK a : a = ResumeAndSet
  OBVIOUS
<1>4. PICK u : u = Stop \o Resume("none")
  OBVIOUS
<1>5. UserScripts = {u, Terminate, e}
  BY <1>2, <1>4 DEF UserCalls
<1>6. /\ CallbackScripts["break"] = {a}
      /\ CallbackScripts["created"] = Created /\ CallbackScripts["watch"] = Created
  BY <1>3 DEF HandlersThatSet, Kinds
<1>7. Scripts = {u, Terminate, e, a} \cup Created
  BY <1>5, <1>6 DEF Scripts, Kinds
<1>8. /\ DOMAIN e = 1 .. 5
      /\ e[1].op = "lock" /\ e[2].op = "writeRegisters" /\ e[3].op = "step"
      /\ e[4].op = "stepWait" /\ e[5].op = "awaitStep" /\ e[5].arg = <<>>
  BY <1>2, SingleStepElements
<1>9. /\ DOMAIN a = 1 .. 9
      /\ a[1].op = "readRegisters" /\ a[2].op = "getRegs"
      /\ a[3].op = "jumpBack" /\ a[4].op = "unsetBreak"
      /\ a[5].op = "lock" /\ a[6].op = "writeRegisters" /\ a[7].op = "step"
      /\ a[8].op = "stepWait" /\ a[9].op = "awaitStep" /\ a[9].arg = r
  BY <1>1, <1>3, ResumeAndSetElements
<1>10. \A k \in DOMAIN e : /\ e[k].op \notin {"setBreak", "unsetBreak"}
                           /\ e[k].op = "awaitStep" => e[k].arg = <<>>
  <2>1. \A k \in DOMAIN e : k \in {1, 2, 3, 4, 5}
    BY <1>8
  <2>. QED BY <1>8, <2>1
<1>11. \A k \in DOMAIN a : a[k].op = "awaitStep" => a[k].arg = r
  <2>1. \A k \in DOMAIN a : k \in {1, 2, 3, 4, 5, 6, 7, 8, 9}
    BY <1>9
  <2>. QED BY <1>9, <2>1
<1>12. \A k \in DOMAIN u : u[k].op \notin {"setBreak", "unsetBreak", "awaitStep"}
  <2>1. /\ Len(u) = 6 /\ u[1] = Op("lock") /\ u[2] = Op("stopTest") /\ u[3] = Op("unlock")
        /\ u[4] = Op("writeRegisters") /\ u[5] = Instr("cont", "none")
        /\ u[6] = Instr("setState", "CONTINUED")
    BY <1>4 DEF Stop, Resume
  <2>2. DOMAIN u = 1 .. 6
    BY <1>4 DEF Stop, Resume
  <2>3. \A k \in DOMAIN u : k \in {1, 2, 3, 4, 5, 6}
    BY <2>2
  <2>. QED BY <2>1, <2>3 DEF Op, Instr
<1>13. \A k \in DOMAIN Terminate : Terminate[k].op \notin {"setBreak", "unsetBreak", "awaitStep"}
  BY DEF Terminate, Op, Instr
<1>14. <<>> \in Rests /\ r \in Rests
  <2>1. 5 \in DOMAIN e /\ 9 \in DOMAIN a /\ e \in Scripts /\ a \in Scripts
    BY <1>7, <1>8, <1>9
  <2>. QED BY <1>8, <1>9, <2>1 DEF Rests
<1>15. Rests \subseteq {<<>>, r}
  <2>1. ASSUME NEW s \in Scripts, NEW k \in DOMAIN s, s[k].op = "awaitStep"
        PROVE  s[k].arg \in {<<>>, r}
    BY <1>7, <1>10, <1>11, <1>12, <1>13, <2>1, CreatedApart
  <2>. QED BY <2>1 DEF Rests
<1>16. r \in Created
  BY <1>1 DEF Created
<1>17. \A s \in Created : Methodical(s)
  BY CreatedDrive
<1>18. Methodical(u) /\ Methodical(Terminate) /\ Methodical(e)
  BY <1>2, <1>4, <1>14, MethodicalMethods, MethodicalConcat
<1>19. Methodical(a)
  <2>1. PICK p : p = GetRip \o <<Op("jumpBack"), Op("unsetBreak")>>
    OBVIOUS
  <2>2. PICK t : t = SingleStep(r)
    OBVIOUS
  <2>3. a = p \o t
    BY <1>1, <1>3, <2>1, <2>2 DEF ResumeAndSet
  <2>4. Methodical(p) /\ Methodical(t)
    BY <1>14, <2>1, <2>2, UnsetsMethods, MethodicalMethods
  <2>. QED BY <2>3, <2>4, MethodicalConcat
<1>20. MethodsOnly
  BY <1>7, <1>15, <1>16, <1>17, <1>18, <1>19, Empty DEF MethodsOnly
<1>21. \A s \in UserScripts : Keeps(s)
  <2>1. Apart(<<>>)
    BY DEF Apart
  <2>. QED BY <1>5, <1>10, <1>12, <1>13, <2>1 DEF Keeps
<1>22. \A s \in Created : Restoring(s)
  BY CreatedApart DEF Restoring
<1>23. Restoring(a)
  BY <1>3, ResumeAndSetRestores
<1>. QED BY <1>6, <1>20, <1>21, <1>22, <1>23 DEF RestoredByOne, Kinds

-----------------------------------------------------------------------------
(* The results.                                                            *)

LEMMA InitTInv == Init => TInv
<1>. SUFFICES ASSUME Init PROVE TInv
  OBVIOUS
<1>1. /\ ListenerTodo = <<>> /\ CallbackTodo = <<>> /\ queue = <<>> /\ callbacks = <<>>
      /\ run = "stopped" /\ event = "start" /\ reason = "start" /\ pending = {} /\ rip = "code" /\ dr6 = {}
      /\ known = FALSE /\ state = "STOPPED" /\ regSync = "OLD" /\ trapExp = FALSE
      /\ cRip = "code" /\ cDr6 = {} /\ futRegs = FALSE /\ futDr6 = FALSE /\ spurious = FALSE /\ aim = "none"
  BY ActorsAssumption DEF Init, ThreadInit, KernelInit, ListenerTodo, CallbackTodo, Actors
<1>2. /\ Orderly(ListenerTodo) /\ ~LTurn /\ Past /\ ~Tests(ListenerTodo)
      /\ \A o : ~Has(ListenerTodo, o) /\ ~Starts(ListenerTodo, o)
      /\ \A k \in DOMAIN ListenerTodo : FALSE
      /\ ~WatchSeen
  BY <1>1, ListenerEmpty
<1>3. \A o : ~Has(CallbackTodo, o) /\ ~Starts(CallbackTodo, o)
  BY <1>1, CallbackEmpty
<1>4. (\A o : ~Queued(o)) /\ ~QTurn /\ ~CTurn /\ KTurn
  <2>1. DOMAIN queue = {}
    BY <1>1
  <2>. QED BY <1>1, <1>3, <2>1 DEF Queued, QTurn, CTurn, KTurn, NoStop
<1>5. Told
  BY <1>1, <1>2, DrivingNone DEF Told
<1>6. Sent /\ Base
  <2>1. DOMAIN queue = {}
    BY <1>1
  <2>. QED BY <1>1, <1>4, <2>1 DEF Sent, Base, NoStop
<1>7. Turns
  BY <1>1, <1>2, <1>4 DEF Turns
<1>8. Caches /\ Dr6
  BY <1>1, <1>2 DEF Caches, Dr6
<1>9. Rip
  <2>1. DOMAIN callbacks = {}
    BY <1>1
  <2>. QED BY <1>1, <1>2, <1>3, <1>4, <2>1 DEF Rip
<1>. QED BY <1>1, <1>5, <1>6, <1>7, <1>8, <1>9 DEF TInv, Turn

(* All that is reachable satisfies both invariants.                        *)
LEMMA AlwaysTurns ==
  ASSUME MethodsOnly, DrivenByCallbacks
  PROVE  Spec => [](IInv /\ TInv)
<1>1. Init => IInv /\ TInv
  BY InitIInv, InitTInv
<1>2. IInv /\ TInv /\ [Next]_allVars => (IInv /\ TInv)'
  BY NextIInv, NextTInv
<1>. QED BY <1>1, <1>2, PTL DEF Spec

(* A watchpoint is reported hit only for a watch trap (handleEvent,        *)
(* testDr6): the DR6 the listener looks at is that of the stop it handles, *)
(* and it is cleared before the thread is resumed.                         *)
THEOREM HitsAlwaysReal ==
  ASSUME MethodsOnly, DrivenByCallbacks
  PROVE  Spec => []HitsAreReal
<1>1. IInv /\ TInv => HitsAreReal
  BY DEF TInv, Turn, Base, HitsAreReal
<1>. QED BY <1>1, AlwaysTurns, PTL

(* The listener and a callback never get the same _futureRegs at once: a   *)
(* callback that reads the registers has the stop, which the listener gave *)
(* away as the last thing it did with it.                                  *)
THEOREM NeverConcurrentGet ==
  ASSUME MethodsOnly, DrivenByCallbacks
  PROVE  Spec => []NoConcurrentGet
<1>1. ASSUME IInv, TInv PROVE NoConcurrentGet
  <2>. SUFFICES ASSUME ~overtaken, At(Listener, "getRegs"), At(Callback, "getRegs") PROVE FALSE
    BY DEF NoConcurrentGet, Actors, DrivenByCallbacks
  <2>1. Shape /\ Listener \in Actors /\ Callback \in Actors /\ IsSeq(CallbackTodo)
    BY <1>1 DEF IInv, Actors, Shape, CallbackTodo
  <2>2. 1 \in DOMAIN ListenerTodo /\ ListenerTodo[1].op = "getRegs" /\ ListenerTodo # <<>>
    BY <2>1, AtFirst DEF ListenerTodo
  <2>3. Starts(CallbackTodo, "getRegs") /\ "getRegs" # "setState"
    BY <2>1, AtFirst DEF CallbackTodo, Starts
  <2>4. CASE run = "dead"
    <3>1. Has(CallbackTodo, "cont")
      BY <1>1, <2>1, <2>3, <2>4, EndingHas DEF TInv, Lone, Parted
    <3>2. CTurn
      BY <3>1 DEF CTurn
    <3>. QED BY <1>1, <2>2, <2>4, <3>2 DEF TInv, Lone, Parted
  <2>5. CASE run # "dead"
    <3>1. Has(CallbackTodo, "cont")
      BY <1>1, <2>1, <2>3, <2>5, DrivingHas DEF TInv, Turn, Told
    <3>2. CTurn
      BY <3>1 DEF CTurn
    <3>. QED BY <1>1, <2>2, <2>5, <3>2 DEF TInv, Turn, Turns
  <2>. QED BY <2>4, <2>5
<1>. QED BY <1>1, AlwaysTurns, PTL

(* When nothing is under way and no callback is left, a stopped thread     *)
(* stopped for a fault or for SIGSTOP, which handleEvent leaves to the     *)
(* tester: any other stop was given to someone, and whoever has it resumes *)
(* the thread.                                                             *)
THEOREM NeverLeftStranded ==
  ASSUME MethodsOnly, DrivenByCallbacks
  PROVE  Spec => []NeverStranded
<1>1. ASSUME IInv, TInv PROVE NeverStranded
  <2>. SUFFICES ASSUME Quiet, callbacks = <<>>, todo[Callback] = <<>>, run = "stopped", ~overtaken
                PROVE  reason \in {"SEGV", "STOP"}
    BY DEF NeverStranded
  <2>1. Shape /\ Listener \in Actors /\ event = "none" /\ queue = <<>>
    BY <1>1 DEF IInv, Actors, Quiet
  <2>2. ListenerTodo = <<>>
    <3>1. todo[Listener] = <<>> \/ \E op \in Waits : At(Listener, op)
      BY <2>1 DEF Quiet, At
    <3>. QED BY <2>1, <3>1, NotListener DEF Waits, ListenerOps, ListenerTodo
  <2>3. Turns
    BY <1>1 DEF TInv, Turn
  <2>4. ~KTurn /\ ~LTurn /\ ~CTurn /\ ~QTurn
    BY <2>1, <2>2, ListenerEmpty, CallbackEmpty DEF KTurn, NoStop, CTurn, QTurn, Queued, CallbackTodo
  <2>. QED BY <2>3, <2>4 DEF Turns
<1>. QED BY <1>1, AlwaysTurns, PTL

(* resumeAndUnset sends the thread to the breakpoint's address and nowhere *)
(* else: what it subtracts 1 from is the rip of the stop it is called for, *)
(* since the breakpoint's callback runs before anything else writes the    *)
(* registers.                                                              *)
THEOREM AlwaysBackToBreakPoint ==
  ASSUME MethodsOnly, DrivenByCallbacks
  PROVE  Spec => []GoesBackToBreakPoint
<1>1. IInv /\ TInv => GoesBackToBreakPoint
  BY DEF TInv, Turn, Rip, Lone, Parted, GoesBackToBreakPoint
<1>. QED BY <1>1, AlwaysTurns, PTL

(* What getRip returns is the rip of the present stop: the request that    *)
(* fills the cache was queued after the stop and has run, as the getter    *)
(* waits for it, and the thread has not been resumed since.                *)
THEOREM RipAlwaysFresh ==
  ASSUME MethodsOnly, DrivenByCallbacks
  PROVE  Spec => RipIsFresh
<1> DEFINE Fresh == \A a \in Actors :
                      (GetRegs(a) /\ run = "stopped" /\ event = "none" /\ regSync # "NEW")
                        => (cRip = rip \/ overtaken)
<1>1. ASSUME IInv, TInv PROVE Fresh
  <2>. SUFFICES ASSUME NEW a \in Actors, GetRegs(a), run = "stopped", regSync # "NEW", ~overtaken
                PROVE  cRip = rip
    OBVIOUS
  <2>1. Shape /\ Listener \in Actors /\ Callback \in Actors /\ a \in {Listener, Callback}
    BY <1>1 DEF IInv, Actors, DrivenByCallbacks
  <2>2. Told /\ Sent /\ Turns /\ Rip
    BY <1>1 DEF TInv, Turn
  <2>3. At(a, "getRegs") /\ (futRegs => ~Queued("GETREGS"))
    BY DEF GetRegs
  <2>4. ~Queued("GETREGS")
    BY <2>2, <2>3 DEF Sent
  <2>5. IsSeq(ListenerTodo) /\ Orderly(ListenerTodo) /\ IsSeq(CallbackTodo) /\ Driving(CallbackTodo)
    BY <2>1, <2>2 DEF Told, Shape, ListenerTodo, CallbackTodo
  <2>6. CASE a = Listener
    <3>1. ListenerTodo # <<>> /\ ListenerTodo[1].op = "getRegs"
      BY <2>1, <2>3, <2>6, AtFirst DEF ListenerTodo
    <3>2. LTurn /\ Past /\ Starts(ListenerTodo, "getRegs")
      BY <2>5, <3>1, PastFirst DEF LTurn, Past, Starts
    <3>. QED BY <2>2, <2>4, <3>2 DEF Rip
  <2>7. CASE a = Callback
    <3>1. Starts(CallbackTodo, "getRegs") /\ "getRegs" # "setState" /\ ~Starts(CallbackTodo, "cont")
      BY <2>1, <2>3, <2>7, AtFirst DEF CallbackTodo, Starts
    <3>2. CTurn
      BY <2>5, <3>1, DrivingHas DEF CTurn
    <3>. QED BY <2>2, <2>4, <3>1, <3>2 DEF Rip
  <2>. QED BY <2>1, <2>6, <2>7
<1>2. IInv /\ TInv /\ [Next]_allVars => [Fresh]_vars
  BY <1>1
<1>. QED BY <1>2, AlwaysTurns, PTL DEF Spec, RipIsFresh

(* When the thread is resumed after a jump it is at the jump's target:     *)
(* writeRegisters queues the registers before resume queues PTRACE_CONT,   *)
(* and nobody else resumes the thread in between.                          *)
THEOREM JumpAlwaysTakesEffect ==
  ASSUME MethodsOnly, DrivenByCallbacks
  PROVE  Spec => JumpTakesEffect
<1> DEFINE Effect == (run = "stopped" /\ run' = "running" /\ aim # "none") => (rip = aim \/ overtaken)
<1>1. ASSUME IInv, TInv, [Next]_allVars PROVE Effect
  <2>. SUFFICES ASSUME run = "stopped", run' = "running", aim # "none", ~overtaken
                PROVE  rip = aim
    OBVIOUS
  <2>1. Shape /\ Turn /\ Users = {} /\ Sent
    BY <1>1 DEF IInv, TInv, DrivenByCallbacks, Turn
  <2>2. Next
    BY <1>1 DEF allVars, vars, kernelVars
  <2>3. RunCommand
    <3>1. ~Go(Listener) /\ ~Go(Callback)
      BY ActorsAside DEF kernelVars
    <3>2. ~Thread
      BY DEF Thread, ThreadStep, StepDone, Int3, SignalTaken, Spontaneous, Exits, ReportsContinued, StopFor
    <3>3. ~NewThread /\ ~ThreadEvent /\ ~BeginCallback
      BY DEF NewThread, ThreadEvent, Collect, BeginCallback, kernelVars
    <3>. QED BY <2>1, <2>2, <3>1, <3>2, <3>3, CallbacksSteps
  <2>4. Head(queue).op = "CONT"
    BY <2>3 DEF RunCommand, Ptrace, SingleStepRequest, Kill, SetRip, SetDr6Request, Poke, Accepts, kernelVars
  <2>. QED BY <2>1, <2>3, <2>4, ContRuns
<1>2. IInv /\ TInv /\ [Next]_allVars => [Effect]_vars
  BY <1>1
<1>. QED BY <1>2, AlwaysTurns, PTL DEF Spec, JumpTakesEffect
=============================================================================
