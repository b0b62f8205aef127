---------------------------- MODULE ProgramStart ----------------------------
(***************************************************************************)
(* The first thread of a spied program, from createMainThread to the jump  *)
(* to the entry point (source/DynamicNamespace.cpp 76-103, 183-231; way =  *)
(* "namespace"), and the same sequence as source/Loader.cpp has it (way =  *)
(* "library").  start builds the stack the kernel would have given a new   *)
(* process.  sp counts words of 8 bytes and mem is the memory below the    *)
(* stack pointer that start found in rsp, which was top.                   *)
(***************************************************************************)
EXTENDS Integers

CONSTANTS
  Argcs, EnvCounts, \* numbers of arguments and of environment variables
  StackTops,        \* values of rsp, in words, when start begins
  EntryPoints           \* values of the entry point; 0 is nullptr

ASSUME StartAssumption ==
  /\ Argcs \subseteq Nat /\ EnvCounts \subseteq Nat /\ StackTops \subseteq Nat
  /\ \A a \in Argcs, e \in EnvCounts, t \in StackTops : a + e + 5 <= t
  /\ EntryPoints \subseteq Nat

VARIABLES
  way,        \* which of the two codes runs
  phase,      \* where the main thread is
  starter,    \* where the thread that creates it is
  entry,      \* entryPoint
  argc, nenv, \* the arguments, and env - envp once env has been moved
  top, sp, mem,
  env, i      \* the loops' variables: env - envp, i

startVars == <<way, phase, starter, entry, argc, nenv, top, sp, mem, env, i>>

Word(kind, n) == [kind |-> kind, n |-> n]
Zero == Word("int", 0)
Words == [kind : {"int", "argv", "env", "junk"}, n : Nat]

\* *env: the word after the last variable is nullptr.
EnvWord(k) == IF k = nenv THEN Zero ELSE Word("env", k)

StartInit ==
  /\ way = "none" /\ phase = "none" /\ starter = "running"
  /\ entry = 0 /\ argc = 0 /\ nenv = 0
  /\ top = 0 /\ sp = 0 /\ mem = [a \in 0 .. -1 |-> Zero]
  /\ env = 0 /\ i = 0

-----------------------------------------------------------------------------
CreateMainThread ==
  /\ starter = "running"
  /\ starter' = "stopped" /\ phase' = "load"
  /\ way' \in {"namespace", "library"}
  /\ UNCHANGED <<entry, argc, nenv, top, sp, mem, env, i>>

Loading == phase = "load"

LoadedAt(e) ==
  /\ Loading
  /\ entry' = e
  /\ phase' = "stopped"
  /\ UNCHANGED <<way, starter, argc, nenv, top, sp, mem, env, i>>

\* An unusable entry point is logged, and used.
LoadExecutable(e) == way = "namespace" /\ LoadedAt(e)

\* The base is added to any offset, so nullptr never comes out.
Load(e) == way = "library" /\ e # 0 /\ LoadedAt(e)

\* The exception leaves the thread's function: std::terminate.
LoadExecutableThrows ==
  /\ Loading /\ way = "namespace"
  /\ phase' = "aborted"
  /\ UNCHANGED <<way, starter, entry, argc, nenv, top, sp, mem, env, i>>

LoadReturns ==
  /\ Loading /\ way = "library"
  /\ phase' = "returned"
  /\ UNCHANGED <<way, starter, entry, argc, nenv, top, sp, mem, env, i>>

\* The tester resumes the main thread: start is called, reads rsp, and finds
\* the end of the environment.
StartBegins ==
  /\ phase = "stopped"
  /\ phase' = "align"
  /\ argc' \in Argcs /\ nenv' \in EnvCounts /\ env' = nenv'
  /\ top' \in StackTops /\ sp' = top'
  /\ mem' = [a \in 0 .. top' - 1 |-> Word("junk", 0)]
  /\ UNCHANGED <<way, starter, entry, i>>

-----------------------------------------------------------------------------
(* start.                                                                  *)

Push(word) == sp' = sp - 1 /\ mem' = [mem EXCEPT ![sp - 1] = word]

\* Mutant: the environment's nullptr is not counted.
WordsToPushOff == argc + 3 + nenv

WordsToPush == argc + 4 + nenv

Align ==
  /\ phase = "align"
  /\ IF (sp + WordsToPush) % 2 # 0 THEN Push(Zero) ELSE UNCHANGED <<sp, mem>>
  /\ phase' = "aux"
  /\ UNCHANGED <<way, starter, entry, argc, nenv, top, env, i>>

PushAux ==
  /\ phase = "aux"
  /\ Push(Zero)
  /\ phase' = "env"
  /\ UNCHANGED <<way, starter, entry, argc, nenv, top, env, i>>

PushEnv ==
  /\ phase = "env"
  /\ IF env >= 0 THEN /\ Push(EnvWord(env)) /\ env' = env - 1
                      /\ UNCHANGED phase
                 ELSE phase' = "null" /\ UNCHANGED <<sp, mem, env>>
  /\ UNCHANGED <<way, starter, entry, argc, nenv, top, i>>

PushNull ==
  /\ phase = "null"
  /\ Push(Zero)
  /\ phase' = "argv" /\ i' = argc - 1
  /\ UNCHANGED <<way, starter, entry, argc, nenv, top, env>>

PushArgv ==
  /\ phase = "argv"
  /\ IF i >= 0 THEN /\ Push(Word("argv", i)) /\ i' = i - 1
                    /\ UNCHANGED phase
               ELSE phase' = "argc" /\ UNCHANGED <<sp, mem, i>>
  /\ UNCHANGED <<way, starter, entry, argc, nenv, top, env>>

PushArgc ==
  /\ phase = "argc"
  /\ Push(Word("int", argc))
  /\ phase' = "jump"
  /\ UNCHANGED <<way, starter, entry, argc, nenv, top, env, i>>

JumpToEntry ==
  /\ phase = "jump"
  /\ phase' = IF entry = 0 THEN "crashed" ELSE "entered"
  /\ UNCHANGED <<way, starter, entry, argc, nenv, top, sp, mem, env, i>>

Start ==
  \/ StartBegins \/ Align \/ PushAux \/ PushEnv \/ PushNull \/ PushArgv
  \/ PushArgc \/ JumpToEntry

StartNext ==
  \/ CreateMainThread \/ LoadExecutableThrows \/ LoadReturns
  \/ \E e \in EntryPoints : LoadExecutable(e) \/ Load(e)
  \/ Start

StartSpec == StartInit /\ [][StartNext]_startVars

-----------------------------------------------------------------------------
(* When the program is entered its stack is the one the System V ABI gives *)
(* to a new process, whatever rsp was and however many arguments and       *)
(* variables there are: from rsp, 16-byte aligned, argc, the arguments,    *)
(* NULL, the environment, NULL, and the AT_NULL that ends the auxiliary    *)
(* vector.                                                                 *)
EntersWithAbiStack ==
  phase = "entered" =>
    /\ sp \in 0 .. top - 1 /\ sp % 2 = 0
    /\ mem[sp] = Word("int", argc)
    /\ \A k \in 0 .. argc - 1 : mem[sp + 1 + k] = Word("argv", k)
    /\ mem[sp + 1 + argc] = Zero
    /\ \A k \in 0 .. nenv - 1 : mem[sp + 2 + argc + k] = Word("env", k)
    /\ mem[sp + 2 + argc + nenv] = Zero
    /\ mem[sp + 3 + argc + nenv] = Zero
=============================================================================
