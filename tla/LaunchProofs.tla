---------------------------- MODULE LaunchProofs ----------------------------
(***************************************************************************)
(* Proofs about the start of a program.  start builds the stack of the ABI *)
(* for any number of arguments and of variables and any initial stack      *)
(* pointer: the invariant StackInv says, for every phase, how far below    *)
(* Bottom + something sp has come and which words above it are already in  *)
(* their final place.  Of ElfFile: descriptors are neither lost nor closed *)
(* twice, whatever fails.                                                  *)
(***************************************************************************)
EXTENDS Launch, TLAPS

Pad == (top + WordsToPush) % 2
Bottom == top - Pad - WordsToPush

Building == {"align", "aux", "env", "null", "argv", "argc", "jump", "entered",
             "crashed"}
EnvBegun == {"env", "null", "argv", "argc", "jump", "entered", "crashed"}
NullPushed == {"argv", "argc", "jump", "entered", "crashed"}
Pushed == {"jump", "entered", "crashed"}

Shape ==
  /\ argc \in Nat /\ nenv \in Nat /\ top \in Nat
  /\ argc + nenv + 5 <= top
  /\ mem \in [0 .. top - 1 -> Words]

Pointer ==
  /\ phase = "align" => sp = top /\ env = nenv
  /\ phase = "aux" => sp = top - Pad /\ env = nenv
  /\ phase = "env" => env \in -1 .. nenv /\ sp = Bottom + argc + 3 + env
  /\ phase = "null" => env = -1 /\ sp = Bottom + argc + 2
  /\ phase = "argv" => env = -1 /\ i \in -1 .. argc - 1 /\ sp = Bottom + 2 + i
  /\ phase = "argc" => env = -1 /\ i = -1 /\ sp = Bottom + 1
  /\ phase \in Pushed => env = -1 /\ i = -1 /\ sp = Bottom

Filled ==
  /\ phase \in EnvBegun =>
       /\ mem[Bottom + argc + nenv + 3] = Zero
       /\ \A k \in env + 1 .. nenv : mem[Bottom + 2 + argc + k] = EnvWord(k)
  /\ phase \in NullPushed =>
       /\ mem[Bottom + 1 + argc] = Zero
       /\ \A k \in i + 1 .. argc - 1 : mem[Bottom + 1 + k] = Word("argv", k)
  /\ phase \in Pushed => mem[Bottom] = Word("int", argc)

StackInv == phase \in Building => Shape /\ Pointer /\ Filled

(* The stack ends at an even word, inside the memory below top.            *)
LEMMA BottomAligned ==
  ASSUME Shape
  PROVE  /\ Pad \in 0 .. 1 /\ Bottom \in 0 .. top - 1 /\ Bottom % 2 = 0
         /\ Bottom + argc + nenv + 4 + Pad = top
  BY DEF Shape, Pad, Bottom, WordsToPush

LEMMA WordTypes ==
  /\ Zero \in Words
  /\ \A n \in Nat : /\ Word("int", n) \in Words /\ Word("argv", n) \in Words
                    /\ Word("env", n) \in Words /\ Word("junk", n) \in Words
  BY DEF Zero, Word, Words

(* What a step that leaves the parameters of start alone leaves alone.     *)
LEMMA SameParameters ==
  ASSUME UNCHANGED <<argc, nenv, top>>
  PROVE  Pad' = Pad /\ Bottom' = Bottom /\ \A k : EnvWord(k)' = EnvWord(k)
  BY DEF Pad, Bottom, WordsToPush, EnvWord

LEMMA InitEstablishes == StartInit => StackInv
  BY DEF StartInit, StackInv, Building

LEMMA BeginEstablishes == StartBegins => StackInv'
<1>1. SUFFICES ASSUME StartBegins PROVE StackInv'
  OBVIOUS
<1>2. Shape'
  BY <1>1, StartAssumption, WordTypes DEF StartBegins, Shape
<1>3. QED
  BY <1>1, <1>2 DEF StartBegins, StackInv, Pointer, Filled, EnvBegun, NullPushed, Pushed

LEMMA StartPreserves ==
  ASSUME StackInv, phase \in Building,
         Align \/ PushAux \/ PushEnv \/ PushNull \/ PushArgv \/ PushArgc
  PROVE  StackInv'
<1>1. Shape /\ Pointer /\ Filled
  BY DEF StackInv
<1>2. /\ Pad \in 0 .. 1 /\ Bottom \in 0 .. top - 1 /\ Bottom % 2 = 0
      /\ Bottom + argc + nenv + 4 + Pad = top
  BY <1>1, BottomAligned
<1>3. Pad' = Pad /\ Bottom' = Bottom /\ \A k : EnvWord(k)' = EnvWord(k)
  BY SameParameters DEF Align, PushAux, PushEnv, PushNull, PushArgv, PushArgc
<1> USE DEF Building, EnvBegun, NullPushed, Pushed
<1>4. CASE Align
  <2>1. sp = top /\ env = nenv /\ phase = "align" /\ phase' = "aux"
    BY <1>1, <1>4 DEF Align, Pointer
  <2>2. Shape'
    BY <1>1, <1>4, <2>1, WordTypes DEF Align, Push, Shape
  <2>3. Pointer'
    BY <1>1, <1>2, <1>3, <1>4, <2>1 DEF Align, Push, Pointer, Pad, Shape, WordsToPush
  <2>4. QED
    BY <2>1, <2>2, <2>3 DEF StackInv, Filled
<1>5. CASE PushAux
  <2>1. phase = "aux" /\ phase' = "env" /\ sp = top - Pad /\ env = nenv
    BY <1>1, <1>5 DEF PushAux, Pointer
  <2>2. Shape'
    BY <1>1, <1>2, <1>5, <2>1, WordTypes DEF PushAux, Push, Shape
  <2>3. Pointer'
    BY <1>1, <1>2, <1>3, <1>5, <2>1 DEF PushAux, Push, Pointer, Shape
  <2>4. Filled'
    BY <1>1, <1>2, <1>3, <1>5, <2>1 DEF PushAux, Push, Filled, Shape
  <2>5. QED
    BY <2>1, <2>2, <2>3, <2>4 DEF StackInv
<1>6. CASE PushEnv
  <2>1. phase = "env" /\ env \in -1 .. nenv /\ sp = Bottom + argc + 3 + env
    BY <1>1, <1>6 DEF PushEnv, Pointer
  <2>2. CASE env >= 0
    <3>1. /\ sp' = sp - 1 /\ mem' = [mem EXCEPT ![sp - 1] = EnvWord(env)]
          /\ env' = env - 1 /\ phase' = "env"
          /\ argc' = argc /\ nenv' = nenv /\ top' = top
      BY <1>6, <2>1, <2>2 DEF PushEnv, Push
    <3>2. EnvWord(env) \in Words
      BY <2>1, <2>2, WordTypes DEF EnvWord
    <3>3. Shape'
      BY <1>1, <1>2, <2>1, <2>2, <3>1, <3>2 DEF Shape
    <3>4. Pointer'
      BY <1>1, <1>2, <1>3, <2>1, <2>2, <3>1 DEF Pointer, Shape
    <3>5. Filled'
      BY <1>1, <1>2, <1>3, <2>1, <2>2, <3>1 DEF Filled, Shape
    <3>6. QED
      BY <3>3, <3>4, <3>5 DEF StackInv
  <2>3. CASE ~(env >= 0)
    <3>1. phase' = "null" /\ UNCHANGED <<sp, mem, env, argc, nenv, top>>
      BY <1>6, <2>1, <2>3 DEF PushEnv
    <3>2. env = -1
      BY <1>1, <2>1, <2>3 DEF Shape
    <3>3. Shape'
      BY <1>1, <2>1, <3>1 DEF Shape
    <3>4. Pointer'
      BY <1>1, <1>2, <1>3, <2>1, <3>1, <3>2 DEF Pointer, Shape
    <3>5. Filled'
      BY <1>1, <1>3, <2>1, <3>1, <3>2 DEF Filled
    <3>6. QED
      BY <3>3, <3>4, <3>5 DEF StackInv
  <2>4. QED
    BY <2>2, <2>3
<1>7. CASE PushNull
  <2>1. /\ phase = "null" /\ env = -1 /\ sp = Bottom + argc + 2 /\ phase' = "argv"
        /\ i' = argc - 1 /\ env' = env /\ sp' = sp - 1
        /\ mem' = [mem EXCEPT ![sp - 1] = Zero]
        /\ argc' = argc /\ nenv' = nenv /\ top' = top
    BY <1>1, <1>7 DEF PushNull, Push, Pointer
  <2>2. Shape'
    BY <1>1, <1>2, <2>1, WordTypes DEF Shape
  <2>3. Pointer'
    BY <1>1, <1>2, <1>3, <2>1 DEF Pointer, Shape
  <2>4. Filled'
    BY <1>1, <1>2, <1>3, <2>1 DEF Filled, Shape
  <2>5. QED
    BY <2>1, <2>2, <2>3, <2>4 DEF StackInv
<1>8. CASE PushArgv
  <2>1. /\ phase = "argv" /\ env = -1 /\ i \in -1 .. argc - 1 /\ sp = Bottom + 2 + i
        /\ env' = env /\ argc' = argc /\ nenv' = nenv /\ top' = top
    BY <1>1, <1>8 DEF PushArgv, Pointer
  <2>2. CASE i >= 0
    <3>1. /\ sp' = sp - 1 /\ mem' = [mem EXCEPT ![sp - 1] = Word("argv", i)]
          /\ i' = i - 1 /\ phase' = "argv"
      BY <1>8, <2>1, <2>2 DEF PushArgv, Push
    <3>2. Word("argv", i) \in Words
      BY <1>1, <2>1, <2>2, WordTypes DEF Shape
    <3>3. Shape'
      BY <1>1, <1>2, <2>1, <2>2, <3>1, <3>2 DEF Shape
    <3>4. Pointer'
      BY <1>1, <1>2, <1>3, <2>1, <2>2, <3>1 DEF Pointer, Shape
    <3>5. Filled'
      BY <1>1, <1>2, <1>3, <2>1, <2>2, <3>1 DEF Filled, Shape
    <3>6. QED
      BY <3>3, <3>4, <3>5 DEF StackInv
  <2>3. CASE ~(i >= 0)
    <3>1. phase' = "argc" /\ UNCHANGED <<sp, mem, i>>
      BY <1>8, <2>1, <2>3 DEF PushArgv
    <3>2. i = -1
      BY <1>1, <2>1, <2>3 DEF Shape
    <3>3. Shape'
      BY <1>1, <2>1, <3>1 DEF Shape
    <3>4. Pointer'
      BY <1>1, <1>2, <1>3, <2>1, <3>1, <3>2 DEF Pointer, Shape
    <3>5. Filled'
      BY <1>1, <1>3, <2>1, <3>1, <3>2 DEF Filled
    <3>6. QED
      BY <3>3, <3>4, <3>5 DEF StackInv
  <2>4. QED
    BY <2>2, <2>3
<1>9. CASE PushArgc
  <2>1. /\ phase = "argc" /\ env = -1 /\ i = -1 /\ sp = Bottom + 1
        /\ phase' = "jump" /\ sp' = sp - 1
        /\ mem' = [mem EXCEPT ![sp - 1] = Word("int", argc)]
        /\ UNCHANGED <<env, i, argc, nenv, top>>
    BY <1>1, <1>9 DEF PushArgc, Push, Pointer
  <2>2. Shape'
    BY <1>1, <1>2, <2>1, WordTypes DEF Shape
  <2>3. Pointer'
    BY <1>1, <1>2, <1>3, <2>1 DEF Pointer, Shape
  <2>4. Filled'
    BY <1>1, <1>2, <1>3, <2>1 DEF Filled, Shape
  <2>5. QED
    BY <2>1, <2>2, <2>3, <2>4 DEF StackInv
<1>10. QED
  BY <1>4, <1>5, <1>6, <1>7, <1>8, <1>9

(* Every other step leaves the stack alone, or precedes it.                *)
LEMMA OthersPreserve ==
  ASSUME StackInv,
         \/ CreateMainThread \/ LoadExecutableThrows \/ LoadReturns
         \/ \E e : LoadExecutable(e) \/ Load(e)
         \/ JumpToEntry \/ UNCHANGED startVars
  PROVE  StackInv'
<1>1. CASE UNCHANGED startVars
  BY <1>1 DEF startVars, StackInv, Shape, Pointer, Filled, Pad, Bottom, WordsToPush, EnvWord
<1>2. CASE JumpToEntry
  BY <1>2 DEF JumpToEntry, StackInv, Shape, Pointer, Filled, Pad, Bottom, WordsToPush,
     EnvWord, Building, EnvBegun, NullPushed, Pushed
<1>3. CASE \/ CreateMainThread \/ LoadExecutableThrows \/ LoadReturns
           \/ \E e : LoadExecutable(e) \/ Load(e)
  <2>1. phase' \notin Building
    BY <1>3 DEF CreateMainThread, LoadExecutableThrows, LoadReturns, LoadExecutable,
       Load, LoadedAt, Building
  <2>2. QED
    BY <2>1 DEF StackInv
<1>4. QED
  BY <1>1, <1>2, <1>3

LEMMA StartPreservesAll == StackInv /\ Start => StackInv'
<1>1. SUFFICES ASSUME StackInv, Start PROVE StackInv'
  OBVIOUS
<1>2. CASE StartBegins
  BY <1>2, BeginEstablishes
<1>3. CASE Align \/ PushAux \/ PushEnv \/ PushNull \/ PushArgv \/ PushArgc
  <2>1. phase \in Building
    BY <1>3 DEF Align, PushAux, PushEnv, PushNull, PushArgv, PushArgc, Building
  <2>2. QED
    BY <1>1, <1>3, <2>1, StartPreserves
<1>4. QED
  BY <1>1, <1>2, <1>3, OthersPreserve DEF Start

LEMMA NextPreserves == StackInv /\ [StartNext]_startVars => StackInv'
  BY OthersPreserve, StartPreservesAll DEF StartNext

(* Once start has pushed everything the stack is the one of the ABI.        *)
LEMMA StackIsAbi == StackInv => EntersWithAbiStack
<1>1. SUFFICES ASSUME StackInv, phase = "entered" PROVE EntersWithAbiStack
  BY DEF EntersWithAbiStack
<1>2. Shape /\ Pointer /\ Filled
  BY <1>1 DEF StackInv, Building
<1>3. Bottom \in 0 .. top - 1 /\ Bottom % 2 = 0
  BY <1>2, BottomAligned
<1>4. sp = Bottom /\ env = -1 /\ i = -1
  BY <1>1, <1>2 DEF Pointer, Pushed
<1>5. /\ mem[Bottom + argc + nenv + 3] = Zero
      /\ \A k \in 0 .. nenv : mem[Bottom + 2 + argc + k] = EnvWord(k)
      /\ mem[Bottom + 1 + argc] = Zero
      /\ \A k \in 0 .. argc - 1 : mem[Bottom + 1 + k] = Word("argv", k)
      /\ mem[Bottom] = Word("int", argc)
  BY <1>1, <1>2, <1>4 DEF Filled, EnvBegun, NullPushed, Pushed
<1>6. /\ mem[Bottom + 2 + argc + nenv] = Zero
      /\ \A k \in 0 .. nenv - 1 : mem[Bottom + 2 + argc + k] = Word("env", k)
  BY <1>2, <1>5 DEF EnvWord, Shape
<1>7. Bottom + 3 + argc + nenv = Bottom + argc + nenv + 3
  BY <1>2, <1>3 DEF Shape
<1>8. QED
  BY <1>3, <1>4, <1>5, <1>6, <1>7 DEF EntersWithAbiStack

(* The stack of a program is the ABI's when it is entered                  *)
(* (EntersWithAbiStack), whatever start was given.                         *)
THEOREM AbiStack == StartSpec => []EntersWithAbiStack
  BY InitEstablishes, NextPreserves, StackIsAbi, PTL DEF StartSpec

-----------------------------------------------------------------------------
Constructing(p) == call.op = "construct" /\ call.path = p

\* A constructor holds a descriptor of its own once open has returned.
FdsInv ==
  /\ elfFiles \subseteq Paths
  /\ "op" \in DOMAIN call
  /\ call.op = "construct" => /\ {"path", "stage"} \subseteq DOMAIN call
                              /\ call.path \in Paths /\ call.stage \in 1 .. 4
  /\ fds \in [Paths -> Nat]
  /\ \A p \in Paths :
       fds[p] = (IF p \in elfFiles THEN 1 ELSE 0)
                  + (IF Constructing(p) /\ call.stage > 1 THEN 1 ELSE 0)

(* Every system call of the constructor, whether it succeeds or fails,     *)
(* leaves each descriptor with the file of the map or with the constructor *)
(* that opened it.                                                         *)
LEMMA ElfPreservesFds == FdsInv /\ ElfNext => FdsInv'
<1> SUFFICES ASSUME FdsInv, ElfNext PROVE FdsInv'
  OBVIOUS
<1> USE ExecutableAssumption DEF FdsInv, Constructing, NoCall, Threw, Return
<1>1. CASE \E p \in Paths : GetElfFile(p)
  BY <1>1 DEF GetElfFile
<1>2. CASE ConstructorStep
  <2> DEFINE p == call.path
  <2>1. call.op = "construct" /\ p \in Paths /\ call.stage \in 1 .. 4 /\ Len(Stages) = 4
    BY <1>2 DEF ConstructorStep, Stages
  <2>2. CASE call.stage < 4
    <3>1. /\ call' = [call EXCEPT !.stage = @ + 1]
          /\ fds' = [fds EXCEPT ![p] = @ + (IF call.stage = 1 THEN 1 ELSE 0)]
          /\ UNCHANGED elfFiles
      BY <1>2, <2>1, <2>2 DEF ConstructorStep
    <3> QED BY <2>1, <2>2, <3>1
  <2>3. CASE call.stage = 4
    <3>1. /\ fds' = [fds EXCEPT ![p] = @ - (IF p \in elfFiles THEN 1 ELSE 0)]
          /\ elfFiles' = elfFiles \cup {p} /\ call'.op = "none"
      BY <1>2, <2>1, <2>3 DEF ConstructorStep
    <3>2. call' = [op |-> "none"]
      BY <1>2, <2>1, <2>3 DEF ConstructorStep
    <3> QED BY <2>1, <2>3, <3>1, <3>2
  <2> QED BY <2>1, <2>2, <2>3
<1>3. CASE ConstructorThrows
  BY <1>3 DEF ConstructorThrows, ConstructorFailsClosing
<1>4. CASE GetTable \/ GetTableThrows
  BY <1>4 DEF GetTable, GetTableThrows
<1>5. CASE LookupEnds
  <2>1. /\ call.op = "lookup" /\ UNCHANGED <<elfFiles, fds>>
        /\ \/ call' = NoCall
           \/ call' = [call EXCEPT !.what = "static", !.need = <<"strtab", "symtab">>]
    BY <1>5 DEF LookupEnds, Answer
  <2>2. ASSUME NEW c, c = [call EXCEPT !.what = "static"], "op" \in DOMAIN call
        PROVE  "op" \in DOMAIN c /\ c.op = call.op
    BY <2>2
  <2>3. ASSUME NEW c, NEW d, "op" \in DOMAIN c, NEW v, d = [c EXCEPT !.need = v]
        PROVE  "op" \in DOMAIN d /\ d.op = c.op
    BY <2>3
  <2>4. call'.op # "construct" /\ "op" \in DOMAIN call'
    BY <2>1, <2>2, <2>3
  <2> QED BY <2>1, <2>4
<1>6. CASE \E p \in Paths, name \in Names :
             \/ GetDynamicSymbol(p, name) \/ GetSymbol(p, name)
             \/ IterateOverRelocations(p, name)
  BY <1>6 DEF GetDynamicSymbol, GetSymbol, IterateOverRelocations, Lookup
<1> QED BY <1>1, <1>2, <1>3, <1>4, <1>5, <1>6 DEF ElfNext

(* DescriptorsMatchFiles: between two calls one descriptor is open for     *)
(* each file of the map and no other, whichever system calls of earlier    *)
(* constructors failed and however often a file was asked for.             *)
THEOREM DescriptorsExact == Spec => []DescriptorsMatchFiles
<1>1. Init => FdsInv
  BY DEF Init, ElfInit, FdsInv, Constructing, NoCall
<1>2. FdsInv /\ [Next]_vars => FdsInv'
  <2>1. SUFFICES ASSUME FdsInv, [Next]_vars PROVE FdsInv'
    OBVIOUS
  <2>2. ElfNext \/ UNCHANGED elfVars
    BY <2>1, ExecutableAssumption
    DEF Next, Searches, Creates, Opens, Loads, LibraryLoads, Fails, Starts, ElfNext, vars
  <2>3. CASE UNCHANGED elfVars
    BY <2>1, <2>3 DEF elfVars, FdsInv, Constructing
  <2>4. QED
    BY <2>1, <2>2, <2>3, ElfPreservesFds
<1>3. FdsInv => DescriptorsMatchFiles
  BY DEF FdsInv, DescriptorsMatchFiles, Constructing
<1>4. QED
  BY <1>1, <1>2, <1>3, PTL DEF Spec
=============================================================================
