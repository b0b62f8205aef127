------------------------------ MODULE Relinkage ------------------------------
(***************************************************************************)
(* Relinkage and the DynamicModules it joins (source/Relinkage.cpp,        *)
(* source/DynamicModule.cpp), driven by SpiedProgram::relink.  A relinkage *)
(* makes slots of a source module's global offset table point into a       *)
(* destination module; it exchanges the values in the slots with the ones  *)
(* it stores, so that the same function installs and removes it.           *)
(*                                                                         *)
(* Addresses are counted in words.  All of this runs in one thread of the  *)
(* tester: loop is the place where that thread is, and an operation that   *)
(* goes through modules is one step for each.  A relinkage's relocations   *)
(* are a function on the slots they are for.                               *)
(***************************************************************************)
EXTENDS Integers, Sequences

CONSTANTS
  Sources,    \* sequence: the modules of the current namespace, executable last
  Libs,       \* the libraries relinked to
  Needs,      \* [source -> the libraries in its DT_NEEDED]
  Layout,     \* [source -> its GLOB_DAT and JUMP_SLOT relocations, in order]
  Defines,    \* [library -> the names its dynamic symbol table defines]
  PageSize,   \* words in a page
  ReadWrite,  \* the pages writable when the source was loaded
  Failures,   \* which mprotect fails, among "none", "RW", "RO"
  MaxLoads    \* bound: objects created for one library

Modules == {Sources[i] : i \in DOMAIN Sources}
Slots == UNION {{Layout[s][i].slot : i \in DOMAIN Layout[s]} : s \in Modules}
Pages == {a \div PageSize : a \in Slots}

ASSUME LayoutAssumption ==
  /\ PageSize \in Nat \ {0} /\ MaxLoads \in Nat
  /\ Slots \subseteq Nat \ {0}
  /\ Failures \subseteq {"none", "RW", "RO"}
  /\ Sources \in Seq(Modules)
  /\ \A s \in Modules : Layout[s] \in Seq({Layout[s][i] : i \in DOMAIN Layout[s]})
  /\ \A s, t \in Modules : \A i \in DOMAIN Layout[s], j \in DOMAIN Layout[t] :
       Layout[s][i].slot = Layout[t][j].slot => (s = t /\ i = j)

VARIABLES
  got,      \* the slots: Orig, or the DynamicModule <<lib, n>> pointed into
  writable, \* the pages now writable
  out,      \* [source -> [library -> the Relinkage in _outRelinkages or None]]
  inRel,    \* [library -> sources of the object's _inRelinkages]
  object,   \* [library -> objects created so far]
  alive,    \* the libraries whose last object is not destroyed
  crash,    \* "no", "fault" or "dangling": the tester does not go on
  loop      \* the operation under way: lib, and the sources left, by index

vars == <<got, writable, out, inRel, object, alive, crash, loop>>

\* The value the dynamic linker left in a slot.
Orig == <<"orig", 0>>

None == [dest |-> <<>>, valid |-> FALSE, relocs |-> <<>>]

Idle == [op |-> "idle"]

Init ==
  /\ got = [a \in Slots |-> Orig]
  /\ writable = ReadWrite
  /\ out = [s \in Modules |-> [d \in Libs |-> None]]
  /\ inRel = [d \in Libs |-> {}]
  /\ object = [d \in Libs |-> 0]
  /\ alive = {}
  /\ crash = "no"
  /\ loop = Idle

-----------------------------------------------------------------------------
(* writeRelocations.                                                       *)

\* The relocations of s in slots that are above the lowest one before them:
\* the last one becomes highestRelaAddr, which stays 0 if there is none.
Raises(s, slots) ==
  {i \in DOMAIN Layout[s] :
     /\ Layout[s][i].slot \in slots
     /\ \E j \in 1 .. i - 1 : /\ Layout[s][j].slot \in slots
                              /\ Layout[s][j].slot < Layout[s][i].slot}

Lowest(S) == CHOOSE a \in S : \A b \in S : a <= b
Last(S) == CHOOSE a \in S : \A b \in S : b <= a

\* highestRelaAddr.
Highest(s, slots) == Layout[s][Last(Raises(s, slots))].slot

\* Mutant: the length is rounded down to whole pages.
TouchedShort(s, slots) ==
  (Lowest(slots) \div PageSize) .. ((Highest(s, slots) - 1) \div PageSize - 1)

\* The pages mprotect(low aligned, high - low aligned) changes.
Touched(s, slots) ==
  (Lowest(slots) \div PageSize) .. ((Highest(s, slots) - 1) \div PageSize)

Opened(s, slots) == writable \cup (Touched(s, slots) \cap Pages)

\* The loop that writes is reached; and it writes to a page that is not open.
Reached(s, relocs, failure) == Raises(s, DOMAIN relocs) # {} /\ failure # "RW"

Faults(s, relocs, failure) ==
  /\ Reached(s, relocs, failure)
  /\ \E a \in DOMAIN relocs : a \div PageSize \notin Opened(s, DOMAIN relocs)

Exchanges(s, relocs, failure) ==
  Reached(s, relocs, failure) /\ ~Faults(s, relocs, failure)

\* What the relinkage holds once its relocations are exchanged.
Stored(s, relocs, failure) ==
  IF Exchanges(s, relocs, failure) THEN [a \in DOMAIN relocs |-> got[a]] ELSE relocs

WriteRelocations(s, relocs, failure) ==
  IF Exchanges(s, relocs, failure)
    THEN /\ got' = [a \in Slots |-> IF a \in DOMAIN relocs THEN relocs[a] ELSE got[a]]
         /\ LET opened == Opened(s, DOMAIN relocs)
            IN  writable' = IF failure = "RO" THEN opened
                            ELSE opened \ Touched(s, DOMAIN relocs)
    ELSE UNCHANGED <<got, writable>>

-----------------------------------------------------------------------------
(* The life of a Relinkage.                                                *)

Exists(s, d) == out[s][d] # None

\* What invalidate has to write: nothing if it was called before.
Restored(s, d) == IF out[s][d].valid THEN out[s][d].relocs ELSE <<>>

Invalidate(s, d, failure) ==
  LET relocs == Restored(s, d)
  IN  /\ WriteRelocations(s, relocs, failure)
      /\ IF Faults(s, relocs, failure)
           THEN crash' = "fault" /\ UNCHANGED out
           ELSE /\ out' = IF out[s][d].valid
                            THEN [out EXCEPT ![s][d] =
                                    [dest |-> @.dest, valid |-> FALSE,
                                     relocs |-> Stored(s, relocs, failure)]]
                            ELSE out
                /\ UNCHANGED crash

\* ~Relinkage: the reference _destination may denote a destroyed module.
EraseKeeping(s, d, failure, registered) ==
  LET relocs == Restored(s, d)
  IN  /\ WriteRelocations(s, relocs, failure)
      /\ crash' = CASE Faults(s, relocs, failure) -> "fault"
                    [] d \notin alive \/ out[s][d].dest # <<d, object[d]>> -> "dangling"
                    [] OTHER -> "no"
      /\ IF crash' = "no"
           THEN /\ out' = [out EXCEPT ![s][d] = None]
                /\ inRel' = [inRel EXCEPT ![d] = registered]
           ELSE UNCHANGED <<out, inRel>>

\* Mutant: the destination keeps a pointer to the destroyed relinkage.
EraseUnregistered(s, d, failure) == EraseKeeping(s, d, failure, inRel[d])

Erase(s, d, failure) == EraseKeeping(s, d, failure, inRel[d] \ {s})

\* The slots of s whose name the library d defines.
Found(s, d) ==
  {Layout[s][i].slot : i \in {k \in DOMAIN Layout[s] : Layout[s][k].name \in Defines[d]}}

Construct(s, d, failure) ==
  LET dest == <<d, object[d]>>
      relocs == [a \in Found(s, d) |-> dest]
  IN  /\ WriteRelocations(s, relocs, failure)
      /\ IF Faults(s, relocs, failure)
           THEN crash' = "fault" /\ UNCHANGED <<out, inRel>>
           ELSE /\ out' = [out EXCEPT ![s][d] =
                             [dest |-> dest, valid |-> TRUE,
                              relocs |-> Stored(s, relocs, failure)]]
                /\ inRel' = [inRel EXCEPT ![d] = @ \cup {s}]
                /\ UNCHANGED crash

-----------------------------------------------------------------------------
(* The operations.                                                         *)

\* DynamicNamespace::load.
Load(d) ==
  IF d \in alive THEN UNCHANGED <<object, alive, inRel>>
  ELSE /\ object' = [object EXCEPT ![d] = @ + 1]
       /\ alive' = alive \cup {d}
       /\ inRel' = [inRel EXCEPT ![d] = {}]

\* SpiedProgram::relink, which returns at once when it cannot load.
Relink(d) ==
  /\ crash = "no" /\ loop = Idle
  /\ d \in alive \/ object[d] < MaxLoads
  /\ Load(d)
  /\ loop' = [op |-> "relink", lib |-> d, left |-> DOMAIN Sources]
  /\ UNCHANGED <<got, writable, out, crash>>

In(op) == crash = "no" /\ loop.op = op

First(i) == i \in loop.left /\ \A j \in loop.left : i <= j

Skip(i) == [loop EXCEPT !.op = "relink", !.left = @ \ {i}]

\* DynamicModule::relink, up to the new relinkage.
RelinkModule(i) ==
  /\ In("relink") /\ First(i)
  /\ LET s == Sources[i]  d == loop.lib
     IN  IF d \notin Needs[s]
           THEN loop' = Skip(i) /\ UNCHANGED <<got, writable, out, inRel, crash>>
           ELSE /\ loop' = [loop EXCEPT !.op = "emplace"]
                /\ IF Exists(s, d) THEN \E failure \in Failures : Erase(s, d, failure)
                                   ELSE UNCHANGED <<got, writable, out, inRel, crash>>
  /\ UNCHANGED <<object, alive>>

Emplace(i) ==
  /\ In("emplace") /\ First(i)
  /\ \E failure \in Failures : Construct(Sources[i], loop.lib, failure)
  /\ loop' = Skip(i)
  /\ UNCHANGED <<object, alive>>

\* No module is left; or reading an ELF section throws, before the module's
\* old relinkage is erased or in the constructor of the new one.
RelinkEnds ==
  /\ In("relink") \/ In("emplace")
  /\ loop' = Idle
  /\ UNCHANGED <<got, writable, out, inRel, object, alive, crash>>

\* DynamicModule::unrelink.
Unrelink(s, d) ==
  /\ crash = "no" /\ loop = Idle
  /\ Exists(s, d)
  /\ \E failure \in Failures : Erase(s, d, failure)
  /\ UNCHANGED <<object, alive, loop>>

\* Mutant: a module is closed without invalidating what points into it.
UnloadOnly(d) ==
  /\ crash = "no" /\ loop = Idle
  /\ d \in alive
  /\ loop' = [op |-> "unload", lib |-> d, left |-> {}]
  /\ UNCHANGED <<got, writable, out, inRel, object, alive, crash>>

\* ~DynamicModule of a library, when it is unloaded or its namespace is
\* destroyed.  The invalid relinkages stay in their sources' _outRelinkages.
Unload(d) ==
  /\ crash = "no" /\ loop = Idle
  /\ d \in alive
  /\ loop' = [op |-> "unload", lib |-> d,
              left |-> {i \in DOMAIN Sources : Sources[i] \in inRel[d]}]
  /\ UNCHANGED <<got, writable, out, inRel, object, alive, crash>>

\* The relinkages are in the order of their addresses, which is any order.
InvalidateIn(i) ==
  /\ In("unload") /\ i \in loop.left
  /\ \E failure \in Failures : Invalidate(Sources[i], loop.lib, failure)
  /\ loop' = [loop EXCEPT !.left = @ \ {i}]
  /\ UNCHANGED <<inRel, object, alive>>

Close ==
  /\ In("unload") /\ loop.left = {}
  /\ alive' = alive \ {loop.lib}
  /\ loop' = Idle
  /\ UNCHANGED <<got, writable, out, inRel, object, crash>>

Next ==
  \/ \E d \in Libs : Relink(d) \/ Unload(d) \/ \E s \in Modules : Unrelink(s, d)
  \/ \E i \in DOMAIN Sources : RelinkModule(i) \/ Emplace(i) \/ InvalidateIn(i)
  \/ RelinkEnds \/ Close

Spec == Init /\ [][Next]_vars

-----------------------------------------------------------------------------
(* Layouts and libraries for which SlotsExact holds.  Linkers sort the     *)
(* relocations of a section by address.                                    *)
SlotsAscend ==
  \A s \in Modules : \A i, j \in DOMAIN Layout[s] :
    i < j => Layout[s][i].slot < Layout[s][j].slot

\* Otherwise the order in which relinkages are removed matters (line 73).
NamesDisjoint == \A d, e \in Libs : d # e => Defines[d] \cap Defines[e] = {}

-----------------------------------------------------------------------------
(* A slot points into the library of the valid relinkage of its module     *)
(* that has its name, into the object alive now, and has the value that    *)
(* the dynamic linker gave it if there is no such relinkage: relinking     *)
(* takes effect, and removing a relinkage, or unloading what it points     *)
(* into, puts the previous relocation back.  A relinkage of a single       *)
(* relocation is registered and never written (line 60).                   *)
SlotsExact ==
  crash = "no" =>
    \A s \in Modules : \A i \in DOMAIN Layout[s] :
      LET by == {d \in Libs : /\ out[s][d].valid
                             /\ \E a, b \in DOMAIN out[s][d].relocs : a # b
                             /\ Layout[s][i].name \in Defines[d]}
      IN  IF by = {} THEN got[Layout[s][i].slot] = Orig
          ELSE \E d \in by \cap alive : got[Layout[s][i].slot] = <<d, object[d]>>

(* _inRelinkages holds pointers to live relinkages only, and all that are  *)
(* valid, until the destructor invalidates them: this is what              *)
(* ~DynamicModule goes through.                                            *)
InRelinkagesExact ==
  crash = "no" =>
    \A d \in alive, s \in Modules :
      \/ loop.op = "unload" /\ loop.lib = d
      \/ (s \in inRel[d]) <=> (out[s][d].valid /\ out[s][d].dest = <<d, object[d]>>)

\* The slots of a relinkage that mprotect, given the length up to
\* highestRelaAddr, does not reach: that slot if its page begins with it (line
\* 64), or slots above it that come earlier in the table (line 56).
Beyond(s, d) ==
  LET slots == Found(s, d)
  IN  {a \in slots : /\ Raises(s, slots) # {}
                     /\ (Highest(s, slots) - 1) \div PageSize < a \div PageSize}

\* The loop under way is at source s.
AtSource(s, d) ==
  loop.lib = d /\ \E i \in loop.left : Sources[i] = s /\ (loop.op = "unload" \/ First(i))

\* The relinkage that the next step may write.
Writing(s, d) ==
  /\ loop = Idle \/ AtSource(s, d)
  /\ out[s][d].valid \/ loop.op = "emplace"

(* A relinkage's write faults for a slot of its own that mprotect does not *)
(* reach, on a page that other relinkages have closed or that never was    *)
(* writable, and for no other reason: every other slot is written in a     *)
(* page opened for it, whatever relinking, removing and unloading did to   *)
(* the pages before.                                                       *)
WritesPermitted ==
  [][(crash = "no" /\ crash' = "fault") =>
       \E s \in Modules, d \in Libs :
         Writing(s, d) /\ \E a \in Beyond(s, d) : a \div PageSize \notin writable]_vars

(* mprotect leaves the pages as writable as they were.                     *)
ProtectionRestored == [][writable' = writable]_vars
=============================================================================
