------------------------------- MODULE Launch -------------------------------
(***************************************************************************)
(* loadExecutable on top of ElfFile: the main thread of a spied program    *)
(* makes the DynamicModule of its executable, which opens its ELF file     *)
(* (DynamicModule.cpp 25-27), and takes the entry point from it; start     *)
(* follows.  The program's namespace has its own copy of the library, in   *)
(* which nothing else is opened; the searches are those of the tester's    *)
(* copy, where no program starts.                                          *)
(***************************************************************************)
EXTENDS ElfFile, ProgramStart

CONSTANT Executable

ASSUME ExecutableAssumption == Executable \in Paths

vars == <<elfVars, startVars>>

Init == ElfInit /\ StartInit

\* getEntryPoint, which takes the offset 0 for no entry point.
EntryPoint(c) == IF c.entry = 0 THEN 0 ELSE c.base + c.entry

\* openHandle has succeeded; the constructor's getElfFile returns or throws.
Loads ==
  /\ phase = "load" /\ call = NoCall /\ Executable \in elfFiles
  /\ LoadExecutable(EntryPoint(content[Executable]))
  /\ UNCHANGED elfVars

\* openHandle throws, or getElfFile has; dlopen or dlinfo fails.
Fails ==
  /\ call = NoCall /\ elfFiles = {}
  /\ LoadExecutableThrows \/ LoadReturns
  /\ UNCHANGED elfVars

LibraryLoads ==
  /\ Load(content[Executable].base + content[Executable].entry)
  /\ UNCHANGED elfVars

Creates == calls = 0 /\ CreateMainThread /\ UNCHANGED elfVars

Starts == Start /\ UNCHANGED elfVars

Searches == phase = "none" /\ ElfNext /\ UNCHANGED startVars

\* The main thread opens its executable.
Opens ==
  /\ phase = "load" /\ way = "namespace"
  /\ (calls = 0 /\ GetElfFile(Executable)) \/ ConstructorStep \/ ConstructorThrows
  /\ UNCHANGED startVars

Next == Searches \/ Creates \/ Opens \/ Loads \/ LibraryLoads \/ Fails \/ Starts

Spec == Init /\ [][Next]_vars
=============================================================================
