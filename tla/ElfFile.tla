------------------------------ MODULE ElfFile ------------------------------
(***************************************************************************)
(* ElfFile (source/ElfFile.cpp) and the searches DynamicModule makes in    *)
(* its tables (source/DynamicModule.cpp 25-92, 134-156).  A file is a      *)
(* sequence of sections; a table is read the first time it is asked for    *)
(* and kept.  Reading can fail at every system call, which throws through  *)
(* the caller.  One thread calls, as no operation takes a lock.            *)
(***************************************************************************)
EXTENDS Integers, Sequences, SequencesExt, FiniteSets

CONSTANTS
  Paths,     \* the files asked for
  Contents,  \* what a file may be (see MCLaunch)
  Names,     \* the symbols searched for
  MaxCalls,  \* bound: calls
  MaxFaults  \* bound: system calls that fail

Tables == {"dynamic", "symtab", "dynsym", "strtab", "dynstr", "rela"}

ASSUME ElfAssumption ==
  /\ MaxCalls \in Nat /\ MaxFaults \in Nat
  /\ \A c \in Contents : c.shstrndx \in DOMAIN c.sections

VARIABLES
  content,   \* the file at each path
  elfFiles,  \* the paths in the map elfFiles
  cache,     \* the optionals: <<>> or <<vector>>, by path and table
  fds,       \* descriptors open, by path
  call,      \* the call under way
  result,    \* what the last call returned or threw
  calls, faults,
  tainted    \* history: the tables a failed read left behind

elfVars == <<content, elfFiles, cache, fds, call, result, calls, faults, tainted>>

NoCall == [op |-> "none"]

ElfInit ==
  /\ content \in [Paths -> Contents]
  /\ elfFiles = {}
  /\ cache = [p \in Paths |-> [t \in Tables |-> <<>>]]
  /\ fds = [p \in Paths |-> 0]
  /\ call = NoCall /\ result = NoCall
  /\ calls = 0 /\ faults = 0 /\ tainted = {}

Return(value) == call' = NoCall /\ result' = value
Threw == [op |-> "threw"]

-----------------------------------------------------------------------------
(* getElfFile: emplace constructs an ElfFile in any case, then drops it    *)
(* when the map has one for the path.                                      *)

Stages == <<"open", "header", "seek", "sections">>

GetElfFile(p) ==
  /\ call = NoCall /\ calls < MaxCalls
  /\ call' = [op |-> "construct", path |-> p, stage |-> 1]
  /\ calls' = calls + 1
  /\ UNCHANGED <<content, elfFiles, cache, fds, result, faults, tainted>>

ConstructorStep ==
  /\ call.op = "construct"
  /\ LET p == call.path
     IN  IF call.stage < Len(Stages)
           THEN /\ call' = [call EXCEPT !.stage = @ + 1]
                /\ fds' = [fds EXCEPT ![p] = @ + (IF call.stage = 1 THEN 1 ELSE 0)]
                /\ UNCHANGED <<elfFiles, result>>
           ELSE /\ fds' = [fds EXCEPT ![p] = @ - (IF p \in elfFiles THEN 1 ELSE 0)]
                /\ elfFiles' = elfFiles \cup {p}
                /\ Return([op |-> "file", path |-> p])
  /\ UNCHANGED <<content, cache, calls, faults, tainted>>

ConstructorFailsClosing(n) ==
  /\ call.op = "construct" /\ faults < MaxFaults
  /\ faults' = faults + 1
  /\ fds' = [fds EXCEPT ![call.path] = @ - n]
  /\ Return(Threw)
  /\ UNCHANGED <<content, elfFiles, cache, calls, tainted>>

\* Mutant: the descriptor is closed only when the header cannot be read.
ConstructorThrowsLeaking ==
  ConstructorFailsClosing(IF call.stage = 2 THEN 1 ELSE 0)

\* open has failed, or the descriptor is closed before throwing.
ConstructorThrows == ConstructorFailsClosing(IF call.stage = 1 THEN 0 ELSE 1)

-----------------------------------------------------------------------------
(* The tables.                                                             *)

IsStrTab(c, i, alloc) ==
  c.sections[i].type = "STRTAB" /\ c.sections[i].alloc = alloc

\* Mutant: the section names are not told from the symbols' names.
SectionOfAny(c, t, i) ==
  CASE t = "strtab" -> IsStrTab(c, i, FALSE)
    [] t = "dynstr" -> IsStrTab(c, i, TRUE)
    [] OTHER -> c.sections[i].table = t

SectionOf(c, t, i) ==
  CASE t = "strtab" -> IsStrTab(c, i, FALSE) /\ i # c.shstrndx
    [] t = "dynstr" -> IsStrTab(c, i, TRUE) /\ i # c.shstrndx
    [] OTHER -> c.sections[i].table = t

\* The sections a getter reads: the first that fits; for getRela, all.
ToRead(c, t) ==
  LET fits == SetToSortSeq({i \in DOMAIN c.sections : SectionOf(c, t, i)},
                           LAMBDA i, j : i < j)
  IN  IF t = "rela" \/ fits = <<>> THEN fits ELSE <<Head(fits)>>

\* A vector: the sections read into it; 0 stands for one resized and not read.
Caching(p, t, vector) ==
  cache' = [cache EXCEPT ![p][t] = <<vector>>]

\* The optional has a value, or is given one and filled.
GetTable ==
  /\ call.op = "lookup" /\ call.need # <<>>
  /\ LET t == Head(call.need)
     IN  IF cache[call.path][t] # <<>>
           THEN UNCHANGED cache
           ELSE Caching(call.path, t, ToRead(content[call.path], t))
  /\ call' = [call EXCEPT !.need = Tail(@)]
  /\ UNCHANGED <<content, elfFiles, fds, result, calls, faults, tainted>>

\* readSection throws at the k-th section: the optional keeps its value.
GetTableThrows ==
  /\ call.op = "lookup" /\ call.need # <<>> /\ faults < MaxFaults
  /\ LET t == Head(call.need)
         all == ToRead(content[call.path], t)
     IN  /\ cache[call.path][t] = <<>>
         /\ \E k \in DOMAIN all :
              Caching(call.path, t, Append(SubSeq(all, 1, k - 1), 0))
         /\ tainted' = tainted \cup {<<call.path, t>>}
  /\ faults' = faults + 1
  /\ Return(Threw)
  /\ UNCHANGED <<content, elfFiles, fds, calls>>

Vector(p, t) == cache[p][t][1]

-----------------------------------------------------------------------------
(* The searches.  The name of a symbol is read in the string table the     *)
(* getter chose: it is the right one, or the name is another.              *)

Entries(p, t) ==
  FlattenSeq([k \in DOMAIN Vector(p, t) |->
                IF Vector(p, t)[k] = 0 THEN <<>>
                ELSE content[p].sections[Vector(p, t)[k]].entries])

Readable(p, strings) ==
  \E k \in DOMAIN content[p].sections :
    Vector(p, strings) = <<k>> /\ content[p].sections[k].table = strings

\* A function or an object, defined in the file, of that name.
Matches(sym, name) ==
  sym.kind \in {"FUNC", "OBJECT"} /\ sym.shndx # 0 /\ sym.name = name

\* The address of the first symbol that fits, or nullptr.
Search(p, t, strings, name) ==
  LET found == SelectSeq(Entries(p, t), LAMBDA sym : Matches(sym, name))
  IN  IF Readable(p, strings) /\ found # <<>>
        THEN content[p].base + Head(found).value ELSE 0

\* iterateOverRelocations with the search of WrappedFunction's constructor.
SearchRelocation(p, name) ==
  LET syms == Entries(p, "dynsym")
      found == SelectSeq(Entries(p, "rela"),
                         LAMBDA r : /\ r.kind \in {"GLOB_DAT", "JUMP_SLOT"}
                                    /\ r.sym \in DOMAIN syms
                                    /\ syms[r.sym].name = name)
  IN  IF Readable(p, "dynstr") /\ found # <<>>
        THEN content[p].base + Head(found).value ELSE 0

Lookup(p, what, name, need) ==
  /\ call = NoCall /\ calls < MaxCalls /\ p \in elfFiles
  /\ call' = [op |-> "lookup", path |-> p, what |-> what, name |-> name,
              need |-> need]
  /\ calls' = calls + 1
  /\ UNCHANGED <<content, elfFiles, cache, fds, result, faults, tainted>>

GetDynamicSymbol(p, name) == Lookup(p, "dynamic", name, <<"dynstr", "dynsym">>)
GetSymbol(p, name) == Lookup(p, "any", name, <<"dynstr", "dynsym">>)
IterateOverRelocations(p, name) ==
  Lookup(p, "slot", name, <<"dynstr", "dynsym", "rela">>)

Answer(value) ==
  Return([op |-> "answer", path |-> call.path, what |-> call.what,
          name |-> call.name, value |-> value])

\* The tables are there: they are searched, for getSymbol the dynamic ones
\* and then, read only in that case, the others.
LookupEnds ==
  /\ call.op = "lookup" /\ call.need = <<>>
  /\ LET dynamic == Search(call.path, "dynsym", "dynstr", call.name)
     IN  CASE call.what = "slot" -> Answer(SearchRelocation(call.path, call.name))
           [] call.what = "any" /\ dynamic = 0 ->
                /\ call' = [call EXCEPT !.what = "static",
                                        !.need = <<"strtab", "symtab">>]
                /\ UNCHANGED result
           [] call.what = "static" ->
                Answer(Search(call.path, "symtab", "strtab", call.name))
           [] OTHER -> Answer(dynamic)
  /\ UNCHANGED <<content, elfFiles, cache, fds, calls, faults, tainted>>

ElfNext ==
  \/ \E p \in Paths : GetElfFile(p)
  \/ ConstructorStep \/ ConstructorThrows \/ GetTable \/ GetTableThrows
  \/ LookupEnds
  \/ \E p \in Paths, name \in Names :
       \/ GetDynamicSymbol(p, name) \/ GetSymbol(p, name)
       \/ IterateOverRelocations(p, name)

-----------------------------------------------------------------------------
(* What the file really holds, whatever the order of its sections.         *)
EntriesIn(p, table) ==
  UNION {ToSet(content[p].sections[k].entries) :
           k \in {j \in DOMAIN content[p].sections :
                    content[p].sections[j].table = table}}

Truth(p, what, name) ==
  IF what = "slot"
    THEN {content[p].base + r.value :
            r \in {x \in EntriesIn(p, "rela") : /\ x.kind # "RELATIVE"
                                                /\ x.name = name}}
    ELSE {content[p].base + sym.value :
            sym \in {x \in EntriesIn(p, "dynsym") \cup
                           (IF what = "dynamic" THEN {} ELSE EntriesIn(p, "symtab")) :
                       Matches(x, name)}}

(* A search answers with an address of what was searched for, and with     *)
(* nullptr only when the file has none, whatever the order of the sections *)
(* and whichever tables earlier calls, or calls that threw, left in the    *)
(* cache.  This excepts a file one of whose tables could not be read once: *)
(* the optional got its value before the read threw (lines 69-74), and     *)
(* later calls search its zeros without an error.                          *)
SearchesTellTheTruth ==
  (result.op = "answer" /\ \A t \in Tables : <<result.path, t>> \notin tainted) =>
    LET truth == Truth(result.path, result.what, result.name)
    IN  IF result.value = 0 THEN truth = {} ELSE result.value \in truth

(* One descriptor stays open for every file of the map and none for a      *)
(* constructor that threw or whose file was there already.                 *)
DescriptorsMatchFiles ==
  call.op # "construct" =>
    \A p \in Paths : fds[p] = (IF p \in elfFiles THEN 1 ELSE 0)
=============================================================================
