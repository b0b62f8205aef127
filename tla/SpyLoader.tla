------------------------------ MODULE SpyLoader ------------------------------
(***************************************************************************)
(* The namespaces of SpyLoader (source/SpyLoader.cpp) and the life of a    *)
(* DynamicNamespace (source/DynamicNamespace.cpp): createSpiedNamespaces   *)
(* fills a pool of dynamic-linker namespaces and registers the functions   *)
(* of each one's libpthread and libc; afterwards every SpiedProgram takes  *)
(* a namespace from the pool and gives it back.                            *)
(*                                                                         *)
(* createSpiedNamespaces registers the functions through a temporary       *)
(* DynamicNamespace, which itself takes an id from the pool, the lowest    *)
(* one: that this is the id just inserted is nowhere stated.               *)
(*                                                                         *)
(* The pool has no mutex: programs are constructed and destroyed by one    *)
(* thread here.                                                            *)
(***************************************************************************)
EXTENDS Integers, Sequences, FiniteSets

CONSTANTS
  Requested,  \* SPIED_NAMESPACES_NB
  Programs,   \* the DynamicNamespaces of SpiedPrograms, each built repeatedly
  NoOwner,    \* owner of an id that is not in _usedNamespace
  MaxFailures \* bound: constructors that throw

ASSUME LoaderAssumption ==
  /\ Requested \in Nat \ {0}
  /\ NoOwner \notin Programs \cup (1 .. Requested)
  /\ Programs \cap (1 .. Requested) = {}
  /\ MaxFailures \in Nat

Ids == 1 .. Requested        \* 0 is the base namespace
Callers == -2                \* what reserveNamespaceId returns when none is left
Temporaries == 1 .. Requested \* the list of line 123, by iteration

VARIABLES
  phase,    \* "creating", "running", or "aborted" by an exception at startup
  turn,     \* iterations of createSpiedNamespaces made
  loaded,   \* the namespaces that exist in the dynamic linker
  avl,      \* _avlNamespaceId
  used,     \* _usedNamespace: [id -> the DynamicNamespace referred to]
  idOf,     \* _id of each DynamicNamespace that is alive, or 0
  wrapped,  \* the namespaces in the function vectors, in order
  failures, \* constructors that have thrown
  leaked    \* history: ids whose DynamicNamespace was never completed

vars == <<phase, turn, loaded, avl, used, idOf, wrapped, failures, leaked>>

Owners == Programs \cup Temporaries
Lowest(S) == CHOOSE i \in S : \A j \in S : i <= j

\* SpyLoader(): the base namespace is wrapped first.
Init ==
  /\ phase = "creating" /\ turn = 0
  /\ loaded = {} /\ avl = {}
  /\ used = [i \in Ids |-> NoOwner]
  /\ idOf = [o \in Owners |-> 0]
  /\ wrapped = <<0>>
  /\ failures = 0 /\ leaked = {}

-----------------------------------------------------------------------------
(* createSpiedNamespaces.                                                  *)

\* dlmopen fails, or dlinfo does once the namespace is there.
CreateFails ==
  /\ phase = "creating" /\ turn < Requested
  /\ turn' = turn + 1
  /\ loaded' \in {loaded, loaded \cup {Lowest(Ids \ loaded)}}
  /\ UNCHANGED <<phase, avl, used, idOf, wrapped, failures, leaked>>

\* The functions of a namespace's libpthread and libc join the vectors.
UpdateWrappedFunctions(id) == wrapped' = Append(wrapped, id)

CreateWith(o, released) ==
  /\ phase = "creating" /\ turn < Requested
  /\ LET new == Lowest(Ids \ loaded)
         pool == avl \cup {new}
         id == Lowest(pool)
     IN  /\ loaded' = loaded \cup {new}
         /\ UpdateWrappedFunctions(id)
         /\ IF released THEN avl' = pool /\ UNCHANGED <<used, idOf>>
            ELSE /\ avl' = pool \ {id}
                 /\ used' = [used EXCEPT ![id] = o]
                 /\ idOf' = [idOf EXCEPT ![o] = id]
  /\ turn' = turn + 1
  /\ UNCHANGED <<phase, failures, leaked>>

\* Mutant: the temporary is destroyed at the end of the iteration.
CreateAndRelease == CreateWith(turn + 1, TRUE)

\* The id is inserted, a temporary reserves one, and that one is wrapped.
Create == CreateWith(turn + 1, FALSE)

\* The temporary's constructor throws, which nothing catches at startup, or
\* a function is missing from the namespace's libraries: fatal_log aborts.
CreateThrows ==
  /\ phase = "creating" /\ turn < Requested
  /\ phase' = "aborted"
  /\ UNCHANGED <<turn, loaded, avl, used, idOf, wrapped, failures, leaked>>

\* releaseNamespaceId of each temporary, when the list is destroyed.
CreationEnds ==
  /\ phase = "creating" /\ turn = Requested
  /\ phase' = "running"
  /\ avl' = avl \cup {i \in Ids : used[i] \in Temporaries}
  /\ used' = [i \in Ids |-> IF used[i] \in Temporaries THEN NoOwner ELSE used[i]]
  /\ idOf' = [o \in Owners |-> IF o \in Temporaries THEN 0 ELSE idOf[o]]
  /\ UNCHANGED <<turn, loaded, wrapped, failures, leaked>>

-----------------------------------------------------------------------------
(* DynamicNamespace(argc, argv, envp) and its destructor.                  *)

Reserve(p, complete) ==
  LET id == Lowest(avl)
  IN  /\ avl' = avl \ {id}
      /\ used' = [used EXCEPT ![id] = p]
      /\ idOf' = IF complete THEN [idOf EXCEPT ![p] = id] ELSE idOf
      /\ leaked' = IF complete THEN leaked ELSE leaked \cup {id}

Construct(p) ==
  /\ phase = "running" /\ idOf[p] = 0
  /\ avl # {}
  /\ Reserve(p, TRUE)
  /\ UNCHANGED <<phase, turn, loaded, wrapped, failures>>

\* No id left: -2 is returned, which dlmopen takes for the namespace of its
\* caller (glibc's __LM_ID_CALLER), and the construction goes on there.
ConstructUnpooled(p) ==
  /\ phase = "running" /\ idOf[p] = 0
  /\ avl = {}
  /\ idOf' = [idOf EXCEPT ![p] = Callers]
  /\ UNCHANGED <<phase, turn, loaded, avl, used, wrapped, failures, leaked>>

\* getLinkMap or the loader's DynamicModule throws: _id is not released.
ConstructThrows(p) ==
  /\ phase = "running" /\ idOf[p] = 0
  /\ avl # {} /\ failures < MaxFailures
  /\ Reserve(p, FALSE)
  /\ failures' = failures + 1
  /\ UNCHANGED <<phase, turn, loaded, wrapped>>

\* createMainThread is not found: the id is released, then the body throws.
SymbolMissing(p) ==
  /\ phase = "running" /\ idOf[p] = 0
  /\ avl # {} /\ failures < MaxFailures
  /\ failures' = failures + 1
  /\ UNCHANGED <<phase, turn, loaded, avl, used, idOf, wrapped, leaked>>

\* Mutant: the id leaves the map and is not made available.
DestroyForgetting(p) ==
  /\ phase = "running" /\ idOf[p] # 0
  /\ used' = [i \in Ids |-> IF i = idOf[p] THEN NoOwner ELSE used[i]]
  /\ idOf' = [idOf EXCEPT ![p] = 0]
  /\ UNCHANGED <<phase, turn, loaded, avl, wrapped, failures, leaked>>

\* releaseNamespaceId does nothing with an id that is not in the map.
Destroy(p) ==
  /\ phase = "running" /\ idOf[p] # 0
  /\ LET held == {i \in Ids : i = idOf[p] /\ used[i] # NoOwner}
     IN  /\ avl' = avl \cup held
         /\ used' = [i \in Ids |-> IF i \in held THEN NoOwner ELSE used[i]]
  /\ idOf' = [idOf EXCEPT ![p] = 0]
  /\ UNCHANGED <<phase, turn, loaded, wrapped, failures, leaked>>

-----------------------------------------------------------------------------
Next ==
  \/ CreateFails \/ Create \/ CreateThrows \/ CreationEnds
  \/ \E p \in Programs :
       Construct(p) \/ ConstructUnpooled(p) \/ ConstructThrows(p)
         \/ SymbolMissing(p) \/ Destroy(p)

Spec == Init /\ [][Next]_vars

-----------------------------------------------------------------------------
InUse == {i \in Ids : used[i] # NoOwner}

(* The functions of every namespace a program can get are registered, once *)
(* (line 143 wraps the id that line 142 inserted): otherwise its threads'  *)
(* keys and static TLS are not kept coherent.                              *)
EveryIdWrappedOnce ==
  \A i \in avl \cup InUse : Cardinality({k \in DOMAIN wrapped : wrapped[k] = i}) = 1

(* A namespace whose functions are registered is in one place: it can be   *)
(* reserved, or belongs to one live DynamicNamespace, to which             *)
(* _usedNamespace refers (getCurrentNamespace goes through these           *)
(* references), or was left behind by a constructor that threw before      *)
(* line 47.  So no two programs share one and none is lost, however many   *)
(* come and go, and whichever constructors throw.                          *)
PoolExact ==
  \A i \in {wrapped[k] : k \in DOMAIN wrapped} \ {0} :
    LET owners == {o \in Owners : idOf[o] = i}
    IN  \/ i \in avl /\ owners = {} /\ used[i] = NoOwner
        \/ i \notin avl /\ owners = {used[i]}
        \/ i \notin avl /\ owners = {} /\ i \in leaked /\ used[i] # NoOwner
=============================================================================
