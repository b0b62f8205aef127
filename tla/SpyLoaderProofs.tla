-------------------------- MODULE SpyLoaderProofs --------------------------
(***************************************************************************)
(* Proofs about SpyLoader, for any number of namespaces, of programs and   *)
(* of constructors that throw.  The two properties speak of what the       *)
(* vectors and the pool hold; what carries them is that the pool is empty  *)
(* whenever createSpiedNamespaces inserts an id (Creating), so that the    *)
(* temporary gets that very id, and that the ids come in ascending order   *)
(* (Loading).                                                              *)
(*                                                                         *)
(* And proofs about the thread keys (ThreadKeys), for any number of        *)
(* threads, of namespaces and of keys.  There the inductive invariant says *)
(* what the tables are in the middle of a call: the namespaces the loop    *)
(* has still to visit agree, and those it has visited differ from them by  *)
(* the key of the call.                                                    *)
(***************************************************************************)
EXTENDS SpyLoader, ThreadKeys, TLAPS, FiniteSetTheorems, WellFoundedInduction

Wrapped == {wrapped[k] : k \in DOMAIN wrapped}

Types ==
  /\ phase \in {"creating", "running", "aborted"}
  /\ turn \in 0 .. Requested
  /\ avl \in SUBSET Ids
  /\ used \in [Ids -> Owners \cup {NoOwner}]
  /\ idOf \in [Owners -> Ids \cup {0, Callers}]
  /\ wrapped \in Seq(Ids \cup {0})
  /\ leaked \in SUBSET Ids

\* The dynamic linker numbers the namespaces from 1 on, at most one a turn.
Loading == \E n \in 0 .. turn : loaded = 1 .. n

Creating ==
  phase = "creating" =>
    /\ avl = {} /\ leaked = {}
    /\ \A p \in Programs : idOf[p] = 0
    /\ \A o \in Temporaries : o > turn => idOf[o] = 0

Running == phase = "running" => \A o \in Temporaries : idOf[o] = 0

\* An id is registered when it can be reserved or has been, and then once.
Registered ==
  /\ Wrapped \subseteq loaded \cup {0}
  /\ \A i \in Ids : i \in Wrapped <=> (i \in avl \/ used[i] # NoOwner)
  /\ \A j, k \in DOMAIN wrapped : wrapped[j] = wrapped[k] => j = k

\* _usedNamespace and the _id of the objects agree; what is leaked stays so.
Reserved ==
  /\ \A i \in avl : used[i] = NoOwner
  /\ \A o \in Owners : idOf[o] \in Ids => used[idOf[o]] = o
  /\ \A i \in Ids : used[i] # NoOwner => (idOf[used[i]] = i \/ i \in leaked)
  /\ \A i \in leaked : /\ used[i] \in Programs
                       /\ \A o \in Owners : idOf[o] # i

IInv == Types /\ Loading /\ Creating /\ Running /\ Registered /\ Reserved

-----------------------------------------------------------------------------
(* The lowest of the ids in a set that is not empty.                       *)
LEMMA LowestIsLeast ==
  ASSUME NEW S \in SUBSET Ids, S # {}
  PROVE  Lowest(S) \in S /\ \A j \in S : Lowest(S) <= j
<1> DEFINE R == {ss \in Nat \X Nat : ss[1] < ss[2]}
<1>1. S \subseteq Nat
  BY LoaderAssumption DEF Ids
<1>2. IsWellFoundedOn(R, Nat)
  BY NatLessThanWellFounded DEF OpToRel
<1>3. \A x, y \in Nat : y < x => <<y, x>> \in R
  OBVIOUS
<1> HIDE DEF R
<1>4. PICK x \in S : \A y \in S : ~ (<<y, x>> \in R)
  BY <1>1, <1>2, WFMin
<1>5. \A y \in S : ~ (y < x)
  BY <1>1, <1>3, <1>4
<1>6. \A y \in S : x <= y
  BY <1>1, <1>5
<1> QED BY <1>6 DEF Lowest

(* The next namespace of the dynamic linker has the next number.           *)
LEMMA NextLoaded ==
  ASSUME NEW n \in Nat, n < Requested
  PROVE  Lowest(Ids \ (1 .. n)) = n + 1
<1> DEFINE S == Ids \ (1 .. n)
<1>1. S \in SUBSET Ids /\ n + 1 \in S
  BY LoaderAssumption DEF Ids
<1>2. Lowest(S) \in S /\ Lowest(S) <= n + 1
  BY <1>1, LowestIsLeast
<1> QED BY <1>2, LoaderAssumption DEF Ids

(* The elements of a sequence after Append.                                *)
LEMMA AppendElements ==
  ASSUME NEW T, NEW s \in Seq(T), NEW x \in T
  PROVE  /\ DOMAIN Append(s, x) = DOMAIN s \cup {Len(s) + 1}
         /\ Append(s, x)[Len(s) + 1] = x
         /\ \A k \in DOMAIN s : Append(s, x)[k] = s[k]
  OBVIOUS

(* At first only the base namespace is registered.                         *)
LEMMA InitIInv == Init => IInv
<1> SUFFICES ASSUME Init PROVE IInv
  OBVIOUS
<1> USE LoaderAssumption DEF Init
<1>1. Types
  BY DEF Types, Ids
<1>2. Loading
  <2>1. loaded = 1 .. 0
    OBVIOUS
  <2> QED BY <2>1 DEF Loading
<1>3. Creating /\ Running
  BY DEF Creating, Running, Owners, Temporaries
<1>4. Registered
  <2>1. Wrapped = {0}
    BY DEF Wrapped
  <2> QED BY <2>1 DEF Registered, Ids
<1>5. Reserved
  BY DEF Reserved, Ids, Owners
<1> QED BY <1>1, <1>2, <1>3, <1>4, <1>5 DEF IInv

(* createSpiedNamespaces: the pool being empty, the temporary is given the *)
(* id that was inserted, which was not registered before.                  *)
LEMMA CreatePreserves == IInv /\ Create => IInv'
<1> SUFFICES ASSUME IInv, Create PROVE IInv'
  OBVIOUS
<1> USE LoaderAssumption DEF IInv
<1>1. PICK n \in 0 .. turn : loaded = 1 .. n
  BY DEF Loading
<1> DEFINE new == n + 1
           o == turn + 1
<1>2. /\ n \in Nat /\ n < Requested /\ turn \in Nat /\ turn < Requested
      /\ phase = "creating" /\ avl = {}
  BY DEF Types, Create, CreateWith, Creating
<1>3. Lowest(Ids \ loaded) = new
  BY <1>1, <1>2, NextLoaded
<1>4. new \in Ids /\ new \notin loaded /\ o \in Temporaries /\ o \in Owners
  BY <1>1, <1>2 DEF Ids, Temporaries, Owners
<1>5. Lowest({new}) = new
  BY <1>2, <1>4, LowestIsLeast
<1>6. /\ loaded' = loaded \cup {new} /\ wrapped' = Append(wrapped, new)
      /\ avl' = {} /\ used' = [used EXCEPT ![new] = o]
      /\ idOf' = [idOf EXCEPT ![o] = new] /\ turn' = o
      /\ UNCHANGED <<phase, failures, leaked>>
  BY <1>2, <1>3, <1>5 DEF Create, CreateWith, UpdateWrappedFunctions
<1>7. /\ new \notin Wrapped /\ used[new] = NoOwner /\ idOf[o] = 0
      /\ \A p \in Owners : idOf[p] # new
  <2>1. new \notin Wrapped
    BY <1>2, <1>4 DEF Registered
  <2>2. used[new] = NoOwner
    BY <2>1, <1>4 DEF Registered
  <2>3. idOf[o] = 0
    BY <1>2, <1>4 DEF Creating
  <2>4. \A p \in Owners : p # NoOwner
    BY DEF Owners, Temporaries
  <2> QED BY <2>1, <2>2, <2>3, <2>4, <1>4 DEF Reserved
<1> HIDE DEF new, o
<1>8. /\ DOMAIN wrapped' = DOMAIN wrapped \cup {Len(wrapped) + 1}
      /\ wrapped'[Len(wrapped) + 1] = new
      /\ \A k \in DOMAIN wrapped : wrapped'[k] = wrapped[k]
  <2>1. wrapped \in Seq(Ids \cup {0}) /\ new \in Ids \cup {0}
    BY <1>4 DEF Types
  <2> QED BY <1>6, <2>1, AppendElements
<1>8a. Wrapped' = Wrapped \cup {new}
  BY <1>8 DEF Wrapped
<1>9. Types'
  BY <1>2, <1>4, <1>6 DEF Types, Ids, Temporaries, o
<1>10. Loading'
  <2>1. loaded' = 1 .. new
    BY <1>1, <1>2, <1>6 DEF new
  <2>2. new \in 0 .. turn'
    BY <1>1, <1>2, <1>6 DEF new, o
  <2> QED BY <2>1, <2>2 DEF Loading
<1>11. Creating' /\ Running'
  <2>1. \A p \in Programs : p # o /\ p \in Owners
    BY <1>4 DEF Temporaries, Owners
  <2>2. \A t \in Temporaries : t > o => (t > turn /\ t # o /\ t \in Owners)
    BY <1>2 DEF Temporaries, Owners, o
  <2> QED BY <1>2, <1>4, <1>6, <2>1, <2>2 DEF Creating, Running, Types
<1>12. Registered'
  <2>1. (Wrapped \subseteq loaded \cup {0})'
    BY <1>6, <1>8a DEF Registered
  <2>2. \A i \in Ids : i \in Wrapped' <=> (i \in avl' \/ used'[i] # NoOwner)
    <3>1. o # NoOwner
      BY <1>4 DEF Temporaries
    <3> QED BY <1>2, <1>4, <1>6, <1>8a, <3>1 DEF Registered, Types
  <2>3. \A k \in DOMAIN wrapped : wrapped[k] # new
    BY <1>7 DEF Wrapped
  <2>7. (\A j, k \in DOMAIN wrapped : wrapped[j] = wrapped[k] => j = k)'
    BY <1>8, <2>3 DEF Registered
  <2> QED BY <2>1, <2>2, <2>7 DEF Registered
<1>13. Reserved'
  <2>1. leaked = {} /\ o # NoOwner
    BY <1>2, <1>4 DEF Creating, Temporaries
  <2>2. idOf[o] \notin Ids
    BY <1>7 DEF Ids
  <2>3. \A i \in Ids : used[i] # o
    BY <1>4, <1>7, <2>1, <2>2 DEF Reserved
  <2>4. (\A p \in Owners : idOf[p] \in Ids => used[idOf[p]] = p)'
    BY <1>4, <1>6, <1>7 DEF Reserved, Types
  <2>5. (\A i \in Ids : used[i] # NoOwner => (idOf[used[i]] = i \/ i \in leaked))'
    BY <1>4, <1>6, <2>1, <2>3 DEF Reserved, Types
  <2> QED BY <1>6, <2>1, <2>4, <2>5 DEF Reserved
<1> QED BY <1>9, <1>10, <1>11, <1>12, <1>13

(* The other steps of createSpiedNamespaces: a namespace that exists and   *)
(* is not registered, an exception, and the end, when the temporaries give *)
(* back what they have.                                                    *)
LEMMA CreationPreserves ==
  IInv /\ (CreateFails \/ CreateThrows \/ CreationEnds) => IInv'
<1> SUFFICES ASSUME IInv, CreateFails \/ CreateThrows \/ CreationEnds PROVE IInv'
  OBVIOUS
<1> USE LoaderAssumption DEF IInv
<1>1. CASE CreateFails
  <2>1. PICK n \in 0 .. turn : loaded = 1 .. n
    BY DEF Loading
  <2>2. n \in Nat /\ n < Requested /\ turn \in Nat /\ turn < Requested
    BY <1>1 DEF Types, CreateFails
  <2>3. loaded' = loaded \/ loaded' = loaded \cup {n + 1}
    BY <1>1, <2>1, <2>2, NextLoaded DEF CreateFails
  <2>4. Loading'
    <3> DEFINE m == n + 1
    <3>0. 1 .. n \cup {m} = 1 .. m
      BY <2>2
    <3>1. loaded' = 1 .. n \/ loaded' = 1 .. m
      BY <2>1, <2>3, <3>0
    <3>2. n \in 0 .. turn' /\ n + 1 \in 0 .. turn'
      BY <1>1, <2>1, <2>2 DEF CreateFails
    <3> QED BY <3>1, <3>2 DEF Loading
  <2>5. Types'
    BY <1>1, <2>2 DEF CreateFails, Types
  <2>6. Creating' /\ Running'
    BY <1>1, <2>2 DEF CreateFails, Creating, Running, Temporaries
  <2>7. Wrapped' = Wrapped
    BY <1>1 DEF CreateFails, Wrapped
  <2>8. Registered' /\ Reserved'
    BY <1>1, <2>3, <2>7 DEF CreateFails, Registered, Reserved
  <2> QED BY <2>4, <2>5, <2>6, <2>8
<1>2. CASE CreateThrows
  <2>1. Wrapped' = Wrapped
    BY <1>2 DEF CreateThrows, Wrapped
  <2> QED BY <1>2, <2>1 DEF CreateThrows, Types, Loading, Creating, Running,
                            Registered, Reserved
<1>3. CASE CreationEnds
  <2> DEFINE back == {i \in Ids : used[i] \in Temporaries}
  <2>1. phase = "creating" /\ phase' = "running" /\ avl = {} /\ leaked = {}
    BY <1>3 DEF CreationEnds, Creating
  <2>2. /\ avl' = avl \cup back
        /\ used' = [i \in Ids |-> IF used[i] \in Temporaries THEN NoOwner ELSE used[i]]
        /\ idOf' = [o \in Owners |-> IF o \in Temporaries THEN 0 ELSE idOf[o]]
        /\ UNCHANGED <<turn, loaded, wrapped, failures, leaked>>
    BY <1>3 DEF CreationEnds
  <2>3. Wrapped' = Wrapped
    BY <2>2 DEF Wrapped
  <2>4. \A o \in Owners : idOf'[o] = 0
    BY <2>1, <2>2 DEF Creating, Owners
  <2>5. \A i \in Ids : used[i] # NoOwner => used[i] \in Temporaries
    <3>1. \A i \in Ids, p \in Programs : used[i] # p
      BY <2>1 DEF Reserved, Creating, Ids
    <3> QED BY <3>1 DEF Types, Owners
  <2>6. \A i \in Ids : used'[i] = NoOwner
    BY <2>2, <2>5
  <2>7. \A t \in Temporaries : t # NoOwner
    BY DEF Temporaries
  <2>8. back = {i \in Ids : used[i] # NoOwner}
    BY <2>5, <2>7
  <2> HIDE DEF back
  <2>9. Types'
    BY <2>1, <2>2, <2>8 DEF Types
  <2>10. Loading' /\ Creating' /\ Running'
    BY <2>1, <2>2, <2>4 DEF Loading, Creating, Running, Owners
  <2>11. Registered'
    BY <2>1, <2>2, <2>3, <2>6, <2>8 DEF Registered
  <2>12. Reserved'
    BY <2>1, <2>2, <2>4, <2>6, <2>8 DEF Reserved, Ids
  <2> QED BY <2>9, <2>10, <2>11, <2>12
<1> QED BY <1>1, <1>2, <1>3

(* A program's namespace is constructed, completely or not, with the       *)
(* lowest id of the pool, or without one.                                  *)
LEMMA ConstructPreserves ==
  ASSUME IInv, NEW p \in Programs,
         Construct(p) \/ ConstructUnpooled(p) \/ ConstructThrows(p) \/ SymbolMissing(p)
  PROVE  IInv'
<1> USE LoaderAssumption DEF IInv
<1>0. p \in Owners /\ p \notin Temporaries /\ p # NoOwner
  BY DEF Owners, Temporaries
<1>1. ASSUME NEW complete \in BOOLEAN, phase = "running", idOf[p] = 0, avl # {},
             Reserve(p, complete), UNCHANGED <<phase, turn, loaded, wrapped>>
      PROVE  IInv'
  <2> DEFINE id == Lowest(avl)
  <2>1. id \in avl
    BY <1>1, LowestIsLeast DEF Types
  <2>2. id \in Ids /\ used[id] = NoOwner /\ id \in Wrapped
    BY <2>1 DEF Types, Reserved, Registered
  <2>3. /\ avl' = avl \ {id} /\ used' = [used EXCEPT ![id] = p]
        /\ idOf' = IF complete THEN [idOf EXCEPT ![p] = id] ELSE idOf
        /\ leaked' = IF complete THEN leaked ELSE leaked \cup {id}
    BY <1>1 DEF Reserve
  <2>4. \A o \in Owners : idOf[o] # id
    <3>1. \A o \in Owners : o # NoOwner
      BY DEF Owners, Temporaries
    <3> QED BY <2>2, <3>1 DEF Reserved
  <2>5. id \notin leaked
    BY <1>0, <2>2 DEF Reserved
  <2> HIDE DEF id
  <2>6. Types'
    BY <1>0, <1>1, <2>2, <2>3 DEF Types
  <2>7. Loading' /\ Creating' /\ Running'
    BY <1>0, <1>1, <2>3 DEF Loading, Creating, Running, Types, Owners
  <2>8. Registered'
    <3>1. Wrapped' = Wrapped
      BY <1>1 DEF Wrapped
    <3> QED BY <1>0, <1>1, <2>1, <2>2, <2>3, <3>1 DEF Registered, Types
  <2>9. (\A i \in avl : used[i] = NoOwner)'
    BY <2>3 DEF Reserved, Types
  <2>10. (\A o \in Owners : idOf[o] \in Ids => used[idOf[o]] = o)'
    BY <1>0, <2>2, <2>3, <2>4 DEF Reserved, Types
  <2>11. (\A i \in Ids : used[i] # NoOwner => (idOf[used[i]] = i \/ i \in leaked))'
    <3>1. \A i \in Ids : i # id /\ used[i] = p => i \in leaked
      BY <1>0, <1>1 DEF Reserved, Ids
    <3> QED BY <1>0, <2>2, <2>3, <3>1 DEF Reserved, Types
  <2>12. (\A i \in leaked : used[i] \in Programs /\ \A o \in Owners : idOf[o] # i)'
    BY <1>0, <2>2, <2>3, <2>4, <2>5 DEF Reserved, Types
  <2> QED BY <2>6, <2>7, <2>8, <2>9, <2>10, <2>11, <2>12 DEF Reserved
<1>2. CASE Construct(p)
  BY <1>1, <1>2 DEF Construct
<1>3. CASE ConstructThrows(p)
  BY <1>1, <1>3 DEF ConstructThrows
<1>4. CASE ConstructUnpooled(p)
  <2>1. Wrapped' = Wrapped
    BY <1>4 DEF ConstructUnpooled, Wrapped
  <2>2. Callers \notin Ids
    BY DEF Callers, Ids
  <2>3. /\ idOf' = [idOf EXCEPT ![p] = Callers] /\ phase = "running" /\ idOf[p] = 0
        /\ UNCHANGED <<phase, turn, loaded, avl, used, wrapped, leaked>>
    BY <1>4 DEF ConstructUnpooled
  <2>4. Types' /\ Loading' /\ Creating' /\ Running' /\ Registered'
    BY <1>0, <2>1, <2>3 DEF Types, Loading, Creating, Running, Registered, Owners
  <2>5. \A i \in Ids : used[i] = p => i \in leaked
    BY <1>0, <2>3 DEF Reserved, Ids
  <2>6. Reserved'
    BY <1>0, <2>2, <2>3, <2>5 DEF Reserved, Types
  <2> QED BY <2>4, <2>6
<1>5. CASE SymbolMissing(p)
  <2>1. Wrapped' = Wrapped
    BY <1>5 DEF SymbolMissing, Wrapped
  <2> QED BY <1>5, <2>1 DEF SymbolMissing, Types, Loading, Creating, Running,
                            Registered, Reserved
<1> QED BY <1>2, <1>3, <1>4, <1>5

(* A program's namespace is destroyed: what it gives back is what it had   *)
(* reserved.                                                               *)
LEMMA DestroyPreserves ==
  ASSUME IInv, NEW p \in Programs, Destroy(p)
  PROVE  IInv'
<1> USE LoaderAssumption DEF IInv
<1> DEFINE held == {i \in Ids : i = idOf[p] /\ used[i] # NoOwner}
<1>0. p \in Owners /\ p \notin Temporaries /\ p # NoOwner
  BY DEF Owners, Temporaries
<1>1. /\ phase = "running" /\ avl' = avl \cup held
      /\ used' = [i \in Ids |-> IF i \in held THEN NoOwner ELSE used[i]]
      /\ idOf' = [idOf EXCEPT ![p] = 0]
      /\ UNCHANGED <<phase, turn, loaded, wrapped, leaked>>
  BY DEF Destroy
<1>2. \A i \in Ids : i \in held <=> idOf[p] = i
  BY <1>0 DEF Reserved
<1>3. \A i \in held : i \in Ids /\ used[i] = p /\ i \notin leaked
  BY <1>0, <1>2 DEF Reserved
<1>4. \A i \in Ids : i \notin held /\ used[i] = p => i \in leaked
  BY <1>0, <1>2 DEF Reserved
<1>5. held \subseteq Ids
  OBVIOUS
<1> HIDE DEF held
<1>6. Types'
  BY <1>0, <1>1, <1>5 DEF Types
<1>7. Loading' /\ Creating' /\ Running'
  BY <1>0, <1>1 DEF Loading, Creating, Running, Types, Owners
<1>8. Registered'
  <2>1. Wrapped' = Wrapped
    BY <1>1 DEF Wrapped
  <2> QED BY <1>0, <1>1, <1>3, <1>5, <2>1 DEF Registered
<1>9. (\A i \in avl : used[i] = NoOwner)'
  BY <1>1, <1>5 DEF Reserved, Types
<1>10. (\A o \in Owners : idOf[o] \in Ids => used[idOf[o]] = o)'
  <2>1. 0 \notin Ids
    BY DEF Ids
  <2> QED BY <1>0, <1>1, <1>3, <2>1 DEF Reserved, Types
<1>11. (\A i \in Ids : used[i] # NoOwner => (idOf[used[i]] = i \/ i \in leaked))'
  BY <1>0, <1>1, <1>4 DEF Reserved, Types
<1>12. (\A i \in leaked : used[i] \in Programs /\ \A o \in Owners : idOf[o] # i)'
  <2>1. 0 \notin leaked
    BY DEF Ids, Types
  <2> QED BY <1>0, <1>1, <1>3, <2>1 DEF Reserved, Types
<1> QED BY <1>6, <1>7, <1>8, <1>9, <1>10, <1>11, <1>12 DEF Reserved

(* Every step preserves the invariant.                                     *)
LEMMA NextIInv == IInv /\ [Next]_vars => IInv'
<1> SUFFICES ASSUME IInv, [Next]_vars PROVE IInv'
  OBVIOUS
<1>1. CASE UNCHANGED vars
  <2>1. Wrapped' = Wrapped
    BY <1>1 DEF vars, Wrapped
  <2> QED BY <1>1, <2>1 DEF vars, IInv, Types, Loading, Creating, Running,
                            Registered, Reserved
<1> QED BY <1>1, CreatePreserves, CreationPreserves, ConstructPreserves,
           DestroyPreserves DEF Next

LEMMA Inductive == Spec => []IInv
  BY InitIInv, NextIInv, PTL DEF Spec

-----------------------------------------------------------------------------
(* EveryIdWrappedOnce: line 143 of SpyLoader.cpp registers the id that     *)
(* line 142 inserted, so that a namespace which a program can get has its  *)
(* functions in the vectors once, however many were asked for and          *)
(* whichever could not be created.                                         *)
THEOREM WrappedOnce == Spec => []EveryIdWrappedOnce
<1>1. IInv => EveryIdWrappedOnce
  <2> SUFFICES ASSUME IInv, NEW i \in avl \cup InUse
               PROVE  Cardinality({k \in DOMAIN wrapped : wrapped[k] = i}) = 1
    BY DEF EveryIdWrappedOnce
  <2>1. i \in Wrapped
    BY DEF IInv, InUse, Registered, Types
  <2>2. PICK k \in DOMAIN wrapped : wrapped[k] = i
    BY <2>1 DEF Wrapped
  <2>3. {j \in DOMAIN wrapped : wrapped[j] = i} = {k}
    BY <2>2 DEF IInv, Registered
  <2> QED BY <2>3, FS_Singleton
<1> QED BY <1>1, Inductive, PTL

(* PoolExact: reserveNamespaceId and releaseNamespaceId keep every         *)
(* registered namespace in exactly one place, whatever programs come and   *)
(* go and whichever of their constructors throw.                           *)
THEOREM PoolStaysExact == Spec => []PoolExact
<1>1. IInv => PoolExact
  <2> SUFFICES ASSUME IInv, NEW i \in Wrapped \ {0}
               PROVE  LET owners == {o \in Owners : idOf[o] = i}
                      IN  \/ i \in avl /\ owners = {} /\ used[i] = NoOwner
                          \/ i \notin avl /\ owners = {used[i]}
                          \/ i \notin avl /\ owners = {} /\ i \in leaked
                               /\ used[i] # NoOwner
    BY DEF PoolExact, Wrapped
  <2> DEFINE owners == {o \in Owners : idOf[o] = i}
  <2> USE LoaderAssumption DEF IInv
  <2>1. i \in Ids
    <3>1. PICK k \in DOMAIN wrapped : wrapped[k] = i
      BY DEF Wrapped
    <3> QED BY <3>1 DEF Types
  <2>2. NoOwner \notin Owners
    BY DEF Owners, Temporaries
  <2>3. \A o \in owners : o = used[i]
    BY <2>1 DEF Reserved
  <2>4. CASE i \in avl
    <3>1. used[i] = NoOwner
      BY <2>4 DEF Reserved
    <3>2. owners = {}
      BY <2>2, <2>3, <3>1
    <3> QED BY <2>4, <3>1, <3>2
  <2>5. CASE i \notin avl /\ i \notin leaked
    <3>1. used[i] # NoOwner /\ used[i] \in Owners
      BY <2>1, <2>5 DEF Registered, Types
    <3>2. idOf[used[i]] = i
      BY <2>1, <2>5, <3>1 DEF Reserved
    <3>3. owners = {used[i]}
      BY <2>3, <3>1, <3>2
    <3> QED BY <2>5, <3>3
  <2>6. CASE i \in leaked
    <3>1. used[i] \in Programs /\ owners = {}
      BY <2>6 DEF Reserved
    <3>2. used[i] # NoOwner
      BY <3>1
    <3>3. i \notin avl
      BY <3>2 DEF Reserved
    <3> QED BY <2>6, <3>1, <3>2, <3>3
  <2> QED BY <2>4, <2>5, <2>6
<1> QED BY <1>1, Inductive, PTL

-----------------------------------------------------------------------------
(* Thread keys.                                                            *)

MutexInv == \A t \in Threads : pc[t] \in {"create", "delete"} <=> mutex = t

\* The namespaces from the n-th on have the same keys in use.
AgreeFrom(n) ==
  \A m \in Namespaces : m >= n => table[m] = table[n]

CreateInv ==
  \A t \in Threads : pc[t] = "create" =>
    /\ AgreeFrom(idx[t])
    /\ idx[t] > 0 => /\ table[idx[t]] # Keys
                     /\ key[t] = FirstFree(table[idx[t]])
    /\ \A m \in Namespaces : m < idx[t] =>
         table[m] = table[idx[t]] \cup {key[t]}

DeleteInv ==
  \A t \in Threads : pc[t] = "delete" =>
    /\ AgreeFrom(idx[t])
    /\ idx[t] > 0 => key[t] \in table[idx[t]]
    /\ \A m \in Namespaces : m < idx[t] => table[m] = table[idx[t]] \ {key[t]}

\* Whatever the tables were at the start.
VisitedInv ==
  \A t \in Threads : \A m \in Namespaces : m < idx[t] =>
    /\ pc[t] = "create" => key[t] \in table[m]
    /\ pc[t] = "delete" => key[t] \notin table[m]

TypeInv == TypeOK /\ MutexInv

CoherentInv == KeysCoherent /\ (SameAtStart => (CreateInv /\ DeleteInv))

-----------------------------------------------------------------------------
(* FirstFree answers a free key when there is one: a set of naturals that  *)
(* is not empty has a least element.                                       *)
LEMMA FirstFreeIsFree ==
  ASSUME NEW inUse \in SUBSET Keys, inUse # Keys
  PROVE  FirstFree(inUse) \in Keys \ inUse
<1> DEFINE S == Keys \ inUse
           R == {ss \in Nat \X Nat : ss[1] < ss[2]}
<1>1. S \subseteq Nat
  BY KeysAssumption DEF Keys
<1>2. S # {}
  OBVIOUS
<1>3. IsWellFoundedOn(R, Nat)
  BY NatLessThanWellFounded DEF OpToRel
<1> HIDE DEF R
<1>4. \E x \in S : \A y \in S : ~ (<<y, x>> \in R)
  BY <1>1, <1>2, <1>3, WFMin
<1>5. \E x \in S : \A y \in S : x <= y
  <2>1. \A x, y \in Nat : y < x => <<y, x>> \in R
    BY DEF R
  <2>2. PICK x \in S : \A y \in S : ~ (<<y, x>> \in R)
    BY <1>4
  <2>3. \A y \in S : ~ (y < x)
    BY <1>1, <2>1, <2>2
  <2>4. \A y \in S : x <= y
    BY <1>1, <2>3
  <2> QED BY <2>4
<1> QED BY <1>5 DEF FirstFree

(* The initial state is well typed and nobody holds the mutex.             *)
LEMMA InitTypeInv == KeysInit => TypeInv
  BY KeysAssumption
  DEF KeysInit, TypeInv, TypeOK, MutexInv, Labels, Results, Namespaces

(* Going on to the next namespace, or returning, keeps the types of the    *)
(* control variables and the mutex with the thread in the loop.            *)
LEMMA GoOnTypes ==
  ASSUME TypeInv, NEW t \in Threads, pc[t] \in {"create", "delete"}, GoOn(t)
  PROVE  /\ mutex' \in Threads \cup {NoOne} /\ pc' \in [Threads -> Labels]
         /\ idx' \in [Threads -> Namespaces] /\ result' \in [Threads -> Results]
         /\ MutexInv'
<1> USE KeysAssumption DEF TypeInv, TypeOK, MutexInv, Labels, Results
<1>1. CASE idx[t] = Nb - 1
  BY <1>1 DEF GoOn, Return
<1>2. CASE idx[t] # Nb - 1
  <2>1. idx[t] + 1 \in Namespaces
    BY <1>2 DEF Namespaces
  <2> QED BY <1>2, <2>1 DEF GoOn
<1> QED BY <1>1, <1>2

(* Every step keeps the types, and the mutex belongs to the one thread in  *)
(* one of the loops.                                                       *)
LEMMA NextTypeInv == TypeInv /\ [KeysNext]_keyVars => TypeInv'
<1> SUFFICES ASSUME TypeInv, [KeysNext]_keyVars PROVE TypeInv'
  OBVIOUS
<1> USE KeysAssumption DEF TypeInv, TypeOK, MutexInv, Labels, Results
<1>1. ASSUME NEW t \in Threads, CallCreate(t) PROVE TypeInv'
  BY <1>1 DEF CallCreate
<1>2. ASSUME NEW t \in Threads, CallDelete(t) PROVE TypeInv'
  BY <1>2 DEF CallDelete, Keys
<1>3. ASSUME NEW t \in Threads, Lock(t) PROVE TypeInv'
  <2>1. idx' \in [Threads -> Namespaces]
    BY <1>3 DEF Lock, Namespaces
  <2>2. CASE pc[t] = "lockCreate" /\ pc' = [pc EXCEPT ![t] = "create"]
    BY <1>3, <2>1, <2>2 DEF Lock
  <2>3. CASE pc[t] = "lockDelete" /\ pc' = [pc EXCEPT ![t] = "delete"]
    BY <1>3, <2>1, <2>3 DEF Lock
  <2> QED BY <1>3, <2>2, <2>3 DEF Lock
<1>4. ASSUME NEW t \in Threads, CreateKeyFails(t) PROVE TypeInv'
  BY <1>4 DEF CreateKeyFails, Return
<1>5. ASSUME NEW t \in Threads, CreateKey(t) PROVE TypeInv'
  <2> DEFINE new == FirstFree(table[idx[t]])
  <2>1. new \in Keys /\ new \in Nat
    BY <1>5, FirstFreeIsFree DEF CreateKey, Keys
  <2> HIDE DEF new
  <2>2. table' \in [Namespaces -> SUBSET Keys] /\ key' \in [Threads -> Nat]
    BY <1>5, <2>1 DEF CreateKey, new
  <2>3. Return(t, "incoherent") \/ GoOn(t)
    BY <1>5 DEF CreateKey
  <2>4. CASE Return(t, "incoherent")
    BY <1>5, <2>2, <2>4 DEF CreateKey, Return
  <2>5. CASE GoOn(t)
    BY <1>5, <2>2, <2>5, GoOnTypes DEF CreateKey
  <2> QED BY <2>3, <2>4, <2>5
<1>6. ASSUME NEW t \in Threads, DeleteKeyFails(t) PROVE TypeInv'
  BY <1>6 DEF DeleteKeyFails, Return
<1>7. ASSUME NEW t \in Threads, DeleteKey(t) PROVE TypeInv'
  <2>1. table' \in [Namespaces -> SUBSET Keys]
    BY <1>7 DEF DeleteKey
  <2> QED BY <1>7, <2>1, GoOnTypes DEF DeleteKey
<1>8. CASE UNCHANGED keyVars
  BY <1>8 DEF keyVars
<1> QED BY <1>1, <1>2, <1>3, <1>4, <1>5, <1>6, <1>7, <1>8 DEF KeysNext, Work

(* Types, for any number of threads, namespaces and keys.                  *)
THEOREM TypeCorrect == KeysSpec => []TypeOK
<1>1. TypeInv => TypeOK
  BY DEF TypeInv
<1> QED BY InitTypeInv, NextTypeInv, <1>1, PTL DEF KeysSpec

-----------------------------------------------------------------------------
(* The tables agree at the start if they are said to.                      *)
LEMMA InitCoherentInv == KeysInit => CoherentInv
  BY DEF KeysInit, CoherentInv, KeysCoherent, SameAtStart, CreateInv, DeleteInv

(* What the tables were at the start does not change.                      *)
LEMMA StartStays == [KeysNext]_keyVars => (SameAtStart' <=> SameAtStart)
  BY DEF KeysNext, keyVars, SameAtStart, CallCreate, CallDelete, Lock, Work,
         CreateKeyFails, CreateKey, DeleteKeyFails, DeleteKey

(* A step of one thread's loop keeps the tables as the invariant says; the *)
(* others are outside their loops.                                         *)
LEMMA NextCoherentInv ==
  TypeInv /\ CoherentInv /\ [KeysNext]_keyVars => CoherentInv'
<1> SUFFICES ASSUME TypeInv, CoherentInv, [KeysNext]_keyVars, SameAtStart
             PROVE  CoherentInv'
  BY StartStays DEF CoherentInv, KeysCoherent
<1>a. /\ mutex = NoOne => \A m, n \in Namespaces : table[m] = table[n]
      /\ CreateInv /\ DeleteInv
  BY DEF CoherentInv, KeysCoherent
<1> SUFFICES /\ mutex' = NoOne =>
                  \A m, n \in Namespaces : table'[m] = table'[n]
             /\ CreateInv' /\ DeleteInv'
  BY StartStays DEF CoherentInv, KeysCoherent
<1> USE KeysAssumption DEF TypeInv, TypeOK, MutexInv
<1>b. \A m \in Namespaces : m \in Int /\ 0 <= m /\ m <= Nb - 1
  BY DEF Namespaces
<1> DEFINE Goal == /\ mutex' = NoOne =>
                        \A m, n \in Namespaces : table'[m] = table'[n]
                   /\ CreateInv' /\ DeleteInv'
<1>1. ASSUME NEW t \in Threads, CallCreate(t) PROVE Goal
  BY <1>1, <1>a DEF CallCreate, CreateInv, DeleteInv, AgreeFrom
<1>2. ASSUME NEW t \in Threads, CallDelete(t) PROVE Goal
  BY <1>2, <1>a DEF CallDelete, CreateInv, DeleteInv, AgreeFrom
<1>3. ASSUME NEW t \in Threads, Lock(t) PROVE Goal
  <2>1. \A m, n \in Namespaces : table[m] = table[n]
    BY <1>3, <1>a DEF Lock
  <2>2. \A u \in Threads : pc[u] \notin {"create", "delete"}
    BY <1>3 DEF Lock
  <2> QED BY <1>3, <2>1, <2>2
          DEF Lock, CreateInv, DeleteInv, AgreeFrom, Namespaces
<1>4. ASSUME NEW t \in Threads, CreateKeyFails(t) PROVE Goal
  <2>1. mutex = t /\ \A u \in Threads : pc'[u] \notin {"create", "delete"}
    BY <1>4 DEF CreateKeyFails, Return
  <2>2. idx[t] = 0
    BY <1>4, <1>a DEF CreateKeyFails, CreateInv, Namespaces
  <2>3. \A m, n \in Namespaces : table[m] = table[n]
    BY <1>4, <1>a, <2>2, <1>b DEF CreateKeyFails, CreateInv, AgreeFrom
  <2> QED BY <1>4, <2>1, <2>3 DEF CreateKeyFails, CreateInv, DeleteInv
<1>5. ASSUME NEW t \in Threads, CreateKey(t) PROVE Goal
  <2> DEFINE new == FirstFree(table[idx[t]])
  <2>1. /\ AgreeFrom(idx[t])
        /\ idx[t] > 0 => key[t] = new
        /\ \A m \in Namespaces : m < idx[t] =>
             table[m] = table[idx[t]] \cup {key[t]}
    BY <1>5, <1>a DEF CreateKey, CreateInv
  <2>2. \A u \in Threads : u # t => pc[u] \notin {"create", "delete"}
    BY <1>5 DEF CreateKey
  <2>3. key'[t] = new
    BY <1>5, <2>1 DEF CreateKey, Namespaces
  <2>4. GoOn(t) /\ table' = [table EXCEPT ![idx[t]] = @ \cup {new}]
    BY <1>5, <2>3 DEF CreateKey
  <2>5. \A m \in Namespaces : m <= idx[t] =>
          table'[m] = table[idx[t]] \cup {new}
    BY <2>1, <2>4, <1>b
  <2>6. \A m \in Namespaces : m > idx[t] => table'[m] = table[idx[t]]
    BY <2>1, <2>4, <1>b DEF AgreeFrom
  <2>7. table[idx[t]] # Keys
    BY <1>5 DEF CreateKey
  <2> HIDE DEF new
  <2>idx. idx[t] \in Int /\ (idx[t] # Nb - 1 => idx[t] + 1 \in Namespaces)
    BY DEF Namespaces
  <2>8. CASE idx[t] = Nb - 1
    <3>1. \A u \in Threads : pc'[u] \notin {"create", "delete"}
      BY <2>2, <2>4, <2>8 DEF GoOn, Return
    <3>2. \A m, n \in Namespaces : table'[m] = table'[n]
      BY <2>5, <2>8, <1>b
    <3> QED BY <3>1, <3>2 DEF CreateInv, DeleteInv
  <2>9. CASE idx[t] # Nb - 1
    <3>1. idx'[t] = idx[t] + 1 /\ idx'[t] \in Namespaces /\ pc' = pc /\ mutex' = mutex
      BY <2>4, <2>9, <2>idx DEF GoOn
    <3>2. table'[idx'[t]] = table[idx[t]]
      BY <2>6, <3>1, <1>b
    <3>3. \A m \in Namespaces : m >= idx'[t] => table'[m] = table'[idx'[t]]
      BY <2>6, <3>1, <3>2, <1>b
    <3>4. \A m \in Namespaces : m < idx'[t] =>
            table'[m] = table'[idx'[t]] \cup {key'[t]}
      BY <2>3, <2>5, <3>1, <3>2, <1>b
    <3>5. key'[t] = FirstFree(table'[idx'[t]])
      BY <2>3, <3>2 DEF new
    <3>6. pc[t] = "create" /\ mutex = t
      BY <1>5 DEF CreateKey
    <3>7. CreateInv'
      BY <2>2, <2>7, <3>1, <3>2, <3>3, <3>4, <3>5 DEF CreateInv, AgreeFrom
    <3>8. DeleteInv'
      BY <2>2, <3>1, <3>6 DEF DeleteInv
    <3> QED BY <3>1, <3>6, <3>7, <3>8
  <2> QED BY <2>8, <2>9
<1>6. ASSUME NEW t \in Threads, DeleteKeyFails(t) PROVE Goal
  <2>1. mutex = t /\ \A u \in Threads : pc'[u] \notin {"create", "delete"}
    BY <1>6 DEF DeleteKeyFails, Return
  <2>2. idx[t] = 0
    BY <1>6, <1>a DEF DeleteKeyFails, DeleteInv, Namespaces
  <2>3. \A m, n \in Namespaces : table[m] = table[n]
    BY <1>6, <1>a, <2>2, <1>b DEF DeleteKeyFails, DeleteInv, AgreeFrom
  <2> QED BY <1>6, <2>1, <2>3 DEF DeleteKeyFails, CreateInv, DeleteInv
<1>7. ASSUME NEW t \in Threads, DeleteKey(t) PROVE Goal
  <2>1. /\ AgreeFrom(idx[t])
        /\ \A m \in Namespaces : m < idx[t] => table[m] = table[idx[t]] \ {key[t]}
    BY <1>7, <1>a DEF DeleteKey, DeleteInv
  <2>2. \A u \in Threads : u # t => pc[u] \notin {"create", "delete"}
    BY <1>7 DEF DeleteKey
  <2>4. /\ GoOn(t) /\ key' = key
        /\ table' = [table EXCEPT ![idx[t]] = @ \ {key[t]}]
    BY <1>7 DEF DeleteKey
  <2>5. \A m \in Namespaces : m <= idx[t] =>
          table'[m] = table[idx[t]] \ {key[t]}
    BY <2>1, <2>4, <1>b
  <2>6. \A m \in Namespaces : m > idx[t] => table'[m] = table[idx[t]]
    BY <2>1, <2>4, <1>b DEF AgreeFrom
  <2>7. key[t] \in table[idx[t]] /\ pc[t] = "delete" /\ mutex = t
    BY <1>7 DEF DeleteKey
  <2>idx. idx[t] \in Int /\ (idx[t] # Nb - 1 => idx[t] + 1 \in Namespaces)
    BY DEF Namespaces
  <2>8. CASE idx[t] = Nb - 1
    <3>1. \A u \in Threads : pc'[u] \notin {"create", "delete"}
      BY <2>2, <2>4, <2>8 DEF GoOn, Return
    <3>2. \A m, n \in Namespaces : table'[m] = table'[n]
      BY <2>5, <2>8, <1>b
    <3> QED BY <3>1, <3>2 DEF CreateInv, DeleteInv
  <2>9. CASE idx[t] # Nb - 1
    <3>1. idx'[t] = idx[t] + 1 /\ idx'[t] \in Namespaces /\ pc' = pc /\ mutex' = mutex
      BY <2>4, <2>9, <2>idx DEF GoOn
    <3>2. table'[idx'[t]] = table[idx[t]]
      BY <2>6, <3>1, <1>b
    <3>3. \A m \in Namespaces : m >= idx'[t] => table'[m] = table'[idx'[t]]
      BY <2>6, <3>1, <3>2, <1>b
    <3>4. \A m \in Namespaces : m < idx'[t] =>
            table'[m] = table'[idx'[t]] \ {key'[t]}
      BY <2>4, <2>5, <3>1, <3>2, <1>b
    <3>5. DeleteInv'
      BY <2>2, <2>4, <2>7, <3>1, <3>2, <3>3, <3>4 DEF DeleteInv, AgreeFrom
    <3>6. CreateInv'
      BY <2>2, <2>7, <3>1 DEF CreateInv
    <3> QED BY <2>7, <3>1, <3>5, <3>6
  <2> QED BY <2>8, <2>9
<1>8. CASE UNCHANGED keyVars
  BY <1>8, <1>a DEF keyVars, CreateInv, DeleteInv, AgreeFrom
<1> QED BY <1>1, <1>2, <1>3, <1>4, <1>5, <1>6, <1>7, <1>8 DEF KeysNext, Work

(* Keys mean the same in every namespace between two calls.                *)
THEOREM KeysStayCoherent == KeysSpec => []KeysCoherent
<1>1. CoherentInv => KeysCoherent
  BY DEF CoherentInv
<1> QED BY InitTypeInv, NextTypeInv, InitCoherentInv, NextCoherentInv, <1>1, PTL
        DEF KeysSpec

(* A call that fails does so in the base namespace, having done nothing.   *)
LEMMA FailsInBase ==
  TypeInv /\ CoherentInv /\ [KeysNext]_keyVars =>
    \A t \in Threads :
      /\ SameAtStart
      /\ pc[t] \in {"create", "delete"} /\ pc'[t] = "idle" /\ result'[t] # "ok"
      => idx[t] = 0
<1> SUFFICES ASSUME TypeInv, CoherentInv, [KeysNext]_keyVars, SameAtStart,
                    NEW t \in Threads, pc[t] \in {"create", "delete"},
                    pc'[t] = "idle", result'[t] # "ok", idx[t] # 0
             PROVE  FALSE
  OBVIOUS
<1> USE KeysAssumption DEF TypeInv, TypeOK, MutexInv
<1>1. idx[t] > 0 /\ CreateInv /\ DeleteInv
  BY DEF CoherentInv, Namespaces
<1>2. CreateKeyFails(t) \/ CreateKey(t) \/ DeleteKeyFails(t) \/ DeleteKey(t)
  <2>1. PICK u \in Threads : CallCreate(u) \/ CallDelete(u) \/ Lock(u) \/ Work(u)
    BY DEF KeysNext, keyVars
  <2>2. u = t
    BY <2>1 DEF CallCreate, CallDelete, Lock, Work, CreateKeyFails, CreateKey,
                DeleteKeyFails, DeleteKey, Return, GoOn
  <2> QED BY <2>1, <2>2 DEF CallCreate, CallDelete, Lock, Work
<1>3. CASE CreateKeyFails(t)
  BY <1>1, <1>3 DEF CreateKeyFails, CreateInv
<1>4. CASE CreateKey(t)
  <2>1. key[t] = FirstFree(table[idx[t]]) /\ key' = key
    BY <1>1, <1>4 DEF CreateKey, CreateInv
  <2>2. GoOn(t)
    BY <1>4, <2>1 DEF CreateKey
  <2> QED BY <2>2 DEF GoOn, Return
<1>5. CASE DeleteKeyFails(t)
  BY <1>1, <1>5 DEF DeleteKeyFails, DeleteInv
<1>6. CASE DeleteKey(t)
  BY <1>6 DEF DeleteKey, GoOn, Return
<1> QED BY <1>2, <1>3, <1>4, <1>5, <1>6

(* No creation or deletion is ever left half-done.                         *)
THEOREM NothingHalfDone == KeysSpec => NeverHalfDone
  BY InitTypeInv, NextTypeInv, InitCoherentInv, NextCoherentInv, FailsInBase, PTL
  DEF KeysSpec, NeverHalfDone

-----------------------------------------------------------------------------
(* The step of a loop that creates or deletes the key in one namespace.    *)
LEMMA WorkVisits ==
  ASSUME TypeInv, VisitedInv, NEW t \in Threads, CreateKey(t) \/ DeleteKey(t)
  PROVE  /\ pc[t] \in {"create", "delete"}
         /\ \A u \in Threads : u # t => pc[u] \notin {"create", "delete"} /\ pc'[u] = pc[u]
         /\ GoOn(t) => \A m \in Namespaces : m <= idx[t] =>
                         (key'[t] \in table'[m] <=> pc[t] = "create")
<1> USE KeysAssumption DEF TypeInv, TypeOK, MutexInv
<1>1. \A u \in Threads : u # t => pc[u] \notin {"create", "delete"} /\ pc'[u] = pc[u]
  BY DEF CreateKey, DeleteKey, GoOn, Return
<1>2. \A m \in Namespaces : m <= idx[t] => m < idx[t] \/ m = idx[t]
  BY DEF Namespaces
<1>3. CASE CreateKey(t)
  <2> DEFINE new == FirstFree(table[idx[t]])
  <2>1. /\ pc[t] = "create" /\ table' = [table EXCEPT ![idx[t]] = @ \cup {new}]
        /\ key' = IF idx[t] = 0 THEN [key EXCEPT ![t] = new] ELSE key
        /\ IF new # key'[t] THEN Return(t, "incoherent") ELSE GoOn(t)
    BY <1>3 DEF CreateKey
  <2> HIDE DEF new
  <2>2. GoOn(t) => new = key'[t]
    BY <2>1 DEF GoOn, Return
  <2>3. \A m \in Namespaces : m < idx[t] => key'[t] \in table'[m]
    BY <2>1 DEF VisitedInv, Namespaces
  <2>4. GoOn(t) => key'[t] \in table'[idx[t]]
    BY <2>1, <2>2
  <2> QED BY <1>1, <1>2, <2>1, <2>3, <2>4
<1>4. CASE DeleteKey(t)
  <2>1. /\ pc[t] = "delete" /\ table' = [table EXCEPT ![idx[t]] = @ \ {key[t]}] /\ key' = key
    BY <1>4 DEF DeleteKey
  <2>2. \A m \in Namespaces : m <= idx[t] => key'[t] \notin table'[m]
    BY <1>2, <2>1 DEF VisitedInv
  <2> QED BY <1>1, <2>1, <2>2
<1> QED BY <1>3, <1>4

LEMMA NextVisitedInv == TypeInv /\ VisitedInv /\ [KeysNext]_keyVars => VisitedInv'
<1> SUFFICES ASSUME TypeInv, VisitedInv, [KeysNext]_keyVars PROVE VisitedInv'
  OBVIOUS
<1> USE KeysAssumption DEF TypeInv, TypeOK, MutexInv
<1>1. ASSUME NEW t \in Threads, CallCreate(t) \/ CallDelete(t) PROVE VisitedInv'
  BY <1>1 DEF CallCreate, CallDelete, VisitedInv
<1>2. ASSUME NEW t \in Threads, Lock(t) PROVE VisitedInv'
  BY <1>2 DEF Lock, VisitedInv, Namespaces
<1>3. ASSUME NEW t \in Threads, CreateKeyFails(t) \/ DeleteKeyFails(t) PROVE VisitedInv'
  BY <1>3 DEF CreateKeyFails, DeleteKeyFails, Return, VisitedInv
<1>4. ASSUME NEW t \in Threads, CreateKey(t) \/ DeleteKey(t) PROVE VisitedInv'
  <2>1. CASE pc'[t] \notin {"create", "delete"}
    BY <1>4, <2>1, WorkVisits DEF VisitedInv
  <2>2. CASE pc'[t] \in {"create", "delete"}
    <3>1. GoOn(t) /\ pc' = pc /\ idx'[t] = idx[t] + 1
      BY <1>4, <2>2 DEF CreateKey, DeleteKey, GoOn, Return
    <3>2. \A m \in Namespaces : m < idx'[t] => m <= idx[t]
      BY <3>1 DEF Namespaces
    <3> QED BY <1>4, <3>1, <3>2, WorkVisits DEF VisitedInv
  <2> QED BY <2>1, <2>2
<1>5. CASE UNCHANGED keyVars
  BY <1>5 DEF keyVars, VisitedInv
<1> QED BY <1>1, <1>2, <1>3, <1>4, <1>5 DEF KeysNext, Work

(* A call returns 0 only after its last namespace has agreed.              *)
LEMMA OkIsEverywhere ==
  ASSUME TypeInv, VisitedInv, [KeysNext]_keyVars, NEW t \in Threads,
         pc[t] \in {"create", "delete"}, pc'[t] = "idle", result'[t] = "ok"
  PROVE  \A n \in Namespaces : (key'[t] \in table'[n]) <=> (pc[t] = "create")
<1> USE KeysAssumption DEF TypeInv, TypeOK, MutexInv
<1>1. CreateKey(t) \/ DeleteKey(t)
  <2>1. PICK u \in Threads : CallCreate(u) \/ CallDelete(u) \/ Lock(u) \/ Work(u)
    BY DEF KeysNext, keyVars
  <2>2. u = t
    BY <2>1 DEF CallCreate, CallDelete, Lock, Work, CreateKeyFails, CreateKey,
                DeleteKeyFails, DeleteKey, Return, GoOn
  <2>3. ~CreateKeyFails(t) /\ ~DeleteKeyFails(t)
    BY DEF CreateKeyFails, DeleteKeyFails, Return
  <2> QED BY <2>1, <2>2, <2>3 DEF CallCreate, CallDelete, Lock, Work
<1>2. GoOn(t)
  BY <1>1 DEF CreateKey, DeleteKey, Return
<1>3. idx[t] = Nb - 1
  BY <1>2 DEF GoOn
<1>4. \A n \in Namespaces : n <= idx[t]
  BY <1>3 DEF Namespaces
<1> QED BY <1>1, <1>2, <1>4, WorkVisits

(* What a successful call did, it did in every namespace, also when their  *)
(* tables differed from the start.                                         *)
THEOREM SuccessAlwaysEverywhere == KeysSpec => SuccessIsEverywhere
<1>1. KeysInit => VisitedInv
  BY KeysAssumption DEF KeysInit, VisitedInv, Namespaces
<1>2. TypeInv /\ VisitedInv /\ [KeysNext]_keyVars =>
        [\A t \in Threads :
           (pc[t] \in {"create", "delete"} /\ pc'[t] = "idle" /\ result'[t] = "ok")
             => \A n \in Namespaces : (key'[t] \in table'[n]) <=> (pc[t] = "create")]_keyVars
  BY OkIsEverywhere
<1> QED BY <1>1, <1>2, InitTypeInv, NextTypeInv, NextVisitedInv, PTL
        DEF KeysSpec, SuccessIsEverywhere
=============================================================================
