--------------------------- MODULE RelinkageProofs ---------------------------
(***************************************************************************)
(* Proofs about Relinkage, for any modules, libraries, layouts, page size  *)
(* and number of loads.  RInv says that the two ends of a relinkage agree, *)
(* also in the middle of a loop over modules; it holds whatever the layout *)
(* is and whichever mprotect fails.  Contents adds what the slots and the  *)
(* relinkages hold: a slot has been exchanged with one relinkage at most,  *)
(* which stores the value of the dynamic linker.                           *)
(***************************************************************************)
EXTENDS Relinkage, TLAPS, WellFoundedInduction

Values == {Orig} \cup (Libs \X Nat)
Tables == UNION {[S -> Values] : S \in SUBSET Slots}
Relinkages == [dest : {<<>>} \cup (Libs \X Nat), valid : BOOLEAN, relocs : Tables]
Loops == {Idle} \cup [op : {"relink", "emplace", "unload"}, lib : Libs,
                      left : SUBSET DOMAIN Sources]

Types ==
  /\ got \in [Slots -> Values]
  /\ out \in [Modules -> [Libs -> Relinkages]]
  /\ inRel \in [Libs -> SUBSET Modules]
  /\ object \in [Libs -> Nat]
  /\ alive \in SUBSET Libs
  /\ loop \in Loops

Unloading(d) == loop.op = "unload" /\ loop.lib = d

\* Both ends of a relinkage agree on it, but for those that are destroyed.
Registered ==
  \A s \in Modules, d \in Libs :
    /\ out[s][d].valid => /\ d \in alive /\ s \in inRel[d]
                          /\ out[s][d].dest = <<d, object[d]>>
                          /\ DOMAIN out[s][d].relocs = Found(s, d)
    /\ (d \in alive /\ s \in inRel[d] /\ ~Unloading(d)) => out[s][d].valid

\* What a loop has still to do, and has done.
Looping ==
  /\ loop # Idle => loop.lib \in alive
  /\ loop.op = "emplace" =>
       \A i \in DOMAIN Sources : First(i) => ~out[Sources[i]][loop.lib].valid
  /\ loop.op = "unload" =>
       \A s \in Modules : out[s][loop.lib].valid => \E i \in loop.left : Sources[i] = s

RInv == Types /\ (crash = "no" => (Registered /\ Looping))

-----------------------------------------------------------------------------
\* writeRelocations does not reach its loop for a single relocation.
Alone(S) == \A a, b \in S : a = b

Linked(s, d) == out[s][d].valid /\ ~Alone(Found(s, d))

\* What the slots and the relinkages that were written hold.
Contents ==
  /\ \A s \in Modules, d \in Libs : Linked(s, d) =>
       \A a \in Found(s, d) : got[a] = <<d, object[d]>> /\ out[s][d].relocs[a] = Orig
  /\ \A s \in Modules : \A i \in DOMAIN Layout[s] :
       (\A d \in Libs : Linked(s, d) => Layout[s][i].slot \notin Found(s, d))
         => got[Layout[s][i].slot] = Orig

CInv == crash = "no" => Contents

-----------------------------------------------------------------------------
(* The indices of the sources name modules; a slot is of one relocation.   *)
LEMMA SourcesAreModules == \A i \in DOMAIN Sources : Sources[i] \in Modules
  BY DEF Modules

LEMMA FoundSlots ==
  ASSUME NEW s \in Modules, NEW d \in Libs
  PROVE  Found(s, d) \in SUBSET Slots
  BY DEF Found, Slots

(* What a relinkage stores, and what it leaves in the slots.               *)
LEMMA StoredTable ==
  ASSUME Types, NEW s \in Modules, NEW relocs \in Tables, NEW failure
  PROVE  /\ Stored(s, relocs, failure) \in Tables
         /\ DOMAIN Stored(s, relocs, failure) = DOMAIN relocs
<1>1. PICK S \in SUBSET Slots : relocs \in [S -> Values]
  BY DEF Tables
<1>2. [a \in DOMAIN relocs |-> got[a]] \in [S -> Values]
  BY <1>1 DEF Types
<1> QED BY <1>1, <1>2 DEF Stored, Tables

LEMMA WrittenSlots ==
  ASSUME Types, NEW s \in Modules, NEW relocs \in Tables, NEW failure,
         WriteRelocations(s, relocs, failure)
  PROVE  got' \in [Slots -> Values]
<1>1. PICK S \in SUBSET Slots : relocs \in [S -> Values]
  BY DEF Tables
<1>2. CASE Exchanges(s, relocs, failure)
  <2>1. got' = [a \in Slots |-> IF a \in DOMAIN relocs THEN relocs[a] ELSE got[a]]
    BY <1>2 DEF WriteRelocations
  <2> QED BY <1>1, <2>1 DEF Types
<1>3. CASE ~Exchanges(s, relocs, failure)
  BY <1>3 DEF WriteRelocations, Types
<1> QED BY <1>2, <1>3

LEMMA RestoredTable ==
  ASSUME Types, NEW s \in Modules, NEW d \in Libs
  PROVE  Restored(s, d) \in Tables
<1>1. <<>> \in [{} -> Values]
  OBVIOUS
<1>2. out[s][d] \in Relinkages
  BY DEF Types
<1> QED BY <1>1, <1>2 DEF Restored, Tables, Relinkages

LEMMA NoneIsRelinkage == None \in Relinkages
<1>1. <<>> \in [{} -> Values]
  OBVIOUS
<1> QED BY <1>1 DEF None, Relinkages, Tables

(* The relinkage of s and d becomes r, the others stay.                    *)
LEMMA OutBecomes ==
  ASSUME Types, NEW s \in Modules, NEW d \in Libs, NEW r \in Relinkages,
         out' = [out EXCEPT ![s][d] = r]
  PROVE  /\ out' \in [Modules -> [Libs -> Relinkages]]
         /\ out'[s][d] = r
         /\ \A t \in Modules, e \in Libs : (t # s \/ e # d) => out'[t][e] = out[t][e]
  BY DEF Types

(* The three things that may become of a relinkage in a step: it is left   *)
(* alone, is invalidated, is destroyed, or is made.                        *)
LEMMA InvalidateEffect ==
  ASSUME Types, NEW s \in Modules, NEW d \in Libs, NEW failure,
         Invalidate(s, d, failure)
  PROVE  /\ got' \in [Slots -> Values]
         /\ out' \in [Modules -> [Libs -> Relinkages]]
         /\ crash' = "no" => /\ crash = "no" /\ ~out'[s][d].valid
                             /\ \A t \in Modules, e \in Libs : (t # s \/ e # d) =>
                                  out'[t][e] = out[t][e]
<1> DEFINE relocs == Restored(s, d)
           st == Stored(s, relocs, failure)
           r == [dest |-> out[s][d].dest, valid |-> FALSE, relocs |-> st]
<1>1. relocs \in Tables
  BY RestoredTable
<1>2. WriteRelocations(s, relocs, failure)
  BY DEF Invalidate
<1>3. got' \in [Slots -> Values]
  BY <1>1, <1>2, WrittenSlots
<1>4. st \in Tables
  BY <1>1, StoredTable
<1>5. out[s][d] \in Relinkages
  BY DEF Types
<1>6. r \in Relinkages /\ r.valid = FALSE
  BY <1>4, <1>5 DEF Relinkages
<1>7. CASE Faults(s, relocs, failure)
  BY <1>3, <1>7 DEF Invalidate, Types
<1>8. CASE ~Faults(s, relocs, failure) /\ out[s][d].valid
  <2>1. out' = [out EXCEPT ![s][d] = [dest |-> @.dest, valid |-> FALSE,
                                      relocs |-> Stored(s, relocs, failure)]]
    BY <1>8 DEF Invalidate
  <2>2. out' = [out EXCEPT ![s][d] = r]
    BY <2>1 DEF Types
  <2>3. crash' = crash
    BY <1>8 DEF Invalidate
  <2> HIDE DEF r, st, relocs
  <2>4. r \in Relinkages /\ ~r.valid
    BY <1>6
  <2>5. /\ out' \in [Modules -> [Libs -> Relinkages]] /\ out'[s][d] = r
        /\ \A t \in Modules, e \in Libs : (t # s \/ e # d) => out'[t][e] = out[t][e]
    BY <2>2, <2>4 DEF Types
  <2> QED BY <1>3, <2>3, <2>4, <2>5
<1>9. CASE ~Faults(s, relocs, failure) /\ ~out[s][d].valid
  <2>1. out' = out /\ crash' = crash
    BY <1>9 DEF Invalidate
  <2> QED BY <1>3, <1>9, <2>1 DEF Types
<1> QED BY <1>7, <1>8, <1>9

LEMMA EraseEffect ==
  ASSUME Types, NEW s \in Modules, NEW d \in Libs, NEW failure,
         Erase(s, d, failure)
  PROVE  /\ got' \in [Slots -> Values]
         /\ out' \in [Modules -> [Libs -> Relinkages]]
         /\ inRel' \in [Libs -> SUBSET Modules]
         /\ crash' = "no" => /\ ~out'[s][d].valid /\ d \in alive
                             /\ inRel' = [inRel EXCEPT ![d] = @ \ {s}]
                             /\ \A t \in Modules, e \in Libs : (t # s \/ e # d) =>
                                  out'[t][e] = out[t][e]
<1> DEFINE relocs == Restored(s, d)
<1>1. relocs \in Tables
  BY RestoredTable
<1>2. WriteRelocations(s, relocs, failure)
  BY DEF Erase, EraseKeeping
<1>3. got' \in [Slots -> Values]
  BY <1>1, <1>2, WrittenSlots
<1>4. CASE crash' = "no"
  <2>1. /\ out' = [out EXCEPT ![s][d] = None]
        /\ inRel' = [inRel EXCEPT ![d] = inRel[d] \ {s}]
    BY <1>4 DEF Erase, EraseKeeping
  <2>2. d \in alive
    BY <1>4 DEF Erase, EraseKeeping
  <2>3. ~None.valid
    BY DEF None
  <2>4. /\ out' \in [Modules -> [Libs -> Relinkages]] /\ out'[s][d] = None
        /\ \A t \in Modules, e \in Libs : (t # s \/ e # d) => out'[t][e] = out[t][e]
    BY <2>1, OutBecomes, NoneIsRelinkage
  <2>5. inRel' \in [Libs -> SUBSET Modules]
    BY <2>1 DEF Types
  <2> QED BY <1>3, <2>1, <2>2, <2>3, <2>4, <2>5
<1>5. CASE crash' # "no"
  BY <1>3, <1>5 DEF Erase, EraseKeeping, Types
<1> QED BY <1>4, <1>5

LEMMA ConstructEffect ==
  ASSUME Types, NEW s \in Modules, NEW d \in Libs, NEW failure,
         Construct(s, d, failure)
  PROVE  /\ got' \in [Slots -> Values]
         /\ out' \in [Modules -> [Libs -> Relinkages]]
         /\ inRel' \in [Libs -> SUBSET Modules]
         /\ crash' = "no" => /\ out'[s][d].valid
                             /\ out'[s][d].dest = <<d, object[d]>>
                             /\ DOMAIN out'[s][d].relocs = Found(s, d)
                             /\ inRel' = [inRel EXCEPT ![d] = @ \cup {s}]
                             /\ \A t \in Modules, e \in Libs : (t # s \/ e # d) =>
                                  out'[t][e] = out[t][e]
<1> DEFINE dest == <<d, object[d]>>
           relocs == [a \in Found(s, d) |-> dest]
           st == Stored(s, relocs, failure)
           r == [dest |-> dest, valid |-> TRUE, relocs |-> st]
<1>1. dest \in Libs \X Nat
  BY DEF Types
<1>2. relocs \in Tables
  BY <1>1, FoundSlots DEF Tables, Values
<1>3. WriteRelocations(s, relocs, failure)
  BY DEF Construct
<1>4. got' \in [Slots -> Values]
  BY <1>2, <1>3, WrittenSlots
<1>5. st \in Tables /\ DOMAIN st = Found(s, d)
  BY <1>2, StoredTable
<1>6. r \in Relinkages /\ r.valid = TRUE /\ r.dest = dest /\ r.relocs = st
  BY <1>1, <1>5 DEF Relinkages
<1>7. CASE Faults(s, relocs, failure)
  BY <1>4, <1>7 DEF Construct, Types
<1>8. CASE ~Faults(s, relocs, failure)
  <2>1. /\ out' = [out EXCEPT ![s][d] = r]
        /\ inRel' = [inRel EXCEPT ![d] = @ \cup {s}]
    BY <1>8 DEF Construct
  <2>2. inRel' \in [Libs -> SUBSET Modules]
    BY <2>1 DEF Types
  <2> HIDE DEF r, st, dest
  <2>3. r \in Relinkages /\ r.valid = TRUE /\ r.dest = dest /\ r.relocs = st
    BY <1>6
  <2>4. /\ out' \in [Modules -> [Libs -> Relinkages]] /\ out'[s][d] = r
        /\ \A t \in Modules, e \in Libs : (t # s \/ e # d) => out'[t][e] = out[t][e]
    BY <2>1, <2>3 DEF Types
  <2> QED BY <1>4, <1>5, <2>1, <2>2, <2>3, <2>4 DEF dest
<1> QED BY <1>7, <1>8

-----------------------------------------------------------------------------
LEMMA InitRInv == Init => RInv
<1> SUFFICES ASSUME Init PROVE RInv
  OBVIOUS
<1>1. \A s \in Modules, d \in Libs : out[s][d] = None
  BY DEF Init
<1>2. Types
  BY NoneIsRelinkage DEF Init, Types, Values, Loops
<1>3. Registered
  BY <1>1 DEF Init, Registered, None
<1>4. Looping
  BY DEF Init, Looping, Idle
<1> QED BY <1>2, <1>3, <1>4 DEF RInv

LEMMA LoopIs ==
  ASSUME Types, loop # Idle
  PROVE  /\ loop.op \in {"relink", "emplace", "unload"} /\ loop.lib \in Libs
         /\ loop.left \in SUBSET DOMAIN Sources
         /\ loop = [op |-> loop.op, lib |-> loop.lib, left |-> loop.left]
  BY DEF Types, Loops

LEMMA InLoop ==
  ASSUME Types, NEW op \in {"relink", "emplace", "unload"}, In(op)
  PROVE  loop # Idle
  BY DEF In, Idle

LEMMA RelinkRInv ==
  ASSUME RInv, NEW d \in Libs, Relink(d)
  PROVE  RInv'
<1> DEFINE new == [op |-> "relink", lib |-> d, left |-> DOMAIN Sources]
<1>0. crash = "no" /\ loop = Idle /\ Load(d)
      /\ loop' = new
      /\ UNCHANGED <<got, writable, out, crash>>
  BY DEF Relink
<1>1. Types /\ Registered
  BY <1>0 DEF RInv
<1>2. new \in Loops /\ new.op = "relink" /\ new.lib = d
  BY DEF Loops
<1>3. CASE d \in alive
  <2>1. UNCHANGED <<object, alive, inRel>>
    BY <1>0, <1>3 DEF Load
  <2>2. Types'
    BY <1>0, <1>1, <1>2, <2>1 DEF Types
  <2>3. Registered'
    BY <1>0, <1>1, <1>2, <2>1 DEF Registered, Unloading, Idle
  <2>4. Looping'
    BY <1>0, <1>2, <1>3, <2>1 DEF Looping
  <2> QED BY <2>2, <2>3, <2>4 DEF RInv
<1>4. CASE d \notin alive
  <2>1. /\ object' = [object EXCEPT ![d] = @ + 1]
        /\ alive' = alive \cup {d}
        /\ inRel' = [inRel EXCEPT ![d] = {}]
    BY <1>0, <1>4 DEF Load
  <2>2. Types'
    BY <1>0, <1>1, <1>2, <2>1 DEF Types
  <2>3. Registered'
    <3> SUFFICES ASSUME NEW s \in Modules, NEW e \in Libs
                 PROVE  /\ out[s][e].valid =>
                             /\ e \in alive' /\ s \in inRel'[e]
                             /\ out[s][e].dest = <<e, object'[e]>>
                             /\ DOMAIN out[s][e].relocs = Found(s, e)
                        /\ (e \in alive' /\ s \in inRel'[e]) => out[s][e].valid
      BY <1>0 DEF Registered
    <3>1. CASE e = d
      BY <1>1, <1>4, <2>1, <3>1 DEF Registered, Types
    <3>2. CASE e # d
      BY <1>0, <1>1, <2>1, <3>2 DEF Registered, Types, Unloading, Idle
    <3> QED BY <3>1, <3>2
  <2>4. Looping'
    BY <1>0, <1>2, <2>1 DEF Looping
  <2> QED BY <2>2, <2>3, <2>4 DEF RInv
<1> QED BY <1>3, <1>4

(* A destroyed relinkage leaves both of its ends.                          *)
LEMMA ErasedRegistered ==
  ASSUME Types, Registered, NEW s \in Modules, NEW d \in Libs, NEW failure,
         Erase(s, d, failure), crash' = "no", ~Unloading(d),
         UNCHANGED <<object, alive>>, \A e \in Libs : Unloading(e)' <=> Unloading(e)
  PROVE  Registered'
<1>1. /\ ~out'[s][d].valid
      /\ inRel' = [inRel EXCEPT ![d] = @ \ {s}]
      /\ \A t \in Modules, e \in Libs : (t # s \/ e # d) => out'[t][e] = out[t][e]
  BY EraseEffect
<1> SUFFICES ASSUME NEW t \in Modules, NEW e \in Libs
             PROVE  /\ out'[t][e].valid =>
                         /\ e \in alive /\ t \in inRel'[e]
                         /\ out'[t][e].dest = <<e, object[e]>>
                         /\ DOMAIN out'[t][e].relocs = Found(t, e)
                    /\ (e \in alive /\ t \in inRel'[e] /\ ~Unloading(e)) => out'[t][e].valid
  BY DEF Registered
<1>2. CASE t = s /\ e = d
  BY <1>1, <1>2 DEF Types
<1>3. CASE t # s \/ e # d
  BY <1>1, <1>3 DEF Types, Registered
<1> QED BY <1>2, <1>3

LEMMA RelinkModuleRInv ==
  ASSUME RInv, NEW i \in DOMAIN Sources, RelinkModule(i)
  PROVE  RInv'
<1> DEFINE s == Sources[i]
           d == loop.lib
<1>0. In("relink") /\ First(i) /\ UNCHANGED <<object, alive>>
  BY DEF RelinkModule
<1>1. Types /\ Registered /\ Looping /\ crash = "no" /\ loop.op = "relink" /\ loop # Idle
  BY <1>0, InLoop DEF RInv, In
<1>2. s \in Modules /\ d \in Libs /\ d \in alive
  BY <1>1, LoopIs, SourcesAreModules DEF Looping
<1>3. CASE d \notin Needs[s]
  <2>1. loop' = Skip(i) /\ UNCHANGED <<got, writable, out, inRel, crash>>
    BY <1>3 DEF RelinkModule
  <2>2. /\ Skip(i) \in Loops /\ Skip(i).op = "relink" /\ Skip(i).lib = d
        /\ Skip(i) # Idle
    BY <1>1, <1>2, LoopIs DEF Skip, Loops, Idle
  <2>3. Types'
    BY <1>0, <1>1, <2>1, <2>2 DEF Types
  <2>4. Registered'
    BY <1>0, <1>1, <2>1, <2>2 DEF Registered, Unloading
  <2>5. Looping'
    BY <1>0, <1>2, <2>1, <2>2 DEF Looping
  <2> QED BY <2>3, <2>4, <2>5 DEF RInv
<1>4. CASE d \in Needs[s]
  <2> DEFINE new == [loop EXCEPT !.op = "emplace"]
  <2>1. loop' = new
    BY <1>4 DEF RelinkModule
  <2>2. /\ new \in Loops /\ new.op = "emplace" /\ new.lib = d /\ new # Idle
        /\ new.left = loop.left
    BY <1>1, <1>2, LoopIs DEF Loops, Idle
  <2> HIDE DEF new
  <2>3. \A j \in DOMAIN Sources : First(j)' => j = i
    <3> SUFFICES ASSUME NEW j \in DOMAIN Sources, First(j)'
                 PROVE  j = i
      OBVIOUS
    <3>1. /\ i \in loop.left /\ j \in loop.left
          /\ i <= j /\ j <= i
      BY <1>0, <2>1, <2>2 DEF First
    <3>2. i \in Nat /\ j \in Nat
      BY LayoutAssumption
    <3> QED BY <3>1, <3>2
  <2>4. CASE Exists(s, d)
    <3>1. PICK failure \in Failures : Erase(s, d, failure)
      BY <1>4, <2>4 DEF RelinkModule
    <3>2. Types'
      BY <1>0, <1>1, <1>2, <2>1, <2>2, <3>1, EraseEffect DEF Types
    <3>3. ASSUME crash' = "no" PROVE Registered'
      <4>1. \A e \in Libs : Unloading(e)' <=> Unloading(e)
        BY <1>1, <2>1, <2>2 DEF Unloading
      <4>2. ~Unloading(d)
        BY <1>1 DEF Unloading
      <4> QED BY <1>0, <1>1, <1>2, <3>1, <3>3, <4>1, <4>2, ErasedRegistered
    <3>4. ASSUME crash' = "no" PROVE Looping'
      <4>1. ~out'[s][d].valid
        BY <1>1, <1>2, <3>1, <3>4, EraseEffect
      <4> QED BY <1>0, <1>2, <2>1, <2>2, <2>3, <4>1 DEF Looping
    <3> QED BY <3>2, <3>3, <3>4 DEF RInv
  <2>5. CASE ~Exists(s, d)
    <3>1. UNCHANGED <<got, writable, out, inRel, crash>>
      BY <1>4, <2>5 DEF RelinkModule
    <3>2. Types'
      BY <1>0, <1>1, <2>1, <2>2, <3>1 DEF Types
    <3>3. Registered'
      BY <1>0, <1>1, <2>1, <2>2, <3>1 DEF Registered, Unloading
    <3>4. ~out[s][d].valid
      BY <2>5 DEF Exists, None
    <3>5. Looping'
      BY <1>0, <1>2, <2>1, <2>2, <2>3, <3>1, <3>4 DEF Looping
    <3> QED BY <3>2, <3>3, <3>5 DEF RInv
  <2> QED BY <2>4, <2>5
<1> QED BY <1>3, <1>4

LEMMA EmplaceRInv ==
  ASSUME RInv, NEW i \in DOMAIN Sources, Emplace(i)
  PROVE  RInv'
<1> DEFINE s == Sources[i]
           d == loop.lib
<1>0. /\ In("emplace") /\ First(i) /\ UNCHANGED <<object, alive>>
      /\ loop' = Skip(i)
  BY DEF Emplace
<1>1. Types /\ Registered /\ Looping /\ crash = "no" /\ loop.op = "emplace" /\ loop # Idle
  BY <1>0, InLoop DEF RInv, In
<1>2. s \in Modules /\ d \in Libs /\ d \in alive
  BY <1>1, LoopIs, SourcesAreModules DEF Looping
<1>3. /\ Skip(i) \in Loops /\ Skip(i).op = "relink" /\ Skip(i).lib = d
      /\ Skip(i) # Idle
  BY <1>1, <1>2, LoopIs DEF Skip, Loops, Idle
<1>4. PICK failure \in Failures : Construct(s, d, failure)
  BY DEF Emplace
<1>5. Types'
  BY <1>0, <1>1, <1>2, <1>3, <1>4, ConstructEffect DEF Types
<1>6. ASSUME crash' = "no" PROVE Registered'
  <2>1. /\ out'[s][d].valid
        /\ out'[s][d].dest = <<d, object[d]>>
        /\ DOMAIN out'[s][d].relocs = Found(s, d)
        /\ inRel' = [inRel EXCEPT ![d] = @ \cup {s}]
        /\ \A t \in Modules, e \in Libs : (t # s \/ e # d) => out'[t][e] = out[t][e]
    BY <1>1, <1>2, <1>4, <1>6, ConstructEffect
  <2> SUFFICES ASSUME NEW t \in Modules, NEW e \in Libs
               PROVE  /\ out'[t][e].valid =>
                           /\ e \in alive /\ t \in inRel'[e]
                           /\ out'[t][e].dest = <<e, object[e]>>
                           /\ DOMAIN out'[t][e].relocs = Found(t, e)
                      /\ (e \in alive /\ t \in inRel'[e]) => out'[t][e].valid
    BY <1>0 DEF Registered
  <2>2. CASE t = s /\ e = d
    BY <1>1, <1>2, <2>1, <2>2 DEF Types
  <2>3. CASE t # s \/ e # d
    BY <1>1, <2>1, <2>3 DEF Types, Registered, Unloading
  <2> QED BY <2>2, <2>3
<1>7. Looping'
  BY <1>0, <1>2, <1>3 DEF Looping
<1> QED BY <1>5, <1>6, <1>7 DEF RInv

LEMMA RelinkEndsRInv ==
  ASSUME RInv, RelinkEnds
  PROVE  RInv'
<1>1. /\ Types /\ Registered /\ loop.op # "unload" /\ loop' = Idle
      /\ UNCHANGED <<got, writable, out, inRel, object, alive, crash>>
  BY DEF RelinkEnds, In, RInv
<1>2. Types'
  BY <1>1 DEF Types, Loops
<1>3. Registered'
  BY <1>1 DEF Registered, Unloading
<1>4. Looping'
  BY <1>1 DEF Looping, Idle
<1> QED BY <1>2, <1>3, <1>4 DEF RInv

LEMMA UnrelinkRInv ==
  ASSUME RInv, NEW s \in Modules, NEW d \in Libs, Unrelink(s, d)
  PROVE  RInv'
<1>1. /\ Types /\ Registered /\ loop = Idle /\ crash = "no"
      /\ UNCHANGED <<object, alive, loop>>
  BY DEF Unrelink, RInv
<1>2. PICK failure \in Failures : Erase(s, d, failure)
  BY DEF Unrelink
<1>3. Types'
  BY <1>1, <1>2, EraseEffect DEF Types
<1>4. ASSUME crash' = "no" PROVE Registered'
  <2>1. \A e \in Libs : Unloading(e)' <=> Unloading(e)
    BY <1>1 DEF Unloading
  <2>2. ~Unloading(d)
    BY <1>1 DEF Unloading, Idle
  <2> QED BY <1>1, <1>2, <1>4, <2>1, <2>2, ErasedRegistered
<1>5. Looping'
  BY <1>1 DEF Looping, Idle
<1> QED BY <1>3, <1>4, <1>5 DEF RInv

LEMMA UnloadRInv ==
  ASSUME RInv, NEW d \in Libs, Unload(d)
  PROVE  RInv'
<1> DEFINE new == [op |-> "unload", lib |-> d,
                   left |-> {i \in DOMAIN Sources : Sources[i] \in inRel[d]}]
<1>1. /\ Types /\ Registered /\ d \in alive /\ loop = Idle
      /\ loop' = new
      /\ UNCHANGED <<got, writable, out, inRel, object, alive, crash>>
  BY DEF Unload, RInv
<1>2. new \in Loops /\ new.op = "unload" /\ new.lib = d
      /\ new.left = {i \in DOMAIN Sources : Sources[i] \in inRel[d]}
  BY DEF Loops
<1>3. Types'
  BY <1>1, <1>2 DEF Types
<1>4. Registered'
  BY <1>1 DEF Registered, Unloading, Idle
<1>5. Looping'
  <2>1. \A s \in Modules : out[s][d].valid => \E i \in new.left : Sources[i] = s
    BY <1>1, <1>2 DEF Registered, Modules
  <2> QED BY <1>1, <1>2, <2>1 DEF Looping
<1> QED BY <1>3, <1>4, <1>5 DEF RInv

LEMMA InvalidateInRInv ==
  ASSUME RInv, NEW i \in DOMAIN Sources, InvalidateIn(i)
  PROVE  RInv'
<1> DEFINE s == Sources[i]
           d == loop.lib
           new == [loop EXCEPT !.left = @ \ {i}]
<1>0. /\ In("unload") /\ i \in loop.left /\ UNCHANGED <<inRel, object, alive>>
      /\ loop' = new
  BY DEF InvalidateIn
<1>1. Types /\ Registered /\ Looping /\ crash = "no" /\ loop.op = "unload" /\ loop # Idle
  BY <1>0, InLoop DEF RInv, In
<1>2. s \in Modules /\ d \in Libs /\ d \in alive
  BY <1>1, LoopIs, SourcesAreModules DEF Looping
<1>3. /\ new \in Loops /\ new.op = "unload" /\ new.lib = d
      /\ new # Idle /\ new.left = loop.left \ {i}
  BY <1>1, <1>2, LoopIs DEF Loops, Idle
<1>4. PICK failure \in Failures : Invalidate(s, d, failure)
  BY DEF InvalidateIn
<1> HIDE DEF new
<1>5. Types'
  BY <1>0, <1>1, <1>2, <1>3, <1>4, InvalidateEffect DEF Types
<1>6. ASSUME crash' = "no"
      PROVE  /\ ~out'[s][d].valid
             /\ \A t \in Modules, e \in Libs : (t # s \/ e # d) => out'[t][e] = out[t][e]
  BY <1>1, <1>2, <1>4, <1>6, InvalidateEffect
<1>7. ASSUME crash' = "no" PROVE Registered'
  <2> SUFFICES ASSUME NEW t \in Modules, NEW e \in Libs
               PROVE  /\ out'[t][e].valid =>
                           /\ e \in alive /\ t \in inRel[e]
                           /\ out'[t][e].dest = <<e, object[e]>>
                           /\ DOMAIN out'[t][e].relocs = Found(t, e)
                      /\ (e \in alive /\ t \in inRel[e] /\ e # d) => out'[t][e].valid
    BY <1>0, <1>3 DEF Registered, Unloading
  <2>1. CASE t = s /\ e = d
    BY <1>6, <1>7, <2>1
  <2>2. CASE t # s \/ e # d
    <3>1. e # d => ~Unloading(e)
      BY DEF Unloading
    <3> QED BY <1>1, <1>6, <1>7, <2>2, <3>1 DEF Registered
  <2> QED BY <2>1, <2>2
<1>8. ASSUME crash' = "no" PROVE Looping'
  <2>1. \A t \in Modules : out'[t][d].valid => \E j \in new.left : Sources[j] = t
    BY <1>1, <1>2, <1>3, <1>6, <1>8 DEF Looping
  <2> QED BY <1>0, <1>2, <1>3, <2>1 DEF Looping
<1> QED BY <1>5, <1>7, <1>8 DEF RInv

LEMMA CloseRInv ==
  ASSUME RInv, Close
  PROVE  RInv'
<1>1. /\ In("unload") /\ loop.left = {} /\ alive' = alive \ {loop.lib} /\ loop' = Idle
      /\ UNCHANGED <<got, writable, out, inRel, object, crash>>
  BY DEF Close
<1>2. Types /\ Registered /\ Looping /\ loop.op = "unload" /\ loop # Idle
  BY <1>1, InLoop DEF RInv, In
<1>3. Types'
  BY <1>1, <1>2 DEF Types, Loops
<1>4. \A s \in Modules : ~out[s][loop.lib].valid
  BY <1>1, <1>2 DEF Looping
<1>5. Registered'
  BY <1>1, <1>2, <1>4 DEF Registered, Unloading
<1>6. Looping'
  BY <1>1 DEF Looping, Idle
<1> QED BY <1>3, <1>5, <1>6 DEF RInv

LEMMA NextRInv == RInv /\ [Next]_vars => RInv'
<1>1. ASSUME RInv, UNCHANGED vars PROVE RInv'
  BY <1>1 DEF vars, RInv, Types, Registered, Looping, Unloading, First
<1>2. ASSUME RInv, Next PROVE RInv'
  BY <1>2, RelinkRInv, UnloadRInv, UnrelinkRInv, RelinkModuleRInv, EmplaceRInv,
     InvalidateInRInv, RelinkEndsRInv, CloseRInv DEF Next
<1> QED BY <1>1, <1>2

LEMMA RInductive == Spec => []RInv
BY InitRInv, NextRInv, PTL DEF Spec

(* What ~DynamicModule goes through are the valid relinkages of the very   *)
(* object it destroys, whatever was relinked, removed, unloaded and loaded *)
(* again before, in whatever order, and whichever mprotect failed.         *)
THEOREM InRelinkagesAlwaysExact == Spec => []InRelinkagesExact
<1>1. RInv => InRelinkagesExact
  BY DEF RInv, InRelinkagesExact, Registered, Unloading, Types
<1> QED BY <1>1, RInductive, PTL

-----------------------------------------------------------------------------
(* A slot is one relocation's, whose name one library defines at most.     *)
LEMMA FoundApart ==
  ASSUME NamesDisjoint, NEW s \in Modules, NEW t \in Modules, NEW d \in Libs, NEW e \in Libs,
         NEW a \in Found(s, d), a \in Found(t, e)
  PROVE  s = t /\ d = e
<1>1. PICK i \in DOMAIN Layout[s] : Layout[s][i].name \in Defines[d] /\ a = Layout[s][i].slot
  BY DEF Found
<1>2. PICK j \in DOMAIN Layout[t] : Layout[t][j].name \in Defines[e] /\ a = Layout[t][j].slot
  BY DEF Found
<1>3. s = t /\ i = j
  BY <1>1, <1>2, LayoutAssumption
<1> QED BY <1>1, <1>2, <1>3 DEF NamesDisjoint

(* The loop that writes is reached when there are two slots to be written: *)
(* of two in ascending order, the second is above the lowest.              *)
LEMMA RaisesUnlessAlone ==
  ASSUME SlotsAscend, NEW s \in Modules, NEW d \in Libs
  PROVE  Raises(s, Found(s, d)) # {} <=> ~Alone(Found(s, d))
<1>0. PICK n \in Nat : DOMAIN Layout[s] = 1 .. n
  BY LayoutAssumption
<1>1. \A i \in DOMAIN Layout[s] : Layout[s][i].slot \in Nat
  BY LayoutAssumption DEF Slots
<1>2. ASSUME Raises(s, Found(s, d)) # {} PROVE ~Alone(Found(s, d))
  <2>1. PICK i \in DOMAIN Layout[s] :
          /\ Layout[s][i].slot \in Found(s, d)
          /\ \E j \in 1 .. i - 1 : /\ Layout[s][j].slot \in Found(s, d)
                                   /\ Layout[s][j].slot < Layout[s][i].slot
    BY <1>2 DEF Raises
  <2>2. PICK j \in 1 .. i - 1 : /\ Layout[s][j].slot \in Found(s, d)
                                /\ Layout[s][j].slot < Layout[s][i].slot
    BY <2>1
  <2>3. j \in DOMAIN Layout[s]
    BY <1>0, <2>2
  <2> QED BY <1>1, <2>1, <2>2, <2>3 DEF Alone
<1>3. ASSUME ~Alone(Found(s, d)) PROVE Raises(s, Found(s, d)) # {}
  <2>1. PICK a \in Found(s, d), b \in Found(s, d) : a # b
    BY <1>3 DEF Alone
  <2>2. PICK i \in DOMAIN Layout[s] : a = Layout[s][i].slot
    BY DEF Found
  <2>3. PICK j \in DOMAIN Layout[s] : b = Layout[s][j].slot
    BY DEF Found
  <2>4. i \in Nat /\ j \in Nat /\ i # j /\ 1 <= i /\ 1 <= j
    BY <1>0, <2>1, <2>2, <2>3
  <2>5. CASE i < j
    <3>1. i \in 1 .. j - 1 /\ a < b
      BY <2>2, <2>3, <2>4, <2>5 DEF SlotsAscend
    <3> QED BY <2>2, <2>3, <3>1 DEF Raises
  <2>6. CASE j < i
    <3>1. j \in 1 .. i - 1 /\ b < a
      BY <2>2, <2>3, <2>4, <2>6 DEF SlotsAscend
    <3> QED BY <2>2, <2>3, <3>1 DEF Raises
  <2> QED BY <2>4, <2>5, <2>6
<1> QED BY <1>2, <1>3

LEMMA Exchanged ==
  ASSUME SlotsAscend, NEW s \in Modules, NEW d \in Libs, NEW failure, failure # "RW",
         NEW relocs, DOMAIN relocs = Found(s, d),
         ~Faults(s, relocs, failure), WriteRelocations(s, relocs, failure),
         ~Alone(Found(s, d))
  PROVE  /\ \A a \in Slots : got'[a] = IF a \in Found(s, d) THEN relocs[a] ELSE got[a]
         /\ Stored(s, relocs, failure) = [a \in Found(s, d) |-> got[a]]
<1>1. Exchanges(s, relocs, failure)
  BY RaisesUnlessAlone DEF Exchanges, Reached
<1> QED BY <1>1 DEF WriteRelocations, Stored

LEMMA NotExchanged ==
  ASSUME NEW s \in Modules, NEW failure, NEW relocs,
         Raises(s, DOMAIN relocs) = {}, WriteRelocations(s, relocs, failure)
  PROVE  got' = got
  BY DEF WriteRelocations, Exchanges, Reached

(* Destroying or invalidating a relinkage puts its slots back.             *)
LEMMA RemovedContents ==
  ASSUME Types, Registered, SlotsAscend, NamesDisjoint, Contents,
         NEW s \in Modules, NEW d \in Libs, NEW failure, failure # "RW",
         WriteRelocations(s, Restored(s, d), failure),
         ~Faults(s, Restored(s, d), failure),
         ~out'[s][d].valid, object' = object,
         \A t \in Modules, e \in Libs : (t # s \/ e # d) => out'[t][e] = out[t][e]
  PROVE  Contents'
<1>1. ASSUME Linked(s, d)
      PROVE  \A a \in Slots : got'[a] = IF a \in Found(s, d) THEN Orig ELSE got[a]
  <2>1. Restored(s, d) = out[s][d].relocs /\ DOMAIN out[s][d].relocs = Found(s, d)
    BY <1>1 DEF Linked, Registered, Restored
  <2>2. \A a \in Found(s, d) : out[s][d].relocs[a] = Orig
    BY <1>1 DEF Contents
  <2>3. ~Alone(Found(s, d))
    BY <1>1 DEF Linked
  <2>4. \A a \in Slots : got'[a] = IF a \in Found(s, d) THEN Restored(s, d)[a] ELSE got[a]
    BY <2>1, <2>3, Exchanged
  <2> QED BY <2>1, <2>2, <2>4
<1>2. ASSUME ~Linked(s, d) PROVE got' = got
  <2>1. CASE out[s][d].valid
    <3>1. Restored(s, d) = out[s][d].relocs /\ DOMAIN out[s][d].relocs = Found(s, d)
      BY <2>1 DEF Registered, Restored
    <3>2. Raises(s, Found(s, d)) = {}
      BY <1>2, <2>1, RaisesUnlessAlone DEF Linked
    <3> QED BY <3>1, <3>2, NotExchanged
  <2>2. CASE ~out[s][d].valid
    <3>1. DOMAIN Restored(s, d) = {}
      BY <2>2 DEF Restored
    <3>2. Raises(s, {}) = {}
      BY DEF Raises
    <3> QED BY <3>1, <3>2, NotExchanged
  <2> QED BY <2>1, <2>2
<1>3. \A t \in Modules, e \in Libs :
        Linked(t, e)' <=> (Linked(t, e) /\ (t # s \/ e # d))
  BY DEF Linked
<1>4. \A t \in Modules, e \in Libs : (t # s \/ e # d) =>
        \A a \in Found(t, e) : got'[a] = got[a]
  BY <1>1, <1>2, FoundApart, FoundSlots
<1>5. ASSUME NEW t \in Modules, NEW e \in Libs, Linked(t, e)', NEW a \in Found(t, e)
      PROVE  got'[a] = <<e, object[e]>> /\ out'[t][e].relocs[a] = Orig
  BY <1>3, <1>4, <1>5 DEF Contents
<1>6. ASSUME NEW t \in Modules, NEW i \in DOMAIN Layout[t],
             \A e \in Libs : Linked(t, e)' => Layout[t][i].slot \notin Found(t, e)
      PROVE  got'[Layout[t][i].slot] = Orig
  <2> DEFINE a == Layout[t][i].slot
  <2>0. a \in Slots
    BY DEF Slots
  <2>1. CASE Linked(s, d) /\ a \in Found(s, d)
    BY <1>1, <2>0, <2>1
  <2>2. CASE ~(Linked(s, d) /\ a \in Found(s, d))
    <3>1. got'[a] = got[a]
      BY <1>1, <1>2, <2>0, <2>2
    <3>2. \A e \in Libs : Linked(t, e) => a \notin Found(t, e)
      BY <1>3, <1>6, <2>2
    <3> QED BY <3>1, <3>2 DEF Contents
  <2> QED BY <2>1, <2>2
<1> QED BY <1>5, <1>6 DEF Contents

(* Making one saves what the dynamic linker left, and points its slots     *)
(* into the library.                                                       *)
LEMMA ConstructedContents ==
  ASSUME Types, Registered, SlotsAscend, NamesDisjoint, Contents,
         NEW s \in Modules, NEW d \in Libs, NEW failure, failure # "RW",
         ~out[s][d].valid, Construct(s, d, failure), crash' = "no", object' = object
  PROVE  Contents'
<1> DEFINE dest == <<d, object[d]>>
           relocs == [a \in Found(s, d) |-> dest]
           st == Stored(s, relocs, failure)
           r == [dest |-> dest, valid |-> TRUE, relocs |-> st]
<1>0. /\ ~Faults(s, relocs, failure) /\ WriteRelocations(s, relocs, failure)
      /\ DOMAIN relocs = Found(s, d)
  BY DEF Construct
<1>1. /\ out'[s][d].valid
      /\ \A t \in Modules, e \in Libs : (t # s \/ e # d) => out'[t][e] = out[t][e]
  BY ConstructEffect
<1>2. out'[s][d].relocs = st
  <2>1. out' = [out EXCEPT ![s][d] = r]
    BY <1>0 DEF Construct
  <2>2. r.relocs = st
    OBVIOUS
  <2> HIDE DEF r, st
  <2> QED BY <2>1, <2>2 DEF Types
<1>3. ~Linked(s, d)
  BY DEF Linked
<1>4. \A a \in Found(s, d) : got[a] = Orig
  <2> SUFFICES ASSUME NEW a \in Found(s, d) PROVE got[a] = Orig
    OBVIOUS
  <2>1. PICK i \in DOMAIN Layout[s] : a = Layout[s][i].slot
    BY DEF Found
  <2>2. \A e \in Libs : Linked(s, e) => a \notin Found(s, e)
    BY <1>3, FoundApart
  <2> QED BY <2>1, <2>2 DEF Contents
<1>5. ASSUME ~Alone(Found(s, d))
      PROVE  /\ \A a \in Slots : got'[a] = IF a \in Found(s, d) THEN dest ELSE got[a]
             /\ \A a \in Found(s, d) : out'[s][d].relocs[a] = Orig
  <2>1. /\ \A a \in Slots : got'[a] = IF a \in Found(s, d) THEN relocs[a] ELSE got[a]
        /\ st = [a \in Found(s, d) |-> got[a]]
    BY <1>0, <1>5, Exchanged
  <2> QED BY <1>2, <1>4, <2>1
<1>6. ASSUME Alone(Found(s, d)) PROVE got' = got
  BY <1>0, <1>6, RaisesUnlessAlone, NotExchanged
<1>7. \A t \in Modules, e \in Libs :
        Linked(t, e)' <=> (IF t = s /\ e = d THEN ~Alone(Found(s, d)) ELSE Linked(t, e))
  BY <1>1 DEF Linked
<1>8. \A t \in Modules, e \in Libs : (t # s \/ e # d) =>
        \A a \in Found(t, e) : got'[a] = got[a]
  BY <1>5, <1>6, FoundApart, FoundSlots
<1>9. ASSUME NEW t \in Modules, NEW e \in Libs, Linked(t, e)', NEW a \in Found(t, e)
      PROVE  got'[a] = <<e, object[e]>> /\ out'[t][e].relocs[a] = Orig
  <2>1. CASE t = s /\ e = d
    BY <1>5, <1>7, <1>9, <2>1, FoundSlots
  <2>2. CASE t # s \/ e # d
    BY <1>1, <1>7, <1>8, <1>9, <2>2 DEF Contents
  <2> QED BY <2>1, <2>2
<1>10. ASSUME NEW t \in Modules, NEW i \in DOMAIN Layout[t],
              \A e \in Libs : Linked(t, e)' => Layout[t][i].slot \notin Found(t, e)
       PROVE  got'[Layout[t][i].slot] = Orig
  <2> DEFINE a == Layout[t][i].slot
  <2>0. a \in Slots
    BY DEF Slots
  <2>1. \A e \in Libs : Linked(t, e) => a \notin Found(t, e)
    BY <1>3, <1>7, <1>10
  <2>2. got[a] = Orig
    BY <2>1 DEF Contents
  <2>3. CASE a \in Found(s, d) /\ ~Alone(Found(s, d))
    <3>1. PICK j \in DOMAIN Layout[s] : a = Layout[s][j].slot
      BY <2>3 DEF Found
    <3>2. t = s
      BY <3>1, LayoutAssumption
    <3> QED BY <1>7, <1>10, <2>3, <3>2
  <2>4. CASE ~(a \in Found(s, d) /\ ~Alone(Found(s, d)))
    BY <1>5, <1>6, <2>0, <2>2, <2>4
  <2> QED BY <2>3, <2>4
<1> QED BY <1>9, <1>10 DEF Contents

-----------------------------------------------------------------------------
(* Pages: what \div and % are, and that they keep the order.               *)
LEMMA DivRange ==
  ASSUME NEW P \in Nat \ {0}, NEW a \in Nat
  PROVE  /\ a \div P \in Nat /\ P * (a \div P) <= a /\ a < P * (a \div P) + P
         /\ a % P = a - P * (a \div P)
  OBVIOUS

LEMMA DivMonotone ==
  ASSUME NEW P \in Nat \ {0}, NEW a \in Nat, NEW b \in Nat, a <= b
  PROVE  a \div P <= b \div P
  BY DivRange

(* A set of naturals has a least element, and one of indices a greatest.   *)
LEMMA LeastExists ==
  ASSUME NEW S \in SUBSET Nat, S # {}
  PROVE  \E x \in S : \A y \in S : x <= y
<1> DEFINE R == {ss \in Nat \X Nat : ss[1] < ss[2]}
<1>1. IsWellFoundedOn(R, Nat)
  BY NatLessThanWellFounded DEF OpToRel
<1>2. \A x, y \in Nat : y < x => <<y, x>> \in R
  OBVIOUS
<1> HIDE DEF R
<1>3. PICK x \in S : \A y \in S : ~ (<<y, x>> \in R)
  BY <1>1, WFMin
<1>4. \A y \in S : ~ (y < x)
  BY <1>2, <1>3
<1>5. \A y \in S : x <= y
  BY <1>4
<1> QED BY <1>5

LEMMA GreatestExists ==
  ASSUME NEW n \in Nat, NEW S \in SUBSET (1 .. n), S # {}
  PROVE  \E x \in S : \A y \in S : y <= x
<1> DEFINE T == {n - x : x \in S}
<1>1. \A x \in S : x \in Int /\ n - x \in Nat
  OBVIOUS
<1>2. T \in SUBSET Nat /\ T # {}
  BY <1>1
<1> HIDE DEF T
<1>3. PICK t \in T : \A u \in T : t <= u
  BY <1>2, LeastExists
<1> USE DEF T
<1>4. PICK x \in S : t = n - x
  OBVIOUS
<1>5. \A y \in S : n - x <= n - y
  BY <1>3, <1>4
<1>6. \A y \in S : y <= x
  BY <1>1, <1>5
<1> QED BY <1>6

(* A slot whose page is not open is one that mprotect does not reach.      *)
LEMMA FaultsBeyond ==
  ASSUME NEW s \in Modules, NEW d \in Libs, NEW relocs, NEW failure,
         DOMAIN relocs \in {Found(s, d), {}}, Faults(s, relocs, failure)
  PROVE  \E a \in Beyond(s, d) : a \div PageSize \notin writable
<1> DEFINE F == Found(s, d)
           R == Raises(s, F)
<1>1. PICK a \in DOMAIN relocs : a \div PageSize \notin Opened(s, DOMAIN relocs)
  BY DEF Faults
<1>2. DOMAIN relocs = F /\ a \in F /\ R # {}
  BY <1>1 DEF Faults, Reached
<1>3. PICK n \in Nat : DOMAIN Layout[s] = 1 .. n
  BY LayoutAssumption
<1>4. F \in SUBSET Nat /\ F \in SUBSET Slots /\ \A b \in F : 1 <= b
  BY FoundSlots, LayoutAssumption
<1>5. /\ Lowest(F) \in F
      /\ \A b \in F : Lowest(F) <= b
  BY <1>2, <1>4, LeastExists DEF Lowest
<1>6. R \in SUBSET (1 .. n)
  BY <1>3 DEF Raises
<1>7. Last(R) \in R
  BY <1>2, <1>3, <1>6, GreatestExists DEF Last
<1>8. Highest(s, F) \in F
  BY <1>7 DEF Raises, Highest
<1> HIDE DEF R, F
<1> DEFINE p == a \div PageSize
           l == Lowest(F) \div PageSize
           h == (Highest(s, F) - 1) \div PageSize
<1>9. Highest(s, F) - 1 \in Nat
  <2>1. \A b \in F : b - 1 \in Nat
    BY <1>4
  <2> QED BY <1>8, <2>1
<1>10. p \in Nat /\ l \in Nat /\ h \in Nat /\ l <= p
  BY <1>2, <1>4, <1>5, <1>9, DivRange, DivMonotone, LayoutAssumption
<1>11. p \notin Touched(s, F) /\ p \notin writable
  <2>1. p \in Pages
    BY <1>2, <1>4 DEF Pages
  <2> QED BY <1>1, <1>2, <2>1 DEF Opened
<1>12. h < p
  <2>1. Touched(s, F) = l .. h
    BY DEF Touched
  <2> HIDE DEF p, l, h
  <2> QED BY <1>10, <1>11, <2>1
<1>13. a \in Beyond(s, d)
  BY <1>2, <1>12 DEF Beyond, F, R
<1> QED BY <1>11, <1>13

-----------------------------------------------------------------------------
(* What invalidate and the constructor write are the slots found, or none. *)
LEMMA RestoredDomain ==
  ASSUME Registered, NEW s \in Modules, NEW d \in Libs
  PROVE  DOMAIN Restored(s, d) \in {Found(s, d), {}}
  BY DEF Registered, Restored

\* What WritesPermitted says of a step.
Excused ==
  \E s \in Modules, d \in Libs :
    Writing(s, d) /\ \E a \in Beyond(s, d) : a \div PageSize \notin writable

(* A relinkage that restores slots is valid, and faults for slots beyond.  *)
LEMMA RestoreExcused ==
  ASSUME RInv, crash = "no", NEW s \in Modules, NEW d \in Libs, NEW failure,
         loop = Idle \/ AtSource(s, d), Faults(s, Restored(s, d), failure)
  PROVE  Excused
<1>1. Registered
  BY DEF RInv
<1>2. \E a \in Beyond(s, d) : a \div PageSize \notin writable
  BY <1>1, RestoredDomain, FaultsBeyond
<1>3. out[s][d].valid
  BY DEF Faults, Restored
<1> QED BY <1>2, <1>3 DEF Excused, Writing

LEMMA FaultExcused ==
  ASSUME RInv, Next, crash = "no", crash' = "fault"
  PROVE  Excused
<1>1. ASSUME NEW op \in {"relink", "emplace", "unload"}, In(op)
      PROVE  loop.lib \in Libs
  BY <1>1, InLoop, LoopIs DEF RInv
<1>2. ASSUME NEW s \in Modules, NEW d \in Libs, NEW failure,
             loop = Idle \/ AtSource(s, d),
             Erase(s, d, failure) \/ Invalidate(s, d, failure)
      PROVE  Excused
  <2>1. Faults(s, Restored(s, d), failure)
    BY <1>2 DEF Erase, EraseKeeping, Invalidate
  <2> QED BY <1>2, <2>1, RestoreExcused
<1>3. ASSUME NEW d \in Libs, NEW s \in Modules, Unrelink(s, d)
      PROVE  Excused
  BY <1>2, <1>3 DEF Unrelink
<1>4. ASSUME NEW i \in DOMAIN Sources, RelinkModule(i)
      PROVE  Excused
  <2>1. In("relink") /\ AtSource(Sources[i], loop.lib)
    BY <1>4 DEF RelinkModule, AtSource, First
  <2>2. UNCHANGED crash \/ \E failure \in Failures : Erase(Sources[i], loop.lib, failure)
    BY <1>4 DEF RelinkModule
  <2> QED BY <1>1, <1>2, <2>1, <2>2, SourcesAreModules
<1>5. ASSUME NEW i \in DOMAIN Sources, Emplace(i)
      PROVE  Excused
  <2> DEFINE s == Sources[i]
             d == loop.lib
             relocs == [a \in Found(s, d) |-> <<d, object[d]>>]
  <2>1. In("emplace") /\ s \in Modules /\ d \in Libs /\ AtSource(s, d)
    BY <1>1, <1>5, SourcesAreModules DEF Emplace, AtSource, First
  <2>2. PICK failure \in Failures : Construct(s, d, failure)
    BY <1>5 DEF Emplace
  <2>3. Faults(s, relocs, failure)
    BY <2>2 DEF Construct
  <2>4. DOMAIN relocs = Found(s, d)
    OBVIOUS
  <2> HIDE DEF relocs
  <2>5. \E a \in Beyond(s, d) : a \div PageSize \notin writable
    BY <2>1, <2>3, <2>4, FaultsBeyond
  <2> QED BY <2>1, <2>5 DEF Excused, Writing, In
<1>6. ASSUME NEW i \in DOMAIN Sources, InvalidateIn(i)
      PROVE  Excused
  <2>1. In("unload") /\ AtSource(Sources[i], loop.lib)
    BY <1>6 DEF InvalidateIn, AtSource, In
  <2> QED BY <1>1, <1>2, <1>6, <2>1, SourcesAreModules DEF InvalidateIn
<1>7. ASSUME NEW d \in Libs, Relink(d) \/ Unload(d)
      PROVE  Excused
  BY <1>7 DEF Relink, Unload
<1>8. ASSUME RelinkEnds \/ Close
      PROVE  Excused
  BY <1>8 DEF RelinkEnds, Close
<1> QED BY <1>3, <1>4, <1>5, <1>6, <1>7, <1>8 DEF Next

(* A relinkage's write faults only for a slot beyond the length that       *)
(* writeRelocations gives mprotect, and on a page that is not writable:    *)
(* for any layouts (ascending or not), pages, libraries, order of the      *)
(* operations and failures of mprotect.                                    *)
THEOREM WritesAlwaysPermitted == Spec => WritesPermitted
<1>1. RInv /\ [Next]_vars =>
        (crash = "no" /\ crash' = "fault" => Excused)
  <2> SUFFICES ASSUME RInv, [Next]_vars, crash = "no", crash' = "fault"
               PROVE  Excused
    OBVIOUS
  <2>1. Next
    BY DEF vars
  <2> QED BY <2>1, FaultExcused
<1>2. RInv /\ [Next]_vars =>
        [(crash = "no" /\ crash' = "fault") =>
           \E s \in Modules, d \in Libs :
             Writing(s, d) /\ \E a \in Beyond(s, d) : a \div PageSize \notin writable]_vars
  BY <1>1 DEF Excused
<1> QED BY <1>2, RInductive, PTL DEF Spec, WritesPermitted

-----------------------------------------------------------------------------
SInv == RInv /\ CInv

LEMMA InitCInv == Init => CInv
  BY DEF Init, CInv, Contents, Linked, None, Slots

LEMMA StaysLinked ==
  ASSUME Contents, UNCHANGED <<got, out>>,
         \A s \in Modules, d \in Libs : Linked(s, d) => object'[d] = object[d]
  PROVE  Contents'
<1>1. \A s \in Modules, d \in Libs : Linked(s, d)' <=> Linked(s, d)
  BY DEF Linked
<1> QED BY <1>1 DEF Contents

LEMMA NextCInv ==
  ASSUME SlotsAscend, NamesDisjoint, "RW" \notin Failures, SInv, [Next]_vars
  PROVE  CInv'
<1> SUFFICES ASSUME crash' = "no" PROVE Contents'
  BY DEF CInv
<1>0. Types /\ RInv
  BY DEF SInv, RInv
<1>1. CASE UNCHANGED <<got, out, object, crash>>
  BY <1>1, StaysLinked DEF SInv, CInv
<1>2. ASSUME NEW s \in Modules, NEW d \in Libs, NEW failure \in Failures, crash = "no",
             Erase(s, d, failure), UNCHANGED object
      PROVE  Contents'
  <2>1. Registered /\ Contents /\ failure # "RW"
    BY <1>2 DEF SInv, RInv, CInv
  <2>2. /\ WriteRelocations(s, Restored(s, d), failure)
        /\ ~Faults(s, Restored(s, d), failure)
    BY <1>2 DEF Erase, EraseKeeping
  <2> QED BY <1>0, <1>2, <2>1, <2>2, EraseEffect, RemovedContents
<1>3. ASSUME NEW s \in Modules, NEW d \in Libs, NEW failure \in Failures, crash = "no",
             Invalidate(s, d, failure), UNCHANGED object
      PROVE  Contents'
  <2>1. Registered /\ Contents /\ failure # "RW"
    BY <1>3 DEF SInv, RInv, CInv
  <2>2. /\ WriteRelocations(s, Restored(s, d), failure)
        /\ ~Faults(s, Restored(s, d), failure)
    BY <1>3 DEF Invalidate
  <2> QED BY <1>0, <1>3, <2>1, <2>2, InvalidateEffect, RemovedContents
<1>4. ASSUME NEW op \in {"relink", "emplace", "unload"}, In(op)
      PROVE  loop.lib \in Libs /\ crash = "no"
  BY <1>0, <1>4, InLoop, LoopIs DEF In
<1>5. CASE UNCHANGED vars
  BY <1>1, <1>5 DEF vars
<1>6. ASSUME NEW d \in Libs, NEW s \in Modules, Unrelink(s, d) PROVE Contents'
  BY <1>2, <1>6 DEF Unrelink
<1>7. ASSUME NEW i \in DOMAIN Sources, RelinkModule(i) PROVE Contents'
  <2>1. In("relink") /\ UNCHANGED object
    BY <1>7 DEF RelinkModule
  <2>2. \/ UNCHANGED <<got, out, crash>>
        \/ \E failure \in Failures : Erase(Sources[i], loop.lib, failure)
    BY <1>7 DEF RelinkModule
  <2> QED BY <1>1, <1>2, <1>4, <2>1, <2>2, SourcesAreModules
<1>8. ASSUME NEW i \in DOMAIN Sources, Emplace(i) PROVE Contents'
  <2>1. In("emplace") /\ First(i) /\ UNCHANGED object
    BY <1>8 DEF Emplace
  <2>2. PICK failure \in Failures : Construct(Sources[i], loop.lib, failure)
    BY <1>8 DEF Emplace
  <2>3. /\ loop.lib \in Libs /\ Sources[i] \in Modules
        /\ Registered /\ Looping /\ Contents /\ failure # "RW" /\ loop.op = "emplace"
    BY <1>4, <2>1, SourcesAreModules DEF SInv, RInv, CInv, In
  <2>4. ~out[Sources[i]][loop.lib].valid
    BY <2>1, <2>3 DEF Looping
  <2> QED BY <1>0, <2>1, <2>2, <2>3, <2>4, ConstructedContents
<1>9. ASSUME NEW i \in DOMAIN Sources, InvalidateIn(i) PROVE Contents'
  <2>1. In("unload") /\ UNCHANGED object
    BY <1>9 DEF InvalidateIn
  <2>2. PICK failure \in Failures : Invalidate(Sources[i], loop.lib, failure)
    BY <1>9 DEF InvalidateIn
  <2> QED BY <1>3, <1>4, <2>1, <2>2, SourcesAreModules
<1>10. ASSUME NEW d \in Libs, Relink(d) PROVE Contents'
  <2>1. /\ Registered /\ Contents /\ Load(d) /\ UNCHANGED <<got, out>>
    BY <1>10 DEF Relink, SInv, RInv, CInv
  <2>2. \A s \in Modules, e \in Libs : Linked(s, e) => object'[e] = object[e]
    <3>1. CASE d \in alive
      BY <2>1, <3>1 DEF Load
    <3>2. CASE d \notin alive
      BY <1>0, <2>1, <3>2 DEF Load, Linked, Registered, Types
    <3> QED BY <3>1, <3>2
  <2> QED BY <2>1, <2>2, StaysLinked
<1>11. ASSUME NEW d \in Libs, Unload(d) PROVE Contents'
  BY <1>1, <1>11 DEF Unload
<1>12. ASSUME RelinkEnds \/ Close PROVE Contents'
  BY <1>1, <1>12 DEF RelinkEnds, Close
<1> QED BY <1>5, <1>6, <1>7, <1>8, <1>9, <1>10, <1>11, <1>12 DEF Next

(* With relocations in ascending order, libraries that define no name in   *)
(* common and no failure to make the pages writable, the slots are always  *)
(* exactly what the valid relinkages say, whatever came and went before.   *)
THEOREM SlotsAlwaysExact ==
  ASSUME SlotsAscend, NamesDisjoint, "RW" \notin Failures
  PROVE  Spec => []SlotsExact
<1>1. Init => SInv
  BY InitRInv, InitCInv DEF SInv
<1>2. SInv /\ [Next]_vars => SInv'
  BY NextRInv, NextCInv DEF SInv
<1>3. SInv => SlotsExact
  <2> SUFFICES ASSUME SInv, crash = "no",
                      NEW s \in Modules, NEW i \in DOMAIN Layout[s]
               PROVE  LET by == {d \in Libs :
                                   /\ out[s][d].valid
                                   /\ \E a, b \in DOMAIN out[s][d].relocs : a # b
                                   /\ Layout[s][i].name \in Defines[d]}
                      IN  IF by = {} THEN got[Layout[s][i].slot] = Orig
                          ELSE \E d \in by \cap alive :
                                 got[Layout[s][i].slot] = <<d, object[d]>>
    BY DEF SlotsExact
  <2> DEFINE by == {d \in Libs : /\ out[s][d].valid
                                 /\ \E a, b \in DOMAIN out[s][d].relocs : a # b
                                 /\ Layout[s][i].name \in Defines[d]}
             slot == Layout[s][i].slot
  <2>1. Registered /\ Contents
    BY DEF SInv, RInv, CInv
  <2>2. \A d \in Libs : slot \in Found(s, d) <=> Layout[s][i].name \in Defines[d]
    BY LayoutAssumption DEF Found
  <2>3. by = {d \in Libs : Linked(s, d) /\ slot \in Found(s, d)}
    BY <2>1, <2>2 DEF Linked, Alone, Registered
  <2> HIDE DEF by
  <2>4. ASSUME by = {} PROVE got[slot] = Orig
    BY <2>1, <2>3, <2>4 DEF Contents
  <2>5. ASSUME by # {} PROVE \E d \in by \cap alive : got[slot] = <<d, object[d]>>
    <3>1. PICK d \in Libs : d \in by /\ Linked(s, d) /\ slot \in Found(s, d)
      BY <2>3, <2>5
    <3>2. d \in alive /\ got[slot] = <<d, object[d]>>
      BY <2>1, <3>1 DEF Contents, Registered, Linked
    <3> QED BY <3>1, <3>2
  <2> QED BY <2>4, <2>5 DEF by
<1> QED BY <1>1, <1>2, <1>3, PTL DEF Spec
=============================================================================
