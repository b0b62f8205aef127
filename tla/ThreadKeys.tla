----------------------------- MODULE ThreadKeys -----------------------------
(***************************************************************************)
(* SpyLoader::pthreadKeyCreate and pthreadKeyDelete (source/SpyLoader.cpp).*)
(* Every namespace has its own libpthread, with its own table of thread-   *)
(* specific keys, while a key must mean the same in all of them: a key is  *)
(* created or deleted in each namespace in turn, under one mutex, and the  *)
(* loop stops at the first namespace that refuses or answers another key.  *)
(* What was done in the namespaces before it is not undone.                *)
(***************************************************************************)
EXTENDS Integers

CONSTANTS
  Threads,  \* the threads that create and delete keys, of any namespace
  NoOne,    \* owner of a free mutex
  Nb,       \* namespaces whose functions are registered, the base one first
  MaxKeys,  \* PTHREAD_KEYS_MAX
  Starts    \* the tables there may be once every namespace is registered

Namespaces == 0 .. Nb - 1
Keys == 0 .. MaxKeys - 1

ASSUME KeysAssumption ==
  /\ NoOne \notin Threads
  /\ Nb \in Nat \ {0}
  /\ MaxKeys \in Nat
  /\ Starts \subseteq [Namespaces -> SUBSET Keys]

VARIABLES
  taken,  \* the tables once every namespace was registered
  table,  \* the keys in use in each namespace's libpthread
  mutex,  \* owner of _pthreadKeyMutex
  pc,     \* where each thread is
  idx,    \* the namespace a thread's loop has come to
  key,    \* *key of a creation, the argument of a deletion
  result  \* what a thread's last call returned

keyVars == <<taken, table, mutex, pc, idx, key, result>>

KeysInit ==
  /\ taken \in Starts /\ table = taken
  /\ mutex = NoOne
  /\ pc = [t \in Threads |-> "idle"]
  /\ idx = [t \in Threads |-> 0]
  /\ key = [t \in Threads |-> 0]
  /\ result = [t \in Threads |-> "none"]

-----------------------------------------------------------------------------
CallCreate(t) ==
  /\ pc[t] = "idle"
  /\ pc' = [pc EXCEPT ![t] = "lockCreate"]
  /\ UNCHANGED <<taken, table, mutex, idx, key, result>>

CallDelete(t) ==
  /\ pc[t] = "idle"
  /\ \E k \in Keys : key' = [key EXCEPT ![t] = k]
  /\ pc' = [pc EXCEPT ![t] = "lockDelete"]
  /\ UNCHANGED <<taken, table, mutex, idx, result>>

Lock(t) ==
  /\ mutex = NoOne
  /\ mutex' = t
  /\ idx' = [idx EXCEPT ![t] = 0]
  /\ \/ pc[t] = "lockCreate" /\ pc' = [pc EXCEPT ![t] = "create"]
     \/ pc[t] = "lockDelete" /\ pc' = [pc EXCEPT ![t] = "delete"]
  /\ UNCHANGED <<taken, table, key, result>>

\* The call returns, and the guard releases the mutex.
Return(t, res) ==
  /\ result' = [result EXCEPT ![t] = res]
  /\ mutex' = NoOne
  /\ pc' = [pc EXCEPT ![t] = "idle"]
  /\ UNCHANGED idx

\* Mutant: the last return is missing, and res is not what it should be.
GoOnUnreturned(t) ==
  IF idx[t] = Nb - 1
    THEN Return(t, "error")
    ELSE /\ idx' = [idx EXCEPT ![t] = @ + 1]
         /\ UNCHANGED <<mutex, pc, result>>

GoOn(t) ==
  IF idx[t] = Nb - 1
    THEN Return(t, "ok")
    ELSE /\ idx' = [idx EXCEPT ![t] = @ + 1]
         /\ UNCHANGED <<mutex, pc, result>>

\* libpthread answers its first free key.
FirstFree(inUse) ==
  CHOOSE k \in Keys \ inUse : \A j \in Keys \ inUse : k <= j

CreateKeyFails(t) ==
  /\ pc[t] = "create"
  /\ table[idx[t]] = Keys
  /\ Return(t, "error")
  /\ UNCHANGED <<taken, table, key>>

\* Mutant: the key answered is not compared with that of the base namespace.
CreateKeyUncompared(t) ==
  /\ pc[t] = "create"
  /\ table[idx[t]] # Keys
  /\ LET new == FirstFree(table[idx[t]])
     IN  /\ table' = [table EXCEPT ![idx[t]] = @ \cup {new}]
         /\ key' = IF idx[t] = 0 THEN [key EXCEPT ![t] = new] ELSE key
         /\ GoOn(t)
  /\ UNCHANGED taken

CreateKey(t) ==
  /\ pc[t] = "create"
  /\ table[idx[t]] # Keys
  /\ LET new == FirstFree(table[idx[t]])
     IN  /\ table' = [table EXCEPT ![idx[t]] = @ \cup {new}]
         /\ key' = IF idx[t] = 0 THEN [key EXCEPT ![t] = new] ELSE key
         /\ IF new # key'[t] THEN Return(t, "incoherent") ELSE GoOn(t)
  /\ UNCHANGED taken

\* Mutant: a refused deletion is tried again.
DeleteKeyRetries(t) ==
  /\ pc[t] = "delete"
  /\ key[t] \notin table[idx[t]]
  /\ UNCHANGED keyVars

DeleteKeyFails(t) ==
  /\ pc[t] = "delete"
  /\ key[t] \notin table[idx[t]]
  /\ Return(t, "error")
  /\ UNCHANGED <<taken, table, key>>

\* Mutant: the test of res is inverted: the deletion stops when it succeeds.
DeleteKeyInverted(t) ==
  /\ pc[t] = "delete"
  /\ key[t] \in table[idx[t]]
  /\ table' = [table EXCEPT ![idx[t]] = @ \ {key[t]}]
  /\ Return(t, "error")
  /\ UNCHANGED <<taken, key>>

DeleteKey(t) ==
  /\ pc[t] = "delete"
  /\ key[t] \in table[idx[t]]
  /\ table' = [table EXCEPT ![idx[t]] = @ \ {key[t]}]
  /\ GoOn(t)
  /\ UNCHANGED <<taken, key>>

-----------------------------------------------------------------------------
Work(t) == CreateKeyFails(t) \/ CreateKey(t) \/ DeleteKeyFails(t) \/ DeleteKey(t)

KeysNext ==
  \E t \in Threads : CallCreate(t) \/ CallDelete(t) \/ Lock(t) \/ Work(t)

KeysSpec == KeysInit /\ [][KeysNext]_keyVars

(* A thread inside a call is scheduled; the mutex goes in the end to each  *)
(* thread that waits for it (the holder never blocks).                     *)
Fairness == \A t \in Threads : WF_keyVars(Work(t)) /\ SF_keyVars(Lock(t))

FairKeysSpec == KeysSpec /\ Fairness

-----------------------------------------------------------------------------
Results == {"none", "ok", "error", "incoherent"}
Labels == {"idle", "lockCreate", "lockDelete", "create", "delete"}

TypeOK ==
  /\ taken \in [Namespaces -> SUBSET Keys]
  /\ table \in [Namespaces -> SUBSET Keys]
  /\ mutex \in Threads \cup {NoOne}
  /\ pc \in [Threads -> Labels]
  /\ idx \in [Threads -> Namespaces]
  /\ key \in [Threads -> Nat]
  /\ result \in [Threads -> Results]

SameAtStart == \A m, n \in Namespaces : taken[m] = taken[n]

(* Between two calls a key is in use in all the namespaces or in none, if  *)
(* it was so when they were registered.                                    *)
KeysCoherent ==
  (SameAtStart /\ mutex = NoOne) => \A m, n \in Namespaces : table[m] = table[n]

(* And then no call ever fails half-way: the second namespace never        *)
(* refuses what the base one accepted, nor answers another key, so nothing *)
(* is left to be undone (lines 219-225 and 235-238).                       *)
NeverHalfDone ==
  [][\A t \in Threads :
       /\ SameAtStart
       /\ pc[t] \in {"create", "delete"} /\ pc'[t] = "idle" /\ result'[t] # "ok"
       => idx[t] = 0]_keyVars

(* Whatever the tables were, a call that returns 0 has created or deleted  *)
(* the same key in every namespace.                                        *)
SuccessIsEverywhere ==
  [][\A t \in Threads :
       (pc[t] \in {"create", "delete"} /\ pc'[t] = "idle" /\ result'[t] = "ok")
         => \A n \in Namespaces : (key'[t] \in table'[n]) <=> (pc[t] = "create")]_keyVars

(* Every call returns: each early return releases the mutex.               *)
CallsReturn == \A t \in Threads : (pc[t] # "idle") ~> (pc[t] = "idle")
=============================================================================
