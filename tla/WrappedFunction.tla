--------------------------- MODULE WrappedFunction ---------------------------
(***************************************************************************)
(* WrappedFunction<faddr> (include/WrappedFunction.h) and wrapFunction     *)
(* (include/SpiedProgram.h 86-102), for one function and several programs. *)
(* The static wrappers are a pool that all programs share.  A WrappedFunc- *)
(* tion owns one of them and the slot, a relocation in a binary of its     *)
(* program, which a command of the program's Tracer makes point to the     *)
(* wrapper or back; the program's thread calls through the slot at any     *)
(* time.  wrapperMutex is held while such a call is inside the wrapper.    *)
(***************************************************************************)
EXTENDS Integers, Sequences, SequencesExt, FiniteSets

CONSTANTS
  NbPrograms, Bins,
  NbWrappers,     \* WRAPPER_MAX_NB
  Nowhere         \* no object, no wrapper

Programs == 1 .. NbPrograms
Wrappers == 1 .. NbWrappers
Objects == Programs \X Bins  \* a program has at most one object for a binary

\* What the constructor finds: the function may be missing, or the slot;
\* without a slot it makes no difference whether there is the function.
Lookups == {"both", "noFunction", "noSlot"}

WrappedFunctions == [w : Wrappers, lookup : Lookups, ending : BOOLEAN]

ASSUME WrappersAssumption ==
  /\ NbWrappers \in Nat \ {0} /\ NbPrograms \in Nat
  /\ Nowhere \notin Wrappers \cup Objects \cup WrappedFunctions

VARIABLES
  available,   \* wrappers.available
  target,      \* wrappedFunction, by wrapper
  dynamic,     \* dynamicWrapper, by wrapper: the object it was set for
  leaked,      \* history: the wrappers taken by constructors that threw
  object,      \* the WrappedFunctions, or Nowhere
  slot,        \* what the slot of each object points to
  queue,       \* the Tracer's commands, by program
  user,        \* what the tester's thread waits for
  th,          \* the thread of a program: "none", "stopped", "running", "dead"
  calling,     \* the wrapper it is inside of, or Nowhere
  crash,       \* undefined behaviour of the tester, which ends it
  stray        \* history: a call reached what is not its program's

poolVars == <<available, target, dynamic, leaked>>
wrapVars == <<poolVars, object, slot, queue, user, th, calling, crash, stray>>

Fun(p) == <<"function", p>>
Wrap(w) == <<"wrapper", w>>
Null == <<"null">>
Idle == [op |-> "idle"]

WrapInit ==
  /\ available = [k \in Wrappers |-> k]
  /\ target = [w \in Wrappers |-> Fun(0)] \* the tester's own, faddr
  /\ dynamic = [w \in Wrappers |-> Nowhere]
  /\ leaked = {}
  /\ object = [o \in Objects |-> Nowhere]
  /\ slot = [o \in Objects |-> Fun(o[1])]
  /\ queue = [p \in Programs |-> <<>>]
  /\ user = Idle
  /\ th = [p \in Programs |-> "none"]
  /\ calling = [p \in Programs |-> Nowhere]
  /\ crash = "none" /\ stray = FALSE

Held(w) == \E p \in Programs : calling[p] = w

-----------------------------------------------------------------------------
(* The constructor.  The exceptions of lines 140, 146 and 164 are          *)
(* constructed and not thrown.                                             *)

\* getWrapper.
TakeWrapper(o, lookup) ==
  /\ object[o] = Nowhere /\ available # <<>>
  /\ available' = Front(available)
  /\ target' = [target EXCEPT ![Last(available)] =
                  IF lookup = "noFunction" THEN Null ELSE Fun(o[1])]
  /\ UNCHANGED <<dynamic, slot, queue, user, th, calling, crash, stray>>

NewWrapped(o, lookup) ==
  /\ TakeWrapper(o, lookup)
  /\ object' = [object EXCEPT ![o] = [w |-> Last(available), lookup |-> lookup,
                                     ending |-> FALSE]]
  /\ UNCHANGED leaked

\* Loading the binary, or reading its relocations, throws: there is no object,
\* and so no destructor that gives the wrapper back.
NewWrappedThrows(o, lookup) ==
  /\ TakeWrapper(o, lookup)
  /\ leaked' = leaked \cup {Last(available)}
  /\ UNCHANGED object

\* The last element of an empty vector is taken, or the module is not there.
WrapCrashes(o) ==
  /\ object[o] = Nowhere
  /\ crash' = IF available = <<>> THEN "pool" ELSE "module"
  /\ UNCHANGED <<poolVars, object, slot, queue, user, th, calling, stray>>

SetWrapper(o) ==
  /\ object[o] # Nowhere
  /\ ~Held(object[o].w)
  /\ dynamic' = [dynamic EXCEPT ![object[o].w] = o]
  /\ UNCHANGED <<available, target, leaked, object, slot, queue, user, th, calling,
                 crash, stray>>

Write(o, value) ==
  queue' = [queue EXCEPT ![o[1]] = Append(@, [object |-> o, value |-> value])]

ValueFor(o, active) ==
  IF active THEN Wrap(object[o].w) ELSE target[object[o].w]

Wrapping(o, active) ==
  /\ object[o] # Nowhere
  /\ IF object[o].lookup # "noSlot"
       THEN /\ Write(o, ValueFor(o, active))
            /\ user' = [op |-> "wrapping", object |-> o, active |-> active,
                        result |-> "none"]
       ELSE UNCHANGED <<queue, user>> \* returns true
  /\ UNCHANGED <<poolVars, object, slot, th, calling, crash, stray>>

WrappingReturnsWhen(ready) ==
  /\ user.op = "wrapping" /\ ready
  /\ user' = Idle
  /\ UNCHANGED <<poolVars, object, slot, queue, th, calling, crash, stray>>

\* Mutant: the result of the write is not waited for.
WrappingReturnsAtOnce == WrappingReturnsWhen(TRUE)

WrappingReturns == WrappingReturnsWhen(user.result # "none")

\* The destructor restores the slot by a command nobody waits for, and that
\* fails when there is no slot.
RestoreSlot(o) ==
  /\ object[o] # Nowhere /\ ~object[o].ending
  /\ object' = [object EXCEPT ![o].ending = TRUE]
  /\ IF object[o].lookup # "noSlot" THEN Write(o, ValueFor(o, FALSE)) ELSE UNCHANGED queue
  /\ UNCHANGED <<poolVars, slot, user, th, calling, crash, stray>>

\* releaseWrapper empties the wrapper and gives it back.
ReleaseTo(o, released) ==
  /\ object[o] # Nowhere /\ object[o].ending
  /\ ~Held(object[o].w)
  /\ dynamic' = [dynamic EXCEPT ![object[o].w] = Nowhere]
  /\ available' = released
  /\ object' = [object EXCEPT ![o] = Nowhere]
  /\ UNCHANGED <<target, leaked, slot, queue, user, th, calling, crash, stray>>

\* Mutant: the wrapper is not given back.
ReleaseKeeping(o) == ReleaseTo(o, available)

ReleaseWrapper(o) == ReleaseTo(o, Append(available, object[o].w))

-----------------------------------------------------------------------------
(* The Tracer writes the slot through the starter, which lives as long as  *)
(* the program.                                                            *)
RunWrite(p) ==
  /\ queue[p] # <<>>
  /\ LET c == Head(queue[p])
     IN  /\ slot' = IF th[p] # "dead" THEN [slot EXCEPT ![c.object] = c.value] ELSE slot
         /\ user' = IF user.op = "wrapping" /\ user.object[1] = p /\ Len(queue[p]) = 1
                      THEN [user EXCEPT !.result = IF th[p] # "dead" THEN "ok" ELSE "failed"]
                      ELSE user
  /\ queue' = [queue EXCEPT ![p] = Tail(@)]
  /\ UNCHANGED <<poolVars, object, th, calling, crash, stray>>

(* A call of the program's thread through a slot.                          *)
IsOwn(o, value) == value = Fun(o[1]) \/ (object[o] # Nowhere /\ object[o].lookup = "noFunction")

CallDirect(o) ==
  /\ th[o[1]] = "running" /\ calling[o[1]] = Nowhere
  /\ \A w \in Wrappers : slot[o] # Wrap(w)
  /\ stray' = (stray \/ ~IsOwn(o, slot[o]))
  /\ UNCHANGED <<poolVars, object, slot, queue, user, th, calling, crash>>

\* staticWrapper: dynamicWrapper is called, or wrappedFunction if it is empty.
EnterWrapper(o) ==
  /\ th[o[1]] = "running" /\ calling[o[1]] = Nowhere
  /\ \E w \in Wrappers :
       /\ slot[o] = Wrap(w) /\ ~Held(w)
       /\ calling' = [calling EXCEPT ![o[1]] = w]
       /\ stray' = (stray \/ IF dynamic[w] = Nowhere THEN ~IsOwn(o, target[w])
                                                    ELSE dynamic[w] # o)
  /\ UNCHANGED <<poolVars, object, slot, queue, user, th, crash>>

LeaveWrapper(p) ==
  /\ th[p] = "running" /\ calling[p] # Nowhere
  /\ calling' = [calling EXCEPT ![p] = Nowhere]
  /\ UNCHANGED <<poolVars, object, slot, queue, user, th, crash, stray>>

-----------------------------------------------------------------------------
(* Every wrapper is free, once, or belongs to one WrappedFunction, through *)
(* any sequence of wrapFunctions and of programs that come to their end:   *)
(* unless a constructor threw after it had taken the wrapper, which is     *)
(* lost then for as long as the tester runs.                               *)
PoolExact ==
  \A w \in Wrappers :
    Cardinality({k \in DOMAIN available : available[k] = w})
      + Cardinality({o \in Objects : object[o] # Nowhere /\ object[o].w = w})
      = IF w \in leaked THEN 0 ELSE 1

(* A call through a slot reaches the function of the caller's own program  *)
(* or the wrapper set for that very slot, although wrappers pass from one  *)
(* program to another while the command that restores a slot has yet to    *)
(* run (lines 185-186).                                                    *)
CallsStayHome == ~stray

(* When wrapping returns true the slot is what was asked, unless the       *)
(* relocation was not found, in which case it returns true all the same.   *)
WrappingIsDone ==
  [][(user.op = "wrapping" /\ user' = Idle /\ user.result # "failed") =>
       slot[user.object] = ValueFor(user.object, user.active)]_wrapVars
=============================================================================
