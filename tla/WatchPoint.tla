----------------------------- MODULE WatchPoint -----------------------------
(***************************************************************************)
(* WatchPoint (source/WatchPoint.cpp) and the watchpoints a SpiedThread    *)
(* keeps (SpiedThread.cpp 13-21, 114-135).  set and unset read DR7, change *)
(* a few of its bits and write it back, all through the Tracer's queue,    *)
(* and assign _addr and _isSet in between: the calls of two threads, and   *)
(* the Tracer, interleave between any two of these.                        *)
(* DR7 is the set of the numbers of its bits that are 1.                   *)
(***************************************************************************)
EXTENDS Integers, Sequences, SequencesExt

CONSTANTS
  Users,           \* the threads that call
  NbWatch,         \* WatchPoint::maxNb
  Made,            \* the indices users make WatchPoints of their own for
  Addrs,           \* addresses to watch
  Triggers, Sizes, \* values of E_Trigger and E_Size
  MaxCalls,        \* bound: calls of all users
  MaxRuns          \* bound: times the traced thread is resumed

ASSUME WatchAssumption ==
  /\ NbWatch \in 1 .. 4 /\ Made \subseteq 0 .. NbWatch - 1
  /\ Triggers \subseteq {0, 1, 3} /\ Sizes \subseteq 0 .. 3
  /\ MaxCalls \in Nat /\ MaxRuns \in Nat
  /\ Users \cap (-1 .. 3) = {}

Slots == 0 .. NbWatch - 1
Objects == Slots \cup Users  \* the thread's own, and one that a user makes

VARIABLES
  stopped, runs,   \* the traced thread is stopped; times it was resumed
  dr7, drAddr,     \* its debug registers
  queue,           \* the Tracer's commands
  flags,           \* the second of the pairs of _watchPoints
  holds,           \* the WatchPoint each user works with, or Nobody
  idx,             \* _idx, by object
  isSet, addr,     \* _isSet and _addr, by object
  call, peeked,    \* the call of each user, and the value of its future
  at,              \* what the call does next, by user
  calls,           \* calls begun
  fresh,           \* history: the calls that read DR7 and were not disturbed
  want,            \* history: what the last undisturbed call asked, by slot
  mixed            \* history: the objects on which two calls have overlapped

thread == <<stopped, runs, dr7, drAddr>>
objects == <<flags, holds, idx, isSet, addr>>
history == <<fresh, want>>
vars == <<thread, queue, objects, call, peeked, at, calls, history, mixed>>

Nobody == -1
Idle == [op |-> "idle"]
Unknown == [state |-> "unknown"]
Off == [state |-> "off"]

Init ==
  /\ stopped = TRUE /\ runs = 0
  /\ dr7 = {} /\ drAddr = [i \in Slots |-> "null"]
  /\ queue = <<>>
  /\ flags = [i \in Slots |-> FALSE]
  /\ holds = [u \in Users |-> Nobody]
  /\ idx = [o \in Objects |-> IF o \in Slots THEN o ELSE 0]
  /\ isSet = [o \in Objects |-> FALSE] /\ addr = [o \in Objects |-> "null"]
  /\ call = [u \in Users |-> Idle] /\ peeked = [u \in Users |-> Idle]
  /\ at = [u \in Users |-> "none"]
  /\ calls = 0
  /\ fresh = {} /\ want = [i \in Slots |-> Off] /\ mixed = {}

-----------------------------------------------------------------------------
(* The arithmetic of DR7.  A shift is one of an int, whose bit 31 spreads  *)
(* over the upper half when the result meets the 64 bits of dr7.           *)

Shl(bits, n) ==
  LET int == {b + n : b \in bits} \cap 0 .. 31
  IN  IF 31 \in int THEN int \cup 32 .. 63 ELSE int

BitsOf(value) == {b \in 0 .. 1 : (value \div 2^b) % 2 = 1}

EnableBits(i) == Shl(0 .. 1, 2 * i)

\* Mutant: the bits of an earlier setting are left.
SetBitsUncleared(bits, i, trigger, size) ==
  bits \cup EnableBits(i) \cup Shl(BitsOf(trigger), 4 * i + 16)
       \cup Shl(BitsOf(size), 4 * i + 18)

SetBits(bits, i, trigger, size) ==
  (bits \ (EnableBits(i) \cup Shl(0 .. 3, 4 * i + 16)))
     \cup EnableBits(i)
     \cup Shl(BitsOf(trigger), 4 * i + 16)
     \cup Shl(BitsOf(size), 4 * i + 18)

UnsetBits(bits, i) == bits \ EnableBits(i)

-----------------------------------------------------------------------------
(* A user gets a WatchPoint of the thread, or makes one by the public      *)
(* constructor.  No code ever sets a flag of _watchPoints.                 *)

Hold(u, o) ==
  /\ call[u] = Idle /\ holds[u] = Nobody
  /\ holds' = [holds EXCEPT ![u] = o]
  /\ UNCHANGED <<thread, queue, flags, isSet, addr, call, peeked, at, calls, history,
                 mixed>>

CreateWatchPoint(u) ==
  /\ \E i \in Slots : /\ ~flags[i] /\ \A j \in 0 .. i - 1 : flags[j]
                      /\ Hold(u, i)
  /\ UNCHANGED idx

Construct(u, i) == Hold(u, u) /\ idx' = [idx EXCEPT ![u] = i]

-----------------------------------------------------------------------------
(* set, unset and deleteWatchPoint.                                        *)

\* Another user has a call under way on the object of u.
Overlaps(u) == \E v \in Users \ {u} : call[v] # Idle /\ holds[v] = holds[u]

Begin(u, c, next) ==
  /\ call[u] = Idle /\ holds[u] # Nobody /\ calls < MaxCalls
  /\ calls' = calls + 1
  /\ call' = [call EXCEPT ![u] = c]
  /\ queue' = Append(queue, [op |-> "PEEK7", by |-> u])
  /\ at' = [at EXCEPT ![u] = next]
  /\ mixed' = IF Overlaps(u) THEN mixed \cup {holds[u]} ELSE mixed
  /\ UNCHANGED <<thread, objects, peeked, history>>

SetBegin(u, a, trigger, size) ==
  Begin(u, [op |-> "set", addr |-> a, trigger |-> trigger, size |-> size], "poke")

UnsetBegin(u) == Begin(u, [op |-> "unset"], "get")

\* deleteWatchPoint does nothing for a WatchPoint that is not the thread's.
DeleteBegin(u) == holds[u] \in Slots /\ Begin(u, [op |-> "delete"], "get")

\* set queues the address and assigns _addr, before it waits for DR7.
PokeAddress(u) ==
  /\ at[u] = "poke"
  /\ queue' = Append(queue, [op |-> "POKEADDR", by |-> u, slot |-> idx[holds[u]],
                             addr |-> call[u].addr])
  /\ at' = [at EXCEPT ![u] = "record"]
  /\ UNCHANGED <<thread, objects, call, peeked, calls, history, mixed>>

RecordAddress(u) ==
  /\ at[u] = "record"
  /\ addr' = [addr EXCEPT ![holds[u]] = call[u].addr]
  /\ at' = [at EXCEPT ![u] = "get"]
  /\ UNCHANGED <<thread, queue, flags, holds, idx, isSet, call, peeked, calls, history,
                 mixed>>

\* What follows unset in deleteWatchPoint, whatever unset returned.
AfterCall(u) ==
  /\ call' = [call EXCEPT ![u] = Idle] /\ peeked' = [peeked EXCEPT ![u] = Idle]
  /\ at' = [at EXCEPT ![u] = "none"]
  /\ flags' = IF call[u].op = "delete" THEN [flags EXCEPT ![holds[u]] = FALSE]
                                       ELSE flags

\* The future of PEEKUSER is -1: false is returned.
CallFails(u) ==
  /\ at[u] = "get" /\ peeked[u] # Idle /\ ~peeked[u].ok
  /\ AfterCall(u)
  /\ UNCHANGED <<thread, queue, holds, idx, isSet, addr, calls, history, mixed>>

\* The new DR7 is queued.  asked is history: what the call wants of the slot.
Write(u, bits, asked) ==
  /\ at[u] = "get" /\ peeked[u] # Idle /\ peeked[u].ok
  /\ queue' = Append(queue, [op |-> "POKE7", by |-> u, slot |-> idx[holds[u]],
                             bits |-> bits, asked |-> asked])
  /\ at' = [at EXCEPT ![u] = "assign"] /\ peeked' = [peeked EXCEPT ![u] = Idle]
  /\ UNCHANGED <<thread, objects, call, calls, history, mixed>>

SetWrite(u) ==
  LET c == call[u]
  IN  /\ c.op = "set"
      /\ Write(u, SetBits(peeked[u].bits, idx[holds[u]], c.trigger, c.size),
               [state |-> "on", object |-> holds[u], addr |-> c.addr,
                trigger |-> c.trigger, size |-> c.size])

UnsetWrite(u) ==
  /\ call[u].op \in {"unset", "delete"}
  /\ Write(u, UnsetBits(peeked[u].bits, idx[holds[u]]), Off)

\* The members are assigned with the write of DR7 queued, or run already.
SetEnd(u) ==
  /\ call[u].op = "set" /\ at[u] = "assign"
  /\ addr' = [addr EXCEPT ![holds[u]] = call[u].addr]
  /\ isSet' = [isSet EXCEPT ![holds[u]] = TRUE]
  /\ AfterCall(u)
  /\ UNCHANGED <<thread, queue, holds, idx, calls, history, mixed>>

UnsetEndLeaving(u, value) ==
  /\ call[u].op \in {"unset", "delete"} /\ at[u] = "assign"
  /\ isSet' = [isSet EXCEPT ![holds[u]] = value]
  /\ AfterCall(u)
  /\ UNCHANGED <<thread, queue, holds, idx, addr, calls, history, mixed>>

\* Mutant: _isSet is not reset.
UnsetEndStillSet(u) == UnsetEndLeaving(u, isSet[holds[u]])

UnsetEnd(u) == UnsetEndLeaving(u, FALSE)

-----------------------------------------------------------------------------
(* The kernel (external): it refuses the requests for a thread that runs,  *)
(* and may refuse an address or a DR7 for one that is stopped; the bits 10 *)
(* to 15 and the upper half of DR7 are not kept.                           *)

Reserved == (10 .. 15) \cup (32 .. 63)

RunPeek(c) ==
  /\ peeked' = [peeked EXCEPT ![c.by] =
                  [op |-> "read", ok |-> stopped, bits |-> dr7]]
  /\ fresh' = IF stopped THEN fresh \cup {c.by} ELSE fresh
  /\ UNCHANGED <<dr7, drAddr, want>>

RunPokeAddr(c, taken) ==
  /\ drAddr' = IF taken THEN [drAddr EXCEPT ![c.slot] = c.addr] ELSE drAddr
  /\ fresh' = IF taken THEN fresh \cap {c.by} ELSE fresh \ {c.by}
  /\ want' = [want EXCEPT ![c.slot] = Unknown]
  /\ UNCHANGED <<dr7, peeked>>

RunPoke7(c, taken) ==
  /\ dr7' = IF taken THEN c.bits \ Reserved ELSE dr7
  /\ fresh' = IF taken THEN {} ELSE fresh \ {c.by}
  /\ want' = IF ~taken THEN [want EXCEPT ![c.slot] = Unknown]
             ELSE IF c.by \in fresh THEN [want EXCEPT ![c.slot] = c.asked]
             ELSE [i \in Slots |-> Unknown]
  /\ UNCHANGED <<drAddr, peeked>>

RunCommand ==
  /\ queue # <<>>
  /\ queue' = Tail(queue)
  /\ LET c == Head(queue)
     IN  \/ c.op = "PEEK7" /\ RunPeek(c)
         \/ \E taken \in BOOLEAN :
              /\ taken => stopped
              /\ \/ c.op = "POKEADDR" /\ RunPokeAddr(c, taken)
                 \/ c.op = "POKE7" /\ RunPoke7(c, taken)
  /\ UNCHANGED <<stopped, runs, objects, call, at, calls, mixed>>

ThreadRuns ==
  /\ stopped /\ runs < MaxRuns
  /\ stopped' = FALSE /\ runs' = runs + 1
  /\ UNCHANGED <<dr7, drAddr, queue, objects, call, peeked, at, calls, history, mixed>>

ThreadStops ==
  /\ ~stopped
  /\ stopped' = TRUE
  /\ UNCHANGED <<runs, dr7, drAddr, queue, objects, call, peeked, at, calls, history,
                 mixed>>

UserStep(u) ==
  \/ CreateWatchPoint(u) \/ \E i \in Made : Construct(u, i)
  \/ \E a \in Addrs, trigger \in Triggers, size \in Sizes :
       SetBegin(u, a, trigger, size)
  \/ UnsetBegin(u) \/ DeleteBegin(u)
  \/ PokeAddress(u) \/ RecordAddress(u) \/ SetWrite(u) \/ UnsetWrite(u)
  \/ SetEnd(u) \/ UnsetEnd(u) \/ CallFails(u)

Next == RunCommand \/ ThreadRuns \/ ThreadStops \/ \E u \in Users : UserStep(u)

Spec == Init /\ [][Next]_vars

-----------------------------------------------------------------------------
Quiet == queue = <<>> /\ \A u \in Users : call[u] = Idle

(* What the processor makes of its debug registers for slot i.             *)
Field(low) == (IF low \in dr7 THEN 1 ELSE 0) + (IF low + 1 \in dr7 THEN 2 ELSE 0)
Enabled(i) == 2 * i \in dr7 \/ 2 * i + 1 \in dr7

(* Between calls the debug registers watch, for every slot, exactly what   *)
(* the last call on it asked, whatever the calls on the other slots and    *)
(* for the last slot too, whose shifts overflow an int.  This excepts a    *)
(* slot of whose last call a request was refused (set and unset read the   *)
(* answer to the first one only), and calls that overlapped, of which one  *)
(* writes back a DR7 it read before the other's write (lines 24-50 hold no *)
(* lock).                                                                  *)
WatchesWhatWasAsked ==
  Quiet => \A i \in Slots :
    /\ want[i].state = "off" => ~Enabled(i)
    /\ want[i].state = "on" =>
         /\ {2 * i, 2 * i + 1} \subseteq dr7
         /\ drAddr[i] = want[i].addr
         /\ Field(4 * i + 16) = want[i].trigger
         /\ Field(4 * i + 18) = want[i].size

(* isSet and getAddr tell the truth about the hardware, although they are  *)
(* assigned before or after the command they stand for runs: except in the *)
(* cases above, and for an object on which two calls have overlapped, of   *)
(* which the one that writes DR7 last may be the first to assign _isSet    *)
(* (lines 45 and 53, 75 and 82).                                           *)
ObjectsTellTheTruth ==
  Quiet => \A i \in Slots :
    /\ (want[i].state = "on" /\ want[i].object \notin mixed) =>
         isSet[want[i].object] /\ addr[want[i].object] = drAddr[i]
    /\ (want[i].state = "off" /\ i \notin mixed /\ \A u \in Users : holds[u] # u) =>
         ~isSet[i]
=============================================================================
