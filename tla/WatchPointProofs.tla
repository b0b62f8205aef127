-------------------------- MODULE WatchPointProofs --------------------------
(***************************************************************************)
(* Proofs about WatchPoint, for any number of users, of calls and of       *)
(* resumptions of the traced thread.  The first lemmas are the arithmetic  *)
(* of DR7: what set and unset write differs from what they read in the     *)
(* bits of their own slot only, also where the shift of an int overflows.  *)
(* The inductive invariant then follows the commands through the queue:    *)
(* the order a call puts them in (Order), what a call that nobody has      *)
(* disturbed knows of the registers (Undisturbed), and that what isSet and *)
(* getAddr are, or become when the call under way assigns them, differs    *)
(* from the hardware only while a command that will account for it is      *)
(* queued (Truth).                                                         *)
(***************************************************************************)
EXTENDS WatchPoint, TLAPS

Asks == [state : {"on"}, object : Objects, addr : Addrs, trigger : Triggers, size : Sizes]
Bits == SUBSET (0 .. 63)

Calls == [op : {"set"}, addr : Addrs, trigger : Triggers, size : Sizes]
           \cup [op : {"unset", "delete"}]
Reads == [op : {"read"}, ok : BOOLEAN, bits : Bits]

Peeks == [op : {"PEEK7"}, by : Users]
PokeAddrs == [op : {"POKEADDR"}, by : Users, slot : Slots, addr : Addrs]
Poke7s == [op : {"POKE7"}, by : Users, slot : Slots, bits : Bits, asked : Asks \cup {Off}]
Commands == Peeks \cup PokeAddrs \cup Poke7s

Types ==
  /\ stopped \in BOOLEAN /\ dr7 \in Bits /\ drAddr \in [Slots -> Addrs \cup {"null"}]
  /\ queue \in Seq(Commands)
  /\ holds \in [Users -> Objects \cup {Nobody}] /\ idx \in [Objects -> Slots]
  /\ isSet \in [Objects -> BOOLEAN] /\ addr \in [Objects -> Addrs \cup {"null"}]
  /\ call \in [Users -> Calls \cup {Idle}] /\ peeked \in [Users -> Reads \cup {Idle}]
  /\ at \in [Users -> {"none", "poke", "record", "get", "assign"}]
  /\ fresh \subseteq Users /\ want \in [Slots -> Asks \cup {Off, Unknown}]

\* The index of a WatchPoint is final once it is somebody's.
Final(o) == o \in Slots \/ holds[o] = o

Held ==
  /\ \A i \in Slots : idx[i] = i
  /\ \A u \in Users : /\ holds[u] \in Slots \cup {u, Nobody}
                      /\ call[u] # Idle => holds[u] # Nobody
                      /\ peeked[u] # Idle => call[u] # Idle /\ at[u] # "assign"
                      /\ at[u] = "none" <=> call[u] = Idle
                      /\ at[u] \in {"poke", "record"} => call[u].op = "set"
  /\ \A u, v \in Users :
       (u # v /\ call[u] # Idle /\ call[v] # Idle /\ holds[u] = holds[v]) => holds[u] \in mixed
  /\ \A u \in Users :
       (at[u] \in {"get", "assign"} /\ call[u].op = "set" /\ holds[u] \notin mixed) =>
         addr[holds[u]] = call[u].addr

\* The command k of the queue is an op of user u.
Is(k, op, u) == queue[k].op = op /\ queue[k].by = u

\* The command k pokes the address that the call of user u, if a set, asks.
Pokes(k, u) ==
  call[u].op = "set" => queue[k].slot = idx[holds[u]] /\ queue[k].addr = call[u].addr

Order ==
  /\ \A k \in DOMAIN queue, u \in Users : Is(k, "PEEK7", u) =>
       /\ call[u] # Idle /\ peeked[u] = Idle /\ at[u] # "assign"
       /\ \A j \in DOMAIN queue : Is(j, "PEEK7", u) => j = k
       /\ \A j \in DOMAIN queue : Is(j, "POKE7", u) => j < k
       /\ \A j \in DOMAIN queue : Is(j, "POKEADDR", u) /\ k < j => Pokes(j, u)
       /\ call[u].op = "set" => \/ at[u] = "poke"
                                \/ \E j \in DOMAIN queue : k < j /\ Is(j, "POKEADDR", u)
  /\ \A k \in DOMAIN queue, u \in Users : Is(k, "POKE7", u) =>
       /\ peeked[u] = Idle
       /\ queue[k].asked # Off =>
            /\ Final(queue[k].asked.object) /\ queue[k].slot = idx[queue[k].asked.object]
            /\ \A j \in DOMAIN queue : Is(j, "POKEADDR", u) /\ j < k =>
                 queue[j].slot = queue[k].slot /\ queue[j].addr = queue[k].asked.addr
  /\ \A u \in Users : peeked[u] # Idle =>
       \A j \in DOMAIN queue : Is(j, "POKEADDR", u) => Pokes(j, u)

NewBits(bits, i, asked) ==
  IF asked = Off THEN UnsetBits(bits, i) ELSE SetBits(bits, i, asked.trigger, asked.size)

\* What user u has read, or is to write, is up to date.
Knows(u) ==
  /\ (peeked[u] # Idle /\ peeked[u].ok) =>
       /\ peeked[u].bits = dr7
       /\ call[u].op = "set" => \/ at[u] = "poke"
                                \/ \E j \in DOMAIN queue : Is(j, "POKEADDR", u)
                                \/ drAddr[idx[holds[u]]] = call[u].addr
  /\ \A k \in DOMAIN queue : Is(k, "POKE7", u) =>
       /\ queue[k].bits = NewBits(dr7, queue[k].slot, queue[k].asked)
       /\ queue[k].asked # Off =>
            \/ \E j \in DOMAIN queue : j < k /\ Is(j, "POKEADDR", u)
            \/ drAddr[queue[k].slot] = queue[k].asked.addr

Undisturbed == \A u \in fresh : Knows(u)

Watches(i) ==
  /\ want[i].state = "off" => ~Enabled(i)
  /\ want[i].state = "on" =>
       /\ {2 * i, 2 * i + 1} \subseteq dr7
       /\ drAddr[i] = want[i].addr
       /\ Field(4 * i + 16) = want[i].trigger
       /\ Field(4 * i + 18) = want[i].size

\* A command after the k-th will change what is known of slot i.
Pending(i, k) ==
  \E j \in DOMAIN queue : k < j /\ queue[j].op \in {"POKEADDR", "POKE7"} /\ queue[j].slot = i

NoneMade == \A u \in Users : holds[u] # u

\* _isSet has the value, or gets it when the call under way assigns it.
Becomes(o, value) ==
  /\ \A u \in Users : (holds[u] = o /\ at[u] = "assign") => (call[u].op = "set") = value
  /\ isSet[o] = value \/ \E u \in Users : holds[u] = o /\ at[u] = "assign"

\* No call is about to assign _addr.
Settled(o) == \A u \in Users : holds[u] = o => at[u] # "record"

Tells(i, asked) ==
  IF asked = Off THEN (NoneMade /\ i \notin mixed) => Becomes(i, FALSE)
                 ELSE asked.object \notin mixed =>
                        /\ Becomes(asked.object, TRUE)
                        /\ Settled(asked.object) /\ addr[asked.object] = asked.addr

Truth ==
  /\ \A i \in Slots : want[i] # Unknown => Tells(i, want[i]) \/ Pending(i, 0)
  /\ \A i \in Slots : want[i] \in Asks => Final(want[i].object) /\ idx[want[i].object] = i
  /\ \A k \in DOMAIN queue : queue[k].op = "POKE7" =>
       \/ Tells(queue[k].slot, queue[k].asked)
       \/ Pending(queue[k].slot, k)

IInv == Types /\ Held /\ Order /\ Undisturbed /\ (\A i \in Slots : Watches(i)) /\ Truth

-----------------------------------------------------------------------------
(* The arithmetic of DR7.                                                  *)

LEMMA SlotNumbers ==
  /\ Slots \subseteq 0 .. 3 /\ 0 \in Slots /\ Nobody \notin Slots
  /\ \A u \in Users : u \notin Slots /\ u # Nobody
<1>1. Slots \subseteq 0 .. 3 /\ 0 \in Slots
  BY WatchAssumption DEF Slots
<1>2. Nobody \in -1 .. 3 /\ Nobody \notin Slots
  BY <1>1 DEF Nobody
<1>3. \A u \in Users : u \notin -1 .. 3
  BY WatchAssumption
<1>4. Slots \subseteq -1 .. 3
  BY <1>1
<1> QED BY <1>1, <1>2, <1>3, <1>4

LEMMA FieldValues == Triggers \subseteq 0 .. 3 /\ Sizes \subseteq 0 .. 3
BY WatchAssumption

(* The lower half of a shift, with or without overflow.                    *)
LEMMA ShiftedBits ==
  ASSUME NEW bits \in SUBSET (0 .. 3), NEW n \in 0 .. 30
  PROVE  /\ Shl(bits, n) \in Bits
         /\ \A b \in 0 .. 31 : b \in Shl(bits, n) <=> b - n \in bits
<1> DEFINE int == {b + n : b \in bits} \cap 0 .. 31
<1>1. \A b \in 0 .. 31 : b \in int <=> b - n \in bits
  OBVIOUS
<1>2. Shl(bits, n) = IF 31 \in int THEN int \cup 32 .. 63 ELSE int
  BY DEF Shl
<1>3. int \subseteq 0 .. 31
  OBVIOUS
<1> QED BY <1>1, <1>2, <1>3 DEF Bits

LEMMA TwoBits ==
  ASSUME NEW v \in 0 .. 3
  PROVE  /\ BitsOf(v) \in SUBSET (0 .. 1)
         /\ v = (IF 0 \in BitsOf(v) THEN 1 ELSE 0) + (IF 1 \in BitsOf(v) THEN 2 ELSE 0)
<1>1. 2^0 = 1 /\ 2^1 = 2
  OBVIOUS
<1> QED BY <1>1 DEF BitsOf

LEMMA SetBitsAre ==
  ASSUME NEW bits \in Bits, NEW i \in 0 .. 3, NEW trigger \in 0 .. 3, NEW size \in 0 .. 3
  PROVE  /\ SetBits(bits, i, trigger, size) \in Bits
         /\ UnsetBits(bits, i) \in Bits
         /\ \A b \in 0 .. 31 :
              b \in SetBits(bits, i, trigger, size) <=>
                \/ b \in bits /\ b - 2 * i \notin 0 .. 1 /\ b - (4 * i + 16) \notin 0 .. 3
                \/ b - 2 * i \in 0 .. 1
                \/ b - (4 * i + 16) \in BitsOf(trigger)
                \/ b - (4 * i + 18) \in BitsOf(size)
         /\ \A b \in 0 .. 31 :
              b \in UnsetBits(bits, i) <=> b \in bits /\ b - 2 * i \notin 0 .. 1
<1>1. /\ EnableBits(i) \in Bits
      /\ \A b \in 0 .. 31 : b \in EnableBits(i) <=> b - 2 * i \in 0 .. 1
  BY ShiftedBits DEF EnableBits
<1>2. /\ Shl(0 .. 3, 4 * i + 16) \in Bits
      /\ \A b \in 0 .. 31 : b \in Shl(0 .. 3, 4 * i + 16) <=> b - (4 * i + 16) \in 0 .. 3
  BY ShiftedBits
<1>3. /\ Shl(BitsOf(trigger), 4 * i + 16) \in Bits
      /\ \A b \in 0 .. 31 : b \in Shl(BitsOf(trigger), 4 * i + 16)
                              <=> b - (4 * i + 16) \in BitsOf(trigger)
  BY ShiftedBits, TwoBits
<1>4. /\ Shl(BitsOf(size), 4 * i + 18) \in Bits
      /\ \A b \in 0 .. 31 : b \in Shl(BitsOf(size), 4 * i + 18)
                              <=> b - (4 * i + 18) \in BitsOf(size)
  BY ShiftedBits, TwoBits
<1>5. SetBits(bits, i, trigger, size) \in Bits /\ UnsetBits(bits, i) \in Bits
  BY <1>1, <1>3, <1>4 DEF SetBits, UnsetBits, Bits
<1> QED BY <1>1, <1>2, <1>3, <1>4, <1>5 DEF SetBits, UnsetBits

\* What the processor makes of a value of DR7 for a slot.
FieldIn(bits, low) == (IF low \in bits THEN 1 ELSE 0) + (IF low + 1 \in bits THEN 2 ELSE 0)

SameSlot(old, new, i) ==
  \A b \in {2 * i, 2 * i + 1} \cup (4 * i + 16 .. 4 * i + 19) : b \in new <=> b \in old

(* Of the value that set writes the kernel keeps the slot's own fields as  *)
(* asked, and those of the other slots as they were.                       *)
LEMMA SetKeepsOthers ==
  ASSUME NEW bits \in Bits, NEW i \in 0 .. 3, NEW trigger \in 0 .. 3, NEW size \in 0 .. 3,
         NEW new, new = SetBits(bits, i, trigger, size) \ Reserved
  PROVE  /\ {2 * i, 2 * i + 1} \subseteq new
         /\ FieldIn(new, 4 * i + 16) = trigger
         /\ FieldIn(new, 4 * i + 18) = size
         /\ \A j \in 0 .. 3 : j # i => SameSlot(bits, new, j)
<1>1. \A b \in (0 .. 9) \cup (16 .. 31) :
        b \in new <=>
          \/ b \in bits /\ b - 2 * i \notin 0 .. 1 /\ b - (4 * i + 16) \notin 0 .. 3
          \/ b - 2 * i \in 0 .. 1
          \/ b - (4 * i + 16) \in BitsOf(trigger)
          \/ b - (4 * i + 18) \in BitsOf(size)
  <2> TAKE b \in (0 .. 9) \cup (16 .. 31)
  <2>1. b \in 0 .. 31 /\ b \notin Reserved
    BY DEF Reserved
  <2>2. b \in new <=> b \in SetBits(bits, i, trigger, size)
    BY <2>1
  <2> QED BY <2>1, <2>2, SetBitsAre
<1>2. BitsOf(trigger) \in SUBSET (0 .. 1) /\ BitsOf(size) \in SUBSET (0 .. 1)
  BY TwoBits
<1>3. {2 * i, 2 * i + 1} \subseteq new
  BY <1>1
<1>4. /\ 4 * i + 16 \in new <=> 0 \in BitsOf(trigger)
      /\ 4 * i + 17 \in new <=> 1 \in BitsOf(trigger)
      /\ 4 * i + 18 \in new <=> 0 \in BitsOf(size)
      /\ 4 * i + 19 \in new <=> 1 \in BitsOf(size)
  BY <1>1, <1>2
<1>5. FieldIn(new, 4 * i + 16) = trigger /\ FieldIn(new, 4 * i + 18) = size
  BY <1>4, TwoBits DEF FieldIn
<1>6. ASSUME NEW j \in 0 .. 3, j # i
      PROVE  SameSlot(bits, new, j)
  BY <1>1, <1>2, <1>6 DEF SameSlot
<1> QED BY <1>3, <1>5, <1>6

(* unset disables the slot and leaves the others.                          *)
LEMMA UnsetKeepsOthers ==
  ASSUME NEW bits \in Bits, NEW i \in 0 .. 3, NEW new, new = UnsetBits(bits, i) \ Reserved
  PROVE  /\ 2 * i \notin new /\ 2 * i + 1 \notin new
         /\ \A j \in 0 .. 3 : j # i => SameSlot(bits, new, j)
<1>1. \A b \in (0 .. 9) \cup (16 .. 31) : b \in new <=> b \in bits /\ b - 2 * i \notin 0 .. 1
  BY SetBitsAre DEF Reserved
<1> QED BY <1>1 DEF SameSlot

-----------------------------------------------------------------------------
LEMMA InitIInv == Init => IInv
<1> SUFFICES ASSUME Init PROVE IInv
  OBVIOUS
<1> USE DEF Init
<1>1. Types
  <2>1. idx \in [Objects -> Slots] /\ holds \in [Users -> Objects \cup {Nobody}]
    BY SlotNumbers
  <2>2. dr7 \in Bits
    BY DEF Bits
  <2> QED BY <2>1, <2>2 DEF Types
<1>2. Held
  BY SlotNumbers DEF Held, Objects
<1>3. Order /\ Undisturbed
  BY DEF Order, Undisturbed, Knows
<1>4. \A i \in Slots : Watches(i)
  BY DEF Watches, Enabled, Off
<1>5. Truth
  <2>1. \A i \in Slots : want[i] = Off /\ want[i] \notin Asks /\ isSet[i] = FALSE
    BY DEF Asks, Off, Objects
  <2>2. \A i \in Slots : Becomes(i, FALSE)
    BY <2>1 DEF Becomes
  <2>3. \A i \in Slots : Tells(i, want[i])
    BY <2>1, <2>2 DEF Tells
  <2> QED BY <2>1, <2>3 DEF Truth
<1> QED BY <1>1, <1>2, <1>3, <1>4, <1>5 DEF IInv

(* The kinds of commands, of calls and of what is asked.                   *)
LEMMA Kinds ==
  /\ \A c \in Commands : /\ c.by \in Users /\ c.op \in {"PEEK7", "POKEADDR", "POKE7"}
                         /\ c.op = "PEEK7" => c \in Peeks
                         /\ c.op = "POKEADDR" => c \in PokeAddrs
                         /\ c.op = "POKE7" => c \in Poke7s
  /\ \A c \in Calls : c # Idle /\ c.op \in {"set", "unset", "delete"}
                        /\ (c.op = "set" => c.addr \in Addrs /\ c.trigger \in Triggers
                                              /\ c.size \in Sizes)
  /\ \A r \in Reads : r # Idle
  /\ \A a \in Asks : a # Off /\ a # Unknown /\ a.state = "on"
  /\ Off # Unknown /\ Off.state = "off" /\ Unknown.state = "unknown" /\ Idle.op = "idle"
<1>1. \A c \in Commands : /\ c.by \in Users /\ c.op \in {"PEEK7", "POKEADDR", "POKE7"}
                          /\ c.op = "PEEK7" => c \in Peeks
                          /\ c.op = "POKEADDR" => c \in PokeAddrs
                          /\ c.op = "POKE7" => c \in Poke7s
  BY DEF Commands, Peeks, PokeAddrs, Poke7s
<1>2. \A c \in Calls : c # Idle /\ c.op \in {"set", "unset", "delete"}
                         /\ (c.op = "set" => c.addr \in Addrs /\ c.trigger \in Triggers
                                               /\ c.size \in Sizes)
  BY DEF Calls, Idle
<1>3. \A r \in Reads : r # Idle
  BY DEF Reads, Idle
<1>4. \A a \in Asks : a # Off /\ a # Unknown /\ a.state = "on"
  BY DEF Asks, Off, Unknown
<1>5. Off # Unknown /\ Off.state = "off" /\ Unknown.state = "unknown" /\ Idle.op = "idle"
  BY DEF Off, Unknown, Idle
<1> QED BY <1>1, <1>2, <1>3, <1>4, <1>5

(* A user's WatchPoint is its own or one of the thread's.                  *)
LEMMA HeldObjects ==
  ASSUME Types, Held, NEW u \in Users, holds[u] # Nobody
  PROVE  /\ holds[u] \in Objects /\ Final(holds[u]) /\ idx[holds[u]] \in Slots
         /\ u \notin Slots /\ u # Nobody /\ Nobody \notin Slots
         /\ \A v \in Users : v # u => holds[v] # u
<1>1. u \notin Slots /\ u # Nobody /\ Nobody \notin Slots
  BY SlotNumbers
<1>2. holds[u] \in Slots \cup {u}
  BY DEF Held
<1> QED BY <1>1, <1>2 DEF Types, Held, Final, Objects

(* The traced thread is resumed or stops.                                  *)
LEMMA ThreadPreserves ==
  ASSUME IInv, ThreadRuns \/ ThreadStops \/ UNCHANGED vars
  PROVE  IInv'
<1>1. /\ UNCHANGED <<dr7, drAddr, queue, objects, call, peeked, at, calls, history, mixed>>
      /\ stopped' \in BOOLEAN
  BY DEF ThreadRuns, ThreadStops, vars, thread, IInv, Types
<1> USE DEF IInv, objects, history
<1>2. Types' /\ Held' /\ (\A i \in Slots : Watches(i))'
  BY <1>1 DEF Types, Held, Watches, Enabled, Field
<1>3. Order' /\ Undisturbed'
  BY <1>1 DEF Order, Undisturbed, Knows, Is, Pokes, Final
<1>4. Truth'
  BY <1>1 DEF Truth, Tells, Becomes, Settled, Pending, NoneMade, Final
<1> QED BY <1>2, <1>3, <1>4

(* A user gets or makes a WatchPoint: it has no call and no object yet.    *)
LEMMA HoldPreserves ==
  ASSUME IInv, NEW u \in Users, NEW o \in Slots \cup {u}, Hold(u, o),
         \/ UNCHANGED idx /\ o \in Slots
         \/ \E i \in Slots : idx' = [idx EXCEPT ![u] = i]
  PROVE  IInv'
<1> USE DEF IInv
<1>1. /\ call[u] = Idle /\ holds[u] = Nobody /\ holds' = [holds EXCEPT ![u] = o]
      /\ UNCHANGED <<stopped, dr7, drAddr, queue, flags, isSet, addr, call, peeked, at,
                     fresh, want, mixed>>
      /\ at[u] = "none"
  BY DEF Hold, thread, history, Held
<1>2. u \notin Slots /\ u # Nobody /\ Nobody \notin Slots /\ o # Nobody /\ u \in Objects
  BY SlotNumbers DEF Objects
<1>3. /\ \A x \in Objects : x # u => idx'[x] = idx[x]
      /\ \A v \in Users : v # u => holds'[v] = holds[v]
      /\ holds'[u] = o
  BY <1>1, <1>2 DEF Types
<1>4. Types'
  <2>1. idx' \in [Objects -> Slots]
    BY <1>2 DEF Types
  <2>2. holds' \in [Users -> Objects \cup {Nobody}]
    BY <1>1 DEF Types, Objects
  <2> QED BY <1>1, <2>1, <2>2 DEF Types
<1>5. Held'
  BY <1>1, <1>2, <1>3 DEF Held, Objects
<1>6. \A v \in Users : call[v] # Idle =>
        holds'[v] = holds[v] /\ idx'[holds'[v]] = idx[holds[v]]
  <2> TAKE v \in Users
  <2> HAVE call[v] # Idle
  <2>1. v # u /\ holds[v] \in Slots \cup {v}
    BY <1>1 DEF Held
  <2> QED BY <1>2, <1>3, <2>1 DEF Objects
<1>7. \A x \in Objects : Final(x) => Final(x)' /\ idx'[x] = idx[x]
  BY <1>1, <1>2, <1>3 DEF Final, Objects
<1>8. Order'
  <2>1. \A k \in DOMAIN queue, v \in Users : call[v] # Idle => (Pokes(k, v)' <=> Pokes(k, v))
    BY <1>1, <1>6 DEF Pokes
  <2>2. \A k \in DOMAIN queue : (queue[k].op = "POKE7" /\ queue[k].asked # Off) =>
          queue[k].asked.object \in Objects
    BY Kinds DEF Types, Poke7s, Asks
  <2>3. \A k, op, v : Is(k, op, v)' <=> Is(k, op, v)
    BY <1>1 DEF Is
  <2> QED BY <1>1, <1>7, <2>1, <2>2, <2>3 DEF Order, Held, Is
<1>9. Undisturbed'
  <2>1. \A v \in fresh : v \in Users /\ (peeked[v] # Idle => call[v] # Idle)
    BY DEF Types, Held
  <2> QED BY <1>1, <1>6, <2>1 DEF Undisturbed, Knows, Is
<1>10. (\A i \in Slots : Watches(i))'
  BY <1>1 DEF Watches, Enabled, Field
<1>11. Truth'
  <2>1. NoneMade' => NoneMade
    BY <1>1, <1>2, <1>3 DEF NoneMade
  <2>2. \A i, k : Pending(i, k)' <=> Pending(i, k)
    BY <1>1 DEF Pending
  <2>3. \A i, a : Tells(i, a) => Tells(i, a)'
    <3>1. \A v \in Users : at[v] \in {"record", "assign"} => holds'[v] = holds[v]
      BY <1>1, <1>3
    <3>2. \A x, value : Becomes(x, value) => Becomes(x, value)'
      BY <1>1, <3>1 DEF Becomes
    <3>3. \A x : Settled(x) => Settled(x)'
      BY <1>1, <3>1 DEF Settled
    <3> QED BY <1>1, <2>1, <3>2, <3>3 DEF Tells
  <2>4. \A i \in Slots : want[i] \in Asks => want[i].object \in Objects
    BY DEF Asks
  <2> QED BY <1>1, <1>7, <2>2, <2>3, <2>4 DEF Truth
<1> QED BY <1>4, <1>5, <1>8, <1>9, <1>10, <1>11

(* A command is appended.                                                  *)
LEMMA AppendFacts ==
  ASSUME Types, NEW c \in Commands, queue' = Append(queue, c), NEW n, n = Len(queue)
  PROVE  /\ n \in Nat /\ DOMAIN queue = 1 .. n
         /\ queue' \in Seq(Commands) /\ DOMAIN queue' = 1 .. n + 1
         /\ queue'[n + 1] = c /\ \A k \in 1 .. n : queue'[k] = queue[k]
         /\ \A k \in 1 .. n : \A op, v : Is(k, op, v)' <=> Is(k, op, v)
         /\ \A op, v : Is(n + 1, op, v)' <=> c.op = op /\ c.by = v
         /\ \A i, k : Pending(i, k) => Pending(i, k)'
         /\ c.op \in {"POKEADDR", "POKE7"} => \A k \in 0 .. n : Pending(c.slot, k)'
<1>1. queue \in Seq(Commands) /\ n \in Nat /\ DOMAIN queue = 1 .. n
  BY DEF Types
<1>2. /\ queue' \in Seq(Commands) /\ DOMAIN queue' = 1 .. n + 1
      /\ queue'[n + 1] = c /\ \A k \in 1 .. n : queue'[k] = queue[k]
  BY <1>1
<1>3. /\ \A k \in 1 .. n : \A op, v : Is(k, op, v)' <=> Is(k, op, v)
      /\ \A op, v : Is(n + 1, op, v)' <=> c.op = op /\ c.by = v
  BY <1>2 DEF Is
<1>4. \A i, k : Pending(i, k) => Pending(i, k)'
  BY <1>1, <1>2 DEF Pending
<1>5. c.op \in {"POKEADDR", "POKE7"} => \A k \in 0 .. n : Pending(c.slot, k)'
  BY <1>1, <1>2 DEF Pending
<1> QED BY <1>1, <1>2, <1>3, <1>4, <1>5

(* Truth of a step of a user, from what the step does to what the objects  *)
(* tell of a slot, or to the commands that follow.                         *)
LEMMA TruthOfUser ==
  ASSUME IInv, UNCHANGED <<holds, idx, want>>, NEW c \in Commands,
         \/ queue' = queue
         \/ queue' = Append(queue, c) /\ (c.op = "POKE7" => Tells(c.slot, c.asked)'),
         \A i \in Slots, a \in Asks \cup {Off}, k \in 0 .. Len(queue) :
           (Tells(i, a) /\ (a # Off => i = idx[a.object])) => Tells(i, a)' \/ Pending(i, k)'
  PROVE  Truth'
<1> USE DEF IInv
<1> PICK n : n = Len(queue)
  OBVIOUS
<1>1. queue \in Seq(Commands) /\ n \in Nat /\ DOMAIN queue = 1 .. n
  BY DEF Types
<1>2. \A i, k : Pending(i, k) => Pending(i, k)'
  <2>1. CASE queue' = queue
    BY <2>1 DEF Pending
  <2>2. CASE queue' = Append(queue, c)
    BY <2>2, AppendFacts
  <2> QED BY <2>1, <2>2
<1>3. /\ \A k \in 1 .. n : queue'[k] = queue[k]
      /\ \A k \in DOMAIN queue' : k \in 1 .. n \/ (k = n + 1 /\ queue' = Append(queue, c)
                                                     /\ queue'[k] = c)
  <2>1. CASE queue' = queue
    BY <1>1, <2>1
  <2>2. CASE queue' = Append(queue, c)
    BY <1>1, <2>2, AppendFacts
  <2> QED BY <2>1, <2>2
<1>4. ASSUME NEW i \in Slots, want[i] # Unknown
      PROVE  Tells(i, want[i])' \/ Pending(i, 0)'
  <2> PICK a : a = want[i]
    OBVIOUS
  <2>1. Tells(i, a) \/ Pending(i, 0)
    BY <1>4 DEF Truth
  <2>2. a \in Asks \cup {Off} /\ (a # Off => idx[a.object] = i)
    BY <1>4 DEF Types, Truth
  <2>3. 0 \in 0 .. n
    BY <1>1
  <2>4. Tells(i, a)' \/ Pending(i, 0)'
    BY <1>2, <2>1, <2>2, <2>3
  <2>5. a = want'[i]
    OBVIOUS
  <2>6. Tells(i, a)' => Tells(i, want[i])'
    BY <2>5
  <2> QED BY <2>4, <2>6
<1>5. ASSUME NEW k \in DOMAIN queue', queue'[k].op = "POKE7"
      PROVE  Tells(queue[k].slot, queue[k].asked)' \/ Pending(queue[k].slot, k)'
  <2> PICK i, a : i = queue'[k].slot /\ a = queue'[k].asked
    OBVIOUS
  <2>1. CASE k \in 1 .. n
    <3>1. k \in DOMAIN queue /\ queue'[k] = queue[k] /\ k \in 0 .. n
      BY <1>1, <1>3, <2>1
    <3>2. Tells(i, a) \/ Pending(i, k)
      BY <1>5, <3>1 DEF Truth
    <3>3. queue[k] \in Poke7s
      BY <1>5, <3>1, Kinds DEF Types
    <3>4. a \in Asks \cup {Off} /\ i \in Slots /\ queue[k].by \in Users
      BY <3>1, <3>3 DEF Poke7s
    <3>5. a # Off => i = idx[a.object]
      BY <1>5, <3>1, <3>4 DEF Order, Is
    <3> QED BY <1>2, <3>1, <3>2, <3>4, <3>5
  <2>2. CASE k \notin 1 .. n
    <3>1. queue'[k] = c /\ queue' = Append(queue, c)
      BY <1>3, <2>2
    <3>2. c.op = "POKE7" /\ i = c.slot /\ a = c.asked
      BY <1>5, <3>1
    <3>3. Tells(i, a)'
      <4>1. queue' # queue
        BY <1>1, <3>1, AppendFacts
      <4>2. Tells(c.slot, c.asked)'
        BY <3>1, <3>2, <4>1
      <4> QED BY <3>2, <4>2
    <3> QED BY <3>3
  <2> QED BY <2>1, <2>2
<1>6. \A i \in Slots : want[i] \in Asks => Final(want[i].object)' /\ idx[want[i].object] = i
  BY DEF Truth, Final
<1> QED BY <1>4, <1>5, <1>6 DEF Truth

(* A step of u that assigns no member and comes to assign none next.       *)
LEMMA TellsKept ==
  ASSUME IInv, UNCHANGED <<holds, isSet, addr>>, mixed \subseteq mixed', NEW u \in Users,
         \A v \in Users : v # u => at'[v] = at[v] /\ call'[v] = call[v],
         at[u] # "assign", at'[u] \notin {"record", "assign"},
         NEW i, NEW a, Tells(i, a)
  PROVE  Tells(i, a)'
<1>1. \A x, value : Becomes(x, value) => Becomes(x, value)'
  BY DEF Becomes
<1>2. \A x : Settled(x) => Settled(x)'
  BY DEF Settled
<1> QED BY <1>1, <1>2 DEF Tells, NoneMade

(* A call begins: the user has no PEEK7 queued.                            *)
LEMMA BeginPreserves ==
  ASSUME IInv, NEW u \in Users, NEW c \in Calls, NEW next \in {"poke", "get"},
         Begin(u, c, next), c.op = "set" <=> next = "poke"
  PROVE  IInv'
<1> USE DEF IInv
<1> PICK n : n = Len(queue)
  OBVIOUS
<1> PICK p : p = [op |-> "PEEK7", by |-> u]
  OBVIOUS
<1>1. /\ call[u] = Idle /\ holds[u] # Nobody /\ call' = [call EXCEPT ![u] = c]
      /\ queue' = Append(queue, p) /\ at' = [at EXCEPT ![u] = next]
      /\ mixed' = IF Overlaps(u) THEN mixed \cup {holds[u]} ELSE mixed
      /\ UNCHANGED <<stopped, dr7, drAddr, flags, holds, idx, isSet, addr, peeked, fresh, want>>
  BY DEF Begin, thread, history, objects
<1>2. p \in Commands /\ p.op = "PEEK7" /\ p.by = u
  <2>1. p \in Peeks
    BY DEF Peeks
  <2> QED BY <2>1 DEF Commands
<1>3. /\ n \in Nat /\ DOMAIN queue = 1 .. n
      /\ queue' \in Seq(Commands) /\ DOMAIN queue' = 1 .. n + 1
      /\ queue'[n + 1] = p /\ \A k \in 1 .. n : queue'[k] = queue[k]
      /\ \A k \in 1 .. n : \A op, v : Is(k, op, v)' <=> Is(k, op, v)
      /\ \A op, v : Is(n + 1, op, v)' <=> op = "PEEK7" /\ v = u
      /\ \A i, k : Pending(i, k) => Pending(i, k)'
  BY <1>1, <1>2, AppendFacts
<1>4. /\ call'[u] = c /\ c # Idle /\ peeked[u] = Idle /\ at[u] = "none" /\ at'[u] = next
      /\ \A v \in Users : v # u => call'[v] = call[v] /\ at'[v] = at[v]
      /\ \A k \in 1 .. n : ~Is(k, "PEEK7", u)
  BY <1>1, <1>3, Kinds DEF Types, Held, Order
<1>5. \A v \in Users, k \in 1 .. n : v # u => (Pokes(k, v)' <=> Pokes(k, v))
  BY <1>1, <1>3, <1>4 DEF Pokes
<1>6. Types'
  BY <1>1, <1>3 DEF Types
<1>7. Held'
  <2>1. \A v, w \in Users :
          (v # w /\ call'[v] # Idle /\ call'[w] # Idle /\ holds[v] = holds[w]) =>
            holds[v] \in mixed'
    BY <1>1, <1>4 DEF Held, Overlaps
  <2>2. \A v \in Users :
          (at'[v] \in {"get", "assign"} /\ call'[v].op = "set" /\ holds[v] \notin mixed') =>
            addr[holds[v]] = call'[v].addr
    BY <1>1, <1>4 DEF Held
  <2>3. \A v \in Users : /\ call'[v] # Idle => holds[v] # Nobody
                         /\ peeked[v] # Idle => call'[v] # Idle /\ at'[v] # "assign"
                         /\ at'[v] = "none" <=> call'[v] = Idle
                         /\ at'[v] \in {"poke", "record"} => call'[v].op = "set"
    BY <1>1, <1>4 DEF Held
  <2> QED BY <1>1, <2>1, <2>2, <2>3 DEF Held
<1>8. Order'
  <2>1. ASSUME NEW k \in DOMAIN queue', NEW v \in Users, Is(k, "PEEK7", v)'
        PROVE  /\ call'[v] # Idle /\ peeked'[v] = Idle /\ at'[v] # "assign"
               /\ \A j \in DOMAIN queue' : Is(j, "PEEK7", v)' => j = k
               /\ \A j \in DOMAIN queue' : Is(j, "POKE7", v)' => j < k
               /\ \A j \in DOMAIN queue' : Is(j, "POKEADDR", v)' /\ k < j => Pokes(j, v)'
               /\ call'[v].op = "set" =>
                    \/ at'[v] = "poke"
                    \/ \E j \in DOMAIN queue' : k < j /\ Is(j, "POKEADDR", v)'
    <3>1. CASE k \in 1 .. n
      <4>1. v # u /\ Is(k, "PEEK7", v)
        BY <2>1, <3>1, <1>3, <1>4
      <4>2. \A j \in DOMAIN queue' : \A op : Is(j, op, v)' => j \in 1 .. n /\ Is(j, op, v)
        BY <4>1, <1>3
      <4>3. call'[v] = call[v] /\ peeked'[v] = peeked[v] /\ at'[v] = at[v]
        BY <4>1, <1>1, <1>4
      <4>4. call[v].op = "set" => \/ at[v] = "poke"
                                  \/ \E j \in DOMAIN queue' : k < j /\ Is(j, "POKEADDR", v)'
        BY <3>1, <4>1, <1>3 DEF Order
      <4>5. \A j \in DOMAIN queue' : Is(j, "POKEADDR", v)' /\ k < j => Pokes(j, v)'
        BY <3>1, <4>1, <4>2, <1>3, <1>5 DEF Order
      <4> QED BY <3>1, <4>1, <4>2, <4>3, <4>4, <4>5, <1>3 DEF Order
    <3>2. CASE k = n + 1
      <4>1. v = u
        BY <2>1, <3>2, <1>3
      <4>2. /\ \A j \in DOMAIN queue' : Is(j, "PEEK7", u)' => j = k
            /\ \A j \in DOMAIN queue' : Is(j, "POKE7", u)' => j < k
            /\ \A j \in DOMAIN queue' : ~(Is(j, "POKEADDR", u)' /\ k < j)
        BY <3>2, <1>3, <1>4
      <4> QED BY <4>1, <4>2, <1>1, <1>4
    <3> QED BY <3>1, <3>2, <1>3
  <2>2. ASSUME NEW k \in DOMAIN queue', NEW v \in Users, Is(k, "POKE7", v)'
        PROVE  /\ peeked'[v] = Idle
               /\ queue'[k].asked # Off =>
                    /\ Final(queue[k].asked.object)'
                    /\ queue'[k].slot = idx'[queue'[k].asked.object]
                    /\ \A j \in DOMAIN queue' : Is(j, "POKEADDR", v)' /\ j < k =>
                         queue'[j].slot = queue'[k].slot /\ queue'[j].addr = queue'[k].asked.addr
    <3>1. k \in 1 .. n /\ Is(k, "POKE7", v) /\ queue'[k] = queue[k]
      BY <2>2, <1>3
    <3>2. \A j \in DOMAIN queue' : j < k => j \in 1 .. n /\ queue'[j] = queue[j]
      BY <3>1, <1>3
    <3>3. peeked'[v] = Idle
      BY <3>1, <1>1, <1>3 DEF Order
    <3>4. queue[k].asked # Off =>
            Final(queue[k].asked.object)' /\ queue[k].slot = idx'[queue[k].asked.object]
      BY <3>1, <1>1, <1>3 DEF Order, Final
    <3> QED BY <3>1, <3>2, <3>3, <3>4, <1>3 DEF Order
  <2>3. ASSUME NEW v \in Users, peeked'[v] # Idle, NEW j \in DOMAIN queue', Is(j, "POKEADDR", v)'
        PROVE  Pokes(j, v)'
    <3>1. v # u /\ j \in 1 .. n /\ Is(j, "POKEADDR", v)
      BY <2>3, <1>1, <1>3, <1>4
    <3> QED BY <2>3, <3>1, <1>1, <1>3, <1>5 DEF Order
  <2> QED BY <2>1, <2>2, <2>3 DEF Order
<1>9. Undisturbed'
  <2> SUFFICES ASSUME NEW v \in fresh
               PROVE  Knows(v)'
    BY <1>1 DEF Undisturbed
  <2>1. v \in Users /\ Knows(v) /\ (peeked[v] # Idle => v # u)
    BY <1>4 DEF Types, Undisturbed
  <2>2. (peeked[v] # Idle /\ peeked[v].ok) =>
           /\ peeked[v].bits = dr7
           /\ call'[v].op = "set" => \/ at'[v] = "poke"
                                     \/ \E j \in DOMAIN queue' : Is(j, "POKEADDR", v)'
                                     \/ drAddr[idx[holds[v]]] = call'[v].addr
    BY <2>1, <1>3, <1>4 DEF Knows
  <2>3. ASSUME NEW k \in DOMAIN queue', Is(k, "POKE7", v)'
        PROVE  /\ queue'[k].bits = NewBits(dr7, queue'[k].slot, queue'[k].asked)
               /\ queue'[k].asked # Off =>
                    \/ \E j \in DOMAIN queue' : j < k /\ Is(j, "POKEADDR", v)'
                    \/ drAddr[queue'[k].slot] = queue'[k].asked.addr
    <3>1. k \in 1 .. n /\ Is(k, "POKE7", v) /\ queue'[k] = queue[k]
      BY <2>3, <1>3
    <3> QED BY <3>1, <2>1, <1>3 DEF Knows
  <2> QED BY <2>2, <2>3, <1>1 DEF Knows
<1>10. (\A i \in Slots : Watches(i))'
  BY <1>1 DEF Watches, Enabled, Field
<1>11. Truth'
  <2>1. mixed \subseteq mixed' /\ at[u] # "assign" /\ at'[u] \notin {"record", "assign"}
    BY <1>1, <1>4
  <2>2. \A i, a : Tells(i, a) => Tells(i, a)'
    BY <2>1, <1>1, <1>4, TellsKept
  <2>3. p.op # "POKE7"
    BY <1>2
  <2> QED BY <2>2, <2>3, <1>1, <1>2, TruthOfUser
<1> QED BY <1>6, <1>7, <1>8, <1>9, <1>10, <1>11

(* set queues its address: what it supersedes is pending from now on.      *)
LEMMA PokeAddressPreserves ==
  ASSUME IInv, NEW u \in Users, PokeAddress(u)
  PROVE  IInv'
<1> USE DEF IInv
<1> PICK n : n = Len(queue)
  OBVIOUS
<1> PICK o : o = holds[u]
  OBVIOUS
<1> PICK p : p = [op |-> "POKEADDR", by |-> u, slot |-> idx[o], addr |-> call[u].addr]
  OBVIOUS
<1>1. /\ at[u] = "poke" /\ queue' = Append(queue, p) /\ at' = [at EXCEPT ![u] = "record"]
      /\ UNCHANGED <<stopped, dr7, drAddr, flags, holds, idx, isSet, addr, call, peeked, fresh,
                     want, mixed>>
  BY DEF PokeAddress, thread, history, objects
<1>2. /\ call[u].op = "set" /\ call[u] # Idle /\ call[u] \in Calls /\ o # Nobody
      /\ o \in Objects /\ idx[o] \in Slots
  BY <1>1, HeldObjects, Kinds DEF Held, Types
<1>3. p \in Commands /\ p.op = "POKEADDR" /\ p.by = u /\ p.slot = idx[o] /\ p.addr = call[u].addr
  <2>1. call[u].addr \in Addrs
    BY <1>2, Kinds
  <2>2. p \in PokeAddrs
    BY <1>2, <2>1 DEF PokeAddrs
  <2> QED BY <2>2 DEF Commands
<1>4. /\ n \in Nat /\ DOMAIN queue = 1 .. n
      /\ queue' \in Seq(Commands) /\ DOMAIN queue' = 1 .. n + 1
      /\ queue'[n + 1] = p /\ \A k \in 1 .. n : queue'[k] = queue[k]
      /\ \A k \in 1 .. n : \A op, v : Is(k, op, v)' <=> Is(k, op, v)
      /\ \A op, v : Is(n + 1, op, v)' <=> op = "POKEADDR" /\ v = u
      /\ \A k \in 0 .. n : Pending(idx[o], k)'
  BY <1>1, <1>3, AppendFacts
<1>5. at'[u] = "record" /\ \A v \in Users : v # u => at'[v] = at[v]
  BY <1>1 DEF Types
<1>6. /\ \A v \in Users, k \in 1 .. n : Pokes(k, v)' <=> Pokes(k, v)
      /\ Pokes(n + 1, u)'
  BY <1>1, <1>3, <1>4 DEF Pokes
<1>7. Types' /\ Held'
  BY <1>1, <1>2, <1>4, <1>5 DEF Types, Held
<1>8. Order'
  <2>1. ASSUME NEW k \in DOMAIN queue', NEW v \in Users, Is(k, "PEEK7", v)'
        PROVE  /\ call'[v] # Idle /\ peeked'[v] = Idle /\ at'[v] # "assign"
               /\ \A j \in DOMAIN queue' : Is(j, "PEEK7", v)' => j = k
               /\ \A j \in DOMAIN queue' : Is(j, "POKE7", v)' => j < k
               /\ \A j \in DOMAIN queue' : Is(j, "POKEADDR", v)' /\ k < j => Pokes(j, v)'
               /\ call'[v].op = "set" =>
                    \/ at'[v] = "poke"
                    \/ \E j \in DOMAIN queue' : k < j /\ Is(j, "POKEADDR", v)'
    <3>1. k \in 1 .. n /\ Is(k, "PEEK7", v)
      BY <2>1, <1>4
    <3>2. \A j \in DOMAIN queue' : \A op \in {"PEEK7", "POKE7"} :
            Is(j, op, v)' => j \in 1 .. n /\ Is(j, op, v)
      BY <1>4
    <3>3. call'[v] # Idle /\ peeked'[v] = Idle /\ at'[v] # "assign"
      BY <3>1, <1>1, <1>4, <1>5 DEF Order
    <3>4. \A j \in DOMAIN queue' : Is(j, "POKEADDR", v)' /\ k < j => Pokes(j, v)'
      BY <3>1, <1>4, <1>6 DEF Order
    <3>5. call'[v].op = "set" =>
            \/ at'[v] = "poke"
            \/ \E j \in DOMAIN queue' : k < j /\ Is(j, "POKEADDR", v)'
      <4>1. CASE v = u
        <5>1. n + 1 \in DOMAIN queue' /\ k < n + 1 /\ Is(n + 1, "POKEADDR", v)'
          BY <3>1, <4>1, <1>4
        <5> QED BY <5>1
      <4>2. CASE v # u
        BY <3>1, <4>2, <1>1, <1>4, <1>5 DEF Order
      <4> QED BY <4>1, <4>2
    <3> QED BY <3>1, <3>2, <3>3, <3>4, <3>5, <1>4 DEF Order
  <2>2. ASSUME NEW k \in DOMAIN queue', NEW v \in Users, Is(k, "POKE7", v)'
        PROVE  /\ peeked'[v] = Idle
               /\ queue'[k].asked # Off =>
                    /\ Final(queue[k].asked.object)'
                    /\ queue'[k].slot = idx'[queue'[k].asked.object]
                    /\ \A j \in DOMAIN queue' : Is(j, "POKEADDR", v)' /\ j < k =>
                         queue'[j].slot = queue'[k].slot /\ queue'[j].addr = queue'[k].asked.addr
    <3>1. k \in 1 .. n /\ Is(k, "POKE7", v) /\ queue'[k] = queue[k]
      BY <2>2, <1>4
    <3>2. \A j \in DOMAIN queue' : j < k => j \in 1 .. n /\ queue'[j] = queue[j]
      BY <3>1, <1>4
    <3>3. peeked'[v] = Idle
      BY <3>1, <1>1, <1>4 DEF Order
    <3>4. queue[k].asked # Off =>
            Final(queue[k].asked.object)' /\ queue[k].slot = idx'[queue[k].asked.object]
      BY <3>1, <1>1, <1>4 DEF Order, Final
    <3> QED BY <3>1, <3>2, <3>3, <3>4, <1>4 DEF Order
  <2>3. ASSUME NEW v \in Users, peeked'[v] # Idle, NEW j \in DOMAIN queue', Is(j, "POKEADDR", v)'
        PROVE  Pokes(j, v)'
    <3>1. CASE j \in 1 .. n
      BY <2>3, <3>1, <1>1, <1>4, <1>6 DEF Order
    <3>2. CASE j = n + 1
      BY <2>3, <3>2, <1>4, <1>6
    <3> QED BY <3>1, <3>2, <1>4
  <2> QED BY <2>1, <2>2, <2>3 DEF Order
<1>9. Undisturbed'
  <2> SUFFICES ASSUME NEW v \in fresh
               PROVE  Knows(v)'
    BY <1>1 DEF Undisturbed
  <2>1. v \in Users /\ Knows(v)
    BY DEF Types, Undisturbed
  <2>2. (peeked[v] # Idle /\ peeked[v].ok) =>
           /\ peeked[v].bits = dr7
           /\ call[v].op = "set" => \/ at'[v] = "poke"
                                    \/ \E j \in DOMAIN queue' : Is(j, "POKEADDR", v)'
                                    \/ drAddr[idx[holds[v]]] = call[v].addr
    <3>1. CASE v = u
      <4>1. n + 1 \in DOMAIN queue' /\ Is(n + 1, "POKEADDR", v)'
        BY <3>1, <1>4
      <4> QED BY <4>1, <2>1 DEF Knows
    <3>2. CASE v # u
      BY <3>2, <2>1, <1>4, <1>5 DEF Knows
    <3> QED BY <3>1, <3>2
  <2>3. ASSUME NEW k \in DOMAIN queue', Is(k, "POKE7", v)'
        PROVE  /\ queue'[k].bits = NewBits(dr7, queue'[k].slot, queue'[k].asked)
               /\ queue'[k].asked # Off =>
                    \/ \E j \in DOMAIN queue' : j < k /\ Is(j, "POKEADDR", v)'
                    \/ drAddr[queue'[k].slot] = queue'[k].asked.addr
    <3>1. k \in 1 .. n /\ Is(k, "POKE7", v) /\ queue'[k] = queue[k]
      BY <2>3, <1>4
    <3> QED BY <3>1, <2>1, <1>4 DEF Knows
  <2> QED BY <2>2, <2>3, <1>1 DEF Knows
<1>10. (\A i \in Slots : Watches(i))'
  BY <1>1 DEF Watches, Enabled, Field
<1>11. Truth'
  <2>1. ASSUME NEW i \in Slots, NEW a \in Asks \cup {Off}, NEW k \in 0 .. Len(queue),
               Tells(i, a), a # Off => i = idx[a.object]
        PROVE  Tells(i, a)' \/ Pending(i, k)'
    <3>1. CASE a # Off /\ a.object = o
      <4>1. i = idx[o] /\ k \in 0 .. n
        BY <2>1, <3>1, <1>4
      <4> QED BY <4>1, <1>1, <1>4 DEF Pending
    <3>2. CASE ~(a # Off /\ a.object = o)
      <4>1. \A x, value : Becomes(x, value) => Becomes(x, value)'
        BY <1>1, <1>5 DEF Becomes
      <4>2. \A x : x # o /\ Settled(x) => Settled(x)'
        BY <1>1, <1>5 DEF Settled
      <4> QED BY <2>1, <3>2, <4>1, <4>2, <1>1 DEF Tells, NoneMade
    <3> QED BY <3>1, <3>2
  <2>2. p.op # "POKE7"
    BY <1>3
  <2> QED BY <2>1, <2>2, <1>1, <1>3, TruthOfUser
<1> QED BY <1>7, <1>8, <1>9, <1>10, <1>11

(* set assigns _addr: what told the address before is superseded.          *)
LEMMA RecordAddressPreserves ==
  ASSUME IInv, NEW u \in Users, RecordAddress(u)
  PROVE  IInv'
<1> USE DEF IInv
<1> PICK o : o = holds[u]
  OBVIOUS
<1>1. /\ at[u] = "record" /\ addr' = [addr EXCEPT ![o] = call[u].addr]
      /\ at' = [at EXCEPT ![u] = "get"]
      /\ UNCHANGED <<stopped, dr7, drAddr, queue, holds, idx, isSet, call, peeked, fresh, want,
                     mixed>>
  BY DEF RecordAddress, thread, history
<1>2. call[u].op = "set" /\ call[u] # Idle /\ call[u] \in Calls /\ o # Nobody /\ o \in Objects
  BY <1>1, HeldObjects DEF Held, Types
<1>3. /\ at'[u] = "get" /\ \A v \in Users : v # u => at'[v] = at[v]
      /\ addr'[o] = call[u].addr /\ \A x \in Objects : x # o => addr'[x] = addr[x]
  BY <1>1, <1>2 DEF Types
<1>4. Types'
  <2>1. call[u].addr \in Addrs
    BY <1>2, Kinds
  <2> QED BY <1>1, <2>1 DEF Types
<1>5. Held'
  <2>1. ASSUME NEW v \in Users, at'[v] \in {"get", "assign"}, call[v].op = "set",
               holds[v] \notin mixed
        PROVE  addr'[holds[v]] = call[v].addr
    <3>1. CASE v = u
      BY <3>1, <1>3
    <3>2. CASE v # u
      <4>1. call[v] # Idle /\ at[v] = at'[v]
        BY <2>1, <3>2, <1>3 DEF Held
      <4>2. holds[v] # o
        BY <2>1, <3>2, <4>1, <1>2 DEF Held
      <4> QED BY <2>1, <4>1, <4>2, <1>1 DEF Held, Types
    <3> QED BY <3>1, <3>2
  <2>2. \A v \in Users : /\ call[v] # Idle => holds[v] # Nobody
                         /\ peeked[v] # Idle => call[v] # Idle /\ at'[v] # "assign"
                         /\ at'[v] = "none" <=> call[v] = Idle
                         /\ at'[v] \in {"poke", "record"} => call[v].op = "set"
    BY <1>2, <1>3 DEF Held
  <2> QED BY <1>1, <2>1, <2>2 DEF Held
<1>6. Order' /\ Undisturbed'
  <2>1. /\ \A k, op, v : Is(k, op, v)' <=> Is(k, op, v)
        /\ \A k, v : Pokes(k, v)' <=> Pokes(k, v)
        /\ \A x : Final(x)' <=> Final(x)
    BY <1>1 DEF Is, Pokes, Final
  <2>2. \A v \in Users : (at'[v] = "poke" <=> at[v] = "poke")
                           /\ (at'[v] = "assign" <=> at[v] = "assign")
    BY <1>1, <1>3
  <2>3. Order'
    BY <1>1, <2>1, <2>2 DEF Order
  <2>4. fresh \subseteq Users
    BY DEF Types
  <2> QED BY <1>1, <2>1, <2>2, <2>3, <2>4 DEF Undisturbed, Knows
<1>7. (\A i \in Slots : Watches(i))'
  BY <1>1 DEF Watches, Enabled, Field
<1>8. Truth'
  <2>1. \A x, value : Becomes(x, value) => Becomes(x, value)'
    BY <1>1, <1>3 DEF Becomes
  <2>2. \A x : Settled(x) => Settled(x)'
    BY <1>1, <1>3 DEF Settled
  <2>3. ~Settled(o)
    BY <1>1 DEF Settled
  <2>4. \A i, a : (a \in Asks \cup {Off} /\ Tells(i, a)) => Tells(i, a)'
    <3> SUFFICES ASSUME NEW i, NEW a \in Asks \cup {Off}, Tells(i, a) PROVE Tells(i, a)'
      OBVIOUS
    <3>1. a # Off /\ a.object \notin mixed => a.object # o /\ a.object \in Objects
      BY <2>3 DEF Tells, Asks
    <3> QED BY <2>1, <2>2, <3>1, <1>1, <1>3 DEF Tells, NoneMade
  <2>5. PICK c : c = [op |-> "PEEK7", by |-> u]
    OBVIOUS
  <2>6. c \in Commands
    BY <2>5 DEF Commands, Peeks
  <2> QED BY <2>4, <2>6, <1>1, TruthOfUser
<1> QED BY <1>4, <1>5, <1>6, <1>7, <1>8

(* A call ends, without a write because its PEEK7 failed, or having queued *)
(* it: no PEEK7 of its is left.                                            *)
LEMMA Ended ==
  ASSUME IInv, NEW u \in Users, peeked[u] # Idle \/ at[u] = "assign",
         call' = [call EXCEPT ![u] = Idle], peeked' = [peeked EXCEPT ![u] = Idle],
         at' = [at EXCEPT ![u] = "none"],
         UNCHANGED <<stopped, dr7, drAddr, queue, holds, idx, fresh, want, mixed>>
  PROVE  Order' /\ Undisturbed' /\ (\A i \in Slots : Watches(i))'
<1> USE DEF IInv
<1>1. /\ call'[u] = Idle /\ peeked'[u] = Idle /\ at'[u] = "none"
      /\ \A v \in Users : v # u => call'[v] = call[v] /\ peeked'[v] = peeked[v] /\ at'[v] = at[v]
  BY DEF Types
<1>2. Order'
  <2>1. \A k, op, v : Is(k, op, v)' <=> Is(k, op, v)
    BY DEF Is
  <2>2. \A k \in DOMAIN queue : ~Is(k, "PEEK7", u)
    BY DEF Order
  <2>3. \A v \in Users : \A k : v # u => (Pokes(k, v)' <=> Pokes(k, v))
    BY <1>1 DEF Pokes
  <2>4. \A x : Final(x)' <=> Final(x)
    BY DEF Final
  <2> QED BY <1>1, <2>1, <2>2, <2>3, <2>4 DEF Order
<1>3. Undisturbed'
  BY <1>1 DEF Undisturbed, Knows, Is, Types
<1> QED BY <1>2, <1>3 DEF Watches, Enabled, Field

LEMMA FailPreserves ==
  ASSUME IInv, NEW u \in Users, CallFails(u)
  PROVE  IInv'
<1> USE DEF IInv
<1>1. /\ peeked[u] # Idle /\ at[u] = "get" /\ call' = [call EXCEPT ![u] = Idle]
      /\ peeked' = [peeked EXCEPT ![u] = Idle] /\ at' = [at EXCEPT ![u] = "none"]
      /\ UNCHANGED <<stopped, dr7, drAddr, queue, holds, idx, isSet, addr, fresh, want, mixed>>
  BY DEF CallFails, AfterCall, thread, history
<1>2. /\ call'[u] = Idle /\ peeked'[u] = Idle /\ at'[u] = "none"
      /\ \A v \in Users : v # u => call'[v] = call[v] /\ peeked'[v] = peeked[v] /\ at'[v] = at[v]
  BY <1>1 DEF Types
<1>3. Types' /\ Held'
  BY <1>1, <1>2 DEF Types, Held
<1>4. Truth'
  <2>1. \A i, a : Tells(i, a) => Tells(i, a)'
    BY <1>1, <1>2, TellsKept
  <2>2. PICK c : c = [op |-> "PEEK7", by |-> u]
    OBVIOUS
  <2>3. c \in Commands
    BY <2>2 DEF Commands, Peeks
  <2> QED BY <2>1, <2>3, <1>1, TruthOfUser
<1> QED BY <1>1, <1>3, <1>4, Ended

(* A call queues its write of DR7, and is to assign _isSet.                *)
LEMMA WritePreserves ==
  ASSUME IInv, NEW u \in Users, NEW asked \in Asks \cup {Off}, NEW new \in Bits,
         new = NewBits(peeked[u].bits, idx[holds[u]], asked),
         asked # Off => asked.object = holds[u] /\ asked.addr = call[u].addr,
         (call[u].op = "set") <=> (asked # Off),
         Write(u, new, asked)
  PROVE  IInv'
<1> USE DEF IInv
<1> PICK n : n = Len(queue)
  OBVIOUS
<1> PICK o : o = holds[u]
  OBVIOUS
<1> PICK p : p = [op |-> "POKE7", by |-> u, slot |-> idx[o], bits |-> new, asked |-> asked]
  OBVIOUS
<1>1. /\ at[u] = "get" /\ peeked[u] # Idle /\ peeked[u].ok
      /\ queue' = Append(queue, p) /\ at' = [at EXCEPT ![u] = "assign"]
      /\ peeked' = [peeked EXCEPT ![u] = Idle]
      /\ UNCHANGED <<stopped, dr7, drAddr, holds, idx, isSet, addr, call, fresh, want, mixed>>
  BY DEF Write, thread, history, objects
<1>2. /\ o \in Objects /\ idx[o] \in Slots /\ Final(o) /\ o # Nobody
      /\ o \in Slots \cup {u} /\ call[u] # Idle
  BY <1>1, HeldObjects DEF Held
<1>3. p \in Commands /\ p.op = "POKE7" /\ p.by = u /\ p.slot = idx[o] /\ p.asked = asked
        /\ p.bits = new
  <2>1. p \in Poke7s
    BY <1>2 DEF Poke7s
  <2> QED BY <2>1 DEF Commands
<1>4. /\ n \in Nat /\ DOMAIN queue = 1 .. n
      /\ queue' \in Seq(Commands) /\ DOMAIN queue' = 1 .. n + 1
      /\ queue'[n + 1] = p /\ \A k \in 1 .. n : queue'[k] = queue[k]
      /\ \A k \in 1 .. n : \A op, v : Is(k, op, v)' <=> Is(k, op, v)
      /\ \A op, v : Is(n + 1, op, v)' <=> op = "POKE7" /\ v = u
      /\ \A k \in 0 .. n : Pending(idx[o], k)'
  BY <1>1, <1>3, AppendFacts
<1>5. /\ peeked'[u] = Idle /\ at'[u] = "assign"
      /\ \A v \in Users : v # u => peeked'[v] = peeked[v] /\ at'[v] = at[v]
      /\ \A k \in 1 .. n : ~Is(k, "PEEK7", u) /\ ~Is(k, "POKE7", u)
      /\ \A k \in 1 .. n : Is(k, "POKEADDR", u) => Pokes(k, u)
  <2>1. peeked'[u] = Idle /\ at'[u] = "assign"
    BY <1>1 DEF Types
  <2>2. \A v \in Users : v # u => peeked'[v] = peeked[v] /\ at'[v] = at[v]
    BY <1>1 DEF Types
  <2>3. \A k \in 1 .. n : ~Is(k, "PEEK7", u) /\ ~Is(k, "POKE7", u)
    BY <1>1, <1>4 DEF Order
  <2>4. \A k \in 1 .. n : Is(k, "POKEADDR", u) => Pokes(k, u)
    BY <1>1, <1>4 DEF Order
  <2> QED BY <2>1, <2>2, <2>3, <2>4
<1>6. \A v \in Users, k \in 1 .. n : Pokes(k, v)' <=> Pokes(k, v)
  BY <1>1, <1>4 DEF Pokes
<1>7. Types'
  BY <1>1, <1>4 DEF Types
<1>8. Held'
  BY <1>1, <1>2, <1>5 DEF Held
<1>9. \A x : Final(x)' <=> Final(x)
  BY <1>1 DEF Final
<1>10. Order'
  <2>1. ASSUME NEW k \in DOMAIN queue', NEW v \in Users, Is(k, "PEEK7", v)'
        PROVE  /\ call'[v] # Idle /\ peeked'[v] = Idle /\ at'[v] # "assign"
               /\ \A j \in DOMAIN queue' : Is(j, "PEEK7", v)' => j = k
               /\ \A j \in DOMAIN queue' : Is(j, "POKE7", v)' => j < k
               /\ \A j \in DOMAIN queue' : Is(j, "POKEADDR", v)' /\ k < j => Pokes(j, v)'
               /\ call'[v].op = "set" =>
                    \/ at'[v] = "poke"
                    \/ \E j \in DOMAIN queue' : k < j /\ Is(j, "POKEADDR", v)'
    <3>1. v # u /\ k \in 1 .. n /\ Is(k, "PEEK7", v)
      BY <2>1, <1>4, <1>5
    <3>2. \A j \in DOMAIN queue' : \A op : Is(j, op, v)' => j \in 1 .. n /\ Is(j, op, v)
      BY <3>1, <1>4
    <3>3. call[v].op = "set" => \/ at[v] = "poke"
                                \/ \E j \in DOMAIN queue' : k < j /\ Is(j, "POKEADDR", v)'
      BY <3>1, <1>4 DEF Order
    <3>4. \A j \in DOMAIN queue' : Is(j, "POKEADDR", v)' /\ k < j => Pokes(j, v)'
      BY <3>1, <3>2, <1>4, <1>6 DEF Order
    <3> QED BY <3>1, <3>2, <3>3, <3>4, <1>1, <1>4, <1>5 DEF Order
  <2>2. ASSUME NEW k \in DOMAIN queue', NEW v \in Users, Is(k, "POKE7", v)'
        PROVE  /\ peeked'[v] = Idle
               /\ queue'[k].asked # Off =>
                    /\ Final(queue[k].asked.object)'
                    /\ queue'[k].slot = idx'[queue'[k].asked.object]
                    /\ \A j \in DOMAIN queue' : Is(j, "POKEADDR", v)' /\ j < k =>
                         queue'[j].slot = queue'[k].slot /\ queue'[j].addr = queue'[k].asked.addr
    <3>1. CASE k \in 1 .. n
      <4>1. Is(k, "POKE7", v) /\ queue'[k] = queue[k] /\ v # u
        BY <2>2, <3>1, <1>4, <1>5
      <4>2. \A j \in DOMAIN queue' : j < k => j \in 1 .. n /\ queue'[j] = queue[j]
        BY <3>1, <1>4
      <4>3. peeked'[v] = Idle
        BY <3>1, <4>1, <1>4, <1>5 DEF Order
      <4>4. queue[k].asked # Off =>
              Final(queue[k].asked.object)' /\ queue[k].slot = idx'[queue[k].asked.object]
        BY <3>1, <4>1, <1>1, <1>4, <1>9 DEF Order
      <4> QED BY <3>1, <4>1, <4>2, <4>3, <4>4, <1>4 DEF Order
    <3>2. CASE k = n + 1
      <4>1. v = u /\ queue'[k] = p
        BY <2>2, <3>2, <1>4
      <4>2. asked # Off => Final(queue[k].asked.object)' /\ p.slot = idx'[asked.object]
        BY <4>1, <1>1, <1>2, <1>3, <1>9
      <4>3. asked # Off => \A j \in DOMAIN queue' : Is(j, "POKEADDR", u)' =>
              queue'[j].slot = p.slot /\ queue'[j].addr = asked.addr
        BY <1>3, <1>4, <1>5 DEF Pokes
      <4> QED BY <4>1, <4>2, <4>3, <1>3, <1>5
    <3> QED BY <3>1, <3>2, <1>4
  <2>3. ASSUME NEW v \in Users, peeked'[v] # Idle, NEW j \in DOMAIN queue', Is(j, "POKEADDR", v)'
        PROVE  Pokes(j, v)'
    <3>1. v # u /\ j \in 1 .. n /\ Is(j, "POKEADDR", v)
      BY <2>3, <1>4, <1>5
    <3> QED BY <2>3, <3>1, <1>4, <1>5, <1>6 DEF Order
  <2> QED BY <2>1, <2>2, <2>3 DEF Order
<1>11. Undisturbed'
  <2> SUFFICES ASSUME NEW v \in fresh
               PROVE  Knows(v)'
    BY <1>1 DEF Undisturbed
  <2>1. v \in Users /\ Knows(v)
    BY DEF Types, Undisturbed
  <2>2. (peeked'[v] # Idle /\ peeked'[v].ok) =>
           /\ peeked'[v].bits = dr7
           /\ call[v].op = "set" => \/ at'[v] = "poke"
                                    \/ \E j \in DOMAIN queue' : Is(j, "POKEADDR", v)'
                                    \/ drAddr[idx[holds[v]]] = call[v].addr
    BY <2>1, <1>4, <1>5 DEF Knows
  <2>3. ASSUME NEW k \in DOMAIN queue', Is(k, "POKE7", v)'
        PROVE  /\ queue'[k].bits = NewBits(dr7, queue'[k].slot, queue'[k].asked)
               /\ queue'[k].asked # Off =>
                    \/ \E j \in DOMAIN queue' : j < k /\ Is(j, "POKEADDR", v)'
                    \/ drAddr[queue'[k].slot] = queue'[k].asked.addr
    <3>1. CASE k \in 1 .. n
      <4>1. Is(k, "POKE7", v) /\ queue'[k] = queue[k]
        BY <2>3, <3>1, <1>4
      <4> QED BY <3>1, <4>1, <2>1, <1>4 DEF Knows
    <3>2. CASE k = n + 1
      <4>1. v = u /\ queue'[k] = p
        BY <2>3, <3>2, <1>4
      <4>2. peeked[u].bits = dr7
        BY <4>1, <2>1, <1>1 DEF Knows
      <4>3. asked # Off => \/ \E j \in 1 .. n : Is(j, "POKEADDR", u)
                           \/ drAddr[idx[o]] = asked.addr
        BY <4>1, <2>1, <1>1, <1>4 DEF Knows
      <4>4. (\E j \in 1 .. n : Is(j, "POKEADDR", u)) =>
              \E j \in DOMAIN queue' : j < k /\ Is(j, "POKEADDR", u)'
        BY <3>2, <1>4
      <4> QED BY <4>1, <4>2, <4>3, <4>4, <1>3
    <3> QED BY <3>1, <3>2, <1>4
  <2> QED BY <2>2, <2>3, <1>1 DEF Knows
<1>12. (\A i \in Slots : Watches(i))'
  BY <1>1 DEF Watches, Enabled, Field
<1>13. Truth'
  <2>1. NoneMade => o \in Slots /\ idx[o] = o
    BY <1>2 DEF NoneMade, Held
  <2>2. \A x, value : x # o /\ Becomes(x, value) => Becomes(x, value)'
    BY <1>1, <1>5 DEF Becomes
  <2>3. \A x : Settled(x) => Settled(x)'
    BY <1>1, <1>5 DEF Settled
  <2>4. ASSUME NEW i \in Slots, NEW a \in Asks \cup {Off}, NEW k \in 0 .. Len(queue),
               Tells(i, a), a # Off => i = idx[a.object]
        PROVE  Tells(i, a)' \/ Pending(i, k)'
    <3>1. CASE i = idx[o]
      <4>1. k \in 0 .. n
        BY <2>4, <1>4
      <4> QED BY <3>1, <4>1, <1>1, <1>4 DEF Pending
    <3>2. CASE i # idx[o]
      <4>1. (a # Off => a.object # o) /\ (NoneMade => i # o)
        BY <2>1, <2>4, <3>2
      <4>2. NoneMade' <=> NoneMade
        BY <1>1 DEF NoneMade
      <4> QED BY <2>2, <2>3, <2>4, <4>1, <4>2, <1>1 DEF Tells
    <3> QED BY <3>1, <3>2
  <2>5. o \notin mixed =>
          /\ Becomes(o, asked # Off)' /\ Settled(o)'
          /\ asked # Off => addr[o] = asked.addr
    <3> SUFFICES ASSUME o \notin mixed
                 PROVE  /\ Becomes(o, asked # Off)' /\ Settled(o)'
                        /\ asked # Off => addr[o] = asked.addr
      OBVIOUS
    <3>1. \A v \in Users : v # u /\ holds[v] = o => call[v] = Idle /\ at[v] = "none"
      BY <1>2 DEF Held
    <3>2. Settled(o)'
      BY <3>1, <1>1, <1>5 DEF Settled
    <3>3. Becomes(o, asked # Off)'
      BY <3>1, <1>1, <1>5 DEF Becomes
    <3>4. asked # Off => addr[o] = asked.addr
      BY <1>1 DEF Held
    <3> QED BY <3>2, <3>3, <3>4
  <2>6. Tells(p.slot, p.asked)'
    <3>1. CASE asked = Off
      <4>1. NoneMade' => idx[o] = o
        BY <2>1, <1>1 DEF NoneMade
      <4> QED BY <3>1, <4>1, <2>5, <1>1, <1>3 DEF Tells
    <3>2. CASE asked # Off
      BY <3>2, <2>5, <1>1, <1>3 DEF Tells
    <3> QED BY <3>1, <3>2
  <2> QED BY <2>4, <2>6, <1>1, <1>3, TruthOfUser
<1> QED BY <1>7, <1>8, <1>10, <1>11, <1>12, <1>13

(* A call assigns _isSet, and set _addr once more, and ends.               *)
LEMMA EndPreserves ==
  ASSUME IInv, NEW u \in Users, at[u] = "assign",
         isSet' = [isSet EXCEPT ![holds[u]] = (call[u].op = "set")],
         addr' = IF call[u].op = "set" THEN [addr EXCEPT ![holds[u]] = call[u].addr] ELSE addr,
         AfterCall(u),
         UNCHANGED <<thread, queue, holds, idx, history, mixed>>
  PROVE  IInv'
<1> USE DEF IInv
<1> PICK o : o = holds[u]
  OBVIOUS
<1>1. /\ call' = [call EXCEPT ![u] = Idle] /\ peeked' = [peeked EXCEPT ![u] = Idle]
      /\ at' = [at EXCEPT ![u] = "none"]
      /\ UNCHANGED <<stopped, dr7, drAddr, queue, holds, idx, fresh, want, mixed>>
  BY DEF AfterCall, thread, history
<1>2. call[u] # Idle /\ call[u] \in Calls /\ o # Nobody /\ o \in Objects
  BY HeldObjects DEF Held, Types
<1>3. /\ call'[u] = Idle /\ peeked'[u] = Idle /\ at'[u] = "none"
      /\ \A v \in Users : v # u => call'[v] = call[v] /\ peeked'[v] = peeked[v] /\ at'[v] = at[v]
      /\ isSet'[o] = (call[u].op = "set")
      /\ \A x \in Objects : x # o => isSet'[x] = isSet[x] /\ addr'[x] = addr[x]
      /\ o \notin mixed => addr'[o] = addr[o]
  <2>1. o \notin mixed => addr'[o] = addr[o]
    BY <1>2 DEF Types, Held
  <2> QED BY <1>1, <1>2, <2>1 DEF Types
<1>4. Types'
  <2>1. call[u].op = "set" => call[u].addr \in Addrs
    BY <1>2, Kinds
  <2>2. addr' \in [Objects -> Addrs \cup {"null"}] /\ isSet' \in [Objects -> BOOLEAN]
    BY <1>2, <2>1 DEF Types
  <2> QED BY <1>1, <2>2 DEF Types
<1>5. Held'
  <2>1. ASSUME NEW v \in Users, at'[v] \in {"get", "assign"}, call'[v].op = "set",
               holds[v] \notin mixed
        PROVE  addr'[holds[v]] = call'[v].addr
    <3>1. v # u /\ at'[v] = at[v] /\ call'[v] = call[v]
      BY <2>1, <1>3
    <3>2. holds[v] \in Objects
      BY <2>1, <3>1, HeldObjects DEF Held
    <3>3. addr'[holds[v]] = addr[holds[v]]
      BY <2>1, <3>2, <1>3
    <3> QED BY <2>1, <3>1, <3>3 DEF Held
  <2> QED BY <1>1, <1>3, <2>1 DEF Held
<1>6. Truth'
  <2>1. \A x \in Objects, value \in BOOLEAN : Becomes(x, value) => Becomes(x, value)'
    <3> SUFFICES ASSUME NEW x \in Objects, NEW value \in BOOLEAN, Becomes(x, value)
                 PROVE  Becomes(x, value)'
      OBVIOUS
    <3>1. \A v \in Users : (holds[v] = x /\ at'[v] = "assign") => (call'[v].op = "set") = value
      BY <1>3 DEF Becomes
    <3>2. x = o => isSet'[x] = value
      BY <1>3 DEF Becomes
    <3>3. x # o => isSet'[x] = value \/ \E v \in Users : holds[v] = x /\ at'[v] = "assign"
      BY <1>3 DEF Becomes
    <3> QED BY <3>1, <3>2, <3>3, <1>1 DEF Becomes
  <2>2. \A x : Settled(x) => Settled(x)'
    BY <1>1, <1>3 DEF Settled
  <2>3. ASSUME NEW i \in Slots, NEW a \in Asks \cup {Off}, Tells(i, a)
        PROVE  Tells(i, a)'
    <3>1. i \in Objects /\ (a # Off => a.object \in Objects)
      BY DEF Objects, Asks
    <3>2. a # Off /\ a.object \notin mixed => addr'[a.object] = addr[a.object]
      BY <3>1, <1>3
    <3> QED BY <2>1, <2>2, <2>3, <3>1, <3>2, <1>1 DEF Tells, NoneMade
  <2>4. PICK c : c = [op |-> "PEEK7", by |-> u]
    OBVIOUS
  <2>5. c \in Commands
    BY <2>4 DEF Commands, Peeks
  <2> QED BY <2>3, <2>5, <1>1, TruthOfUser
<1> QED BY <1>1, <1>4, <1>5, <1>6, Ended

-----------------------------------------------------------------------------
(* The Tracer takes the first command c: what stays of the invariant when  *)
(* the registers, and what the users know of them, are left alone.         *)
LEMMA TailFacts ==
  ASSUME IInv, queue # <<>>, queue' = Tail(queue),
         UNCHANGED <<holds, idx, isSet, addr, call, at, mixed>>
  PROVE  /\ Head(queue) = queue[1] /\ queue[1] \in Commands /\ 1 \in DOMAIN queue
         /\ queue' \in Seq(Commands)
         /\ \A k \in DOMAIN queue' : /\ k + 1 \in DOMAIN queue /\ queue'[k] = queue[k + 1]
                                     /\ k \in Nat \ {0}
         /\ \A k \in DOMAIN queue : k = 1 \/ (k - 1 \in DOMAIN queue' /\ queue'[k - 1] = queue[k]
                                                /\ k \in Nat \ {0, 1})
         /\ \A k \in DOMAIN queue' : \A op, v : Is(k, op, v)' <=> Is(k + 1, op, v)
         /\ \A k \in DOMAIN queue' : \A v : Pokes(k, v)' <=> Pokes(k + 1, v)
         /\ \A x : Final(x)' <=> Final(x)
         /\ \A i, a : Tells(i, a)' <=> Tells(i, a)
         /\ \A i, k : k \in Nat /\ Pending(i, k + 1) => Pending(i, k)'
         /\ \A i \in Slots : Pending(i, 0) =>
              Pending(i, 0)' \/ (queue[1].op \in {"POKEADDR", "POKE7"} /\ queue[1].slot = i)
<1> PICK n : n = Len(queue)
  OBVIOUS
<1>1. queue \in Seq(Commands) /\ n \in Nat \ {0} /\ DOMAIN queue = 1 .. n
  BY DEF IInv, Types
<1>2. /\ Head(queue) = queue[1] /\ queue[1] \in Commands /\ 1 \in DOMAIN queue
      /\ queue' \in Seq(Commands) /\ DOMAIN queue' = 1 .. n - 1
      /\ \A k \in 1 .. n - 1 : queue'[k] = queue[k + 1]
  BY <1>1
<1>3. /\ \A k \in DOMAIN queue' : /\ k + 1 \in DOMAIN queue /\ queue'[k] = queue[k + 1]
                                  /\ k \in Nat \ {0}
      /\ \A k \in DOMAIN queue : k = 1 \/ (k - 1 \in DOMAIN queue' /\ queue'[k - 1] = queue[k]
                                             /\ k \in Nat \ {0, 1})
  BY <1>1, <1>2
<1>4. \A k \in DOMAIN queue' : \A op, v : Is(k, op, v)' <=> Is(k + 1, op, v)
  BY <1>3 DEF Is
<1>5. \A k \in DOMAIN queue' : \A v : Pokes(k, v)' <=> Pokes(k + 1, v)
  BY <1>3 DEF Pokes
<1>6. (\A x : Final(x)' <=> Final(x)) /\ \A i, a : Tells(i, a)' <=> Tells(i, a)
  BY DEF Final, Tells, Becomes, Settled, NoneMade
<1>7. \A i, k : k \in Nat /\ Pending(i, k + 1) => Pending(i, k)'
  <2> SUFFICES ASSUME NEW i, NEW k \in Nat, Pending(i, k + 1)
               PROVE  Pending(i, k)'
    OBVIOUS
  <2>1. PICK j \in DOMAIN queue : /\ k + 1 < j /\ queue[j].op \in {"POKEADDR", "POKE7"}
                                  /\ queue[j].slot = i
    BY DEF Pending
  <2>2. j # 1 /\ k < j - 1
    BY <2>1, <1>1
  <2> QED BY <2>1, <2>2, <1>3 DEF Pending
<1>8. \A i \in Slots : Pending(i, 0) =>
        Pending(i, 0)' \/ (queue[1].op \in {"POKEADDR", "POKE7"} /\ queue[1].slot = i)
  BY <1>3 DEF Pending
<1> QED BY <1>2, <1>3, <1>4, <1>5, <1>6, <1>7, <1>8

(* The queue keeps its order, also when the command was a user's PEEK7.    *)
LEMMA OrderOfTail ==
  ASSUME IInv, queue # <<>>, queue' = Tail(queue),
         UNCHANGED <<holds, idx, isSet, addr, call, at, mixed>>,
         NEW u \in Users, queue[1].by = u,
         \A v \in Users : v # u => peeked'[v] = peeked[v],
         queue[1].op = "PEEK7" \/ peeked'[u] = peeked[u]
  PROVE  Order'
<1> USE DEF IInv
<1> USE TailFacts
<1>1. \A k \in DOMAIN queue', v \in Users : Is(k, "PEEK7", v)' =>
        /\ call'[v] # Idle /\ peeked'[v] = Idle /\ at'[v] # "assign"
        /\ \A j \in DOMAIN queue' : Is(j, "PEEK7", v)' => j = k
        /\ \A j \in DOMAIN queue' : Is(j, "POKE7", v)' => j < k
        /\ \A j \in DOMAIN queue' : Is(j, "POKEADDR", v)' /\ k < j => Pokes(j, v)'
        /\ call'[v].op = "set" => \/ at'[v] = "poke"
                                  \/ \E j \in DOMAIN queue' : k < j /\ Is(j, "POKEADDR", v)'
  <2> SUFFICES ASSUME NEW k \in DOMAIN queue', NEW v \in Users, Is(k, "PEEK7", v)'
               PROVE  /\ call'[v] # Idle /\ peeked'[v] = Idle /\ at'[v] # "assign"
                      /\ \A j \in DOMAIN queue' : Is(j, "PEEK7", v)' => j = k
                      /\ \A j \in DOMAIN queue' : Is(j, "POKE7", v)' => j < k
                      /\ \A j \in DOMAIN queue' : Is(j, "POKEADDR", v)' /\ k < j => Pokes(j, v)'
                      /\ call'[v].op = "set" =>
                           \/ at'[v] = "poke"
                           \/ \E j \in DOMAIN queue' : k < j /\ Is(j, "POKEADDR", v)'
    OBVIOUS
  <2>1. k + 1 \in DOMAIN queue /\ Is(k + 1, "PEEK7", v) /\ k \in Nat \ {0}
    OBVIOUS
  <2>2. v = u => queue[1].op # "PEEK7"
    <3>1. Is(1, "PEEK7", v) => 1 = k + 1
      BY <2>1 DEF Order
    <3> QED BY <2>1, <3>1 DEF Is
  <2>3. call[v] # Idle /\ peeked'[v] = Idle /\ at[v] # "assign"
    BY <2>1, <2>2 DEF Order
  <2>4. \A j \in DOMAIN queue' : /\ Is(j, "PEEK7", v)' => j + 1 = k + 1
                                 /\ Is(j, "POKE7", v)' => j + 1 < k + 1
                                 /\ Is(j, "POKEADDR", v)' /\ k + 1 < j + 1 => Pokes(j, v)'
    BY <2>1 DEF Order
  <2>5. call[v].op = "set" => \/ at[v] = "poke"
                              \/ \E j \in DOMAIN queue' : k < j /\ Is(j, "POKEADDR", v)'
    <3> SUFFICES ASSUME call[v].op = "set", at[v] # "poke"
                 PROVE  \E j \in DOMAIN queue' : k < j /\ Is(j, "POKEADDR", v)'
      OBVIOUS
    <3>1. PICK j \in DOMAIN queue : k + 1 < j /\ Is(j, "POKEADDR", v)
      BY <2>1 DEF Order
    <3>2. j - 1 \in DOMAIN queue' /\ k < j - 1 /\ (j - 1) + 1 = j
      BY <2>1, <3>1
    <3> QED BY <3>1, <3>2
  <2>6. \A j \in DOMAIN queue' : j \in Nat
    OBVIOUS
  <2> QED BY <2>1, <2>3, <2>4, <2>5, <2>6
<1>2. \A k \in DOMAIN queue', v \in Users : Is(k, "POKE7", v)' =>
        /\ peeked'[v] = Idle
        /\ queue'[k].asked # Off =>
             /\ Final(queue[k].asked.object)' /\ queue'[k].slot = idx'[queue'[k].asked.object]
             /\ \A j \in DOMAIN queue' : Is(j, "POKEADDR", v)' /\ j < k =>
                  queue'[j].slot = queue'[k].slot /\ queue'[j].addr = queue'[k].asked.addr
  <2> SUFFICES ASSUME NEW k \in DOMAIN queue', NEW v \in Users, Is(k, "POKE7", v)'
               PROVE  /\ peeked'[v] = Idle
                      /\ queue'[k].asked # Off =>
                           /\ Final(queue[k].asked.object)'
                           /\ queue'[k].slot = idx'[queue'[k].asked.object]
                           /\ \A j \in DOMAIN queue' : Is(j, "POKEADDR", v)' /\ j < k =>
                                /\ queue'[j].slot = queue'[k].slot
                                /\ queue'[j].addr = queue'[k].asked.addr
    OBVIOUS
  <2>1. /\ k + 1 \in DOMAIN queue /\ Is(k + 1, "POKE7", v) /\ k \in Nat \ {0}
        /\ queue'[k] = queue[k + 1]
    OBVIOUS
  <2>2. v = u => queue[1].op # "PEEK7"
    <3>1. Is(1, "PEEK7", v) => k + 1 < 1
      BY <2>1 DEF Order
    <3> QED BY <2>1, <3>1 DEF Is
  <2>3. peeked'[v] = Idle
    BY <2>1, <2>2 DEF Order
  <2>4. queue[k + 1].asked # Off =>
          Final(queue[k + 1].asked.object) /\ queue[k + 1].slot = idx[queue[k + 1].asked.object]
    BY <2>1 DEF Order
  <2>5. \A x : x = queue[k + 1].asked.object /\ Final(x) => Final(queue[k].asked.object)'
    BY <2>1
  <2>6. queue[k + 1].asked # Off => \A j \in DOMAIN queue' : Is(j, "POKEADDR", v)' /\ j < k =>
          queue'[j].slot = queue[k + 1].slot /\ queue'[j].addr = queue[k + 1].asked.addr
    <3> SUFFICES ASSUME queue[k + 1].asked # Off, NEW j \in DOMAIN queue',
                        Is(j, "POKEADDR", v)', j < k
                 PROVE  /\ queue'[j].slot = queue[k + 1].slot
                        /\ queue'[j].addr = queue[k + 1].asked.addr
      OBVIOUS
    <3>1. j + 1 \in DOMAIN queue /\ j + 1 < k + 1 /\ Is(j + 1, "POKEADDR", v)
            /\ queue'[j] = queue[j + 1]
      BY <2>1
    <3> QED BY <2>1, <3>1 DEF Order
  <2> QED BY <2>1, <2>3, <2>4, <2>5, <2>6
<1>3. \A v \in Users : peeked'[v] # Idle =>
        \A j \in DOMAIN queue' : Is(j, "POKEADDR", v)' => Pokes(j, v)'
  <2> SUFFICES ASSUME NEW v \in Users, peeked'[v] # Idle, NEW j \in DOMAIN queue',
                      Is(j, "POKEADDR", v)'
               PROVE  Pokes(j + 1, v)
    OBVIOUS
  <2>1. j + 1 \in DOMAIN queue /\ Is(j + 1, "POKEADDR", v) /\ 1 < j + 1
    OBVIOUS
  <2>2. CASE peeked'[v] = peeked[v]
    BY <2>1, <2>2 DEF Order
  <2>3. CASE peeked'[v] # peeked[v]
    <3>1. v = u /\ Is(1, "PEEK7", v) /\ 1 \in DOMAIN queue
      BY <2>3 DEF Is
    <3> QED BY <2>1, <3>1 DEF Order
  <2> QED BY <2>2, <2>3
<1> QED BY <1>1, <1>2, <1>3 DEF Order

(* What is left in the queue tells the truth or has a successor.           *)
LEMMA TruthOfTail ==
  ASSUME IInv, queue # <<>>, queue' = Tail(queue),
         UNCHANGED <<holds, idx, isSet, addr, call, at, mixed>>,
         \A i \in Slots : \/ want'[i] = Unknown
                          \/ /\ want'[i] = want[i]
                             /\ queue[1].op # "PEEK7" => queue[1].slot # i
                          \/ queue[1].op = "POKE7" /\ queue[1].slot = i /\ want'[i] = queue[1].asked
  PROVE  Truth'
<1> USE DEF IInv
<1> USE TailFacts
<1>1. ASSUME NEW k \in DOMAIN queue, queue[k].op = "POKE7"
      PROVE  /\ queue[k].asked \in Asks \cup {Off} /\ queue[k].slot \in Slots
             /\ queue[k].asked \in Asks =>
                  Final(queue[k].asked.object) /\ queue[k].slot = idx[queue[k].asked.object]
  <2>1. queue[k] \in Poke7s
    BY <1>1, Kinds DEF Types
  <2>2. queue[k].asked \in Asks \cup {Off} /\ queue[k].slot \in Slots /\ queue[k].by \in Users
    BY <2>1 DEF Poke7s
  <2> QED BY <1>1, <2>2, Kinds DEF Order, Is
<1>2. ASSUME NEW i \in Slots, want'[i] # Unknown
      PROVE  Tells(i, want[i])' \/ Pending(i, 0)'
  <2>1. CASE want'[i] = want[i] /\ (queue[1].op # "PEEK7" => queue[1].slot # i)
    <3>1. Tells(i, want[i]) \/ Pending(i, 0)
      BY <1>2, <2>1 DEF Truth
    <3>2. \A a : Tells(i, a) /\ a = want'[i] => Tells(i, want[i])'
      OBVIOUS
    <3> QED BY <2>1, <3>1, <3>2
  <2>2. CASE queue[1].op = "POKE7" /\ queue[1].slot = i /\ want'[i] = queue[1].asked
    <3>1. Tells(i, queue[1].asked) \/ Pending(i, 1)
      BY <2>2 DEF Truth
    <3>2. Pending(i, 1) => Pending(i, 0)'
      <4>1. 0 \in Nat /\ 0 + 1 = 1
        OBVIOUS
      <4> QED BY <4>1
    <3>3. \A a : Tells(i, a) /\ a = want'[i] => Tells(i, want[i])'
      OBVIOUS
    <3> QED BY <2>2, <3>1, <3>2, <3>3
  <2> QED BY <1>2, <2>1, <2>2
<1>3. ASSUME NEW i \in Slots, want'[i] \in Asks
      PROVE  Final(want[i].object)' /\ idx'[want'[i].object] = i
  <2>1. Final(want'[i].object) /\ idx[want'[i].object] = i
    BY <1>1, <1>3, Kinds DEF Truth
  <2>2. \A x : Final(x) /\ x = want'[i].object => Final(want[i].object)'
    OBVIOUS
  <2> QED BY <2>1, <2>2
<1>4. ASSUME NEW k \in DOMAIN queue', queue'[k].op = "POKE7"
      PROVE  Tells(queue[k].slot, queue[k].asked)' \/ Pending(queue[k].slot, k)'
  <2>1. k + 1 \in DOMAIN queue /\ queue'[k] = queue[k + 1] /\ k \in Nat
    OBVIOUS
  <2>2. Tells(queue[k + 1].slot, queue[k + 1].asked) \/ Pending(queue[k + 1].slot, k + 1)
    BY <1>4, <2>1 DEF Truth
  <2>3. \A i : i = queue'[k].slot /\ Pending(i, k + 1) => Pending(queue[k].slot, k)'
    BY <2>1
  <2>4. \A i, a : i = queue'[k].slot /\ a = queue'[k].asked /\ Tells(i, a) =>
                    Tells(queue[k].slot, queue[k].asked)'
    BY <2>1
  <2> QED BY <2>1, <2>2, <2>3, <2>4
<1> QED BY <1>2, <1>3, <1>4 DEF Truth

(* A user whose command it was not knows what it knew before.              *)
LEMMA KnowsOfTail ==
  ASSUME IInv, queue # <<>>, queue' = Tail(queue),
         UNCHANGED <<dr7, drAddr, holds, idx, isSet, addr, call, at, mixed>>,
         NEW v \in fresh, queue[1].by # v, peeked'[v] = peeked[v]
  PROVE  Knows(v)'
<1>1. Knows(v) /\ ~Is(1, "POKEADDR", v)
  BY DEF IInv, Undisturbed, Is
<1>2. (peeked[v] # Idle /\ peeked[v].ok /\ call[v].op = "set") =>
        \/ at[v] = "poke"
        \/ \E j \in DOMAIN queue' : Is(j, "POKEADDR", v)'
        \/ drAddr[idx[holds[v]]] = call[v].addr
  <2>1. ASSUME NEW j \in DOMAIN queue, Is(j, "POKEADDR", v)
        PROVE  \E l \in DOMAIN queue' : Is(l, "POKEADDR", v)'
    <3>1. j - 1 \in DOMAIN queue' /\ (j - 1) + 1 = j
      BY <1>1, <2>1, TailFacts
    <3> QED BY <2>1, <3>1, TailFacts
  <2> QED BY <1>1, <2>1 DEF Knows
<1>3. ASSUME NEW k \in DOMAIN queue', Is(k, "POKE7", v)'
      PROVE  /\ queue'[k].bits = NewBits(dr7, queue'[k].slot, queue'[k].asked)
             /\ queue'[k].asked # Off =>
                  \/ \E j \in DOMAIN queue' : j < k /\ Is(j, "POKEADDR", v)'
                  \/ drAddr[queue'[k].slot] = queue'[k].asked.addr
  <2>1. k + 1 \in DOMAIN queue /\ Is(k + 1, "POKE7", v) /\ queue'[k] = queue[k + 1]
          /\ k \in Nat
    BY <1>3, TailFacts
  <2>2. ASSUME NEW j \in DOMAIN queue, Is(j, "POKEADDR", v), j < k + 1
        PROVE  \E l \in DOMAIN queue' : l < k /\ Is(l, "POKEADDR", v)'
    <3>1. j - 1 \in DOMAIN queue' /\ (j - 1) + 1 = j /\ j - 1 < k
      BY <1>1, <2>1, <2>2, TailFacts
    <3> QED BY <2>2, <3>1, TailFacts
  <2> QED BY <1>1, <2>1, <2>2 DEF Knows
<1> QED BY <1>1, <1>2, <1>3 DEF Knows

(* What RunCommand does in each case, the first command being u's.         *)
LEMMA RunFacts ==
  ASSUME IInv, RunCommand
  PROVE  /\ queue # <<>> /\ queue' = Tail(queue)
         /\ UNCHANGED <<stopped, holds, idx, isSet, addr, call, at, mixed>>
         /\ Head(queue) = queue[1] /\ queue[1] \in Commands /\ 1 \in DOMAIN queue
         /\ queue' \in Seq(Commands)
         /\ queue[1].by \in Users
<1>1. /\ queue # <<>> /\ queue' = Tail(queue)
      /\ UNCHANGED <<stopped, holds, idx, isSet, addr, call, at, mixed>>
  BY DEF RunCommand, objects
<1> QED BY <1>1, TailFacts, Kinds

LEMMA PeekPreserves ==
  ASSUME IInv, RunCommand, queue[1].op = "PEEK7", RunPeek(queue[1])
  PROVE  IInv'
<1> USE DEF IInv
<1> PICK u : u = queue[1].by
  OBVIOUS
<1> PICK r : r = [op |-> "read", ok |-> stopped, bits |-> dr7]
  OBVIOUS
<1>1. /\ queue # <<>> /\ queue' = Tail(queue) /\ queue' \in Seq(Commands)
      /\ UNCHANGED <<stopped, holds, idx, isSet, addr, call, at, mixed>>
      /\ u \in Users /\ 1 \in DOMAIN queue /\ Is(1, "PEEK7", u)
  BY RunFacts DEF Is
<1>2. /\ peeked' = [peeked EXCEPT ![u] = r] /\ UNCHANGED <<dr7, drAddr, want>>
      /\ fresh' = IF stopped THEN fresh \cup {u} ELSE fresh
  BY DEF RunPeek
<1>3. r \in Reads /\ r.ok = stopped /\ r.bits = dr7
  BY DEF Reads, Types
<1>4. peeked'[u] = r /\ \A v \in Users : v # u => peeked'[v] = peeked[v]
  BY <1>1, <1>2 DEF Types
<1>5. Types'
  BY <1>1, <1>2, <1>3 DEF Types
<1>6. Held'
  BY <1>1, <1>4 DEF Held, Order
<1>7. Order'
  BY <1>1, <1>4, OrderOfTail
<1>8. Truth'
  BY <1>1, <1>2, TruthOfTail
<1>9. (\A i \in Slots : Watches(i))'
  BY <1>2 DEF Watches, Enabled, Field
<1>10. Undisturbed'
  <2> SUFFICES ASSUME NEW v \in fresh'
               PROVE  Knows(v)'
    BY DEF Undisturbed
  <2>1. CASE v = u
    <3>1. call[u].op = "set" => \/ at[u] = "poke"
                                \/ \E j \in DOMAIN queue' : Is(j, "POKEADDR", u)'
      <4> SUFFICES ASSUME call[u].op = "set", at[u] # "poke"
                   PROVE  \E j \in DOMAIN queue' : Is(j, "POKEADDR", u)'
        OBVIOUS
      <4>1. PICK j \in DOMAIN queue : 1 < j /\ Is(j, "POKEADDR", u)
        BY <1>1 DEF Order
      <4>2. j - 1 \in DOMAIN queue' /\ (j - 1) + 1 = j
        BY <4>1, <1>1, TailFacts
      <4> QED BY <4>1, <4>2, <1>1, TailFacts
    <3>2. \A k \in DOMAIN queue' : ~Is(k, "POKE7", u)'
      <4> SUFFICES ASSUME NEW k \in DOMAIN queue', Is(k, "POKE7", u)' PROVE FALSE
        OBVIOUS
      <4>1. k + 1 \in DOMAIN queue /\ Is(k + 1, "POKE7", u) /\ k \in Nat
        BY <1>1, TailFacts
      <4>2. k + 1 < 1
        BY <1>1, <4>1 DEF Order
      <4> QED BY <4>1, <4>2
    <3> QED BY <2>1, <3>1, <3>2, <1>1, <1>2, <1>3, <1>4 DEF Knows
  <2>2. CASE v # u
    <3>1. v \in fresh /\ v \in Users
      BY <2>2, <1>2, <1>5 DEF Types
    <3> QED BY <2>2, <3>1, <1>1, <1>2, <1>4, KnowsOfTail
  <2> QED BY <2>1, <2>2
<1> QED BY <1>5, <1>6, <1>7, <1>8, <1>9, <1>10

LEMMA PokeAddrPreserves ==
  ASSUME IInv, RunCommand, queue[1].op = "POKEADDR", NEW taken \in BOOLEAN,
         RunPokeAddr(queue[1], taken)
  PROVE  IInv'
<1> USE DEF IInv
<1> PICK c : c = queue[1]
  OBVIOUS
<1>1. /\ queue # <<>> /\ queue' = Tail(queue) /\ queue' \in Seq(Commands)
      /\ UNCHANGED <<stopped, holds, idx, isSet, addr, call, at, mixed>>
      /\ c.by \in Users /\ 1 \in DOMAIN queue /\ Is(1, "POKEADDR", c.by) /\ c \in Commands
  BY RunFacts DEF Is
<1>2. /\ drAddr' = IF taken THEN [drAddr EXCEPT ![c.slot] = c.addr] ELSE drAddr
      /\ fresh' = IF taken THEN fresh \cap {c.by} ELSE fresh \ {c.by}
      /\ want' = [want EXCEPT ![c.slot] = Unknown] /\ UNCHANGED <<dr7, peeked>>
  BY DEF RunPokeAddr
<1>3. c.slot \in Slots /\ c.addr \in Addrs
  BY <1>1, Kinds DEF PokeAddrs
<1>4. Types'
  BY <1>1, <1>2, <1>3 DEF Types
<1>5. Held'
  BY <1>1, <1>2 DEF Held
<1>6. Order'
  BY <1>1, <1>2, OrderOfTail
<1>7. /\ want'[c.slot] = Unknown /\ \A i \in Slots : i # c.slot => want'[i] = want[i]
      /\ \A i \in Slots : i # c.slot => drAddr'[i] = drAddr[i]
      /\ taken => drAddr'[c.slot] = c.addr
  BY <1>2, <1>3 DEF Types
<1>8. Truth'
  BY <1>1, <1>7, TruthOfTail
<1>9. (\A i \in Slots : Watches(i))'
  BY <1>2, <1>7, Kinds DEF Watches, Enabled, Field
<1>10. Undisturbed'
  <2> SUFFICES ASSUME NEW v \in fresh'
               PROVE  Knows(v)'
    BY DEF Undisturbed
  <2>1. CASE ~taken
    <3>1. v \in fresh /\ v # c.by
      BY <2>1, <1>2
    <3> QED BY <2>1, <3>1, <1>1, <1>2, KnowsOfTail
  <2>2. CASE taken
    <3>1. v \in fresh /\ v = c.by /\ Knows(v)
      BY <2>2, <1>2 DEF Undisturbed
    <3>2. (peeked[v] # Idle /\ call[v].op = "set") => drAddr'[idx[holds[v]]] = call[v].addr
      BY <2>2, <3>1, <1>1, <1>7 DEF Order, Pokes
    <3>3. ASSUME NEW k \in DOMAIN queue', Is(k, "POKE7", v)'
          PROVE  /\ queue'[k].bits = NewBits(dr7, queue'[k].slot, queue'[k].asked)
                 /\ queue'[k].asked # Off => drAddr'[queue'[k].slot] = queue'[k].asked.addr
      <4>1. k + 1 \in DOMAIN queue /\ Is(k + 1, "POKE7", v) /\ queue'[k] = queue[k + 1]
              /\ 1 < k + 1
        BY <3>3, <1>1, TailFacts
      <4>2. queue[k + 1].asked # Off =>
              c.slot = queue[k + 1].slot /\ c.addr = queue[k + 1].asked.addr
        BY <3>1, <4>1, <1>1 DEF Order
      <4> QED BY <2>2, <3>1, <4>1, <4>2, <1>7 DEF Knows
    <3> QED BY <3>1, <3>2, <3>3, <1>1, <1>2 DEF Knows
  <2> QED BY <2>1, <2>2
<1> QED BY <1>4, <1>5, <1>6, <1>8, <1>9, <1>10

(* The write of DR7: of a call that nobody disturbed, exactly what it      *)
(* asked for its slot, and what there was for the others.                  *)
LEMMA Poke7Preserves ==
  ASSUME IInv, RunCommand, queue[1].op = "POKE7", NEW taken \in BOOLEAN,
         RunPoke7(queue[1], taken)
  PROVE  IInv'
<1> USE DEF IInv
<1> PICK c : c = queue[1]
  OBVIOUS
<1>1. /\ queue # <<>> /\ queue' = Tail(queue) /\ queue' \in Seq(Commands)
      /\ UNCHANGED <<stopped, holds, idx, isSet, addr, call, at, mixed>>
      /\ c.by \in Users /\ 1 \in DOMAIN queue /\ Is(1, "POKE7", c.by) /\ c \in Commands
  BY RunFacts DEF Is
<1>2. /\ dr7' = IF taken THEN c.bits \ Reserved ELSE dr7
      /\ fresh' = IF taken THEN {} ELSE fresh \ {c.by}
      /\ want' = IF ~taken THEN [want EXCEPT ![c.slot] = Unknown]
                 ELSE IF c.by \in fresh THEN [want EXCEPT ![c.slot] = c.asked]
                 ELSE [i \in Slots |-> Unknown]
      /\ UNCHANGED <<drAddr, peeked>>
  BY DEF RunPoke7
<1>3. c.slot \in Slots /\ c.bits \in Bits /\ c.asked \in Asks \cup {Off}
  BY <1>1, Kinds DEF Poke7s
<1>4. Types'
  <2>1. dr7' \in Bits
    BY <1>2, <1>3 DEF Types, Bits
  <2>2. want' \in [Slots -> Asks \cup {Off, Unknown}]
    BY <1>2, <1>3 DEF Types
  <2> QED BY <1>1, <1>2, <2>1, <2>2 DEF Types
<1>5. Held'
  BY <1>1, <1>2 DEF Held
<1>6. Order'
  BY <1>1, <1>2, OrderOfTail
<1>7. \/ \A i \in Slots : want'[i] = Unknown
      \/ /\ \A i \in Slots : i # c.slot => want'[i] = want[i]
         /\ \/ ~taken /\ want'[c.slot] = Unknown
            \/ taken /\ c.by \in fresh /\ want'[c.slot] = c.asked
  BY <1>2, <1>3 DEF Types
<1>8. Truth'
  BY <1>1, <1>7, TruthOfTail
<1>9. (\A i \in Slots : Watches(i))'
  <2>1. CASE \A i \in Slots : want'[i] = Unknown
    BY <2>1, Kinds DEF Watches
  <2>2. CASE ~taken /\ want'[c.slot] = Unknown /\ \A i \in Slots : i # c.slot => want'[i] = want[i]
    BY <2>2, <1>2, Kinds DEF Watches, Enabled, Field
  <2>3. CASE taken /\ c.by \in fresh /\ want'[c.slot] = c.asked
               /\ \A i \in Slots : i # c.slot => want'[i] = want[i]
    <3>1. dr7' = NewBits(dr7, c.slot, c.asked) \ Reserved
            /\ (c.asked # Off => drAddr[c.slot] = c.asked.addr)
      <4>1. \A j \in DOMAIN queue : ~(j < 1)
        BY DEF Types
      <4>2. Knows(c.by)
        BY <2>3 DEF Undisturbed
      <4> QED BY <2>3, <4>1, <4>2, <1>1, <1>2 DEF Knows
    <3>2. c.slot \in 0 .. 3 /\ dr7 \in Bits /\ Slots \subseteq 0 .. 3
      BY <1>3, SlotNumbers DEF Types
    <3>3. c.asked # Off => c.asked.trigger \in 0 .. 3 /\ c.asked.size \in 0 .. 3
      <4>1. c.asked # Off => c.asked.trigger \in Triggers /\ c.asked.size \in Sizes
        BY <1>3 DEF Asks
      <4> QED BY <4>1, FieldValues
    <3>4. \A j \in Slots : j # c.slot => SameSlot(dr7, dr7', j)
      <4>1. CASE c.asked = Off
        <5>1. dr7' = UnsetBits(dr7, c.slot) \ Reserved
          BY <3>1, <4>1 DEF NewBits
        <5>2. \A j \in 0 .. 3 : j # c.slot => SameSlot(dr7, dr7', j)
          BY <3>2, <5>1, UnsetKeepsOthers
        <5> QED BY <3>2, <5>2
      <4>2. CASE c.asked # Off
        <5>1. dr7' = SetBits(dr7, c.slot, c.asked.trigger, c.asked.size) \ Reserved
          BY <3>1, <4>2 DEF NewBits
        <5>2. \A j \in 0 .. 3 : j # c.slot => SameSlot(dr7, dr7', j)
          BY <3>2, <3>3, <4>2, <5>1, SetKeepsOthers
        <5> QED BY <3>2, <5>2
      <4> QED BY <4>1, <4>2
    <3>5. ASSUME NEW i \in Slots, i # c.slot
          PROVE  Watches(i)'
      <4>1. /\ 2 * i \in dr7' <=> 2 * i \in dr7
            /\ 2 * i + 1 \in dr7' <=> 2 * i + 1 \in dr7
            /\ 4 * i + 16 \in dr7' <=> 4 * i + 16 \in dr7
            /\ 4 * i + 16 + 1 \in dr7' <=> 4 * i + 16 + 1 \in dr7
            /\ 4 * i + 18 \in dr7' <=> 4 * i + 18 \in dr7
            /\ 4 * i + 18 + 1 \in dr7' <=> 4 * i + 18 + 1 \in dr7
        <5>1. i \in 0 .. 3
          BY <3>2
        <5>2. /\ 4 * i + 16 \in 4 * i + 16 .. 4 * i + 19
              /\ 4 * i + 16 + 1 \in 4 * i + 16 .. 4 * i + 19
              /\ 4 * i + 18 \in 4 * i + 16 .. 4 * i + 19
              /\ 4 * i + 18 + 1 \in 4 * i + 16 .. 4 * i + 19
          BY <5>1
        <5> QED BY <3>4, <3>5, <5>2 DEF SameSlot
      <4>2. want'[i] = want[i] /\ drAddr'[i] = drAddr[i] /\ Watches(i)
        BY <2>3, <3>5, <1>2
      <4>3. /\ Enabled(i)' <=> Enabled(i)
            /\ Field(4 * i + 16)' = Field(4 * i + 16)
            /\ Field(4 * i + 18)' = Field(4 * i + 18)
        BY <4>1 DEF Enabled, Field
      <4> QED BY <4>1, <4>2, <4>3 DEF Watches
    <3>6. Watches(c.slot)'
      <4>1. CASE c.asked = Off
        <5>1. 2 * c.slot \notin dr7' /\ 2 * c.slot + 1 \notin dr7'
          BY <3>1, <3>2, <4>1, UnsetKeepsOthers DEF NewBits
        <5> QED BY <2>3, <4>1, <5>1, Kinds DEF Watches, Enabled
      <4>2. CASE c.asked # Off
        <5>1. /\ {2 * c.slot, 2 * c.slot + 1} \subseteq dr7'
              /\ FieldIn(dr7', 4 * c.slot + 16) = c.asked.trigger
              /\ FieldIn(dr7', 4 * c.slot + 18) = c.asked.size
          BY <3>1, <3>2, <3>3, <4>2, SetKeepsOthers DEF NewBits
        <5>2. c.asked.state = "on"
          BY <4>2, <1>3, Kinds
        <5>3. /\ Field(4 * c.slot + 16)' = c.asked.trigger
              /\ Field(4 * c.slot + 18)' = c.asked.size
          BY <5>1 DEF Field, FieldIn
        <5> QED BY <2>3, <3>1, <4>2, <5>1, <5>2, <5>3, <1>2 DEF Watches
      <4> QED BY <4>1, <4>2
    <3> QED BY <3>5, <3>6
  <2> QED BY <2>1, <2>2, <2>3, <1>7
<1>10. Undisturbed'
  <2> SUFFICES ASSUME NEW v \in fresh'
               PROVE  Knows(v)'
    BY DEF Undisturbed
  <2>1. ~taken /\ v \in fresh /\ v # c.by /\ dr7' = dr7
    BY <1>2
  <2> QED BY <2>1, <1>1, <1>2, KnowsOfTail
<1> QED BY <1>4, <1>5, <1>6, <1>8, <1>9, <1>10

-----------------------------------------------------------------------------
LEMMA UserPreserves ==
  ASSUME IInv, NEW u \in Users, UserStep(u)
  PROVE  IInv'
<1> USE DEF IInv
<1>1. CASE CreateWatchPoint(u)
  BY <1>1, HoldPreserves DEF CreateWatchPoint
<1>2. ASSUME NEW i \in Made, Construct(u, i)
      PROVE  IInv'
  <2>1. i \in Slots
    BY WatchAssumption DEF Slots
  <2> QED BY <1>2, <2>1, HoldPreserves DEF Construct
<1>3. ASSUME NEW a \in Addrs, NEW trigger \in Triggers, NEW size \in Sizes,
             SetBegin(u, a, trigger, size)
      PROVE  IInv'
  <2> PICK c : c = [op |-> "set", addr |-> a, trigger |-> trigger, size |-> size]
    OBVIOUS
  <2>1. c \in Calls /\ c.op = "set"
    BY DEF Calls
  <2> QED BY <1>3, <2>1, BeginPreserves DEF SetBegin
<1>4. CASE UnsetBegin(u) \/ DeleteBegin(u)
  <2>1. PICK op \in {"unset", "delete"} : Begin(u, [op |-> op], "get")
    BY <1>4 DEF UnsetBegin, DeleteBegin
  <2>2. [op |-> op] \in Calls /\ [op |-> op].op # "set"
    BY DEF Calls
  <2> QED BY <2>1, <2>2, BeginPreserves
<1>5. \A r : r = peeked[u] /\ r # Idle => r.bits \in Bits
  BY DEF Types, Reads
<1>6. CASE SetWrite(u)
  <2>1. PICK c : c = call[u]
    OBVIOUS
  <2>2. PICK asked : asked = [state |-> "on", object |-> holds[u], addr |-> c.addr,
                            trigger |-> c.trigger, size |-> c.size]
    OBVIOUS
  <2>3. PICK new : new = SetBits(peeked[u].bits, idx[holds[u]], c.trigger, c.size)
    OBVIOUS
  <2>4. c.op = "set" /\ peeked[u] # Idle /\ Write(u, new, asked)
    BY <1>6, <2>1, <2>2, <2>3 DEF SetWrite, Write
  <2>5. holds[u] \in Objects /\ idx[holds[u]] \in 0 .. 3
    BY <2>4, HeldObjects, SlotNumbers DEF Held
  <2>6. c.addr \in Addrs /\ c.trigger \in Triggers /\ c.size \in Sizes
    BY <2>1, <2>4, Kinds DEF Types
  <2>7. asked \in Asks
    BY <2>2, <2>5, <2>6 DEF Asks
  <2>8. /\ asked # Off /\ asked.object = holds[u] /\ asked.addr = c.addr
        /\ asked.trigger = c.trigger /\ asked.size = c.size
    BY <2>2, <2>7, Kinds
  <2>9. c.trigger \in 0 .. 3 /\ c.size \in 0 .. 3
    BY <2>6, FieldValues
  <2>10. new \in Bits /\ new = NewBits(peeked[u].bits, idx[holds[u]], asked)
    BY <2>3, <2>4, <2>5, <2>8, <2>9, <1>5, SetBitsAre DEF NewBits
  <2>11. /\ asked \in Asks \cup {Off}
         /\ asked # Off => asked.object = holds[u] /\ asked.addr = call[u].addr
         /\ (call[u].op = "set") <=> (asked # Off)
    BY <2>1, <2>4, <2>7, <2>8
  <2> HIDE DEF IInv
  <2> QED BY <2>4, <2>10, <2>11, WritePreserves
<1>7. CASE UnsetWrite(u)
  <2> PICK new : new = UnsetBits(peeked[u].bits, idx[holds[u]])
    OBVIOUS
  <2>1. call[u].op # "set" /\ peeked[u] # Idle /\ Write(u, new, Off)
    BY <1>7 DEF UnsetWrite, Write
  <2>2. idx[holds[u]] \in 0 .. 3
    BY <2>1, HeldObjects, SlotNumbers DEF Held
  <2>3. new \in Bits /\ new = NewBits(peeked[u].bits, idx[holds[u]], Off)
    BY <2>1, <2>2, <1>5, SetBitsAre DEF NewBits
  <2> HIDE DEF IInv
  <2> QED BY <2>1, <2>3, WritePreserves
<1>9. CASE SetEnd(u)
  <2>1. /\ at[u] = "assign" /\ call[u].op = "set" /\ AfterCall(u)
        /\ isSet' = [isSet EXCEPT ![holds[u]] = TRUE]
        /\ addr' = [addr EXCEPT ![holds[u]] = call[u].addr]
        /\ UNCHANGED <<thread, queue, holds, idx, history, mixed>>
    BY <1>9 DEF SetEnd
  <2> HIDE DEF IInv
  <2> QED BY <2>1, EndPreserves
<1>10. CASE UnsetEnd(u)
  <2>1. /\ at[u] = "assign" /\ call[u].op # "set" /\ AfterCall(u)
        /\ isSet' = [isSet EXCEPT ![holds[u]] = FALSE] /\ addr' = addr
        /\ UNCHANGED <<thread, queue, holds, idx, history, mixed>>
    BY <1>10 DEF UnsetEnd, UnsetEndLeaving
  <2> HIDE DEF IInv
  <2> QED BY <2>1, EndPreserves
<1>8. CASE CallFails(u)
  BY <1>8, FailPreserves
<1>11. CASE PokeAddress(u) \/ RecordAddress(u)
  BY <1>11, PokeAddressPreserves, RecordAddressPreserves
<1> QED BY <1>1, <1>2, <1>3, <1>4, <1>6, <1>7, <1>8, <1>9, <1>10, <1>11 DEF UserStep

LEMMA NextIInv == IInv /\ [Next]_vars => IInv'
<1> SUFFICES ASSUME IInv, [Next]_vars PROVE IInv'
  OBVIOUS
<1>1. CASE RunCommand
  <2>1. Head(queue) = queue[1]
    BY <1>1, RunFacts
  <2> QED BY <1>1, <2>1, PeekPreserves, PokeAddrPreserves, Poke7Preserves DEF RunCommand
<1> QED BY <1>1, ThreadPreserves, UserPreserves DEF Next

LEMMA Inductive == Spec => []IInv
BY InitIInv, NextIInv, PTL DEF Spec

(* Whatever the users call, for whatever slots, the debug registers watch  *)
(* what was asked: neither set nor unset ever disturbs another slot.       *)
THEOREM AlwaysWatchesWhatWasAsked == Spec => []WatchesWhatWasAsked
<1>1. IInv => WatchesWhatWasAsked
  BY DEF IInv, WatchesWhatWasAsked, Watches
<1> QED BY <1>1, Inductive, PTL

(* isSet and getAddr agree with the hardware whenever no call is under     *)
(* way, however the assignments and the queued commands interleaved, for   *)
(* every WatchPoint that no two threads have called at the same time.      *)
THEOREM ObjectsAlwaysTellTheTruth == Spec => []ObjectsTellTheTruth
<1>1. IInv => ObjectsTellTheTruth
  <2> SUFFICES ASSUME IInv, Quiet, NEW i \in Slots
               PROVE  /\ (want[i].state = "on" /\ want[i].object \notin mixed) =>
                           isSet[want[i].object] /\ addr[want[i].object] = drAddr[i]
                      /\ (want[i].state = "off" /\ i \notin mixed /\ NoneMade) => ~isSet[i]
    BY DEF ObjectsTellTheTruth, NoneMade
  <2>1. ~Pending(i, 0) /\ \A u \in Users : at[u] = "none"
    BY DEF Quiet, Pending, IInv, Held
  <2>2. want[i] # Unknown => Tells(i, want[i])
    BY <2>1 DEF IInv, Truth
  <2>3. want[i] \in Asks \cup {Off, Unknown} /\ Watches(i)
    BY DEF IInv, Types
  <2>4. \A x, value : Becomes(x, value) => isSet[x] = value
    BY <2>1 DEF Becomes
  <2> QED BY <2>2, <2>3, <2>4, Kinds DEF Tells, Watches
<1> QED BY <1>1, Inductive, PTL
=============================================================================
