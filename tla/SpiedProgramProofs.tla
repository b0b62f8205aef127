------------------------- MODULE SpiedProgramProofs -------------------------
(***************************************************************************)
(* Proofs about SpiedProgram with WrappedFunction, for any number of       *)
(* programs, of binaries and of wrappers.  The wrappers are a pool that    *)
(* all programs share (Pool).  That no call strays into another program    *)
(* rests on two things: as long as a program's thread can call, none of    *)
(* the program's wrappers has gone back to the pool, because the           *)
(* destructor joins the listener first (Life), and until then what is in a *)
(* slot, or on its way to it, is the slot's own (Homes, Waiting).          *)
(***************************************************************************)
EXTENDS SpiedProgram, TLAPS, FiniteSetTheorems

Phases == {"none", "alive", "clear", "join", "functions", "tracer", "callbacks", "gone"}
WrappingCalls ==
  [op : {"wrapping"}, object : Objects, active : BOOLEAN, result : {"none", "ok", "failed"}]

Values == {Fun(p) : p \in Programs \cup {0}} \cup {Wrap(w) : w \in Wrappers} \cup {Null}
Writes == [object : Objects, value : Values]

WrapTypes ==
  /\ available \in Seq(Wrappers)
  /\ target \in [Wrappers -> Values]
  /\ dynamic \in [Wrappers -> Objects \cup {Nowhere}]
  /\ leaked \in SUBSET Wrappers
  /\ object \in [Objects -> WrappedFunctions \cup {Nowhere}]
  /\ slot \in [Objects -> Values]
  /\ queue \in [Programs -> Seq(Writes)]
  /\ user \in WrappingCalls \cup {Idle}

LifeTypes ==
  /\ th \in [Programs -> {"none", "stopped", "running", "dead"}]
  /\ phase \in [Programs -> Phases]
  /\ listener \in [Programs -> {"none", "listening", "ended"}]
  /\ event \in [Programs -> {"none", "stop", "exit"}]

Exists(o) == object[o] # Nowhere

Pool ==
  /\ \A j, k \in DOMAIN available : available[j] = available[k] => j = k
  /\ \A o, q \in Objects : (Exists(o) /\ Exists(q) /\ object[o].w = object[q].w) => o = q
  /\ \A o \in Objects, k \in DOMAIN available : Exists(o) => object[o].w # available[k]
  /\ \A w \in Wrappers : \/ w \in leaked
                         \/ \E k \in DOMAIN available : available[k] = w
                         \/ \E o \in Objects : Exists(o) /\ object[o].w = w
  /\ \A k \in DOMAIN available : available[k] \notin leaked
  /\ \A o \in Objects : Exists(o) => object[o].w \notin leaked

\* The destructor has not come to the WrappedFunctions.
Before(p) == phase[p] \in {"none", "alive", "clear", "join"}

Life ==
  \A p \in Programs :
    /\ th[p] = "none" <=> phase[p] = "none"
    /\ listener[p] # "none" => phase[p] # "none"
    /\ listener[p] = "ended" => th[p] = "dead"
    /\ event[p] = "stop" => th[p] = "stopped"
    /\ ~Before(p) => listener[p] = "ended"

\* What an object's wrapper falls back on, and what is in the slots.
Homes ==
  /\ \A k \in DOMAIN available : dynamic[available[k]] = Nowhere
  /\ \A o \in Objects : Exists(o) =>
       /\ target[object[o].w] = IF object[o].lookup = "noFunction" THEN Null ELSE Fun(o[1])
       /\ dynamic[object[o].w] \in {Nowhere, o}
  /\ \A o \in Objects : Before(o[1]) =>
       \/ slot[o] = Fun(o[1])
       \/ Exists(o) /\ slot[o] \in {Wrap(object[o].w), target[object[o].w]}

\* The one write that can be queued before the destructor, and its result.
WriteOf(call) == [object |-> call.object, value |-> ValueFor(call.object, call.active)]

Waiting ==
  /\ user # Idle =>
       /\ \A p \in Programs : phase[p] \in {"none", "alive", "gone"}
       /\ phase[user.object[1]] = "alive" /\ Exists(user.object)
       /\ queue[user.object[1]] = IF user.result = "none" THEN <<WriteOf(user)>> ELSE <<>>
       /\ user.result = "ok" =>
            slot[user.object] = ValueFor(user.object, user.active)
  /\ \A p \in Programs :
       (phase[p] \notin {"functions", "tracer"} /\ (user # Idle => user.object[1] # p))
         => queue[p] = <<>>

IInv == WrapTypes /\ LifeTypes /\ Pool /\ Life /\ Homes /\ Waiting /\ ~stray

-----------------------------------------------------------------------------
LEMMA InitIInv == Init => IInv
<1> SUFFICES ASSUME Init PROVE IInv
  OBVIOUS
<1> USE WrappersAssumption DEF Init, WrapInit
<1>1. WrapTypes
  BY DEF WrapTypes, Values, Fun, Objects, Wrappers
<1>2. LifeTypes /\ Life
  BY DEF LifeTypes, Phases, Life, Before
<1>3. Pool
  <2>1. \A o \in Objects : ~Exists(o)
    BY DEF Exists
  <2>2. DOMAIN available = Wrappers /\ \A w \in Wrappers : available[w] = w
    OBVIOUS
  <2> QED BY <2>1, <2>2 DEF Pool
<1>4. Homes
  BY DEF Homes, Exists, Wrappers
<1>5. Waiting
  BY DEF Waiting
<1> QED BY <1>1, <1>2, <1>3, <1>4, <1>5 DEF IInv

(* A step that leaves the wrappers, the slots and the queues alone.        *)
LEMMA LifeOnly ==
  ASSUME IInv, UNCHANGED <<poolVars, object, slot, queue, user, stray>>,
         (LifeTypes /\ Life)',
         phase' = phase \/ user = Idle,
         \A p \in Programs : Before(p)' => Before(p),
         \A p \in Programs : phase'[p] \notin {"functions", "tracer"} =>
                               phase[p] \notin {"functions", "tracer"} \/ queue[p] = <<>>
  PROVE  IInv'
<1> USE DEF IInv, poolVars
<1>1. WrapTypes' /\ Pool'
  BY DEF WrapTypes, Pool, Exists
<1>2. Homes'
  BY DEF Homes, Exists, Objects
<1>3. Waiting'
  BY DEF Waiting, Exists, ValueFor, WriteOf
<1> QED BY <1>1, <1>2, <1>3

(* The tester's thread, the spied programs and the listeners.              *)
LEMMA ThreadsPreserve ==
  ASSUME IInv, NEW p \in Programs,
         \/ Construct(p) \/ StartListener(p) \/ ResumeProgram(p) \/ ThreadStops(p)
         \/ ProgramExits(p) \/ Listen(p) \/ RunCallback(p)
  PROVE  IInv'
<1> USE DEF IInv, LifeTypes, Life, Before
<1>1. CASE Construct(p)
  <2>1. (LifeTypes /\ Life)'
    BY <1>1 DEF Construct, Goto, Phases
  <2> QED BY <1>1, <2>1, LifeOnly DEF Construct, Ready, Goto, Phases, poolVars
<1>2. CASE StartListener(p)
  <2>1. (LifeTypes /\ Life)'
    BY <1>2 DEF StartListener, wrapVars
  <2> QED BY <1>2, <2>1, LifeOnly DEF StartListener, wrapVars
<1>3. CASE ResumeProgram(p) \/ RunCallback(p)
  <2>1. PICK q : Resume(p, q) /\ UNCHANGED <<poolVars, object, slot, queue, user, stray,
                                             phase, listener>>
    BY <1>3 DEF ResumeProgram, RunCallback
  <2>2. (LifeTypes /\ Life)'
    BY <2>1 DEF Resume
  <2> QED BY <2>1, <2>2, LifeOnly
<1>4. CASE ThreadStops(p) \/ ProgramExits(p)
  <2>1. (LifeTypes /\ Life)'
    BY <1>4 DEF ThreadStops, ProgramExits
  <2> QED BY <1>4, <2>1, LifeOnly DEF ThreadStops, ProgramExits
<1>5. CASE ListenerEnds(p)
  <2>1. (LifeTypes /\ Life)'
    BY <1>5 DEF ListenerEnds, wrapVars
  <2> QED BY <1>5, <2>1, LifeOnly DEF ListenerEnds, wrapVars
<1>6. CASE \E q \in Programs : NewThread(p, q) \/ ThreadEvent(p, q)
  <2>1. PICK q \in Programs : NewThread(p, q) \/ ThreadEvent(p, q)
    BY <1>6
  <2>2. (LifeTypes /\ Life)'
    BY <2>1 DEF NewThread, ThreadEvent, wrapVars
  <2> QED BY <2>1, <2>2, LifeOnly DEF NewThread, ThreadEvent, wrapVars
<1> QED BY <1>1, <1>2, <1>3, <1>4, <1>5, <1>6 DEF Listen

(* The destructor, except for the WrappedFunctions.  It comes to them with *)
(* the listener's thread joined, and leaves the Tracer with its queue      *)
(* empty.                                                                  *)
LEMMA DestructorPreserves ==
  ASSUME IInv, NEW p \in Programs,
         \/ DestroyBegins(p) \/ Clear(p) \/ Join(p) \/ DestroyTracer(p)
         \/ DestroyCallbacks(p)
         \/ phase[p] = "functions" /\ Goto(p, "tracer") /\ UNCHANGED <<wrapVars, listener, event>>
  PROVE  IInv'
<1> USE DEF IInv, LifeTypes, Life, Before
<1>1. CASE DestroyBegins(p)
  <2>1. (LifeTypes /\ Life)'
    BY <1>1 DEF DestroyBegins, Goto, Phases, wrapVars
  <2> QED BY <1>1, <2>1, LifeOnly DEF DestroyBegins, Ready, Goto, Phases, wrapVars
<1>2. CASE ~DestroyBegins(p)
  <2>1. user = Idle
    BY <1>2 DEF Waiting, Clear, ClearThen, Join, DestroyTracer, DestroyCallbacks
  <2>2. CASE Clear(p)
    <3>1. (LifeTypes /\ Life)'
      BY <2>2 DEF Clear, ClearThen, Goto, Phases, wrapVars
    <3> QED BY <2>1, <2>2, <3>1, LifeOnly DEF Clear, ClearThen, Goto, Phases, wrapVars
  <2>3. CASE Join(p)
    <3>1. (LifeTypes /\ Life)'
      BY <2>3 DEF Join, Goto, Phases
    <3> QED BY <2>1, <2>3, <3>1, LifeOnly DEF Join, Goto, Phases
  <2>4. CASE DestroyTracer(p)
    <3>1. (LifeTypes /\ Life)'
      BY <2>4 DEF DestroyTracer, Goto, Phases, wrapVars
    <3> QED BY <2>1, <2>4, <3>1, LifeOnly DEF DestroyTracer, Goto, Phases, wrapVars
  <2>5. CASE DestroyCallbacks(p)
    <3>1. (LifeTypes /\ Life)'
      BY <2>5 DEF DestroyCallbacks, Goto, Phases, wrapVars
    <3> QED BY <2>1, <2>5, <3>1, LifeOnly DEF DestroyCallbacks, Goto, Phases, wrapVars
  <2>6. CASE phase[p] = "functions" /\ Goto(p, "tracer") /\ UNCHANGED <<wrapVars, listener, event>>
    <3>1. (LifeTypes /\ Life)'
      BY <2>6 DEF Goto, Phases, wrapVars
    <3> QED BY <2>1, <2>6, <3>1, LifeOnly DEF Goto, Phases, wrapVars
  <2> QED BY <1>2, <2>2, <2>3, <2>4, <2>5, <2>6
<1> QED BY <1>1, <1>2

-----------------------------------------------------------------------------
(* Last and Front of a sequence without duplicates.                        *)
LEMMA FrontLast ==
  ASSUME NEW T, NEW s \in Seq(T), s # <<>>
  PROVE  /\ Last(s) \in T /\ Front(s) \in Seq(T)
         /\ Len(s) \in DOMAIN s /\ s[Len(s)] = Last(s)
         /\ DOMAIN Front(s) = DOMAIN s \ {Len(s)}
         /\ \A k \in DOMAIN Front(s) : Front(s)[k] = s[k]
  BY DEF Last, Front

(* The last wrapper of the pool goes to a new object, for its own program. *)
LEMMA NewPreserves ==
  ASSUME IInv, NEW o \in Objects, NEW lookup \in Lookups, user = Idle,
         NewWrapped(o, lookup), UNCHANGED lifeVars
  PROVE  IInv'
<1> USE WrappersAssumption DEF IInv
<1> DEFINE w == Last(available)
           made == [w |-> w, lookup |-> lookup, ending |-> FALSE]
           fallback == IF lookup = "noFunction" THEN Null ELSE Fun(o[1])
<1>1. /\ w \in Wrappers /\ Front(available) \in Seq(Wrappers)
      /\ Len(available) \in DOMAIN available /\ available[Len(available)] = w
      /\ DOMAIN Front(available) = DOMAIN available \ {Len(available)}
      /\ \A k \in DOMAIN Front(available) : Front(available)[k] = available[k]
  BY FrontLast DEF WrapTypes, NewWrapped, TakeWrapper
<1>2. /\ ~Exists(o) /\ available' = Front(available)
      /\ target' = [target EXCEPT ![w] = fallback]
      /\ object' = [object EXCEPT ![o] = made]
      /\ UNCHANGED <<dynamic, leaked, slot, queue, user, th, stray>>
  BY DEF NewWrapped, TakeWrapper, Exists
<1>3. made \in WrappedFunctions /\ made # Nowhere /\ fallback \in Values
  <2>0. made \in WrappedFunctions
    BY <1>1 DEF WrappedFunctions
  <2>1. made # Nowhere
    BY <2>0
  <2>2. o[1] \in Programs
    BY DEF Objects
  <2> QED BY <2>0, <2>1, <2>2 DEF Values
<1>4. made.w = w /\ made.lookup = lookup
  OBVIOUS
<1> HIDE DEF w, made, fallback
<1>5. WrapTypes' /\ LifeTypes' /\ Life'
  BY <1>1, <1>2, <1>3 DEF WrapTypes, LifeTypes, Life, Before, lifeVars
<1>6. \A q \in Objects : /\ q # o => object'[q] = object[q] /\ Exists(q)' = Exists(q)
                         /\ q = o => object'[q] = made /\ Exists(q)'
  BY <1>2, <1>3 DEF WrapTypes, Exists
<1>7. \A q \in Objects : Exists(q) => object[q].w # w
  BY <1>1 DEF Pool
<1>8. Pool'
  <2>1. \A k \in DOMAIN available' : available'[k] = available[k] /\ available[k] # w
                                     /\ k \in DOMAIN available
    BY <1>1, <1>2 DEF Pool
  <2>2. (\A j, k \in DOMAIN available : available[j] = available[k] => j = k)'
    BY <2>1 DEF Pool
  <2>3. (\A q, r \in Objects : (Exists(q) /\ Exists(r) /\ object[q].w = object[r].w) => q = r)'
    BY <1>4, <1>6, <1>7 DEF Pool
  <2>4. (\A q \in Objects, k \in DOMAIN available : Exists(q) => object[q].w # available[k])'
    BY <1>4, <1>6, <2>1 DEF Pool
  <2>5. ASSUME NEW x \in Wrappers
        PROVE  \/ x \in leaked'
               \/ \E k \in DOMAIN available' : available'[k] = x
               \/ \E q \in Objects : Exists(q)' /\ object'[q].w = x
    <3>1. CASE x = w
      BY <1>4, <1>6, <3>1
    <3>2. CASE x # w
      BY <1>1, <1>2, <1>6, <3>2 DEF Pool
    <3> QED BY <3>1, <3>2
  <2>6. w \notin leaked
    BY <1>1 DEF Pool
  <2>7. (/\ \A k \in DOMAIN available : available[k] \notin leaked
         /\ \A q \in Objects : Exists(q) => object[q].w \notin leaked)'
    BY <1>2, <1>4, <1>6, <2>1, <2>6 DEF Pool
  <2> QED BY <2>2, <2>3, <2>4, <2>5, <2>7 DEF Pool
<1>9. Homes'
  <2>1. (\A k \in DOMAIN available : dynamic[available[k]] = Nowhere)'
    BY <1>1, <1>2 DEF Homes
  <2>2. dynamic[w] = Nowhere
    BY <1>1 DEF Homes
  <2>3. \A q \in Objects : Exists(q) => target'[object[q].w] = target[object[q].w]
    BY <1>2, <1>7 DEF WrapTypes
  <2>4. target'[w] = fallback
    BY <1>1, <1>2 DEF WrapTypes
  <2>5. ASSUME NEW q \in Objects, Exists(q)'
        PROVE  /\ target'[object'[q].w] =
                    IF object'[q].lookup = "noFunction" THEN Null ELSE Fun(q[1])
               /\ dynamic'[object'[q].w] \in {Nowhere, q}
    BY <1>2, <1>4, <1>6, <2>2, <2>3, <2>4, <2>5 DEF Homes, fallback
  <2>6. ASSUME NEW q \in Objects, Before(q[1])'
        PROVE  \/ slot'[q] = Fun(q[1])
               \/ Exists(q)' /\ slot'[q] \in {Wrap(object'[q].w), target'[object'[q].w]}
    <3>1. Before(q[1])
      BY <2>6 DEF Before, lifeVars
    <3> QED BY <1>2, <1>6, <2>3, <3>1 DEF Homes
  <2> QED BY <2>1, <2>5, <2>6 DEF Homes
<1>10. Waiting' /\ ~stray'
  BY <1>2 DEF Waiting, lifeVars
<1> QED BY <1>5, <1>8, <1>9, <1>10

(* The constructor throws: the wrapper it took is no object's.             *)
LEMMA ThrowsPreserve ==
  ASSUME IInv, NEW o \in Objects, NEW lookup \in Lookups, user = Idle,
         NewWrappedThrows(o, lookup), UNCHANGED lifeVars
  PROVE  IInv'
<1> USE DEF IInv
<1> DEFINE w == Last(available)
           fallback == IF lookup = "noFunction" THEN Null ELSE Fun(o[1])
<1>1. /\ w \in Wrappers /\ Front(available) \in Seq(Wrappers)
      /\ Len(available) \in DOMAIN available /\ available[Len(available)] = w
      /\ DOMAIN Front(available) = DOMAIN available \ {Len(available)}
      /\ \A k \in DOMAIN Front(available) : Front(available)[k] = available[k]
  BY FrontLast DEF WrapTypes, NewWrappedThrows, TakeWrapper
<1>2. /\ available' = Front(available)
      /\ target' = [target EXCEPT ![w] = fallback]
      /\ leaked' = leaked \cup {w}
      /\ UNCHANGED <<object, dynamic, slot, queue, user, th, stray, lifeVars>>
  BY DEF NewWrappedThrows, TakeWrapper
<1>3. fallback \in Values
  <2>1. o[1] \in Programs
    BY DEF Objects
  <2> QED BY <2>1 DEF Values
<1>4. \A q \in Objects : Exists(q) => object[q].w # w
  BY <1>1 DEF Pool
<1>5. \A k \in DOMAIN available' : /\ available'[k] = available[k] /\ available[k] # w
                                  /\ k \in DOMAIN available
  BY <1>1, <1>2 DEF Pool
<1> HIDE DEF w, fallback
<1>6. WrapTypes' /\ LifeTypes' /\ Life'
  BY <1>1, <1>2, <1>3 DEF WrapTypes, LifeTypes, Life, Before, lifeVars
<1>7. \A q \in Objects : Exists(q)' = Exists(q)
  BY <1>2 DEF Exists
<1>8. Pool'
  <2>1. (\A j, k \in DOMAIN available : available[j] = available[k] => j = k)'
    BY <1>5 DEF Pool
  <2>2. (/\ \A q, r \in Objects : (Exists(q) /\ Exists(r) /\ object[q].w = object[r].w) => q = r
         /\ \A q \in Objects, k \in DOMAIN available : Exists(q) => object[q].w # available[k])'
    BY <1>2, <1>5, <1>7 DEF Pool
  <2>3. ASSUME NEW x \in Wrappers
        PROVE  \/ x \in leaked'
               \/ \E k \in DOMAIN available' : available'[k] = x
               \/ \E q \in Objects : Exists(q)' /\ object'[q].w = x
    <3>1. CASE x = w
      BY <1>2, <3>1
    <3>2. CASE x # w
      BY <1>1, <1>2, <1>7, <3>2 DEF Pool
    <3> QED BY <3>1, <3>2
  <2>4. (/\ \A k \in DOMAIN available : available[k] \notin leaked
         /\ \A q \in Objects : Exists(q) => object[q].w \notin leaked)'
    BY <1>2, <1>4, <1>5, <1>7 DEF Pool
  <2> QED BY <2>1, <2>2, <2>3, <2>4 DEF Pool
<1>9. Homes'
  <2>1. (\A k \in DOMAIN available : dynamic[available[k]] = Nowhere)'
    BY <1>2, <1>5 DEF Homes
  <2>2. \A q \in Objects : Exists(q) => target'[object[q].w] = target[object[q].w]
    BY <1>2, <1>4 DEF WrapTypes
  <2> QED BY <1>2, <1>7, <2>1, <2>2 DEF Homes, Before, lifeVars
<1>10. Waiting' /\ ~stray'
  BY <1>2 DEF Waiting, lifeVars
<1> QED BY <1>6, <1>8, <1>9, <1>10

(* setWrapper: the object's wrapper gets a function of that very object.   *)
LEMMA SetPreserves ==
  ASSUME IInv, NEW o \in Objects, user = Idle, SetWrapper(o), UNCHANGED lifeVars
  PROVE  IInv'
<1> USE DEF IInv
<1>1. /\ Exists(o) /\ dynamic' = [dynamic EXCEPT ![object[o].w] = o]
      /\ UNCHANGED <<available, target, leaked, object, slot, queue, user, th, stray>>
  BY DEF SetWrapper, Exists
<1>2. object[o].w \in Wrappers
  BY <1>1 DEF WrapTypes, WrappedFunctions, Exists
<1>3. WrapTypes' /\ LifeTypes' /\ Life' /\ Pool'
  BY <1>1, <1>2 DEF WrapTypes, LifeTypes, Life, Before, Pool, Exists, lifeVars
<1>4. Homes'
  <2>1. (\A k \in DOMAIN available : dynamic[available[k]] = Nowhere)'
    BY <1>1 DEF Homes, Pool, WrapTypes
  <2>2. \A q \in Objects : Exists(q) => dynamic'[object[q].w] \in {Nowhere, q}
    <3> SUFFICES ASSUME NEW q \in Objects, Exists(q)
                 PROVE  dynamic'[object[q].w] \in {Nowhere, q}
      OBVIOUS
    <3>1. CASE q = o
      BY <1>1, <1>2, <3>1 DEF WrapTypes
    <3>2. CASE q # o
      <4>1. object[q].w # object[o].w
        BY <1>1, <3>2 DEF Pool
      <4> QED BY <1>1, <4>1 DEF Homes, WrapTypes
    <3> QED BY <3>1, <3>2
  <2> QED BY <1>1, <2>1, <2>2 DEF Homes, Exists, Before, lifeVars
<1>5. Waiting' /\ ~stray'
  BY <1>1 DEF Waiting, lifeVars
<1> QED BY <1>3, <1>4, <1>5

(* What wrapping and the destructor write is a value for a slot.           *)
LEMMA ValueTypes ==
  ASSUME WrapTypes, NEW o \in Objects, Exists(o), NEW active
  PROVE  /\ object[o] \in WrappedFunctions /\ object[o].w \in Wrappers
         /\ ValueFor(o, active) \in {Wrap(object[o].w), target[object[o].w]}
         /\ [object |-> o, value |-> ValueFor(o, active)] \in Writes
         /\ o[1] \in Programs
<1>1. object[o] \in WrappedFunctions /\ object[o].w \in Wrappers /\ o[1] \in Programs
  BY DEF WrapTypes, WrappedFunctions, Exists, Objects
<1>2. ValueFor(o, active) \in {Wrap(object[o].w), target[object[o].w]}
  BY DEF ValueFor
<1>3. Wrap(object[o].w) \in Values /\ target[object[o].w] \in Values
  BY <1>1 DEF Values, WrapTypes
<1> QED BY <1>1, <1>2, <1>3 DEF Writes

(* wrapping: the write is the only one of its program.                     *)
LEMMA WrappingPreserves ==
  ASSUME IInv, NEW o \in Objects, NEW active \in BOOLEAN, Ready,
         phase[o[1]] = "alive", Wrapping(o, active), UNCHANGED lifeVars
  PROVE  IInv'
<1> USE DEF IInv
<1> DEFINE p == o[1]
           write == [object |-> o, value |-> ValueFor(o, active)]
           asked == [op |-> "wrapping", object |-> o, active |-> active, result |-> "none"]
<1>1. Exists(o) /\ user = Idle /\ UNCHANGED <<poolVars, object, slot, th, stray>>
  BY DEF Wrapping, Exists, Ready
<1>2. LifeTypes' /\ Life' /\ Pool' /\ Homes' /\ ~stray'
  BY <1>1 DEF LifeTypes, Life, Before, Pool, Exists, Homes, lifeVars, poolVars
<1>3. CASE UNCHANGED <<queue, user>>
  BY <1>1, <1>2, <1>3 DEF WrapTypes, Waiting, lifeVars, poolVars
<1>4. CASE queue' = [queue EXCEPT ![p] = Append(@, write)] /\ user' = asked
  <2>1. p \in Programs /\ queue[p] = <<>> /\ write \in Writes
    BY <1>1, ValueTypes DEF Waiting
  <2>2. Append(<<>>, write) = <<write>> /\ <<write>> \in Seq(Writes)
    BY <2>1
  <2>3. queue' = [queue EXCEPT ![p] = <<write>>]
    BY <1>4, <2>1, <2>2
  <2>4. asked \in WrappingCalls /\ asked # Idle
    BY DEF WrappingCalls, Idle
  <2>5. WrapTypes'
    BY <1>1, <1>4, <2>1, <2>2, <2>3, <2>4 DEF WrapTypes, poolVars
  <2>6. WriteOf(user)' = write
    BY <1>1, <1>4 DEF WriteOf, ValueFor, poolVars
  <2>7. /\ user'.object = o /\ user'.result = "none" /\ user' # Idle
        /\ queue'[p] = <<write>> /\ Exists(o)' /\ phase' = phase
        /\ \A q \in Programs : q # p => queue'[q] = queue[q]
    BY <1>1, <1>4, <2>1, <2>3, <2>4 DEF WrapTypes, Exists, lifeVars
  <2>8. Waiting'
    BY <1>1, <2>6, <2>7 DEF Waiting, Ready
  <2> QED BY <1>2, <2>5, <2>8
<1> QED BY <1>3, <1>4 DEF Wrapping, Write

(* wrapping returns once its write has run.                                *)
LEMMA UserPreserves ==
  ASSUME IInv, UserWaits
  PROVE  IInv'
<1> USE DEF IInv
<1>1. /\ user \in WrappingCalls /\ user # Idle /\ user.result # "none" /\ user' = Idle
      /\ UNCHANGED <<poolVars, object, slot, queue, th, stray, lifeVars>>
  BY DEF UserWaits, WrappingReturns, WrappingReturnsWhen, Idle, WrapTypes, WrappingCalls
<1>2. LifeTypes' /\ Life' /\ Pool' /\ Homes' /\ ~stray' /\ WrapTypes'
  BY <1>1 DEF LifeTypes, Life, Before, Pool, Exists, Homes, lifeVars, poolVars, WrapTypes
<1>3. Waiting'
  BY <1>1 DEF Waiting, lifeVars
<1> QED BY <1>2, <1>3

(* The Tracer runs a write: that of the call which waits, or, the thread   *)
(* being dead by then, one of the destructor's, which fails.               *)
LEMMA TracerPreserves ==
  ASSUME IInv, NEW p \in Programs, TracerRuns(p)
  PROVE  IInv'
<1> USE DEF IInv
<1>1. /\ queue[p] # <<>> /\ queue' = [queue EXCEPT ![p] = Tail(@)]
      /\ UNCHANGED <<poolVars, object, th, stray, lifeVars>>
  BY DEF TracerRuns, RunWrite
<1>2. LifeTypes' /\ Life' /\ Pool' /\ ~stray'
  BY <1>1 DEF LifeTypes, Life, Before, Pool, Exists, lifeVars, poolVars
<1>3. queue' \in [Programs -> Seq(Writes)]
  BY <1>1 DEF WrapTypes
<1>4. CASE user # Idle /\ user.object[1] = p
  <2> DEFINE o == user.object
             res == IF th[p] # "dead" THEN "ok" ELSE "failed"
  <2>1. user \in WrappingCalls /\ o \in Objects /\ user.op = "wrapping" /\ Exists(o)
    BY <1>4 DEF WrapTypes, WrappingCalls, Waiting
  <2>2. user.result = "none" /\ queue[p] = <<WriteOf(user)>>
    BY <1>1, <1>4 DEF Waiting
  <2>3. Head(queue[p]) = WriteOf(user) /\ Len(queue[p]) = 1 /\ Tail(queue[p]) = <<>>
    BY <2>2
  <2>4. WriteOf(user).object = o /\ WriteOf(user).value = ValueFor(o, user.active)
    BY DEF WriteOf
  <2>5. /\ slot' = IF th[p] # "dead" THEN [slot EXCEPT ![o] = ValueFor(o, user.active)]
                                     ELSE slot
        /\ user' = [user EXCEPT !.result = res]
    BY <1>4, <2>1, <2>3, <2>4 DEF TracerRuns, RunWrite
  <2>6. /\ ValueFor(o, user.active) \in {Wrap(object[o].w), target[object[o].w]}
        /\ ValueFor(o, user.active) \in Values
    BY <2>1, ValueTypes DEF Writes
  <2>7. /\ user' \in WrappingCalls /\ user'.object = o /\ user'.active = user.active
        /\ user'.result = res /\ res # "none"
    BY <2>1, <2>5 DEF WrappingCalls
  <2>8. WrapTypes'
    BY <1>1, <1>3, <2>1, <2>5, <2>6, <2>7 DEF WrapTypes, poolVars
  <2>9. Homes'
    BY <1>1, <2>1, <2>5, <2>6 DEF Homes, Exists, Before, poolVars, lifeVars, WrapTypes
  <2>10. user' # Idle
    BY <2>7 DEF WrappingCalls, Idle
  <2>11. ValueFor(o, user.active)' = ValueFor(o, user.active)
    BY <1>1, <2>7 DEF ValueFor, poolVars
  <2>12. queue'[p] = <<>> /\ \A q \in Programs : q # p => queue'[q] = queue[q]
    BY <1>1, <2>3 DEF WrapTypes
  <2>13. Waiting'
    <3>1. \A q \in Programs : phase'[q] \in {"none", "alive", "gone"}
      BY <1>1, <1>4 DEF Waiting, lifeVars
    <3>2. phase'[p] = "alive" /\ Exists(o)'
      BY <1>1, <1>4, <2>1, <2>7 DEF Waiting, lifeVars, Exists
    <3>3. res = "ok" => slot'[o] = ValueFor(o, user.active)
      BY <2>1, <2>5 DEF WrapTypes
    <3>4. \A q \in Programs : queue'[q] = <<>>
      <4>1. \A q \in Programs : phase[q] \notin {"functions", "tracer"}
        BY <1>4 DEF Waiting
      <4> QED BY <1>4, <2>12, <4>1 DEF Waiting
    <3> QED BY <1>4, <2>7, <2>10, <2>11, <3>1, <3>2, <3>3, <3>4 DEF Waiting
  <2> QED BY <1>2, <2>8, <2>9, <2>13
<1>5. CASE ~(user # Idle /\ user.object[1] = p)
  <2>1. phase[p] \in {"functions", "tracer"}
    BY <1>1, <1>5 DEF Waiting
  <2>2. th[p] = "dead"
    BY <2>1 DEF Life, Before
  <2>3. user = Idle
    BY <2>1 DEF Waiting
  <2>4. slot' = slot /\ user' = user
    BY <2>2, <2>3 DEF TracerRuns, RunWrite, Idle
  <2>5. WrapTypes'
    BY <1>1, <1>3, <2>4 DEF WrapTypes, poolVars
  <2>6. Homes'
    BY <1>1, <2>4 DEF Homes, Exists, Before, poolVars, lifeVars
  <2>7. Waiting'
    BY <1>1, <2>1, <2>3, <2>4 DEF Waiting, lifeVars, WrapTypes
  <2> QED BY <1>2, <2>5, <2>6, <2>7
<1> QED BY <1>4, <1>5

(* ~WrappedFunction, first half: the slot is to be restored.               *)
LEMMA RestorePreserves ==
  ASSUME IInv, NEW o \in Objects, phase[o[1]] = "functions", RestoreSlot(o),
         UNCHANGED lifeVars
  PROVE  IInv'
<1> USE DEF IInv
<1> DEFINE p == o[1]
           write == [object |-> o, value |-> ValueFor(o, FALSE)]
<1>1. /\ Exists(o) /\ object' = [object EXCEPT ![o].ending = TRUE]
      /\ UNCHANGED <<poolVars, slot, user, th, stray, lifeVars>>
  BY DEF RestoreSlot, Exists
<1>2. p \in Programs /\ write \in Writes /\ object[o] \in WrappedFunctions
  BY <1>1, ValueTypes
<1>3. queue' = queue \/ queue' = [queue EXCEPT ![p] = Append(@, write)]
  BY DEF RestoreSlot, Write
<1>4. \A q \in Programs : q # p => queue'[q] = queue[q]
  BY <1>3 DEF WrapTypes
<1>5. user = Idle
  BY <1>2 DEF Waiting
<1>6. object'[o] \in WrappedFunctions /\ object'[o].w = object[o].w
        /\ object'[o].lookup = object[o].lookup
  BY <1>1, <1>2 DEF WrapTypes, WrappedFunctions
<1>7. \A q \in Objects : Exists(q)' = Exists(q)
  BY <1>1, <1>6, WrappersAssumption DEF Exists, WrapTypes
<1>8. \A q \in Objects : Exists(q) => object'[q].w = object[q].w
                                      /\ object'[q].lookup = object[q].lookup
  BY <1>1, <1>6 DEF WrapTypes
<1>9. WrapTypes'
  <2> HIDE DEF write, p
  <2>1. queue' \in [Programs -> Seq(Writes)]
    <3>1. queue[p] \in Seq(Writes)
      BY <1>2 DEF WrapTypes
    <3>2. Append(queue[p], write) \in Seq(Writes)
      BY <1>2, <3>1
    <3> QED BY <1>2, <1>3, <3>2 DEF WrapTypes
  <2>2. object' \in [Objects -> WrappedFunctions \cup {Nowhere}]
    BY <1>1, <1>6 DEF WrapTypes
  <2> QED BY <1>1, <2>1, <2>2 DEF WrapTypes, poolVars
<1>10. LifeTypes' /\ Life' /\ ~stray'
  BY <1>1 DEF LifeTypes, Life, Before, lifeVars
<1>11. Pool'
  BY <1>1, <1>7, <1>8 DEF Pool, poolVars
<1>12. Homes'
  BY <1>1, <1>7, <1>8 DEF Homes, Before, poolVars, lifeVars
<1>13. Waiting'
  BY <1>1, <1>4, <1>5 DEF Waiting, lifeVars
<1> QED BY <1>9, <1>10, <1>11, <1>12, <1>13

(* ~WrappedFunction, second half: the wrapper, empty, goes back.           *)
LEMMA ReleasePreserves ==
  ASSUME IInv, NEW o \in Objects, phase[o[1]] = "functions", ReleaseWrapper(o),
         UNCHANGED lifeVars
  PROVE  IInv'
<1> USE WrappersAssumption DEF IInv
<1> DEFINE w == object[o].w
<1>1. /\ Exists(o) /\ dynamic' = [dynamic EXCEPT ![w] = Nowhere]
      /\ available' = Append(available, w) /\ object' = [object EXCEPT ![o] = Nowhere]
      /\ UNCHANGED <<target, leaked, slot, queue, user, th, stray, lifeVars>>
  BY DEF ReleaseWrapper, ReleaseTo, Exists
<1>2. o[1] \in Programs /\ w \in Wrappers /\ available \in Seq(Wrappers)
  BY <1>1, ValueTypes DEF WrapTypes
<1>3. user = Idle
  BY <1>2 DEF Waiting
<1>4. /\ DOMAIN available' = DOMAIN available \cup {Len(available) + 1}
      /\ available'[Len(available) + 1] = w
      /\ \A k \in DOMAIN available : available'[k] = available[k]
  BY <1>1, <1>2
<1>5. \A q \in Objects : /\ Exists(q)' <=> (q # o /\ Exists(q))
                         /\ q # o => object'[q] = object[q]
  BY <1>1 DEF Exists, WrapTypes
<1>6. \A q \in Objects : q # o /\ Exists(q) => object[q].w # w
  BY <1>1 DEF Pool
<1>7. w \notin leaked /\ \A k \in DOMAIN available : available[k] # w
  BY <1>1 DEF Pool
<1> HIDE DEF w
<1>8. WrapTypes' /\ LifeTypes' /\ Life' /\ ~stray'
  BY <1>1, <1>2 DEF WrapTypes, LifeTypes, Life, Before, lifeVars
<1>9. Pool'
  <2>1. (\A j, k \in DOMAIN available : available[j] = available[k] => j = k)'
    BY <1>4, <1>7 DEF Pool
  <2>2. (\A q, r \in Objects : (Exists(q) /\ Exists(r) /\ object[q].w = object[r].w) => q = r)'
    BY <1>5 DEF Pool
  <2>3. (\A q \in Objects, k \in DOMAIN available : Exists(q) => object[q].w # available[k])'
    BY <1>4, <1>5, <1>6 DEF Pool
  <2>4. ASSUME NEW x \in Wrappers
        PROVE  \/ x \in leaked'
               \/ \E k \in DOMAIN available' : available'[k] = x
               \/ \E q \in Objects : Exists(q)' /\ object'[q].w = x
    BY <1>1, <1>4, <1>5 DEF Pool, w
  <2>5. (/\ \A k \in DOMAIN available : available[k] \notin leaked
         /\ \A q \in Objects : Exists(q) => object[q].w \notin leaked)'
    BY <1>1, <1>4, <1>5, <1>7 DEF Pool
  <2> QED BY <2>1, <2>2, <2>3, <2>4, <2>5 DEF Pool
<1>10. Homes'
  <2>1. (\A k \in DOMAIN available : dynamic[available[k]] = Nowhere)'
    BY <1>1, <1>2, <1>4, <1>7 DEF Homes, WrapTypes
  <2>2. \A q \in Objects : Exists(q)' => dynamic'[object'[q].w] = dynamic[object[q].w]
    BY <1>1, <1>5, <1>6 DEF WrapTypes
  <2>3. ASSUME NEW q \in Objects, Exists(q)'
        PROVE  /\ target'[object'[q].w] =
                    IF object'[q].lookup = "noFunction" THEN Null ELSE Fun(q[1])
               /\ dynamic'[object'[q].w] \in {Nowhere, q}
    BY <1>1, <1>5, <2>2, <2>3 DEF Homes
  <2>4. ASSUME NEW q \in Objects, Before(q[1])'
        PROVE  \/ slot'[q] = Fun(q[1])
               \/ Exists(q)' /\ slot'[q] \in {Wrap(object'[q].w), target'[object'[q].w]}
    <3>1. Before(q[1]) /\ q # o
      BY <1>1, <2>4 DEF Before, lifeVars
    <3> QED BY <1>1, <1>5, <3>1 DEF Homes
  <2> QED BY <2>1, <2>3, <2>4 DEF Homes
<1>11. Waiting'
  BY <1>1, <1>3 DEF Waiting, lifeVars
<1> QED BY <1>8, <1>9, <1>10, <1>11

(* A call of the program's thread: its program has yet to be destroyed.    *)
LEMMA CallsPreserve ==
  ASSUME IInv, NEW p \in Programs, ProgramCalls(p)
  PROVE  IInv'
<1> USE WrappersAssumption DEF IInv
<1>1. UNCHANGED <<poolVars, object, slot, queue, user, th, lifeVars>>
  BY DEF ProgramCalls, CallDirect, EnterWrapper, LeaveWrapper
<1>2. stray' = FALSE
  <2>1. CASE LeaveWrapper(p)
    BY <2>1 DEF LeaveWrapper
  <2>2. ASSUME NEW b \in Bins, CallDirect(<<p, b>>) \/ EnterWrapper(<<p, b>>)
        PROVE  stray' = FALSE
    <3> DEFINE o == <<p, b>>
    <3>1. o \in Objects /\ o[1] = p
      BY DEF Objects
    <3>2. th[p] = "running"
      BY <2>2, <3>1 DEF CallDirect, EnterWrapper
    <3>3. Before(p)
      BY <3>2 DEF Life
    <3>4. \/ slot[o] = Fun(p)
          \/ Exists(o) /\ slot[o] \in {Wrap(object[o].w), target[object[o].w]}
      BY <3>1, <3>3 DEF Homes
    <3>5. Exists(o) => IsOwn(o, target[object[o].w])
      BY <3>1 DEF Homes, IsOwn, Exists
    <3>6. \A w \in Wrappers : Fun(p) # Wrap(w) /\ Null # Wrap(w)
      BY DEF Fun, Wrap, Null
    <3>7. \A v, w \in Wrappers : Wrap(v) = Wrap(w) => v = w
      BY DEF Wrap
    <3>8. CASE CallDirect(o)
      <4>1. \A w \in Wrappers : slot[o] # Wrap(w)
        BY <3>8 DEF CallDirect
      <4>2. Exists(o) => object[o].w \in Wrappers
        BY <3>1, ValueTypes
      <4>3. IsOwn(o, slot[o])
        BY <3>1, <3>4, <3>5, <4>1, <4>2 DEF IsOwn
      <4> QED BY <3>8, <4>3 DEF CallDirect
    <3>9. CASE EnterWrapper(o)
      <4>1. PICK w \in Wrappers :
              /\ slot[o] = Wrap(w)
              /\ stray' = (stray \/ IF dynamic[w] = Nowhere THEN ~IsOwn(o, target[w])
                                                           ELSE dynamic[w] # o)
        BY <3>9 DEF EnterWrapper
      <4>2. Exists(o) /\ object[o].w \in Wrappers
        BY <3>1, <3>4, <3>6, <4>1, ValueTypes
      <4>3. target[object[o].w] \in {Fun(p), Null}
        BY <3>1, <4>2 DEF Homes
      <4>4. w = object[o].w
        BY <3>4, <3>6, <3>7, <4>1, <4>2, <4>3
      <4>5. dynamic[w] \in {Nowhere, o} /\ IsOwn(o, target[w])
        BY <3>1, <3>5, <4>2, <4>4 DEF Homes
      <4> QED BY <4>1, <4>5
    <3> QED BY <2>2, <3>8, <3>9
  <2> QED BY <2>1, <2>2 DEF ProgramCalls
<1>3. WrapTypes' /\ LifeTypes' /\ Pool' /\ Life' /\ Homes' /\ Waiting'
  BY <1>1 DEF WrapTypes, LifeTypes, Pool, Life, Before, Homes, Waiting, WriteOf, ValueFor,
     Exists, poolVars, lifeVars
<1> QED BY <1>2, <1>3

-----------------------------------------------------------------------------
LEMMA NextIInv == IInv /\ [Next]_vars => IInv'
<1> SUFFICES ASSUME IInv, [Next]_vars PROVE IInv'
  OBVIOUS
<1>1. CASE UNCHANGED vars
  <2>1. UNCHANGED <<poolVars, object, slot, queue, user, stray, th, lifeVars>>
    BY <1>1 DEF vars, wrapVars
  <2> QED BY <2>1 DEF IInv, WrapTypes, LifeTypes, Pool, Life, Before, Homes, Waiting, WriteOf,
             ValueFor, Exists, poolVars, lifeVars
<1>2. CASE UserWaits
  BY <1>2, UserPreserves
<1>3. ASSUME NEW p \in Programs, UseWrapped(p)
      PROVE  IInv'
  <2>1. Ready /\ phase[p] = "alive" /\ user = Idle /\ UNCHANGED lifeVars
    BY <1>3 DEF UseWrapped, Ready
  <2>2. PICK b \in Bins :
          \/ \E lookup \in Lookups :
               NewWrapped(<<p, b>>, lookup) \/ NewWrappedThrows(<<p, b>>, lookup)
          \/ WrapCrashes(<<p, b>>) \/ SetWrapper(<<p, b>>)
          \/ \E active \in BOOLEAN : Wrapping(<<p, b>>, active)
    BY <1>3 DEF UseWrapped
  <2>3. <<p, b>> \in Objects /\ <<p, b>>[1] = p
    BY DEF Objects
  <2>4. CASE WrapCrashes(<<p, b>>)
    <3>1. UNCHANGED <<poolVars, object, slot, queue, user, stray, th, lifeVars>>
      BY <2>1, <2>4 DEF WrapCrashes
    <3> QED BY <3>1 DEF IInv, WrapTypes, LifeTypes, Pool, Life, Before, Homes, Waiting,
               WriteOf, ValueFor, Exists, poolVars, lifeVars
  <2> QED BY <2>1, <2>2, <2>3, <2>4, NewPreserves, ThrowsPreserve, SetPreserves, WrappingPreserves
<1>4. ASSUME NEW p \in Programs, DestroyFunctions(p)
      PROVE  IInv'
  <2>1. phase[p] = "functions" /\ UNCHANGED <<listener, event, known, callbacks, stops>>
    BY <1>4 DEF DestroyFunctions
  <2>2. ASSUME NEW b \in Bins, RestoreSlot(<<p, b>>) \/ ReleaseWrapper(<<p, b>>),
               UNCHANGED phase
        PROVE  IInv'
    <3>1. <<p, b>> \in Objects /\ <<p, b>>[1] = p
      BY DEF Objects
    <3>2. UNCHANGED lifeVars
      BY <2>1, <2>2 DEF lifeVars
    <3> QED BY <2>1, <2>2, <3>1, <3>2, RestorePreserves, ReleasePreserves
  <2>3. CASE Goto(p, "tracer") /\ UNCHANGED wrapVars
    BY <2>1, <2>3, DestructorPreserves
  <2> QED BY <1>4, <2>2, <2>3 DEF DestroyFunctions
<1> QED BY <1>1, <1>2, <1>3, <1>4, ThreadsPreserve, CallsPreserve, TracerPreserves,
           DestructorPreserves DEF Next, Destructor

LEMMA Inductive == Spec => []IInv
BY InitIInv, NextIInv, PTL DEF Spec

(* getWrapper and releaseWrapper, called by whatever programs there are,   *)
(* neither lose a wrapper nor give one to two WrappedFunctions; only the   *)
(* wrapper that a throwing constructor took is lost, and is never used     *)
(* again.                                                                  *)
THEOREM PoolStaysExact == Spec => []PoolExact
<1>1. IInv => PoolExact
  <2> SUFFICES ASSUME IInv, NEW w \in Wrappers
               PROVE  Cardinality({k \in DOMAIN available : available[k] = w})
                        + Cardinality({o \in Objects : Exists(o) /\ object[o].w = w})
                        = IF w \in leaked THEN 0 ELSE 1
    BY DEF PoolExact, Exists
  <2> DEFINE free == {k \in DOMAIN available : available[k] = w}
             owners == {o \in Objects : Exists(o) /\ object[o].w = w}
  <2>1. w \in leaked => (free = {} /\ owners = {})
    BY DEF IInv, Pool
  <2>2. ASSUME w \notin leaked
        PROVE  \/ free = {} /\ \E o \in Objects : owners = {o}
               \/ owners = {} /\ \E k \in DOMAIN available : free = {k}
    <3>1. ASSUME NEW k \in DOMAIN available, available[k] = w
          PROVE  free = {k} /\ owners = {}
      BY <3>1 DEF IInv, Pool
    <3>2. ASSUME ~\E k \in DOMAIN available : available[k] = w
          PROVE  free = {} /\ \E o \in Objects : owners = {o}
      <4>1. PICK o \in Objects : Exists(o) /\ object[o].w = w
        BY <2>2, <3>2 DEF IInv, Pool
      <4>2. owners = {o} /\ free = {}
        BY <3>2, <4>1 DEF IInv, Pool
      <4> QED BY <4>2
    <3> HIDE DEF free, owners
    <3>3. CASE \E k \in DOMAIN available : available[k] = w
      BY <3>1, <3>3
    <3> QED BY <3>2, <3>3
  <2> HIDE DEF free, owners
  <2>3. Cardinality(free) + Cardinality(owners) = IF w \in leaked THEN 0 ELSE 1
    <3>1. Cardinality({}) = 0 /\ \A x : Cardinality({x}) = 1
      BY FS_Singleton, FS_EmptySet
    <3>2. IF w \in leaked THEN Cardinality(free) = 0 /\ Cardinality(owners) = 0
          ELSE \/ Cardinality(free) = 0 /\ Cardinality(owners) = 1
               \/ Cardinality(owners) = 0 /\ Cardinality(free) = 1
      BY <2>1, <2>2, <3>1
    <3> QED BY <3>2
  <2> QED BY <2>3 DEF free, owners
<1> QED BY <1>1, Inductive, PTL

(* No call through a slot reaches another program's function or wrapper,   *)
(* however wrappers pass from one program to the next.                     *)
THEOREM CallsAlwaysStayHome == Spec => []CallsStayHome
<1>1. IInv => CallsStayHome
  BY DEF IInv, CallsStayHome
<1> QED BY <1>1, Inductive, PTL

(* wrapping returns with the slot as asked, unless its write failed.       *)
THEOREM WrappingAlwaysDone == Spec => WrappingIsDone
<1>1. ASSUME IInv, [Next]_vars, user.op = "wrapping", user' = Idle
      PROVE  user \in WrappingCalls /\ user # Idle /\ user.result # "none"
  <2>1. user \in WrappingCalls /\ user # Idle
    BY <1>1 DEF IInv, WrapTypes, Idle
  <2>2. CASE UserWaits
    BY <2>1, <2>2 DEF UserWaits, WrappingReturns, WrappingReturnsWhen
  <2>3. ASSUME NEW p \in Programs, TracerRuns(p)
        PROVE  FALSE
    <3>1. user' = user \/ \E r : user' = [user EXCEPT !.result = r]
      BY <2>3 DEF TracerRuns, RunWrite
    <3>2. user'.op = "wrapping"
      BY <2>1, <3>1 DEF WrappingCalls
    <3> QED BY <1>1, <3>2 DEF Idle
  <2>4. ~Ready /\ user' # user
    BY <1>1, <2>1 DEF Ready
  <2>5. CASE UNCHANGED vars
    BY <2>4, <2>5 DEF vars, wrapVars
  <2>6. ASSUME NEW p \in Programs,
               \/ Construct(p) \/ StartListener(p) \/ ResumeProgram(p) \/ UseWrapped(p)
               \/ DestroyBegins(p)
        PROVE  FALSE
    BY <2>4, <2>6 DEF Construct, StartListener, ResumeProgram, UseWrapped, DestroyBegins
  <2>7. ASSUME NEW p \in Programs,
               \/ ThreadStops(p) \/ ProgramExits(p) \/ ProgramCalls(p) \/ Listen(p)
               \/ RunCallback(p) \/ Destructor(p)
        PROVE  user' = user
    <3>1. CASE ThreadStops(p) \/ ProgramExits(p) \/ RunCallback(p)
      BY <3>1 DEF ThreadStops, ProgramExits, RunCallback
    <3>2. CASE ProgramCalls(p)
      BY <3>2 DEF ProgramCalls, CallDirect, EnterWrapper, LeaveWrapper
    <3>3. CASE Listen(p)
      BY <3>3 DEF Listen, ListenerEnds, NewThread, ThreadEvent, wrapVars
    <3>4. CASE Destructor(p)
      BY <3>4 DEF Destructor, Clear, ClearThen, Join, DestroyFunctions, RestoreSlot,
         ReleaseWrapper, ReleaseTo, DestroyTracer, DestroyCallbacks, wrapVars
    <3> QED BY <2>7, <3>1, <3>2, <3>3, <3>4
  <2> QED BY <1>1, <2>1, <2>2, <2>3, <2>4, <2>5, <2>6, <2>7 DEF Next
<1>2. IInv /\ [Next]_vars =>
        [(user.op = "wrapping" /\ user' = Idle /\ user.result # "failed") =>
           slot[user.object] = ValueFor(user.object, user.active)]_wrapVars
  BY <1>1 DEF IInv, Waiting, WrappingCalls
<1> QED BY <1>2, Inductive, PTL DEF Spec, WrappingIsDone
=============================================================================
