# A TLA+ model of SpyTester

SpyTester runs a program inside the process of its tester: the program is loaded
into a dynamic-linker namespace of its own, its threads are traced with ptrace,
and the tester puts breakpoints and watchpoints on them, wraps their functions
and calls the program's libraries through its own symbols.  This directory models
the concurrent and the stateful parts of that code, model-checks them with TLC
and proves some of the results with TLAPS.

## 1. Inventory

| Component | State | Operations | Interacts with |
|---|---|---|---|
| `CallbackHandler` | queue of callbacks, mutex, semaphore, `_running`, one thread | `executeCallback`, the loop `handleCallback`, destructor | every user callback runs in its thread |
| `Tracer` | queue of commands, mutex, semaphore, `_state`, one thread, the starter process | `startTracing`, `commandPTrace`, `tkill`, `writeWord`, the loop `trace`, destructor | the only thread that may use ptrace; answers through futures |
| `SpiedThread` | `_state` with mutex and condition variable, register cache (`_regSync`, `_regs`, `_dr6`, two futures), `_isSigTrapExpected`, four watchpoints | `resume`, `singleStep`, `stop`, `terminate`, `getRip`, `jump`, `setDr6`, `backtrace`, `handleEvent`, `createWatchPoint`, `deleteWatchPoint` | called by the listener, by callbacks and by the tester's threads; queues commands |
| `BreakPoint` | a word of code, its backup, `_isSet` | `set`, `unset`, `hit`, `resumeAndSet`, `resumeAndUnset` | Tracer (writes that nobody waits for), SpiedThread, CallbackHandler |
| `WatchPoint` | a slot of DR7 and a debug address register | `set`, `unset`, `hit` | Tracer, SpiedThread |
| `WrappedFunction` | a static pool of wrappers per function, a slot per program and binary | constructor, `setWrapper`, `wrapping`, calls through the static wrapper, destructor | Tracer; all programs share the pool |
| `SpiedProgram` | vectors of threads and breakpoints, the map of wrapped functions, the listener thread | constructor, `start`, `listenEvent`, `resume`, `stop`, `terminate`, `wrapFunction`, `relink`, destructor | owns everything above |
| `Relinkage`, `DynamicModule` | slots of global offset tables, saved values, registrations in both directions | `relink`, `unrelink`, `invalidate`, destructors, symbol lookups | `SpiedProgram::relink`, `ElfFile` |
| `ElfFile` | the map of open files, the tables read on demand | `getElfFile`, constructor, six getters | `DynamicModule`'s lookups |
| `DynamicNamespace`, `SpyLoader` | the pool of namespace ids, the vectors of wrapped libpthread functions, the key mutex | `createSpiedNamespaces`, `reserveNamespaceId`, `releaseNamespaceId`, `pthreadKeyCreate`, `pthreadKeyDelete` | `SpiedProgram`, every thread of every namespace |
| Program start | the stack of the program's main thread | `createMainThread`, `loadExecutable`, `start`; the same again in `Loader.cpp` | Tracer's starter, `DynamicModule` |
| `Logger`, `Meta` | none that changes | print; a compile-time loop | |

Four threads of the tester meet on one traced thread: the listener (waitpid), the
Tracer's (ptrace), the callbacks' and the tester's own.  What is hard is there:
a stop that arrives in the middle of a `resume`, a register cache filled by a
future, words of code and debug registers changed by commands nobody waits for,
two service threads that sleep on semaphores and are joined by destructors.  The
other half of the difficulty is in undoing things: relinkages, wrapped functions,
thread keys, namespace ids, open files, each with steps that fail half-way.
`PROJECT.json` lists every hazard with its line and the properties aimed at it.

What makes the components correct:

- the service threads run each job once, one at a time, in submission order, never
  sleep on a queued job, and can be joined;
- a `SpiedThread`'s recorded state agrees with the thread once everything is quiet,
  its registers are those of the current stop, a `jump` is not lost, calls return,
  and no stop leaves the thread with nobody to resume it;
- a breakpoint puts back the instruction it replaced and sends the thread back to
  it; the debug registers watch what was asked;
- a wrapper belongs to one function of one program, calls stay in their program,
  and a program can be destroyed whatever its threads are doing;
- a relinked slot points into a live library, and goes back to its value;
- a thread key means the same in every namespace; a namespace has one owner;
- a symbol search finds what the file holds; the program is entered with the stack
  a new process has.

## 2. Modules

| Module | Models |
|---|---|
| `FifoExecutor` | abstract: jobs run once, one at a time, in order |
| `CallbackHandler` | `CallbackHandler.{h,cpp}`; implements `FifoExecutor` |
| `Tracer` | `Tracer.{h,cpp}`; implements `FifoExecutor` |
| `PtraceThread` | external: one traced thread as the kernel shows it to its tracer |
| `SpiedThread` | `SpiedThread.{h,cpp}` and `SpiedProgram::listenEvent`, on top of `PtraceThread` |
| `BreakPoint` (`MCBreakPoint`) | `Breakpoint.{h,cpp}` on top of `SpiedThread`: the composition that the runs check |
| `WatchPoint` (`MCWatchPoint`) | `WatchPoint.{h,cpp}`, `createWatchPoint`, `deleteWatchPoint` |
| `WrappedFunction` | `WrappedFunction.h` for one function and several programs |
| `SpiedProgram` | `SpiedProgram.{h,cpp}`: the life of programs, on top of `WrappedFunction` |
| `Relinkage` (`MCRelinkage`) | `Relinkage.cpp`, `DynamicModule::relink/unrelink/~DynamicModule`, `SpiedProgram::relink` |
| `ThreadKeys` (`MCThreadKeys`) | `pthreadKeyCreate`, `pthreadKeyDelete` |
| `SpyLoader` | `createSpiedNamespaces`, the id pool, construction and destruction of `DynamicNamespace` |
| `ElfFile` | `ElfFile.cpp` and the searches of `DynamicModule.cpp` |
| `ProgramStart` | `createMainThread`, `loadExecutable`, `start` (`DynamicNamespace.cpp`) and their twins in `Loader.cpp` |
| `Launch` (`MCLaunch`) | composes `ElfFile` and `ProgramStart`: the main thread opens its executable and takes the entry point from it |
| `BreakPointScripts` | what the theorems about `SpiedThread` and `BreakPoint` ask of the scripts |
| `CallbackHandlerProofs`, `TracerProofs`, `BreakPointProofs`, `WatchPointProofs`, `SpiedProgramProofs`, `RelinkageProofs`, `SpyLoaderProofs`, `LaunchProofs` | the theorems about the module of that name, and about the modules it extends; `SpyLoaderProofs` also those about `ThreadKeys` |

How they read:

- **CallbackHandler, Tracer.** One action per access to shared state: the mutex, the
  queue, the semaphore, the flag.  A job is its caller and the number of the call.
  `pushed`, `begun`, `ended` and `late` are history variables, on which the
  refinement of `FifoExecutor` and the statement about lost jobs rest.  The two
  loops differ and the models keep it: the callback thread pops before it runs, the
  Tracer afterwards; the callback thread tests its flag after draining, the Tracer
  before waiting; a failed `sem_wait` ends the former and merely wakes the latter.
- **SpiedThread, BreakPoint.** `todo[a]` is the list of instructions actor `a` has
  still to execute; calling a method prepends the method's instructions (`Resume`,
  `SingleStep`, `ResumeAndSet`, ...).  An instruction is a critical section of the
  recursive `_stateMutex`, or an access made outside of it.  The Tracer is here only
  its FIFO of commands, which is what `Tracer` is shown to implement.  What callbacks
  and the tester do is a constant: the set of scripts they choose from, taken from
  the repository's tests.  The word at the breakpoint is `insn` or `int3`: the tester
  reads it at once, the Tracer writes it when the command's turn comes.  Four history
  variables say when a stop was recorded inside someone else's `resume`
  or a report of WCONTINUED recorded over it (`overtaken`), a request ended a stop not
  yet handled (`premature`), a hit had no watch trap behind it (`spurious`), and where
  a jump was to lead (`aim`).
- **PtraceThread.** Not code of the repository: the stops, the events `waitpid`
  reports once, the requests that fail with ESRCH on a thread that is not stopped.
  Among the stops is the SIGSTOP that a thread raises on itself, as every main thread
  does (`DynamicNamespace.cpp` 100); among the events is WCONTINUED, which may be
  reported at any time, of a stopped thread too.
- **WatchPoint.** DR7 is the set of its bits that are 1, and a shift is that of an
  `int`: bit 31 spreads over the upper half.  Each request that `set` and `unset` queue,
  each wait for an answer and each assignment of `_addr` and `_isSet` is a step, `at`
  says which is next, and the Tracer and other threads come between any two.  The
  kernel may refuse an address or a DR7; the code reads the answer to `PEEKUSER` only.
  `want` and `fresh` are history: what the last call that read and wrote DR7 without
  another's write in between asked of each slot, unknown when a request was refused.
  `mixed` is history too: the objects on which two calls have overlapped.
- **WrappedFunction, SpiedProgram.** The pool is a stack of wrappers, as the vector
  is; a program's thread calls through the slot whenever it runs, holding
  `wrapperMutex` while it is inside.  The exceptions that the constructor makes itself
  are built and not thrown, so construction goes on without the function or the slot;
  those of loading the binary and of reading its relocations are thrown, with the
  wrapper taken and no object to give it back (`NewWrappedThrows`).  `leaked` is
  history: the wrappers lost that way.  What is undefined behaviour (the last element
  of an empty vector, a missing module, a callback on a freed `SpiedThread`, the join of
  a thread never started) sets `crash` and ends the behaviour.  `phase` follows `~SpiedProgram` and then the members'
  destructors in the reverse order of their declaration.  Handling an event is
  abstracted to its outcomes: a callback, a resumption, or neither.
- **Relinkage.** Addresses are words; a slot holds `Orig` or the library object it
  points into; the relocations of a relinkage are a function from its slots.  All of
  this runs in one thread, and destructors call each other in sequence: `loop` is the
  place where that thread is, and an operation that goes through modules is one step
  for each, `relink` one for the old relinkage and one for the new.  It may end
  half-way, before a module or after that module's old relinkage is gone.  A
  write to a page that is not writable, or a call on a destroyed module, sets `crash`,
  after which nothing happens.  Both are reached: `mprotect` is not given every page
  (section 3); an unloaded library's invalid relinkages stay in their sources, and
  their removal calls the destroyed module.
- **ThreadKeys.** A libpthread is the set of its keys and answers the first free
  one.  The loop over the namespaces is one action per namespace.
- **SpyLoader.** The temporaries of `createSpiedNamespaces` and the programs are the
  owners of ids.  `leaked` is a history variable: ids whose constructor threw before
  it could release them.  With an empty pool a program is built in its caller's
  namespace, which is what glibc makes of -2 (`ConstructUnpooled`).
- **ElfFile.** A file is a sequence of sections; a table is the list of the sections
  read into it, 0 for one that was made room for and not read.  Every system call may
  fail.  `tainted` is history: the tables that a failed read left behind.
- **ProgramStart.** `sp` counts words, `mem` is the memory below the stack pointer
  that `start` found; each loop iteration is a step.

Definitions whose comment begins with `Mutant:` are not part of a specification.
Each is a plausible error in the definition that follows it, used to show that a
property notices it.

## 3. Runs

| Run | Checks | Bounds |
|---|---|---|
| `callbacks` | `NoLostWakeup`, `LostOnlyInExitWindow`, refinement of `FifoExecutor`, callbacks run, the destructor returns | one client and the worker itself, three calls each; `sem_wait` may be interrupted and the destructor may come at any moment |
| `tracer` | `NoLostWakeup`, `PopsWhatItRan`, `LostOnlyInExitWindow`, refinement, futures and `startTracing` are answered, the destructor returns unless its `STOPPED` is overwritten | two clients, one outliving the Tracer, two commands each, one interruption |
| `breakpoints` | only callbacks drive the thread: stops recorded, no concurrent get, real hits, never stranded but for SIGSEGV and SIGSTOP, back to the breakpoint, fresh registers, jumps take effect | six stops, all reasons, reports of WCONTINUED, two watchpoints; callbacks leave a breakpoint by `resumeAndUnset`; states after an overtaken stop are not extended |
| `thread_users` | `RunsRecorded`, `BackupIsCode`, `CallsReturn`: a tester's thread stops and resumes, steps or terminates against the listener and `resumeAndSet` | three stops, one call of the user |
| `resume_and_set` | violation: `NeverStranded` | four stops |
| `watchpoints` | the debug registers and the objects say what was asked | four slots, two threads, three calls, the thread's objects and self-made ones of the last slot, two addresses; the traced thread may run once meanwhile; users and addresses are interchangeable (symmetry) |
| `program` | the pool of wrappers, calls stay home, `wrapping` is done when it returns, `~SpiedProgram` returns | two programs, one wrapper, one stop after the first; any constructor may throw |
| `relink_safety` | exact slots, exact registrations, writes fault only beyond the length given to `mprotect` | two modules, two libraries with disjoint names, each loaded twice |
| `relink_protection` | violation: `ProtectionRestored` | the same layout, loaded once |
| `keys` | equal tables stay equal and nothing is half done; from unequal ones, success is everywhere; calls return | two threads, three namespaces, three keys; the tables start equal, or one lacks a key |
| `loader_pool` | ids wrapped once, every id in one place | three ids, three programs, two throwing constructors |
| `launch` | searches tell the truth, descriptors match files, the program is entered with an ABI stack | twenty files (ten orders of sections, with and without an entry point), six calls, two failing system calls; up to three arguments and variables, both alignments |

The bounds are the smallest in which each race has all its parties: a push in every
window of the callback thread needs a pusher besides the callback that runs, and a
second push to leave a surplus in the semaphore; one of the Tracer's clients is still
pushing while its destructor runs; an overtaken `resume` needs two stops after the
first, a breakpoint that is set, hit and left needs three, and a stop of another kind
before and after it five (`breakpoints` allows a sixth); the last watchpoint slot is the one whose shifts overflow;
one wrapper and two programs make the second program's wrapper the first one's; a key
table needs one key to be free below another that is taken (three keys) and a
namespace that is neither the first nor the last; a pool of three ids with three
programs is exhausted once a constructor has leaked one.  In the layout of
`relink_safety` the relocations of the executable span three pages, of which only the
last two were writable when it was loaded, and the highest slot of one library is the
first word of its page.  `mprotect` is not given that page (`Relinkage.cpp` 64), so the
write faults once another relinkage has closed it: a fault which `WritesPermitted`
names, and the only kind it allows.  The other library of the tester lies on a page
that is read-only from the start, and one relinkage there has a single relocation,
which is never written (line 60); `SlotsExact` names this exception.  Relocations
ascend (`SlotsAscend`), as linkers sort them within a section: otherwise line 56 computes
too short an extent, and `SlotsExact`, not `WritesPermitted`, needs it.  The libraries
define disjoint names (`NamesDisjoint`): with a name in common each saves what the other
wrote, and removing them in the order they came leaves the slot in the first one.  The
`mprotect` that closes the pages may fail there; the one that opens them may not: when
it fails nothing is exchanged although the relinkage counts as made, and removing it
then installs what it was to install.

`breakpoints` has a `CONSTRAINT`, `NotOvertaken`: TLC does not go on from a state in
which `overtaken` holds.  Each of its properties excepts those states, `HitsAreReal`
and `StopsRecorded` too, and `overtaken` holds for good once it does, so nothing that
the properties speak of is left out.

Runs that switch the deadlock check off are those in which the system may end: the
tester makes a bounded number of calls, the thread dies, startup aborts.  `keys`
checks it.

### What the violations show

- `resume_and_set`: `singleStep` waits until `_state` is `STOPPED`, which it already
  is, and returns before the step.  `resumeAndSet` puts the INT3 back and queues
  `PTRACE_CONT` while the step is still to come; the thread runs into the INT3 it was
  to step over, or the `PTRACE_CONT` fails because the thread is still stepping;
  `_isSigTrapExpected` takes the stop for that of the step, and nobody resumes the
  thread.
- `relink_protection`: "Restore memory protection" makes writable pages read-only.

### What the exceptions in the properties say

Some races and defects are stated inside properties that hold, by naming them:

- `StopsRecorded`, `NeverStranded` and others except a stop recorded between the two
  lines of `resume`, and a report of WCONTINUED recorded over a stop (`overtaken`);
  `RunsRecorded` and `HitsAreReal` a request that ended a stop the listener had yet to
  handle (`premature`).  The -1 of a failed `PEEKUSER` is met in those cases only;
- `NeverStranded`: a thread stopped by SIGSEGV or SIGSTOP, of which no callback is told;
  `BasicTest` resumes its main thread after the SIGSTOP by itself;
- `DestructorReturnsUnlessOverwritten`: the worker's `STARTING` after the destructor's
  `STOPPED` makes the join hang;
- `WatchesWhatWasAsked`: two calls that overlap, of which one writes back an old DR7,
  and calls of which a request was refused, since the thread runs or the kernel does not
  take the value;
- `ObjectsTellTheTruth`: the same, and the objects on which two calls overlapped: of a
  `set` and an `unset` at once, the one that queues its DR7 last may be the first to
  assign `_isSet`;
- `PoolExact` of `WrappedFunction`: wrappers that a throwing constructor had taken;
- `DestructorReturns` of `SpiedProgram`: a thread left stopped whose event another
  program's listener collected, or nobody acted upon; a thread that died inside a
  wrapper, whose mutex stays locked; a callback on a freed thread;
- `WritesPermitted`: slots beyond the length that `writeRelocations` computes;
- `InRelinkagesExact` and `SlotsExact`: behaviour ends at a fault, and at a call on a
  module that was destroyed;
- `SearchesTellTheTruth`: a file one of whose tables could not be read once;
- `PoolExact` of `SpyLoader`: ids that a throwing constructor leaked.

## 4. Fairness

A thread that is inside one of the modelled functions keeps being scheduled (weak
fairness of its next step); the starter process runs; timers expire.  Nobody has to
make a call, no signal has to arrive, a traced thread has to do nothing, and callers
are bounded so that an unfair mutex cannot starve anyone for ever.  `CallsReturn` of
`SpiedThread` is under that alone: the Tracer, the listener, the callback thread and
whoever is inside a method are scheduled, the traced thread is not assumed to stop.
In `ThreadKeys`, where calls are not bounded, taking the mutex is strongly fair: its
holder never blocks, and a futex mutex hands out wake-ups, but a thread can in
principle be overtaken any number of times; `CallsReturn` of that module is under this
assumption.  In `SpiedProgram` one assumption is about the spied program: it exits
when it is left running, since the listener, which the destructor joins, ends only
when there is no child left.

## 5. Proofs

All are for every value of the constants that the named assumptions allow.

- **CallbackHandlerProofs.** `TypeCorrect`; `WakeupNeverLost` (`NoLostWakeup`);
  `ImplementsFifo`; `LossOnlyAtExit` (`LostOnlyInExitWindow`).  The types need that a
  thread inside `executeCallback` has counted its call.  `NoLostWakeup` is inductive
  together with the types.  The order rests on two facts: the queue is the part of
  the pushes that has not begun, and the callbacks begun and ended differ by the one
  that runs.  For the loss, what is queued when the worker is about to test its flag,
  or has left, was pushed after it found the queue empty.
- **TracerProofs.** `TypeCorrect`, `WakeupNeverLost`, `PopsTheRightCommand`
  (`PopsWhatItRan`), `ImplementsFifo`, `LossOnlyAtExit`.  Here the queue still holds
  the running command, so the invariant that ties `pushed`, `begun` and `commands`
  depends on the worker's label, and `PopsWhatItRan` is part of it.
- **SpyLoaderProofs, on ThreadKeys.** `TypeCorrect`; `KeysStayCoherent`;
  `NothingHalfDone`.  `KeysCoherent` speaks of a free mutex only; the inductive
  invariant says that a
  thread inside its loop holds the mutex, that the tables it has passed are equal to
  each other, the ones it has not passed are equal to each other, and the two differ
  by exactly the key it is creating or deleting.  The second half gives that a later
  namespace answers the same first free key, which is well defined because the
  naturals are well founded (`FirstFreeIsFree`).  All of it is under the hypothesis
  that the tables were equal at the start, which the history variable `taken`
  remembers and no step changes (`StartStays`).
  `SuccessAlwaysEverywhere` (`SuccessIsEverywhere`) needs no such hypothesis: the
  namespaces a call has passed have its key, or lack it, whatever they began with
  (`VisitedInv`).
- **LaunchProofs.** `AbiStack` (`EntersWithAbiStack`), for any number of arguments and
  variables and any stack pointer with room below it, of `start` alone.
  The invariant gives, for every phase of `start`, the distance of `sp` from
  the final stack pointer (`Pointer`) and the words that are already in their final
  place (`Filled`); that the final pointer is even follows from the parity of the
  padding (`BottomAligned`).  `DescriptorsExact` (`DescriptorsMatchFiles`): a path has
  a descriptor for the file in the map and one for a constructor past its `open`
  (`FdsInv`).
- **SpyLoaderProofs, on SpyLoader.** `WrappedOnce` (`EveryIdWrappedOnce`) and `PoolStaysExact`
  (`PoolExact`).  The ids come in ascending order, so one still to come is greater than
  those wrapped (`Loading`); an id is in the vectors exactly when it is in the pool or
  has an owner (`Registered`); the pool is empty whenever `createSpiedNamespaces`
  inserts an id, so the temporary gets that one (`Creating`); a leaked id keeps an
  owner that does not know it, so nobody can give it back (`Reserved`).
- **SpiedProgramProofs.** `PoolStaysExact` (`PoolExact`), `CallsAlwaysStayHome`
  (`CallsStayHome`) and `WrappingAlwaysDone` (`WrappingIsDone`), for any number of
  programs, binaries and wrappers. A wrapper is once in the pool, belongs to one object,
  or was taken by a constructor that threw (`Pool`); a lost one is in no slot. The
  destructor joins the listener before it comes to the wrapped functions, and the
  listener has ended only when the thread is dead (`Life`). So while a thread can call,
  the value in a slot is the program's own function or the slot's own wrapper (`Homes`),
  and the only write under way is the one `wrapping` waits for (`Waiting`).
- **WatchPointProofs.** `AlwaysWatchesWhatWasAsked` (`WatchesWhatWasAsked`) and
  `ObjectsAlwaysTellTheTruth` (`ObjectsTellTheTruth`), for any users and calls.  The
  first lemmas are about bits: `SetBits` and `UnsetBits` change only those of their own
  slot, except that the shift of the last slot spreads into the upper half, which no
  slot uses.  The invariant follows a call through its steps and through the queue: its
  commands are in the order `PEEK7`, `POKEADDR`, `POKE7` (`Order`); what a call that nobody
  disturbed has read is what the register holds (`Undisturbed`); users with calls on one
  object at once have it in `mixed` (`Held`); any other object differs from what was asked
  last only while a command for its slot is queued or its caller has yet to assign
  `_isSet` (`Truth`).
- **BreakPointProofs.** `StopsAlwaysRecorded` (`StopsRecorded`), `RunsAlwaysRecorded`
  (`RunsRecorded`), `BackupAlwaysCode` (`BackupIsCode`), `HitsAlwaysReal`
  (`HitsAreReal`), `NeverConcurrentGet` (`NoConcurrentGet`), `NeverLeftStranded`
  (`NeverStranded`), `AlwaysBackToBreakPoint` (`GoesBackToBreakPoint`), `RipAlwaysFresh`
  (`RipIsFresh`) and `JumpAlwaysTakesEffect` (`JumpTakesEffect`), for any number of
  stops, any reasons and any watchpoints. The scripts are constants of the model, and
  `MethodsOnly` says that they are made of the class's methods: `CONTINUED` is recorded
  right after each `PTRACE_CONT` and no other state is. `MethodicalMethods`,
  `MethodicalOne` and `MethodicalConcat` show that whatever is put together from the
  methods satisfies it. It is a hypothesis of the theorems and not an `ASSUME` of the
  module since it is about what `Resume` is, not about a parameter. `RunScripts` and
  `SetScripts` prove it, and the two other hypotheses, of the scripts of `breakpoints`
  and `thread_users`.

  For the first two the invariant says what an actor may still have to execute, and
  that the listener resumes at most once and does so last (`Shape`); what an event not
  yet collected means, which is nothing for one in `NoStop`, WCONTINUED among them
  (`Kernel`); that a queued request which is to end the present
  stop was made after the listener was done with it, and that its `CONTINUED` is
  recorded or about to be (`Requests`); and that a stop `_state` does not show has its
  event pending, its `STOPPED` still to be recorded, or a `PTRACE_CONT` queued
  (`Stops`).  A quiet state has none of the three.

  `BackupIsCode` has a second invariant, `BInv`: while the breakpoint is not set, the
  last write queued is the instruction's, and unless nothing is left to write the
  callback has to queue a step before it can set the breakpoint again (`Leads`), or
  waits for a step that is queued behind all the writes (`Follows`).  The Tracer runs
  commands in order, so the wait for the step is also one for the writes.  The
  hypothesis `RestoredByOne` says that a callback which unsets the breakpoint
  steps before it sets it, as `resumeAndSet` does, and that users leave it alone.
  `resumeAndUnset` does not satisfy it: a `set` right after it would read what its
  queued write has yet to replace.

  The other six have a third invariant, `TInv`, and the hypothesis
  `DrivenByCallbacks`: there are no users, and a callback resumes the thread once, as
  the last thing it does, and neither steps, stops nor terminates it; it reads the
  registers before it sets rip, and `hit.resumeAndUnset` comes before any jump and in
  the breakpoint's callbacks alone.  Both are needed: let a user
  resume the thread as well (`resume`, or `stop` and `resume`) and TLC finds each of
  the six violated, since a second resumption races the owner's; and `resumeAndSet`
  violates `NeverStranded`.

  Under it the stop is passed on like a token: from the kernel to the listener (the
  event is collected), from there to a callback (`hit`) or straight into the queue
  (`resume`), and by the callback's `resume` into the queue, where the `PTRACE_CONT`
  gives it back to the kernel. `Turns` says that one of the four has it, and only after
  a fault or a SIGSTOP nobody; a report of WCONTINUED is handled beside it, and
  behaviours in which one is recorded over a stop are those the properties except. The rest says what each of them finds: `Told`, that what
  the listener and the callback have to do fits the reason of the stop; `Sent`, that
  nothing is queued behind a `PTRACE_CONT` and that a `GETREGS` or `PEEKUSER` under way
  has its future; `Caches` and `Dr6`, when the cached registers are old, new or the
  thread's, and that a DR6 which is not empty belongs to a stop that is being handled or
  has its clearing queued; `Rip`, that the cached rip is the thread's or the one a jump
  is to lead to. A thread that dies leaves only what its callback and the listener had
  begun (`Lone`). After a stop recorded inside somebody's `resume` (`overtaken`) the
  invariant says nothing, as the properties say nothing. Each property follows from a
  part: `HitsAreReal` from `Base`, `NoConcurrentGet` and `NeverStranded` from `Turns`,
  the others from `Rip` and `Sent`.

- **RelinkageProofs.** `InRelinkagesAlwaysExact` (`InRelinkagesExact`) needs nothing of
  the layout and no `mprotect` to succeed. Its invariant, `RInv`, says that a valid
  relinkage is registered at an object that is alive and has all the slots whose names
  that library defines (`Registered`), and what a loop leaves behind (`Looping`): the
  relinkage about to be built does not exist, and those valid in an unload are of
  modules still to come. `WritesAlwaysPermitted` (`WritesPermitted`) needs nothing of
  the layout either: the highest address computed is one of the relinkage's own slots,
  so a slot that is not beyond the length lies on a page between the lowest slot's and
  the last one opened, which is open when the exchange begins; and the step that faults
  is one of a relinkage that `Writing` names. `SlotsAlwaysExact` (`SlotsExact`) adds
  `Contents`: a slot of a relinkage that was written has the object's value in the table
  and `Orig` in the relinkage, and any other slot `Orig` in the table. It needs
  `SlotsAscend`, `NamesDisjoint`, or two relinkages could each hold the other's value,
  and that the `mprotect` which opens the pages succeeds; the one which closes them may
  fail.

The refinements are proved in the usual two parts: the initial state maps to one of
`FifoExecutor`, and every step maps to a step of it or a stutter.  The inductive
invariants were checked by TLC on the instances of the runs, with the hypotheses above,
before they were proved.

Only model-checked:

- that methods return when users, `singleStep` and `resumeAndSet` are at work
  (`CallsReturn`);
- `ProtectionRestored` of `Relinkage`, which the code violates;
- `SearchesTellTheTruth`, whose reference searches a flattened sequence of tables,
  which needs induction over data;
- `EntersWithAbiStack` of `Launch`, where the entry point comes from `ElfFile`;
- all liveness, which needs fairness and `ENABLED`, out of the prover's reach.

## 6. Not modelled

- `Logger` and `Meta`: output, and a compile-time loop.
- `SpiedThread::detach`: no code calls it, and the thread it names is `_tid-2`.
- `SpiedProgram::unwrapFunction`: `find` is given two arguments, so it does not
  compile when it is used.
- The vectors `_spiedThreads` and `_breakPoints` change (`createBreakPoint`, a new
  thread) while another thread goes through them, without a lock; the model takes
  each access as atomic.  Likewise `_isSet` and `_backup` of a breakpoint that two
  threads use, two threads of the program at one breakpoint, and `reserveNamespaceId`
  called by two threads.
- `ctypeInit` and `initStaticTLS` call the registered functions in turn;
  `getCurrentNamespace` and `isContaining` only read; `getMangledName` and
  `convertDynSymbolAddr` ask the dynamic linker, and appear as what they answer.
- `syncModules` makes the list of modules that `Relinkage` takes as `Sources`.
- `backtrace` walks frame pointers in memory; only its use of the registers is here.
- The listener's loop ends when `waitpid` fails, with EINTR as with ECHILD
  (`SpiedProgram.cpp` 83); in the model it ends only when no child is left.
- The `tracer` run has one program: that the listener of another one, whose `waitpid(-1)`
  takes any child of the tester, collects the starter's stops is not in it.
- A jump or a step that stops a thread one byte past a breakpoint without its INT3: in
  the model threads come there by the INT3 only.
- Two threads of the tester that call `wrapping` for one slot at once.
- Memory is sequentially consistent, although `_running` and `_state` are plain fields
  that two threads use; the compiled loops read them anew after a library call.

## 7. What is left

Every safety invariant and action property that a passing run checks has a theorem,
but `SearchesTellTheTruth`, which needs induction over data.  What could be added:

1. `NoConcurrentGet` and `RipIsFresh` for scripts with single steps.  The step is a
   second resumption of the same stop, so `Turns` would have to let the callback and
   the queue have the stop together while `_isSigTrapExpected` is set.
2. Several breakpoints, and several threads at one breakpoint.  That needs a model of
   accesses to `_isSet`, `_backup` and the vectors of `SpiedProgram` that is finer
   than one action each.
3. The order in which `Relinkage`s of a common name are removed: a statement about
   what a slot then holds, if the code is given one.
