# Tagged coroutines in TLA+

A model of [taggedcoro](../src/README.md), a Lua library in which a coroutine
has a *tag* and `yield(tag, ...)` goes to the closest coroutine with that tag,
through all coroutines in between.  The model covers the C implementation,
`src/src/taggedcoro.c`, the one in Lua, `src/src/taggedcoro.lua`, what connects
programs to them (function tables, tracebacks, the compatibility functions of
`compat-5.3.c`), and the transactional memory of `src/contrib/stm.lua`.  TLC checks
them on small instances; TLAPS proves, for any, all invariants, that
both implementations, the one in C and the one in Lua, implement the coroutines of the
README, and that the transactional memory implements atomic transactions.

## The system

| part | source | state it keeps | operations |
|---|---|---|---|
| C implementation | `src/src/taggedcoro.c` | `coroset`, a table that gives each tagged coroutine its metadata: tag, stacked flag, parent, source (or yielder); and what the Lua core keeps of each `lua_State`: status, value stack, the C function it is suspended in | `create`, `wrap`, `call`, `resume`, `yield`, and the continuations `auxcallk`, `untaggedk`, `yieldk`, `resumek` |
| queries, traceback | the same | none, they read the above | `status`, `isyieldable`, `parent`, `source`, `tag`, `running`, `traceback` |
| function tables | the same | upvalues only | `fortag`, `make`, `install` |
| pure Lua implementation | `src/src/taggedcoro.lua` | the same metadata, plus `parent_isyieldable` | the same; continuations are Lua calls around `pcall(yield, ...)` |
| support for old Lua versions | `src/src/isyieldable.c`, `compat-5.3.*`, `*502.h` | none; a string buffer between its calls, partly on the Lua stack | `lua_isyieldable`, the API of Lua 5.3 |
| transactional memory | `src/contrib/stm.lua` | a table of variables with timestamps and condition variables; per transaction a table of those it read or wrote | `transaction`, `get`, `set`, `retry`, `rollback` |
| exceptions, iterators, non-local return | `src/contrib/*.lua` | none beyond one coroutine each | `trycatch`, `throw`, `retry`; `make`, `produce`; `run`, `ret` |

One Lua state runs one coroutine at a time, so there is no parallelism; what
makes the code hard is that control leaves it in the middle.  `auxcallk` resumes
a coroutine and may be left for good by a yield; later the same C function
is entered again as a continuation, on the same Lua stack, and must find out from
that stack and from the metadata whether it is to rewind a suspended stack of
coroutines or to pass on the failure of a yield.  Several suspended
stacks exist at the same time, share nothing but the `coroset` table, and are
cut and joined by every yield and every call.  The pieces interact through

- `lua_resume` and `lua_yieldk` of the Lua core, with their rules for who may
  yield (not the main thread, not across a C call without continuation);
- values left on the Lua stacks of suspended coroutines: the values of a tagged
  yield stay on the yielder's stack until its handler takes them, and the
  arguments of a call go straight to the stack of the coroutine that yielded last;
- standard coroutines (`coroutine.create`, *untagged*) anywhere in the stack,
  whose `coroutine.yield` the tagged coroutines pass along.

What makes each part correct:

- C implementation: it behaves as the README says of nested coroutines
  (`NestedCoro`); no coroutine is resumed by two; flags, links and remembered
  sources fit the stacks that exist; no value is left where a later resume
  would deliver it; calls end; failures reach the yielder.
- queries: `isyieldable` predicts `yield`; `status` describes the stacks;
  `traceback` ends, and lists the callers.
- function tables: every function finds the tag, coroutine and `coroset` it was made
  for in its upvalues, and all functions share one `coroset`.
- traceback text: every level is shown, or skipped with notice; names lead to the
  functions; the stack has room.
- pure Lua implementation: the same promises as the C one.
- compatibility functions: they do what Lua 5.3 does, whatever they push meanwhile, and
  fail for a table stored in itself only.
- transactional memory: a committed transaction read a state that existed at one
  moment, and commits are atomic; a transaction that waits is woken, and one that never
  ends starves by the commits of others.

## Modules

    TaggedCoro              the C code: actions, type and structural invariants
     +- TaggedCoroQueries   status, isyieldable, traceback; properties about them
     |   +- NestedCoroRefinement   the mapping to NestedCoro
     |   |   +- MCTaggedCoro       instances for TLC
     |   |   +- NestedCoroProofs   (and TaggedCoroProofs) TLAPS proofs about it
     |   +- PureLua                the Lua version, on the same variables
     |   |   +- PureLuaRefinement  (and NestedCoroRefinement) its mapping to NestedCoro
     |   |       +- MCPureLua
     |   |       +- PureLuaProofs  (and NestedCoroProofs) TLAPS proofs about both
     |   +- ErrorOrigin     with a history variable for the origin of errors
     |       +- MCErrorOrigin
         +- TaggedCoroProofs    TLAPS proofs about TaggedCoro and TaggedCoroQueries
    NestedCoro              what the README promises, the abstract specification

    Stm                     stm.lua; implements AtomicTransactions
     +- StmProofs           TLAPS proofs
    AtomicTransactions      what a transactional memory promises

    FunctionTables          upvalues of the functions programs get
     +- FunctionTablesProofs    TLAPS proofs
    LuaStack                the operations of the Lua API on a stack (pure)
     +- LuaStackProofs      TLAPS proofs of what they return
     +- FunctionNames       the search for the name of a function
     |   +- TracebackText   the levels and the slots of a traceback
     |       +- TracebackTextProofs     TLAPS proofs about both
     +- Compat53            functions of Lua 5.3 in terms of those of 5.1
     +- Compat53Buffer      string buffers
         +- Compat53Proofs      TLAPS proofs about both
    MCLuaApi                composes FunctionTables, TracebackText, Compat53 and
                            Compat53Buffer for TLC

### TaggedCoro

`cur` is the running `lua_State` and `mode` says what runs in it: Lua code
(`"run"`), an error unwinding it (`"raise"`), `auxcallk` after `lua_resume`
returned (`"back"`), or what a coroutine that was just resumed continues with
(`"cont"`).  Per thread, `status` and `frame` are its `lua_status` together with
the C function it waits in, `link` the coroutine that function resumed, `ccall`
whether a C call that cannot yield is pending, `stk` the values on its
stack, and `coroset`, `tag`, `stacked`, `parent`, `source` its metadata.  A
tagged yield that is on its way has its tag and yielder in `ytag` and `yfrom`: in
the code they are the topmost values of the stack of the coroutine that was just
suspended.

In mode `"run"` the program chooses: create, call, yield, return, throw, and so
on (`Program`).  The other actions are the C code, cut where `lua_resume` and
`lua_yieldk` transfer control, one action per way through `auxcallk`:

| action | `auxcallk` |
|---|---|
| `BackOK` | the callee returned, line 94 |
| `BackForMe` | the yield has the callee's tag, 106 |
| `BackPass` | the caller is tagged and may yield, 113 |
| `BackStopsHere` | an untagged yield suspends the untagged caller, 122 |
| `BackFails` | no one takes the yield; -1 to the trampoline in `auxcall`, which resumes the callee with the failure |
| `BackLost` | the same with no trampoline below; -1 goes to the Lua core |
| `BackErr` | the callee died, 136 |
| `ContPassk`, `ContUntaggedk` | the continuations that rewind a suspended stack, up to their `lua_resume` |

`frame = "call"` is an `auxcallk` under the trampoline, `"callk"` one that was
entered as a continuation.

Abstractions: values are members of `Arg` and a few constants of the library
(`"msg"`, `"sentinel"`, ...); the wording of errors is left out; the values a
program is passed stay on its stack until its next step, for the properties to
see.  The standard coroutine functions, `error`, `pcall`, and C functions that
call Lua code and cannot yield are modelled from the rules of the Lua core
taggedcoro.c relies on.  `coroutine.resume` on a tagged coroutine, which the
library is there to replace, is not part of the program's actions; nor are
`debug` functions, metamethods of tags and garbage collection.

`MayOverflow` lets `moveyielded` find no room on the stack.  Calling a coroutine
that died of an error passes the checks of `taggedcoro_cocall`, and leaves its
arguments on some dead stack: the guard `Len(...) <= MaxHeld` bounds how many.

### TaggedCoroQueries

`Costatus`, `Isyieldable` and the walk of `auxtraceback` as operators, the safety
properties that relate them to what yields and calls do, the liveness properties,
and the statements of the README that the code does not satisfy.  A loop of the code
that goes from coroutine to coroutine is a function `next` and `Walk(t, next)`, the
least set that has `t` and is closed under `next`: what a loop visits, without
recursion, so that it can be reasoned about.

### NestedCoro and NestedCoroRefinement

`NestedCoro` has no flags, links or continuations: one sequence `chain` of
coroutines, from the main thread to the running one, and for each suspended
coroutine the piece of such a sequence its last yield cut off.  A call appends
that piece, a yield cuts at its handler.  Three actions record where the code
departs from the README (`Leaks`, `Lost`, and `Refused`, whose parameter
`RefusedValues` is what a refused untagged yield returns) so that everything else is
shown to be as described; the two versions differ only in these parameters.
`NestedCoroRefinement` computes chain, pieces and
passed values from the state of `TaggedCoro`; the steps inside the C code are
stutters, except the one in which the outcome of a yield is decided.  The stack that
begins with a coroutine is chosen (`Path`), as the sequence in which each is linked to
the next and the last to none; there is only one.

### PureLua

Takes the program's actions and the variables of `TaggedCoro`, and replaces those of
the library.  `callk` and `callkk` are one Lua frame around `coroutine.resume` and
`pcall(yield, ...)`; a continuation can do all a call can, so there is no `"callk"`
frame and no trampoline.  Values travel through every coroutine of the stack, and a
refused yield is passed on as values that begin with the mark
(`Refusal`, `"sentinel"` in the model).  `parentYieldable` is
`meta.parent_isyieldable`.  Line 110 hands what an untagged coroutine was resumed
with to `callk` as if its callee had yielded it; from there on a suspended stack has
a coroutine that looks free (`echoed`), nothing is promised, and a run of its own shows
it.  Modelled as on Lua 5.3, where `coroutine.isyieldable` exists; on versions without
it the code sets a weaker test that is true of all but the main thread.

### Stm and AtomicTransactions

`db` holds value and timestamp of each variable, `tvars[t]` the copies of thread t's
transaction.  The loop of `stm.transaction` handles one request of the block without
interruption, one action each; between two requests other threads may run, because
a block may yield to the scheduler through the coroutine tagged `"stm"`.  `Restart` is
the tail call after a failed validation or a wake-up.  `got` is a history variable.
`thread.signal` and `thread.yield("cvs", ...)` are external: `Signalled` assumes
that a signal wakes all who wait for the variable.  `AtomicTransactions` has no
copies or timestamps: a commit requires that all values read are still there, writes
at once, and `disturbed` says who has to start over.
Nothing keeps others from disturbing a transaction again and again: `stm.lua` promises
no more than that it ends once they stop (`StarvesOnlyByConflicts`).

### FunctionTables, FunctionNames, TracebackText

A closure is the name of a C function and its upvalues.  The program calls
functions it has (`Function`), may have the library opened twice by
clearing `package.loaded`, and every action gives it more of them.  `threadCall` is
what `co(...)` calls after an install: `taggedcoro_cocall` without upvalues, so that it
belongs to no copy, which is the exception in `OnlyThreadCallIsUnbound` and the
counterexample of the run `unbound_call`.  What the call then does is undefined, and
no action.  Tags that `make`
chooses are numbers; that no tag of the program is one is `TablesAssumption`.

`FunctionNames` runs `findfield` step by step on the Lua stack, over an example of
`package.loaded` with modules, globals, a nested table, and keys that are no strings.
`TracebackText` is the loop over levels, with `lastlevel` as its own loop; `height`
and `room` count stack slots.  Each covers `taggedcoro.c` and the copy
in `compat-5.3.c`, which differ in what they search and where they cut.  That numbers
of frames are naturals and levels integers is `TextAssumption`.  `TablesSpec` and
`TextSpec` are the parts' own specifications, which the theorems are about; in
`MCLuaApi` the same `Init` and `Next` formulas take part.

### Compat53 and Compat53Buffer

`Compat53` applies each call to two machines: `old` runs the code of `compat-5.3.c`
on operations of Lua 5.1 (`LuaStack`), `new` does what the manual of Lua 5.3 says; they
must agree after every sequence of calls.  There is one call after which they do not:
`lua_seti` and `lua_rawsetp` put the key below the value after they have made the index
absolute, and when that is the index of the value itself, the key is in its place.
`lua_seti` then raises an error (`lua_rawsetp` is undefined), where Lua 5.3 has
`t[k] = t`.  The action `SetsIntoItself` is this call and sets `failed`, which ends the
sequence; `CompatIsLua53` says that nothing else fails.  `taggedcoro.c` makes no such
call, and no comment or document of the repository speaks of it.  `Compat53Buffer` has the array, the boxes
on the Lua stack and the arithmetic of `size_t` modulo `SizeMod`.  Parts of both, the
buffers among them, are compiled for Lua 5.1 and LuaJIT only, while the rockspec asks
for Lua 5.2 and `taggedcoro.c` uses `lua_yieldk`, which 5.1 has not: this library does not
use them.

## What TLC checks

| run | instance | question |
|---|---|---|
| `structure` | main, three tagged (one with unyieldable C calls), one untagged coroutine, two tags | all safety properties |
| `behaviour` | main, two tagged, one untagged; payloads with and without a value | refinement of `NestedCoro`, liveness |
| `overflow` | main, two tagged, one untagged; moving values may fail | what survives an error in the middle of `auxcallk` |
| `lua_version` | main, two tagged (one with unyieldable C calls), one untagged | the Lua version: invariants, refinement, failures |
| `stm` | two threads, two variables, two values; three transactions of two requests | types, snapshots, wake-ups, atomicity, what can keep a transaction from ending |
| `lua_api` | one of the five parts of `MCLuaApi` per behaviour (`subject`) | what lies between programs and coroutines |

The safety properties of the C version, all invariants (`OneResumer` and the like are
conjuncts of `Structure`):

- `OneResumer`, `ParentIsResumer`, `StackedIsOnAStack`, and `Structure`: the
  structure (proved as well, below).
- `NoValuesLeftBehind`: when Lua code runs, no stack but its own holds values,
  dead coroutines excepted.
- `SourceIsYielder`, `SourceBelowUntagged`: the coroutine that arguments are
  delivered to, past all coroutines between, is the end of the suspended stack.
- `YieldGoesWhereIsyieldableSays`: the walk over parents and the walk of a yield
  agree on the handler.
- `TracebackEnds`, `StatusDescribesStacks`, `DeadSourceIsDead`: what is answered
  about stacks, running, suspended and dead.
- `TracebackListsCallers`: `traceback` without an argument starts where `pushsource`
  starts it, at the source of the running coroutine.  If it has none, the list is that
  coroutine and its callers (`ListsCallers`); if it has one, that of an error it has
  caught, this is a dead coroutine, and no more holds.

The Lua version has `LuaStructure`, `LuaSourceIsYielder` and
`LuaYieldGoesWhereIsyieldableSays`, and two that the C version does not satisfy:
`LuaDeadTracebackComplete` and `LuaTracebackListsCallers`.  Values left behind are no
question there, since the Lua core moves them as arguments and results.

The others:

- `SnapshotIsCurrent`: a copy with the timestamp of its variable has its value;
  `WaitersAreCurrent`: no wake-up is lost; `ImplementsAtomicTransactions`;
  `StarvesOnlyByConflicts`.
- `OnlyThreadCallIsUnbound`, `FreshTags`, `OneCoroset`: upvalues are there and right.
- `NamesResolve`, `ShowsAllLevels`, `TracebackFits`: the text of tracebacks.
- `BufferKeepsContent`, `CompatIsLua53`: the compatibility functions.

Every property is one that a slip in the code would break: the operators named
`X_Slip` next to an operator `X` (`Unstacks_Not`, `Yielder_Callee`, ...) are such
slips, and `PROJECT.json` says which property finds which.  `structure` has 1.1
million states and takes about a minute, `stm` 200,000, `lua_version` 176,000, `lua_api`
167,000, `behaviour` 61,000 and `overflow` 46,000.

Bounds of the coroutines.  Everything is finite but the values that calls of dead coroutines pile
up (`MaxHeld = 1`).  Three tagged coroutines are a handler, one passed through and
a yielder; the fourth place, below, in the middle or on top, is the untagged
one's.  Two tags are a match and a mismatch, the untagged mark is a third.
`structure` uses the symmetry of tags and of the two tagged coroutines that differ
in nothing; no run with a liveness property uses symmetry.  In `behaviour` the
payloads `<<>>` and `<<x>>` matter because a continuation tells a failure from a
normal resume by the number of values.  CHECK_DEADLOCK stays on: the end of
the main chunk, and a broken state, stutter explicitly (`Terminated`).

Bounds of the others.  Two transactions that overlap, with a third after them, and two
variables are what it takes to read one before and one after another's commit, to wait
and be woken; two requests each are a read and a write.  `MaxTransactions` also ends the
commits that could make a transaction starve, so that in the run none does, and a
transaction that goes on for ever would be one that goes on without a reason.  In `lua_api`: two copies of
the library and two tables of functions; depths on both sides of every limit of the
two tracebacks (10 + 11 and 12 + 10 levels, and a power of two past them for
`lastlevel`), negative and too large first levels; five calls on a stack of four
slots; `SizeMod = 32` with a first buffer of 3 bytes, so that doubling meets the
limit after four boxes.  The parts share no state, so their interleavings are left out.

Fairness is `WF_vars(Library)`: C code that has started takes its next step.
Nothing is assumed of the program, which may stop anywhere.  Under it
`ControlReturns` (every call into the library gives control back: trampoline and
continuations cannot resume each other for ever) and `FailureReachesYielder`
(a failure that the trampoline sees becomes an error in the yielder) hold.  The Lua
version assumes the same of `LuaLibrary`.  `stm` has weak fairness of `Step(t)` for each
thread: the scheduler, cooperative as it is, gets round to every thread that can run,
and a block makes a next request or ends; that it ends at some time is `MaxRequests`.  Nobody has to begin a transaction.

### Where the code differs from what it says

Each of these runs checks one sentence of `src/README.md`, or for `unbound_call` one
comment of the code, and finds a counterexample; `PROJECT.json` has the quotations.

| run | line of taggedcoro.c (`lua_echo`: .lua) | |
|---|---|---|
| `lost_failure` | 121 | a yield stopped while a suspended stack was being continued does not fail at the yield: -1 is returned to the Lua core |
| `stuck_stacked` | 125 | `stacked` is set before moving the values can raise an error, and stays |
| `dead_traceback` | 202 | calling a coroutine that died of an error rewrites its metadata; tracebacks lose coroutines |
| `stale_source` | 146 | the source of a caught error is reported for the next error |
| `unbound_call` | 644 | what `co(...)` calls after an install has no upvalue for the `coroset` it reads |
| `lua_echo` | 110 | resuming an untagged coroutine that an untagged yield, passed along by a tagged one, suspended does not resume the stack: it yields back what it was given |

Two departures have no run.  A tagged yield made in an untagged coroutine suspends that
coroutine instead of failing (line 275): it is the action `Leaks` of `NestedCoro`, which
the refinement shows the code to do.  And the call of a dead coroutine that
`dead_traceback` is about also spoils the traceback of a running one that caught its error:
that starts in the dead coroutine (line 564), goes on to whoever called it again, and lists
neither the running coroutine nor those that wait for it.  `RunningTracebackFull`
says it does; the Lua version satisfies that, and the C version, on the instance of
`dead_traceback`, does not.

## What is proved

`TaggedCoroProofs`, for any set of threads, tags and values, with or without
overflow, from the assumptions on the constants in `TaggedCoro`:

- `TypeCorrect`: `Spec => []TypeOK`
- `StructureInvariant`: `Spec => []Structure`
- `NoSecondResumer`, `AlwaysResumed`, `ParentIsRight`, `StackedIsRight`: the four
  structural properties; the last one for executions without overflow.

None of the four is inductive alone.  That `taggedcoro_cocall` never takes a
coroutine somebody waits for needs that the flag is right (`StackedIsOnAStack`) for
those that wait suspended, and that their status is not resumable for the others
(`CalleeMatchesFrame`).  That a suspension has a resumer to go to needs that the
one who waits is waiting in a call, not suspended itself (`FramesMatchStatus`);
that a yielder exists when its values are moved needs `YieldInFlight`.
`Structure` is their conjunction, each part named; without overflow the flag is
exact, with it a flag too many can stay, but none is missing, which is what
`CalleeMatchesFrame` says and all that is needed for the rest.  The proof has a step
per action, and types and structure are proved by mutual induction, since
the callee of a call has a type only because the structure says there is one.

`StmProofs`, for any sets of threads, variables and values and any bounds:

- `StmTypes`, `SnapshotsAreRight`, `NoLostWakeup`: `TypeOK`, `SnapshotIsCurrent`,
  `WaitersAreCurrent`.
- `StmImplementsAtomic`: `Spec => ImplementsAtomicTransactions`.

The inductive invariant `IInv` adds to the three what transactions know (`Copies`):
they use declared variables only, and what is not dirty still has the value read.
A commit raises the timestamp of each variable it writes, above that of all copies;
so a copy whose timestamp is current has not been passed by any commit, and a commit
after successful validation finds every value it has read in `db`, which is the
guard of the abstract commit.  The refinement has a lemma per action.  TLC has
checked `IInv` on the instance of `stm` as well.

`TaggedCoroProofs` again, about `TaggedCoroQueries`: `NoValuesLeft`, `SourceYielded`,
`UntaggedSourceYielded`, `SourceDied`, `ParentsEnd`, `TracebackIsRight`, `StatusIsRight`
and `YieldGoesRight` are the properties of whole stacks.  `StatusIsRight` is the one
that needs executions without overflow: a `stacked` flag too many is a wrong status.  The
inductive invariant (`StacksInvariant`) is `StacksInv` on top of `Structure`.  Its parts:

- `OneRunningStack`, `SuspendedStacks`, `PassedByTagged`: those that run are on one
  stack, from the main thread to `cur`; whoever is suspended is on a stack with a root
  that nothing suspended passes along; the frames of tagged and untagged ones differ.
  Without them nothing is known of the coroutines between two that a step relates.
- `SourcesEnd` and `YielderEnds` are the heart.  The source in the metadata of a
  coroutine that may be called is the end of its stack, in a tagged yield, with nothing
  but passed-along coroutines between; and the same of a yield on its way, which no
  coroutine it has passed wanted.  The second becomes the first when a handler
  is found, the first is used when the stack is rewound.
- `SourcesDied`, `NotCalledYet`: other sources come from errors; fields nobody has set are
  nil.  Without them the source of an old error could be taken for a yielder.
- `ValuesHeld`: which one coroutine may hold values in each mode (`Holder`).
  `NoValuesLeftBehind`, its case of mode `"run"`, says nothing of the steps between.
- `TracebackEnds`, which is inductive given the others: a call sets the parent of a
  coroutine that does not run, and those that run lead to the main thread.

The lemmas they rest on say what a walk does when one link is added, cut or changed
(`WalkBegins`, `WalkGoesOn`, `WalkStays`, `WalkReaches`, ...).

`NestedCoroProofs`: `CImplementsNestedCoro`, which is `Spec => ImplementsNestedCoro` when
`MayOverflow` is false.  With overflow it does not hold: the error of `moveyielded` (line
59) is raised in the caller of a coroutine that did yield, which no action of
`NestedCoro` does, and leaves a flag behind; `overflow` checks what remains.  To the
invariants above `NestedInv` adds

- `HasPaths`: from every coroutine the links lead to an end, so that there is a
  sequence to choose.  A call only links to a coroutine that does not run, and those
  below it do not either; it cannot close a cycle.
- `PendingC`: C calls are pending only in what runs; who passes a yield along can yield,
  then and when it continues, which is what `CanYield` asks of every coroutine a yield
  has reached.
- `UntaggedTags`: a coroutine without metadata has no tag, so an untagged one handles
  nothing.
- `UntaggedWakes`: values are only on the untagged coroutine that begins to rewind its
  stack, so that what `untaggedk` puts on the yielder's stack is all that arrives.

The lemmas about paths (`PathIs`, `PathKept`, `PathJoins`, `PathCut`, ...) say that a path
is unique, and what adding and cutting a link does to it.  With them the stack is the
callers of `cur`, `cur`, and the stack of its callee (`StackParts`); the pieces held by
all others do not change (`Held...`).  A lemma per action of `TaggedCoro` then shows the
action of `NestedCoro`, or the stutter, that it implements (`NestedStep`).  What they
need of the invariants is `ChainsInv`, which the version in Lua has too.

`PureLuaProofs`: `LuaStructureHolds`, `LuaSourceYielded`, `LuaDeadTraceback`,
`LuaTracebackIsRight`, `LuaYieldGoesRight`.  `LuaInv` has types and links, which hold always,
and the rest until line 110 has suspended a coroutine (`echoed`).  New in it are
`SavedYieldable`, that `parent_isyieldable`, saved when a coroutine was called, is what
its parent would answer now, for all that wait; `NobodyEchoed`; and `DeadChains`: from
the source of an error the parents of the dead lead to every coroutine whose source it
is, which is what the C version loses and why it has no such theorem; a traceback of the
running coroutine goes by the same chain from the source of a caught error to that
coroutine, and on to its callers.

`PureLuaProofs` again, about `PureLuaRefinement`: `LuaImplementsNested`, which is
`LuaSpec => LuaImplementsNestedCoro` when `MayOverflow` is false.  (The Lua version has no
`moveyielded`; the assumption only keeps the actions it shares with the C version to
those it has.)  The invariant is `LuaChains`, until line 110: `OneRunningStack`,
`HasPaths`, `PendingC` and `UntaggedTags` as above, and `LuaRawYieldEnds`, which says that an
untagged yield that has been passed along comes from the end of the stack of the
coroutine it is at.  The C version has that from `YielderEnds`; here the yielder is
nowhere recorded for an untagged yield, and only the values travel.  The two mappings differ only while a
yield is on its way (`LuaValIsVal`), so the lemmas of `NestedCoroProofs` are used for
the actions both have (`SameSteps`), and only the library's own calls, passes,
handlers and rewinds have lemmas here (`LuaNestedStep`).

`FunctionTablesProofs`, `TablesSpec => []P` for `TablesBound`, `TagsAreFresh`,
`CorosetIsShared`, with any numbers of copies and tables.  `TablesInv` says that every table,
wrapped coroutine and method was made by the library, for a copy and a coroutine that are
there, and that a second copy needs the first to be removed.  `ThreadCallMade` says what the one
unbound function is, so that `TablesBound` excepts that and no other.

`TracebackTextProofs`, `TextSpec => []P`: `NamesAreRight` for any contents of tables (they
may be cyclic) and `AllLevelsAreShown` and `StackHasRoom` for any depths and levels.
`NamesInv` describes the Lua stack in both activations of `findfield` and says that
whatever was looked at so far does not lead to the function (`Unfound`,
`Unreached`).  `TextInv` brackets the last level while `lastlevel` searches (`Searching`), and
says what the lines are before (`Upper`) and after (`Lower`) levels are left out, with the
value the counter `n1` has in each, so that it cannot meet zero, or the mark, twice; `Fits`
says that no more than two pieces wait for the next line (three in `compat-5.3.c`), as all
text is one string when `taggedcoro.c` adds `"..."`.

`Compat53Proofs`, `CompatHolds`: `CompatSpec => []CompatIsLua53`, for any keys, values and
tables, any number of calls, and up to `LUAI_MAXCSTACK` slots (8000, so that indices of the
stack stay above `LUA_REGISTRYINDEX`).  A lemma per function (`CopiesRight`, ...) says that on one
machine its code leaves what the manual says: an index of the caller that is relative
still means the same slot after the pushes in between (`AbsoluteIs`), the loop of
`compat53_reverse` turns a range round (`Reverses`, by induction on the rounds), three of them
rotate (`ThreeReversals`), the loop of `luaL_setfuncs` copies the upvalues in order
(`UpvaluesPushed`), and the cached chunk is called like a fresh one (`FunctionPushed`).
The invariant, `CompatInv`, is about two machines that went through the same calls: same
stack and result, and tables that differ in the registry's chunks only (`Matches`), which
are nil or the chunk's function; or, after a call that failed on the first alone, a table
that holds itself on the second.  An index of any slot but the top one still finds its table
when the key is below the value (`KeyBelowIs`), so no other store fails.  There is a lemma per action (`CopiesKeeps`, ...).

`BufferHolds`, in the same module: `BufferSpec => []BufferKeepsContent`, for every width
of `size_t`: sums modulo `SizeMod` that the code compares are either exact or found to be
too large, and a box is under everything that `luaL_addvalue` has on the stack.
`LuaStackProofs` are the facts about `LuaStack` that these proofs share.

Assumptions are only those on the constants: that values, tags, threads and marks of
the library are distinct, that sizes and depths are naturals, that a chunk's address is
nobody's key and its function not nil, that keys are no tables.  TLC evaluates each
in the runs of its module, and has checked the inductive invariants on their instances
(of `TablesInv` all but `TablesTypes`, whose sets it cannot enumerate).

Only model-checked: liveness under fairness, which is `ControlReturns`,
`FailureReachesYielder`, `LuaFailureReachesYielder` and `StarvesOnlyByConflicts`.

## Not modelled

- `exception.lua`, `iterator.lua`, `nlr.lua`: a protocol over `create`, `call` and
  `yield` each, without state of their own; they would be programs on top of
  `NestedCoro`.  Calling the `resume` of an exception twice is the one hazard seen.
- Of `compat-5.3`: conversions of numbers and strings, tests of userdata, results
  of file and process functions (formatting only), and the thin macros of the header.
- The headers of Lua 5.2 (vendored declarations for one macro), the samples (they need
  libraries that are not here), and the tests.
- Metamethods of tags, garbage collection of coroutines, overflow of the C stack, the
  slots used by `isyieldable`, what calling a thread after an install does, and the thread
  library under `stm.lua`.
- A variable of `stm` that is declared twice; a coroutine as a tag.
