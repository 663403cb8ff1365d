# SAO2: a TLA+ verification project

SAO2 is a small language. Its compiler, in dependency-free Rust, translates a
program to C11; the C it emits carries its own runtime: a precise
stop-the-world mark-and-sweep collector, a scoped arena, managed lists and
ordered maps with iteration locks, and checked arithmetic. This directory holds
TLA+ models of the parts whose correctness rests on long sequences of steps,
TLC runs that check them on small instances, and proofs that TLAPS checks.

Paths below are relative to the compiler's own `src/` directory unless they
start with `tests/` or are one of the documents beside it.

## 1. Inventory

### The compiler

| Part | State it keeps | Operations | What makes it correct |
|---|---|---|---|
| `lexer.rs`, `parser.rs`, `ast.rs` | token cursor, diagnostics, recovery point | scan, parse, recover at statement boundaries | progress on any input; at most twenty errors; one tree per accepted text |
| `analysis.rs` | scopes, definitions, types, deferred types, constraints | collect, resolve, infer | finite inline layouts; every name use bound; every type resolved, or an error said |
| `semantic.rs` | mutability paths, narrowings, flow, loop controls | check, warn, validate the handoff | mutation only through `var`; every path returns; narrowing never outlives a write |
| `lowering.rs` | current block, loop contexts, temporaries | one method per construct | evaluation order; every exit of a loop releases its lock; checks precede what they guard |
| `ir.rs` | blocks, locals, types, failure sites | build, validate | every path balanced in iteration locks; checks directly before their operation |
| `escape.rs` | facts per local, store edges, escaped set, summaries | analyse callees first, fall back on cycles | no scoped allocation outlives its call |
| `c_backend.rs` (planning) | root plan, trace plan, layout plan, capabilities | plan, render | every live reference is a root; every reference field is traced |
| `diagnostic.rs`, `source.rs` | bounded error and warning lists, line table | push, sort, render | limits, order, positions |
| `compiler.rs`, `program.rs`, `host_compiler.rs`, `cli.rs`, `lib.rs` | files in the build directory, the executable | compile, remove stale output, run the C compiler, run the program | nothing stale is run; warnings come first; exit codes |

The phases run once, in order: parse, analyse, check, validate the handoff,
lower, validate the IR, plan allocations, emit. Each either hands an immutable
result on or ends the compilation. Nothing runs concurrently in the compiler.

### The emitted runtime

All of it is C text in `c_backend.rs`.

| Part | State it keeps | Operations | What makes it correct |
|---|---|---|---|
| Managed heap | blocks and their headers, frontier, committed bytes, free list | raw allocation (first fit, split, bump), header lookup | blocks tile the arena; the free list is exact; live storage is never touched |
| Collection policy | allocation debt, epoch, active flag | collect on debt, collect on exhaustion and retry once | terminates; exhaustion is real; failed traces are harmless |
| Tracer | shadow frames, work list, visited table | enqueue roots, drain, resolve interior references | what is reachable is marked, nothing else is |
| Sweep | cursor, current free run, rebuilt list | retain, coalesce, pull the frontier back | no unmarked block left, free list rebuilt in address order |
| Scoped arena | frontier | mark, bump, restore at return | no reference outlives the frame that owns it |
| Managed list | length, capacity, backing, lock count | construct, append, remove, index, store, iterate | snapshot length of a loop stays current |
| Managed ordered map | entries, lookup slots, capacities, lock count | construct, insert, remove, load, store, contains, iterate | slots index the entries; insertion order; locks |
| Values | - | checked arithmetic, equality, hash | agree with the language's definition |

The runtime parts interact through three channels: generated functions keep
every reference in a shadow frame, allocation may collect, and the collector
reads frames and headers. Every runtime failure ends the process, so no state
has to be recovered after one.

### Where it is hard

There are no threads, no network and no persistence. The difficulty is in

* *re-entrance by allocation*: any allocation may run a whole collection between
  reading the operands of an object and publishing it;
* *long legal sequences*: a heap state that only arises after several
  splits, frees and coalescings; a map after growth, removal and reinsertion;
* *stale state*: marks of earlier epochs, positions in a lookup table, a loop's
  snapshot of a length, a header inside a free run;
* *limits*: the end of the arena against page rounding, the wrap of the epoch,
  the work list that cannot grow;
* *static approximations of dynamic facts*: the escape analysis decides once for
  all executions.

`PROJECT.json` lists each of these at its line, with the properties that would
catch it going wrong.

## 2. What is modelled

| Module | Models | Extends or uses |
|---|---|---|
| `ManagedHeap` | allocator, policy, epoch, marks, sweep | |
| `AbstractHeap` | a heap as a set of disjoint intervals | refined by `ManagedHeap` |
| `Collector` | program, shadow frames, allocation in flight, trace | extends `ManagedHeap` |
| `OrderedMap` | one managed map: entries, open-addressing slots, locks, growth | |
| `AbstractMap` | an insertion-ordered sequence of pairs with iteration locks | refined by `OrderedMap` |
| `Iteration` | loops over managed lists and every way out of them | |
| `ScopedArena` | checkpoint, bump, commit and restore of the scoped arena | |
| `TraceTable` | items and rebuilt hash table of the trace work list | |
| `Arithmetic` | checked integer operations, checks first | |
| `ProgramEntry` | the C `main`: arguments, arenas, interning, release | |
| `EscapeAnalysis` | the analysis, beside the executions of the program it analyses | |
| `CommandLine` | the words of a command line as a request | |
| `Driver` | invocations one after another, and the files they leave | extends `CommandLine` |
| `Lexer` | a text cut into tokens, and recovery behind errors | |
| `Grammar` | the language of `GRAMMAR.ebnf` | |
| `Parser` | every procedure of the parser, speculation, recovery, error cap | extends `Grammar` |
| `Names` | top-level names, scopes and resolution, beside one run of the body | |
| `Types` | type declarations from syntax to layout and trace plan | |
| `TypeRules` | what it means to be well typed, said at once | |
| `Typing` | three passes of inference, the handoff check, the IR's slots | extends `TypeRules` |
| `Narrowing` | flow narrowing in the checker and the lowering, and the program that results | |
| `Flow` | flow summaries and warnings, the blocks of the lowering, a run of them | |
| `IterationBalance` | the validator of iteration locks in the typed IR | |
| `BalancedExecution` | the C of a validated function, as it runs | extends `IterationBalance` |
| `Runtime` | maps, loops, scoped arena, trace table, arithmetic and entry side by side | extends `OrderedMap`, instantiates the others |
| `Compilation` | driver, names, narrowing and balanced execution side by side | extends `BalancedExecution`, instantiates the others |
| `CollectorProofs` | theorems of `ManagedHeap`, and of `Collector` on top of them | extends `Collector` |
| `OrderedMapProofs`, `IterationProofs` | theorems of one component | extend the module of their name |
| `EscapeAnalysisProofs` | theorems of `EscapeAnalysis` | extends `EscapeAnalysis` |
| `RuntimeProofs` | theorems of `Runtime`: of the arena, the trace table, arithmetic and the entry among them | extends `Runtime`, `OrderedMapProofs` |
| `FrontendProofs` | theorems of `Compilation`: of the driver and of names | extends `Compilation` |
| `CompilationProofs` | theorems of `Compilation`: of balanced iterations and of narrowing | extends `Compilation` |
| `MCCollectorProofs` | theorems of the scenarios that the run `collector` checks | extends `MCCollector`, `CollectorProofs` |

**Composition.** Where components interact they are composed: `Collector` with
the heap it collects, an execution with the function that was validated, the
executions of a program with the plan of its escape analysis, a narrowed
program with checker and lowering, a run of the blocks with the summary of the
source they came from, a command line with the files of the invocations before.
Components that share nothing are only put side by side: `Runtime` and
`Compilation` (to which `MCRuntime` and `MCCompilation` give inputs) and
`MCFrontend` have a variable `part`, a behaviour is one of one part, and the variables of the others keep one fixed value. This is how one run
checks several small sequential parts, each on inputs of its own; nothing is
interleaved, as the compiler and the runtime interleave nothing. What is put
together follows what can be proved: the modules with RECURSIVE operators are in
`MCFrontend`, and the others have theorems.
`MCCollector` chooses among instances of one module in the same way.

### ManagedHeap (c_backend.rs 4093-4606, 4948-5182)

The arena is a function `header` from block offsets to headers, plus `frontier`,
`committed` and `freeHead`. Offsets and spans are the code's own numbers (header
of 48 bytes, alignment of 8), so rounding, splitting and the page boundary are
exact. Every loop of the code is one action per iteration: the walk of the free
list (`WalkNext`, then `TakeSplit`, `TakeWhole` or `ListExhausted`), the marks
(`TraceMark`, in any order and for any set of blocks) and the sweep (`SweepLive`,
`SweepDead`, `SweepDone`). `pc` says which loop is running. The request path is
`RejectRequest`, `PolicyRequest`, `PlainRequest`, then a raw allocation that ends
in `Bump`, `CommitFailure`, `PressureRequest` or `Exhausted`. A platform that
fails to commit a page is a choice. Bodies are not represented, with one
exception: `stale` records which swallowed headers are still spelt out in memory.

### Collector (2657-2865, 3229-3486, 4694-4946, 5186-5347)

The program assigns, stores, calls, returns and allocates; the collector marks
from the frames. A block has a field of its own and, when `Members` says so, an
inline struct with a field, so that interior references exist: they keep the
block and trace only that member. `operands` are the values a constructor has
already read when the allocator is called. The heap is the one of `ManagedHeap`,
with `TraceMark` driven by the work list and sweeps conjoined with what becomes
of the contents.

### OrderedMap (1874-2084)

`entries` is the entry backing up to its length, `slots` the lookup table of
positions, with the probe sequence of the code written as the first step at
which the probe stops. `Hash` is a constant: every assignment of hashes to keys
is admissible, and the run picks one that collides and wraps around.

### Iteration (lowering.rs 654-700, 843-1121, 1180-1240; c_backend.rs 1698-1862)

A frame is the stack of loops its function has entered. `Return` stands for the
return statement and for a propagated error, which lower to the same cleanup of
all enclosing loops; `Leave` for the end of a loop and for `break`, which jump to
the same cleanup block. `locks` may go below zero in the type of the state, so
that a lock released twice is seen.

### EscapeAnalysis (escape.rs 95-250)

Facts are sets of origins per local, computed by rounds of propagation; edges,
escaped set, closure and call-graph order follow the code. The analysis ignores
the order of operations, so a program is a set of operations per function and an
execution takes any of them in any order: every control-flow graph over these
operations is covered. An operation is added to the program when it first runs,
so each state holds a program together with one of its executions, and the
properties compare the plan for that program with what the execution did. What
a program may become is bounded by an `outline`: who may call whom, which functions
hold a container of references, and how many operations each has room for.

### IterationBalance and BalancedExecution (ir.rs 1443-1557, 2141-2169; c_backend.rs 1786-1862, 3015-3645)

`IterationBalance` is the work-list validation of one function, any of
`Functions`. One action takes a block, transfers an operation, leaves the
operations, joins a successor or finishes; `states` is the code's table of
stacks by block, `verdict` its result. `before` is a history variable: the stack
in front of each operation of a block. `BalancedExecution` runs an accepted
function along any path. A temporary holds a container, two may hold the same
one, and what an operation writes may be any container; this covers the zeroed
locals of the C, too. A begin, a value and an end evaluate their temporary again
each time, as the C does. `Start` is the call: the callers may be iterating over
any container already (`outer`), and containers have any of `Lengths`.

Three checks end the program, as `sao2_compiler_invariant` does: of a lock count
at its maximum (`overlocked`), of one that is zero (`unlocked`), and of an index
outside of the container (`outside`). The validator looks at neither indices nor
the locks of callers, so acceptance alone excludes only the second. Of the other
two it follows that their reasons come from outside of the function's own
iterations (`FailuresFromOutside`): a count overflows only if callers and loops
together hold the container `MaxLocks` times, and an index is outside only if it
was when the iteration began, because the length of a locked container stays. That
the loops which the lowering emits count from zero to the length they read, so that
their index never is outside, is `SnapshotCurrent` of `Iteration`.

Calls, appends and removals are other operations. They may leave any length to a
container that is not locked (`Relengthened`), and stop the program with one of
their checks (`Panic`); a callee that returns has released its own locks, by the
same argument. Unreachable blocks stop the program, too.

### Narrowing (semantic.rs 1810-1935, 1999-2012, 2512-2570; lowering.rs 424-431, 507-530, 877-1178)

One variable `x` of a union of two alternatives. A program is a sequence of
tokens that grows by one construct per step, while both passes walk it: `narrowed`
is the checker's list, `narrowings` the lowering's, and a frame per enclosing
statement keeps what each puts back and what the bodies assign. In the code the
checker walks the whole function first; since what either does at a statement
depends on what stands before it only, doing both at once loses nothing. `notes`
records what a read at each token would be lowered to. The finished program then
runs: `payload` holds the temporary of each test. Conditions test `x` directly
or are opaque; a variable of another name, and the type errors that reject a
second test of a narrowed variable, are guards.

### ScopedArena (4317-4352, 4661-4684)

`frontier` and `committed` are the arena's; `calls` keeps the mark that each
running function took and what it has allocated. `AllocateScoped`, `Exhausted` and `CommitFails` follow the
checks in their order: width of the rounded size, room, commit, and the extra
byte that gives an empty struct a reference of its own. Offsets are words of
`WordMax + 1`, so that a sum can wrap where the code guards against it.

### TraceTable (4731-4937)

`items` is the list in the order of discovery and `nextItem` the next to be
traced; `slots` holds positions, one higher, with 0 for empty. `Enqueue` makes
room in the array, then in the table, then probes: each growth may fail, and
the table is rebuilt from the items when the new one would pass half load.

### Arithmetic (3644-3790 and 5363-5575)

An operation is its list of checks, in the order the lowering emits them, and a
C expression whose undefined cases have no value. `Meaning` says what the
operation means over all integers. Width is a constant; every pair of operands
of that width is tried.

### ProgramEntry (1559-1600, 2887-2963, 3549-3627, 5776-5797)

The steps of the rendered `main`: argument count and encoding, the two arenas,
the root frame, the literals, the pool of strings that grows as arguments are
interned, the call, the return, the releases in reverse. Each may fail as the
code lets it. A string is the literal or pool item it points to.

### CommandLine and Driver (cli.rs; lib.rs, compiler.rs, host_compiler.rs, program.rs)

`Parse` is the parser of arguments; `Spells` says which lines a request may be
read from. In `Driver`, `pc` walks through one invocation: load, the phases of
the compilation, the directory, the write of `program.c`, the warnings, the
search for a compiler, the removal of the old executable, the compiler, the
check of its output, the program. Every step may fail, and a write may leave a
torn file. `programC` and `executable` outlive the invocation. Two invocations
in the same directory at one time are not interleaved.

### Lexer (lexer.rs)

A character is its class, a token its kind and extent. The scanners of words,
numbers, quoted literals, comments and symbols each return what they cut and
whether it was an error; the error path skips as the code does, up to the cap.
`Longest` gives the cut into longest tokens that the lexical rules of
`GRAMMAR.ebnf` define.

### Grammar and Parser (GRAMMAR.ebnf; parser.rs)

A token is its kind. `Run` interprets a procedure as a sequence of items
(expect, call, repeat, choose by the next token); procedures that recover at a
statement or declaration, or that try one reading and roll back, are operators
of their own, with the cursor, the errors and the declarations found as state.
The precedence climb records the extent of each operator's operands. `Grammar`
derives spans of tokens from the published rules, in no order; where they are
ambiguous the parser's choice by the next token is named in `strict`.

### Names (analysis.rs 674-900, 1749-2119, 5200-5378)

Top-level declarations are collected first; then each action is the next thing
`BodyResolver` meets: a declaration, a use, a block, a loop, a statement without
braces. `scopes` is the code's stack. `open` and `bindings` remember the braces
and what was declared in them, and `initialized` is one run of the same body, in
which every branch is taken or not.

### Types (analysis.rs 98-1640 and 3341-3445; ir.rs 1319-1403; c_backend.rs 655-1162, 2395-2470; escape.rs 322-380)

The stages of a set of declarations: classified, resolved (tags, duplicate
members, map keys, references), checked for finite size, lowered, validated in
the IR, planned. The four walks over the graph of definitions (collection of
inline dependencies, the IR's validation, planner of aggregates, planner of
structs) are four operators with the code's own visiting order and marks; a
walk that would not end ends in the stage `overflow`. Capabilities (equatable,
printable, key, traceable) are computed as each phase computes them.

### Flow (analysis.rs 2142-2684; semantic.rs 231-1200 and 2040-3078; lowering.rs 184-1234)

A body is a tree of constructs. `Typed` says which expressions have a type,
`FlowOf` the summary of the flow validator, `Warned` the unreachable places;
`Lower` builds the blocks with the lowering's own stack of loops and its
checks against the summary. The blocks then run, with any outcome of the
conditions.

### TypeRules and Typing (analysis.rs 2600-4874; semantic.rs 713-2463; ir.rs 1717-1996)

A body is a tree too. The first pass infers bottom up and leaves what depends on
the use deferred, the second resolves expected types, the third checks and
injects into unions, with narrowing; the handoff check then looks for what is
left over, and the IR's validator compares slots. `TypeRules` judges the same
body by one recursive definition of being well typed.

## 3. Runs

| Run | Instance | Shows |
|---|---|---|
| `managed_heap` | arena of 288 bytes, pages of 144, bodies of 0, 20 and 300, epochs up to 2, debt saturating at 130 | the heap stays valid between sweeps, live storage undisturbed, no stale mark, sweeps complete, exhaustion true, every request ends; the inductive invariant holds; implements `AbstractHeap` |
| `collector` | three instances: *pressure* (three blocks or one large one, two locals, two frames, a work list that starts at two), *interior* (interior references, pages, one epoch, a collection at every request after the first), *nested* (such references in two frames); 0.6 million states | what is reachable is allocated and untouched, collections are exact, allocation returns: under exhaustion, failing traces and wrapping epochs |
| `escape_analysis` | a chain of three functions, the innermost with a container; a function of three operations that may call itself; two objects; 1.5 million states | placement sound for direct stores, through summaries, closure and both fallbacks; the collected heap never holds a scoped object |
| `runtime` | map: five keys that collide and wrap, capacities up to 16, two locks; lists: two of up to four elements plus growth, two loops, two frames; scoped arena of 48 bytes, pages of 16, three calls and blocks; six keys in a table that starts at four slots; all pairs of four-bit integers; up to three arguments of five texts; 0.3 million states | the parts of the runtime keep what they promise, see below; the map implements `AbstractMap` |
| `frontend` | texts of up to five characters over seven alphabets; up to four or five tokens in twelve contexts, two errors; all pairs of some thirty type bodies; all bodies of `MCFlow` and of `MCTyping`; half a million states | lexer, parser, types, flow and typing against what they promise |
| `compilation` | lines of up to five words, two invocations; bodies of five steps under six sets of top-level names; programs of up to seven tokens for narrowing; 71,604 functions of three blocks out of nine operation lists and eight exits, two temporaries, two containers of no or one element that callers have locked at most once, at most two locks, indices from -1 to 1; 3.5 million states | driver, names, narrowing, and validator with execution, against what they promise |
| `stale_reference`, `escape_outlives`, `narrowing_stale`, `types_endless`, `unreachable_fatal`, `typing_silent_error` | small instances of their module | counterexamples, section 6 |

What each property of the side-by-side runs says, by part:

* `runtime`. *Map*: the slots index exactly the entries (`SlotsIndexEntries`) and
  the map refines an ordered one. *Lists*: a list is locked once for each active
  loop over it (`LocksExact`), and a loop's snapshot is the length
  (`SnapshotCurrent`). *Arena*: live blocks lie apart on committed pages, and a
  refusal is true (`ScopedBlocksApart`). *Table*: what was enqueued is found again
  across rebuilds, once (`EnqueuedOnce`). *Arithmetic*: an operation panics or is
  what it means (`CheckedExactly`). *Entry*: one text has one pointer, and
  resources go back on every way out but a panic (`InternedByContents`).
* `frontend`. *Lexer*: longest tokens (`LongestTokens`). *Parser*: strictly
  derived programs are accepted, accepted ones derived, operands have the level
  of their operator (`ReadAsGrammar`); an error hides no later declaration
  (`DeclarationsFound`). *Types*: what is accepted has a finite layout in the
  right order (`AcceptedIsPlanned`); the tracer and
  the escape analysis agree on what holds a reference (`TracersAgree`). *Flow*: the
  lowering never contradicts the summary (`SummariesAgree`), the summary is exact and what is warned of never runs
  (`SummaryExact`). *Typing*: the passes together decide what the rules
  decide (`AnalysisAgrees`), and what is lowered fits its slot (`ResultsFit`).
* `compilation`. *Driver*: what is started was made by this invocation from its
  own source, and reports are complete (`RunsOwnProgram`); a line is understood as
  the usage text spells it (`LineUnderstood`). *Names*: a use means
  the innermost declaration in force, and reads a value but for the case that
  section 6 names (`NamesResolved`). *Narrowing*: each narrowed read has its
  temporary (`LoweringFindsNarrowing`), and sees the present payload but for the
  two cases of section 6 (`NarrowedReadCurrent`). *Balance*: on every path
  of an accepted function a container that is read or unlocked is locked
  (`NeverUnlocked`) and is the one the validator has on its stack
  (`HeldAsValidated`), a return leaves the callers' locks and no others
  (`ReturnsUnlocked`), and the remaining checks fail only for reasons that were
  there before the iteration (`FailuresFromOutside`; the first and the last are
  one property of the run, `IterationInvariants`).

**Why these bounds are enough to be interesting.** The heap of 288 bytes holds
five minimal blocks, which is what it takes to have a live block between two
free runs, a split that leaves a remainder, one that cannot, and a trailing run
(in 280 bytes a link lost from the free list would not show);
its page size does not divide block boundaries, so that a block may straddle the
last committed page. A request of 300 bytes is refused outright. Two epochs wrap
after two collections. The debt never comes near `UINT64_MAX` in the code, since a
request whose debt has reached the threshold collects first and so a charge adds one
span to less than that; a small `DebtMax` merges only debts beyond the threshold,
which the policy does not tell apart. The map's hash makes three keys fight for one slot and
two wrap past the end of the table, and it grows once from four entries to
eight. An append to a list of four elements grows it, and one to
a list of eight meets the limit; two loops may be over one list or two, in one
frame or two. In the escape runs two objects are enough to
have one refer to the other, and three operations to allocate, store and return.
Six keys make the trace table rebuild twice. Four bits hold every boundary case
of a checked operation: both extremes, zero, minus one, shifts by the width.
A scoped body of 76 overflows the word, one of 24 fits once, one of 32 not after
another. Two invocations are what it takes to meet a stale file. Five characters
hold a number with a base, separators, a point and an exponent, an escape cut
short by the end, or an operator of three; four tokens in a context of their
own (an open body, a value, a type, the head of a function) hold each
construct of the grammar with one token wrong, and with two errors the cap is
reached. Two definitions refer to each other in every way the bodies list.
Three blocks suffice for a loop with an exit, a join of two paths and a block
that ends the iteration another began. Seven tokens hold a test around a loop
around a branch that assigns and breaks out; eight were tried and show the same.

The bounds appear as constants: `Capacity`, `EpochLimit`, `DebtMax`, `MaxErrors`,
`Bits`, `WordMax`, `InitialItems`, `FirstItems`, `FirstSlots` and the `MaxLocks` of
`BalancedExecution` are the code's own limits made small; `MaxDepth`, `MaxFrames`, `MaxLoops`, the `MaxLocks` of maps, `MaxCalls`,
`MaxBlocks`, `MaxObjects`, the `room` of an outline, `MaxTokens`, `MaxSteps`, `MaxLength`,
`MaxWords`, `MaxInvocations` and `Limit` only cut the exploration. `MCRuntime`
is checked up to a permutation of its lists and `MCCompilation` up to one of the
tested values and one of the containers, which nothing distinguishes; this is sound because those runs
have no liveness property. Deadlock is not checked where a
panic, a finished input or a full bound really ends the program.

**Fairness.** `ManagedHeap` and `Collector` assume weak fairness of the runtime's
own steps, once a request is under way: it is a sequential program that keeps
running until it returns. Nothing is assumed of the program around it, which may
never allocate. `Driver` states the same of an invocation that has begun, though no run
asks for more than its safety. The other modules have safety properties only:
they are passes over finite inputs, whose end is a state the runs reach.

Every property of a passing run has a mutant in `PROJECT.json`: a change to a
definition, such as a dropped check or an off-by-one, that makes it fail. The
mutated operators stand in front of the original, marked as mutations.

## 4. What is proved

`CollectorProofs` proves of `ManagedHeap`, for every capacity, page size, threshold, epoch
limit, debt limit and set of body sizes that satisfy the assumptions of
`ManagedHeap` (a capacity that is a multiple of the page size; a threshold
between one and the debt limit; at least one epoch):

| Theorem | Property |
|---|---|
| `HeapInvariance` | `HeapInv`, the inductive invariant |
| `TypeCorrectness` | `TypeOK` (implied by `HeapInv`, which the run checks) |
| `HeapValidity` | `HeapValid` |
| `SweepIsComplete` | `SweptClean` |
| `MarksNeverStale` | `NoStaleMark` |
| `StorageUndisturbed` | `LiveUndisturbed` |
| `ExhaustionTruthful` | `ExhaustionIsReal` |
| `HeapRefinement` | `ImplementsAbstractHeap` |

**The argument.** `HeapValid` is not inductive: it says nothing while a sweep is
half done, and a raw allocation depends on where its walk stands. `HeapInv`
adds one part per loop. `WalkInv`: the walk is at the free block that follows
`previous`, and every free block before it is too small. `MarkInv`: no mark
exceeds the epoch, and during a collection a mark is either the current one or
an older one. `SweepInv`: the blocks still tile the heap; below the cursor the
rebuilt list holds exactly the free blocks up to the current run; the run is a
tiled interval that ends at the cursor and is not yet a free block; and every
allocated block behind the cursor carries the current mark. The step that closes
a run is the hard one: all blocks inside it vanish, and the list invariant has
to hold again with one block in their place. The lemmas are ordered by action,
from the arithmetic of spans, through splitting and bumping, to the sweep.

The action properties follow from `HeapInv` and one lemma per action about the
blocks it hands out. The refinement maps the state to the intervals of the
blocks in use; during a sweep a block its trace left unmarked already counts as
given back, so each sweep step is a stutter and the end of the trace gives back
every dead interval at once.

`CompilationProofs` proves of `BalancedExecution`, for any blocks, temporaries,
containers and functions, with no bound on their size, for any maximum of the lock
count and any locks of callers, lengths and indices:

| Theorem | Property |
|---|---|
| `ExecutionInvariant` | `ExecutionInv`, the inductive invariant |
| `AcceptedFindsLocked`, `AcceptedFailsFromOutside` | `NeverUnlocked`, `FailuresFromOutside` |
| `AcceptedKeepsInvariants` | `IterationInvariants`, the two together |
| `AcceptedHoldsStack` | `HeldAsValidated` |
| `ValueReadsInnermost` | `ValueOfInnermost` (proved, not run) |
| `AcceptedReturnsUnlocked` | `ReturnsUnlocked` |
| `EachBlockOnce` | `WorklistOnce` (proved, not run) |

**The argument.** The properties speak of executions, the code of a work list, and
`before` connects the two. `ValidatorInv` says that the blocks already done are
balanced: their recorded stacks follow one another by legal operations, a return
finds the stack empty, and each successor starts with the stack at the end. On
acceptance every block that was reached is done. `ExecutionInv` then follows an
execution: the containers held are, in order, the values of the temporaries on
the recorded stack, each lock counts the callers' locks and how often its container
is held, and a container that is held has the length it had when its iteration
began. It is
preserved by a write because a legal operation overwrites no temporary on the
stack, by an end because it pops the innermost, by a change of lengths because what
is held is locked, and across blocks by balance.
`FailuresFromOutside` is part of the invariant, too: what
it says of a failure is the same facts, read at the step that fails.
The counting lemmas say how appending to and popping a sequence changes the
number of times a container is in it.

It proves of `Narrowing`, for programs of any length, any two alternatives and any
values of theirs:

| Theorem | Property |
|---|---|
| `LoweringNeverMissesNarrowing` | `LoweringFindsNarrowing` |
| `NarrowedReadsAreCurrent` | `NarrowedReadCurrent` |

**The argument.** While the program grows, `NotesRight` says that what was noted
of a finished construct stays true of the tokens it spans, and `FramesRight` that the
frames of the open constructs lie one inside the other and lead back, each to the
place of its own token. `Matches` relates the checker's narrowing to the
lowering's stack: where the first has a type, the stack has a temporary of that
type, and each frame puts back a stack for which the same holds (`KeepsType`).
This is the first theorem.

The second relates a run of the program to what was decided about it, though a
loop may bring the run back to a place any number of times. The strengthening
does not speak of the past of the run. It says that there are two functions from
tokens to facts, what holds before each token and what holds behind it
(`SomeKnown`), where a fact is that a temporary has the variable's payload. The
facts agree along every edge that the run can take (`FlowsRight`: into a body, on
past it, out of a loop by a break, back to its head), and each narrowed read
relies on a fact that is there. They exist for every program that was built
without the two exceptions: a new construct extends them, and an assignment
inside a loop whose fact would not survive the way back to the head is what
`carried` records. A run then needs one sentence, that the fact of the place
where it stands is true (`Holds`), and each kind of token keeps it. So the walk of the
compiler over the text and the run through its loops are never compared step by
step.

`FrontendProofs` proves of `Driver`, for any sources and any command lines that name
them:

| Theorem | Property |
|---|---|
| `OwnProgramIsRun` | `RunsOwnProgram` |
| `LinesUnderstood` | `LineUnderstood` |

**The argument.** `FilesRight` says what is in the build directory at each step of an
invocation: from the step at which the C is written `program.c` is that of this
source, when the C compiler is asked there is no executable any more, and behind
its check the executable is made from `program.c`. What earlier invocations
left there, whichever of their phases failed, matters only up to the step that
replaces or removes it. `ReportRight` says what was reported so far as a function of the
step, `Said`, which has the warnings first and each thing once.

`LinesUnderstood` is about lines of any length. `LineInv` only says that the line
stays beside its request until it is read off; the rest is about `Parse`, whose
answer is compared with `Spells`, which was written from the usage text in the other
direction, as the lines a request may be spelled by. That a request is spelled by its
line (`UnderstoodPlain`, `UnderstoodBehind`) takes the line apart at its source, its
option and its delimiter: putting the option back where it was gives the line, word for
word. That a refused line spells nothing (`SpelledAccepted`) goes through all ways in
which the text allows a line to be put together, and finds that the parser refuses none:
each has a source, the option at most once, and for `build` nothing else. Where the
code filters an option out of a sequence that holds it at most once, the model removes
the first one (`RemoveFirst`), as a line with two was refused before.

And of `Names`, for any names, any declarations and parameters, and bodies of any
length and depth:

| Theorem | Property |
|---|---|
| `NamesMeanNearest` | `NamesResolved` (`NamesResolved` and `ReadsInitialized` of `Names`) |

**The argument.** The lookup goes by the stack of scopes, while the property goes by
braces: by which constructs are open and what was declared in them. `ScopesRight`
connects the two. It says that there is a map from the levels of the stack to the
constructs that are open, in their order, which meets exactly those that open a
scope, and that a scope holds all declarations of its construct and no others, in
the order they were made. The map is needed because statements, branches and
initializers are constructs without a scope, so that the two stacks do not go in
step. It has to say "all and no others": a local declared in a colon body goes to the
innermost scope that takes locals, past the scopes of loops, and its owner is the
brace block around it, so the step needs that these two are the same. `OpenRight`
(identities grow inwards, only the function is at the bottom) and `OwnersRight`
(only what opens a scope owns declarations) make a construct that is closed one that
is never named again. `UseRight` keeps for the last use what the lookup found,
so that closing a scope afterwards does not matter. All this holds unless a
name was declared twice at the top or among the parameters, which is reported.
`ValuesRight` is the second half: a declaration whose surrounding constructs are all
executed has a value, and a use in an executed place is inside of them.

`CollectorProofs` further proves of `Collector`, for any set of locals and members, any depth of frames and
any first size of the work list, on top of `HeapInv`:

| Theorem | Property |
|---|---|
| `CollectorInvariance` | `CollectorInv`, the inductive invariant, which the run checks too |
| `NothingReachableIsFreed` | `ReachableAllocated` |
| `CollectionsAreExact` | `CollectionExact` |
| `ReachableIsUntouched` | `ReachableIntact` |

**The argument.** While a trace runs, a reference is unseen, pending or visited.
`TraceInv` says that the visited ones hold the roots and are reachable, that the
children of a visited reference that is no longer pending are visited, and that
a block is marked exactly because one of its references was visited. When
nothing is pending, what is visited is closed, so it is what is reachable, and
`KeptInv` keeps this for the sweep: the live blocks are the owners of what is
reachable. `ReachableInv` says that these are allocated, `OperandInv` that the
operands of an allocation under way are references the program holds.
Reachability is the least closed set around the roots: to show that a step loses
nothing it is enough to give one closed set (`ReachBound`), and no induction
along paths is needed. A step of the program changes that set only within what
its frames already held, and adds the block it was given; a sweep step removes
blocks that no reachable reference is of.

`MCCollectorProofs` carries this to the scenarios of the run: a behaviour is one of
one instance, and each instance satisfies the assumptions of the theorems.

| Theorem | Property |
|---|---|
| `ScenariosKeepReachable` | `NothingReachableFreed` |
| `ScenariosAreExact` | `CollectionsExact` |
| `ScenariosLeaveReachable` | `NothingReachableTouched` |

`OrderedMapProofs` proves, for any keys, values and hashes, any map expressions and any
limit of the capacities that is at least 8:

| Theorem | Property |
|---|---|
| `MapInvariance` | `MapInv`, the inductive invariant |
| `SlotsLeadToEntries` | `SlotsIndexEntries` |
| `MapControlsValid` | `MapControlValid` (within `RuntimeWellFormed`) |
| `MapRefines` | `ImplementsAbstractMap` |

**The argument.** It is about tables alone. `Indexed(table, items, n)` says that the
probe of each of the first n items meets only other items before it meets its
own position, and that every position in the table is one of theirs. An item
whose key is new, placed at the first empty slot of its probe, leaves n + 1
indexed: it lengthens no other probe and breaks none, because empty slots only
disappear. A rebuilt table therefore indexes all entries, by induction over how
many have been placed; and a lookup in an indexed table that has an empty slot
stops, at the entry or at a slot that proves its absence. A slot is always empty because
there are twice as many slots as entries, which is what `RoomLeft` sees to and
`MapControlValid` states.
Capacities are powers of two by the same induction over doublings, which is what
the mask `hash & (capacity - 1)` needs. Once lookups are right, each operation is
that of a sequence of pairs with distinct keys, and the refinement is a case per
action. The proof asked for two corrections of the model: a map expression may
be empty even if there are values, and one that does not fit the limit is never
constructed.

`IterationProofs` proves, for any lists, values, literals and indices and any
depth of loops and calls, assuming only `ListAssumption`:

| Theorem | Property |
|---|---|
| `IterationInvariant` | `IterationInv` (the inductive invariant) |
| `LocksAreExact` | `LocksExact` |
| `SnapshotsStayCurrent` | `SnapshotCurrent` |
| `IterationTypes` | `IterationTypeOK` |

**The argument.** The two need each other: a loop's snapshot stays current
because a change of length needs a list with no lock, and such a list has no
active loop because locks are exact. With the types, which say that a frame is a
sequence of loops, their conjunction `IterationInv` is inductive. The lemmas say what
entering, leaving and returning do to the set of places of active loops, and
how many of them over one list there are: a return takes away as many as
`EndIterations` counts in the frame that is left. `IterationTypes` adds that every
length fits its capacity. TLC could not see what that proof found: for a literal
beyond the limit `Capacity` has no answer, and `sao2_list_begin_construct` ends the
program there. `Init` now starts from the literals that can be constructed.

`RuntimeProofs` proves of `RuntimeSpec`, the specification that the run `runtime`
checks, for any choice of its constants that satisfies `RuntimeAssumption` and
the assumptions of `OrderedMap`:

| Theorem | Property |
|---|---|
| `LocksMatchLoops` | `LocksExact` |
| `SnapshotsStayCurrent` | `SnapshotCurrent` |
| `ScopedBlocksStayApart` | `ScopedBlocksApart` |
| `EveryKeyEnqueuedOnce` | `EnqueuedOnce` |
| `ArithmeticIsChecked` | `CheckedExactly` |
| `StringsAreInterned` | `InternedByContents` |
| `RuntimeIsWellFormed` | `RuntimeWellFormed` |

**The argument.** A step of the runtime is a step of one part, and the others stay
as they are, so an invariant of a part is one of the whole. The parts:

* *Loops*: the invariant of `IterationProofs`, instantiated.
* *Scoped arena*: every mark and every end of a block is a boundary, a multiple of
  the alignment in front of the frontier; a block lies between the mark of its
  call and the next block of the call, the mark of the next call or the frontier
  (`Lies`). Blocks lie apart because positions are ordered. A return drops the
  last call and restores its mark, which all older blocks lie in front of. The
  arithmetic is that of rounding: up to the next multiple, never past a multiple
  that is larger, and never past `OffsetMax` when the guards passed, so that no
  sum wraps.
* *Trace table*: an item is an entry with nothing but a key, and the probing is
  that of maps, so the lemmas about tables are those of `OrderedMapProofs`. The
  table is rebuilt before it passes half load, hence a slot is empty whenever a
  probe starts. A failed growth leaves a table that the trace never asks again.
* *Arithmetic*: a result that the word cannot hold is exactly one that a check stops.
  The checks bound a product by a quotient, which is the same by the uniqueness
  of division (`m > limit \div d` if and only if `m * d > limit`), on absolute values
  whose signs are put back; a shift multiplies or divides by `Power[n]`, with
  `Power[n] * Power[Bits - n] = Power[Bits]`, and a word is the remainder of its value.
  `ArithmeticInv` says that whatever is under evaluation has passed all the
  checks before it. For that proof powers of two became the recursive function
  `Power`, of which `Recursion` says what it computes.
* *Entry*: no text is twice among the literals and the pool (`Distinct`), a pointer
  that was given keeps its text while the pool grows, so equal texts have one
  pointer; `HeldInv` lists what may be held at each phase.

`EscapeAnalysisProofs` proves, for any finite sets of functions and locals and any
outlines, with no bound on operations, objects or frames:

| Theorem | Property |
|---|---|
| `EscapeInvariance` | `EscapeInv`, the inductive invariant |
| `DirectStoresAreSound` | `DirectlyStoredSound` |
| `CollectedNeverHoldsScoped` | `CollectedHoldsNoScoped` |

**The argument.** It has two halves. The analysis first: `Facts`, `Closure`, `ReadOut` and
`Summaries` run a rule for a fixed number of rounds, and `RoundsEnd` shows, by
counting, that a growing set of at most that many elements has stopped growing.
They are therefore closed under their rules, and everything but the plan grows
with the program while the plan only loses allocations. A
function whose parameter is said not to escape was analysed after all its
callees, so it passes the parameter to none that would let it escape. `Analysis` collects these
results in one record and `Sound` lists what an execution needs of them. `Held`
is used from the other side: it lies within any closed set around the frames.

Then the execution, for any sound analysis. An object in the scoped arena is `Seen` in
every frame that can name it: by its allocation in its own frame, as `Parameter`
in the frames above it, and each call between passed an operand in whose reach
it lies (`PassedDown`). `Placed` says this of locals and, from their
allocation, of members; `DirectNamed` that a local nothing was loaded into is
named by its facts, which is what a direct store needs and where an
indirect one fails (section 6). What is returned is leaked, so it is not in
the arena; through the frames that passed it down, an argument by induction over
calls (`EscapedNotInArena`) says that nothing they let escape is either. Each kind
of operation keeps this, and a new operation in the program keeps it by
monotonicity. `DirectlyStoredSound` alone is not inductive because it says nothing of an
object whose call is still active.

The proof asked for two changes of the model: the bound on programs became the
constant `Outlines`, so that one specification covers every call graph, and
`None` may not be a number, or it could be mistaken for an object. TLC checked
the invariant, with `Held` in place of the set it speaks of, on the instance of
the run before it was proved.

**Assumptions.** Besides the bounds, which are any numbers: `HashOf` and `Hash` are
functions into the naturals; the tables start with at least two slots and one
item (16 and 64 in the code); the capacity of an arena is a multiple of the
page size and at least one alignment unit, and an offset is narrower than a
word; literals are sequences of texts; a word has at least one bit, and lengths are
natural numbers. `Null` is no reference
(`ScenarioAssumption`). There are two alternatives, which have values but none in common, and
`Opaque` is none of them, lines are sequences of strings, and one that is understood names one of the sources
(`CompilationAssumption`). The declarations and the parameters that a body is resolved
under are sequences of names (`NamesAssumption`). TLC evaluates each of these on the runs.

**Induction.** The library's induction theorems take a predicate as a parameter
and cannot be used here. Where an induction over numbers is needed (rebuilding
a table, doubling a capacity, collecting literals) it is made over a set: the
set of counterexamples, if not empty, has a least element. The recursive
functions in question are unfolded by one lemma, `Recursion`, that says what a
function defined by recursion on the naturals satisfies.

**Only model-checked.** `RequestReturns` and `AllocationReturns`, as liveness is
out of this prover's reach. `Flow`, `Grammar`, `Lexer`, `Parser`, `Types`, `TypeRules` and
`Typing` are recursive over syntax, with RECURSIVE operators that tlapm cannot
give to its solver, and no theorem is stated about `MCFrontend`, which contains
them. `ReadsFindValues`
of `Names` does not hold (section 6). And
of `EscapeAnalysis` nothing is claimed of programs with indirect stores, where
`ScopedDoesNotOutliveCall` fails (section 6).

## 5. Not modelled, and why

* *Semantic analysis*: mutability paths and which place an assignment may
  reach. In `Typing`, maps, floats, methods other than `append`, and blocks whose
  value has no name.
* *Lowering*: projections, aggregates and method calls as sequences of
  operations; the checks they need are in `Arithmetic` and `Iteration`.
* *IR validator*: places, and the sequences of checks before an operation.
* *Runtime values*: equality and hashes over values, floats, the operations on
  strings. Whether a type can be compared or hashed is in `Types`.
* *Rendering*: the text of the C, of diagnostics and numbers; positions.
* *Growth composed with collection*: a list or map grows in one step here.
* *Two invocations at one time* in one build directory: the code takes no lock
  and promises nothing.
* `sao2_heap_reclaim`, which is reached only from runtime probes.
* The end-to-end tests; they were read for which programs are accepted.

## 6. Disagreements found

* **A swallowed header is still accepted** (`stale_reference`). When the sweep
  coalesces dead blocks in front of a live one it rewrites the header of the
  first only (c_backend.rs:4965). The second's header stays, inside a free
  block, still says it is allocated, and passes `sao2_heap_header_for`, whose
  comment (c_backend.rs:4593-4595) says the check "preserves stale-reference
  rejection". It is a second line of defence that is not there: the `Collector`
  runs show that no reference to such a block survives.
* **A scoped object can outlive its call** (`escape_outlives`). For a projected
  assignment, `place_owner_facts` (escape.rs:222) takes the facts of the base
  local for the object written. When the path leads through a referenced member
  that object is another one, perhaps the caller's:

      type Leaf(value int); type Box(leaf &Leaf); type Holder(box &Box);
      fn store(var b Box) { var h := Holder(box = b); h.box.leaf = Leaf(value = 42); }

  Nothing escapes as far as the analysis sees, so the `Leaf` is scoped and the
  caller's box keeps a reference into storage that the return gives back.
  DESIGN.md:601-602 promises scoped storage only to allocations "proven not to
  outlive the current function". The two passing runs show that programs whose
  stores go directly into the object a local was bound to are placed correctly.
* **A narrowed variable is stale in the second iteration** (`narrowing_stale`).
  The checker analyses a loop once and takes the narrowing away only behind it;
  the lowering reads a copy of the payload made where the test succeeded
  (lowering.rs:428).

      if x is A { while again() { use(x); x = other(); } }

  The second call of `use` gets the payload that `x` had before the loop, even
  if `x` is no longer an `A`. DESIGN.md:251-252 says that the variable is narrowed
  directly to the payload's type in the body.
* **A narrowed variable is stale behind an expression that assigns it**. With
  loops left out (`~carried` as a premise) the same run finds this:
  `direct_assignments_in_body` (semantic.rs:2512) does not look into expressions,
  and an if expression puts the old narrowings back (semantic.rs:2011).

      if x is A { y := if flag { x = other(); 1 } else { 2 }; use(x); }

  The passing run shows that these two are all there is among the programs it
  covers: branches, switches, exits and retests are right.
* **A union that holds itself by value is not rejected** (`types_endless`).
  `collect_inline_type_dependencies` (analysis.rs:1595-1633) goes through the
  alternatives of a union without remembering the unions it came through, and
  never ends on one that leads back to itself. DESIGN.md:158-161 says that a
  definition of infinite size is rejected.
* **A warning is followed by a refusal** (`unreachable_fatal`). The checker warns of
  an item after `return` in a block that is a value, as in
  `x := { return 1; 5 };`; the lowering then has no open block for it
  (lowering.rs:381, 434, 933, 1043) and stops with a compiler error.
  DESIGN.md:857-858 says that such warnings are non-fatal.
* **A value becomes an error by itself** (`typing_silent_error`).

      fn f(x str|Error(str)) int|Error(str) { return x?; }

  compiles: `validate_result_value` (semantic.rs:2381) finds that one alternative
  of the result has a payload of the value's type, and does not ask for the
  alternative's style. DESIGN.md:229-230 says that `Error(value)` constructs the
  error alternative.

Three more were met that no run reports. They are stated in the modules, for
whoever changes the code:

* `Driver!ArgumentsForwarded`: `run s t -- u` forgets `t`, where the help text
  (cli.rs:6) says that arguments are forwarded.
* `Names!ReadsFindValues`: a name declared as the only statement of a colon
  body stays visible behind it (analysis.rs:2106-2118), and is null when the
  condition was false, which DESIGN.md:626-627 says is no value.
* `Typing!WellTypedCompiles`: `if value is int: use(value);` is rejected, because
  the arguments of a call are compared before narrowing
  (analysis.rs:3003-3022), against DESIGN.md:247-252. The same cause shows in
  operands. An addition returned into a union is injected twice and then refused
  as an internal error, and a local bound from a `?` may stay without a type.

Where the parser is stricter than the grammar the text is ambiguous: a
statement that starts with `{` or `if` is a statement, never the start of
a larger value; `x is A + y` is read as `(x is A) + y`; `x is A | 1` and
`type T(a ())` are refused.

## 7. Plan

What is left, by what it would tell us:

1. `ManagedMapHeap`: growth of maps and lists composed with `Collector`
   (transaction frames, two backings, a collection between them).
2. The lowering of places and aggregates, with the sequences of checks the
   validator demands, against the order of evaluation of the source.
3. Mutability paths of the checker against the stores they allow.
4. `ScopedArena` composed with `EscapeAnalysis`, whose frames then own offsets.
5. Equality and hashes over values, against `Types`.
