# Verification of the Cangjie compiler

TLA+ models of the parts of `cjc` and `cjc-frontend` in which threads, processes,
signals, retries or the order of things decide whether the compiler is right, and
of the value analyses of CHIR, whose arithmetic does; TLC runs that check them on
small instances; and theorems, checked by TLAPS, that hold for every value of the
constants. Paths below are relative to the repository; `MacroEvaluation.cpp` and
the other macro files are in `src/Macro/`.

## 1. The system and its components

The compiler is one process that runs a table of stages (`CompileStrategy`):
parse, conditional compilation, import packages, macro expansion, semantic
analysis, desugaring, generic instantiation, CHIR, code generation, saving of
the results. Most stages are a sequential walk over the AST. State that several
actors share, or that outlives a stage, is found in few places:

| Component | State | Operations | Interacts with | Hard behaviour | What makes it correct |
|---|---|---|---|---|---|
| Macro evaluation (`MacroEvaluation.cpp`, `MacroEvaluationCJNative.cpp`) | tree of calls, a status per call, slots, counter, flag per coroutine | build the tree, scan, start, poll, collect, evaluate again | coroutines of the run-time, the macro server | interleaving, polling of plain variables, slot limits, several passes | children before parents, each call once, result independent of the schedule, loops end |
| Macro server protocol (`MacroEvaluationClient.cpp`, `MacroEvaluationSrv.cpp`) | two pipes, list of messages, error and running flags, the server's list of calls | send and read messages in slices, start, stop and restart the child, wait thread | macro evaluation, the child process, signals | crash and restart, partial messages, blocking on both sides, races at shutdown | a result reaches the call it was computed for, evaluation and shutdown end |
| Driver jobs (`Driver/Job.cpp`, `Tool.cpp`, `ToolFuture.cpp`, `Utils/Semaphore.cpp`) | futures of the running tools, semaphore | run batches of tools, poll, give slots back | child processes, internal tools on threads, temporary files | slot limit, failure while others run, deletion by a crash in the middle | batches are barriers, slots balance, success means all succeeded |
| Temporary files (`Driver/TempFileManager.cpp`, `Utils/SignalUnix.cpp`, `main.cpp`) | list of files, atomic state of the deletion | record, write, delete, handlers | every stage that writes, tools, signal handlers | a handler interrupting main or running beside it, a writer after the deletion | one context deletes, nothing is left, the process ends |
| Task queue (`include/cangjie/Utils/TaskQueue.h`) | priority queue, mutex, threads, futures | add, run and wait, run in background | parsing, mangling, CHIR, code generation | threads start while others are created | each task once, by priority, all done when the wait ends |
| Build order (`Modules/PackageManager.cpp`) | graph of packages, order | resolve dependencies, twice per compilation | CHIR, code generation | circles, state of the call before | order follows the imports, circles are found |
| Dependency graph (`Modules/DependencyGraph.cpp`) | edges, re-exports, three caches | build, query, rebuild | import manager, language server | recursion over circles, stale caches, order of names | the graph is complete, answers belong to it |
| Import manager, cjo manager | loaded packages, `onlyUsedByMacro` | load headers, load on demand | dependency graph | the flag is set and taken back in the order of the imports | the flag tells whether a package is needed at run time |
| Incremental compilation | cached AST hashes and dependencies | choose the kind of build, compute the pollution | every later stage | cache of an earlier, different or failed build | everything that could have changed is recompiled |
| Diagnostics | open transactions, stashes | begin, commit, abort, emit | semantic analysis, parallel parsing | nesting, several threads | no diagnostic is lost or shown twice |
| CHIR value analyses (`CHIR/Analysis/ConstantRange.cpp`, `SIntDomain.cpp`, `ValueRangeAnalysis.cpp`, `Engine.h`, `MaybeInitAnalysis.cpp`, `MaybeUninitAnalysis.cpp`) | ranges with symbolic bounds, a state per block, the worklist | transfer of an expression, cast, comparison, branch; join; iterate to the fixed point | dead branch elimination, constant folding, checks of uninitialised variables | words that wrap, two readings of a word, bounds through chains of values, termination | a range contains every value, a decided comparison is right, the fixed point is reached and soon |
| Lexer, parser, AST, conditional compilation, semantic analysis, desugaring, code generation, mangler, options, tool chains, utilities | data of one walk | - | the stages around them | deep sequential logic | out of reach of a model checker except piecewise |

`PROJECT.json` lists all components with their status, and the hazards of the
modelled ones at their lines.

## 2. Modules

| Module | Models | Proofs |
|---|---|---|
| `MacroEvalOrder` | what the author of a macro may rely on (abstract) | |
| `MacroScheduler` | `EvalMacros` and everything below it | `MacroScheduler_proofs` |
| `MacroServer` | the protocol between compiler and macro server | `MacroServer_proofs` |
| `JobScheduler` | `Job::Execute` with tools, futures and semaphore | `ParallelWork_proofs` |
| `TempFiles` | temporary files, signal handlers, end of the process | `TempFiles_proofs` |
| `TaskQueue` | the parallel task queue | `ParallelWork_proofs` |
| `PackageManager`, `MCPackageManager` | build order by Tarjan's algorithm; symmetry for TLC | `PackageManager_proofs` |
| `DependencyGraph` | graph of imports, queries, caches | `DependencyGraph_proofs` |
| `SInt`, `ConstantRange`, `SIntDomain` | words, ranges and domains of the range analysis, as operators | lemmas in `ValueRanges_proofs` |
| `RangeTransfer` | the range analysis along a path of the analysed program | `ValueRanges_proofs` |
| `RangeSymbols` | its symbolic bounds, over a program of several values | `ValueRanges_proofs` |
| `AnalysisEngine` | the fixed-point engine with three analyses | `AnalysisEngine_proofs` |

A definition that ends in `_Mut` is a plausible bug of the definition after it.
It is used by no specification; `PROJECT.json` names the property that catches
it.

### MacroScheduler and MacroEvalOrder

A call is a number; the numbers follow the list `pMacroCalls`, in which a call
comes after the calls nested in its arguments, so a `for` over the list is a set
(`toScan`) emptied in increasing order. `form` says what a call is made of: a
user macro whose function succeeds or fails or whose expanded arguments do not
parse, a built-in macro, an annotation, a call in an interpolated string, a call
that could not be resolved, tokens with a bad escape. Actions follow the code
block by block: `CreateMacroCallsTree`, `EvalMacroCalls`, the scan of the
parallel loop (`ScanOver`, `ScanStart`, `ScanNoSlot`, `ScanDone`), the exchange
with the server (`Exchange`, `ExchangeFails`), the poll (`Collect`, `Spin`), the
serial loop (`SerialTurn`, `SerialResult`, `SerialDone`), and `FreeMacroCalls`,
which begins the pass over the tokens the evaluation produced. A coroutine makes
two visible writes, the tokens and `isDataReady`, which are plain variables;
`WeakMemory` says whether they may be seen in the other order, as the C++ memory
model allows. `options` holds the two global options that choose the loop and the
place where macros run.

`MacroEvalOrder` has no slots, lists or passes: a call is unborn, waiting,
running, expanded or failed; it runs at most once, after the calls below it are
expanded; what it runs on does not change; at most `width` run at once.
`OrderSpec` is that specification with the phases read off the scheduler, and
TLC checks that every step of the scheduler is a step of it or none.

### MacroServer

The state of the client (`cpc`, the calls it runs, the messages read), of the
server (`spc`, `macCalls`), the two pipes as sequences of slices with a
capacity, and the flags `pipeError` and `macroSrvRun` that the wait thread and
the message functions write. A message is what it says to the other side: which
calls, which evaluation, success or not. A write of a slice waits when the pipe
is full, a read when it is empty; each is one action, so a long message and a
short pipe meet. The server may die at any of its steps or fail to start; an
evaluation may follow another on the same server; a signal may stop the client.
Which calls are started in which turn is open here: `MacroScheduler` says it,
and sees the server only as `Exchange` and `ExchangeFails`. The two modules meet
at `EvalOnePassMacroCalls`: what `MacroScheduler` takes for granted, that the
exchange returns and brings results of calls that run, is what `EvaluationEnds`,
`OwnResult` and `NoStrayResult` check.

### JobScheduler

The names that `TaskQueue` has too are prefixed (`JobInit`, `JobNext`, `JobSpec`), so
that one module can hold the proofs of both. `execute` is the place in
`Job::Execute`. The tools of all batches are numbered in order; `Ends` marks the last
tool of a batch. `childWorkers` are the futures, `count` the semaphore. A pass of
`CheckExecuteResult` polls the futures one by one (`PollFinished`,
`PollRunning`, `EndOfPass`), in any order, while tools end (`ChildExits`) and a
crash of another thread may delete the files (`FilesDeleted`), after which a tool
is not started. `emplace` keeps only the first of two futures with the same
command string; `Twins` are tools with equal strings. The commands of a
compilation name different output files, so the runs have no twins, and the
theorems say where that is needed.

### TempFiles

`main`, the handlers that interrupt it (`OnMain`: SIGINT, SIGTERM on the main
thread) and the handlers of threads that crash beside it (`Beside`). A handler
on the main thread stops main where it is until it ends the process. The steps
of a deletion are single: the exchange of `isDeleted`, one `unlink` per step from
the last recorded file down, the directory, the store of `DELETED`. `IsDeleted`
waits for a bounded number of rounds: the bound is an action that may happen at
any time (`WaitExpires`), and `expired` remembers that it did. `open` are the
files a task or a tool is about to create. main comes to the deletion (`Finish`) when
the tasks of the queue are done, or stopped by the check; it need not wait for tools:
when one of a batch fails or cannot be started, `Job::Execute` returns and the others
go on (`Job.cpp:113-115`, `132-134`), beside the deletion and also after the compiler
has ended.

### TaskQueue

The owner adds tasks, creates threads one by one while the first are at work, and
joins them. A thread's loop is cut at the lock, the look at the empty queue,
`top`, `pop`, the unlock and the run of the task.

### PackageManager

`Resolve` is a call of `ResolveDependence` up to its loop, with everything an
earlier call left cleared. The recursion of `TarjanForSCC` is a stack of frames,
each with the dependencies its loop has still to take; hash containers are walked
in any order. The reference the results are compared with says of two packages
that one reaches the other when every set of packages closed under imports that
holds the first holds the second.

### DependencyGraph

One action per turn of the loops of building (`AddDependenciesForPackage`,
`AddDependenciesForImport`, `ReturnToImporter`) and of the queries
(`TakeFromQueue`, `TakeFromStack`), and one per beginning and end. Edges come in
the order of the package names, which is any order. A name list is a set: no
result depends on its order. `onlyUsedByMacro` is the outcome of loading the
packages of a source that is no macro package.

### SInt, ConstantRange, SIntDomain

Pure operators, in the order in which the code builds them up. `SInt` has the
words of w bits with their signed and unsigned readings, and the arithmetic of a
compiled program under the three overflow strategies (`Folded`, `CastFolded`):
that is the semantics the analysis is compared with. `ConstantRange` has a range
as the code has it: two words, `lower` inside and `upper` outside, which may wrap
around; equal bounds are the full range at the greatest word and the empty one at
0. Union and intersection by preference, conversions between widths, and the
ranges of sums, differences, products, quotients and remainders, wrapping or
saturating, follow `ConstantRange.cpp` case by case. `SIntDomain` adds the symbolic
bounds (from another value to a range of signed distances), the comparison of two
domains, and the join of `ValueRangeAnalysis.cpp`.

### RangeTransfer

A variable of the analysed program beside what the analysis has for it. `valueDomain`
is the `ValueDomain` in its state, TOP or a stored range (kind VAL); `domain` is what an
expression reads from it (`GetSIntDomainFromState`): a full range with the signedness
of the type for TOP only, otherwise the stored range with the signedness it was stored
with, also when it is full. A step is an expression, a cast or a meeting with another
path, whose state is TOP or a range of either signedness and may be joined into this
one or this one into it; the program evaluates the step and the analysis applies its
transfer function (`HandleBinaryExpr`, which stores TOP where it learns nothing,
`CheckSingleValueOverflow`, `ComputeTypeCast`, `ValueDomain::Join`). `Sound` then says
that no sequence of steps takes the value out of its range, and `AnswersSound` that
no comparison is decided against the program.

### RangeSymbols

A program defines values one after the other, each of which is a symbol. A bound
relates a value to an earlier one, so that it is wrong only together with what it
relates to, and is used several definitions later, also through a third value.
`DomainSound` is about the value defined last, `ComparisonsSound` about it and any
earlier one; both were true of the earlier ones when they were the last.

### AnalysisEngine

A flow graph, the statement of each block and the analysis are picked at the start;
`ProcessBlock` is one turn of the loop of `IterateSingleUnitToFixpoint`. The order
in which the blocks are first processed is that of `TopologicalSort`, whose recursion
is a stack (`Visit` is one step of it; each block is put on the stack and taken off
once, so twice as many steps as blocks are enough). The result
is compared with what the function really does (`Reached`, the configurations on
all its paths). Of the range analysis the domain is an interval here: its
arithmetic is what the other modules are about.

## 3. Runs

"pass" runs must find nothing; "violation" runs state what a comment or document
of the repository says and show an execution in which the code does otherwise.

| Run | Checks | Bounds |
|---|---|---|
| `scheduler` | slots, counter, arguments, what success means, nothing dropped when the server is lost, result independent of the schedule, refinement of `MacroEvalOrder` | both loops, inside the compiler and with a server; 4 calls below a root, 2 slots, all forms; calls may appear in a second pass |
| `scheduler_liveness` | `EvalMacros` ends | both loops, with and without a server; 4 calls, 2 roots, writes in any order |
| `macro_server` | results, stray results, causes of failure, server never asked for a result it cannot have; evaluation and shutdown end | both loops; 3 calls at once, one long, one failing, one without a method; 2 evaluations, 1 crash, a signal |
| `job_scheduler` | slots, no start after a failure was read, barrier, meaning of success, `Job::Execute` returns | 6 tools, 3 batches, 2 slots, one internal tool |
| `temp_files` | one deleter, nothing left at the end, the process ends | 3 files, two by tools that main need not wait for; main, one handler on it, two beside it |
| `task_queue` | each task once, done when the wait ends, no way to block | 4 tasks, 3 priorities, 3 threads |
| `package_manager` | components are circles, dependencies come first, result and completeness, call after call | all graphs on 4 packages with at most 2 imports each, up to renaming, all orders, any list of packages in each call |
| `dependency_graph` | recursion, completeness, caches, queries return | 1 source, 1 normal, 2 macro packages, at most 3 imports or re-exports each, rebuilt with other imports |
| `range_transfer` | ranges and decided comparisons along any path; unions and intersections are the best range there is | types of 2 and 3 bits; every range and value of the variable; the other operand with 1, 3 or 6 values, in comparisons and joins any; joins with TOP and with ranges of either signedness |
| `range_symbols` | symbolic bounds and the comparisons decided through them | programs of 4 values of 3 bits, literal 1 |
| `analysis_engine` | exact bits, ranges that hold, fixed point, number of visits | all flow graphs of 4 blocks, 3 analyses, a type with 13 values |
| `range_symbols_sub` (violation) | the comparisons, when any range may be subtracted | programs of 3 values of 3 bits, literals 1, 3, 5, 7 |

The options of a compilation that choose between loops (`enableParallelMacro`,
`useChildProcess`) are variables that every behaviour picks at the start and no
step changes, so one run covers every combination. A liveness property is checked
in the run of the invariants, under `FairSpec`, except for the scheduler: there
the fairness of the main thread is costly to evaluate with all forms of calls, and
the liveness holds for reordered writes too.

Why the bounds are enough. The interesting cases of the scheduler need more
ready calls than slots, a nested call, a sibling that fails, and a call that
appears in a later pass; four calls below a root have all of them, and the trees of
the liveness run have two roots. A lost or stray message needs two evaluations and
a restart between them. A lost slot of the job scheduler needs a
batch larger than the semaphore and another batch after it. Of the temporary
files the deletion of the last file, of one more and of the directory are
different steps; two contexts race for the exchange, a third waits; main deletes beside one
tool or two that still write. Three threads
and four tasks give a thread that finds the queue empty while one is created and
another runs. Graphs of four packages have two circles, nested circles and an
edge back into an open component through a closed one. Three bits are the least
width at which a range can wrap in one reading, in both and in neither, with values
on either side, and with two widths every cast narrows, widens or only changes the
reading. The sizes of the other operand are those of a single value, of ranges that
lie on one side of the sign, and of ranges that nearly fill the type. A comparison
through a third value needs three definitions and one more to be a merge. Graphs of
four blocks have a loop between two blocks with two ways in, a loop of one block and
a block no path reaches.

The packages of `PackageManager` are interchangeable and the run has invariants
only, so symmetry is sound there. That the highest priority is taken first is
proved (`HighestFirstCorrect`) and not checked by a run.

Bounds that are part of a model: `N` (calls, tools, files), `MaxRounds` and
`MaxCrashes` in `MacroServer` (evaluations, failures of the server), `Cap` (slices
in a pipe), the supply of call numbers in `MacroScheduler`, which bounds the
passes (in the code a macro that always produces another call is stopped by a
limit), the sets of packages and `MaxImports`, `Widths`, `OtherSizes`, `Width`,
`MaxValues`, `Literals`, `Size` and `Largest`. `Operations`, `Strategies` and
`CastStrategies` choose which expressions a path may have; the run has all of them
except THROWING binary expressions, for which the code computes the same numeric
ranges as for WRAPPING ones and the path ends where they overflow (`range_symbols`
has them).

Deadlock is checked in the runs of everything that is a process: its end is an
explicit step, and any other stop is reported. `RangeSymbols` and `AnalysisEngine`
stop, because a program has its last value and the analysis its last block, and say
so with `CHECK_DEADLOCK FALSE`. `MacroServer.cfg` has one long message and one call
without a method, `SameKey` is empty in it, and the ranges leave out the divisions,
casts and merges that `MinOverMinusOne`, `FlagMayDiffer`, `EqualMerges` and
`AnySubtrahend` let in: section 5 says what happens otherwise. The types are proved
where there is a proof module and are not checked again by the runs.

## 4. Fairness

Weak fairness only, of what really is scheduled again and again: the main thread
(`Main`, `Client`, `Driver`, `Compile`, a build or query that has begun), each
coroutine, thread or process on its own. A macro function and a tool are assumed
to return, as the code assumes: it has no time limit for them. A signal, a
crash, a failure, a new evaluation or a new build need not happen. The task
queue has no liveness run: its state graph has no cycle but the final step, and
no state without a step, so every execution that goes on ends the wait. In
`TempFiles` a waiting handler is a step of its own, so a wait that never ends
would be seen; that it ends is due to the bound in `IsDeleted`. `QueriesReturn`
assumes that macro packages do not re-export each other in a circle: with one,
the code queues both for ever.

## 5. Findings

A run that TLC ends with an execution, and an entry in `PROJECT.json`:

- `range_symbols_sub` (`CHIR/Analysis/SIntDomain.cpp:297`): the symbolic bound of a
  difference is the negated range of the subtrahend, stored without asking for its
  signed reading as `ComputeAdd` does. For an unsigned `c` above the signed maximum,
  `a - c > a` is then answered TRUE.

The other places where the code does less than a comment or a reader expects are
not runs of their own. Each is seen by giving the constants of a module the values
named here.

- `MacroScheduler`, `WeakMemory = TRUE`, two roots, `Forms = {"ok", "evalFail"}`:
  `SuccessMeansEvaluated` fails. The flag a coroutine sets after its tokens is a plain
  `bool` (`MacroEvaluation.cpp:960`); if the writes are seen in the other order a
  call is marked SUCCESS (`include/cangjie/Macro/MacroCall.h:69`) with no tokens.
- `MacroServer`, `N = 3`, `ThreadNum = 2`, `HasLibs = FALSE`, `NotFound = {1}`,
  `Big = {2, 3}`, `Cap = 1`: the two processes block. Messages are cut into slices
  for a short pipe, but both ends write without reading
  (`MacroEvaluationClient.cpp:199`).
- `MacroServer`, `SameKey = {1, 2}`: results are matched by identifier and position,
  which calls of one re-evaluated token list can share; `OwnResult` fails.
- `TempFiles`: SIGINT inside the deletion by main finds nobody who can finish it,
  and gives up after the bound (`TempFileManager.cpp:468`); `ExitClean` therefore
  asks that no wait ran out, where `TempFileManager.h:82` promises a deletion.
- `TempFiles`: the check before a write is not one step with the write, and a tool
  that still runs when its batch is given up does not check at all, so a file can appear
  after the deletion, also after the one by main. `ExitClean` speaks of what was there
  before it (`late` is the rest).
- `DependencyGraph`: the cache of the names forgets the flag it was filled with
  (`DependencyGraph.cpp:94`; `ImportManager.h:130` says what the flag means), so that
  the answer is the one for whoever asked first. `NamesCorrect` allows either.
- `DependencyGraph`: a macro package a source imports is missing from its direct
  dependencies when a macro package that re-exports it comes first by name.
  `DirectCorrect` speaks of the normal packages.
- `RangeTransfer`, `FlagMayDiffer = TRUE`: `Sound` and `AnswersSound` fail. A cast
  that changes the signedness leaves the reading of the domain
  (`ValueRangeAnalysis.cpp:395-421`; `SIntDomain.h:30` has it as the signedness of
  the range), and the next cast or join goes by the old one. This holds of a full range
  too, which a cast stores as it stores any other (`ValueRangeAnalysis.h:212-214`): an
  unknown UInt8 cast to Int8 (WRAPPING) and then to Int16 is zero-extended, and -1 is
  not in the range. The run leaves out a cast only where this matters: the signedness of
  the range is not that of the type and a word of the range has the highest bit
  (`ReadAsTyped`).
- `RangeTransfer`, `MinOverMinusOne = TRUE`, `Strategies = {"THROWING"}`: `Sound`
  fails. The quotient of the smallest value and -1 does not fit, and with it other
  quotients of the two ranges are lost (`ConstantRange.cpp:962-1072`).
- `RangeSymbols`, `EqualMerges = TRUE`: `DomainSound` fails. A join of domains with
  one numeric range is reported as no change (`ValueRangeAnalysis.cpp:65-74`), and the
  bounds of one branch are kept for both.
- `AnalysisEngine`: `MaybeUninitDomain` merges the places that may have initialised a
  variable but reports a change of the bits only
  (`MaybeUninitAnalysis.cpp:25-31`), so places found late do not travel round a loop
  to the blocks whose report (`MaybeUninitAnalysis.h:58`) lists them.
  `FixpointReached` asks for the places in functions without a loop.

## 6. Proofs

All theorems are about the specifications TLC checks, for every value of the
constants that satisfies the assumption of the module (`ConstantsAssumption`,
`WidthsAssumption` and `WidthAssumption` for the ranges) and, where the theorem names one, a condition on
the constants.

`MacroScheduler_proofs`, in six layers, each of which uses those before it.
*Control* (`TypeOK`, where the main thread may be while calls run, what a running
call looks like, and the count): the counter is compared with the set of calls that
run or are not decided yet, not with those that run, because a scan may still start
any of them. From it `TypeCorrect` and `CounterCorrect`. *Slotted* adds that a scan
goes on only while fewer calls run than there are slots; by counting, a call found
ready then has a slot. From it `SlotsCorrect` and `EvalCorrect`. *Numbered*: a call
number not in use yet has no trace anywhere, a ready call has no children, and a
serial pass meets a call once. With it every action maps to a step of
`MacroEvalOrder` or to none, which is `OrderCorrect`. *Visited* says what a scan has
left behind it: a call is decided, runs, waits for a child that comes before it, or
was found ready when the slots were full. From it `DroppedCorrect`, which is about
what is left when the server is lost. *Expanded* explains each status by what
happened to the call and its children; it needs the writes of a coroutine to be seen
in order, which is `SeenInOrder` in `ArgumentsCorrect` and `SuccessCorrect`: it holds
in the serial loop and on a strongly ordered machine, and section 5 says what happens
without it. *Settled* turns this round: a call that succeeded or failed did so for
the reason that the statuses of its children give. That two evaluations of one
tree end alike (`ScheduleCorrect`) then follows along the list: of the calls with a
wrong status the first has only children with the right one.

`MacroServer_proofs`, in three layers. *Shape* is the types, which messages are in
which pipe, and what goes with each place of the two programs. *Placed* follows
the calls while the pipes work (`Working`): a call that runs is in at most one place,
in a task on its way, at the server, in a result on its way, read, or ready; a task
names a call once and no later task names it again; a result says which evaluation
and which call it is of, and of failures only those with a cause. When the server
is lost nothing is said, until `Begin` has made new pipes or found the old ones with
nothing in them that belongs to a call (`PlacedBegin`: in the parallel loop questions
for a result without a call may be left over, and only those). `KeysTell` is the
condition of `ResultsCorrect`, `NoStrayCorrect` and `CausesCorrect`: in the parallel
loop no two calls have the same identifier and position. Section 5 says what happens
without it; in the serial loop, where one call at a time is out, it says nothing.
*Supplied* counts: in the parallel loop every turn asks for one result, with the calls
it starts or with none, and a server that is asked with no call left exits. Take the
tasks under way as one stream (`Out`). From a place where the server counts afresh,
which is now or after a message that makes it forget its calls, up to any later place,
the questions are no more than the calls it has (`Hand`, less the one a question in
work will take) or is told of (`Enough`); up to the end they leave one call for every
call that runs and whose question has not been asked (`Covered`), so the next turn may
ask. From it `SupplyCorrect`.

`PackageManager_proofs`. A call of `TarjanForSCC` *owns* what was visited since it
began and is on the stack, except what a later call owns. The invariant says that
what a call owns is in one circle with its package (`Owned`), that the lowlink is the
number of a package on the stack that it reaches (`LowReached`), and is no
larger than that of any package on the stack its own packages depend on
(`LowCovers`). When the lowlink is the call's own number, what it takes off the stack
together with what is in the list already is closed under imports, so that it is a
whole class of packages that reach each other: `OrderCorrect`. `ListComplete` adds
that every package of the call ends in the list, once, and that a circle is reported
exactly when there is one.

`DependencyGraph_proofs`. While the graph is built the frames follow their loops: a
package in progress has the edges of the imports its loop has taken, and what is
behind an edge is complete or in progress. When no frame is left, the complete
packages are closed under imports and hold the sources, so they hold all that the
sources reach: `GraphComplete`; and no package is entered twice: `RecursionEnds`.
A search for names has the edges of all names found, so it ends with the closure
(`CachedNamesCorrect`); a search for direct dependencies has the re-exports of the
macro packages it has followed in the queue or in the answer, so it ends with what the
source sees (`CachedDirectCorrect`).

`ParallelWork_proofs`, about two modules. For the driver, `BatchInv`: the tools before `next` are those that were
started; a tool without a future ended well or its failure is known; the futures
are those of one batch. Barrier, success, slots and `FailureStops` follow when command
strings differ; types also when they do not. For the task
queue, `QueueInv`: the mutex is held exactly between the lock and the
unlock, a thread that has read the head still sees it there, threads end only on
an empty queue to which nothing is added any more. That the head exists and is of
the highest priority is a lemma by well-founded order of the naturals.

`TempFiles_proofs`. `CleanInv`: who is between the exchange and the store is the
only deleter, everything above its position in the list is gone from the disk
except what came late, and `DELETED` means that one deleter went through. From it
`OneDeleterCorrect` and `ExitCorrect`.

`ValueRanges_proofs`. For `RangeTransfer` the invariant is `TypeOK` and `Sound`. `SumsAndCastsSound`
proves it for integer types of every width, every range and operand, and any sequence
of sums and differences (under all three strategies), joins, and casts between any two
types (under all three). Its conditions: a path has no products and quotients, and no
cast reads a range that has words with the highest bit by the signedness of another
type (`FlagMayDiffer`, where the property fails, section 5). Ranges of another
signedness may be stored, compared, joined and added, and cast as long as all their
words have one reading (`SameReading`). The lemmas go the way of the code: what
the two readings of a word are, when a word lies in a range that may wrap; union
and intersection contain what they should; the extremes of a range bound its
members in either reading; the bounds of a sum or difference enclose every sum or
difference of members, modulo 2^w, or the range is full; a saturated sum lies
between the saturated extremes. For casts: a truncated range contains every truncated
word, whether or not it spans whole turns of the narrower type; an intersection in the
preferred reading adds nothing to a range that does not wrap in it, so the part a
conversion keeps has only words that fit; what is not kept leaves a nonempty
difference, so the end of the type is added; a range that starts within the narrower
type may be truncated with its upper bound cut to 0 (`TruncWithUpperWrapped`); and the
difference between a range and its nonnegative part, which the code does not prefer in
any reading, has negative values only.

That a comparison decided by
disjoint or ordered ranges has the answer of the program is proved without any
condition: `AnswersFollow` takes only types and `Sound`, so it also says that what
TLC checks of `AnswersSound` for products and quotients can fail only where
`Sound` does. `SumsAndCastsAnswered` combines the two. The provers know nothing of powers
of two, so `WidthsAssumption` says all that is used of them: 2^w is a positive number
and twice 2^(w - 1), rounded as the code does, and of two widths the greater has a
multiple of twice the words of the smaller. All else is linear arithmetic over cases.

`JoinsArePrecise` needs the types only. A union or intersection either has exactly the
words it should (`ExactIsBest`), or the words lie in two arcs with a gap on both sides
(`TwoArcs`). Then the gaps before the two arcs are the only ones (`GapsOfTwoArcs`), so
exactly two ranges leave one of them out; the code picks between these two, and
because a range has as many words as lie between its bounds (`SizeIs`) its
comparison of sizes is one of numbers of words (`PreferredIsBest`).

For `RangeSymbols` the invariant is `SymbolsInv` (`Described`): the range of *every*
symbol holds its value, not only that of the last one, and every bound points to an
earlier symbol and allows the signed distance to it (`Allows`). `SymbolsDescribed` and
`SymbolsAnswered` follow for types of every width, any number of values and any
literals. The argument has one lemma for each function of the code: a sum lies the
right operand above the left one, and the bound keeps that distance because
`NumericBoundToSignedSymbolicBound` takes only ranges whose words read the same in
both ways (`AddDescribes`); `Negate` turns each word of a range around if the range
does not start at the smallest signed value, which for negatable words only the range
of that one value does (`NegateContains`, `NegatableStart`, `SubDescribes`); a merge
keeps a bound only where both sides have one, and widens it (`MergeDescribes`). A
comparison by bounds is one of differences: with 0 when the bound is for the other
operand, and of two differences to the same third symbol otherwise (`DistanceHolds`,
`SymbolAnswerSound`). The theorems hold where `AnySubtrahend` and `EqualMerges` are
FALSE, the conditions under which the program only subtracts ranges with a signed
negation and never joins two domains of one numeric range; without them the
properties fail (section 5). `WidthAssumption` says of the powers of two what
`WidthsAssumption` does.

`AnalysisEngine_proofs`, for flow graphs of any size, all placements of the
statements, and types with any number of values. The worklist begins in a good
order: `SortOrders` says of `TopologicalSort` that the entry comes first, no block
comes twice, the successors of a block in the order are in it, and every other block
comes after one of its predecessors; the invariant of the search is that its stack is
a path from the entry. `EngineInvariant` has, beside the types, seven parts.
*Awaited*: a block which a gen-kill analysis has not reached waits behind a
predecessor, so it is not dropped too early. *Settled*: the successors of a block
that is reached and does not wait have absorbed the effect of that block; where the
analysis gave up they have the full range, which nothing changes any more.
*InSequence* and *PlacesSettled*: without loops the blocks that wait are always the
last ones of the order, so the places, whose change is not reported, are complete as
well. From these `FixpointIsReached`. *RangeVisits* and *BitVisits* count: each visit of a
block but the first is due to another pair of a predecessor and the number of its
visit, of which there are three before the predecessor gives up, and once to all that
gave up; for a bit, to its one change. From them `VisitsAreFew`, a bound that does not
depend on the type and with which the loop ends. *Witnessed*: a block that is reached,
and a bit that is set, has a configuration with that state in every set of
configurations that holds the start and is closed under the steps of the function.
`ReachedIsLeast` says that `Reached`, a recursive function, is the least of those sets:
a growing chain of subsets of a finite set stands still before it has more steps than
the set has members. With that, `RangesAreSound` and half of `BitsAreExact` follow
from `Settled`, because what the states allow is a closed set; the other half
follows from `Witnessed`. Induction over these recursive functions (`Climb`,
`Iteration`) goes by a least counterexample, a set, and needs no operator as a parameter.

Not proved, only model-checked: products, quotients and remainders of ranges; and what
lies outside the reach of the prover: liveness, `ENABLED`, and induction over data.
(`Result` in `MacroScheduler` is a recursive function; `ScheduleCorrect` needs of it
only the equation of one call, which follows from the order of the numbers.)

## 7. Not modelled, and why

The content of messages, tokens, files and command lines; wording and layout.
`MonitoringParentProcess` and `PR_SET_PDEATHSIG` are one step (`ParentGone`). The
Windows variants of signals and futures. Of `ImportManager` only building the
graph and the outcome of loading.

Of the modelled components: two futures with one command string, of which `emplace`
keeps the first (`Job.cpp:136`), are `Twins` and appear in no run. Three accesses to
memory that is gone or half written lie below what the modules describe: a string
interpolation leaves `parentMacroCall` of its calls pointing at a call that dies with
the function (`MacroEvaluation.cpp:553`, read at line 415 and in
`MacroCall.cpp:75`); a handler may interrupt `push_back` on `deletedFiles`
(`TempFileManager.cpp:411`); a task queue may be destroyed while it still runs
(`TaskQueue.h:75`). Of the analyses: symbolic bounds across a cast from signed to
unsigned, the Boolean domain, branches with many cases, the analysis of lambdas and
of several functions, and what the passes make of the answers.

The language front end, the rest of CHIR and code generation are sequential walks
over unbounded data; the parts of them with a state machine of their own are in the
plan.

## 8. Plan

Written: the modules above, in the order of the table. To come, in this order:

1. `ImportLoading`: `ResolveImportedPackageForFile`, `HandleParsedPackage`, the
   order in which `onlyUsedByMacro` is set and taken back, compared with the
   outcome `DependencyGraph` takes it for; the two modules composed.
2. `IncrementalBuild`: the choice between no change, incremental and full builds
   over several compilations, with failures in between; the closure of the
   pollution as a fixed point.
3. `DiagnosticTransactions`: nested transactions, stashes and parallel parsing.
4. `MacroServer` composed with `MacroScheduler`, the exchange replaced by the
   protocol.

Theorems to come: products and quotients of
ranges, for which `SumsAndCastsSound` loses its first condition; safety of the modules
to come.
