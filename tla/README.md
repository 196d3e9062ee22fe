# A verification project for SimplyLang

SimplyLang is an interpreted language with a command line, an interactive
session, a static analyzer and a tree-walking evaluator, written in Rust. Its
values are handles to collections and struct instances that many names may
share; what keeps shared mutation in order is a *borrow runtime*: loans that are
recorded, tested and released while a program runs. Programs can be checked by an
analyzer before they run, import modules that run in evaluators of their own,
match values against nested patterns, and process collections and CSV files in
pipelines, some of them in worker threads, some with checkpoints that survive
interruptions. This directory holds TLA+ models of these parts, the TLC
configurations that check them, and proofs checked by TLAPS. The models are
translated from the Rust source; where the documents of the repository say
something else, a run or a note shows the difference (see *Findings*).

`PROJECT.json` lists the components, runs, mutants, source lines of every
definition, findings, hazards and theorems.

## 1. Inventory

Paths are below the repository's `src/`.

| Component | State it keeps | Operations | Interacts with | What makes it correct |
|---|---|---|---|---|
| Borrow runtime (`evaluator/objects.rs`, `execution.rs`) | the stack `active_collection_borrows` | admit, forward, reborrow, release loans; guards of writes | scopes (loans name a scope by index), calls (checkpoints), heap (identities) | loans end with their scope or call and no other; no write conflicts with a loan; references stay valid |
| Scope stack (`runtime/scope.rs`, `TypeScopes` in `evaluator.rs`) | scopes of names, binding arena, four parallel stacks per name; types of names | define, lookup, assign, push, pop | every statement; closures copy from it | the parallel maps agree; shadowing and unwinding restore the outer binding |
| Arenas and heap (`runtime/arena.rs`, `heap.rs`, `storage.rs`, `value.rs`) | slots with generations, free list | insert, get, remove | identities of loans | a stale handle never sees a new value |
| Collections (`runtime/collections.rs`) | contents of Arrays, Lists, Hashes | read, write along a path, add, remove | guards of the borrow runtime | writes hit the named slot only |
| Messages and structs (`evaluator/objects.rs`, `declarations.rs`) | instances, stack of running messages | construct, dispatch, save a field | scopes (fields are local names), loans | a message and its instance agree; lent fields are kept |
| Statements and control flow (`evaluator/execution.rs`, `evaluator.rs`) | Rust call stack, call depth | blocks, loops, try/catch/finally, calls | all of the above | scopes balance on every path; the right outcome wins |
| Expressions and patterns (`evaluator/expressions.rs`, `pattern.rs`, `types.rs`) | none of their own | evaluate, match, type tests | calls, collections | first matching arm; bindings are all or none |
| Pipelines (`evaluator/pipelines.rs`) | iterator chain, accumulators | where, derive, take, skip, distinct, partition, aggregates, CSV Flow | parallel, checkpoint, CSV | equal to the eager meaning; bounded buffers |
| Checkpoints and atomic files (`evaluator/checkpoint.rs`, `runtime/files.rs`) | checkpoint file, output file, temporary file | read, validate, write, remove; atomic replace | the CSV Flow, the file system, crashes | a resumed run gives the output of an uninterrupted one |
| Parallel (`evaluator/parallel.rs`) | chunks, results, threads | distribute, evaluate, join | pipelines | same result as one worker, in order |
| CSV (`evaluator/csv.rs`) | quoting state of the reader | read a record, parse, write a row | Flow | written rows read back |
| Imports (`evaluator/imports.rs`, `semantic/imports.rs`) | import stack, parse cache, exports, captures of functions and messages | load, export, expose, capture | modules share one heap; functions of a module run in the importer's evaluator | no cycles; functions read their module's bindings; what the analysis accepts resolves |
| Operators (`runtime/operations.rs`) | none | checked arithmetic, matrices, statistics | expressions | no wrap-around |
| JSON (`runtime/json.rs`), limits (`runtime/limits.rs`) | none | conversion; constants | | |
| Command line and session (`cli.rs`, `main.rs`) | one evaluator per session, pending programs | run, check, fmt, repl, ... | everything | a failed line leaves the session usable |
| Lexer, parser, syntax tree (`lexer.rs`, `parser.rs`, `ast.rs`) | position in the text | tokenize, parse | | what is printed parses back |
| Semantic analyzer (`semantic.rs`, `semantic/`) | scopes of static types, loop and function depth, return types, pattern matrices | analyze statements, patterns, pipelines, imports | the check, fmt, explain and bench commands only | accepts no program the evaluator refuses for the same reason; refuses no arm that can be reached |
| Formatter (`formatter.rs`), diagnostics (`error.rs`), static types (`types.rs`) | none | layout, rendering, comparison | | |

The program is single-threaded except for `parallel`. Its hard behaviours are
therefore mostly *sequences*: half-evaluated statements in whose expressions
arbitrary calls run, two mechanisms (scopes and calls) that release the same
stack of loans, errors in the middle of a step, names looked up again after they
may have been shadowed, and copies (message fields, loop elements) that become
stale. Crashes matter for checkpointed Flows, and thread interleavings for
`parallel`. The hazards are listed line by line in `PROJECT.json`.

## 2. Modules

| Module | Content |
|---|---|
| `BorrowLocations` | places a loan covers; overlap and covering of places |
| `Borrowing` | the borrow runtime: state, one action per statement or step, properties |
| `BorrowingProofs`, `BorrowingLoans`, `BorrowingReferences` | proofs: every action keeps the state well typed; loans and constructs nest; every reference has its loan, owners and lent fields stay |
| `CsvFlow` | abstract specification: what a checkpointed Flow promises |
| `FlowCheckpoint` | a Flow with a checkpoint: its files, its steps, crashes, resumed runs; properties |
| `FlowCheckpointProofs` | proofs: the checkpoint fits the output; `FlowCheckpoint` implements `CsvFlow` |
| `Arena` | generational slots: insertion, removal, handles |
| `ScopeMaps` | abstract specification: scopes as a stack of maps whose operations happen at once |
| `ScopeStorage` | `ScopeStack` over an arena and `TypeScopes`, every loop over names in single steps; refinement of `ScopeMaps` |
| `Pipelines` | the evaluation paths of pipelines, worker threads, the static check of steps, and what a pipeline means |
| `Matching` | the usefulness analysis of patterns, and matching and destructuring at run time |
| `Texts` | the statements of programs that open each other |
| `ImportAnalysis` | the analysis of a file and of what it opens |
| `Imports` | the execution of both, with exports, captures and calls across modules |
| `CheckedImports` | analysis and execution of the same program |
| `ImportsProofs` | proofs: files, scopes and captures of every program |
| `ScopeStorageProofs`, `ScopeMapsProofs` | proofs: handles, maps and types of `ScopeStorage`; the refinement of `ScopeMaps` |
| `ControlFlow`, `ControlAnalysis` | how statements end, over a stack of constructs; the analyzer's verdict on the same programs |
| `ControlFlowProofs` | proofs: scopes nest in constructs; finally blocks and errors are accounted for |
| `MCBorrowing`, `MCFlowCheckpoint`, ... | one per specification: small values, programs and bounds for TLC |

Each module has one specification; the modules meet in the code they share, not in
one large state. `ScopeMaps` is what the other models take scopes for: `Borrowing`,
`Imports` and `ControlFlow` keep a stack of maps of their own, and `ScopeStorage` shows
that the five maps and the arena of the code are one. `Pipelines` evaluates a Flow without
interruptions, `FlowCheckpoint` a Flow without states of steps. `ControlFlow` says which
paths leave a construct; `Borrowing` has one action `Leave` for all of them.

### State and actions of `Borrowing`

| Variable | In the code |
|---|---|
| `scopes` | `Evaluator::scopes`: for each scope, each name's value and its mutable, reference and exclusive flags |
| `active` | `Evaluator::active_collection_borrows`, in order |
| `heap` | contents of collections and struct instances, by identity |
| `frames` | the Rust call stack: open blocks, loops, matches, half-evaluated statements, calls whose parameters are being bound, running calls and messages (`active_message_states`, `call_depth`, `borrow_checkpoint`) |

A behaviour is a run of *any* program over the given names. Each action is a
statement, or the part of one that no other code can interrupt. A statement that
evaluates expressions between its guard and its effect is split there
(`BeginReassign`/`FinishReassign`, `BeginMutation`/`FinishSetIndex`, ...), and in
between calls, messages and matches may run on top of its frame, as they may in
the code. A reference whose path has calls in it reads its path segment by segment
(`BeginBorrow`, `ReadSegment`, `FinishBorrow`): what the first segments led to may
have changed when the last one is read, and the code then walks the path a second
time, from the owner's value, for the locations of the loan (`execution.rs:405`). A call binds its parameters one action at a time, and any of them can
be refused (`RejectReferenceParameter`). `Leave` ends the innermost construct:
normally, by an error, by `return` or by `break` - for loans and scopes the code
does the same on each of these paths. A statement that the interpreter refuses
changes nothing (`MakeReference` and the parameters of a call are the exceptions,
and are modelled).

Two fields are auxiliary, no action reads them: a loan's `home` (the scope its
owner was found in) and a frame's `loans` (the loans when it was opened).

### State and actions of `FlowCheckpoint`

| Variable | In the code |
|---|---|
| `input` | which version of the input file is at its path: the `input_bytes` and `input_modified_nanos` a checkpoint records |
| `output` | content of the file `write_csv` writes |
| `checkpoint` | content of the checkpoint file, or `None` |
| `previous` | the checkpoint the directory named before its last change; it may come back after a power loss |
| `flow` | the running `evaluate_csv_pipeline`: the file it opened, the number of records read, the position it resumes from, the checkpoint in the temporary file, and how the last run ended |
| `interrupts`, `faults` | bounded counters of the environment's actions |

| Actions | In the code |
|---|---|
| `Open` | the input is opened before the checkpoint is read |
| `Reject` | `validate_checkpoint_source` or `validate_checkpoint_output` refuses the checkpoint |
| `CreateOutput`, `ResumeOutput` | `File::create`, or opening for appending and `set_len` to the committed length |
| `SkipRecord`, `DropRecord`, `FailRecord` | a record before the checkpoint's position; one that `where` drops; one that is invalid or fails in a step |
| `WriteRow`, `EndRow` | `writeln!` to an unbuffered file: the row, then the end of line |
| `PrepareCheckpoint`, `PublishCheckpoint` | after each chunk: measuring the files and writing the temporary file; the rename of `atomic_write` |
| `EndOfInput`, `RemoveCheckpoint` | the loop ends; the checkpoint is removed |
| `Interrupt` | the process is killed, or a file operation fails, between any two steps |
| `ReplaceInput`, `EditOutput`, `PowerLoss` | another input, a changed output; loss of what was not synced |

`CsvFlow` knows of none of this: output is committed by whole batches, delivered when it
is complete, and only counted damage takes committed output away. The refinement
mapping takes for committed the checkpoint's position and the output's prefix of the
committed length, and for delivered the output of a run that is done.

### State and actions of `ScopeStorage`

| Variable | In the code |
|---|---|
| `arena` | the `Arena` of the scope stack's values: slots with generations, free list |
| `scopes` | `ScopeStack::scopes`: the handles of each scope's names |
| `bindings`, `mutability`, `references`, `exclusives` | the four maps from names to stacks, one entry for each scope that binds the name |
| `types`, `typeBindings` | `TypeScopes` of `evaluator.rs` |
| `items` | the item bindings of nested pipelines |
| `work` | the loop over names that is under way: of a destructuring declaration, of a destructuring assignment, of a pop |
| `released`, `refused` | auxiliary: handles given up; declarations refused after their type was recorded |

One action per operation (`Declare`, `DeclareLoop`, `Reassign`, `Rebind`, `BindItem`,
`DropItem`, `Push`), and for those with a loop a beginning, one step per name in any
order, and `Finish`. A slot's generation is bounded; a slot whose generation cannot grow
is retired, which `MaxGeneration = 1` lets happen.

### State and actions of `Pipelines`

`pipeline` is the expression; `at` the function that evaluates it; `items`, `steps` and
`index` what it works on; `counters` and `total` the state of steps and of the terminal;
`threads` and `results` those of `parallel.rs`. `Dispatch` and `Route` choose among the
five paths as `evaluate_pipeline_steps` does; `StreamItem` and `StreamEnd` are the item
loops (lists, ranges, CSV rows), `FoldItem` and `FoldEnd` the fused and the scalar-range
loop, `EagerStep` and `EagerEnd` the path that materializes every step; `Spawn`, `Worker`,
`Join`, `Drain` and `Merge` are the worker threads, their joins and the merge. `Accepted`
is the check of `semantic/pipelines.rs`. `Meant` says what a pipeline means: each step
makes of a stream - items, then an end or a failure - another one.

### State and actions of `Matching`

`statement` is a match or a destructuring declaration; `questions`, `todo` and `answered` are
the calls of `pattern_vector_is_useful` the analyzer makes, each with the recursive calls
it still has to make, so that an endless recursion is an endless behaviour; `value`, `arm`
and `bound` are the run. `Calls` splits a question by constructors
(`ConstructorCall`, `DefaultCall`), by intervals of integers, by lengths of sequences and by
keys of hashes, as `semantic/patterns.rs` does. `Match` translates `evaluator/pattern.rs`.

### State and actions of `Imports`

| Variable | In the code |
|---|---|
| `disk` | the files; a program is chosen in the initial state |
| `evaluators` | one per execution of a file: scopes, structs and messages, import stack; kept after its file was left |
| `functions` | function values: name, body, captures; and, auxiliary, the evaluator that declared it and what it saw (`sees`) |
| `control` | the open files and calls: the recursion of `load_import` and `invoke_function` |
| `result`, `status` | what the last frame hands over; how the program stands |
| `lastRead` | auxiliary: what a function just read under a name it does not bind itself |

`OpenModule` (cycle check, new evaluator, registration), `BindAlias`, `BindExposed`,
`ExportStatement`, `DeclareFunction`, `CallFunction`, `SendMessage`, `Construct`, `Leave`
are the statements and calls; `Recaptured` is what `load_import` does to the messages
of exported structs, `Interchange` to exported values. The names that a function captures
are computed by a recursion over its body; `Imports` takes it as the parameter `Free`, so
that what is proved does not depend on it, and `CheckedImports` defines it (`FreeNames`)
and compares the verdict of `ImportAnalysis` (`Accepted`) with the execution.

### State and actions of `ControlFlow`

`frames` is the recursion of `execute_statements`: each frame is a construct (`if`, `for`,
`while`, `try`, `catch`, `finally`, `match`, `call`, the program) with the statements it
has left; `outcome` is the `Result<Flow, SimplyError>` of the block that just ended, or
`Running`; `scopes` the names of each scope. Conditions, patterns, guards and the number
of items are chosen by TLC. `Enter...` opens a construct with its scope, `Leave...` closes
it and decides what becomes of the outcome. What fails before a construct is entered has no
scope to close (`Fail`, and `FailCondition` in a later round of a `while`); a `for ref` that
`begin_shared_iteration_borrow` refuses fails inside its scope, which is closed at once
(`EnterFor`). `ledger` is auxiliary and counts finally blocks
due and begun, errors raised and settled; a frame's `outer` is auxiliary too.
`ControlAnalysis` is the analyzer as a function of the same programs, with `loop_depth`,
`function_return`, `inferred_return` and `saw_return` as the fields of a record.

### Abstractions

Of the Flow:

* A checkpoint holds the committed output itself where the code has its length and
  checksum: collisions of the checksum are left out. A version stands for a length and a
  modification time; two versions never have both in common.
* The checkpoint's paths and format version are the same in every run, and so are the
  steps of the Flow (the checkpoint does not record them).
* A record is a model string, `Step` says what the steps make of it: a row, nothing or
  an error. Steps with state of their own (`take`, `distinct`, ...) are left out, as the
  code refuses them together with a checkpoint; streams start at their first record.
* An output that does not exist is an empty one. Temporary files are never read again
  and left out. The temporary file is synced before the rename, the directory is not.

Of the borrow runtime:

* Arrays, Lists and Vectors are one kind (`List`); an Array is a list to which
  nothing is added. Tuples, matrices and enum payloads are left out as containers.
* A value keeps its type (`SortOf`) and a write keeps the type of what it
  replaces, as the runtime's type tests do; inference is left out.
* An expression without calls yields any scalar, visible value, element of one,
  or fresh collection (`Readable`). `Fresh` collections stand for newly allocated
  ones: an identity that nothing reaches.
* `remove` takes scalars only (equality of collections is structural in the code).
* Names, keys and fields are model strings. The order in which a loop walks a Hash
  is any order; the code's is that of the key strings.
* A function's captured values are part of its `Signature`; making closures is
  not modelled. Parameters of functions have declared types.
* Calls of functions not bound under their own name push one more scope in the
  code, which holds only that name; it is merged with the scope of the captures.
* `Declare` stands for declarations of one name; destructuring declarations are
  sequences of it as far as loans are concerned.

Of the scope stack: the recycling of emptied scopes (`reusable_scopes`), the count of live
slots and the identifier of the arena are left out; so are `replace_visible` (adding to a
list) and writes through references, which go to the heap and not to the scopes.

Of pipelines: values are integers up to `MaxInt`, booleans and rows of one field; an
expression is a name with its results (`Apply`) and its static types (`ExprType`). Text of
CSV is left out: a row that does not parse is `Bad`.

Of patterns: bodies, types and provenance of arms are left out, as are Matrix and Function
types and nested `Unknown`. The borrow of a `ref` pattern is in `Borrowing`.

Of imports: types of values, parameters, fields, enums, the cache of parsed texts, blocks
and the session are left out. Within a file a name is used for functions or for values,
not both. An error ends the program.

Of control flow: conditions are Bool; callees are functions at the top of the file without
captures and parameters; the last arm of a match takes everything exactly if the analyzer
knows that it does; call depth and loans are left to `Borrowing`.

### Bounds

*Borrow runtime.* `MaxCallDepth` (16 in the code), `MaxScopes`, `MaxLoans`, `MaxPath` (path length)
and `MaxList` bound the model; `Construct` selects the constructs a run's programs
use, so that each run can nest the ones it is about. Two calls deep, three scopes
and three loans suffice for the cases that matter: a caller, a callee and a callee's
callee; a loan forwarded once and refused once; a loan below, in and above the
construct that ends; a reference, one made from it, and a second one made from it.
Paths have one segment in `BorrowCalls` and `BorrowWrites`, and up to two in `BorrowMessages`,
so that a message can run between the two and change what the first one led to. `BorrowWrites`
has five names: a list, a hash and three references
(`RefName`), which are interchangeable (`SYMMETRY`). No configuration of the borrow
runtime checks for deadlock: a program may end in any state, and a bound may stop it.

*Flow.* Two inputs: `old` has four records of which one is dropped, so that the second
batch is full and the first one is not in rows; `new` has three, so that its last batch
is partial, and its last record fails. `Interval` is 2: a checkpoint after a batch, then
more rows, then an interruption. Three interruptions (`MaxInterrupts`) allow one in the
first batch, one after a checkpoint and one in the resumed run; two faults (`MaxFaults`)
allow a damaged output on top of an old checkpoint. Deadlock is checked: after any run
another one can be started.

*Scope stack.* Two names, two values, a type that admits one of them and one that admits
both; `MaxScopes` 3 (a binding below, in and above the scope a loop works on), two slots
and one reuse of each (`MaxGeneration` 1), so that slots are retired and the arena is
exhausted. Names are symmetric. Deadlock is checked.

*Pipelines.* All pipelines of up to two steps from eighteen, and parallel ones of three,
over empty and short lists, ranges and CSV rows with a bad one, and every terminal.
`MaxInt` is 8, so that sums and products pass it; at most 3 workers, chunks of 3 and 4
chunks, so that each limit is passed by some pipeline. Deadlock is not checked: a
pipeline that is done stops.

*Matching.* Eleven types with up to nine patterns each and all matches of up to three arms
of them, one guarded; `Int` from -2 to 2, lists up to length 3, one longer than any
pattern without a rest. Deadlock is not checked: a statement ends.

*Imports.* Three files, each of which can name the others, in every order of up to three
declarations; chains of three files, a cycle, a file that names none; `MaxCallDepth` 3.
Deadlock is checked.

*Control flow.* About ten thousand programs: every construct around short blocks, again
around itself, and a core of them around each other three deep; loops of up to two rounds
(`MaxRounds`), which suffices to meet the scope of the round before. Deadlock is checked.

### Scheduling

The borrow runtime, the scope stack, imports and control flow have one thread and run
programs that may stop or loop anywhere; nothing obliges a program to take a step, so no
fairness is assumed and no liveness is claimed of them.

A Flow is a loop of its process: weak fairness of `FlowStep` says that a running process
runs. Weak fairness of `Open` says that the user (or the job scheduler) starts the
program again as long as it is not running; the code does not, and the documentation of
checkpoints addresses just this user. Nothing is assumed of the environment except that
it interrupts only finitely often (`MaxInterrupts`).

`Pipelines` assumes weak fairness of the main thread and of each worker: threads of the
operating system that are started and not blocked run. The main thread blocks in a join
until the worker has ended; no worker blocks. `Matching` assumes weak fairness where it
asks whether the analysis ends (`FairSpec`): it waits for nothing.

## 3. Runs

Runs whose names begin with `Borrow` use `MCBorrowing`, the others the `MC` module of
their name. Runs that pass:

| Run | Question | Properties |
|---|---|---|
| `BorrowCalls` | calls with `ref` and `mut ref` parameters among local variables and references, loops by reference, matches and failed declarations of a session, over two names of one list | `TypeOK`, `CallsPreserveLoans`, `NoDanglingLoan`, `ReleasedInOrder` |
| `BorrowWrites` | every write to a list and a hash while three references to them, to their slots and from each other are held | `OwnerPinned`, `LoanedPathsResolve` |
| `BorrowMessages` | nested messages, among blocks, to a struct whose fields are lent, loops by value and by reference over a list that holds one list twice, messages inside the path of a reference | `ReferencesAreLoaned`, `LentFieldsKept` |
| `FlowCheckpoint` | a Flow that is interrupted, resumed, given another input and damaged files | `TypeOK`, `CompleteOutput`, `AcceptedIsExact`, `KeepsPromise`, `Completes` |
| `ScopeStorage` | every operation of the scope stack and of the stack of types, name by name | `TypeOK`, `HandlesLive`, `StaleStaysDead`, `MapsAgree`, `ValuesHaveTypes`, `CapturesWhatIsSeen`, `ImplementsMaps` |
| `Pipelines` | every pipeline on the path the evaluator takes, with worker threads in every order | `CoveredIsMeant`, `AcceptedRuns`, `Terminates` |
| `Matching` | every match and destructuring declaration over small types, analyzed and run | `ExhaustiveMatches`, `UsefulnessIsExact`, `BoundAsChecked`, `RestIsRemainder` |
| `Imports` | programs of three files, analyzed and run | `TypeOK`, `NoFileWaitsForItself`, `ScopesFollowCalls`, `FunctionsReadTheirModule`, `MessagesReadTheirModule`, `AcceptedProgramsResolve` |
| `ControlFlow` | every path through programs of nested constructs, analyzed and run | `TypeOK`, `ScopesRestored`, `FinallyAlwaysRuns`, `ErrorsAreNotLost`, `AcceptedControlHasTarget`, `AcceptedNamesResolve`, `AcceptedFunctionsReturn` |

*Borrow runtime.* `CallsPreserveLoans`: however a call ends, its caller has the loans it had.
`NoDanglingLoan`: the scope that holds a loan is open, its owner is declared, a
parameter's loan belongs to a call that has not returned. `ReferencesAreLoaned`:
every name bound as a reference is backed by an active loan of its mode.
`ReleasedInOrder`: loans are a stack although `pop_scope` filters and calls
truncate. `OwnerPinned`: the owner of a local reference stays bound to what was lent.
`LoanedPathsResolve`: no step invalidates the path of a local reference, unless an
exclusive reference was borrowed twice before (`WholesBeforeSlots`, see the findings).
`LentFieldsKept`: a message does not write a field that is lent, for programs that change no
collection in place - such a change saves the message's copy of a field again
(`execution.rs:566` and 614) without the test of an assignment. `OwnerPinned` holds under the
conditions of its theorems (section 4). `LoanedPathsResolve` is about collections of
scalars (`MaxPath = 1`), in programs without shadowing, calls and loops by value; the findings
below show what those add.

*Flow.* `CompleteOutput`: a Flow that completes, after whatever interruptions, has written what
an uninterrupted one writes, no row lost, repeated or torn. `AcceptedIsExact`: a
checkpoint that a run would accept, whatever became of the files, pairs its position with
exactly the output of the records before it. `KeepsPromise`: the refinement of `CsvFlow`.
`Completes`: an undamaged Flow over an unchanged input without bad records completes. The
input is replaced between runs only; the findings say what happens otherwise.

*Scope stack.* `HandlesLive`: every handle resolves and is held once, and what the free
list offers is empty, also halfway through a pop. `StaleStaysDead`: a handle that was given
up never resolves again. `MapsAgree`: the maps of a name have one entry for each scope that
binds it. `ValuesHaveTypes`: a binding has the type recorded in its own scope.
`CapturesWhatIsSeen`: the walk of a closure finds what a lookup finds. `ImplementsMaps`:
the refinement of `ScopeMaps`.

*Pipelines.* `CoveredIsMeant`: whatever the path and the order of the threads, a pipeline
yields what its steps mean, except in the three combinations the findings describe
(`Covered`). `AcceptedRuns`: what the analyzer accepts meets no type error.
`Terminates`: nobody waits for a worker that has failed.

*Matching.* `ExhaustiveMatches`: a match that is accepted finds an arm whatever its guards
say. `UsefulnessIsExact`: what is called unreachable is so, and what is called reachable is
for types the analysis takes apart completely. `BoundAsChecked`: an arm runs with the names and
types it was checked with, whichever alternative matched. `RestIsRemainder`: a rest holds
what the patterns before it did not take.

*Imports.* `NoFileWaitsForItself`: the open files are those of the import stack, and none
is there twice. `ScopesFollowCalls`: a call that runs in another evaluator than its
caller pops what it pushed where it pushed it. `FunctionsReadTheirModule`,
`MessagesReadTheirModule`: an exported function or message reads the bindings its module
had, whoever calls it. `AcceptedProgramsResolve`: what the analysis accepts meets no
unknown name, double declaration, failed import or unknown message, if modules are written
in the usual order and types stay in their file.

*Control flow.* `ScopesRestored`: however a construct is left, the scopes are those it was
entered with. `FinallyAlwaysRuns`: every `try` begins its `finally` block exactly once.
`ErrorsAreNotLost`: an error is on its way, waits for a finally block, was caught or was
replaced by what a finally block did. `AcceptedControlHasTarget`, `AcceptedNamesResolve`,
`AcceptedFunctionsReturn`: the verdict of the analyzer on break, continue and return, on
names, and on "every path returns" is true on every path, with the exceptions below.

### Findings

Three runs check what a document of the repository says, and TLC finds a program
for which the code does something else.

| Run | Property | What the code does |
|---|---|---|
| `VPipelines` | `StepsAreApplied` | `drop_while` is passed over on lists (`pipelines.rs:792`); `derive` before `any`, `all` or a partly handled aggregate is applied twice (920); `take` over CSV rows does not end the loop before an aggregate (716) |
| `VMatching` | `Terminates` | the usefulness analysis of a recursive enum or struct asks the same question again and again (`semantic/patterns.rs:513`) |
| `VImports` | `LexicalBindings` | a function of the executed file, and a message within its own module, looks up its free names in the scopes of its callers (`objects.rs:658`) |

Further observations made while modelling, which are not kept as runs. Programs run by
`simply run` and by the session are evaluated without static analysis.

*Borrow runtime.*

* `f(x, x)` for `f(mut ref x, mut ref y)` makes two exclusive loans of one list: the
  second argument counts as forwarded from the first *parameter* (`objects.rs:590`).
  A reference to a whole object can be assigned on account of a slot reference of the same
  name (989): admission goes by names.
* Two exclusive references can be made from one exclusive reference (1041). After
  `r is mut ref x`, `s is mut ref r[1]` and `t is mut ref r`, `t remove` empties the list and
  leaves `s` without a slot: the test of a change (`MutationAllowed`) asks whose the newest
  loan of the list is. `LoanedPathsResolve` without `WholesBeforeSlots` is refuted by this
  program.
* A call in the path of a reference may reassign its owner, which was read before
  (`execution.rs:334`): the loan covers the old object, under the name of the new one.
* `m is mut ref n`, where `n` is itself a reference to a field that holds a collection, is left
  with the old collection when `n` is written through.
* An index path leads into a collection that a `for ref` covers; only the outermost
  collection is tested (`execution.rs:613`).
* A function called in an index expression rebinds the target after it was tested
  (`execution.rs:581`).
* A write through a reference finds its owner by name, and finds a shadowing one
  (`objects.rs:875`); it is not tested for escape, so a list that a `for ref` covers can be
  stored (`execution.rs:476`).
* A reference whose name is taken leaves its loan behind in a session
  (`execution.rs:435`, `cli.rs:838`); `BorrowCalls` has such loans.
* An outer message goes on with its copy of a field that a nested one changed
  (`objects.rs:709`); a write through a reference to a field does not reach the copy of a
  running message (881).
* A loop by value rebinds its variable without testing loans (`execution.rs:850`);
  `BorrowWrites` with `"for"` among its constructs refutes `OwnerPinned`.

*Flow.* The input's version is taken from its path at each checkpoint, not from the file
that is being read (`checkpoint.rs:212`): an input replaced during a run is recorded with
rows of the old one, and the resumed run mixes both (`ReplaceWhileRunning = TRUE` refutes
`CompleteOutput`).

*Scope stack.* A refused declaration leaves its type recorded (`execution.rs:307`), and the
variable of a loop has no recorded type (852): a later assignment is tested against the
type of a variable it shadows.

*Matching.*

* A tuple that backs a Vector never matches a sequence pattern, though `[]` and
  `[h, ...t]` are accepted as exhaustive for Vectors (`TupleBacked`).
* The rest of a Vector keeps the Vector's dimension in a match, and the type of an Array in
  a declaration.
* The default matrix does not see a catch-all inside a nested or-pattern, and rows of a
  hash that ask for other keys are dropped: some reachable arms are refused (`Simple`,
  `Precise`).
* Ranges are never exhausted by sequence patterns; the rest of a range that overflows is a
  limit error.

*Imports.*

* The messages of a struct that a second module exports again are captured again, with
  that module's bindings (`imports.rs:147`; `ExportsAgain`).
* Exported functions that construct a private type of their module, or send to one, fail
  or use the importer's type; a message declared on an imported struct is accepted and not
  found, since declarations are registered before imports run (`TypesStayHome`).
* A hoisted function called before a global it reads is accepted and fails; an early
  `return` of a module leaves exports undefined (`InUsualOrder`).
* In the session the import stack of a module has one entry, so that its functions take
  no captures (`imports.rs:193`). A relative path in an imported function is resolved
  against the caller's file. An import in a function body is not analyzed.

*Control flow.*

* A loop by value has one scope for all its items and `while` has none: a declaration in
  the body is refused in the second round, though the analyzer accepts it
  (`execution.rs:852`, `DeclaresInLoop`). What the body of a `while` declares stays
  declared for the analyzer, also if it runs no round.
* A type that is inferred from returns on some paths only is taken for the type of all:
  a function without `gives`, or an arm, can yield `Unit` or another type
  (`semantic/statements.rs:843`, `semantic/patterns.rs:124`; the auxiliary `vague`).
* A `return` in an arm ends the match only, but must fit the declared type of the function.

### Mutants

For every property of a passing run, `PROJECT.json` names a variant of the code, marked
`Variant` where it is defined, under which TLC finds it violated. Some of them: a guard
that looks at exclusive loans only; a refused call that keeps or drops too many loans; a
scope pop that keeps or drops the wrong ones; an output not cut on resuming; a checkpoint
whose position is one ahead; a slot reused without a new generation; a pop that forgets
one flag less; a join that waits for a failed worker; a range bound that is inclusive; a
cycle check that looks at the executed file only; a capture that leaves out nested
functions; an error that leaves a loop before the item's scope is popped, or a catch clause
without its finally block; an analyzer that takes an arm for part of the loop around it.

## 4. Proofs

`BorrowingLoans` proves, for every choice of the constants that meets the named
assumptions (finite sets of names and keys, disjoint kinds of identities,
well-formed signatures and initial state):

| Theorem | Statement |
|---|---|
| `LoansNest` | `Spec => []IInv` |
| `TypesHold` | `Spec => []TypeOK` |
| `CallsKeepLoans` | `Spec => []CallsPreserveLoans` |
| `NoLoanDangles` | `Spec => []NoDanglingLoan` |
| `LoansEndInOrder` | `Spec => ReleasedInOrder` |

None of the properties is inductive. That a call gives back its caller's loans,
for instance, needs that the loans below its checkpoint do not hang on scopes the
call popped. The invariant `IInv` is `WellTyped` (the types, and what each kind of
frame stores) with `Nested`:

* `FrameNests`: the depth and the checkpoint of an inner construct are at least
  those of the outer ones; blocks, loops, matches and calls have opened a scope of
  their own, half-evaluated statements and calls being bound have not; a call being
  bound is innermost;
* `LoanSplit`: each construct's checkpoint splits the loans - those below it hang on
  scopes at or below the construct's depth, those above it on deeper scopes or on a
  call that is the construct or inside it;
* `LoanHeld`: what a loan hangs on exists;
* `LoansKept`: the loans below a checkpoint are the ones recorded when it was taken.

`LoanSplit` is the heart: filtering the loans by scope down to a depth then removes
exactly the loans above a checkpoint that are not parameters' (`RetainedIsPrefix`),
so that `pop_scope` and truncation agree and both only cut the stack. The general
lemmas (`GrowNested`, `OpenNested`, `LendNested`, `LendToCallNested`, `StartNested`,
`CloseNested`) are about the three stacks as plain sequences; each action is then one
lemma that combines them. `IInv` was also checked by TLC on the configurations of the
borrow runtime before it was proved.

`BorrowingReferences` goes on from there, under the same assumptions:

| Theorem | Statement |
|---|---|
| `LoansOutliveReferences` | `Spec => []RInv` |
| `ReferencesLoaned` | `Spec => []ReferencesAreLoaned` |
| `LentFieldsStay` | `NoCollectionWrites => (Spec => LentFieldsKept)` |
| `OwnersPinned` | `NoRebinding => (Spec /\ []ScalarSlots => []OwnerPinned)` |
| `UnshadowedOwnersPinned` | `FlatPrograms => (Spec /\ []NoShadowing => []OwnerPinned)` |

A reference may be bound in an older construct than the one that ends, and its loan may be
below or above that construct's checkpoint: that the loan is there now does not say that it
is there after the end. `RInv` is `IInv` with `Backed`, which says of each loan that backs
something how long it stays: `HeldWhile(loan, scope)` is that each construct whose end
leaves the scope open began when the loan was there. Then

* `RefsBacked`: a reference is backed by a loan that is held while its scope is open;
* `LoopsBacked`: a `for ref` has exactly one scope of its own while it is between two
  elements, and the loan in it is held as long; the scopes of its elements, which are one
  deeper, use it;
* `BindsBacked`: a call that is being set up has the loans of the `ref` parameters it has
  gone past. They need no scope yet: the body's scope, opened last, is above every construct.

Most steps end no loan and need three comparisons of before and after (`RefsFrom`,
`LoopsFrom`, `BindsFrom`; lemma `KeepBacked` and, for steps that go on, open or pop,
`ContinueBacked`, `OpenBacked`, `PopBacked`). `CutBacked` is the end of a construct, where
`HeldWhile` pays. A new loan is held while no construct under way is as deep as its scope
(`NewestHeld`), which is so where statements run (`DepthBelow`). `RInv` was checked by TLC
before it was proved.

The last three theorems are about what is lent and hold for programs without certain
statements; for those that the first two leave out, section 3 says how they break it.

* `LentFieldsStay`: no collection is changed in place (`NoCollectionWrites`). `FInv` adds to
  `IInv` that a lent slot of an instance is one of its fields and that no change in place is
  under way. Then only the end of an assignment and a destructuring write a field, both after
  `FieldMutationAllowed`, whatever was lent while their values were evaluated.
* `OwnersPinned`: no loop by value, no call in the path of a reference (`NoRebinding`), and
  a name that is written through as a slot reference is bound to a scalar (`ScalarSlots`, a
  condition on the states of the behaviour). The property is not inductive: an assignment
  tests its name before its value is evaluated, and calls run in between. `OInv` says of each
  half-evaluated assignment that none of the loans it began with is of its binding
  (`Unlent`); the loans that the calls made have ended when the assignment goes on
  (`LoansKept`), so its write redirects no owner. A declaration hides no owner, because a
  loan records in which scope its owner was found; and a write through a reference changes a
  binding to a scalar, which owns nothing.
* `UnshadowedOwnersPinned` replaces `ScalarSlots` by what a program is made of: it runs from a
  file, has no struct instances, and no type has both objects and scalars (`FlatPrograms`). In
  behaviours without shadowing, a name of a local slot reference then is bound to a scalar as
  long as its loan is there (`SlotsScalar`, in `UInv`), because every assignment keeps the
  type. `BorrowWrites` is such an instance.

They rest on three facts about every step: a construct after it was there before or is the
one it opens (`NextFrames`), a loan likewise, and is then made by a reference, a scan or a
parameter (`NextLoans`), and the scopes agree, have one more name, or are assigned one of
three ways (`NextScopes`). What the three invariants add to
`IInv` was also checked by TLC, on `BorrowWrites` and `BorrowMessages`, which meet the
conditions.

`FlowCheckpointProofs` proves, for every input, interval and behaviour of the steps, and
any number of interruptions and faults:

| Theorem | Statement |
|---|---|
| `FlowExact` | `StableInput /\ Spec => []IInv` |
| `FlowTypes` | `StableInput /\ Spec => []TypeOK` |
| `OutputsComplete` | `StableInput /\ Spec => []CompleteOutput` |
| `AcceptedExact` | `StableInput /\ Spec => []AcceptedIsExact` |
| `PromiseKept` | `StableInput /\ Spec => KeepsPromise` |

`StableInput` is that the input is not replaced while a run reads it; without it the
statements are false (section 3). The named assumptions of `FlowCheckpoint` say what an
input and the steps are, and define `Image` record by record. `CompleteOutput` needs to
know what a resumed run found in the files, and that in turn what all earlier runs, over
whichever versions, left in the checkpoint. `IInv` is `TypeOK` with

* `CheckpointsExact`: each checkpoint that may be found (the current one, the one that
  a power loss brings back, the one in the temporary file) pairs its position with the
  image of its version - of *its* version, not the one at the path, so that a replaced input
  does not matter;
* `RunExact`: while a run reads, its output is the image of the records it has passed, or
  of the records up to the position it resumes from while it skips, and the checkpoint is
  behind it and a prefix of it;
* `StepExact`: what is so between the two writes of a row, and between the measuring and
  the rename of a checkpoint.

The lemmas about images (one is a prefix of a later one of the same version) use that
`Image` is built by appending. `PromiseStep` then maps each action to a step or a stutter
of `CsvFlow`: `PublishCheckpoint` commits, `RemoveCheckpoint` delivers, `Open` is `Again`
after a delivery, `PowerLoss` and `EditOutput` are damage, the rest stutters because it only
appends behind the committed prefix. `IInv` was checked by TLC before it was proved.

`ControlFlowProofs` proves, for every set of names, types and errors, every number of
rounds of a loop and all programs that the syntax of statements (`Stmt`) has:

| Theorem | Statement |
|---|---|
| `ControlInvariant` | `Spec => []IInv` |
| `ControlTypes` | `Spec => []TypeOK` |
| `FinallyRuns` | `Spec => []FinallyAlwaysRuns` |
| `ErrorsAreKept` | `Spec => []ErrorsAreNotLost` |
| `ScopesComeBack` | `Spec => ScopesRestored` |

The invariant has two parts. `Nests`: what was open when a construct was entered (`outer`),
with the scopes it has opened since (`Opened`), is what is open inside it - and that holds of
every frame and the next one, so that the scopes an inner construct gives back are those the
outer one expects; names may have been added to the last scope by blocks without a scope of
their own. `Balanced`: finally blocks still due are the open `try` and `catch` constructs,
errors not settled are those on their way and those that finally blocks hold. `Enters`,
`Leaves` and `Replaces` say what opening, closing and exchanging the innermost construct does
to both; each action is then a lemma. The proof found the guards of the `CASE` in `LeaveCall`
to overlap (an error in a function with a declared type); the code tests for an error first,
and so does the model now.

`ScopeStorageProofs` proves, for all names, values and types, for scopes, slots and
generations without bound:

| Theorem | Statement |
|---|---|
| `StorageInvariant` | `Spec => []IInv` |
| `StorageTypes` | `Spec => []TypeOK` |
| `HandlesResolve` | `Spec => []HandlesLive` |
| `StaleHandlesFail` | `Spec => []StaleStaysDead` |
| `MapsStayInStep` | `Spec => []MapsAgree` |
| `TypesAreKept` | `Spec => []ValuesHaveTypes` |
| `CapturesAreVisible` | `Spec => []CapturesWhatIsSeen` |

From `DataAssumption`: `None` is no value, type, binding, write or handle, and a value has
its own type. A scope that is being drained counts as one more scope (`At`, `Binders`), so
that nothing has to be said twice of the time during a pop. `IInv` is `Shape` (types) with

* `CellsOK`: every cell of every scope has a live slot for itself, and every handle given
  up is `Dead`: its slot is of a later generation, or retired. That its slot is merely
  empty would not do, the next insertion could fill it;
* `BindingsOK`, `RecordsOK`: the stack of a name enumerates exactly the scopes that bind it
  (`Enumerates`), so that its last entry is the innermost of them; the same for types, and
  types are recorded for bound names only;
* `ItemsOK`: the items of pipelines are bound, once each, without a type;
* `WorkOK`: what a loop still has to do can be done - names to be defined are free, targets
  of writes are where they were resolved, with a type that admits the value.

`InsertFacts`, `PutFacts` and `RemoveFacts` say of the arena what the rest needs.
`ScopeMapsProofs` proves `ScopesAreMaps`, `Spec => ImplementsMaps`: under the mapping `Stack`
the steps `Declare`, `DeclareLoop`, `BindItem` and `DeclareMany` are `Define`; `Reassign`,
`Rebind` and `ReassignMany` are `Assign`; `DropItem` is `Remove`; `Push` and `Pop` are themselves;
a refused declaration, `DeclareNext`, `ReassignNext`, `DrainNext` and `Finish` change nothing
that can be seen. That `Assign` writes the innermost binding is where `BindingsOK` is
needed, that a write does not show elsewhere where `CellsOK` is.

The invariants were checked by TLC before they were proved.

`ImportsProofs` proves, for all files, paths and programs, for every depth of calls and
whatever set of names `Free` gives to a body:

| Theorem | Statement |
|---|---|
| `ImportsInvariant` | `Spec => []IInv` |
| `ImportsTyped` | `Spec => []TypeOK` |
| `NoFileWaits` | `Spec => []NoFileWaitsForItself` |
| `ScopesFollow` | `Spec => []ScopesFollowCalls` |
| `FunctionsRead` | `Spec => []FunctionsReadTheirModule` |
| `MessagesRead` | `Spec => []MessagesReadTheirModule` |

The one assumption, `ProgramsAreTexts`, says what the parser delivers: files are sequences
of statements, functions have names, a path leads to a file or nowhere. `IInv` is

* `TypeInv`: types, and which handles may be where - values hold functions with a name,
  only the tables of messages hold functions without one. Without this, a return could
  capture anew for a message what it means to capture for an exported function;
* `Structure`, while the program runs: a call runs in the evaluator of its caller and a
  file in a later one than all below it (`FramesFollow`); the import stack of each frame is
  that of the files up to it, none twice (`StacksFollow`); an evaluator has the scopes its
  frames pushed (`ScopesFollowCalls`); one whose file is just entered has no types and no
  messages (`EnteredIsFresh`);
* `CapturesSeen`: the free names of a function that were visible when it was declared are
  among its captures, with the values they had - and what a module captures anew on
  returning takes nothing from them, as it is done only for functions that captured nothing;
* `CallsSee`: a call has these values in the scope right beneath its locals, so that no
  scope of its callers comes between. This is where `FramesFollow` is needed: the place of
  that scope is a count of what the frames below pushed in the same evaluator (`Base`);
* `Knowledge`: the same of messages, which captured nothing when they were declared. The
  messages an evaluator got from elsewhere are those of a module that has returned and hold
  its bindings (`MessagesKnown`), as do those being handed over (`MessagesHandedOver`) and
  those being executed (`CallsKnow`). A message does not hold them until its module returns,
  and holds another module's if its type is exported again: hence `Left` and
  `NothingExportedAgain` in the property. That the bindings of a module do not change after
  it returned follows from `FramesFollow`;
* `ReadsSeen` and `MessagesReadTheirModule`: the read that was just made.

Each action is an instance of one of seven kinds of step - it goes on in its frame, enters
a call or a file, returns from a call, hands a module over, fails or ends the program - and
for each kind a group of lemmas shows what it keeps (`StaysKeep`, `EntersKeeps`,
`OpensKeep`, `ReturnsKeep`, `HandsOverKeeps`, `StopsKeep`). `IInv` was checked by TLC on
the programs of the run `Imports` before it was proved.

Only model-checked: `Completes` and `Terminates` (liveness), `LoanedPathsResolve`,
`AcceptedProgramsResolve` and the finding about `LexicalBindings`, and
everything of `Pipelines`, `Matching` and `ControlAnalysis`.
`LoanedPathsResolve` is false beyond its run's programs: besides the second exclusive reference,
which it names, a collection in a collection can be replaced through an outer one that no
loan covers, and a function called in an index expression can rebind a target after its
test (section 3). Out of the prover's reach and
left to TLC: liveness under fairness and ENABLED; what recursively defined functions
compute for every input (induction over data); and modules with RECURSIVE operators.
Those are `Matching`, `ImportAnalysis`, `CheckedImports` and `ControlAnalysis`, in which an
analysis goes through nested types, patterns, statements or expressions. The
modules with proofs use none, nor does `Pipelines`; but what its folds over items and steps
compute is again an induction over data.

## 5. Not modelled, and the plan

To prove next, in order of importance:

1. `Pipelines`: that the results of joined chunks are those of their own chunk.

Not modelled yet, and worth it: the reader of CSV records (quoted fields across lines)
against the writer, by which what is written must be read back; checked 64-bit arithmetic
and the steps of ranges at their limits; the session (batching of its input, what an error
leaves, functions declared across inputs); the analyzer's reference checks against the
evaluator's loans; the provenance of vectors; receiver functions.

Left out for good: floating-point and matrix numerics (no finite abstraction says
anything about rounding), JSON conversion and file reading (library calls without
state of their own), the lexer and the parser (pure functions of a text; their results
are the programs of the models), rendering of diagnostics, layout of the formatter.
