# SWI-Prolog: specifications and proofs

TLA+ models of parts of the SWI-Prolog engine (the C sources in `src/src/`,
with the OS/2 port around them), TLC runs on small instances of the models,
and theorems about them that TLAPS checks. Paths below are relative to
`src/src/` unless they begin otherwise.

## 1. The system

A Prolog engine: a virtual machine (`pl-wam.c`) runs clauses that a compiler
(`pl-comp.c`) produced from terms; a database (`pl-proc.c`, `pl-rec.c`,
`pl-index.c`) holds and changes the clauses while they run; streams, a reader,
a writer, arithmetic and built-in predicates surround it; with `O_PLMT`
several engines run in threads of one process (`pl-thread.c`) and share the
database.

| Component | State | Operations | What makes it correct | Status |
|---|---|---|---|---|
| Clause database | per definition: clause list, `references`, `number_of_clauses`, `erased_clauses`, flags; `GD->generation`; `generation.created/erased` of a clause | call, redo, exit, cut, `assert`, `retract`, `retractall`, `erase`, `abolish`, reconsult, abort, clause GC | logical update view; no frame sees a freed clause; every path gives up its reference; counts are right; garbage is collected | `ClauseDB`, `LogicalUpdate` |
| Virtual machine | local frames, choice points, global stack, trail, contexts of foreign predicates | unification, calls, last calls, backtracking, cuts, conditionals, `catch/3`, signals, queries of the host | answers are those of the program; every discarded frame is left once and every foreign context told; nothing in use is overwritten or refers to what is gone | `Engine`; what it does to a definition, in `ClauseDB` |
| Compiler and decompiler | `compileInfo`: initialised variables, cut variable, code | compile a clause, decompile it | code means what its source means, on every path through it; decompiling gives the source back | `BodyCompiler`, `Decompiler` |
| Indexing | `indexPattern`, keys, hash tables of clauses | find first and next clause, rehash, collect | the index finds what the list has | linear search, in `ClauseDB` |
| User mutexes | `owner`, `count`, pthread mutex | lock, trylock, unlock, unlock all, destroy | mutual exclusion, recursion | `UserMutex` |
| Message queues | list per thread, condition variable | send, get, peek | first match taken, receiver woken up | `ThreadMessages` |
| Threads | `threads[]`, status, alias, exit goals, pending signals | create, exit, join, detach, signal, kill | a slot is used by one thread; status is returned right; hooks run once; what ends is freed; a signal is handled | `Threads` |
| Hash tables | buckets, enumerators | add, delete, rehash, enumerate, copy | an enumerator survives deletions and meets each symbol once | `HashTable`, `SymbolTable` |
| Atoms | hash table, reference counts | look up, register, mark, collect | no atom in use is reclaimed | planned |
| Recorded database | record lists, `references`, dirty flag | record, recorded, erase | as the clause database | planned |
| Modules | procedures, exports, supers | import, export, resolve | one definition per name and module | planned |
| Garbage collector | stacks | mark, compact, shift | what is reachable is kept | out of reach of this method beyond marking |
| Arithmetic | none | `is/2`, comparisons | the value of an expression, or its error | compiled sums and comparisons, in `BodyCompiler` and `Engine` |
| Streams, reader, operators, writer, quick-load files, I/O, tracer, foreign interface | | | | see `PROJECT.json` |

How they interact. The virtual machine calls `enterDefinition()` and
`leaveDefinition()` around the run of a predicate and asks the index for
clauses in between; built-in predicates on the database run inside foreign
frames of the same machine and take the same references; leaving the last
frame of a definition may call the clause garbage collector. Threads share the
definitions under the lock `L_PREDICATE`, but read the clause lists without
it. `L_THREAD` guards the table of threads and the message queues. Handlers of
signals and the tracer run Prolog inside the virtual machine, at its call port.
A thread of Prolog is a pthread with an engine of its own: `pl_thread_create()`
takes a slot of `threads[]` and starts it, its end runs exit hooks in that
engine, and `thread_signal/2` reaches into the engine of another thread through
the word `pending_signals`, which the virtual machine polls.

What is hard: the database changes under running goals, whose pointers into
the clause list survive arbitrary other goals; collection is deferred to
whoever leaves last; values are tested outside a lock and used inside it;
locks made from plain fields are read by threads that do not hold them; slots of
threads are freed and used again while others wait for their former users; the
word of pending signals is written without a lock by its reader and under one by
its writers; frames, their reuse by last calls, cuts, conditionals and
exceptions all free and keep parts of the same stack by comparing addresses;
waiting for a message with one mutex and sending under another. Section 7 of
this file and `hazards` in `PROJECT.json` list where each of these bites.

## 2. Modules

| Module | What it is |
|---|---|
| `LogicalUpdate` | abstract specification: a goal enumerates, in order, the clauses that were in the predicate when it was called |
| `ClauseDB` | one predicate, its clause list and the frames that run it; refines `LogicalUpdate` |
| `ClauseDBProofs`, `ClauseDBRefinement` | theorems about `ClauseDB`; the second module holds the proof that it implements `LogicalUpdate` |
| `MCClauseDB` | instances of it for TLC |
| `UserMutex`, `UserMutexProofs`, `MCUserMutex` | `mutex_lock/1`, `mutex_trylock/1`, `mutex_unlock/1`, `mutex_unlock_all/0` |
| `ThreadMessages`, `ThreadMessagesProofs`, `MCThreadMessages` | `thread_send_message/2`, `thread_get_message/1` |
| `Threads`, `ThreadsProofs`, `MCThreads` | the table of threads: creation, aliases, exit hooks, end, join, signals |
| `PrologGoals` | goals, and the meaning of a program: its answers in order and how it ends |
| `BodyCompiler` | clauses to code of the virtual machine |
| `Decompiler` | code to clauses |
| `Engine`, `MCEngine` | the virtual machine on that code, and the host that queries it; implements `Trail`, and so `LocalStack` |
| `LocalStack`, `LocalStackProofs` | what any code does to frames, choice points, references and foreign contexts |
| `Trail`, `TrailProofs` | `LocalStack` with the trail: what any code assigns, and what `Undo()` takes back |
| `SymbolTable` | abstract specification: an enumeration returns every symbol that stays, once |
| `HashTable`, `HashTableProofs`, `MCHashTable` | a hash table and its enumerators; refines `SymbolTable` |

### ClauseDB

State. `linked` and `pos` are the clause list: the set of clauses on it and
their order. `freed` are the clauses given back to the heap. `created` and
`erased` are the generations of a clause; `erased[c] = Infinity` is `~0L`, and
stands for the flag `ERASED` as well, which the code sets in the same critical
section. `references`, `number_of_clauses`, `erased_clauses` and `flags` are
the fields of `struct definition`; of the flags only `DYNAMIC` and
`NEEDSCLAUSEGC` matter here. `frame` has, per frame, where it is and what it
remembers: its generation, its clause and its alternative.

Actions. Each critical section of `L_PREDICATE` is one action, with the clause
collection that may end it (`Settle`, for `leaveDefinition()` and
`gcClausesDefinition()`).

| Action | Code |
|---|---|
| `Call` | `depart_continue` in `pl-wam.c`: the frame is built and notes the generation |
| `Enter` | `enterDefinition()` and `firstClause()`; also the first call of `clause/2`, `retract/1`, `retractall/1` |
| `NthFetch`, `NthEnter` | the first call of `nth_clause/3`, which looks for its clause before it enters |
| `Redo`, `LeaveLast`, `Cut` | backtracking to the alternative, the end of the last clause, a discarded frame |
| `RetractTest`, `RetractLocked` | `retractClauseProcedure()`: the test outside the lock, the update inside |
| `RetractStatic` | `retract/1` and `retractall/1` on a predicate that is not dynamic |
| `EraseTest`, `RetractLocked` | `erase/1` on a clause |
| `AssertTerm`, `RecordClause` | `assert_term()` from `assert` and from loading a file |
| `Abolish`, `startConsult`, `startConsultMultifile` | `removeClausesProcedure()` from its two callers |
| `Abort` | `resetReferences()`, in the single-threaded system |
| `TraceCallPort`, `TraceRetry`, `ThrowCallPort` | the ways out of the call port before the definition is entered; only in `PortSpec` |

`Enter` merges the increment of the reference count with the search of the
first clause. Between the two the code runs without the lock, but with the
reference: nothing can be unlinked, clauses that are added have a later
generation than the frame's, and clauses that are erased meanwhile are erased
in a later generation, so the search finds the same clause at either end. The
same argument makes the walk in `Redo` one step.

`Preemptive` says whether another actor may run between two steps of one
operation. In the single-threaded system without signal handlers it cannot
(`Undisturbed`, `Quiet`); with threads it can. Frames of one thread are used
in any order, which is more than a stack allows.

What is abstracted: what a clause is and does (a model value with a key of its
first argument), the environment, hash tables on clauses (the search has the
same result), `NEEDSREHASH`, events to the graphical debugger, and
`$dcall/1`, whose temporary clause is retracted by `leaveDefinitionCL()`.

### UserMutex

A `pl_mutex` is a pthread mutex with the fields `owner` and `count`, which
operations read and write without a lock. `mutex_lock/1` is `LockAgain` for
the owner, or `Lock` (it calls `pthread_mutex_lock()`), `Acquire` (that
returns) and `Own` (`owner` is written). `mutex_unlock/1` is `UnlockNested`, or
`Unlock` (the pthread mutex is given up) and `Disown` (`owner` is cleared).
`depth` is not in the code: it counts what the program has locked and not
unlocked, and the properties compare it with the fields. `count` is written
only by the holder, so `Acquire` sets it together with the pthread mutex.
`UnlockNested` has the change of `count`; that the operation then raises a
permission error although it worked (it falls through to the error at line
1274) is not part of the state. `UnlockAll` is in `UnlockAllSpec` only, because
it breaks what the other operations keep.

### ThreadMessages

A queue per thread under `L_THREAD`; each critical section is one action.
`Get` and `Resume` are the loop of `pl_thread_get_message()` from `LOCK()` to
`UNLOCK()`: take the first message that unifies out of the queue (`Take`), or
release `L_THREAD` (`Park`). `Wait` is the moment at which
`pthread_cond_wait()` has put the thread among those that a signal reaches;
POSIX guarantees that this is atomic only for who takes `queue_mutex`, and
`pl_thread_send_message()` does not. `prev` is the position of the last message
tried. `missed` is a history variable: a signal came between `Park` and
`Wait`.

### HashTable

One table of `pl-table.c`. `table` is the set of linked symbols; `bucket` the
chain each is linked in and `rank` its place there, the highest first, because
a symbol is pushed in front. `buckets` and `size` are fields of the table,
`enumerators` its list of enumerators, `key` and `current` their fields, `got`
the symbol a caller got last. Each operation runs under `L_TABLE` and is one
action; `addHTable` includes the rehash that may end it. Rehashing takes the
symbols of each old chain in order and pushes them in front of their new
chains: their relative order is reversed, which the model does by negating
ranks. `Behind` follows the chain of the current symbol, then the chains after
`key`, as `rawAdvanceTableEnum()` does. That a symbol is linked where
`lookupHTable()` looks is not built in: `bucket` is written where the code
links a symbol, and `checkHTable` compares it with the hash value.

`SymbolTable` says what callers rely on, without buckets: `todo` is the set of
symbols an enumerator still has to return. A symbol that is added during an
enumeration may be returned or not; one that is deleted is not; the end is only
reported when nothing is left. The mapping is `todo[e] = ahead(e)`, the current
symbol and all behind it.

### Threads

State. A thread stands for its pthread and for its `PL_local_data_t`. `data`,
`tid`, `status` and `detached` are the fields of `threads[i]`, `aliases` the
table of names; `info` and `name` are `thread.info` and `thread.name` in the
data of a thread, `freed` the threads whose data were given back. `pc` says
where a thread is within an operation: between two values of it the code
releases `L_THREAD` or writes without it. `exit_goals` are the goals of
`thread_at_exit/1`, `eg` those that `run_thread_exit_hooks()` took off the list
and has still to run. `pending` is `pending_signals`, of which one bit
announces goals of `thread_signal/2` and one stands for all other signals;
`word` is the value a thread has read and is about to store there.

| Action | Code |
|---|---|
| `AllocThread`, `BadOptions`, `Configure`, `Spawn`, `SpawnFails`, `Return` | `pl_thread_create()`: a slot, options, the alias, `pthread_create()` and what it returns |
| `Start`, `GoalEnds`, `ThreadExit` | `start_thread()` up to the status of the goal; `thread_exit/1` |
| `AtExit`, `TakeHooks`, `RunHook`, `ExitInHook`, `HooksDone` | registering hooks, and the loop of `run_thread_exit_hooks()`, which takes the list again until it is empty |
| `FreeQueues` | the end of `free_prolog_thread()` |
| `Release`, `Leave`, `Wipe` | `free_thread_info()` of a detached thread: the alias goes under `L_THREAD`, then `freeHeap()` and then `memset()`, without a lock |
| `Join`, `JoinReturns`, `JoinFrees`, `JoinDone` | `pl_thread_join()` up to `pthread_join()`; its return, the status and the alias; `freeHeap()`; `memset()` |
| `Signal` | `pl_thread_signal()` on a thread named by its number or alias |
| `Raise`, `Handle`, `StoreSignals`, `TakeSignals` | `PL_raise()`, the loop of `PL_handle_signals()`, `executeThreadSignals()` |

From `freeHeap()` to `memset()` (`pl-thread.c:581`) the slot refers to data that were
freed: `data[i]` is then in `freed`, the slot is not free, and other threads go on, among
them `alloc_thread()`, whose `allocHeap()` may return that very block. The model names
data by their thread, not by their address, so that the block which is handed out again
is other data. `SlotsExclusive` states this window: a slot refers to freed data exactly
while one thread stands before the `memset()` of that slot, and neither the thread
of the data nor one that creates or joins it is left to use or free them. `memset()` is one step:
`alloc_thread()` looks at `thread_data` only, which comes after all the fields that are modelled.

A load, an operation and a store of `pending_signals` are separate steps, as
they are without a lock; `lost` records that a store wiped out a bit set in
between. The properties about signals except that case and say so.

Programs are assumed to keep to what the manual asks of identifiers: only its
creator joins a thread that is not detached, when nobody else can still name
it; a detached thread is named by itself only. Identifiers that are used later
than that reach freed data or another thread; `hazards` lists it.

### PrologGoals, BodyCompiler, Decompiler, Engine

Programs are data here: `MCEngine` enumerates them, `BodyCompiler` compiles
each as `pl-comp.c` does, and `Engine` runs the code instruction by
instruction. Predicates have one or two arguments, `X` and `W`, and clauses two more
variables, `Y` and `Z`; terms are constants, variables and pairs `[A|B]` of terms to any depth. A pair
stands for every functor: the code treats `./2` as `H_FUNCTOR` and `B_FUNCTOR` do the
others, with the functor implied.

`PrologGoals` has the goals and, as operators `Run` and `RunPred`, what a
program means: a list of answers and perhaps an exception, by structural
recursion and most general unifiers (`Unified`), without a stack, a choice point or
an address. A cut is a flag of
the result. `AnswersRight` compares the machine with that.

`BodyCompiler` is `compileClause()` and `compileBody()`: `ci` is the
`compileInfo` with the code so far, the initialised variables and the variable
a cut refers to. `CompileArgument` compiles arguments of heads and goals: a variable
that is void, first or seen before, alone or in a pair, has an instruction for
each case, voids at the end of a pair in the head are left out, and a pair that is
last needs no `I_POPF`. Jumps are relative, `C_VAR` balances the branches of a
disjunction, inline tests need no frame, `call/1` and `catch/3` are the
clauses of `boot/init.pl`. Arithmetic is compiled as with `-O`; an expression
with a variable that cannot be bound is refused (`Loaded`), as at
`pl-comp.c:1141`. `Decompiler` is `decompile()`, which `clause/2`, `retract/1` and
`listing/1` use.

`Engine` has the registers and stacks of one query in the record `vm`. The
local stack is an array of units: a frame with its arguments (slots `X` and `W`) is one, the
other variables of its clause a second one, a choice point one. Order of units
is order of addresses, which is all the code compares; what lies above `lTop`
stays in memory until it is overwritten, as it does in the program, so that a
stale pointer reads what it would read there. Unit 0 is the host: its variable
is what the query binds. `global` is the global stack, two cells for a pair; it lies
below the local stack, so that `unify()`, which binds the newer of two variables to the
older one, never lets a pair refer to a frame, and `B_ARGVAR` moves a variable of a
frame into the pair that is to hold it. `argp` and `astack` are `ARGP` and the argument
stack; the arguments that are built above `lTop` are `args`, to which `NextArg(i)`
points. The cells of a pair that is being built in a body are `Garbage` until they
are set. `trail` holds references to slots; `bar` is `mark_bar`, below which `Trail()`
records cells of the global stack; `log` is a history variable, what `trail` would be if
`Trail()` left nothing out. `refs` are the
references of each definition, `open` the contexts of nondeterministic foreign
predicates that have been returned and not been taken back, `temps` the
temporary clauses that `call/1` compiles control structures to (predicate
`"$call"`). `nums` are the numbers that arithmetic pushes.

Each instruction is an action with the name it has in `pl-wam.c`: `H_CONST`,
`H_VOID`, `H_VAR`, `H_FIRSTVAR`, `H_LIST` (with `H_RLIST`), `I_POPF`, `I_ENTER`, `B_VAR`,
`B_CONST`, `B_VOID`, `B_FIRSTVAR`, `B_LIST` (with `B_RLIST`), `B_ARGVAR`, `B_ARGFIRSTVAR`, `C_VAR`, `I_CALL`, `I_DEPART`,
`I_EXIT`, `I_TRUE`, `I_FAIL`, `I_CUT`, `C_CUT`, `C_LCUT`, `C_SOFTCUT`, `C_JMP`, `C_MARK`,
`C_OR`, `C_SOFTIF`, `C_IFTHENELSE` (with `C_NOT`), `I_USERCALL0`, `I_CATCH`, `B_THROW`,
`I_CALL_FV1`, `A_ENTER`, `A_INTEGER`, `A_VAR`, `A_FUNC2`, `A_COMPARE` (`A_LT`, `A_LE`,
`A_EQ`), `A_IS`. The rest are the places where the loop of instructions is left
and entered: `Enter` and `EnterForeign` at `depart_continue`, `RedoJump`,
`RedoClause`, `RedoForeign`, `RedoTop` and `RedoNone` at `next_choice` by the type of
the choice point, `SignalAtCall`, `SignalAtFail` and `SignalAtTest` where signals
are handled and a handler throws, and `NextSolution`, `PL_cut_query` and
`PL_close_query` of the host, which may stop after any answer.

`TermsSound` is what memory has to keep to: references lead to older slots, never
from the global to the local stack, what cells, arguments and variables that are
read lead to is still there, and no pair is left half built when a goal is called,
fails or is answered. Variables that are not read again may well hold references
to pairs that backtracking took away. `TrailSafe` is stated in `Trail`: on coming back to
a choice point, `Undo()` resets exactly what is older than it and was assigned
since, and writes over nothing in use, and `bar` is behind no choice point.

`left` and `cutted` count what a signal at a call port releases without having
taken it (section 5); `ReferencesExact` and `ContextsExact` are exact with
that correction. `DecompiledRight` is evaluated in the first state of each
program, because code does not change.

Not in `Engine`: other functors than `./2`, strings and large numbers, cyclic terms, the ports of the
debugger, the garbage collector and stack shifts, nested queries, `block/3` and
`exit/2`, stack overflow, modules, assertions while a program runs (that is
`ClauseDB`), and the evaluation of terms that a variable is bound to in
arithmetic.

### LocalStack

`Engine` runs code that is given. `LocalStack` is what remains of it when the code,
the terms and the answers are left open: the frames and choice points in use, what
frame each belongs to, the references on definitions, the contexts that foreign
predicates were promised to be called back with, and the ways in which
`PL_next_solution()` makes, keeps and discards them. It is small enough to be
reasoned about, and it is about every program rather than about those of `MCEngine`.

State. `frame` and `choice` are functions on the addresses of blocks in use. A frame
has its `parent`, `pred`, the end `top` of its arguments and variables, whether it
has entered a `clause` (for a foreign predicate: whether it has a context), and the
history variable `chain`, itself and its ancestors, which is what the code finds by
following `parent`. `fr` is `environment_frame`; `mode` says where the loop of
instructions is. `refs`, `open`, `left` and `cutted` are those of `Engine`.

| Action | Code in `pl-wam.c` |
|---|---|
| `Call`, `Catch`, `Depart` | `I_CALL` and `I_USERCALL0`, `I_CATCH`, `I_DEPART` |
| `Enter`, `EnterForeign` | `depart_continue`: the first clause; `callForeign()` |
| `Exit` | `I_EXIT`, with and without a choice point to come back to |
| `Or`, `SoftCut` | `C_OR`, `C_IFTHENELSE`, `C_NOT` and `C_SOFTIF` push a choice point; `C_SOFTCUT` takes the effect of one away |
| `Cut`, `CutTo` | `I_CUT`; `C_CUT` and `C_LCUT`: `discardChoicesAfter()` and `discardFramesAfter()` |
| `Throw`, `Assertion` | `B_THROW` and signals that throw: `catch/3` above the exception, or the end of the query; the assertion at line 2545 |
| `Backtrack` | `next_choice`, by the type of the newest choice point |
| `NextSolution`, `CloseQuery` | the host asks for another answer, or cuts or closes the query |

Which clause is found, whether unification succeeds, which choice point a cut goes
back to among those of its frame, and which `catch/3` catches are nondeterministic.
`Stack` in `Engine` is the refinement mapping: it follows the pointers `parent` of
`vm.stack` from the current frame and from the choice points, and everything they
reach is in use.

### Trail

`Trail` extends `LocalStack` by the assignments of variables and how backtracking takes
them back, again for any code. Terms and values are left out: a step may assign any
slots that the code could hold a reference to, in any order and number. A slot is a
variable at a unit of the local stack (`OnGlobal` is false) or a cell of the global stack.

State. `trail` and `gTop` are those of the code, `markBar` is `LD->mark_bar`, and `mark[c]`
is the field `mark` of choice point `c`, the tops of the two stacks when it was made. `log`
is a history variable: every slot that was assigned, with what `Trail()` leaves out.
`Undo()` cuts it like the trail, for which a mark has its length as well.

| Action | Code in `pl-wam.c` |
|---|---|
| `Unify` | instructions that unify or build terms, or fail: `Trail()` (line 711) notes a slot that is on the local stack or below the bar; the places are those of the frame, its ancestors and the arguments above `lTop` |
| `Push` | `newChoice()` with `Mark()` (`pl-incl.h:1417`), which raises the bar, in `depart_continue`, `I_CATCH`, `C_OR` |
| `Leave` | exits, last calls and `C_SOFTCUT`: nothing changes |
| `Commit` | `I_CUT` calls `discardChoicesAfter()`, which lowers the bar to the mark of the choice point that is left; `C_CUT` and `C_LCUT` keep it |
| `CallC` | `callForeign()`: the mark is made before the call, a choice point for another answer is given this mark after it; the places are the arguments and what they can refer to |
| `Recover` | `B_THROW`: `undo_while_saving_term()` undoes to the choice point of `catch/3` and copies the ball, `unify_ptrs()` marks, which raises the bar to the top of the copy, and unifies the ball |
| `Retry` | `next_choice`: `Undo()`, then the next clause, branch or call of the foreign predicate; a choice point that replaces the one that is used up has an equal mark |
| `Forget` | the end of the query |

`Stack` in `Engine` maps to `Trail`, with the trail, bar, marks and log of `vm`.
Not in `Trail`: the assignments of `setarg/3`, which put the old value on the trail
(`TrailAssignment()`), marks of foreign frames that are discarded in the middle of a
foreign predicate, and the choice points of the debugger.

## 3. Runs

| Run | Instance | Shows |
|---|---|---|
| `clause_db` | `ClauseDBSeq.cfg`: 3 clauses in 2 files, 2 frames, an unbound goal and one key, 4 generations, not preemptive | types, `ReferencesExact`, `CountsExact`, `NoGarbageWaits`, and that `ClauseDB` implements `LogicalUpdate` |
| `clause_db_threads` | `ClauseDBThreads.cfg`: the same with 3 generations, preemptive, call, `clause/2` and `retract/1` | `NoDangling`, `SeenClauseStays` |
| `clause_db_call_port` | `ClauseDBCallPort.cfg`, with the tracer and handlers that throw | violation of `ReferencesNonNegative` |
| `clause_db_retract_race` | `ClauseDBRetractRace.cfg`, preemptive | violation of `CountsExact` |
| `user_mutex` | 3 threads, 2 mutexes, 2 nested locks | `MutualExclusion`, `OwnerHolds`, `HeldExactly` |
| `user_mutex_race` | the same | violation of `NoSelfWait` |
| `user_mutex_all` | the same, with `mutex_unlock_all/0` | violation of `MutualExclusion` |
| `thread_messages` | 2 threads, 3 messages of 2 kinds | `TriedInVain`, `WaitsInVainIfMissed`, `TakesFirst`, `ReturnsUnlessMissed` |
| `thread_messages_lost` | the same | violation of `GetReturns` |
| `threads` | `Threads.cfg`: the main thread and two more, 3 slots, 1 alias, 2 goals registered or signalled | `SlotsExclusive`, `OwnSlot`, `AliasesRight`, `StatusReturned`, `HooksRun`, `HooksInOrder`, `QueuedIsPending`, and the liveness properties `EndedIsFreed` and `SignalsRun` |
| `engine` | `Engine.cfg`: about 3,900 programs, 24 units of stack, one signal | `AnswersRight`, `ReferencesExact`, `ContextsExact`, `StackSound`, `TrailSafe`, `TermsSound`, `AssertionsHold`, `DecompiledRight`, and that `Engine` implements `Trail`, and with it `LocalStack` (`StacksHold`) |
| `hash_table` | 5 names, 2 enumerators, 2 buckets | `checkHTable`, `EnumeratorsStand`, and that `HashTable` implements `SymbolTable` |

Bounds. `MaxGeneration` bounds the number of updates; with 3 clauses, 4
generations let two clauses be added and both erased, or three added and one
erased, under two frames of different generations: enough for a clause to be
first, middle and last of the list, to be the alternative of one frame and the
clause of another, and to be collected when the first, the last or no frame
leaves. A clause is compiled once: a freed clause does not come back, which
would only hide a dangling reference. `GCRatio` stands for `>> 5` in
`retractClauseProcedure()`: with 2 instead of 32 both sides of the comparison
occur with 3 clauses. Two keys, of which goals use one, give clauses that
match, that do not and that match everything. In the preemptive run `nth` and
`erase` are left out because the code does not protect their clauses (section
7). In `user_mutex` a third thread lets one thread acquire while another is
late to clear the owner and the third waits. In `thread_messages` two threads
send to each other and to themselves; three messages are one more than a
receiver can skip before its match.

In `hash_table` the fifth symbol makes the table exceed twice its 2 buckets, so
that it is rehashed, or not while it is enumerated; the hash values put three
names in one chain of the small table and split that chain in the large one.

In `threads` three threads let one create and join another while the third ends
and its slot is used again. `MaxGoals` gives two goals to the second thread,
which so has two hooks, two signals or one of each, in any order with its end;
one more would only repeat a round of hooks. One alias name suffices for a name
to be freed and taken again.

In `engine` the first clause of `p/1` is a goal in a context. Contexts are: alone;
before and behind a conjunction; the condition of `->` with and without else;
the condition of `*->`; `\+`; a branch. Plain goals (calls that have one, two or no
answers, with the argument, with a fresh variable; an inline test, a
nondeterministic foreign predicate, `!`, `true`, `fail`) appear in two contexts
nested, pairs of them in one, and so do calls of predicates that throw, catch,
catch in catch, cut within `call/1` or are nondeterministic below, and sums and
comparisons on numbers, atoms and unbound variables. Plain goals,
their pairs and the calls in a single context occur with and without a second
clause, the others without. Pairs with constants, voids, the same variable twice
and pairs inside are passed, alone and in each context, to predicates whose heads
have a variable twice, pairs on the left and on the right, and voids in every place;
they are matched against pairs that are bound, half bound and unbound, and some
programs share a variable of a pair with one of a frame before either is bound.
Predicates with two arguments get atoms, voids, the same variable twice, a variable and
a pair with it, or pairs that share; they unify their arguments in the head, exchange
them, give both the same, call themselves down a list, and make a last call with a
variable of the frame that this call uses again, given twice (the case that the
comment of `copyFrameArguments()` tells of). No program makes a cyclic term.
`p/1` itself also has heads that are pairs, with and without a second clause. Of the library a program has the part
that it calls. `StackSize` is checked never to be reached (`TypeOK`), so
it bounds nothing; `MaxSignals` is one, because after the first throw a program
is one that throws.

`SYMMETRY` is used in runs with safety properties only. `mcView` drops what no
action or property can see any more: generations and positions of clauses that
are off the list, absolute positions (only the order is read), and whether a
frame that is over ended with `exhausted` or `idle`.

Deadlock is checked in `hash_table` and in `engine`, where only a query that was cut
or closed, or a failed assertion, may stop (`Over`). Elsewhere bounded
generations, messages sent once, threads that wait for a message that nobody
sends and threads that are all over end every behaviour of the models where the
system may stop too. That threads do not wait for each other for ever in
`threads` is `EndedIsFreed`.

## 4. Fairness

`ClauseDB`, `UserMutex`, `HashTable` and `Engine` have safety properties only and no
fairness.
`ThreadMessages` assumes weak fairness of `Wait` (a thread that has released
`L_THREAD` goes on to wait) and of `Resume` (a thread that was woken gets
`L_THREAD`, which is held for a bounded number of steps each time). Nothing is
assumed of senders, callers or spurious wake-ups. Weak fairness of `Resume` is
sound because the lock is not a state of the model: the action is enabled from
the wake-up on, and threads compete for `L_THREAD` only by finite sections.

`Threads` assumes weak fairness of each thread's `Progress`, the steps that C code
takes by itself once it is in an operation: the operating system schedules every
thread, and `L_THREAD` is held for finite sections only. Nothing is assumed of
what the goal of a thread does (`Call`): it may run for ever without creating,
joining or ending. Strong fairness of `Handle(t, "thread")`, for the threads
that can be signalled and are not the main one, says that a goal
which runs for ever passes its call port again and again and finds the bit there
unless it is always doing something else: the virtual machine polls
`pending_signals` at each call (`pl-wam.c:3757`). It has to be strong because the
thread may be inside an operation, where it does not poll, again and again.

## 5. Findings

Each is a run with a property that a comment, an assertion or the manual
states, which TLC finds violated:

1. `clause_db_call_port`. A goal that the tracer fails or ignores at its call
   port, or that a signal handler's exception ends there, leaves a definition
   that it has not entered (`pl-wam.c:3757`, `3867`): `references` drops below
   what is in use, against the assertion in `pl-incl.h:959`.
2. `clause_db_retract_race`. `retractClauseProcedure()` tests `ERASED` before it
   takes the lock (`pl-proc.c:881`), so a clause can be counted down twice.
3. `user_mutex_race`. `mutex_unlock/1` clears the owner after it gave up the
   pthread mutex (`pl-thread.c:1265`); the next holder's name is erased, and it
   blocks on itself when it locks again.
4. `user_mutex_all`. `mutex_unlock_all/0` (`pl-thread.c:1293`) unlocks nested
   locks, not single ones, and leaves the owner in place.
5. `thread_messages_lost`. A message sent between `UNLOCK()` and
   `pthread_cond_wait()` in `thread_get_message/1` (`pl-thread.c:920`) does not
   wake the receiver up.

The properties of `engine` and `threads` name further places where the code
does not do what it says, and hold outside them:

* a cut in the condition of an if-then without else or of a soft-cut (`C_LCUT`,
  `pl-wam.c:2778`) keeps the first choice point made since the mark, taking it for
  that of the condition, which has none: a goal that should be cut keeps its
  alternatives (`LocalCutLost` in `AnswersRight`);
* a signal handled at the call port of `catch/3` (`pl-wam.c:3757`) that throws
  finds that frame as its catcher, although it has no choice point yet: the
  assertion at line 2545 fails (`AssertionsHold`);
* a signal handled at any call port leaves a definition that was not entered,
  and after a last call into a nondeterministic foreign predicate tells that
  predicate to discard a context it never returned, a stale clause pointer
  (`left`, `cutted`);
* `PL_handle_signals()` and `PL_raise()` write `pending_signals` without a lock, and
  a goal of `thread_signal/2` can lose its bit (`lost`).

## 6. What is proved

All theorems hold for every value of the constants that satisfies the
assumptions of the module (`ClauseDBAssumption`, `UserMutexAssumption`,
`ThreadMessagesAssumption`, `HashTableAssumption`, `ThreadsAssumption`, and
`WellFormed` of `LocalStack`), which only
say that the sets are disjoint where they must be, that functions have their
domains, that clauses, frames and names of symbols are finite, and that `call/1`
makes its clauses for a predicate that is not foreign. The type
correctness of each module is a theorem `TypeCorrect` of its own.

`ClauseDBProofs`. `TypeCorrect` and `ReferencesCorrect` by an invariant of
types, of the frames that must have a clause, and of
`references = Cardinality(Entered)`: every action adds to or removes from
`Entered` exactly what it adds to or removes from the count, which needs that
frames are finite. `NothingDangles` needs more: clauses are unlinked only by
`Settle` and `Unlink`, both only when `references = 0`, that is, by
`ReferencesExact`, when no frame is inside; what a frame inside remembers was
on the list when it was entered and nothing left it since. A frame that holds a
clause without a reference (`nth_clause/3` in "fetched" and `erase/1`) is
covered without preemption, where nothing runs in between; hence the
assumption `Sheltered` of that theorem. `SeenClausesStay` is the action
property for the clauses a frame can see, by the same argument.

`GarbageCollected` (`NoGarbageWaits`) holds also with threads: the flag
`NEEDSCLAUSEGC` is raised only by a step of a frame that is inside, or by
`removeClausesProcedure()`, which collects at once if nobody is; so the flag is
down whenever the count is zero, and `Settle`, at every way down to zero, takes
it down. `CountsCorrect` (`CountsExact`) needs `~Preemptive`: between the test in
`retractClauseProcedure()` and its update another thread can erase the same
clause (section 5). The invariant is `ClauseCountInv == DangleInv /\ CountsExact /\
MarkedKnown /\ DoomedIsLive`: a clause that is marked erased is on the list or
freed, and the clause a frame has tested and is about to retract is live, which
is what no one else running in between gives. With it each step changes a count
by the number of clauses it moves, over finite sets.

`ClauseDBRefinement`. `LogicalUpdateViewHolds`: without preemption `ClauseDB`
implements `LogicalUpdate`. The invariant `ViewInv` adds to `ClauseCountInv` that no
two clauses share a place in the list (`PlacesDiffer`), that generations of
clauses lie in the past or are `Infinity` (`LifetimesPast`), that a goal which was
called holds no clause yet (`FramesProper`), and that what `nth_clause/3` fetched is
seen by its generation (`FetchedSeen`). Then
each action maps to an abstract action or a stutter, one lemma each: the
generation of a frame makes the set of clauses it sees constant
(`SeenClausesStay`), and the alternative a frame remembers is the first of those
it has still to try.

`UserMutexProofs`. `OwnersHold`, `HeldWhileLocked` and `MutexExcludes` from the
invariant `TypeOK /\ OwnerHolds /\ HeldExactly /\ CountExact`. `HeldExactly`
alone is not inductive: that a nested unlock keeps the pthread mutex and the
last one gives it up needs that `count` is `depth` of the holder
(`CountExact`), and that who finds its own name may go on needs `OwnerHolds`.

`ThreadMessagesProofs`. `TriedIsInVain` is inductive with the types: senders
append behind `prev`, and only the owner removes. `FirstTaken` follows from it:
the messages before `prev` do not unify, and the search starts behind them.
`OnlyMissedWaits` needs that a parked receiver for which a message has come was
signalled meanwhile.

`HashTableProofs`. `EnumerationRefines`: `HashTable` implements `SymbolTable`.
The invariant is `TypeOK /\ checkHTable /\ Ranked /\ EnumeratorsStand`, where
`Ranked` says that no two linked symbols have the same rank, so that chains are
in a definite order. The core is `FinalPart`: an enumerator that is put at the
first symbol of a final part of the table has exactly that part ahead of it,
which covers the begin (the whole table), each advance and each deletion of the
current symbol (what is behind it). Adding needs that chains do not move while
the table is enumerated, which is the guard of rehashing. A non-empty set of
symbols has a first one because names are finite (`LeastExists`, from the
well-foundedness of strict inclusion on finite sets). `SymbolsFound` and
`EnumeratorsSafe` state parts of the invariant.

`ThreadsProofs`. `SlotsHeld`, `OwnSlotHeld` and `AliasesHold` from the invariant
`Sound == SlotTypes /\ StructInv /\ AliasInv`. `StructInv` says of every place a thread
can be in what it has: that it is in the slot it thinks it is in, that a thread
under creation or being joined belongs to exactly one other, and that no slot is
freed before whoever joins has let go of it. Its part `WindowInv` is about the steps
between the free of the data and the clearing of the slot: whoever stands there still
finds the slot with the freed data in it, because `alloc_thread()` does not take it, and is the
only one. `AliasInv` adds to `AliasesRight` that
a slot which is about to be cleared has no alias any more.
`StatusHolds` adds `EndSound`, that a thread that has ended keeps its status in
the slot until it is freed. `TypeCorrect` needs the types of hooks and signals
(`HookTypes`, `SignalTypes`), which do not depend on the rest. `QueuedHolds` is
inductive once it is known that nobody signals a thread that has not started
(`QueueInv`).

`HooksAreInOrder` and `HooksAreRun` are proved with `HookInv`. A hook of a thread is
its place in the sequence of registrations, `born`, which is a history variable. At
any time it is in exactly one of four: those that ran, those `run_thread_exit_hooks()`
took off the list and has still to run, those that were registered since, and those
that were dropped. The second and third have the latest registration first; what ran
comes, round by round, before what is still to run, and within a round the latest
first. Two rounds cannot mix because the list is taken only when the last
one is used up. A hook is dropped only by a hook that calls `thread_exit/1` where
`start_thread()` runs it, and nothing is left when the queues are freed; that is
`HooksRun`.

`LocalStackProofs`. `TypeCorrect`, `ReferencesAreExact`, `ContextsAreExact` and
`StackIsSound` are proved of `LocalStack`, that is for any program. None of them
is inductive: that a cut subtracts from `references` exactly the frames that go
depends on which frames `discardFramesAfter()` passes, and that the others are those
that can still be come to depends on how frames and choice points lie in memory.
`Shape` says that. Its parts are:

* `Linked`: a chain of parents goes down in memory to the frame of the query, and
  chains that meet stay together; a foreign frame is no parent;
* `Apart`: blocks do not overlap;
* `Owned`: a choice point lies above its frame, and has the type that the predicate
  of this frame asks for; a choice point for clauses or a foreign context is the first
  thing above its frame;
* `Nested`: whatever a newer choice point or the current frame comes from, below
  an older choice point, is what that older one comes from. This is what makes it
  enough to look at addresses: a frame above the cut that an older choice point
  needs does not exist;
* `Whole`: each frame on the stack can still be come to, so that none keeps a
  reference for nothing;
* `Called`: a foreign frame with a context has its choice point, unless it is the
  one that waits at its call port, which is how `I_DEPART` leaves it.

Lemmas say what pushing a frame, pushing a choice point, cutting back and leaving
keep of `Shape` (`Trimmed` and those that cite it), then what each does to the counts;
each action combines them.

`TrailProofs`. `UndoIsExact`, `UndoIsSafe`, `BarIsSound`, `MarksAreNested` and
`TrailTypeCorrect` are proved of `Trail`. `TrailIsLocalStack` gives them the invariant of
`LocalStackProofs`, since each step is one of `LocalStack`; `TrailInv` is added to it. The
first three together are `TrailIsSafe`, the property `TrailSafe` of the run `engine`. Parts
of `TrailInv`:

* `Noted`: between any two marks, and between a mark and the tops, the trail has
  exactly what the log has of the slots that the choice point with the lower mark
  has seen (`Agree`). `UndoExact` is the case of a mark and the tops. It is not
  inductive without the pairs: after `Undo()` to a newer choice point the
  tops are its mark, and what an older one then finds was in between;
* `Within`: a trailed slot of the local stack that is not above choice point `c` is in a
  frame that `c` comes back to, or with the host. This needs `Nested` when code assigns in the
  frame that runs, and, for every other step, that the frames below a choice point
  that is kept do not change (`Steady`), which there is a lemma about for each action;
* `Barred`: no mark in use is above the bar. Backtracking and `C_CUT` leave the bar
  where it is, which only makes it too high; a cut that lowers it takes the mark
  of the newest choice point left, which is the highest because marks rise with
  addresses;
* `DOMAIN mark = DOMAIN choice`.

The argument that `Trail()` may leave out a cell above the bar is in `Assigned`: such a
cell is above every mark, so that no choice point has seen it. In `B_THROW` the
bar is raised once more, by the `Mark()` of `unify_ptrs()`, to no less than the mark of
`catch/3`; the choice points that are left are older, and so are their marks.

That `Engine` implements `Trail` is model-checked (`StacksHold`), with `WellFormed` under
the mapping as an assumption that TLC evaluates (`StackAssumption`): for the code that
the run compiles, each step is one that `Trail` allows, and the theorems about `Trail` and
`LocalStack` hold of it.

Only model-checked:

* the liveness properties `ReturnsUnlessMissed`, `EndedIsFreed` and `SignalsRun`,
  because the proof system cannot reason about fairness over `ENABLED`;
* of `Engine`, what is about data: `AnswersRight`, `TermsSound`,
  `AssertionsHold`, `DecompiledRight`, `TypeOK`, and its own `ReferencesExact`,
  `ContextsExact` and `StackSound`, which are written with the pointers of `vm` and
  have their counterparts in `LocalStack` proved (`TrailSafe` is literally that of `Trail`);
  and the refinement `StacksHold`. The
  compiler, the decompiler, the meaning of goals and the walks along parents are
  recursive operators over programs, terms and stacks, and what those compute needs
  induction over data.

## 7. What is not modelled

`PROJECT.json` lists every component with its status and every hazard with the
property that covers it or the reason why none does. The main gaps:

* between `depart_continue` and `enterDefinition()` a frame has a generation and
  no reference. With threads a clause that its generation sees can be erased
  and collected in this gap; then the logical update view does not hold.
  `LogicalUpdateView` is therefore checked without preemption;
* `nth_clause/3` and `erase/1` hold a clause without a reference and can see it
  freed when other threads run;
* the walk along the clause list is not locked against the thread that links a
  clause; stores are assumed to appear in program order;
* clause hash tables, redefinition, import and the property flags. The
  search they speed up has the same result, but their upkeep has hazards of its
  own: `gcClauseChain()` does not count what it deletes when all chains are dirty
  (`pl-index.c:530`), so that `size` drifts, and adding the clauses of a large
  predicate to a new table can collect and rehash in the middle of the loop;
* `copyHTable()`, which copies the list of enumerators with the table;
  `lookupHTable()` without a lock against rehashing; what callers do with a
  symbol that is deleted after it was returned;
* `thread_kill/2`; `current_thread/2` and the signals of atom garbage collection, which
  read the data of every slot; threads that attach from foreign code,
  cancellation of all threads at halt, the destruction of mutexes; a
  message for a thread that ends is a hazard without a model;
* in `Engine`: other functors than `./2`, debugger ports, nested queries, stack overflow, and
  `block/3`. Of the last, `!/1` on a block (`I_CUT_BLOCK`, `pl-wam.c:2646`) discards
  only frames that are newer than the current one, so that nondeterministic goals
  between the block and the cut are not left;
* arithmetic beyond compiled sums of small integers: floats, overflow and
  functions defined in Prolog, which `A_VAR` calls with `lTop` below the numbers
  already pushed;
* atoms, records and modules: tables that are looked up and collected; their
  deferred deletion follows the scheme of clauses;
* pure algorithms (reading and writing, comparison and copying of terms), I/O and the garbage
  collector of the stacks.

## 8. Plan

Done: `LogicalUpdate`, `ClauseDB` and its refinement; `UserMutex`; `ThreadMessages`;
`SymbolTable`, `HashTable` and its refinement; `Threads`; the compiler, decompiler
and virtual machine, with pairs as compound terms and two arguments; type correctness of every
module a proof can reach; `LocalStack` and `Trail`, which `Engine` implements; and the theorems of
section 6.

What would come next, in this order:

1. Clause hash tables of `pl-index.c` as a refinement of the linear search, with
   their dirty bookkeeping: the counts of section 7 are the properties.
2. `Threads` with the queues of `ThreadMessages`, for messages to threads that end,
   and `ClauseDB` under the frames of `Engine`, so that the references that cuts
   and exceptions give up are those of a database that changes.
3. `Atoms` (registration, marking, collection while another thread looks up) and
   record lists.
4. Other functors than pairs and more than two arguments in `Engine`.
5. In `Trail`, the values that `setarg/3` puts on the trail, so that `Undo()` restores
   what was overwritten and not only unbound variables.
