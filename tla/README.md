# ARTist in TLA+

Specifications, TLC configurations and TLAPS proofs for ARTist, the
instrumentation framework built into the Optimizing backend of ART's compiler
(`dex2oat`). Paths below are relative to the repository (`api/...`,
`internal/...`).

ARTist is a library inside somebody else's process. The compiler driver loads
*modules*, registers them with a singleton, has them initialised once, and then
compiles methods on many threads; for each method it runs the *pass* of every
enabled module over the method's graph. The code of the driver and of the
backend is not in the repository. What the models assume of it is marked
"external" in the map and listed under [Assumptions](#assumptions-about-code-outside-the-repository).

## Inventory

| Component | State | Operations | Interacts with | What is hard |
|---|---|---|---|---|
| `ModuleManager` (`api/modules/module_manager.*`) | `_init_flag`, `_modules`, `_dex_file_env`, `_environments` | `registerModule`, `initializeModules`, `getCodelibEnvironment`, `getDexFileEnvironment`, `initialized` | read by every compiler thread, without locks | the flag is raised before the work is done; late registration; order of the modules |
| `DexfileEnvironment` (`api/env/dexfile_environment.*`) | `_app_dex_files`, `_codelibs`, `_all` | `declareCodelib`, `isCodelib` | moved along by the manager, read by the constructor of environments and by passes | changes between two environments; a CHECK against the wrong vector |
| `CodeLibEnvironment`, `CodelibSymbols` (`api/env/codelib_*`) | indices, `_symbols`, `_instance_offset` + `once_flag`, `methodVtableIdx` | constructor, `getInstanceFieldOffset`, `getMethodVtableIdx` | shared by all compiler threads | lazy initialisation, one half with and one half without synchronisation |
| `HArtist` (`api/modules/artist.*`) | `_codelib_instruction`, the two environment pointers, the static `_method_counter` | `Run`, `GetCodeLibInstruction`, `fixMaximumNumberOfOutVRegs` | one object per method and module; the counter is shared by all threads | cached instruction; passes of several modules over one graph; a counter without a lock |
| `HInjectionArtist`, `HInjectionVisitor` (`api/injection/injection_artist.*`, `internal/injection/*`) | `_injections`, `_injection_table` | `SetupInjections`, `Visit...`, `InjectInstruction` | `ArtUtils::InjectCodeLib`, `InjectMethodCall` | insertion into the list that is being walked; multiple targets |
| Injections, targets, parameters (`api/injection/*`) | immutable declarations | constructors, getters | declared by modules | - |
| `ArtUtils` (`api/utils/artist_utils.*`) | none | searches in dex files, insertion, signature parsing | everybody | boundary cases of searches and of the parser |
| `MethodInfo`, factory, `ParamFinder` (`api/modules/method_info*`, `internal/utils/param_finder.*`) | names, parameters and their types | `obtain`, `IsStringParam` | handed to passes and filters | index arithmetic, no bounds checks |
| `FilesystemHelper` (`api/io/filesystem_helper.*`) | directories on disk | `createForModule`, constructor, `setupDir` | other compiler processes through the disk | look-then-make, killed processes |
| Filters (`api/filtering/*`) | names, flags | `accept` | asked by the driver, per module and method | modes that combine; one module's filter must not touch another module |
| `ArtistLog`, `VerbosePrinter` (`api/io/*`) | `gLogVerbosity`, one-time flag | logging, `LogMethodCount` | everybody | `LogMethodCount` looks at the shared counter; the rest is output |
| The runtime's mutator lock (external) | readers, a suspension request | `SharedLock`, `SharedUnlock`, `ScopedObjectAccess` | taken by `CodeLibEnvironment`, `CodelibSymbols`, `ArtUtils`; against the collector | lock taken by hand inside `call_once` and around scopes |
| `ErrorHandler` (`api/io/error_handler.*`) | none | `abortCompilation` = `terminate()` | everybody | the process is gone, whatever other threads are doing |

What makes each of them correct is stated under
[Modules](#modules-and-how-they-correspond-to-the-code); the hazards, each at
its line, are in `PROJECT.json`.

## Modules and how they correspond to the code

Every module keeps the code's names where TLA+ allows it. Operators named
`Mutant...` are deliberate bugs: each stands before the definition it would
replace and shows that the properties notice that bug. Nothing uses them.

### ModuleManager

The registry, the dex file lists, the construction of environments and the
threads that use all three. `initializeModules` is one action per point where
another thread can see a difference:

| Code | Action |
|---|---|
| `_init_flag.exchange(true)` | `BeginInitialize`, or `InitializeAgain` (abort) |
| `make_shared<DexfileEnvironment>` | `CreateDexEnvironment` |
| `createCodeLib() == nullptr` | `SkipModule` |
| no dex file found, `setEnabled(false)` | `DeactivateModule` |
| first dex file that defines the code class | `FindCodelibDex` |
| `declareCodelib` | `DeclareCodelib`, `DeclareCodelibTwice` (abort) |
| `CodeLibEnvironment` constructor and `_environments[id] =` | `ConstructEnvironment`, `ConstructEnvironmentFails` (abort) |
| the constructor's `ScopedObjectAccess` never comes back | `ConstructorSticks` |
| `_init_flag = true` | `FinishInitialize` |

`input` is what the dex files contain, reduced to what the searches answer:
which files define a code class, which mention it and all its methods, which
have the codelib's own indices. Nothing forces a codelib to answer its three
questions consistently, so "defines" does not imply the other two. (The class
search tests for a prefix; descriptors end in ";", so on well-formed ones this
is equality.)

A worker takes a module's pass in `CreatePass`, with the pointers as they are at
that moment, and uses them later: `SkipCodelibMethod`, `RunPass`, or
`PassCrashes` when a pointer it needs is missing.

Properties: the dex files are partitioned; published environments have symbols
for every app file although the list was longer when they were built; they
belong to the module their id is bound to; a worker never meets a missing
pointer of a module registered in time; a published environment is never
replaced and an id never rebound, and once initialisation has returned no
environment, switch or list of dex files changes any more
(`PublishedIsStable`); the outcome is a function of the input, stated without
the loop (`InitializationVerdict`); initialisation ends unless a constructor in
it gets stuck.

The registry itself does change under the threads that read it: nothing keeps
`registerModule` from inserting into `_modules` while a thread copies the map
in `getModules`, and there is no lock. The model makes the insertion and the
copy one step each, so it shows which modules a thread sees and when, and that
entries added after the start count as late; what the copy of a tree that is
being changed yields is not modelled.

`ConstructorSticks` is the event that RuntimeLocks is about: a collection that
begins while the constructor of an environment holds the mutator lock. It
leaves the thread at `pc = "stuck"` for ever, and nothing forces it to happen.

`CodelibProvision` is the abstract promise: every module that wants a codelib
gets a dex file of its own or is switched off, decided before the first pass
exists, and a pass holds what its module was given. `ProvidesCodelibs` is the
refinement: "off" is a registered module with a codelib whose object is
disabled, "given" is the file of its environment, "closed" is the end of
`initializeModules`, "over" is a process that has terminated. Modules that are
registered later are outside the promise.

### CompilerPipeline

The compiler threads on top of ModuleManager. A thread takes a method and a
copy of the map (`getModules`), and goes through the copy in the order of the
ids: `PassOver` when the module is disabled or its filter declines, `MakePass`
otherwise. The pass returns early (`ReturnEarly`), crashes (`Crash`), or counts
the method and changes it. `LogMethodCount(++_method_counter)` is three steps,
since the static is shared and not atomic: `ReadCounter`, `WriteCounter` and
`LogCount`. The increment yields the counter itself, so that the argument of
`LogMethodCount` is read from it once more after the store; a compiler may also
pass on the value it has in a register (`Answers` has both). `Weave` is the
rest of `HArtist::Run`.

Texts are model values or short names, and whether one is found in another is
the constant relation `Occurs`. A filter is a record; "no filter" is the empty
set, `DualFilter` is the set of its two parts.

`WovenAsSelected` says what should become of each method without the loop, the
switches and the moments at which they are read, and compares. `CountVerdict`
says what the unsynchronised counter still guarantees. Counts are lost, and a
multiple of 1000 may be logged twice or never: one thread stores 1000, another
1001, and both log what they read afterwards, which is 1001. But the counter
never runs ahead of the methods counted, and a multiple that is in no log was
being counted by two threads at the same time (`contested`), or is about to be
logged.

### RuntimeLocks

Each routine that touches the managed heap is a sequence of lock, unlock,
scope, heap and `call_once` operations, and threads run these sequences
against each other and a collector. A `ScopedObjectAccess` waits while a
suspension is requested; `SharedLock` waits only while the collector has the
lock; the collector stops the world when no thread holds it.

`OnlyConstructionSticks` is the point of the module. The constructor of
`CodeLibEnvironment` locks the mutator lock shared
(`codelib_environment.cc:48`) and opens a `ScopedObjectAccess` while it holds
it (`:57`). If the collector requests suspension in between, it waits for the
lock and the constructor waits for the collector (`Stuck`). Every other
encounter of threads, `call_once` and collector is resolved.

### InjectionPass

The passes of the modules over the graph of one method. A step is one round of
one of the code's loops: a target of an injection looked at (`PassOver`,
`Inject`, `AbortCompilation`), an instruction or block advanced to (`Advance`,
`EnterBlock`, `EndVisit`), the table filled (`SetupPass`), the out registers
repaired (`FixOutVRegs`). `cur` and `next` are `instruction_` and `next_` of
the backend's instruction iterator, which reads the next instruction *before*
the visit that inserts: the visitor's termination rests on it.

The four instructions of `InjectCodeLib` are always adjacent and are one
instruction `"CodeLib"`. Constants for parameters are not in the graph: the
backend keeps them in the entry block, where no visitor looks. A parameter is
its type: a call of it takes one register or two (`Words`), and the two
abstract types make `SetupFunctionParams` end the process. What else a call
needs is part of the input: an environment at all, an instance field that
resolves (`libs`, per pass), a method that the symbols have (`listed`) and that
the codelib's own dex file has and resolves (`resolved`). `Usable` has all of
them, `AbortCompilation` is what happens when one is missing. A signature string is a model
value and a target is the set of signatures that contain its search string.
History fields (`by`, `inj`, `anchor`, `lib`) say where an instruction comes
from.

`WovenAsIfStill` is the heart: it compares the graph after a pass with one
computed from the policy and the graph before it, call by call and place by
place. The computed graph is what the table and the two loops of the code make
of the policy when the graph stands still: it says that walking a graph under
change makes no difference, and not that the policy asks for all of it. For an
injection with one target it does; with several, the code makes more calls than
the policy asks for, and the computed graph has them too (`all` and `once` in
`Calls`). The others are about aborts (`FaultyPolicyVerdict`), about the walk not feeding on its own
output (`NeverVisitsOwnCalls`, `PassesEnd`), about what the backend relies on
(`TerminatorLast`, `CodelibBeforeUse`, `OutsCoverArguments`) and about code
being only added (`CodeOnlyAdded`, documented in `injection_artist.h:37`).

Some consequences of the code may surprise a module's author. All are in the
model, and the instances contain them. One contradicts what the code says of
itself and is a finding; one the code calls a bug itself, and the model has that
bug; the others contradict no text of the repository, and the properties leave
them out by name. A passing run therefore says that they happen only in the
situations named here, not that they do not happen:

* METHOD_START is registered for the returns, so its call is made once for
  every return of the method and not at all in one that never returns.
* An injection with several targets is carried out, for an instruction, once
  for each target aimed at its kind, and each time for *all* targets that name
  the method. Two targets of one type that name an instruction make four calls
  there, one of each type at a call does too. The TODO at
  `injection_artist.cc:62` ("Bug: Using Injection with multiple targets that
  have the same InjectionTarget Leads to duplicate injections") describes the
  first of these. It is a known bug that code and comment agree on, so no run
  reports it; `WovenAsIfStill` says that there are exactly as many duplicates
  as it explains.
* An injection that mixes a generic METHOD_CALL_AFTER target with one at
  METHOD_START or METHOD_END puts a call behind the return of a block, because
  the name of the method "called" by a return is empty and `*` matches it. A
  later pass visits that call and may put its own behind it. This is the
  exception `AfterReturns` in `TerminatorLast`.
* An injection that has a target for calls besides METHOD_START is carried out
  at calls too, and each time puts a call at the end of the entry block. If
  earlier modules have left a call there with more code between it and the end
  of the block, that end lies ahead of the walk: it visits calls of its own,
  and with a generic target each of them adds another, so that the pass never
  ends. `NeverVisitsOwnCalls`, `PassesEnd`, `WovenAsIfStill` and
  `FaultyPolicyVerdict` except exactly this situation (`MayMeetItself`), and
  the instances contain it.
* A module that declares a target for calls of what an earlier module injects
  at METHOD_START looks at calls in the block where the codelibs are loaded,
  and may put its own in front of the load they use (the finding of
  `injection_two_modules`). It need not be a generic target: what the target
  names suffices, and so does a METHOD_END of the same injection, which is
  carried out at those calls as well. This is the exception `AimsAtStartCalls`
  in `CodelibBeforeUseApart`.
* `fixMaximumNumberOfOutVRegs` counts arguments, not registers: an injected
  call that passes a long or a double may be short of out registers.
  `OutsCoverArguments` says that only such calls are.

### CodeLibCache and PureGetter

`getInstanceFieldOffset` and `getMethodVtableIdx` of one environment, called
by many threads. `call_once` is `EnterOnce`/`LeaveOnce`/`PassOnce`. The
expression `methodVtableIdx[s] = find(s)` is three actions, because the
standard leaves the order of its sides open (before C++17): `InsertDefault`
and `SearchIndex` in either order, then `StoreIndex`. Each operation on the
map is atomic in the model; in the code it is not even that, so the
properties that hold here are the best case and the one that fails
(`IndexAnswersReal`) fails in every build.

`PureGetter` is the promise of the class comment ("act as a pure data
object"): every request is answered with a value that belongs to its key.
`AnswersAsPromised` is the refinement, with the values the code can keep to:
for the offset the one that was found; for an index the right one, and for more
than one thread also 0. The run `cache_race` shows the 0. So the promise is
kept for the offset and for a thread that is alone.

`findInstanceFieldOffset` reads `_class_loader`, a handle into a scope that
ended with the constructor (`codelib_environment.cc:59`, `:158`). What it finds
there is up to a dead stack frame, so the search may fail and abort at any
time; in the model it may.

### ModuleFolders

`createForModule` and the constructor of `FilesystemHelper` as system calls on
a shared file system. `setupDir` is `Found`, or `NotFound` followed by `Make`
or `GiveUp`. Processes are killed anywhere and come again (`Kill`, `Start`).
`denied` are the paths the operating system refuses for reasons outside the
five folders; that the parent of the base directory is missing, where `mkdir`
fails as well, is one of them. `AbortBlamesThePath` speaks of parents among the
five folders only.

Between its `stat` and its `mkdir` a process can be overtaken by another that
makes the folder, and is then turned away although everything is there
(`folders_race`). `OnceReadyOnlyRacersRefused` says that this is the only way:
once a module has had its folders, whoever looks finds them.

### MethodParameters

`ExtractMethodArguments` with a branch of its loop body per action, the
return type, and `IsStringParam` on the result. Characters that the parser
treats alike are one character. A signature is the name of a method, the
descriptors of its parameters in parentheses and the descriptor of what it
returns; that these are descriptors of the dex format, and that names hold no
parentheses, is the assumption `ParametersAssumption`.

## Runs

| Run | Shows | Expectation |
|---|---|---|
| `manager` | all properties of ModuleManager and the refinement of CodelibProvision, driver waits for `initializeModules` | holds |
| `manager_flag` | a driver that waits for `initialized()` gets null environments of codelibs that exist | finding |
| `pipeline` | two threads take methods through filters, passes and the shared counter while modules are registered and initialised | holds |
| `injection` | all combinations of two small policies, injections with two targets, and chains of three passes, over three graphs; codelibs are loaded before use unless a later pass aims at what an earlier one put at the start | holds |
| `injection_two_modules` | ... and that they are not otherwise | finding |
| `cache` | three threads, two signatures; refinement of PureGetter | holds |
| `cache_race` | index 0 returned to a second thread | finding |
| `locks` | the mutator lock against a collector; nobody waits for ever but the constructor of an environment | holds |
| `folders` | three processes, one module, one kill, any file system; who is turned away although the folders are ready stood before `mkdir` when they became so | holds |
| `folders_race` | a valid directory reported as not set up | finding |
| `parameters` | all signatures of up to three parameters | holds |
| `parameters_ask` | `IsStringParam` shifts the wrong kind of method | finding |

### Bounds

* `manager`: two ids, two objects, two codelibs, three dex files. Two modules
  are enough for a clash and for one environment to be built before the list
  shrinks for the other; the third file is an app file in every case. One
  worker: workers do not write anything the manager or another worker reads,
  so several of them interleave with initialisation exactly as one does.
* `pipeline`: the same, with two workers, because they share the counter, and
  two methods in two files. Five inputs: one codelib in either file, one for
  each module, one that no file defines, none. Three settings of the filters
  tell substring, exact name and signature apart, and a single filter from a
  dual one. `Period` is 2 instead of 1000, so that two threads meet at a
  milestone; the theorem covers every period.
* `injection`, `injection_two_modules`: three graphs (calls in a row; two
  returns, every kind of invoke and a removed block; a method that throws), with
  the compiled method matched or not, all policies of up to two injections for
  the first pass and one for the second, every target type, generic and not;
  unlisted signatures, methods that do not resolve, abstract parameters,
  parameters of one and of two registers; passes without an environment or with
  an instance field that does not resolve, first and second; for one pass, one injection with any two targets; for the second
  pass, an injection with METHOD_START and a target for calls after two calls
  at the start. Two passes are enough for one to meet the code of another, but
  a codelib can also lie between the code of two others, and a call behind a
  return can be followed by one more: chains of three passes whose targets name
  each other's methods show these. `MaxCode` is 40; outside of `MayMeetItself`
  no method grows beyond 28 instructions, so only a walk that feeds on itself
  reaches it.
* `cache`: the properties concern one key at a time; three threads give one
  that inserts, one that finds and one that stores.
* `locks`: the thread that builds the environment and two workers, two routines
  each, two collections: one thread inside `call_once`, one waiting for it, and
  a collection around both, after one that has come to an end.
* `folders`: every consistent file system of one module, with none or any one
  path refused. Folders of different modules only share their parents, which
  processes of one module share too; the theorems cover any number of modules.
  Three processes: one that is killed, one that makes and one that looks.
* `MaxKills`, `MaxCalls`, `MaxCollections` and `MaxCode` are the only bounds in
  guards.

Deadlock checking is off where the system really stops: the manager when the
process has terminated, a pass when it is done, threads whose process was
aborted or that wait for each other in the constructor (`Stuck`), a static
method without parameters, about which nothing can be asked.

### Fairness

A step of ModuleManager, CompilerPipeline, InjectionPass or CodeLibCache may
include a wait for the mutator lock or for `call_once`, which the code does not
bound. That such a wait ends is not taken for granted: RuntimeLocks models the
lock, `call_once` and the collector and shows it (`OnlyConstructionSticks`)
for all but one, the scope in the constructor of an environment. That one is an
action of its own in ModuleManager and CompilerPipeline, `ConstructorSticks`,
which fairness does not keep from happening; `InitializeEnds` and
`MethodsFinish` name its outcome.

* ModuleManager: weak fairness of `InitializeStep`, every other step inside
  `initializeModules`. Nobody is forced to call it.
* CompilerPipeline: weak fairness of `InitializeStep` and of each thread's
  `WorkerStep`.
* RuntimeLocks: weak fairness of each thread's steps inside a routine and of
  the collector that has begun. Nobody must begin a routine or a collection.
  Weak fairness does: a thread is kept from its lock only while the collector
  works, which does not begin again for ever.
* InjectionPass: weak fairness of `Next`. A pass is a loop in one thread.
* CodeLibCache: weak fairness of each thread's `Step`, not of `Call`.
  `call_once` itself is not assumed to release anybody: a waiting thread is
  simply not enabled until the flag is set.
* ModuleFolders: weak fairness of each process's system calls.

## Proofs

TLAPS checks the following for every value of the constants.

`ModuleManagerProofs` proves the inductive invariant `IInv`. The properties
alone are not inductive: that no two environments share a file follows only
from what is true *at* each point of the loop. `IInv` adds to `TypeOK`,
`DexFilesPartitioned` and `SymbolsCoverApps` the phases (`Phases`: which
variables are still initial at which `pc`), what the code knows at `declare`
and `construct` (`AtProvider`), where environments and jobs come from
(`Origins`), and what the loop has done to the modules behind it
(`Processed`). From it: `TypeCorrect`, `PartitionHolds`, `SymbolsHold`,
`OwnershipHolds`, `ReadyHolds`, and the action property `StabilityHolds`. With
`Gate = "returned"` also `NullHolds` and `WorkersHold`: they are exactly what
the finding of `manager_flag` breaks.

`VerdictHolds` is the theorem about `InitializationVerdict`, which knows
nothing of the loop. Two lemmas carry it: a provider the loop has passed has
its environment and owns its file (`BuiltOwns`, `PassedIsBuilt`), so that at
the constructor the app files are exactly those nobody so far has claimed
(`ConstructSees`); and late registrations change nothing about the providers
(`VerdictSettled`).

The same module proves the refinement of `CodelibProvision`
(`ProvisionHolds`): each action of the manager is matched with one of the
abstract promise, from `IInv` and one addition (`AllEnabledEarly`: nothing is
switched off before the loop begins). `IInv` already knows that the module the
loop looks at is not decided yet, and that at the end all are.

`CompilerPipelineProofs` proves first that the threads' steps are steps of the
manager (`PipelineRefinesManager`), which brings `IInv` over, and from it, for
any number of threads, methods and modules and any filters, `WovenHolds`: the
invariant relates the modules a thread has still to come to with those that
have changed its method. `CountHolds` rests on two facts: every number a thread
has read or written, and everything up to it, is accounted for (`Accounted`: a
multiple is logged, contested, or about to be logged), and a thread that counts
is alone or its number is contested (`AloneOrContested`).

`RuntimeLocksProofs` proves for any number of threads and collections that the
collector never has the lock together with a thread and no thread has it more
than twice (`TypeCorrect`), that the heap is touched only under the lock and
that every routine gives it back (`ScopesHold`). A thread is always at the end of some routine, and the set
`Ends` tells how often it holds the lock there; each operation leads from one
member of the set to another.

`CodeLibCacheProofs` proves, for any number of threads and signatures, that
the offset is found once (`OnceHolds`) and never read early (`OffsetHolds`),
that the index map settles (`SettlesHolds`) and never turns a right index
wrong (`NeverRevertsHolds`), and that every step is a step of `PureGetter` or a
stutter (`GetterHolds`). The invariant says which thread may be inside the
initialisation for each value of the flag, and that a thread alone never meets
a default entry it is not about to fill.

`InjectionPassProofs` proves, for every method, every policy and every number
of passes, what the passes leave of a graph that they walk and change at once.
The inductive invariant `PassInv` has these parts:

* `Sound`: identities are unique and below the next one, and every instruction
  is the method's own or stems from a pass that has begun (`Origin`).
* `Walk`: the visited instruction and the one that was next are in the block
  the visitor is at, in this order, and what is left of the visit are targets
  registered for its kind.
* `Entry` and `Ends`: the entry block keeps its end and holds no return; the
  other blocks keep theirs up to the exception `AfterReturns`.
* `Codelib`, `Libs`, `Apart`: the codelib of the pass is in the entry block
  before its last instruction, the calls of the pass are made on it, all others
  on one of the entry block; and behind it, as long as passes do not look at
  each other's calls there.
* `OwnBehind`: every call this pass has inserted is where the walk does not
  come any more (`Behind`). In the entry block this rests on `Ahead`: unless a
  call is left inside the block (`CallInside`), nothing is ahead of a visit
  there but the end of the block.
* `Reserved`: the registers of the method, and those its calls have.

`Inject` inserts twice, the codelib and the call. The parts are therefore
stated of any graph, codelib and next identity, and one lemma for each says
that putting one instruction into one place keeps it (`SoundPut`, `WalkPut`,
`BehindPut`, ...); `Shift` says where an insertion moves the others. From
`PassInv` follow `TypeCorrect`, `OwnCallsNotVisited`, `TerminatorsStay`,
`OutsCover` and `CodelibsApart`; with it, of a step, `OnlyAdded`. Three of the
exceptions the properties make were too narrow before the proof: TLC had found
nothing, because two passes with one target each do not show it. They are the
third, fourth and fifth consequence listed under
[InjectionPass](#injectionpass), and the runs now contain each.

`VerdictHolds` is about what the walk does *not* miss, whichever of the four
reasons there is to give up. `VerdictInv` adds to
`PassInv` that the table has all that is registered (`TableFull`), that apart
from what the pass has inserted the graph is what it was (`Foreign`), that only
insertions of the pass are between the visited instruction and the next
(`Between`), that no instruction behind the walk was a reason to give up
(`Clean`) and that those at the visited one are still to come (`Pending`).

`WovenHolds` is the theorem about the places, `WovenAsIfStill`. The finished
graph does not say how it came about, so `WeaveInv` says of the graph at every
moment what it is woven from. It supposes for each instruction the pass found
the list of the targets already looked at there (`done`), and says

* which they are (`Reached`): all of the instruction's targets behind the walk,
  none ahead of it, and at the visited instruction those that `todo` has not;
* what each block is then (`WovenTo`): its `Fabric`, which is every instruction
  with what the targets in `done` have put before and behind it (`Partly`), and
  in the entry block the codelib and all calls at the start before the end of
  the block (`Hem`);
* that the codelib is there if and only if some target has made a call (`Hit`),
  and that what the pass found keeps its blocks and its order (`Steady`).

A target that makes no call lengthens one list and leaves the fabric alone; an
insertion puts its call into the place in the fabric that the longer list
has it in. For the calls at the start that place depends on all blocks at once:
the call is the last of them only because the walk has been at nothing ahead
of it (`Later`). Before the first instruction every list is empty and the fabric
is the graph as it was found; behind the last, every list is complete and the
fabric is the `Woven` graph. That the visited instruction is one that the pass
found comes from `OwnCallsNotVisited`, and is why `MayMeetItself` is excepted.

`MethodParametersProofs` proves for signatures of any length that they come
apart into the types they were made of (`SignatureRead`), that a type never
comes incomplete (`TypesWhole`) and that the search for the closing parenthesis
stays in the string (`TypeCorrect`). `ParseInv` relates the position of the
loop to the complete types and what the two buffers hold, which is the
beginning of the next declared type. The type that is returned is behind the
first `)`, because descriptors hold none.

`SequenceLemmas` has the facts about sequences that these two modules rest on. The
operators the models use, `FlattenSeq` above all, are recursive functions, and
the induction theorems of the library take an operator as an argument. The
module therefore proves induction for *sets*: a set of numbers with 0 that is
closed under the successor has them all (`SetInduction`, from the least element
of a set of numbers), and a set of sequences with the empty one that is closed
under Append has them all (`SequenceInduction`). A property becomes the set of
the sequences that have it. On top are the facts about `FlattenSeq`,
`InsertAt` and `Reverse` that a weave needs: one part of a flattened sequence
stands between what comes before and after it (`FlattenAround`), a part that
grows lets the whole grow in one place (`FlattenGrow`), and inserting next to an
element is concatenation around it (`InsertAround`).

`ModuleFoldersProofs` proves, for any number of processes, modules and kills,
that the file system stays a tree (`TypeCorrect`), that a helper that was
built is usable (`UsableHolds`), that its module is refused again only to a
process that stood before `mkdir` of a folder another has made
(`OnlyRacersRefused`, the process of `folders_race`), and that an abort is never the fault of a missing parent
(`AbortsJustified`). The strengthening is `Behind`: every folder before the one
a process is at is a directory. It is kept because no step unmakes a
directory, and it is what makes `mkdir` fail for no reason but its own path,
since a folder comes after its parent in the order of the calls (`ParentFirst`).

Assumptions: the named ASSUMEs of the modules, which TLC evaluates in the runs
(constants are disjoint, numbers are positive, a text occurs in itself; what
the backend hands to the passes, `GraphsAssumption`; what a signature is,
`ParametersAssumption`), and `Gate = "returned"` where a theorem says so, or
throughout CompilerPipeline (`DriverWaits`).

Only model-checked: liveness (`InitializeEnds`, `MethodsFinish`, `PassesEnd`,
`CallsReturn`, `SetupEnds`, `OnlyConstructionSticks`), because fairness and
ENABLED are out of the prover's reach. Every other property of a passing run is
stated by a theorem.

## Assumptions about code outside the repository

* The driver registers and initialises modules from one thread (`RegisterModule`
  is not interleaved with the loop), but may register again later. When it lets
  compiler threads start is the constant `Gate`: `"returned"` (after
  `initializeModules`) or `"flag"` (when `initialized()` is true).
* The driver loops over a copy of the module map, in the order of the ids; it
  creates a pass for a module that is enabled and whose filter accepts the
  method, and runs the passes one after the other over the same graph, in one
  thread per method.
* `ScopedObjectAccess` waits for a requested suspension to end, `SharedLock`
  only for the holder of the lock; the collector waits for all holders.
  `call_once` lets one thread in and the others wait.
* The backend's visitor goes through the blocks in insertion order and its
  instruction iterator reads the next instruction before visiting the current
  one; `InsertInstructionBefore/After` do what they say; the entry block ends
  in an instruction of its own; removed blocks are null.
* The graph a method comes with has identities of its own, no calls or returns
  in the entry block and no block that ends in a call; and the method reserves
  at least the registers its own calls take.
* Names and descriptors in dex files have the format of dex files.
* `mkdir` fails for a path that exists; `stat` does not fail otherwise.

## Not modelled

* Output: `VerbosePrinter`, `LogMethod` and the dump functions of `ArtUtils`
  write what they are given and change nothing.
* Without a caller in the repository: `SetupArtistLogging`,
  `ForceVerboseLogging`, `AppendInstruction`, `InsertInstructionAtTop`,
  `InitializeInstruction`, `GetDexName`, `isFile`.
* The data race of `registerModule` against the copy in `getModules`: both are
  one step in the model (see [ModuleManager](#modulemanager)).
* Plain getters, and the values of parameters, which pass through unchanged.
* The wrap of the 32-bit method counter, which takes four billion methods.
* The lock of the class linker that Marshmallow builds take in addition; it is
  only ever shared.
* A *wrong* field found through the class loader handle that has outlived its
  scope: it would need the contents of a dead stack frame. That the search may
  fail is modelled.
* The environments of inserted instructions: the code that runs sets none;
  `InitializeInstruction`, which would, has no caller.

## Plan

Done: ModuleManager with CodelibProvision, CompilerPipeline, InjectionPass with
typed parameters and several targets, CodeLibCache with PureGetter,
RuntimeLocks, ModuleFolders, MethodParameters; theorems about all of them, and
about every safety property of the passing runs.

What is left is a pipeline whose `Weave` is a pass of InjectionPass, so that
`WovenAsSelected` speaks of calls instead of modules.
