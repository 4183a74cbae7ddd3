--------------------------- MODULE ModuleManager ---------------------------
(***************************************************************************)
(* The process-wide registry of ARTist modules (ModuleManager), the dex    *)
(* file bookkeeping it owns (DexfileEnvironment) and the codelib           *)
(* environments it builds (CodeLibEnvironment, CodelibSymbols), together   *)
(* with the compiler threads that look them up and run passes.             *)
(*                                                                         *)
(* initializeModules is split at every point where another thread can see  *)
(* a different state: the atomic exchange of the flag, the creation of the *)
(* dex file environment, the declaration of a codelib dex file and the     *)
(* publication of the environment of each module.                          *)
(***************************************************************************)
EXTENDS Naturals

CONSTANTS
  ModuleIds,      \* keys of _modules; integer order is the order of the map
  ModuleObjects,  \* Module instances that the compiler driver may register
  CodeLibs,       \* codelibs that createCodeLib can return
  DexFiles,       \* dex files to compile; integer order is the vector's order
  Workers,        \* threads of the compiler that compile methods
  Gate,           \* "returned" or "flag": when the driver lets workers start
  Inputs,         \* the inputs considered: a subset of InputSpace
  None            \* nullptr, and the absence of a map entry

(***************************************************************************)
(* What is fixed before compilation starts.                                *)
(*   codelib   what createCodeLib of a module returns                      *)
(*   defines   the dex files whose class definitions include the code      *)
(*             class of the codelib                                        *)
(*   mentions  the dex files that have a type index for the code class and *)
(*             a method index for every method of the codelib              *)
(*   owns      the dex files that have the type index and the instance     *)
(*             field of the codelib                                        *)
(* A codelib states the class, the methods and the field independently, so *)
(* that one file has one of them implies nothing about the others.         *)
(***************************************************************************)
InputSpace ==
  [codelib  : [ModuleObjects -> CodeLibs \cup {None}],
   defines  : [CodeLibs -> SUBSET DexFiles],
   mentions : [CodeLibs -> SUBSET DexFiles],
   owns     : [CodeLibs -> SUBSET DexFiles]]

ASSUME ConstantsAssumption ==
  /\ ModuleIds \subseteq Nat \ {0}
  /\ DexFiles \subseteq Nat \ {0}
  /\ Gate \in {"returned", "flag"}
  /\ None \notin ModuleObjects \cup CodeLibs \cup DexFiles
  /\ Inputs \subseteq InputSpace

(* A CodeLibEnvironment: its own dex file, its codelib, the keys of        *)
(* _symbols.                                                               *)
Environment ==
  [dex : DexFiles, codelib : CodeLibs, symbols : SUBSET DexFiles]

VARIABLES
  input,         \* the element of Inputs this compilation runs on
  modules,       \* _modules: id -> registered object, or None
  enabled,       \* Module::_enabled of every object
  initFlag,      \* _init_flag
  pc,            \* where the thread inside initializeModules is
  current,       \* id of the module the loop is at, 0 before the first
  codelibDex,    \* the local codelib_dexfile
  dexEnv,        \* TRUE once _dex_file_env points to an object
  appFiles,      \* DexfileEnvironment::_app_dex_files
  codelibFiles,  \* DexfileEnvironment::_codelibs
  environments,  \* _environments: id -> Environment, or None
  job,           \* per worker: the pass it has set up, or None
  late,          \* history: ids registered after the flag was raised
  fate           \* "running", or why the process terminated

managerVars == <<modules, enabled, initFlag, environments>>
loopVars == <<pc, current, codelibDex>>
dexVars == <<dexEnv, appFiles, codelibFiles>>
vars == <<input, managerVars, loopVars, dexVars, job, late, fate>>

Fates ==
  {"running", "initialised_twice", "codelib_dex_shared", "symbol_missing",
   "own_symbol_missing", "null_dex_environment", "null_environment",
   "null_symbols"}

Registered == {id \in ModuleIds : modules[id] # None}

CodelibOf(id) == input.codelib[modules[id]]

IsFirst(x, S) == x \in S /\ \A y \in S : x <= y

(* The ids that `for (auto it : _modules)` has not reached yet.            *)
Ahead == {id \in Registered : id > current}

(* The find of registerModule; mutant: any id is accepted again.           *)
MutantTaken(id) == FALSE

Taken(id) == modules[id] # None

(* What the exchange returns; mutant: the flag is set but never tested.    *)
MutantAlreadyBegun == FALSE

AlreadyBegun == initFlag

(* The files the environment constructor makes symbols for.  Mutants: the  *)
(* loop starts at the second file; it runs over all the dex files.         *)
MutantSymbolFilesButFirst == {d \in appFiles : \E e \in appFiles : e < d}

MutantSymbolFilesAll == DexFiles

SymbolFiles == appFiles

(* _app_dex_files once d is declared; mutant: the erase is forgotten.      *)
MutantAppFilesWithout(d) == appFiles

AppFilesWithout(d) == appFiles \ {d}

Job == [id : ModuleIds, dex : DexFiles, dexEnv : BOOLEAN,
        env : Environment \cup {None}]

ASSUME NoneIsNoEnvironment == None \notin Environment \cup Job

----------------------------------------------------------------------------
Init ==
  /\ input \in Inputs
  /\ modules = [id \in ModuleIds |-> None]
  /\ enabled = [o \in ModuleObjects |-> TRUE]
  /\ initFlag = FALSE
  /\ pc = "idle"
  /\ current = 0
  /\ codelibDex = None
  /\ dexEnv = FALSE
  /\ appFiles = {}
  /\ codelibFiles = {}
  /\ environments = [id \in ModuleIds |-> None]
  /\ job = [w \in Workers |-> None]
  /\ late = {}
  /\ fate = "running"

(***************************************************************************)
(* registerModule.  An id that is taken is refused: the call returns false *)
(* and changes nothing.  The driver registers from the thread that also    *)
(* initialises, so never while that thread is inside the loop.             *)
(* The map has no lock: a registration while a compiler thread copies it   *)
(* is a data race of the code, which the model does not look into: the     *)
(* insertion is one step here, the copy another.                           *)
(***************************************************************************)
RegisterModule(id, o) ==
  /\ fate = "running"
  /\ pc \in {"idle", "done"}
  /\ ~Taken(id)
  /\ modules' = [modules EXCEPT ![id] = o]
  /\ late' = IF initFlag THEN late \cup {id} ELSE late
  /\ UNCHANGED <<input, enabled, initFlag, environments, loopVars, dexVars,
                 job, fate>>

(***************************************************************************)
(* initializeModules, up to the atomic exchange.  Whoever finds the flag   *)
(* raised aborts the compilation, whether the first call still runs or has *)
(* returned.                                                               *)
(***************************************************************************)
BeginInitialize ==
  /\ fate = "running"
  /\ ~AlreadyBegun
  /\ initFlag' = TRUE
  /\ pc' = "create"
  /\ UNCHANGED <<input, modules, enabled, environments, current, codelibDex,
                 dexVars, job, late, fate>>

InitializeAgain ==
  /\ fate = "running"
  /\ AlreadyBegun
  /\ fate' = "initialised_twice"
  /\ UNCHANGED <<input, managerVars, loopVars, dexVars, job, late>>

(* make_shared<DexfileEnvironment>(dex_files): every file is an app file.  *)
CreateDexEnvironment ==
  /\ fate = "running"
  /\ pc = "create"
  /\ dexEnv' = TRUE
  /\ appFiles' = DexFiles
  /\ codelibFiles' = {}
  /\ pc' = "scan"
  /\ UNCHANGED <<input, managerVars, current, codelibDex, job, late,
                 fate>>

(* A module without a codelib needs no environment.  Mutants: the loop     *)
(* does not advance past it; the loop counts instead of iterating.         *)
MutantSkipModuleStays ==
  /\ fate = "running"
  /\ pc = "scan"
  /\ \E id \in Ahead : IsFirst(id, Ahead) /\ CodelibOf(id) = None
  /\ UNCHANGED vars

MutantSkipModuleCounts ==
  /\ fate = "running"
  /\ pc = "scan"
  /\ \E id \in Ahead :
       /\ IsFirst(id, Ahead)
       /\ CodelibOf(id) = None
       /\ current' = id + 1
  /\ UNCHANGED <<input, managerVars, pc, codelibDex, dexVars, job,
                 late, fate>>

SkipModule ==
  /\ fate = "running"
  /\ pc = "scan"
  /\ \E id \in Ahead :
       /\ IsFirst(id, Ahead)
       /\ CodelibOf(id) = None
       /\ current' = id
  /\ UNCHANGED <<input, managerVars, pc, codelibDex, dexVars, job,
                 late, fate>>

(* No dex file defines the code class: the module is switched off.         *)
(* Mutant: it is only skipped.                                             *)
MutantDeactivateModule ==
  /\ fate = "running"
  /\ pc = "scan"
  /\ \E id \in Ahead :
       /\ IsFirst(id, Ahead)
       /\ CodelibOf(id) # None
       /\ input.defines[CodelibOf(id)] = {}
       /\ current' = id
  /\ UNCHANGED <<input, managerVars, pc, codelibDex, dexVars, job,
                 late, fate>>

DeactivateModule ==
  /\ fate = "running"
  /\ pc = "scan"
  /\ \E id \in Ahead :
       /\ IsFirst(id, Ahead)
       /\ CodelibOf(id) # None
       /\ input.defines[CodelibOf(id)] = {}
       /\ enabled' = [enabled EXCEPT ![modules[id]] = FALSE]
       /\ current' = id
  /\ UNCHANGED <<input, modules, initFlag, environments, pc, codelibDex,
                 dexVars, job, late, fate>>

(* The first dex file that defines the code class is the codelib dex file. *)
FindCodelibDex ==
  /\ fate = "running"
  /\ pc = "scan"
  /\ \E id \in Ahead :
       /\ IsFirst(id, Ahead)
       /\ CodelibOf(id) # None
       /\ \E d \in DexFiles :
            /\ IsFirst(d, input.defines[CodelibOf(id)])
            /\ codelibDex' = d
       /\ current' = id
  /\ pc' = "declare"
  /\ UNCHANGED <<input, managerVars, dexVars, job, late, fate>>

(***************************************************************************)
(* declareCodelib.  A file that an earlier module declared is no longer in *)
(* _app_dex_files.  The CHECK meant for that case compares the iterator    *)
(* with the end of another vector, so erase(end()) is reached; whether it  *)
(* crashes or not, the CHECK on _codelibs that follows terminates the      *)
(* process.                                                                *)
(***************************************************************************)
DeclareCodelib ==
  /\ fate = "running"
  /\ pc = "declare"
  /\ codelibDex \in appFiles
  /\ appFiles' = AppFilesWithout(codelibDex)
  /\ codelibFiles' = codelibFiles \cup {codelibDex}
  /\ pc' = "construct"
  /\ UNCHANGED <<input, managerVars, current, codelibDex, dexEnv, job,
                 late, fate>>

DeclareCodelibTwice ==
  /\ fate = "running"
  /\ pc = "declare"
  /\ codelibDex \notin appFiles
  /\ fate' = "codelib_dex_shared"
  /\ UNCHANGED <<input, managerVars, loopVars, dexVars, job, late>>

(***************************************************************************)
(* The CodeLibEnvironment constructor: one CodelibSymbols per file that is *)
(* an app file at this moment, each of which aborts when the file lacks    *)
(* the type or a method; then the indices in the codelib's own dex file.   *)
(* Last, the environment is published.                                     *)
(***************************************************************************)
ConstructEnvironment ==
  /\ fate = "running"
  /\ pc = "construct"
  /\ SymbolFiles \subseteq input.mentions[CodelibOf(current)]
  /\ codelibDex \in input.owns[CodelibOf(current)]
  /\ environments' = [environments EXCEPT ![current] =
       [dex |-> codelibDex, codelib |-> CodelibOf(current),
        symbols |-> SymbolFiles]]
  /\ pc' = "scan"
  /\ UNCHANGED <<input, modules, enabled, initFlag, current, codelibDex,
                 dexVars, job, late, fate>>

ConstructEnvironmentFails ==
  /\ fate = "running"
  /\ pc = "construct"
  /\ \/ /\ ~(SymbolFiles \subseteq input.mentions[CodelibOf(current)])
        /\ fate' = "symbol_missing"
     \/ /\ SymbolFiles \subseteq input.mentions[CodelibOf(current)]
        /\ codelibDex \notin input.owns[CodelibOf(current)]
        /\ fate' = "own_symbol_missing"
  /\ UNCHANGED <<input, managerVars, loopVars, dexVars, job, late>>

(***************************************************************************)
(* The constructor opens a ScopedObjectAccess while it holds the mutator   *)
(* lock shared.  If a collection begins in between, it waits for the lock  *)
(* and the constructor for the end of the collection, for ever             *)
(* (RuntimeLocks has the two of them).  Nothing forces this step.          *)
(***************************************************************************)
ConstructorSticks ==
  /\ fate = "running"
  /\ pc = "construct"
  /\ SymbolFiles \subseteq input.mentions[CodelibOf(current)]
  /\ pc' = "stuck"
  /\ UNCHANGED <<input, managerVars, current, codelibDex, dexVars, job, late,
                 fate>>

(* The loop has visited every module; the flag is raised once more.        *)
FinishInitialize ==
  /\ fate = "running"
  /\ pc = "scan"
  /\ Ahead = {}
  /\ pc' = "done"
  /\ initFlag' = TRUE
  /\ UNCHANGED <<input, modules, enabled, environments, current, codelibDex,
                 dexVars, job, late, fate>>

----------------------------------------------------------------------------
(* The driver's start condition for workers; mutant: none.                 *)
MutantGateOpen == TRUE

GateOpen == IF Gate = "returned" THEN pc = "done" ELSE initFlag

(***************************************************************************)
(* A worker creates the pass of an enabled module for a method of dex file *)
(* d and hands it the pointers it gets from the manager: the dex file      *)
(* environment, and the codelib environment behind CHECK(initialized()).   *)
(***************************************************************************)
CreatePass(w, id, d) ==
  /\ fate = "running"
  /\ GateOpen
  /\ job[w] = None
  /\ id \in Registered
  /\ enabled[modules[id]]
  /\ job' = [job EXCEPT ![w] = [id |-> id, dex |-> d, dexEnv |-> dexEnv,
                                env |-> environments[id]]]
  /\ UNCHANGED <<input, managerVars, loopVars, dexVars, late, fate>>

(* HArtist::Run's isCodelib.                                               *)
InCodelibFile(w) == job[w].dexEnv /\ job[w].dex \in codelibFiles

(* getCodelibSymbols does not answer nullptr.                              *)
HasSymbols(env, dex) == dex \in env.symbols

(* What HArtist::Run and the injection behind it would trip over: a null   *)
(* dex file environment, CHECK(env != nullptr), null symbols.              *)
Fault(w) ==
  IF ~job[w].dexEnv THEN "null_dex_environment"
  ELSE IF InCodelibFile(w) \/ CodelibOf(job[w].id) = None THEN "running"
  ELSE IF job[w].env = None THEN "null_environment"
  ELSE IF ~HasSymbols(job[w].env, job[w].dex) THEN "null_symbols"
  ELSE "running"

(* HArtist::Run returns early for a method of a codelib.                   *)
SkipCodelibMethod(w) ==
  /\ fate = "running"
  /\ job[w] # None
  /\ InCodelibFile(w)
  /\ job' = [job EXCEPT ![w] = None]
  /\ UNCHANGED <<input, managerVars, loopVars, dexVars, late, fate>>

(* HArtist::Run on any other method: the module's pass does its work.      *)
RunPass(w) ==
  /\ fate = "running"
  /\ job[w] # None
  /\ ~InCodelibFile(w)
  /\ Fault(w) = "running"
  /\ job' = [job EXCEPT ![w] = None]
  /\ UNCHANGED <<input, managerVars, loopVars, dexVars, late, fate>>

PassCrashes(w) ==
  /\ fate = "running"
  /\ job[w] # None
  /\ Fault(w) # "running"
  /\ fate' = Fault(w)
  /\ UNCHANGED <<input, managerVars, loopVars, dexVars, job, late>>

----------------------------------------------------------------------------
InitializeStep ==
  \/ CreateDexEnvironment
  \/ SkipModule
  \/ DeactivateModule
  \/ FindCodelibDex
  \/ DeclareCodelib
  \/ DeclareCodelibTwice
  \/ ConstructEnvironment
  \/ ConstructEnvironmentFails
  \/ FinishInitialize

Next ==
  \/ \E id \in ModuleIds, o \in ModuleObjects : RegisterModule(id, o)
  \/ BeginInitialize
  \/ InitializeAgain
  \/ InitializeStep
  \/ ConstructorSticks
  \/ \E w \in Workers :
       \/ \E id \in ModuleIds, d \in DexFiles : CreatePass(w, id, d)
       \/ SkipCodelibMethod(w)
       \/ RunPass(w)
       \/ PassCrashes(w)

Spec == Init /\ [][Next]_vars

(* The thread inside initializeModules goes on as long as it can.  A step  *)
(* may include a wait for the mutator lock; that such waits end, save for  *)
(* ConstructorSticks, is what RuntimeLocks checks.                         *)
FairSpec == Spec /\ WF_vars(InitializeStep)

----------------------------------------------------------------------------
(* Every variable has a value of its type; in particular every published   *)
(* environment is complete and every worker holds a well-formed job.       *)
TypeOK ==
  /\ input \in InputSpace
  /\ modules \in [ModuleIds -> ModuleObjects \cup {None}]
  /\ enabled \in [ModuleObjects -> BOOLEAN]
  /\ initFlag \in BOOLEAN
  /\ pc \in {"idle", "create", "scan", "declare", "construct", "stuck",
             "done"}
  /\ current \in ModuleIds \cup {0}
  /\ codelibDex \in DexFiles \cup {None}
  /\ dexEnv \in BOOLEAN
  /\ appFiles \subseteq DexFiles
  /\ codelibFiles \subseteq DexFiles
  /\ environments \in [ModuleIds -> Environment \cup {None}]
  /\ job \in [Workers -> Job \cup {None}]
  /\ late \subseteq ModuleIds
  /\ fate \in Fates

----------------------------------------------------------------------------
(* What an initialisation should come to, said without its loop: the       *)
(* modules that provide a codelib, the file each of them owns, and the     *)
(* files that are still app files when module id has claimed its own.      *)
Providers ==
  {id \in Registered \ late :
     CodelibOf(id) # None /\ input.defines[CodelibOf(id)] # {}}

OwnDex(id) == CHOOSE d \in DexFiles : IsFirst(d, input.defines[CodelibOf(id)])

Claimed(id) == {OwnDex(i) : i \in {j \in Providers : j <= id}}

Clashes(id) == \E i \in Providers : i < id /\ OwnDex(i) = OwnDex(id)

Sees(id) == DexFiles \ Claimed(id) \subseteq input.mentions[CodelibOf(id)]

Owns(id) == OwnDex(id) \in input.owns[CodelibOf(id)]

(* A module has its codelib file but its environment is not published.     *)
Building == pc \in {"construct", "stuck"}

(* A dex file is an app file or a codelib file and never both, and the     *)
(* codelib files are exactly the files of the published environments plus  *)
(* the one under construction, no file serving two modules                 *)
(* (declareCodelib moves files one by one between the two lists).          *)
DexFilesPartitioned ==
  LET Built == {id \in ModuleIds : environments[id] # None}
  IN  /\ dexEnv => /\ appFiles \cup codelibFiles = DexFiles
                   /\ appFiles \cap codelibFiles = {}
      /\ codelibFiles = {environments[id].dex : id \in Built} \cup
           (IF Building THEN {codelibDex} ELSE {})
      /\ \A i, j \in Built :
           environments[i].dex = environments[j].dex => i = j

(* Whatever is an app file now has codelib symbols in every environment    *)
(* published so far, although the environments were built at moments when  *)
(* the list of app files was longer (constructor of CodeLibEnvironment).   *)
SymbolsCoverApps ==
  \A id \in ModuleIds :
    environments[id] # None => appFiles \subseteq environments[id].symbols

(* An environment belongs to the codelib its module returns: an id is      *)
(* never bound to another module once its environment exists.              *)
EnvironmentsBelongToModules ==
  \A id \in ModuleIds :
    environments[id] # None =>
      /\ id \in Registered \ late
      /\ environments[id].codelib = CodelibOf(id)

(* A module that was registered in time never brings the compiler down     *)
(* through the pointers it was handed: neither a null environment, nor     *)
(* null symbols, nor a null dex file environment.                          *)
WorkersNeverCrash ==
  /\ fate \notin {"null_dex_environment", "null_symbols"}
  /\ fate = "null_environment" =>
       \E w \in Workers : job[w] # None /\ job[w].id \in late

(* getCodelibEnvironment returns nullptr only because the module has no    *)
(* codelib (or was registered too late to be initialised).                 *)
NullMeansNoCodelib ==
  \A w \in Workers :
    job[w] # None =>
      \/ job[w].id \in late
      \/ CodelibOf(job[w].id) = None
      \/ job[w].env # None

(* After initialisation a module with a codelib is enabled exactly when    *)
(* its environment is available, whatever the order of the modules.        *)
EnabledMeansReady ==
  pc = "done" =>
    \A id \in Registered \ late :
      CodelibOf(id) # None =>
        (enabled[modules[id]] <=> environments[id] # None)

(* The outcome of initializeModules is decided by the input alone: it      *)
(* completes only if the codelibs live in different files, each file that  *)
(* is not a codelib when a module's turn comes mentions its codelib, and   *)
(* each codelib file has the indices of its own; and each way it aborts is *)
(* caused by the module it was at.                                         *)
InitializationVerdict ==
  /\ pc = "done" => \A id \in Providers : ~Clashes(id) /\ Sees(id) /\ Owns(id)
  /\ fate = "codelib_dex_shared" => Clashes(current)
  /\ fate = "symbol_missing" => ~Clashes(current) /\ ~Sees(current)
  /\ fate = "own_symbol_missing" =>
       ~Clashes(current) /\ Sees(current) /\ ~Owns(current)

(* What workers read without a lock is stable: a published environment is  *)
(* never replaced, a codelib file never becomes an app file again, and     *)
(* once initializeModules has returned, a second call (which aborts)       *)
(* included, no environment, switch or list of dex files changes.  The     *)
(* registry alone still grows: registerModule adds entries that count as   *)
(* late, but never rebinds an id.                                          *)
PublishedIsStable ==
  [][/\ \A id \in ModuleIds :
          /\ environments[id] # None => environments'[id] = environments[id]
          /\ modules[id] # None => modules'[id] = modules[id]
     /\ dexEnv => /\ dexEnv'
                  /\ appFiles' \subseteq appFiles
                  /\ codelibFiles \subseteq codelibFiles'
     /\ pc = "done" =>
          /\ UNCHANGED <<enabled, environments, loopVars, dexVars>>
          /\ Registered' \ Registered \subseteq late'
    ]_vars

(* A call of initializeModules that does not get stuck in a constructor    *)
(* comes to an end: it returns or aborts the compilation, whatever is      *)
(* registered and however many modules clash, whatever the workers and     *)
(* other callers do meanwhile.                                             *)
InitializeEnds ==
  pc = "create" ~> (pc \in {"done", "stuck"} \/ fate # "running")

----------------------------------------------------------------------------
(* The manager seen by those who only care about codelibs.                 *)
Wants == {id \in Registered \ late : CodelibOf(id) # None}

SwitchedOff == {id \in Wants : ~enabled[modules[id]]}

DexOf(env) == IF env = None THEN None ELSE env.dex

Given == [id \in ModuleIds |-> DexOf(environments[id])]

Passes ==
  [w \in Workers |-> IF job[w] = None THEN None
                     ELSE [id |-> job[w].id, dex |-> DexOf(job[w].env)]]

Provision == INSTANCE CodelibProvision WITH
  ModuleIds <- ModuleIds, DexFiles <- DexFiles, Workers <- Workers,
  None <- None, wants <- Wants, off <- SwitchedOff, given <- Given,
  closed <- pc = "done", pass <- Passes, over <- fate # "running"

(* The loop over the modules and the look-ups of the workers implement the *)
(* abstract hand-out: each module that wants a codelib is decided upon     *)
(* once, all of them before the first pass is created, no dex file goes to *)
(* two modules, and every pass holds what its module was given.            *)
ProvidesCodelibs == Provision!Spec

=============================================================================
