-------------------------- MODULE CompilerPipeline --------------------------
(***************************************************************************)
(* The compiler threads as they use ModuleManager: each takes a method,    *)
(* copies the map of modules and goes through it in the order of the ids.  *)
(* The filter of a module decides whether a pass is created for the method *)
(* (MethodNameFilter, DualFilter); HArtist::Run counts the method before   *)
(* the pass changes it.  All threads share the counter without a lock, so  *)
(* reading it, writing it and reading it again for the log are three steps *)
(* (a compiler may also log the value it has just written).                *)
(*                                                                         *)
(* Every step here is a step of ModuleManager or leaves its state alone.   *)
(***************************************************************************)
EXTENDS ModuleManager, Sequences

CONSTANTS
  Texts,       \* method names, and the names that filters are given
  Occurs,      \* pairs of texts of which the first is found in the second
  Methods,     \* the methods to compile: a subset of MethodSpace
  Filterings,  \* the filters considered: a subset of FilterSpace
  Period       \* LogMethodCount logs the multiples of it (1000 in the code)

(* A MethodInfo: where the method is, its name without and with signature. *)
MethodSpace == [dex : DexFiles, name : Texts, signed : Texts]

(* A MethodNameFilter.  A module has none (nullptr), one, or a DualFilter, *)
(* which is two: the set of those that have to accept.                     *)
NameFilter ==
  [names : SUBSET Texts, accept : BOOLEAN, exact : BOOLEAN,
   signature : BOOLEAN]

MethodNameWhitelist(names, exact, signature) ==
  [names |-> names, accept |-> TRUE, exact |-> exact, signature |-> signature]

MethodNameBlacklist(names, exact, signature) ==
  [names |-> names, accept |-> FALSE, exact |-> exact, signature |-> signature]

FilterSpace == [ModuleObjects -> SUBSET NameFilter]

(* The driver waits for initializeModules before it compiles.              *)
ASSUME DriverWaits == Gate = "returned"

ASSUME PipelineAssumption ==
  /\ Occurs \subseteq Texts \X Texts
  /\ \A text \in Texts : <<text, text>> \in Occurs
  /\ Methods \subseteq MethodSpace
  /\ None \notin Methods
  /\ Filterings \subseteq FilterSpace
  /\ Period \in Nat \ {0}

VARIABLES
  filters,     \* the element of Filterings this compilation runs on
  todo,        \* the methods no thread has taken yet
  method,      \* per worker: the method it compiles, or None
  remaining,   \* per worker: ids of its copy of the map still to come
  stage,       \* per worker: how far HArtist::Run of its pass has come
  seen,        \* per worker: the counter as its pass has read it, or 0
  counter,     \* HArtist::_method_counter
  runs,        \* history: how often a method was counted
  milestones,  \* history: the counts that LogMethodCount logged
  contested,   \* history: counts made while another thread was counting
  woven        \* history: per method, ids of the passes that changed it

countVars == <<stage, seen, counter, runs, milestones, contested>>
takenVars == <<filters, todo, method>>
pipelineVars == <<takenVars, remaining, countVars, woven>>
allVars == <<vars, pipelineVars>>

(* MethodNameFilter::accept.  Mutant: a match need not start at 0.         *)
Candidate(f, m) == IF f.signature THEN m.signed ELSE m.name

MutantNamed(f, m) == \E name \in f.names : <<name, Candidate(f, m)>> \in Occurs

Named(f, m) ==
  \E name \in f.names :
    /\ <<name, Candidate(f, m)>> \in Occurs
    /\ f.exact => name = Candidate(f, m)

AcceptsName(f, m) == IF Named(f, m) THEN f.accept ELSE ~f.accept

(* No filter accepts everything, a dual filter what both accept.           *)
Accepts(o, m) == \A f \in filters[o] : AcceptsName(f, m)

----------------------------------------------------------------------------
PipelineInit ==
  /\ Init
  /\ filters \in Filterings
  /\ todo = Methods
  /\ method = [w \in Workers |-> None]
  /\ remaining = [w \in Workers |-> {}]
  /\ stage = [w \in Workers |-> "start"]
  /\ seen = [w \in Workers |-> 0]
  /\ counter = 0
  /\ runs = 0
  /\ milestones = {}
  /\ contested = {}
  /\ woven = [m \in Methods |-> <<>>]

(* A thread takes a method and a copy of the map (getModules, which has no *)
(* lock: copying is one step here, whatever is being registered).          *)
TakeMethod(w, m) ==
  /\ fate = "running"
  /\ GateOpen
  /\ method[w] = None
  /\ m \in todo
  /\ todo' = todo \ {m}
  /\ method' = [method EXCEPT ![w] = m]
  /\ remaining' = [remaining EXCEPT ![w] = Registered]
  /\ UNCHANGED <<vars, filters, countVars, woven>>

(* The module whose turn it is.                                            *)
Turn(w, id) ==
  /\ fate = "running"
  /\ method[w] # None
  /\ job[w] = None
  /\ IsFirst(id, remaining[w])

Wanted(w, id) == enabled[modules[id]] /\ Accepts(modules[id], method[w])

(* No pass for this method.  Mutant: the thread stays at the module.       *)
MutantPassOver(w) ==
  \E id \in ModuleIds : Turn(w, id) /\ ~Wanted(w, id) /\ UNCHANGED allVars

PassOver(w) ==
  \E id \in ModuleIds :
    /\ Turn(w, id)
    /\ ~Wanted(w, id)
    /\ remaining' = [remaining EXCEPT ![w] = @ \ {id}]
    /\ UNCHANGED <<vars, takenVars, countVars, woven>>

(* createPass, and the pointers the pass is handed.                        *)
MakePass(w) ==
  \E id \in ModuleIds :
    /\ Turn(w, id)
    /\ Wanted(w, id)
    /\ CreatePass(w, id, method[w].dex)
    /\ remaining' = [remaining EXCEPT ![w] = @ \ {id}]
    /\ stage' = [stage EXCEPT ![w] = "start"]
    /\ UNCHANGED <<takenVars, seen, counter, runs, milestones, contested,
                   woven>>

(* HArtist::Run returns early for a method of a codelib.                   *)
ReturnEarly(w) ==
  /\ SkipCodelibMethod(w)
  /\ stage[w] = "start"
  /\ UNCHANGED pipelineVars

(* The threads between reading the counter and logging what they counted.  *)
Counting == {v \in Workers : stage[v] \in {"read", "written"}}

(* ++_method_counter: the old value is read, the new one written.          *)
ReadCounter(w) ==
  /\ fate = "running"
  /\ job[w] # None
  /\ job[w].dexEnv /\ ~InCodelibFile(w)
  /\ stage[w] = "start"
  /\ seen' = [seen EXCEPT ![w] = counter]
  /\ stage' = [stage EXCEPT ![w] = "read"]
  /\ contested' = contested \cup
       (IF Counting = {} THEN {}
        ELSE {counter + 1} \cup {seen[v] + 1 : v \in Counting})
  /\ UNCHANGED <<vars, takenVars, remaining, counter, runs, milestones,
                 woven>>

WriteCounter(w) ==
  /\ fate = "running"
  /\ stage[w] = "read"
  /\ counter' = seen[w] + 1
  /\ runs' = runs + 1
  /\ stage' = [stage EXCEPT ![w] = "written"]
  /\ UNCHANGED <<vars, takenVars, remaining, seen, milestones, contested,
                 woven>>

(* LogMethodCount is passed the counter itself, which is read once more,   *)
(* or the value written where the compiler still has it.  Mutant: the      *)
(* value before the increment.                                             *)
MutantAnswers(w) == {seen[w]}

Answers(w) == {seen[w] + 1, counter}

LogCount(w) ==
  /\ fate = "running"
  /\ stage[w] = "written"
  /\ \E n \in Answers(w) :
       milestones' = milestones \cup (IF n % Period = 0 THEN {n} ELSE {})
  /\ stage' = [stage EXCEPT ![w] = "counted"]
  /\ UNCHANGED <<vars, takenVars, remaining, seen, counter, runs, contested,
                 woven>>

(* Setup, RunPass and the repair of the out registers.                     *)
Weave(w) ==
  /\ stage[w] = "counted"
  /\ RunPass(w)
  /\ woven' = [woven EXCEPT ![method[w]] = Append(@, job[w].id)]
  /\ stage' = [stage EXCEPT ![w] = "start"]
  /\ seen' = [seen EXCEPT ![w] = 0]
  /\ UNCHANGED <<takenVars, remaining, counter, runs, milestones, contested>>

(* A null dex file environment is met before the count, the rest after it. *)
Crash(w) ==
  /\ PassCrashes(w)
  /\ stage[w] = "counted" \/ Fault(w) = "null_dex_environment"
  /\ UNCHANGED pipelineVars

(* Nothing of the copy is left.  Mutant: the pass under way is forgotten.   *)
MutantFinishMethod(w) ==
  /\ fate = "running"
  /\ method[w] # None
  /\ remaining[w] = {}
  /\ method' = [method EXCEPT ![w] = None]
  /\ UNCHANGED <<vars, filters, todo, remaining, countVars, woven>>

FinishMethod(w) ==
  /\ fate = "running"
  /\ method[w] # None
  /\ job[w] = None
  /\ remaining[w] = {}
  /\ method' = [method EXCEPT ![w] = None]
  /\ UNCHANGED <<vars, filters, todo, remaining, countVars, woven>>

----------------------------------------------------------------------------
WorkerStep(w) ==
  \/ \E m \in Methods : TakeMethod(w, m)
  \/ PassOver(w)
  \/ MakePass(w)
  \/ ReturnEarly(w)
  \/ ReadCounter(w)
  \/ WriteCounter(w)
  \/ LogCount(w)
  \/ Weave(w)
  \/ Crash(w)
  \/ FinishMethod(w)

DriverStep ==
  /\ \/ \E id \in ModuleIds, o \in ModuleObjects : RegisterModule(id, o)
     \/ BeginInitialize
     \/ InitializeAgain
     \/ InitializeStep
     \/ ConstructorSticks
  /\ UNCHANGED pipelineVars

PipelineNext == DriverStep \/ \E w \in Workers : WorkerStep(w)

PipelineSpec == PipelineInit /\ [][PipelineNext]_allVars

(* The operating system runs every thread of the compiler.  A step may     *)
(* include a wait for the mutator lock or for call_once; RuntimeLocks      *)
(* shows that all such waits end but that of ConstructorSticks.            *)
FairPipeline ==
  /\ PipelineSpec
  /\ WF_allVars(InitializeStep /\ UNCHANGED pipelineVars)
  /\ \A w \in Workers : WF_allVars(WorkerStep(w))

----------------------------------------------------------------------------
Stages == {"start", "read", "written", "counted"}

(* Every variable has a value of its type, and what a thread is counting   *)
(* belongs to a pass of the method it compiles.                            *)
PipelineTypeOK ==
  /\ filters \in FilterSpace
  /\ todo \subseteq Methods
  /\ method \in [Workers -> Methods \cup {None}]
  /\ remaining \in [Workers -> SUBSET ModuleIds]
  /\ stage \in [Workers -> Stages]
  /\ seen \in [Workers -> Nat]
  /\ counter \in Nat
  /\ runs \in Nat
  /\ milestones \subseteq Nat
  /\ contested \subseteq Nat
  /\ woven \in [Methods -> Seq(ModuleIds)]
  /\ \A w \in Workers :
       /\ job[w] # None => method[w] # None /\ job[w].dex = method[w].dex
       /\ stage[w] # "start" => job[w] # None

(* What should become of a method, said without the loop, the flags and    *)
(* the moments at which they are read: it is changed unless it lives in    *)
(* the dex file of a codelib, by the modules that need no codelib or found *)
(* one, that every whitelist of theirs names it for and no blacklist does. *)
InCodelib(m) == \E id \in Providers : m.dex = OwnDex(id)

Equipped(id) == CodelibOf(id) # None => id \in Providers

Lists(f, m) ==
  LET spelling == IF f.signature THEN m.signed ELSE m.name
  IN  IF f.exact THEN spelling \in f.names
      ELSE \E name \in f.names : <<name, spelling>> \in Occurs

Selects(o, m) ==
  {f \in filters[o] : Lists(f, m)} = {f \in filters[o] : f.accept}

ShouldWeave(m) ==
  {id \in Registered \ late :
     ~InCodelib(m) /\ Equipped(id) /\ Selects(modules[id], m)}

WovenBy(m) == {woven[m][i] : i \in DOMAIN woven[m]}

Finished(m) == m \notin todo /\ \A w \in Workers : method[w] # m

(* When a method has been compiled, exactly the modules that should have   *)
(* changed it have done so, each once and in the order of their ids, even  *)
(* though modules are registered, switched off and given codelibs by       *)
(* another thread; one registered too late at least obeys its filter.      *)
WovenAsSelected ==
  \A m \in Methods :
    /\ \A i, j \in DOMAIN woven[m] : i < j => woven[m][i] < woven[m][j]
    /\ \A id \in WovenBy(m) : id \in Registered /\ Selects(modules[id], m)
    /\ Finished(m) => WovenBy(m) \ late = ShouldWeave(m)

(* Two threads that count at once may lose a count, log one twice, or both *)
(* log a later count and leave a multiple of the period out.  But the      *)
(* counter never runs ahead of the methods counted, and a multiple below   *)
(* it that is in nobody's log was being counted by two threads at once, or *)
(* is just about to be logged.                                             *)
AboutToLog == {seen[w] + 1 : w \in {v \in Workers : stage[v] = "written"}}

CountVerdict ==
  /\ counter <= runs
  /\ \A n \in milestones \cup {counter} :
       \A k \in 1..n :
         k % Period = 0 => k \in milestones \cup contested \cup AboutToLog

(* Once initialisation has begun, every method is compiled, or the         *)
(* compiler terminates, or a constructor inside initialisation is stuck    *)
(* with a collector, whatever is registered meanwhile.                     *)
MethodsFinish ==
  pc = "create" ~> \/ fate # "running"
                   \/ pc = "stuck"
                   \/ \A m \in Methods : Finished(m)

=============================================================================
