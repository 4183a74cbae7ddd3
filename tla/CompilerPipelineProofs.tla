----------------------- MODULE CompilerPipelineProofs -----------------------
(***************************************************************************)
(* CompilerPipeline for every number of threads, methods, modules and      *)
(* filters: it only takes steps of ModuleManager, so that all that is      *)
(* proved there holds of it; and what the unsynchronised counter is still  *)
(* good for.                                                               *)
(***************************************************************************)
EXTENDS CompilerPipeline, ModuleManagerProofs

(* A thread compiles one of the methods, or none.                          *)
MethodsTyped == method \in [Workers -> Methods \cup {None}]

LEMMA MethodsStep ==
  ASSUME MethodsTyped, [PipelineNext]_allVars
  PROVE  MethodsTyped'
<1>1. CASE method' = method
  BY <1>1 DEF MethodsTyped
<1>2. ASSUME NEW w \in Workers, NEW m \in Methods, TakeMethod(w, m)
      PROVE  MethodsTyped'
  BY <1>2 DEF MethodsTyped, TakeMethod
<1>3. ASSUME NEW w \in Workers, FinishMethod(w)
      PROVE  MethodsTyped'
  BY <1>3 DEF MethodsTyped, FinishMethod
<1> QED
  BY <1>1, <1>2, <1>3
  DEF PipelineNext, DriverStep, WorkerStep, PassOver, MakePass, ReturnEarly,
      ReadCounter, WriteCounter, LogCount, Weave, Crash, allVars,
      pipelineVars, takenVars

(* A step of the pipeline is a step of the manager, or invisible there.    *)
LEMMA PipelineStep == MethodsTyped /\ [PipelineNext]_allVars => [Next]_vars
<1> SUFFICES ASSUME MethodsTyped, [PipelineNext]_allVars
             PROVE  [Next]_vars
  OBVIOUS
<1>1. CASE UNCHANGED allVars
  BY <1>1 DEF allVars
<1>2. CASE DriverStep
  BY <1>2 DEF DriverStep, Next
<1>3. ASSUME NEW w \in Workers, WorkerStep(w)
      PROVE  [Next]_vars
  <2>1. ASSUME NEW m \in Methods, TakeMethod(w, m)
        PROVE  UNCHANGED vars
    BY <2>1 DEF TakeMethod
  <2>2. CASE PassOver(w)
    BY <2>2 DEF PassOver
  <2>3. CASE MakePass(w)
    <3>1. PICK id \in ModuleIds :
            Turn(w, id) /\ CreatePass(w, id, method[w].dex)
      BY <2>3 DEF MakePass
    <3>2. method[w].dex \in DexFiles
      BY <3>1, PipelineAssumption DEF MethodsTyped, Turn, MethodSpace
    <3> QED
      BY <3>1, <3>2 DEF Next
  <2>4. CASE \/ ReadCounter(w) \/ WriteCounter(w) \/ LogCount(w)
             \/ FinishMethod(w)
    BY <2>4 DEF ReadCounter, WriteCounter, LogCount, FinishMethod
  <2>5. CASE ReturnEarly(w) \/ Weave(w) \/ Crash(w)
    BY <2>5 DEF ReturnEarly, Weave, Crash, Next
  <2> QED
    BY <1>3, <2>1, <2>2, <2>3, <2>4, <2>5 DEF WorkerStep
<1> QED
  BY <1>1, <1>2, <1>3 DEF PipelineNext

(* Whatever is proved of the manager holds while methods are compiled.     *)
THEOREM PipelineRefinesManager == PipelineSpec => Spec
<1>1. PipelineInit => Init /\ MethodsTyped
  BY DEF PipelineInit, MethodsTyped
<1> QED
  BY <1>1, MethodsStep, PipelineStep, PTL DEF PipelineSpec, Spec

----------------------------------------------------------------------------
(* A thread that compiles nothing has no pass; a count belongs to a pass.  *)
LEMMA PipelineTypeStep ==
  ASSUME IInv, IInv', PipelineTypeOK, [PipelineNext]_allVars
  PROVE  PipelineTypeOK'
<1> USE PipelineAssumption DEF PipelineTypeOK, Stages, allVars, pipelineVars,
        takenVars, countVars
<1>0. /\ TypeOK
      /\ \A w \in Workers : job[w] # None => job[w] \in Job
  BY DEF IInv, TypeOK
<1>1. CASE DriverStep
  <2>1. UNCHANGED <<pipelineVars, job>>
    BY <1>1
    DEF DriverStep, RegisterModule, BeginInitialize, InitializeAgain,
        InitializeStep, CreateDexEnvironment, SkipModule, DeactivateModule,
        FindCodelibDex, DeclareCodelib, DeclareCodelibTwice,
        ConstructEnvironment, ConstructEnvironmentFails, ConstructorSticks,
        FinishInitialize
  <2> QED
    BY <2>1
<1>2. ASSUME NEW w \in Workers, NEW m \in Methods, TakeMethod(w, m)
      PROVE  PipelineTypeOK'
  BY <1>2 DEF TakeMethod, vars, Registered
<1>3. ASSUME NEW w \in Workers, PassOver(w)
      PROVE  PipelineTypeOK'
  BY <1>3 DEF PassOver, vars
<1>4. ASSUME NEW w \in Workers, MakePass(w)
      PROVE  PipelineTypeOK'
  <2>1. PICK id \in ModuleIds :
          /\ Turn(w, id)
          /\ CreatePass(w, id, method[w].dex)
          /\ remaining' = [remaining EXCEPT ![w] = @ \ {id}]
          /\ stage' = [stage EXCEPT ![w] = "start"]
          /\ UNCHANGED <<takenVars, seen, counter, runs, milestones,
                         contested, woven>>
    BY <1>4 DEF MakePass
  <2>2. job' = [job EXCEPT ![w] = [id |-> id, dex |-> method[w].dex,
                    dexEnv |-> dexEnv, env |-> environments[id]]]
    BY <2>1 DEF CreatePass
  <2> QED
    BY <1>0, <2>1, <2>2 DEF Turn, TypeOK
<1>5. ASSUME NEW w \in Workers, ReturnEarly(w)
      PROVE  PipelineTypeOK'
  BY <1>0, <1>5 DEF ReturnEarly, SkipCodelibMethod, TypeOK
<1>6. ASSUME NEW w \in Workers, ReadCounter(w)
      PROVE  PipelineTypeOK'
  <2>1. /\ job[w] # None
        /\ seen' = [seen EXCEPT ![w] = counter]
        /\ stage' = [stage EXCEPT ![w] = "read"]
        /\ contested' \subseteq contested \cup {counter + 1}
                          \cup {seen[v] + 1 : v \in Workers}
        /\ UNCHANGED <<filters, todo, method, remaining, counter, runs,
                       milestones, woven, job>>
    BY <1>6 DEF ReadCounter, Counting, vars
  <2>2. contested' \subseteq Nat
    <3>1. {seen[v] + 1 : v \in Workers} \subseteq Nat
      OBVIOUS
    <3>2. contested \cup {counter + 1} \subseteq Nat
      OBVIOUS
    <3> HIDE DEF PipelineTypeOK
    <3> QED
      BY <2>1, <3>1, <3>2, Zenon
  <2> QED
    BY <2>1, <2>2
<1>7. ASSUME NEW w \in Workers, WriteCounter(w)
      PROVE  PipelineTypeOK'
  BY <1>7 DEF WriteCounter, vars
<1>12. ASSUME NEW w \in Workers, LogCount(w)
       PROVE  PipelineTypeOK'
  <2>1. PICK n \in Answers(w) :
          milestones' = milestones \cup (IF n % Period = 0 THEN {n} ELSE {})
    BY <1>12 DEF LogCount
  <2>2. n \in Nat
    BY DEF Answers
  <2>3. milestones' \subseteq Nat
    BY <2>1, <2>2
  <2> QED
    BY <1>12, <2>3 DEF LogCount, vars
<1>8. ASSUME NEW w \in Workers, Weave(w)
      PROVE  PipelineTypeOK'
  BY <1>0, <1>8 DEF Weave, RunPass, TypeOK, Job
<1>9. ASSUME NEW w \in Workers, Crash(w)
      PROVE  PipelineTypeOK'
  BY <1>9 DEF Crash, PassCrashes
<1>10. ASSUME NEW w \in Workers, FinishMethod(w)
       PROVE  PipelineTypeOK'
  BY <1>10 DEF FinishMethod, vars
<1>11. CASE UNCHANGED allVars
  BY <1>11 DEF vars
<1> QED
  BY <1>1, <1>2, <1>3, <1>4, <1>5, <1>6, <1>7, <1>8, <1>9, <1>10, <1>11, <1>12
  DEF PipelineNext, WorkerStep

(* The manager's invariant, in the pipeline.                               *)
LEMMA ManagerInvariance == PipelineSpec => []IInv
BY PipelineRefinesManager, Invariance, PTL

(* The variables of the compiler threads keep their types, and no thread   *)
(* leaves a method while a pass of it is under way.                        *)
THEOREM PipelineTypeCorrect == PipelineSpec => []PipelineTypeOK
<1>1. PipelineInit => PipelineTypeOK
  BY PipelineAssumption
  DEF PipelineInit, Init, PipelineTypeOK, Stages
<1>2. IInv /\ IInv' /\ PipelineTypeOK /\ [PipelineNext]_allVars
        => PipelineTypeOK'
  BY PipelineTypeStep
<1> QED
  BY <1>1, <1>2, ManagerInvariance, PTL DEF PipelineSpec

----------------------------------------------------------------------------
(* Every multiple of the period up to n is in the log, or was counted by   *)
(* two threads at once, or is about to be logged.                          *)
Accounted(n) ==
  \A k \in 1..n :
    k % Period = 0 => k \in milestones \cup contested \cup AboutToLog

(* What threads that count at once are about to count is contested; a      *)
(* thread that counts alone still finds in the counter what it has written.*)
AloneOrContested ==
  \A v \in Counting :
    /\ \A u \in Counting : u # v => seen[v] + 1 \in contested
    /\ stage[v] = "written" /\ seen[v] + 1 \notin contested =>
         counter = seen[v] + 1

(* What has been read from the counter is as good as what is in it.        *)
CountInv ==
  /\ counter <= runs
  /\ \A w \in Workers : seen[w] <= runs
  /\ \A n \in milestones \cup {counter} \cup {seen[w] : w \in Workers} :
       Accounted(n)
  /\ AloneOrContested

(* What is accounted for stays so if nothing is taken from the sets.       *)
LEMMA StillAccounted ==
  ASSUME NEW n, Accounted(n),
         milestones \cup contested \cup AboutToLog
           \subseteq (milestones \cup contested \cup AboutToLog)'
  PROVE  Accounted(n)'
BY DEF Accounted

(* Reading the counter: whoever else is counting is now in competition.    *)
LEMMA CountReadStep ==
  ASSUME PipelineTypeOK, CountInv, NEW w \in Workers, ReadCounter(w)
  PROVE  CountInv'
<1>1. /\ stage[w] = "start" /\ stage' = [stage EXCEPT ![w] = "read"]
      /\ seen' = [seen EXCEPT ![w] = counter]
      /\ contested' = contested \cup
           (IF Counting = {} THEN {}
            ELSE {counter + 1} \cup {seen[v] + 1 : v \in Counting})
      /\ UNCHANGED <<counter, runs, milestones>>
  BY DEF ReadCounter
<1>2. /\ \A v \in Workers : seen'[v] = IF v = w THEN counter ELSE seen[v]
      /\ \A v \in Workers : stage'[v] = IF v = w THEN "read" ELSE stage[v]
  BY <1>1 DEF PipelineTypeOK
<1>3. /\ Counting' = Counting \cup {w} /\ w \notin Counting
      /\ Counting \subseteq Workers
  BY <1>1, <1>2 DEF Counting
<1>4. AboutToLog' = AboutToLog
  BY <1>1, <1>2 DEF AboutToLog
<1>5. \A n \in milestones \cup {counter} \cup {seen[v] : v \in Workers} :
        Accounted(n)'
  BY <1>1, <1>4, StillAccounted DEF CountInv
<1>6. \A n \in milestones' \cup {counter'} \cup {seen'[v] : v \in Workers} :
        Accounted(n)'
  BY <1>1, <1>2, <1>5
<1>7. AloneOrContested'
  <2> SUFFICES ASSUME NEW v \in Counting'
               PROVE  /\ \A u \in Counting' :
                           u # v => seen'[v] + 1 \in contested'
                      /\ (/\ stage'[v] = "written"
                          /\ seen'[v] + 1 \notin contested')
                         => counter' = seen'[v] + 1
    BY DEF AloneOrContested
  <2>1. CASE v = w
    BY <1>1, <1>2, <1>3, <2>1
  <2>2. CASE v # w
    <3>1. v \in Counting /\ seen'[v] = seen[v] /\ stage'[v] = stage[v]
      BY <1>2, <1>3, <2>2
    <3>2. seen[v] + 1 \in contested'
      BY <1>1, <3>1
    <3> QED
      BY <3>1, <3>2
  <2> QED
    BY <2>1, <2>2
<1>8. counter' <= runs' /\ \A v \in Workers : seen'[v] <= runs'
  BY <1>1, <1>2 DEF CountInv
<1> QED
  BY <1>6, <1>7, <1>8 DEF CountInv

(* Writing it: a thread may undo the counts of others, but it writes a     *)
(* number whose predecessor was written before.                            *)
LEMMA CountWriteStep ==
  ASSUME PipelineTypeOK, CountInv, NEW w \in Workers, WriteCounter(w)
  PROVE  CountInv'
<1>1. /\ stage[w] = "read" /\ stage' = [stage EXCEPT ![w] = "written"]
      /\ counter' = seen[w] + 1 /\ runs' = runs + 1
      /\ UNCHANGED <<seen, milestones, contested>>
  BY DEF WriteCounter
<1>2. \A v \in Workers : stage'[v] = IF v = w THEN "written" ELSE stage[v]
  BY <1>1 DEF PipelineTypeOK
<1>3. Counting' = Counting /\ w \in Counting /\ Counting \subseteq Workers
  BY <1>1, <1>2 DEF Counting
<1>4. AboutToLog' = AboutToLog \cup {seen[w] + 1}
  BY <1>1, <1>2 DEF AboutToLog
<1>5. \A n \in milestones \cup {counter} \cup {seen[v] : v \in Workers} :
        Accounted(n)'
  BY <1>1, <1>4, StillAccounted DEF CountInv
<1> PICK s \in Nat : s = seen[w]
  BY DEF PipelineTypeOK
<1>6. Accounted(s + 1)'
  <2> SUFFICES ASSUME NEW k \in 1..(s + 1), k % Period = 0
               PROVE  k \in (milestones \cup contested \cup AboutToLog)'
    BY DEF Accounted
  <2>1. k = s + 1 \/ k \in 1..s
    OBVIOUS
  <2>2. Accounted(s)'
    BY <1>5
  <2>3. CASE k \in 1..s
    BY <2>2, <2>3 DEF Accounted
  <2> QED
    BY <1>4, <2>1, <2>3
<1>7. AloneOrContested'
  <2> SUFFICES ASSUME NEW v \in Counting
               PROVE  /\ \A u \in Counting :
                           u # v => seen[v] + 1 \in contested
                      /\ stage'[v] = "written" /\ seen[v] + 1 \notin contested
                           => counter' = seen[v] + 1
    BY <1>1, <1>3 DEF AloneOrContested
  <2>1. \A u \in Counting : u # v => seen[v] + 1 \in contested
    BY DEF CountInv, AloneOrContested
  <2>2. seen[v] + 1 \notin contested => v = w
    BY <1>3, <2>1
  <2> QED
    BY <1>1, <2>1, <2>2
<1>8. counter' <= runs' /\ \A v \in Workers : seen'[v] <= runs'
  BY <1>1 DEF CountInv, PipelineTypeOK
<1>9. \A n \in milestones' \cup {counter'} \cup {seen'[v] : v \in Workers} :
        Accounted(n)'
  BY <1>1, <1>5, <1>6
<1> QED
  BY <1>7, <1>8, <1>9 DEF CountInv

(* Logging: a thread that counted alone logs what it counted.              *)
LEMMA CountLogStep ==
  ASSUME PipelineTypeOK, CountInv, NEW w \in Workers, LogCount(w)
  PROVE  CountInv'
<1>1. PICK n \in Answers(w) :
        milestones' = milestones \cup (IF n % Period = 0 THEN {n} ELSE {})
  BY DEF LogCount
<1>2. /\ stage[w] = "written" /\ stage' = [stage EXCEPT ![w] = "counted"]
      /\ UNCHANGED <<seen, counter, runs, contested>>
  BY DEF LogCount
<1>3. \A v \in Workers : stage'[v] = IF v = w THEN "counted" ELSE stage[v]
  BY <1>2 DEF PipelineTypeOK
<1>4. Counting' = Counting \ {w} /\ w \in Counting
  BY <1>2, <1>3 DEF Counting
<1>5. AboutToLog \subseteq AboutToLog' \cup {seen[w] + 1}
  BY <1>2, <1>3 DEF AboutToLog
<1>6. \/ seen[w] + 1 \in contested
      \/ n = seen[w] + 1
  BY <1>2, <1>4 DEF CountInv, AloneOrContested, Answers
<1>7. ASSUME NEW k \in milestones \cup contested \cup AboutToLog,
             k % Period = 0
      PROVE  k \in (milestones \cup contested \cup AboutToLog)'
  <2>1. CASE k = seen[w] + 1
    BY <1>1, <1>2, <1>6, <1>7, <2>1
  <2>2. CASE k # seen[w] + 1
    BY <1>1, <1>2, <1>5, <2>2
  <2> QED
    BY <2>1, <2>2
<1>8. \A i : Accounted(i) => Accounted(i)'
  BY <1>7 DEF Accounted
<1> PICK s \in Nat : s = seen[w]
  BY DEF PipelineTypeOK
<1>9. Accounted(n)' \/ n % Period # 0
  <2>1. CASE n = counter
    BY <1>8, <2>1 DEF CountInv
  <2>2. CASE n = seen[w] + 1
    <3> SUFFICES ASSUME NEW k \in 1..n, k % Period = 0, n % Period = 0
                 PROVE  k \in (milestones \cup contested \cup AboutToLog)'
      BY DEF Accounted
    <3>1. k = n \/ k \in 1..s
      BY <2>2
    <3>2. Accounted(s)'
      BY <1>8 DEF CountInv
    <3>3. CASE k \in 1..s
      BY <3>2, <3>3 DEF Accounted
    <3> QED
      BY <1>1, <3>1, <3>3
  <2> QED
    BY <2>1, <2>2 DEF Answers
<1>10. \A i \in milestones' \cup {counter'} \cup {seen'[v] : v \in Workers} :
         Accounted(i)'
  BY <1>1, <1>2, <1>8, <1>9 DEF CountInv
<1>11. AloneOrContested'
  BY <1>2, <1>3, <1>4 DEF CountInv, AloneOrContested, Counting
<1> QED
  BY <1>2, <1>10, <1>11 DEF CountInv

(* Every other step leaves the count alone.                                *)
LEMMA CountStep ==
  ASSUME PipelineTypeOK, CountInv, [PipelineNext]_allVars
  PROVE  CountInv'
<1>1. CASE UNCHANGED <<stage, seen, counter, runs, milestones, contested>>
  BY <1>1 DEF CountInv, Accounted, AboutToLog, AloneOrContested, Counting
<1>2. ASSUME NEW w \in Workers, Weave(w) \/ MakePass(w)
      PROVE  CountInv'
  <2>1. /\ stage' = [stage EXCEPT ![w] = "start"]
        /\ stage[w] \in {"start", "counted"}
        /\ UNCHANGED <<counter, runs, milestones, contested>>
        /\ \/ seen' = seen
           \/ seen' = [seen EXCEPT ![w] = 0]
    BY <1>2 DEF Weave, MakePass, Turn, PipelineTypeOK
  <2>2. \A v \in Workers : stage'[v] = IF v = w THEN "start" ELSE stage[v]
    BY <2>1 DEF PipelineTypeOK
  <2>3. \A v \in Workers :
          seen'[v] = seen[v] \/ (v = w /\ seen'[v] = 0)
    BY <2>1 DEF PipelineTypeOK
  <2>4. /\ Counting' = Counting /\ w \notin Counting
        /\ \A v \in Counting : seen'[v] = seen[v] /\ stage'[v] = stage[v]
    BY <2>1, <2>2, <2>3 DEF Counting
  <2>5. AboutToLog' = AboutToLog
    BY <2>1, <2>2, <2>3 DEF AboutToLog
  <2>6. \A i : Accounted(i)' <=> Accounted(i)
    BY <2>1, <2>5 DEF Accounted
  <2>7. Accounted(0)
    BY DEF Accounted
  <2>8. \A i \in milestones' \cup {counter'} \cup {seen'[v] : v \in Workers} :
          Accounted(i)'
    BY <2>1, <2>6, <2>7, <2>3 DEF CountInv
  <2>9. AloneOrContested'
    BY <2>1, <2>4 DEF CountInv, AloneOrContested
  <2>10. \A v \in Workers : seen'[v] <= runs'
    BY <2>1, <2>3 DEF CountInv, PipelineTypeOK
  <2> QED
    BY <2>1, <2>8, <2>9, <2>10 DEF CountInv
<1>3. CASE DriverStep \/ UNCHANGED allVars
  BY <1>1, <1>3 DEF DriverStep, allVars, pipelineVars, countVars
<1>4. ASSUME NEW w \in Workers,
             \/ \E m \in Methods : TakeMethod(w, m)
             \/ PassOver(w) \/ ReturnEarly(w) \/ Crash(w) \/ FinishMethod(w)
      PROVE  CountInv'
  <2>1. UNCHANGED <<stage, seen, counter, runs, milestones, contested>>
    BY <1>4 DEF TakeMethod, PassOver, ReturnEarly, Crash, FinishMethod,
                pipelineVars, countVars
  <2> QED
    BY <1>1, <2>1
<1> QED
  BY <1>2, <1>3, <1>4, CountReadStep, CountWriteStep, CountLogStep
  DEF PipelineNext, WorkerStep

(* Two threads that count at once may lose counts and leave a multiple out *)
(* of the log; but never does the counter run ahead of the methods, and    *)
(* what no two threads count at once is logged.                            *)
THEOREM CountHolds == PipelineSpec => []CountVerdict
<1>1. PipelineInit => CountInv
  BY DEF PipelineInit, CountInv, Accounted, AloneOrContested, Counting
<1>2. PipelineTypeOK /\ CountInv /\ [PipelineNext]_allVars => CountInv'
  BY CountStep
<1>3. CountInv => CountVerdict
  BY DEF CountInv, Accounted, CountVerdict
<1> QED
  BY <1>1, <1>2, <1>3, PipelineTypeCorrect, PTL DEF PipelineSpec

----------------------------------------------------------------------------
(* The filter of a module, asked for one name after the other, accepts     *)
(* what its whitelists list and its blacklists do not.                     *)
LEMMA SelectsAccepts ==
  ASSUME PipelineTypeOK, NEW o \in ModuleObjects, NEW m \in Methods
  PROVE  Selects(o, m) <=> Accepts(o, m)
<1>1. ASSUME NEW f \in filters[o]
      PROVE  (Lists(f, m) <=> Named(f, m)) /\ f.accept \in BOOLEAN
  <2>1. f \in NameFilter
    BY DEF PipelineTypeOK, FilterSpace
  <2>2. Candidate(f, m) \in Texts
    BY <2>1, PipelineAssumption DEF Candidate, MethodSpace
  <2>3. f.accept \in BOOLEAN /\ f.names \subseteq Texts
    BY <2>1 DEF NameFilter
  <2>4. CASE f.exact
    BY <2>2, <2>3, <2>4, PipelineAssumption DEF Lists, Named, Candidate
  <2>5. CASE ~f.exact
    BY <2>3, <2>5 DEF Lists, Named, Candidate
  <2> QED
    BY <2>3, <2>4, <2>5
<1>2. Selects(o, m) <=> \A f \in filters[o] : Lists(f, m) <=> f.accept
  BY <1>1 DEF Selects
<1>3. Accepts(o, m) <=> \A f \in filters[o] : Named(f, m) <=> f.accept
  BY <1>1 DEF Accepts, AcceptsName
<1> QED
  BY <1>1, <1>2, <1>3

(* The first file is unique.                                               *)
LEMMA OwnIsFirst ==
  ASSUME NEW id, NEW d \in DexFiles,
         IsFirst(d, input.defines[CodelibOf(id)])
  PROVE  OwnDex(id) = d
<1>1. \A e \in DexFiles : IsFirst(e, input.defines[CodelibOf(id)]) => e = d
  BY ConstantsAssumption DEF IsFirst
<1> QED
  BY <1>1 DEF OwnDex

(* When initialisation is over, a module is enabled exactly if it needs no *)
(* codelib or has found one.                                               *)
LEMMA EnabledIsEquipped ==
  ASSUME IInv, pc = "done", NEW id \in Registered \ late
  PROVE  enabled[modules[id]] <=> Equipped(id)
<1>1. id \in ModuleIds /\ modules[id] \in ModuleObjects
  BY DEF Registered, IInv, TypeOK
<1>2. ~enabled[modules[id]] =>
        CodelibOf(id) # None /\ input.defines[CodelibOf(id)] = {}
  BY <1>1 DEF IInv, Processed, CodelibOf
<1>3. enabled[modules[id]] /\ CodelibOf(id) # None => environments[id] # None
  BY ReadyFromInvariant DEF EnabledMeansReady
<1>4. environments[id] # None => input.defines[CodelibOf(id)] # {}
  BY <1>1 DEF IInv, Origins, IsFirst
<1> QED
  BY <1>2, <1>3, <1>4 DEF Equipped, Providers

(* ... and the codelib files are the files of those that have found one.   *)
LEMMA CodelibFilesAreOwned ==
  ASSUME IInv, pc = "done", NEW m \in Methods
  PROVE  m.dex \in codelibFiles <=> InCodelib(m)
<1>1. \A id \in ModuleIds : environments[id] # None =>
        id \in Providers /\ environments[id].dex = OwnDex(id)
  <2> SUFFICES ASSUME NEW id \in ModuleIds, environments[id] # None
               PROVE  id \in Providers /\ environments[id].dex = OwnDex(id)
    OBVIOUS
  <2>1. /\ id \in Registered \ late
        /\ environments[id] \in Environment
        /\ environments[id].codelib = CodelibOf(id)
        /\ IsFirst(environments[id].dex, input.defines[CodelibOf(id)])
    BY DEF IInv, TypeOK, Origins
  <2>2. /\ environments[id].dex \in DexFiles
        /\ environments[id].codelib \in CodeLibs
    BY <2>1 DEF Environment
  <2> QED
    BY <2>1, <2>2, OwnIsFirst, ConstantsAssumption DEF Providers, IsFirst
<1>2. \A id \in Providers : id \in ModuleIds /\ environments[id] # None
  <2> SUFFICES ASSUME NEW id \in Providers
               PROVE  id \in ModuleIds /\ environments[id] # None
    OBVIOUS
  <2>1. id \in Registered \ late /\ CodelibOf(id) # None /\ Equipped(id)
    BY DEF Providers, Equipped
  <2>2. enabled[modules[id]]
    BY <2>1, EnabledIsEquipped
  <2> QED
    BY <2>1, <2>2, ReadyFromInvariant DEF EnabledMeansReady, Registered
<1>3. codelibFiles =
        {environments[id].dex : id \in {i \in ModuleIds :
                                          environments[i] # None}}
  BY DEF IInv, DexFilesPartitioned, Building
<1> QED
  BY <1>1, <1>2, <1>3 DEF InCodelib

(* The selection depends on what is registered in time, and on nothing     *)
(* that changes once initialisation is over.                               *)
LEMMA SameSelection ==
  ASSUME UNCHANGED <<input, modules, late, filters>>
  PROVE  /\ Registered' = Registered
         /\ \A m \in Methods : ShouldWeave(m)' = ShouldWeave(m)
         /\ \A o, m : Selects(o, m)' = Selects(o, m)
BY DEF ShouldWeave, InCodelib, Equipped, Providers, OwnDex, CodelibOf,
       Registered, Selects, Lists

LEMMA SelectionStable ==
  ASSUME IInv, PipelineTypeOK, pc = "done", DriverStep
  PROVE  /\ pc' = "done" /\ UNCHANGED <<job, filters>>
         /\ Registered \subseteq Registered'
         /\ Registered' \ late' = Registered \ late
         /\ late \subseteq late'
         /\ \A id \in Registered : modules'[id] = modules[id]
         /\ \A m \in Methods : ShouldWeave(m)' = ShouldWeave(m)
         /\ \A o, m : Selects(o, m)' = Selects(o, m)
<1>1. initFlag
  BY DEF IInv, Phases
<1>2. CASE InitializeAgain
  BY <1>2, SameSelection
  DEF DriverStep, InitializeAgain, pipelineVars, takenVars, managerVars,
      loopVars
<1>3. ASSUME NEW id \in ModuleIds, NEW o \in ModuleObjects,
             RegisterModule(id, o)
      PROVE  /\ pc' = "done" /\ UNCHANGED <<job, filters>>
             /\ Registered \subseteq Registered'
             /\ Registered' \ late' = Registered \ late
             /\ late \subseteq late'
             /\ \A i \in Registered : modules'[i] = modules[i]
             /\ \A m \in Methods : ShouldWeave(m)' = ShouldWeave(m)
             /\ \A p, m : Selects(p, m)' = Selects(p, m)
  <2>1. /\ UNCHANGED <<input, filters, pc, job>>
        /\ modules' = [modules EXCEPT ![id] = o] /\ modules[id] = None
        /\ late' = late \cup {id}
    BY <1>1, <1>3
    DEF DriverStep, RegisterModule, Taken, pipelineVars, takenVars, loopVars
  <2>2. /\ Registered' = Registered \cup {id} /\ id \notin Registered
        /\ \A i \in Registered : modules'[i] = modules[i]
    BY <2>1, ConstantsAssumption DEF Registered, IInv, TypeOK
  <2>3. Registered' \ late' = Registered \ late
    BY <2>1, <2>2
  <2>4. \A i \in Registered \ late :
          CodelibOf(i)' = CodelibOf(i) /\ OwnDex(i)' = OwnDex(i)
    BY <2>1, <2>2 DEF CodelibOf, OwnDex
  <2>5. Providers' = Providers
    BY <2>1, <2>3, <2>4 DEF Providers
  <2>6. \A p, m : Selects(p, m)' = Selects(p, m)
    BY <2>1 DEF Selects, Lists
  <2>7. \A m : InCodelib(m)' = InCodelib(m)
    BY <2>4, <2>5 DEF InCodelib, Providers
  <2>8. \A m \in Methods : ShouldWeave(m)' = ShouldWeave(m)
    BY <2>2, <2>3, <2>4, <2>5, <2>6, <2>7 DEF ShouldWeave, Equipped
  <2> QED
    BY <2>1, <2>2, <2>3, <2>6, <2>8
<1> QED
  BY <1>1, <1>2, <1>3
  DEF DriverStep, BeginInitialize, AlreadyBegun, InitializeStep,
      CreateDexEnvironment, SkipModule, DeactivateModule, FindCodelibDex,
      DeclareCodelib, DeclareCodelibTwice, ConstructEnvironment,
      ConstructEnvironmentFails, ConstructorSticks, FinishInitialize

----------------------------------------------------------------------------
(* A method nobody has taken is untouched, and nobody takes one before     *)
(* initialisation is over.                                                 *)
Begun ==
  /\ todo # Methods => pc = "done"
  /\ \A m \in todo : woven[m] = <<>>

(* No two threads compile the same method, and the ids still to come are   *)
(* greater than the id of the pass under way, and that than those before.  *)
Queues ==
  \A w \in Workers :
    method[w] # None =>
      /\ method[w] \notin todo
      /\ \A v \in Workers : method[v] = method[w] => v = w
      /\ remaining[w] \subseteq Registered
      /\ \A i \in DOMAIN woven[method[w]] :
           /\ \A id \in remaining[w] : woven[method[w]][i] < id
           /\ job[w] # None => woven[method[w]][i] < job[w].id
      /\ job[w] # None =>
           /\ \A id \in remaining[w] : job[w].id < id
           /\ Selects(modules[job[w].id], method[w])

(* Whoever changed a method was meant to.                                  *)
Justified ==
  \A m \in Methods :
    /\ \A i, j \in DOMAIN woven[m] : i < j => woven[m][i] < woven[m][j]
    /\ \A id \in WovenBy(m) : id \in Registered /\ Selects(modules[id], m)
    /\ WovenBy(m) \ late \subseteq ShouldWeave(m)

(* Whoever is meant to change a method has done so or has its turn ahead.  *)
Awaits(w, id) == id \in remaining[w] \/ (job[w] # None /\ job[w].id = id)

Complete ==
  \A m \in Methods \ todo :
    \A id \in ShouldWeave(m) :
      \/ id \in WovenBy(m)
      \/ \E w \in Workers : method[w] = m /\ Awaits(w, id)

WeaveInv == Begun /\ Queues /\ Justified /\ Complete

(* Only DriverStep changes the registry.                                   *)
LEMMA WorkerKeeps ==
  ASSUME NEW w \in Workers, WorkerStep(w)
  PROVE  UNCHANGED <<input, modules, late, enabled, filters, pc>>
<1> USE DEF managerVars, loopVars, vars, takenVars, pipelineVars
<1>1. ASSUME NEW m \in Methods, TakeMethod(w, m)
      PROVE  UNCHANGED <<input, modules, late, enabled, filters, pc>>
  BY <1>1 DEF TakeMethod
<1>2. CASE PassOver(w) \/ MakePass(w)
  BY <1>2 DEF PassOver, MakePass, CreatePass
<1>3. CASE ReturnEarly(w) \/ Weave(w) \/ Crash(w)
  BY <1>3 DEF ReturnEarly, SkipCodelibMethod, Weave, RunPass, Crash,
              PassCrashes
<1>4. CASE ReadCounter(w) \/ WriteCounter(w) \/ LogCount(w) \/ FinishMethod(w)
  BY <1>4 DEF ReadCounter, WriteCounter, LogCount, FinishMethod
<1> QED
  BY <1>1, <1>2, <1>3, <1>4 DEF WorkerStep

(* Begun: threads start only when the driver lets them.                    *)
LEMMA BegunStep ==
  ASSUME IInv, PipelineTypeOK, WeaveInv, [PipelineNext]_allVars
  PROVE  Begun'
<1>1. CASE UNCHANGED <<todo, woven>> /\ (pc = "done" => pc' = "done")
  BY <1>1 DEF WeaveInv, Begun
<1>2. CASE DriverStep
  <2>1. UNCHANGED <<todo, woven>>
    BY <1>2 DEF DriverStep, pipelineVars, takenVars
  <2> QED
    BY <1>1, <1>2, <2>1, SelectionStable
<1>3. ASSUME NEW w \in Workers, NEW m \in Methods, TakeMethod(w, m)
      PROVE  Begun'
  <2>1. /\ pc' = "done"
        /\ todo' \subseteq todo /\ woven' = woven
    BY <1>3, DriverWaits DEF TakeMethod, GateOpen, vars, loopVars
  <2> QED
    BY <2>1 DEF WeaveInv, Begun
<1>4. ASSUME NEW w \in Workers, Weave(w)
      PROVE  Begun'
  <2>1. /\ UNCHANGED <<pc, todo>>
        /\ woven' = [woven EXCEPT ![method[w]] = Append(@, job[w].id)]
    BY <1>4 DEF Weave, RunPass, takenVars, loopVars
  <2>2. method[w] # None
    BY <1>4 DEF Weave, RunPass, PipelineTypeOK
  <2>3. method[w] \notin todo
    BY <2>2 DEF WeaveInv, Queues
  <2>4. \A m \in todo : woven'[m] = woven[m]
    BY <2>1, <2>3 DEF PipelineTypeOK
  <2> QED
    BY <2>1, <2>4 DEF WeaveInv, Begun
<1>5. ASSUME NEW w \in Workers,
             \/ PassOver(w) \/ MakePass(w) \/ ReturnEarly(w)
             \/ ReadCounter(w) \/ WriteCounter(w) \/ LogCount(w)
             \/ Crash(w) \/ FinishMethod(w)
      PROVE  Begun'
  <2>1. UNCHANGED <<todo, woven, pc>>
    BY <1>5
    DEF PassOver, MakePass, CreatePass, ReturnEarly, SkipCodelibMethod,
        ReadCounter, WriteCounter, LogCount, Crash, PassCrashes,
        FinishMethod, takenVars, pipelineVars, vars, loopVars
  <2> QED
    BY <1>1, <2>1
<1>6. CASE UNCHANGED allVars
  BY <1>1, <1>6 DEF allVars, vars, loopVars, pipelineVars, takenVars
<1> QED
  BY <1>2, <1>3, <1>4, <1>5, <1>6 DEF PipelineNext, WorkerStep

(* Queues: a thread's copy of the map only shrinks, from its first id on.  *)
LEMMA QueuesStep ==
  ASSUME IInv, JobsFresh, PipelineTypeOK, WeaveInv, [PipelineNext]_allVars
  PROVE  Queues'
<1>0. /\ Queues
      /\ \A w \in Workers : remaining[w] \subseteq Nat
      /\ job \in [Workers -> Job \cup {None}]
      /\ None \notin Methods
      /\ method \in [Workers -> Methods \cup {None}]
      /\ remaining \in [Workers -> SUBSET ModuleIds]
      /\ woven \in [Methods -> Seq(ModuleIds)]
  BY ConstantsAssumption, PipelineAssumption
  DEF WeaveInv, PipelineTypeOK, IInv, TypeOK
<1>1. CASE /\ UNCHANGED <<todo, method, remaining, woven, job>>
           /\ Registered \subseteq Registered'
           /\ \A id \in Registered : modules'[id] = modules[id]
           /\ \A o, m : Selects(o, m)' = Selects(o, m)
  <2>1. \A w \in Workers : job[w] # None => job[w].id \in Registered
    BY DEF JobsFresh
  <2> QED
    BY <1>0, <1>1, <2>1 DEF Queues
<1>2. CASE DriverStep
  <2>1. UNCHANGED <<todo, method, remaining, woven, filters>>
    BY <1>2 DEF DriverStep, pipelineVars, takenVars
  <2>2. CASE pc = "done"
    BY <1>1, <1>2, <2>1, <2>2, SelectionStable
  <2>3. CASE pc # "done"
    <3>1. \A w \in Workers : method[w] = None
      BY <1>0, <2>3 DEF WeaveInv, Begun, Queues
    <3> QED
      BY <2>1, <3>1 DEF Queues
  <2> QED
    BY <2>2, <2>3
<1>3. CASE UNCHANGED allVars
  BY <1>1, <1>3, SameSelection
  DEF allVars, vars, managerVars, pipelineVars, takenVars
<1> SUFFICES ASSUME NEW w \in Workers, WorkerStep(w)
             PROVE  Queues'
  BY <1>2, <1>3 DEF PipelineNext
<1>4. /\ UNCHANGED <<modules, filters>>
      /\ Registered' = Registered
      /\ \A o, m : Selects(o, m)' = Selects(o, m)
  BY WorkerKeeps, SameSelection
<1>5. ASSUME NEW m \in Methods, TakeMethod(w, m)
      PROVE  Queues'
  <2>1. /\ method[w] = None /\ m \in todo /\ todo' = todo \ {m}
        /\ method' = [method EXCEPT ![w] = m]
        /\ remaining' = [remaining EXCEPT ![w] = Registered]
        /\ UNCHANGED <<job, woven>>
    BY <1>5 DEF TakeMethod, vars
  <2>2. job[w] = None /\ woven[m] = <<>>
    BY <2>1 DEF PipelineTypeOK, WeaveInv, Begun
  <2>3. \A v \in Workers : method[v] # m
    BY <1>0, <2>1 DEF Queues
  <2> QED
    BY <1>0, <1>4, <2>1, <2>2, <2>3 DEF Queues
<1>6. CASE PassOver(w)
  <2>1. PICK id \in ModuleIds :
          /\ method[w] # None /\ job[w] = None
          /\ remaining' = [remaining EXCEPT ![w] = @ \ {id}]
          /\ UNCHANGED <<job, woven, todo, method>>
    BY <1>6 DEF PassOver, Turn, vars, takenVars
  <2> QED
    BY <1>0, <1>4, <2>1 DEF Queues
<1>7. CASE MakePass(w)
  <2>1. PICK id \in ModuleIds :
          /\ method[w] # None /\ IsFirst(id, remaining[w])
          /\ Accepts(modules[id], method[w])
          /\ CreatePass(w, id, method[w].dex)
          /\ remaining' = [remaining EXCEPT ![w] = @ \ {id}]
          /\ UNCHANGED <<woven, todo, method>>
    BY <1>7 DEF MakePass, Turn, Wanted, takenVars
  <2> DEFINE j == [id |-> id, dex |-> method[w].dex, dexEnv |-> dexEnv,
                   env |-> environments[id]]
  <2>2. job' = [job EXCEPT ![w] = j] /\ id \in Registered
    BY <2>1 DEF CreatePass
  <2>3. Selects(modules[id], method[w])
    <3>1. method[w] \in Methods /\ modules[id] \in ModuleObjects
      BY <1>0, <2>1, <2>2 DEF Registered, IInv, TypeOK
    <3> QED
      BY <2>1, <3>1, SelectsAccepts
  <2>4. \A k \in remaining'[w] : id < k
    BY <1>0, <2>1 DEF IsFirst
  <2>5. \A i \in DOMAIN woven[method[w]] : woven[method[w]][i] < id
    BY <1>0, <2>1 DEF Queues, IsFirst
  <2>6. /\ job'[w].id = id
        /\ remaining'[w] \subseteq remaining[w]
        /\ \A v \in Workers : v # w =>
             job'[v] = job[v] /\ remaining'[v] = remaining[v]
    BY <1>0, <2>1, <2>2
  <2> QED
    BY <1>0, <1>4, <2>1, <2>3, <2>4, <2>5, <2>6 DEF Queues
<1>8. CASE ReturnEarly(w)
  <2>1. /\ job' = [job EXCEPT ![w] = None]
        /\ UNCHANGED <<todo, method, remaining, woven>>
    BY <1>8 DEF ReturnEarly, SkipCodelibMethod, pipelineVars, takenVars
  <2> QED
    BY <1>0, <1>4, <2>1 DEF Queues
<1>9. CASE Weave(w)
  <2>1. /\ job[w] # None /\ job' = [job EXCEPT ![w] = None]
        /\ woven' = [woven EXCEPT ![method[w]] = Append(@, job[w].id)]
        /\ UNCHANGED <<todo, method, remaining>>
    BY <1>9 DEF Weave, RunPass, takenVars
  <2>2. method[w] \in Methods /\ job[w].id \in ModuleIds
    BY <1>0, <2>1 DEF PipelineTypeOK, Job
  <2>3. \A m \in Methods : m # method[w] => woven'[m] = woven[m]
    BY <1>0, <2>1
  <2>4. \A i \in DOMAIN woven'[method[w]] :
          \/ /\ i \in DOMAIN woven[method[w]]
             /\ woven'[method[w]][i] = woven[method[w]][i]
          \/ woven'[method[w]][i] = job[w].id
    BY <1>0, <2>1, <2>2
  <2>5. \A id \in remaining[w] : job[w].id < id
    BY <1>0, <2>1, <2>2 DEF Queues
  <2>6. \A v \in Workers : v # w =>
          job'[v] = job[v] /\ (method[v] # None => method[v] # method[w])
    BY <1>0, <2>1 DEF Queues
  <2>7. job'[w] = None
    BY <1>0, <2>1
  <2>8. \A i \in DOMAIN woven'[method[w]], id \in remaining[w] :
          woven'[method[w]][i] < id
    BY <1>0, <2>2, <2>4, <2>5 DEF Queues
  <2> QED
    BY <1>0, <1>4, <2>1, <2>3, <2>6, <2>7, <2>8 DEF Queues
<1>10. CASE FinishMethod(w)
  <2>1. /\ method' = [method EXCEPT ![w] = None]
        /\ UNCHANGED <<todo, job, remaining, woven>>
    BY <1>10 DEF FinishMethod, vars
  <2> QED
    BY <1>0, <1>4, <2>1 DEF Queues
<1>11. CASE ReadCounter(w) \/ WriteCounter(w) \/ LogCount(w) \/ Crash(w)
  <2>1. UNCHANGED <<todo, method, remaining, woven, job>>
    BY <1>11 DEF ReadCounter, WriteCounter, LogCount, Crash, PassCrashes,
                 vars, pipelineVars, takenVars
  <2> QED
    BY <1>1, <1>4, <2>1
<1> QED
  BY <1>5, <1>6, <1>7, <1>8, <1>9, <1>10, <1>11 DEF WorkerStep

(* Justified: a pass changes a method that is not a codelib's, and its     *)
(* module is enabled, hence equipped.                                      *)
LEMMA JustifiedStep ==
  ASSUME IInv, JobsFresh, PipelineTypeOK, WeaveInv, [PipelineNext]_allVars
  PROVE  Justified'
<1>0. /\ Justified
      /\ woven \in [Methods -> Seq(ModuleIds)]
  BY DEF WeaveInv, PipelineTypeOK
<1>1. CASE /\ woven' = woven
           /\ Registered \subseteq Registered'
           /\ late \subseteq late'
           /\ \A id \in Registered : modules'[id] = modules[id]
           /\ \A m \in Methods : ShouldWeave(m)' = ShouldWeave(m)
           /\ \A o, m : Selects(o, m)' = Selects(o, m)
  BY <1>0, <1>1 DEF Justified, WovenBy
<1>2. CASE DriverStep
  <2>1. woven' = woven
    BY <1>2 DEF DriverStep, pipelineVars
  <2>2. CASE pc = "done"
    BY <1>1, <1>2, <2>1, <2>2, SelectionStable
  <2>3. CASE pc # "done"
    <3>1. \A m \in Methods : woven[m] = <<>>
      BY <2>3 DEF WeaveInv, Begun
    <3> QED
      BY <2>1, <3>1 DEF Justified, WovenBy
  <2> QED
    BY <2>2, <2>3
<1>3. CASE UNCHANGED allVars
  BY <1>1, <1>3, SameSelection
  DEF allVars, vars, managerVars, pipelineVars, takenVars
<1> SUFFICES ASSUME NEW w \in Workers, WorkerStep(w)
             PROVE  Justified'
  BY <1>2, <1>3 DEF PipelineNext
<1>4. /\ UNCHANGED <<modules, late, filters>>
      /\ Registered' = Registered
      /\ \A m \in Methods : ShouldWeave(m)' = ShouldWeave(m)
      /\ \A o, m : Selects(o, m)' = Selects(o, m)
  BY WorkerKeeps, SameSelection
<1>5. CASE Weave(w)
  <2> DEFINE m == method[w]
             id == job[w].id
  <2>1. /\ job[w] # None /\ ~InCodelibFile(w)
        /\ woven' = [woven EXCEPT ![m] = Append(@, id)]
        /\ method' = method
    BY <1>5 DEF Weave, RunPass, takenVars
  <2>2. /\ m \in Methods /\ m # None /\ job[w].dex = m.dex
        /\ id \in ModuleIds /\ id \in Registered
        /\ pc = "done" /\ job[w].dexEnv /\ enabled[modules[id]]
    BY <2>1, PipelineAssumption
    DEF PipelineTypeOK, IInv, TypeOK, Job, JobsFresh
  <2>3. /\ Selects(modules[id], m)
        /\ \A i \in DOMAIN woven[m] : woven[m][i] < id
    BY <2>1, <2>2 DEF WeaveInv, Queues
  <2>4. id \notin late => id \in ShouldWeave(m)
    <3>1. ~InCodelib(m)
      BY <2>1, <2>2, CodelibFilesAreOwned DEF InCodelibFile
    <3>2. id \notin late => Equipped(id)
      BY <2>2, EnabledIsEquipped
    <3> QED
      BY <2>2, <2>3, <3>1, <3>2 DEF ShouldWeave
  <2>5. /\ \A n \in Methods : n # m => woven'[n] = woven[n]
        /\ woven'[m] = Append(woven[m], id)
    BY <1>0, <2>1, <2>2
  <2>6. /\ DOMAIN woven[m] = 1..Len(woven[m]) /\ Len(woven[m]) \in Nat
        /\ DOMAIN woven'[m] = 1..(Len(woven[m]) + 1)
        /\ \A i \in DOMAIN woven[m] : woven'[m][i] = woven[m][i]
        /\ woven'[m][Len(woven[m]) + 1] = id
    BY <1>0, <2>2, <2>5
  <2>7. \A i, j \in DOMAIN woven'[m] : i < j => woven'[m][i] < woven'[m][j]
    <3> SUFFICES ASSUME NEW i \in DOMAIN woven'[m],
                        NEW j \in DOMAIN woven'[m], i < j
                 PROVE  woven'[m][i] < woven'[m][j]
      OBVIOUS
    <3>1. i \in DOMAIN woven[m]
      BY <2>6
    <3>2. CASE j \in DOMAIN woven[m]
      BY <1>0, <2>2, <2>6, <3>1, <3>2 DEF Justified
    <3>3. CASE j = Len(woven[m]) + 1
      BY <2>3, <2>6, <3>1, <3>3
    <3>4. j \in DOMAIN woven[m] \/ j = Len(woven[m]) + 1
      BY <2>6
    <3> QED
      BY <3>2, <3>3, <3>4
  <2>8. WovenBy(m)' \subseteq WovenBy(m) \cup {id}
    BY <2>1, <2>6 DEF WovenBy
  <2>9. \A n \in Methods : n # m => WovenBy(n)' = WovenBy(n)
    BY <2>5 DEF WovenBy
  <2>10. \A k \in WovenBy(m)' : k \in Registered /\ Selects(modules[k], m)
    BY <1>0, <2>2, <2>3, <2>8 DEF Justified
  <2>11. WovenBy(m)' \ late \subseteq ShouldWeave(m)
    BY <1>0, <2>2, <2>4, <2>8 DEF Justified
  <2>12. ASSUME NEW n \in Methods
         PROVE  /\ \A i, j \in DOMAIN woven'[n] :
                     i < j => woven'[n][i] < woven'[n][j]
                /\ \A k \in WovenBy(n)' :
                     k \in Registered /\ Selects(modules[k], n)
                /\ WovenBy(n)' \ late \subseteq ShouldWeave(n)
    <3>1. CASE n = m
      BY <2>1, <2>7, <2>10, <2>11, <3>1
    <3>2. CASE n # m
      BY <1>0, <2>5, <2>9, <3>2 DEF Justified
    <3> QED
      BY <3>1, <3>2
  <2> QED
    BY <1>4, <2>12 DEF Justified
<1>6. CASE woven' = woven
  BY <1>1, <1>4, <1>6
<1> QED
  BY <1>5, <1>6
  DEF WorkerStep, TakeMethod, PassOver, MakePass, ReturnEarly, ReadCounter,
      WriteCounter, LogCount, Crash, FinishMethod, pipelineVars

(* Complete: a turn is only passed over by a module that is not wanted, a  *)
(* pass only ends without effect in a codelib file.                        *)
LEMMA CompleteStep ==
  ASSUME IInv, JobsFresh, PipelineTypeOK, WeaveInv, [PipelineNext]_allVars
  PROVE  Complete'
<1>0. /\ Complete
      /\ job \in [Workers -> Job \cup {None}]
      /\ None \notin Methods
      /\ method \in [Workers -> Methods \cup {None}]
      /\ remaining \in [Workers -> SUBSET ModuleIds]
      /\ woven \in [Methods -> Seq(ModuleIds)]
      /\ \A m \in Methods : ShouldWeave(m) \subseteq Registered \ late
  BY PipelineAssumption
  DEF WeaveInv, PipelineTypeOK, IInv, TypeOK, ShouldWeave
<1>1. CASE /\ UNCHANGED <<todo, method, remaining, woven, job>>
           /\ \A m \in Methods : ShouldWeave(m)' = ShouldWeave(m)
  BY <1>0, <1>1 DEF Complete, WovenBy, Awaits
<1>2. CASE DriverStep
  <2>1. UNCHANGED <<todo, method, remaining, woven>>
    BY <1>2 DEF DriverStep, pipelineVars, takenVars
  <2>2. CASE pc = "done"
    BY <1>1, <1>2, <2>1, <2>2, SelectionStable
  <2>3. CASE pc # "done"
    BY <2>1, <2>3 DEF WeaveInv, Begun, Complete
  <2> QED
    BY <2>2, <2>3
<1>3. CASE UNCHANGED allVars
  BY <1>1, <1>3, SameSelection
  DEF allVars, vars, managerVars, pipelineVars, takenVars
<1> SUFFICES ASSUME NEW w \in Workers, WorkerStep(w)
             PROVE  Complete'
  BY <1>2, <1>3 DEF PipelineNext
<1>4. \A m \in Methods : ShouldWeave(m)' = ShouldWeave(m)
  BY WorkerKeeps, SameSelection
<1>5. ASSUME NEW m \in Methods, TakeMethod(w, m)
      PROVE  Complete'
  <2>1. /\ method[w] = None /\ m \in todo /\ todo' = todo \ {m}
        /\ method' = [method EXCEPT ![w] = m]
        /\ remaining' = [remaining EXCEPT ![w] = Registered]
        /\ UNCHANGED <<job, woven>>
    BY <1>5 DEF TakeMethod, vars
  <2>2. \A id \in ShouldWeave(m) : method'[w] = m /\ Awaits(w, id)'
    BY <1>0, <2>1 DEF Awaits
  <2>3. \A v \in Workers : v # w =>
          method'[v] = method[v] /\ remaining'[v] = remaining[v]
    BY <1>0, <2>1
  <2>4. ASSUME NEW n \in Methods \ todo', NEW id \in ShouldWeave(n)
        PROVE  \/ id \in WovenBy(n)'
               \/ \E v \in Workers : method'[v] = n /\ Awaits(v, id)'
    <3>1. CASE n = m
      BY <2>2, <2>4, <3>1
    <3>2. CASE n # m
      <4>1. \/ id \in WovenBy(n)
            \/ \E v \in Workers : method[v] = n /\ Awaits(v, id)
        BY <1>0, <2>1, <2>4, <3>2 DEF Complete
      <4>2. \A v \in Workers : method[v] = n => v # w
        BY <1>0, <2>1
      <4> QED
        BY <2>1, <2>3, <4>1, <4>2 DEF WovenBy, Awaits
    <3> QED
      BY <3>1, <3>2
  <2> QED
    BY <1>4, <2>4 DEF Complete
<1>6. CASE PassOver(w)
  <2>1. PICK id \in ModuleIds :
          /\ method[w] # None /\ job[w] = None
          /\ id \in remaining[w] /\ ~Wanted(w, id)
          /\ remaining' = [remaining EXCEPT ![w] = @ \ {id}]
          /\ UNCHANGED <<job, woven, todo, method>>
    BY <1>6 DEF PassOver, Turn, IsFirst, vars, takenVars
  <2>2. /\ pc = "done" /\ method[w] \in Methods
        /\ id \in Registered /\ modules[id] \in ModuleObjects
    <3>1. /\ method[w] \in Methods /\ method[w] \notin todo
          /\ id \in Registered
      BY <1>0, <2>1 DEF WeaveInv, Queues
    <3> QED
      BY <3>1 DEF WeaveInv, Begun, Registered, IInv, TypeOK
  <2>3. id \notin ShouldWeave(method[w])
    <3>1. Selects(modules[id], method[w]) <=> Accepts(modules[id], method[w])
      BY <2>2, SelectsAccepts
    <3>2. id \notin late => (enabled[modules[id]] <=> Equipped(id))
      BY <2>2, EnabledIsEquipped
    <3> QED
      BY <2>1, <3>1, <3>2 DEF Wanted, ShouldWeave
  <2>4. \A v \in Workers, k \in ModuleIds :
          Awaits(v, k) => Awaits(v, k)' \/ (v = w /\ k = id)
    BY <1>0, <2>1 DEF Awaits
  <2> QED
    BY <1>0, <1>4, <2>1, <2>3, <2>4 DEF Complete, WovenBy, Registered
<1>7. CASE MakePass(w)
  <2>1. PICK id \in ModuleIds :
          /\ method[w] # None /\ job[w] = None
          /\ CreatePass(w, id, method[w].dex)
          /\ remaining' = [remaining EXCEPT ![w] = @ \ {id}]
          /\ UNCHANGED <<woven, todo, method>>
    BY <1>7 DEF MakePass, Turn, takenVars
  <2> DEFINE j == [id |-> id, dex |-> method[w].dex, dexEnv |-> dexEnv,
                   env |-> environments[id]]
  <2>2. job' = [job EXCEPT ![w] = j]
    BY <2>1 DEF CreatePass
  <2>3. j # None
    <3>1. j \in Job
      BY <1>0, <2>1, PipelineAssumption DEF Job, IInv, TypeOK, MethodSpace
    <3> QED
      BY <3>1, NoneIsNoEnvironment
  <2>4. \A v \in Workers, k \in ModuleIds : Awaits(v, k) => Awaits(v, k)'
    BY <1>0, <2>1, <2>2, <2>3 DEF Awaits
  <2> QED
    BY <1>0, <1>4, <2>1, <2>4 DEF Complete, WovenBy, Registered
<1>8. CASE ReturnEarly(w)
  <2>1. /\ job[w] # None /\ InCodelibFile(w)
        /\ job' = [job EXCEPT ![w] = None]
        /\ UNCHANGED <<todo, method, remaining, woven>>
    BY <1>8 DEF ReturnEarly, SkipCodelibMethod, pipelineVars, takenVars
  <2>2. /\ method[w] \in Methods /\ job[w].dex = method[w].dex
        /\ pc = "done"
    BY <1>0, <2>1 DEF PipelineTypeOK, JobsFresh
  <2>3. ShouldWeave(method[w]) = {}
    BY <2>1, <2>2, CodelibFilesAreOwned DEF InCodelibFile, ShouldWeave
  <2>4. \A v \in Workers, k \in ModuleIds :
          Awaits(v, k) => Awaits(v, k)' \/ v = w
    BY <1>0, <2>1 DEF Awaits
  <2> QED
    BY <1>0, <1>4, <2>1, <2>3, <2>4 DEF Complete, WovenBy, Registered
<1>9. CASE Weave(w)
  <2>1. /\ job[w] # None /\ job' = [job EXCEPT ![w] = None]
        /\ woven' = [woven EXCEPT ![method[w]] = Append(@, job[w].id)]
        /\ UNCHANGED <<todo, method, remaining>>
    BY <1>9 DEF Weave, RunPass, takenVars
  <2>2. method[w] \in Methods /\ job[w].id \in ModuleIds
    BY <1>0, <2>1 DEF PipelineTypeOK, Job
  <2>3. \A m \in Methods : m # method[w] => WovenBy(m)' = WovenBy(m)
    BY <1>0, <2>1 DEF WovenBy
  <2>4. WovenBy(method[w]) \cup {job[w].id} \subseteq WovenBy(method[w])'
    <3>1. /\ woven'[method[w]] = Append(woven[method[w]], job[w].id)
          /\ woven[method[w]] \in Seq(ModuleIds)
      BY <1>0, <2>1, <2>2
    <3>2. /\ Len(woven[method[w]]) + 1 \in DOMAIN woven'[method[w]]
          /\ woven'[method[w]][Len(woven[method[w]]) + 1] = job[w].id
          /\ \A i \in DOMAIN woven[method[w]] :
               /\ i \in DOMAIN woven'[method[w]]
               /\ woven'[method[w]][i] = woven[method[w]][i]
      BY <2>2, <3>1
    <3> QED
      BY <2>1, <3>2 DEF WovenBy
  <2>5. \A v \in Workers, k \in ModuleIds :
          Awaits(v, k) => Awaits(v, k)' \/ (v = w /\ k = job[w].id)
    BY <1>0, <2>1 DEF Awaits
  <2> QED
    BY <1>0, <1>4, <2>1, <2>3, <2>4, <2>5 DEF Complete, Registered
<1>10. CASE FinishMethod(w)
  <2>1. /\ job[w] = None /\ remaining[w] = {}
        /\ method' = [method EXCEPT ![w] = None]
        /\ UNCHANGED <<todo, job, remaining, woven>>
    BY <1>10 DEF FinishMethod, vars
  <2>2. \A k : ~Awaits(w, k)
    BY <2>1 DEF Awaits
  <2> QED
    BY <1>0, <1>4, <2>1, <2>2 DEF Complete, WovenBy, Awaits
<1>11. CASE ReadCounter(w) \/ WriteCounter(w) \/ LogCount(w) \/ Crash(w)
  <2>1. UNCHANGED <<todo, method, remaining, woven, job>>
    BY <1>11 DEF ReadCounter, WriteCounter, LogCount, Crash, PassCrashes,
                 vars, pipelineVars, takenVars
  <2> QED
    BY <1>1, <1>4, <2>1
<1> QED
  BY <1>5, <1>6, <1>7, <1>8, <1>9, <1>10, <1>11 DEF WorkerStep

(* What the weaving invariant comes to when a method is finished.          *)
LEMMA WovenFromInvariant ==
  ASSUME PipelineTypeOK, WeaveInv
  PROVE  WovenAsSelected
<1>1. ASSUME NEW m \in Methods, Finished(m)
      PROVE  WovenBy(m) \ late = ShouldWeave(m)
  <2>1. \A id \in ShouldWeave(m) : id \in WovenBy(m) /\ id \notin late
    BY <1>1 DEF WeaveInv, Complete, Finished, ShouldWeave
  <2> QED
    BY <2>1 DEF WeaveInv, Justified
<1> QED
  BY <1>1 DEF WeaveInv, Justified, WovenAsSelected

(* Every method is changed by exactly the modules that should, in order.   *)
THEOREM WovenHolds == PipelineSpec => []WovenAsSelected
<1>1. PipelineInit => WeaveInv
  <2> SUFFICES ASSUME PipelineInit
               PROVE  WeaveInv
    OBVIOUS
  <2>1. /\ todo = Methods
        /\ \A m \in Methods : woven[m] = <<>>
        /\ \A w \in Workers : method[w] = None
    BY DEF PipelineInit
  <2> QED
    BY <2>1 DEF WeaveInv, Begun, Queues, Justified, Complete, WovenBy
<1>2. /\ IInv /\ JobsFresh /\ PipelineTypeOK /\ WeaveInv
      /\ [PipelineNext]_allVars
      => WeaveInv'
  BY BegunStep, QueuesStep, JustifiedStep, CompleteStep DEF WeaveInv
<1>3. PipelineTypeOK /\ WeaveInv => WovenAsSelected
  BY WovenFromInvariant
<1>4. PipelineSpec => [](IInv /\ JobsFresh)
  BY PipelineRefinesManager, JobsInvariance, DriverWaits, PTL
<1> QED
  BY <1>1, <1>2, <1>3, <1>4, PipelineTypeCorrect, PTL DEF PipelineSpec

=============================================================================
