------------------------ MODULE ModuleManagerProofs ------------------------
(***************************************************************************)
(* Theorems about ModuleManager, for every set of modules, codelibs, dex   *)
(* files and workers: the properties of the manager, and that it           *)
(* implements CodelibProvision.                                            *)
(***************************************************************************)
EXTENDS ModuleManager, TLAPS

(* How the flag, the dex file environment and the registrations follow the *)
(* phases of initializeModules.                                            *)
Phases ==
  /\ initFlag <=> pc # "idle"
  /\ dexEnv <=> pc \notin {"idle", "create"}
  /\ ~dexEnv => appFiles = {} /\ codelibFiles = {} /\ current = 0
  /\ late # {} => pc = "done"

(* While the loop is at a module that provides a codelib, its dex file is  *)
(* the first that defines the code class and its environment is not there. *)
AtProvider ==
  pc \in {"declare", "construct", "stuck"} =>
    /\ current \in Registered
    /\ CodelibOf(current) \in CodeLibs
    /\ codelibDex \in DexFiles
    /\ IsFirst(codelibDex, input.defines[CodelibOf(current)])
    /\ environments[current] = None
    /\ Building =>
         \A id \in ModuleIds :
           environments[id] # None => environments[id].dex # codelibDex

(* Environments exist only for modules the loop has reached, and stem from *)
(* the first dex file that defines the code class.                         *)
Origins ==
  \A id \in ModuleIds :
    environments[id] # None =>
      /\ id \in Registered \ late
      /\ id <= current
      /\ environments[id].codelib = CodelibOf(id)
      /\ IsFirst(environments[id].dex, input.defines[CodelibOf(id)])

(* A module the loop has left behind has no codelib, or an environment, or *)
(* is switched off; only a module whose class nobody defines is.           *)
Processed ==
  /\ \A id \in Registered \ late :
       /\ pc = "done" => id <= current
       /\ id <= current
            /\ ~(id = current /\ pc \in {"declare", "construct", "stuck"})
          => \/ CodelibOf(id) = None
             \/ environments[id] # None
             \/ ~enabled[modules[id]]
  /\ \A o \in ModuleObjects :
       ~enabled[o] => /\ input.codelib[o] # None
                      /\ input.defines[input.codelib[o]] = {}

(* If workers start after initializeModules has returned, what they were   *)
(* handed is what the manager still holds.                                 *)
JobsFresh ==
  \A w \in Workers :
    job[w] # None =>
      /\ pc = "done"
      /\ job[w].dexEnv
      /\ job[w].id \in Registered
      /\ job[w].env = environments[job[w].id]
      /\ enabled[modules[job[w].id]]

IInv ==
  /\ TypeOK
  /\ Phases
  /\ DexFilesPartitioned
  /\ SymbolsCoverApps
  /\ AtProvider
  /\ Origins
  /\ Processed

(* The types are preserved; publishing an environment needs AtProvider.    *)
LEMMA TypeStep ==
  ASSUME TypeOK, AtProvider, [Next]_vars
  PROVE  TypeOK'
<1> USE ConstantsAssumption DEF TypeOK, managerVars, loopVars, dexVars,
        Registered, CodelibOf, Ahead, IsFirst
<1>1. ASSUME NEW id \in ModuleIds, NEW o \in ModuleObjects,
             RegisterModule(id, o)
      PROVE  TypeOK'
  BY <1>1 DEF RegisterModule, Taken
<1>2. CASE BeginInitialize
  BY <1>2 DEF BeginInitialize, AlreadyBegun
<1>3. CASE InitializeAgain
  BY <1>3 DEF InitializeAgain, Fates
<1>4. CASE CreateDexEnvironment
  BY <1>4 DEF CreateDexEnvironment
<1>5. CASE SkipModule
  BY <1>5 DEF SkipModule
<1>6. CASE DeactivateModule
  BY <1>6 DEF DeactivateModule
<1>7. CASE FindCodelibDex
  BY <1>7 DEF FindCodelibDex
<1>8. CASE DeclareCodelib
  BY <1>8 DEF DeclareCodelib, AppFilesWithout
<1>9. CASE DeclareCodelibTwice
  BY <1>9 DEF DeclareCodelibTwice, Fates
<1>10. CASE ConstructEnvironment
  BY <1>10 DEF ConstructEnvironment, SymbolFiles, AtProvider, Environment
<1>11. CASE ConstructEnvironmentFails
  BY <1>11 DEF ConstructEnvironmentFails, Fates
<1>12. CASE FinishInitialize
  BY <1>12 DEF FinishInitialize
<1>13. ASSUME NEW w \in Workers, NEW id \in ModuleIds, NEW d \in DexFiles,
              CreatePass(w, id, d)
      PROVE  TypeOK'
  BY <1>13 DEF CreatePass, GateOpen, Job
<1>14. ASSUME NEW w \in Workers, SkipCodelibMethod(w)
      PROVE  TypeOK'
  BY <1>14 DEF SkipCodelibMethod
<1>15. ASSUME NEW w \in Workers, RunPass(w)
      PROVE  TypeOK'
  BY <1>15 DEF RunPass, InCodelibFile, Job
<1>16. ASSUME NEW w \in Workers, PassCrashes(w)
      PROVE  TypeOK'
  BY <1>16 DEF PassCrashes, Fault, Fates
<1>17. CASE UNCHANGED vars
  BY <1>17 DEF vars
<1>18. CASE ConstructorSticks
  BY <1>18 DEF ConstructorSticks
<1> QED
  BY <1>1, <1>2, <1>3, <1>4, <1>5, <1>6, <1>7, <1>8, <1>9, <1>10, <1>11, <1>12,
     <1>13, <1>14, <1>15, <1>16, <1>17, <1>18
  DEF Next, InitializeStep

(* The phases of initializeModules are entered in order.                   *)
LEMMA PhasesStep ==
  ASSUME IInv, [Next]_vars
  PROVE  Phases'
<1> USE ConstantsAssumption DEF IInv, TypeOK, Phases, managerVars, loopVars,
        dexVars, Registered, CodelibOf, Ahead, IsFirst
<1>1. ASSUME NEW id \in ModuleIds, NEW o \in ModuleObjects,
             RegisterModule(id, o)
      PROVE  Phases'
  BY <1>1 DEF RegisterModule, Taken
<1>2. CASE BeginInitialize
  BY <1>2 DEF BeginInitialize, AlreadyBegun
<1>3. CASE InitializeAgain
  BY <1>3 DEF InitializeAgain
<1>4. CASE CreateDexEnvironment
  BY <1>4 DEF CreateDexEnvironment
<1>5. CASE SkipModule
  BY <1>5 DEF SkipModule
<1>6. CASE DeactivateModule
  BY <1>6 DEF DeactivateModule
<1>7. CASE FindCodelibDex
  BY <1>7 DEF FindCodelibDex
<1>8. CASE DeclareCodelib
  BY <1>8 DEF DeclareCodelib, AppFilesWithout
<1>9. CASE DeclareCodelibTwice
  BY <1>9 DEF DeclareCodelibTwice
<1>10. CASE ConstructEnvironment
  BY <1>10 DEF ConstructEnvironment, SymbolFiles
<1>11. CASE ConstructEnvironmentFails
  BY <1>11 DEF ConstructEnvironmentFails
<1>12. CASE FinishInitialize
  BY <1>12 DEF FinishInitialize
<1>13. ASSUME NEW w \in Workers, NEW id \in ModuleIds, NEW d \in DexFiles,
              CreatePass(w, id, d)
      PROVE  Phases'
  BY <1>13 DEF CreatePass, GateOpen
<1>14. ASSUME NEW w \in Workers, SkipCodelibMethod(w)
      PROVE  Phases'
  BY <1>14 DEF SkipCodelibMethod
<1>15. ASSUME NEW w \in Workers, RunPass(w)
      PROVE  Phases'
  BY <1>15 DEF RunPass, InCodelibFile
<1>16. ASSUME NEW w \in Workers, PassCrashes(w)
      PROVE  Phases'
  BY <1>16 DEF PassCrashes
<1>17. CASE UNCHANGED vars
  BY <1>17 DEF vars
<1>18. CASE ConstructorSticks
  BY <1>18 DEF ConstructorSticks
<1> QED
  BY <1>1, <1>2, <1>3, <1>4, <1>5, <1>6, <1>7, <1>8, <1>9, <1>10, <1>11, <1>12,
     <1>13, <1>14, <1>15, <1>16, <1>17, <1>18
  DEF Next, InitializeStep

(* What ConstructEnvironment publishes is a real environment.              *)
LEMMA PublishedIsEnvironment ==
  ASSUME TypeOK, AtProvider, ConstructEnvironment
  PROVE  [dex |-> codelibDex, codelib |-> CodelibOf(current),
          symbols |-> SymbolFiles] \in Environment \ {None}
BY NoneIsNoEnvironment
DEF ConstructEnvironment, AtProvider, TypeOK, Environment, SymbolFiles

(* declareCodelib and the publication of an environment keep the partition.*)
LEMMA PartitionStep ==
  ASSUME IInv, [Next]_vars
  PROVE  DexFilesPartitioned'
<1> USE DEF IInv, managerVars, loopVars, dexVars, Building
<1>1. CASE /\ UNCHANGED <<dexVars, environments, codelibDex>>
           /\ Building' <=> Building
  BY <1>1 DEF DexFilesPartitioned
<1>2. CASE CreateDexEnvironment
  BY <1>2 DEF CreateDexEnvironment, Phases, DexFilesPartitioned
<1>3. CASE FindCodelibDex
  BY <1>3 DEF FindCodelibDex, DexFilesPartitioned
<1>4. CASE DeclareCodelib
  BY <1>4 DEF DeclareCodelib, AppFilesWithout, TypeOK, DexFilesPartitioned
<1>5. CASE ConstructEnvironment
  <2> DEFINE Built == {id \in ModuleIds : environments[id] # None}
             e == [dex |-> codelibDex, codelib |-> CodelibOf(current),
                   symbols |-> SymbolFiles]
  <2>1. /\ current \in ModuleIds
        /\ environments[current] = None
        /\ \A id \in Built : environments[id].dex # codelibDex
    BY <1>5 DEF ConstructEnvironment, AtProvider, Registered
  <2>2. e # None
    BY <1>5, PublishedIsEnvironment
  <2>3. environments' = [environments EXCEPT ![current] = e]
    BY <1>5 DEF ConstructEnvironment
  <2>4. environments'[current] = e
    BY <2>1, <2>3 DEF TypeOK
  <2>5. \A id \in ModuleIds \ {current} : environments'[id] = environments[id]
    BY <2>3 DEF TypeOK
  <2>6. Built' = Built \cup {current}
    BY <2>1, <2>2, <2>4, <2>5
  <2>7. {environments'[id].dex : id \in Built'} =
          {environments[id].dex : id \in Built} \cup {codelibDex}
    <3>1. environments'[current].dex = codelibDex
      BY <2>4
    <3>2. \A id \in Built : environments'[id].dex = environments[id].dex
      BY <2>1, <2>5
    <3> QED
      BY <2>6, <3>1, <3>2
  <2>8. codelibFiles = {environments[id].dex : id \in Built} \cup {codelibDex}
    BY <1>5 DEF ConstructEnvironment, DexFilesPartitioned
  <2>9. \A i, j \in Built' :
           environments'[i].dex = environments'[j].dex => i = j
    <3>1. \A i, j \in Built :
             environments[i].dex = environments[j].dex => i = j
      BY DEF DexFilesPartitioned
    <3>2. environments'[current].dex = codelibDex
      BY <2>4
    <3> QED
      BY <2>1, <2>5, <2>6, <3>1, <3>2
  <2> QED
    BY <1>5, <2>7, <2>8, <2>9 DEF ConstructEnvironment, DexFilesPartitioned
<1> QED
  <2>1. ASSUME NEW id \in ModuleIds, NEW o \in ModuleObjects,
               RegisterModule(id, o)
        PROVE  DexFilesPartitioned'
    BY <1>1, <2>1 DEF RegisterModule
  <2>2. CASE BeginInitialize \/ InitializeAgain
    BY <1>1, <2>2 DEF BeginInitialize, InitializeAgain, AlreadyBegun, Phases
  <2>3. CASE SkipModule \/ DeactivateModule \/ FinishInitialize
    BY <1>1, <2>3 DEF SkipModule, DeactivateModule, FinishInitialize
  <2>4. CASE DeclareCodelibTwice \/ ConstructEnvironmentFails
    BY <1>1, <2>4 DEF DeclareCodelibTwice, ConstructEnvironmentFails
  <2>5. ASSUME NEW w \in Workers, NEW id \in ModuleIds, NEW d \in DexFiles,
               CreatePass(w, id, d)
        PROVE  DexFilesPartitioned'
    BY <1>1, <2>5 DEF CreatePass
  <2>6. ASSUME NEW w \in Workers,
               SkipCodelibMethod(w) \/ RunPass(w) \/ PassCrashes(w)
        PROVE  DexFilesPartitioned'
    BY <1>1, <2>6 DEF SkipCodelibMethod, RunPass, PassCrashes
  <2>7. CASE UNCHANGED vars
    BY <1>1, <2>7 DEF vars
  <2>8. CASE ConstructorSticks
    BY <1>1, <2>8 DEF ConstructorSticks
  <2> QED
    BY <1>2, <1>3, <1>4, <1>5, <2>1, <2>2, <2>3, <2>4, <2>5, <2>6, <2>7, <2>8
    DEF Next, InitializeStep

(* The list of app files only shrinks once an environment exists.          *)
LEMMA SymbolsStep ==
  ASSUME IInv, [Next]_vars
  PROVE  SymbolsCoverApps'
<1> USE ConstantsAssumption DEF IInv, TypeOK, Phases, AtProvider, Origins,
        SymbolsCoverApps, managerVars, loopVars, dexVars,
        Registered, CodelibOf, Ahead, IsFirst
<1>1. ASSUME NEW id \in ModuleIds, NEW o \in ModuleObjects,
             RegisterModule(id, o)
      PROVE  SymbolsCoverApps'
  BY <1>1 DEF RegisterModule, Taken
<1>2. CASE BeginInitialize
  BY <1>2 DEF BeginInitialize, AlreadyBegun
<1>3. CASE InitializeAgain
  BY <1>3 DEF InitializeAgain
<1>4. CASE CreateDexEnvironment
  BY <1>4 DEF CreateDexEnvironment
<1>5. CASE SkipModule
  BY <1>5 DEF SkipModule
<1>6. CASE DeactivateModule
  BY <1>6 DEF DeactivateModule
<1>7. CASE FindCodelibDex
  BY <1>7 DEF FindCodelibDex
<1>8. CASE DeclareCodelib
  BY <1>8 DEF DeclareCodelib, AppFilesWithout
<1>9. CASE DeclareCodelibTwice
  BY <1>9 DEF DeclareCodelibTwice
<1>10. CASE ConstructEnvironment
  BY <1>10 DEF ConstructEnvironment, SymbolFiles, Environment
<1>11. CASE ConstructEnvironmentFails
  BY <1>11 DEF ConstructEnvironmentFails
<1>12. CASE FinishInitialize
  BY <1>12 DEF FinishInitialize
<1>13. ASSUME NEW w \in Workers, NEW id \in ModuleIds, NEW d \in DexFiles,
              CreatePass(w, id, d)
      PROVE  SymbolsCoverApps'
  BY <1>13 DEF CreatePass, GateOpen
<1>14. ASSUME NEW w \in Workers, SkipCodelibMethod(w)
      PROVE  SymbolsCoverApps'
  BY <1>14 DEF SkipCodelibMethod
<1>15. ASSUME NEW w \in Workers, RunPass(w)
      PROVE  SymbolsCoverApps'
  BY <1>15 DEF RunPass, InCodelibFile
<1>16. ASSUME NEW w \in Workers, PassCrashes(w)
      PROVE  SymbolsCoverApps'
  BY <1>16 DEF PassCrashes
<1>17. CASE UNCHANGED vars
  BY <1>17 DEF vars
<1>18. CASE ConstructorSticks
  BY <1>18 DEF ConstructorSticks
<1> QED
  BY <1>1, <1>2, <1>3, <1>4, <1>5, <1>6, <1>7, <1>8, <1>9, <1>10, <1>11, <1>12,
     <1>13, <1>14, <1>15, <1>16, <1>17, <1>18
  DEF Next, InitializeStep

(* FindCodelibDex reaches a module that no earlier round has served.       *)
LEMMA AtProviderStep ==
  ASSUME IInv, [Next]_vars
  PROVE  AtProvider'
<1> USE ConstantsAssumption DEF IInv, TypeOK, Phases, AtProvider, Origins,
        DexFilesPartitioned, Building, InputSpace, managerVars, loopVars,
        dexVars, Registered, CodelibOf, Ahead, IsFirst
<1>1. ASSUME NEW id \in ModuleIds, NEW o \in ModuleObjects,
             RegisterModule(id, o)
      PROVE  AtProvider'
  BY <1>1 DEF RegisterModule, Taken
<1>2. CASE BeginInitialize
  BY <1>2 DEF BeginInitialize, AlreadyBegun
<1>3. CASE InitializeAgain
  BY <1>3 DEF InitializeAgain
<1>4. CASE CreateDexEnvironment
  BY <1>4 DEF CreateDexEnvironment
<1>5. CASE SkipModule
  BY <1>5 DEF SkipModule
<1>6. CASE DeactivateModule
  BY <1>6 DEF DeactivateModule
<1>7. CASE FindCodelibDex
  BY <1>7 DEF FindCodelibDex
<1>8. CASE DeclareCodelib
  BY <1>8 DEF DeclareCodelib, AppFilesWithout
<1>9. CASE DeclareCodelibTwice
  BY <1>9 DEF DeclareCodelibTwice
<1>10. CASE ConstructEnvironment
  BY <1>10 DEF ConstructEnvironment, SymbolFiles
<1>11. CASE ConstructEnvironmentFails
  BY <1>11 DEF ConstructEnvironmentFails
<1>12. CASE FinishInitialize
  BY <1>12 DEF FinishInitialize
<1>13. ASSUME NEW w \in Workers, NEW id \in ModuleIds, NEW d \in DexFiles,
              CreatePass(w, id, d)
      PROVE  AtProvider'
  BY <1>13 DEF CreatePass, GateOpen
<1>14. ASSUME NEW w \in Workers, SkipCodelibMethod(w)
      PROVE  AtProvider'
  BY <1>14 DEF SkipCodelibMethod
<1>15. ASSUME NEW w \in Workers, RunPass(w)
      PROVE  AtProvider'
  BY <1>15 DEF RunPass, InCodelibFile
<1>16. ASSUME NEW w \in Workers, PassCrashes(w)
      PROVE  AtProvider'
  BY <1>16 DEF PassCrashes
<1>17. CASE UNCHANGED vars
  BY <1>17 DEF vars
<1>18. CASE ConstructorSticks
  BY <1>18 DEF ConstructorSticks
<1> QED
  BY <1>1, <1>2, <1>3, <1>4, <1>5, <1>6, <1>7, <1>8, <1>9, <1>10, <1>11, <1>12,
     <1>13, <1>14, <1>15, <1>16, <1>17, <1>18
  DEF Next, InitializeStep

(* Registration never rebinds an id that has an environment.               *)
LEMMA OriginsStep ==
  ASSUME IInv, [Next]_vars
  PROVE  Origins'
<1> USE ConstantsAssumption DEF IInv, TypeOK, Phases, AtProvider, Origins,
        managerVars, loopVars, dexVars, Registered, CodelibOf
<1>0. ASSUME UNCHANGED <<input, modules, environments, late>>,
             NEW i \in Ahead, current' = i
      PROVE  Origins'
  <2>1. /\ i \in Nat
        /\ current \in Nat
        /\ current < i
        /\ \A j \in ModuleIds : j \in Nat
    BY <1>0 DEF Ahead
  <2>2. \A j \in ModuleIds : j <= current => j <= current'
    BY <1>0, <2>1
  <2> QED
    BY <1>0, <2>2
<1>1. ASSUME NEW id \in ModuleIds, NEW o \in ModuleObjects,
             RegisterModule(id, o)
      PROVE  Origins'
  BY <1>1 DEF RegisterModule, Taken
<1>2. CASE BeginInitialize
  BY <1>2 DEF BeginInitialize, AlreadyBegun
<1>3. CASE InitializeAgain
  BY <1>3 DEF InitializeAgain
<1>4. CASE CreateDexEnvironment
  BY <1>4 DEF CreateDexEnvironment
<1>5. CASE SkipModule
  BY <1>0, <1>5 DEF SkipModule
<1>6. CASE DeactivateModule
  BY <1>0, <1>6 DEF DeactivateModule
<1>7. CASE FindCodelibDex
  BY <1>0, <1>7 DEF FindCodelibDex
<1>8. CASE DeclareCodelib
  BY <1>8 DEF DeclareCodelib, AppFilesWithout
<1>9. CASE DeclareCodelibTwice
  BY <1>9 DEF DeclareCodelibTwice
<1>10. CASE ConstructEnvironment
  BY <1>10 DEF ConstructEnvironment, SymbolFiles, Environment, Building
<1>11. CASE ConstructEnvironmentFails
  BY <1>11 DEF ConstructEnvironmentFails
<1>12. CASE FinishInitialize
  BY <1>12 DEF FinishInitialize
<1>13. ASSUME NEW w \in Workers, NEW id \in ModuleIds, NEW d \in DexFiles,
              CreatePass(w, id, d)
      PROVE  Origins'
  BY <1>13 DEF CreatePass, GateOpen
<1>14. ASSUME NEW w \in Workers, SkipCodelibMethod(w)
      PROVE  Origins'
  BY <1>14 DEF SkipCodelibMethod
<1>15. ASSUME NEW w \in Workers, RunPass(w)
      PROVE  Origins'
  BY <1>15 DEF RunPass, InCodelibFile
<1>16. ASSUME NEW w \in Workers, PassCrashes(w)
      PROVE  Origins'
  BY <1>16 DEF PassCrashes
<1>17. CASE UNCHANGED vars
  BY <1>17 DEF vars
<1>18. CASE ConstructorSticks
  BY <1>18 DEF ConstructorSticks
<1> QED
  BY <1>1, <1>2, <1>3, <1>4, <1>5, <1>6, <1>7, <1>8, <1>9, <1>10, <1>11, <1>12,
     <1>13, <1>14, <1>15, <1>16, <1>17, <1>18
  DEF Next, InitializeStep

(* The loop skips no module between two rounds.                            *)
LEMMA ProcessedStep ==
  ASSUME IInv, [Next]_vars
  PROVE  Processed'
<1> USE ConstantsAssumption DEF IInv, TypeOK, Phases, AtProvider, Processed,
        InputSpace, managerVars, loopVars, dexVars, Registered,
        CodelibOf, Ahead, IsFirst
<1>1. ASSUME NEW id \in ModuleIds, NEW o \in ModuleObjects,
             RegisterModule(id, o)
      PROVE  Processed'
  BY <1>1 DEF RegisterModule, Taken
<1>2. CASE BeginInitialize
  BY <1>2 DEF BeginInitialize, AlreadyBegun
<1>3. CASE InitializeAgain
  BY <1>3 DEF InitializeAgain
<1>4. CASE CreateDexEnvironment
  BY <1>4 DEF CreateDexEnvironment
<1>5. CASE SkipModule
  BY <1>5 DEF SkipModule
<1>6. CASE DeactivateModule
  BY <1>6 DEF DeactivateModule
<1>7. CASE FindCodelibDex
  BY <1>7 DEF FindCodelibDex
<1>8. CASE DeclareCodelib
  BY <1>8 DEF DeclareCodelib, AppFilesWithout
<1>9. CASE DeclareCodelibTwice
  BY <1>9 DEF DeclareCodelibTwice
<1>10. CASE ConstructEnvironment
  <2> DEFINE e == [dex |-> codelibDex, codelib |-> CodelibOf(current),
                   symbols |-> SymbolFiles]
  <2>1. /\ current \in ModuleIds
        /\ environments' = [environments EXCEPT ![current] = e]
        /\ UNCHANGED <<input, modules, enabled, current, late>>
        /\ pc = "construct" /\ pc' = "scan"
    BY <1>10 DEF ConstructEnvironment
  <2>2. e # None
    BY <1>10, PublishedIsEnvironment
  <2>3. /\ environments'[current] # None
        /\ \A id \in ModuleIds \ {current} :
             environments'[id] = environments[id]
    BY <2>1, <2>2
  <2> HIDE DEF e
  <2> QED
    BY <2>1, <2>3
<1>11. CASE ConstructEnvironmentFails
  BY <1>11 DEF ConstructEnvironmentFails
<1>12. CASE FinishInitialize
  BY <1>12 DEF FinishInitialize
<1>13. ASSUME NEW w \in Workers, NEW id \in ModuleIds, NEW d \in DexFiles,
              CreatePass(w, id, d)
      PROVE  Processed'
  BY <1>13 DEF CreatePass, GateOpen
<1>14. ASSUME NEW w \in Workers, SkipCodelibMethod(w)
      PROVE  Processed'
  BY <1>14 DEF SkipCodelibMethod
<1>15. ASSUME NEW w \in Workers, RunPass(w)
      PROVE  Processed'
  BY <1>15 DEF RunPass, InCodelibFile
<1>16. ASSUME NEW w \in Workers, PassCrashes(w)
      PROVE  Processed'
  BY <1>16 DEF PassCrashes
<1>17. CASE UNCHANGED vars
  BY <1>17 DEF vars
<1>18. CASE ConstructorSticks
  BY <1>18 DEF ConstructorSticks
<1> QED
  BY <1>1, <1>2, <1>3, <1>4, <1>5, <1>6, <1>7, <1>8, <1>9, <1>10, <1>11, <1>12,
     <1>13, <1>14, <1>15, <1>16, <1>17, <1>18
  DEF Next, InitializeStep

(* IInv is inductive: it holds initially and no step leaves it.            *)
THEOREM Invariance == Spec => []IInv
<1>1. Init => IInv
  <2> SUFFICES ASSUME Init PROVE IInv
    OBVIOUS
  <2>1. TypeOK
    BY ConstantsAssumption DEF Init, TypeOK, Fates
  <2>2. Phases /\ AtProvider /\ Origins
    BY DEF Init, Phases, AtProvider, Origins
  <2>3. DexFilesPartitioned /\ SymbolsCoverApps
    BY DEF Init, DexFilesPartitioned, Building, SymbolsCoverApps
  <2>4. Processed
    BY DEF Init, Processed, Registered
  <2> QED
    BY <2>1, <2>2, <2>3, <2>4 DEF IInv
<1>2. IInv /\ [Next]_vars => IInv'
  BY TypeStep, PhasesStep, PartitionStep, SymbolsStep, AtProviderStep,
     OriginsStep, ProcessedStep DEF IInv
<1> QED
  BY <1>1, <1>2, PTL DEF Spec

(* Every published environment, every job and the bookkeeping of dex files *)
(* keep their types through every step of the registry and its clients.    *)
THEOREM TypeCorrect == Spec => []TypeOK
<1>1. IInv => TypeOK
  BY DEF IInv
<1> QED
  BY <1>1, Invariance, PTL

(* declareCodelib never loses a dex file, never lists one twice and never  *)
(* lets two modules share one.                                             *)
THEOREM PartitionHolds == Spec => []DexFilesPartitioned
<1>1. IInv => DexFilesPartitioned
  BY DEF IInv
<1> QED
  BY <1>1, Invariance, PTL

(* getCodelibSymbols returns null for no dex file that is an app file.     *)
THEOREM SymbolsHold == Spec => []SymbolsCoverApps
<1>1. IInv => SymbolsCoverApps
  BY DEF IInv
<1> QED
  BY <1>1, Invariance, PTL

(* registerModule never separates an environment from its codelib.         *)
THEOREM OwnershipHolds == Spec => []EnvironmentsBelongToModules
<1>1. IInv => EnvironmentsBelongToModules
  BY DEF IInv, Origins, EnvironmentsBelongToModules
<1> QED
  BY <1>1, Invariance, PTL

(* A deactivated module has no environment, an active one has.             *)
LEMMA ReadyFromInvariant == IInv => EnabledMeansReady
<1> SUFFICES ASSUME IInv, pc = "done", NEW id \in Registered \ late,
                    CodelibOf(id) # None
             PROVE  enabled[modules[id]] <=> environments[id] # None
  BY DEF EnabledMeansReady
<1>1. /\ id \in ModuleIds
      /\ modules[id] \in ModuleObjects
      /\ id <= current
  BY DEF IInv, TypeOK, Registered, Processed
<1>2. environments[id] # None \/ ~enabled[modules[id]]
  BY <1>1 DEF IInv, Processed
<1>3. ~enabled[modules[id]] => input.defines[CodelibOf(id)] = {}
  BY <1>1 DEF IInv, Processed, CodelibOf
<1>4. environments[id] # None => input.defines[CodelibOf(id)] # {}
  BY <1>1 DEF IInv, Origins, IsFirst
<1> QED
  BY <1>2, <1>3, <1>4

(* After initializeModules a module with a codelib is enabled exactly when *)
(* its environment is there.                                               *)
THEOREM ReadyHolds == Spec => []EnabledMeansReady
BY ReadyFromInvariant, Invariance, PTL

(* What PublishedIsStable allows a step to do.                             *)
PublishedStep ==
  /\ \A id \in ModuleIds :
       /\ environments[id] # None => environments'[id] = environments[id]
       /\ modules[id] # None => modules'[id] = modules[id]
  /\ dexEnv => /\ dexEnv'
               /\ appFiles' \subseteq appFiles
               /\ codelibFiles \subseteq codelibFiles'
  /\ pc = "done" =>
       /\ UNCHANGED <<enabled, environments, loopVars, dexVars>>
       /\ Registered' \ Registered \subseteq late'

(* Nothing that has been published is taken back by a step.                *)
LEMMA StableStep ==
  ASSUME IInv, [Next]_vars
  PROVE  PublishedStep
<1> USE DEF PublishedStep, IInv, TypeOK, Phases, AtProvider, managerVars,
        loopVars, dexVars, Registered, CodelibOf
<1>1. ASSUME NEW id \in ModuleIds, NEW o \in ModuleObjects,
             RegisterModule(id, o)
      PROVE  PublishedStep
  BY <1>1 DEF RegisterModule, Taken
<1>2. CASE BeginInitialize
  BY <1>2 DEF BeginInitialize, AlreadyBegun
<1>3. CASE InitializeAgain
  BY <1>3 DEF InitializeAgain
<1>4. CASE CreateDexEnvironment
  BY <1>4 DEF CreateDexEnvironment
<1>5. CASE SkipModule
  BY <1>5 DEF SkipModule
<1>6. CASE DeactivateModule
  BY <1>6 DEF DeactivateModule
<1>7. CASE FindCodelibDex
  BY <1>7 DEF FindCodelibDex
<1>8. CASE DeclareCodelib
  BY <1>8 DEF DeclareCodelib, AppFilesWithout
<1>9. CASE DeclareCodelibTwice
  BY <1>9 DEF DeclareCodelibTwice
<1>10. CASE ConstructEnvironment
  BY <1>10 DEF ConstructEnvironment, SymbolFiles
<1>11. CASE ConstructEnvironmentFails
  BY <1>11 DEF ConstructEnvironmentFails
<1>12. CASE FinishInitialize
  BY <1>12 DEF FinishInitialize
<1>13. ASSUME NEW w \in Workers, NEW id \in ModuleIds, NEW d \in DexFiles,
              CreatePass(w, id, d)
      PROVE  PublishedStep
  BY <1>13 DEF CreatePass, GateOpen
<1>14. ASSUME NEW w \in Workers, SkipCodelibMethod(w)
      PROVE  PublishedStep
  BY <1>14 DEF SkipCodelibMethod
<1>15. ASSUME NEW w \in Workers, RunPass(w)
      PROVE  PublishedStep
  BY <1>15 DEF RunPass, InCodelibFile
<1>16. ASSUME NEW w \in Workers, PassCrashes(w)
      PROVE  PublishedStep
  BY <1>16 DEF PassCrashes
<1>17. CASE UNCHANGED vars
  BY <1>17 DEF vars
<1>18. CASE ConstructorSticks
  BY <1>18 DEF ConstructorSticks
<1> QED
  BY <1>1, <1>2, <1>3, <1>4, <1>5, <1>6, <1>7, <1>8, <1>9, <1>10, <1>11, <1>12,
     <1>13, <1>14, <1>15, <1>16, <1>17, <1>18
  DEF Next, InitializeStep

(* Environments are never replaced, ids never rebound, codelib files never *)
(* become app files again, and what initializeModules leaves behind (the   *)
(* environments, the switches, the lists of dex files) never changes; the  *)
(* registry may still grow, by modules that count as late.                 *)
THEOREM StabilityHolds == Spec => PublishedIsStable
<1>1. IInv /\ [Next]_vars => [PublishedStep]_vars
  BY StableStep
<1> QED
  BY <1>1, Invariance, PTL DEF Spec, PublishedIsStable, PublishedStep

----------------------------------------------------------------------------
(* The outcome of initializeModules: what the loop finds out step by step, *)
(* in lists that shrink and grow, is what InitializationVerdict says of    *)
(* the providers, their files and their order.                             *)

FirstOf(S) == CHOOSE d \in DexFiles : IsFirst(d, S)

(* The first dex file that defines the code class is the only first one.   *)
LEMMA OwnDexIs ==
  ASSUME NEW id, NEW d \in DexFiles,
         IsFirst(d, input.defines[CodelibOf(id)])
  PROVE  OwnDex(id) = d
<1>1. PICK e \in DexFiles : /\ IsFirst(e, input.defines[CodelibOf(id)])
                            /\ e = OwnDex(id)
  BY DEF OwnDex
<1>2. d <= e /\ e <= d /\ d \in Nat /\ e \in Nat
  BY <1>1, ConstantsAssumption DEF IsFirst
<1> QED  BY <1>1, <1>2

(* What the verdict asks of a module whose environment has been built.      *)
Fits(id) == ~Clashes(id) /\ Sees(id) /\ Owns(id)

FateVerdict ==
  /\ fate = "codelib_dex_shared" => Clashes(current)
  /\ fate = "symbol_missing" => ~Clashes(current) /\ ~Sees(current)
  /\ fate = "own_symbol_missing" =>
       ~Clashes(current) /\ Sees(current) /\ ~Owns(current)

BuiltVerdict ==
  \A id \in Providers : environments[id] # None => Fits(id)

----------------------------------------------------------------------------
(* An environment stands for a provider that the loop has reached, and its *)
(* dex file is the one the provider owns.                                  *)
LEMMA BuiltOwns ==
  ASSUME IInv, NEW id \in ModuleIds, environments[id] # None
  PROVE  /\ id \in Providers
         /\ id <= current
         /\ environments[id].dex = OwnDex(id)
<1>1. /\ environments[id] \in Environment
      /\ environments[id].dex \in DexFiles
      /\ environments[id].codelib \in CodeLibs
  BY DEF IInv, TypeOK, Environment
<1>2. /\ id \in Registered \ late
      /\ id <= current
      /\ environments[id].codelib = CodelibOf(id)
      /\ IsFirst(environments[id].dex, input.defines[CodelibOf(id)])
  BY DEF IInv, Origins
<1>3. CodelibOf(id) # None /\ input.defines[CodelibOf(id)] # {}
  BY <1>1, <1>2, ConstantsAssumption DEF IsFirst
<1>4. environments[id].dex = OwnDex(id)
  BY <1>1, <1>2, OwnDexIs
<1> QED  BY <1>2, <1>3, <1>4 DEF Providers

(* A provider the loop is through with has its environment.                *)
LEMMA PassedIsBuilt ==
  ASSUME IInv, NEW id \in Providers, id <= current,
         ~(id = current /\ pc \in {"declare", "construct", "stuck"})
  PROVE  environments[id] # None
<1>1. /\ id \in Registered \ late
      /\ CodelibOf(id) # None
      /\ input.defines[CodelibOf(id)] # {}
      /\ modules[id] \in ModuleObjects
  BY DEF Providers, Registered, IInv, TypeOK
<1>2. enabled[modules[id]]
  BY <1>1 DEF IInv, Processed, CodelibOf
<1> QED  BY <1>1, <1>2 DEF IInv, Processed

(* The module the loop is declaring or constructing for.                   *)
LEMMA CurrentProvides ==
  ASSUME IInv, pc \in {"declare", "construct", "stuck"}
  PROVE  /\ current \in Providers
         /\ codelibDex = OwnDex(current)
<1>1. /\ current \in Registered
      /\ CodelibOf(current) \in CodeLibs
      /\ codelibDex \in DexFiles
      /\ IsFirst(codelibDex, input.defines[CodelibOf(current)])
  BY DEF IInv, AtProvider
<1>2. late = {}
  BY DEF IInv, Phases
<1>3. CodelibOf(current) # None /\ input.defines[CodelibOf(current)] # {}
  BY <1>1, ConstantsAssumption DEF IsFirst
<1>4. codelibDex = OwnDex(current)
  BY <1>1, OwnDexIs
<1> QED  BY <1>1, <1>2, <1>3, <1>4 DEF Providers

(* declareCodelib fails for a file that an earlier provider owns.          *)
LEMMA SharedMeansClash ==
  ASSUME IInv, pc = "declare", codelibDex \notin appFiles
  PROVE  Clashes(current)
<1>1. current \in Providers /\ codelibDex = OwnDex(current)
  BY CurrentProvides
<1>2. codelibDex \in codelibFiles
  BY DEF IInv, AtProvider, Phases, DexFilesPartitioned
<1>3. PICK i \in ModuleIds : /\ environments[i] # None
                             /\ environments[i].dex = codelibDex
  BY <1>2 DEF IInv, DexFilesPartitioned, Building
<1>4. i \in Providers /\ i <= current /\ OwnDex(i) = OwnDex(current)
  BY <1>1, <1>3, BuiltOwns
<1>5. i # current
  BY <1>3 DEF IInv, AtProvider
<1>6. i \in Nat /\ current \in Nat
  BY <1>1, ConstantsAssumption DEF Providers, Registered
<1>7. i < current
  BY <1>4, <1>5, <1>6
<1> QED  BY <1>4, <1>7 DEF Clashes

(* At the constructor the lists are what the order of the ids says: no     *)
(* earlier provider owns the file, the app files are those that no         *)
(* provider so far has claimed.                                            *)
LEMMA ConstructSees ==
  ASSUME IInv, pc = "construct"
  PROVE  /\ ~Clashes(current)
         /\ SymbolFiles \subseteq input.mentions[CodelibOf(current)]
              <=> Sees(current)
         /\ codelibDex \in input.owns[CodelibOf(current)] <=> Owns(current)
<1>1. /\ current \in Providers
      /\ current \in Nat
      /\ codelibDex = OwnDex(current)
  BY CurrentProvides, ConstantsAssumption DEF Providers, Registered
<1>2. ASSUME NEW i \in Providers, i <= current, i # current
      PROVE  /\ i \in ModuleIds
             /\ environments[i] # None
             /\ environments[i].dex = OwnDex(i)
    <2>1. i \in ModuleIds
      BY DEF Providers, Registered
    <2>2. environments[i] # None
      BY <1>2, PassedIsBuilt
    <2> QED  BY <2>1, <2>2, BuiltOwns
<1>3. ~Clashes(current)
  <2> SUFFICES ASSUME NEW i \in Providers, i < current
               PROVE  OwnDex(i) # OwnDex(current)
    BY DEF Clashes
  <2>1. i \in Nat /\ i <= current /\ i # current
    BY <1>1, ConstantsAssumption DEF Providers, Registered
  <2>2. environments[i].dex = OwnDex(i) /\ environments[i].dex # codelibDex
    BY <1>2, <2>1 DEF IInv, AtProvider, Building
  <2> QED  BY <1>1, <2>2
<1>4. codelibFiles = Claimed(current)
  <2>1. ASSUME NEW d \in codelibFiles PROVE d \in Claimed(current)
    <3>1. \/ d = codelibDex
          \/ \E i \in ModuleIds : environments[i] # None
                                  /\ environments[i].dex = d
      BY DEF IInv, DexFilesPartitioned
    <3>2. CASE d = codelibDex
      BY <1>1, <3>2 DEF Claimed
    <3>3. ASSUME NEW i \in ModuleIds, environments[i] # None,
                 environments[i].dex = d
          PROVE  d \in Claimed(current)
      BY <3>3, BuiltOwns DEF Claimed
    <3> QED  BY <3>1, <3>2, <3>3
  <2>2. ASSUME NEW d \in Claimed(current) PROVE d \in codelibFiles
    <3>1. PICK i \in Providers : i <= current /\ d = OwnDex(i)
      BY DEF Claimed
    <3>2. CASE i = current
      BY <1>1, <3>1, <3>2 DEF IInv, DexFilesPartitioned, Building
    <3>3. CASE i # current
      BY <1>2, <3>1, <3>3 DEF IInv, DexFilesPartitioned
    <3> QED  BY <3>2, <3>3
  <2> QED  BY <2>1, <2>2
<1>5. appFiles = DexFiles \ codelibFiles
  BY DEF IInv, TypeOK, Phases, DexFilesPartitioned
<1> QED  BY <1>1, <1>3, <1>4, <1>5 DEF SymbolFiles, Sees, Owns

----------------------------------------------------------------------------
(* Once initialisation has begun, nobody becomes a provider or stops being *)
(* one, and the verdict on an id does not change.                          *)
LEMMA VerdictSettled ==
  ASSUME IInv, [Next]_vars, initFlag
  PROVE  /\ Providers' = Providers
         /\ \A id \in Providers :
              /\ Clashes(id)' <=> Clashes(id)
              /\ Sees(id)' <=> Sees(id)
              /\ Owns(id)' <=> Owns(id)
<1>1. CASE UNCHANGED <<input, modules, late>>
  BY <1>1 DEF Providers, Registered, CodelibOf, Clashes, Sees, Owns, Claimed,
              OwnDex, IsFirst
<1>2. ASSUME NEW id \in ModuleIds, NEW o \in ModuleObjects,
             RegisterModule(id, o)
      PROVE  /\ input' = input
             /\ Registered' \ late' = Registered \ late
             /\ \A i \in Registered : CodelibOf(i)' = CodelibOf(i)
  BY <1>2, ConstantsAssumption
  DEF RegisterModule, Taken, Registered, CodelibOf, IInv, TypeOK
<1>3. UNCHANGED <<input, modules, late>>
        \/ \E id \in ModuleIds, o \in ModuleObjects : RegisterModule(id, o)
  BY DEF Next, InitializeStep, BeginInitialize, InitializeAgain,
         CreateDexEnvironment, SkipModule, DeactivateModule, FindCodelibDex,
         DeclareCodelib, DeclareCodelibTwice, ConstructEnvironment,
         ConstructEnvironmentFails, ConstructorSticks, FinishInitialize,
         CreatePass,
         SkipCodelibMethod, RunPass, PassCrashes, vars, managerVars
<1>4. ASSUME input' = input, Registered' \ late' = Registered \ late,
             \A i \in Registered : CodelibOf(i)' = CodelibOf(i)
      PROVE  /\ Providers' = Providers
             /\ \A id \in Providers :
                  /\ Clashes(id)' <=> Clashes(id)
                  /\ Sees(id)' <=> Sees(id)
                  /\ Owns(id)' <=> Owns(id)
  <2>1. Providers' = Providers
    BY <1>4 DEF Providers
  <2>2. \A i \in Providers : CodelibOf(i)' = CodelibOf(i)
    BY <1>4 DEF Providers
  <2>3. ASSUME NEW i \in Providers PROVE OwnDex(i)' = OwnDex(i)
    <3>1. /\ OwnDex(i) = FirstOf(input.defines[CodelibOf(i)])
          /\ OwnDex(i)' = FirstOf(input'.defines[CodelibOf(i)'])
      BY DEF OwnDex, FirstOf
    <3> QED  BY <1>4, <2>2, <3>1
  <2>4. \A id \in Providers : Claimed(id)' = Claimed(id)
    BY <2>1, <2>3 DEF Claimed
  <2>5. \A id \in Providers : Clashes(id)' <=> Clashes(id)
    BY <2>1, <2>3 DEF Clashes
  <2>6. \A id \in Providers : Sees(id)' <=> Sees(id)
    BY <1>4, <2>2, <2>4 DEF Sees
  <2>7. \A id \in Providers : Owns(id)' <=> Owns(id)
    BY <1>4, <2>2, <2>3 DEF Owns
  <2> QED  BY <2>1, <2>5, <2>6, <2>7
<1> QED  BY <1>1, <1>2, <1>3, <1>4

(* An environment is built only for a module that fits.                    *)
LEMMA BuiltVerdictStep ==
  ASSUME IInv, BuiltVerdict, [Next]_vars
  PROVE  BuiltVerdict'
<1>1. CASE ~initFlag
  <2>1. \A id \in ModuleIds : environments[id] = None
    BY <1>1, ConstantsAssumption DEF IInv, Phases, Origins
  <2>2. environments' = environments
    BY <1>1 DEF IInv, Phases, Next, InitializeStep, BeginInitialize,
         InitializeAgain, AlreadyBegun, RegisterModule, CreateDexEnvironment,
         SkipModule, DeactivateModule, FindCodelibDex, DeclareCodelib,
         DeclareCodelibTwice, ConstructEnvironment, ConstructEnvironmentFails,
         ConstructorSticks, FinishInitialize, CreatePass, SkipCodelibMethod,
         RunPass, PassCrashes, vars, managerVars
  <2> QED  BY <2>1, <2>2 DEF BuiltVerdict, Providers, Registered
<1>2. CASE initFlag /\ environments' = environments
  BY <1>2, VerdictSettled DEF BuiltVerdict, Fits
<1>3. CASE initFlag /\ ConstructEnvironment
  <2>1. Fits(current) /\ current \in Providers
    BY <1>3, ConstructSees, CurrentProvides DEF ConstructEnvironment, Fits
  <2>2. \A id \in Providers : id # current =>
          environments'[id] = environments[id]
    BY <1>3 DEF ConstructEnvironment, Providers, Registered, IInv, TypeOK
  <2> QED  BY <1>3, <2>1, <2>2, VerdictSettled DEF BuiltVerdict, Fits
<1>4. environments' = environments \/ ConstructEnvironment
  BY DEF Next, InitializeStep, BeginInitialize, InitializeAgain,
         RegisterModule, CreateDexEnvironment, SkipModule, DeactivateModule,
         FindCodelibDex, DeclareCodelib, DeclareCodelibTwice,
         ConstructEnvironmentFails, ConstructorSticks, FinishInitialize,
         CreatePass, SkipCodelibMethod, RunPass, PassCrashes, vars,
         managerVars
<1> QED  BY <1>1, <1>2, <1>3, <1>4

(* Each way of giving up is the fault of the module the loop is at.        *)
LEMMA FateVerdictStep ==
  ASSUME IInv, FateVerdict, [Next]_vars
  PROVE  FateVerdict'
<1>1. CASE fate' \notin {"codelib_dex_shared", "symbol_missing",
                         "own_symbol_missing"}
  BY <1>1 DEF FateVerdict
<1>2. CASE UNCHANGED vars
  <2>1. UNCHANGED <<input, modules, late, current, fate>>
    BY <1>2 DEF vars, managerVars, loopVars
  <2>2. \A id : /\ Clashes(id)' <=> Clashes(id)
                /\ Sees(id)' <=> Sees(id)
                /\ Owns(id)' <=> Owns(id)
    BY <2>1 DEF Clashes, Sees, Owns, Claimed, Providers, Registered,
                CodelibOf, OwnDex, IsFirst
  <2> QED  BY <2>1, <2>2 DEF FateVerdict
<1>3. CASE DeclareCodelibTwice
  <2>1. /\ initFlag /\ current' = current /\ fate' = "codelib_dex_shared"
        /\ Clashes(current) /\ current \in Providers
    BY <1>3, SharedMeansClash, CurrentProvides
    DEF DeclareCodelibTwice, loopVars, IInv, Phases
  <2>2. Clashes(current)'
    BY <1>3, <2>1, VerdictSettled DEF Clashes, DeclareCodelibTwice
  <2> QED  BY <2>1, <2>2 DEF FateVerdict
<1>4. CASE ConstructEnvironmentFails
  <2>1. /\ initFlag /\ current' = current /\ current \in Providers
        /\ ~Clashes(current)
        /\ \/ fate' = "symbol_missing" /\ ~Sees(current)
           \/ fate' = "own_symbol_missing" /\ Sees(current) /\ ~Owns(current)
    BY <1>4, ConstructSees, CurrentProvides
    DEF ConstructEnvironmentFails, loopVars, IInv, Phases
  <2> QED  BY <2>1, VerdictSettled DEF FateVerdict
<1>5. UNCHANGED vars \/ DeclareCodelibTwice \/ ConstructEnvironmentFails
        \/ fate' \notin {"codelib_dex_shared", "symbol_missing",
                         "own_symbol_missing"}
  BY DEF Next, InitializeStep, BeginInitialize, InitializeAgain,
         RegisterModule, CreateDexEnvironment, SkipModule, DeactivateModule,
         FindCodelibDex, DeclareCodelib, ConstructEnvironment,
         ConstructorSticks, FinishInitialize, CreatePass, SkipCodelibMethod,
         RunPass, PassCrashes, Fault
<1> QED  BY <1>1, <1>2, <1>3, <1>4, <1>5

(* The verdict follows from what was built and why it stopped.             *)
LEMMA VerdictFromInvariant ==
  ASSUME IInv, BuiltVerdict, FateVerdict
  PROVE  InitializationVerdict
<1>1. ASSUME pc = "done", NEW id \in Providers PROVE Fits(id)
  <2>1. id <= current
    BY <1>1 DEF IInv, Processed, Providers
  <2>2. environments[id] # None
    BY <1>1, <2>1, PassedIsBuilt
  <2> QED  BY <2>2 DEF BuiltVerdict
<1> QED  BY <1>1 DEF InitializationVerdict, FateVerdict, Fits

(* initializeModules completes exactly for the inputs that allow it, and   *)
(* blames the right module otherwise.                                      *)
THEOREM VerdictHolds == Spec => []InitializationVerdict
<1>1. Init => BuiltVerdict /\ FateVerdict
  <2> SUFFICES ASSUME Init PROVE BuiltVerdict /\ FateVerdict
    OBVIOUS
  <2>1. Providers = {} /\ fate = "running"
    BY DEF Init, Providers, Registered
  <2> QED  BY <2>1 DEF BuiltVerdict, FateVerdict
<1>2. IInv /\ BuiltVerdict /\ FateVerdict /\ [Next]_vars
        => BuiltVerdict' /\ FateVerdict'
  BY BuiltVerdictStep, FateVerdictStep
<1>3. IInv /\ BuiltVerdict /\ FateVerdict => InitializationVerdict
  BY VerdictFromInvariant
<1> QED  BY <1>1, <1>2, <1>3, Invariance, PTL DEF Spec

----------------------------------------------------------------------------
(* The rest is about a driver that starts its workers after                *)
(* initializeModules has returned.                                         *)

(* Nothing a job refers to changes any more.                                *)
LEMMA JobsStep ==
  ASSUME Gate = "returned", IInv, JobsFresh, [Next]_vars
  PROVE  JobsFresh'
<1> USE DEF IInv, TypeOK, Phases, JobsFresh, managerVars, loopVars, dexVars,
        Registered, CodelibOf
<1>1. ASSUME NEW id \in ModuleIds, NEW o \in ModuleObjects,
             RegisterModule(id, o)
      PROVE  JobsFresh'
  BY <1>1 DEF RegisterModule, Taken
<1>2. CASE BeginInitialize
  BY <1>2 DEF BeginInitialize, AlreadyBegun
<1>3. CASE InitializeAgain
  BY <1>3 DEF InitializeAgain
<1>4. CASE CreateDexEnvironment
  BY <1>4 DEF CreateDexEnvironment
<1>5. CASE SkipModule
  BY <1>5 DEF SkipModule
<1>6. CASE DeactivateModule
  BY <1>6 DEF DeactivateModule
<1>7. CASE FindCodelibDex
  BY <1>7 DEF FindCodelibDex
<1>8. CASE DeclareCodelib
  BY <1>8 DEF DeclareCodelib, AppFilesWithout
<1>9. CASE DeclareCodelibTwice
  BY <1>9 DEF DeclareCodelibTwice
<1>10. CASE ConstructEnvironment
  BY <1>10 DEF ConstructEnvironment, SymbolFiles
<1>11. CASE ConstructEnvironmentFails
  BY <1>11 DEF ConstructEnvironmentFails
<1>12. CASE FinishInitialize
  BY <1>12 DEF FinishInitialize
<1>13. ASSUME NEW w \in Workers, NEW id \in ModuleIds, NEW d \in DexFiles,
              CreatePass(w, id, d)
      PROVE  JobsFresh'
  BY <1>13 DEF CreatePass, GateOpen, Job
<1>14. ASSUME NEW w \in Workers, SkipCodelibMethod(w)
      PROVE  JobsFresh'
  BY <1>14 DEF SkipCodelibMethod
<1>15. ASSUME NEW w \in Workers, RunPass(w)
      PROVE  JobsFresh'
  BY <1>15 DEF RunPass, InCodelibFile
<1>16. ASSUME NEW w \in Workers, PassCrashes(w)
      PROVE  JobsFresh'
  BY <1>16 DEF PassCrashes
<1>17. CASE UNCHANGED vars
  BY <1>17 DEF vars
<1>18. CASE ConstructorSticks
  BY <1>18 DEF ConstructorSticks
<1> QED
  BY <1>1, <1>2, <1>3, <1>4, <1>5, <1>6, <1>7, <1>8, <1>9, <1>10, <1>11, <1>12,
     <1>13, <1>14, <1>15, <1>16, <1>17, <1>18
  DEF Next, InitializeStep

(* JobsFresh is inductive relative to IInv.                                *)
LEMMA JobsInvariance ==
  ASSUME Gate = "returned"
  PROVE  Spec => [](IInv /\ JobsFresh)
<1>1. Init => JobsFresh
  BY DEF Init, JobsFresh
<1>2. IInv /\ JobsFresh /\ [Next]_vars => JobsFresh'
  BY JobsStep
<1> QED
  BY <1>1, <1>2, Invariance, PTL DEF Spec

(* A job of an enabled module carries the environment the module needs.    *)
LEMMA NullFromInvariant == IInv /\ JobsFresh => NullMeansNoCodelib
<1> SUFFICES ASSUME IInv, JobsFresh, NEW w \in Workers, job[w] # None,
                    job[w].id \notin late, CodelibOf(job[w].id) # None
             PROVE  job[w].env # None
  BY DEF NullMeansNoCodelib
<1>1. /\ pc = "done"
      /\ job[w].id \in Registered \ late
      /\ job[w].env = environments[job[w].id]
      /\ enabled[modules[job[w].id]]
  BY DEF JobsFresh
<1>2. EnabledMeansReady
  BY ReadyFromInvariant
<1> QED
  BY <1>1, <1>2 DEF EnabledMeansReady

(* getCodelibEnvironment returns nullptr only for modules that have no     *)
(* codelib or were registered too late.                                    *)
THEOREM NullHolds ==
  ASSUME Gate = "returned"
  PROVE  Spec => []NullMeansNoCodelib
BY NullFromInvariant, JobsInvariance, PTL

(* The only fault a worker can meet is the missing environment of a module *)
(* that was registered too late.                                           *)
LEMMA FaultFromInvariant ==
  ASSUME IInv, JobsFresh, NEW w \in Workers, job[w] # None,
         Fault(w) # "running"
  PROVE  /\ Fault(w) = "null_environment"
         /\ job[w].id \in late
<1>1. /\ pc = "done" /\ dexEnv /\ job[w].dexEnv
      /\ job[w].id \in Registered
      /\ job[w].env = environments[job[w].id]
  BY DEF JobsFresh, IInv, Phases
<1>2. job[w].dex \in DexFiles
  BY DEF IInv, TypeOK, Job
<1>3. job[w].dex \in appFiles \cup codelibFiles
  BY <1>1, <1>2 DEF IInv, DexFilesPartitioned
<1>4. job[w].env # None /\ job[w].dex \in appFiles =>
        job[w].dex \in job[w].env.symbols
  BY <1>1 DEF IInv, SymbolsCoverApps, Registered
<1>5. /\ CodelibOf(job[w].id) # None
      /\ job[w].env = None
      /\ Fault(w) = "null_environment"
  BY <1>1, <1>3, <1>4 DEF Fault, InCodelibFile, HasSymbols
<1>6. NullMeansNoCodelib
  BY NullFromInvariant
<1> QED
  BY <1>5, <1>6 DEF NullMeansNoCodelib

(* No worker brings the compiler down through a module that was registered *)
(* in time.                                                                *)
THEOREM WorkersHold ==
  ASSUME Gate = "returned"
  PROVE  Spec => []WorkersNeverCrash
<1>1. Init => WorkersNeverCrash
  BY DEF Init, WorkersNeverCrash
<1>2. IInv /\ JobsFresh /\ WorkersNeverCrash /\ [Next]_vars
        => WorkersNeverCrash'
  <2> SUFFICES ASSUME IInv, JobsFresh, WorkersNeverCrash, [Next]_vars
               PROVE  WorkersNeverCrash'
    OBVIOUS
  <2>1. ASSUME NEW w \in Workers, PassCrashes(w)
        PROVE  WorkersNeverCrash'
    <3>1. /\ fate' = "null_environment"
          /\ job[w].id \in late
          /\ UNCHANGED <<job, late>>
      BY <2>1, FaultFromInvariant DEF PassCrashes
    <3>2. job[w] # None
      BY <2>1 DEF PassCrashes
    <3> QED
      BY <3>1, <3>2 DEF WorkersNeverCrash
  <2>2. CASE UNCHANGED vars
    BY <2>2 DEF vars, WorkersNeverCrash
  <2>3. CASE /\ fate = "running"
             /\ fate' \in {"running", "initialised_twice",
                          "codelib_dex_shared", "symbol_missing",
                          "own_symbol_missing"}
    BY <2>3 DEF WorkersNeverCrash
  <2> QED
    BY <2>1, <2>2, <2>3
    DEF Next, InitializeStep, RegisterModule, BeginInitialize,
        InitializeAgain, CreateDexEnvironment, SkipModule, DeactivateModule,
        FindCodelibDex, DeclareCodelib, DeclareCodelibTwice,
        ConstructEnvironment, ConstructEnvironmentFails, ConstructorSticks,
        FinishInitialize, CreatePass, SkipCodelibMethod, RunPass
<1> QED
  BY <1>1, <1>2, JobsInvariance, PTL DEF Spec

----------------------------------------------------------------------------
(* The manager implements CodelibProvision, if compilation starts only     *)
(* after initializeModules has returned.                                   *)

(* Nothing is switched off before the loop over the modules has begun.     *)
AllEnabledEarly ==
  pc \in {"idle", "create"} => \A o \in ModuleObjects : enabled[o]

(* What keeps codelibs, switches and environments keeps the abstract view. *)
LEMMA SameProvision ==
  ASSUME UNCHANGED <<input, modules, enabled, environments, late>>
  PROVE  UNCHANGED <<Wants, SwitchedOff, Given>>
BY DEF Wants, SwitchedOff, Given, DexOf, Registered, CodelibOf

(* A module is only switched off because nobody defines its code class, so *)
(* it has no environment.                                                  *)
LEMMA OffHasNothing ==
  ASSUME IInv, NEW id \in Registered, CodelibOf(id) # None,
         input.defines[CodelibOf(id)] = {}
  PROVE  Given[id] = None
<1>1. environments[id] # None =>
        IsFirst(environments[id].dex, input.defines[CodelibOf(id)])
  BY DEF IInv, Origins, Registered
<1>2. environments[id] = None
  BY <1>1 DEF IsFirst
<1> QED
  BY <1>2 DEF Given, DexOf, Registered

(* Only DeactivateModule switches a module off, and its loop has begun.    *)
LEMMA EarlyStep ==
  ASSUME IInv, AllEnabledEarly, [Next]_vars
  PROVE  AllEnabledEarly'
<1>1. CASE enabled' = enabled /\ (pc' = pc \/ pc' \notin {"idle", "create"})
  BY <1>1 DEF AllEnabledEarly
<1>2. CASE BeginInitialize
  <2>1. enabled' = enabled /\ pc' = "create"
    BY <1>2 DEF BeginInitialize
  <2>2. \A o \in ModuleObjects : enabled[o]
    BY <1>2
    DEF BeginInitialize, AlreadyBegun, AllEnabledEarly, IInv, Phases
  <2> QED
    BY <2>1, <2>2 DEF AllEnabledEarly
<1>3. CASE DeactivateModule
  BY <1>3 DEF DeactivateModule, AllEnabledEarly
<1>4. CASE \E id \in ModuleIds, o \in ModuleObjects : RegisterModule(id, o)
  BY <1>1, <1>4 DEF RegisterModule, loopVars
<1>5. CASE \E w \in Workers :
             \/ \E id \in ModuleIds, d \in DexFiles : CreatePass(w, id, d)
             \/ SkipCodelibMethod(w) \/ RunPass(w) \/ PassCrashes(w)
  BY <1>1, <1>5
  DEF CreatePass, SkipCodelibMethod, RunPass, PassCrashes, managerVars,
      loopVars
<1>6. CASE \/ InitializeAgain \/ CreateDexEnvironment \/ SkipModule
           \/ FindCodelibDex \/ DeclareCodelib \/ DeclareCodelibTwice
           \/ ConstructEnvironment \/ ConstructEnvironmentFails
           \/ ConstructorSticks \/ FinishInitialize \/ UNCHANGED vars
  BY <1>1, <1>6
  DEF InitializeAgain, CreateDexEnvironment, SkipModule, FindCodelibDex,
      DeclareCodelib, DeclareCodelibTwice, ConstructEnvironment,
      ConstructEnvironmentFails, ConstructorSticks, FinishInitialize, vars,
      managerVars, loopVars
<1> QED
  BY <1>2, <1>3, <1>4, <1>5, <1>6 DEF Next, InitializeStep

(* A module is registered in time and wants a codelib, or nobody notices.  *)
LEMMA RegisterProvides ==
  ASSUME IInv, AllEnabledEarly, NEW id \in ModuleIds, NEW o \in ModuleObjects,
         RegisterModule(id, o)
  PROVE  [Provision!Next]_(Provision!vars)
<1> USE DEF RegisterModule, Taken
<1>1. /\ UNCHANGED <<input, enabled, environments, pc, fate, job>>
      /\ id \notin Registered
      /\ Registered' = Registered \cup {id}
      /\ \A i \in Registered : modules'[i] = modules[i]
      /\ modules'[id] = o
  BY ConstantsAssumption
  DEF IInv, TypeOK, Registered, managerVars, loopVars
<1>2. UNCHANGED <<Given, Passes>>
  BY <1>1 DEF Given, Passes, DexOf
<1>3. CASE initFlag
  <2>1. Wants' = Wants
    BY <1>1, <1>3 DEF Wants, CodelibOf
  <2>2. SwitchedOff' = SwitchedOff
    BY <1>1, <2>1 DEF SwitchedOff, Wants
  <2> QED
    BY <1>1, <1>2, <2>1, <2>2 DEF Provision!vars
<1>4. CASE ~initFlag
  <2>1. pc = "idle" /\ late = {} /\ late' = {}
    BY <1>4 DEF IInv, Phases
  <2>2. SwitchedOff = {} /\ SwitchedOff' = {}
    BY <1>1, <2>1
    DEF AllEnabledEarly, SwitchedOff, Wants, Registered, IInv, TypeOK
  <2>3. \/ Wants' = Wants
        \/ Wants' = Wants \cup {id}
    BY <1>1, <2>1 DEF Wants, CodelibOf
  <2> QED
    BY <1>1, <1>2, <2>1, <2>2, <2>3
    DEF Provision!vars, Provision!Next, Provision!Want
<1> QED
  BY <1>3, <1>4

(* Every id of the module whose class nobody defines is switched off.      *)
LEMMA DeactivateProvides ==
  ASSUME IInv, DeactivateModule
  PROVE  [Provision!Next]_(Provision!vars)
<1>1. PICK id \in Ahead :
        /\ CodelibOf(id) # None
        /\ input.defines[CodelibOf(id)] = {}
        /\ enabled' = [enabled EXCEPT ![modules[id]] = FALSE]
  BY DEF DeactivateModule
<1>2. /\ pc = "scan" /\ fate = "running"
      /\ UNCHANGED <<input, modules, environments, pc, late, fate, job>>
  BY DEF DeactivateModule
<1> DEFINE ids == SwitchedOff' \ SwitchedOff
<1>3. UNCHANGED <<Wants, Given, Passes>>
  BY <1>2 DEF Wants, Given, Passes, DexOf, Registered, CodelibOf
<1>4. modules[id] \in ModuleObjects
  BY <1>1 DEF Ahead, Registered, IInv, TypeOK
<1>5. SwitchedOff \subseteq SwitchedOff'
  BY <1>1, <1>2, <1>3, <1>4
  DEF SwitchedOff, Wants, Registered, IInv, TypeOK
<1>6. ASSUME NEW i \in ids
      PROVE  i \in Wants /\ i \notin SwitchedOff /\ Given[i] = None
  <2>1. i \in Wants /\ i \notin SwitchedOff /\ modules[i] = modules[id]
    BY <1>1, <1>2, <1>3, <1>4, <1>6
    DEF SwitchedOff, Wants, Registered, IInv, TypeOK
  <2> QED
    BY <1>1, <2>1, OffHasNothing DEF Wants, CodelibOf
<1>7. ids \in SUBSET ModuleIds
  BY <1>6 DEF Wants, Registered
<1>8. Provision!SwitchOff(ids)
  BY <1>2, <1>3, <1>5, <1>6 DEF Provision!SwitchOff, Provision!Undecided
<1> QED
  BY <1>7, <1>8 DEF Provision!Next

(* Publishing an environment gives its module a file nobody else has.      *)
LEMMA ConstructProvides ==
  ASSUME IInv, ConstructEnvironment
  PROVE  [Provision!Next]_(Provision!vars)
<1>1. /\ pc = "construct" /\ pc' = "scan" /\ fate = "running"
      /\ UNCHANGED <<input, modules, enabled, late, fate, job>>
  BY DEF ConstructEnvironment
<1>2. /\ current \in Registered \ late
      /\ CodelibOf(current) \in CodeLibs
      /\ codelibDex \in DexFiles
      /\ IsFirst(codelibDex, input.defines[CodelibOf(current)])
      /\ environments[current] = None
  BY <1>1 DEF IInv, AtProvider, Phases
<1>3. /\ UNCHANGED <<Wants, SwitchedOff, Passes>>
  BY <1>1 DEF Wants, SwitchedOff, Passes, DexOf, Registered, CodelibOf
<1>4. current \in Wants /\ current \notin SwitchedOff
  <2>1. CodelibOf(current) # None /\ modules[current] \in ModuleObjects
    BY <1>2, ConstantsAssumption DEF Registered, IInv, TypeOK
  <2>2. enabled[modules[current]]
    BY <1>2, <2>1 DEF IInv, Processed, CodelibOf, IsFirst
  <2> QED
    BY <1>2, <2>1, <2>2 DEF Wants, SwitchedOff
<1>5. /\ \A i \in ModuleIds : Given[i] # codelibDex
      /\ Given[current] = None
  BY <1>1, <1>2, ConstantsAssumption
  DEF Given, DexOf, Registered, IInv, AtProvider, Building
<1>6. Given' = [Given EXCEPT ![current] = codelibDex]
  <2> DEFINE e == [dex |-> codelibDex, codelib |-> CodelibOf(current),
                   symbols |-> SymbolFiles]
  <2>1. e # None
    BY PublishedIsEnvironment DEF IInv
  <2>2. environments' = [environments EXCEPT ![current] = e]
    BY DEF ConstructEnvironment
  <2>3. \A i \in ModuleIds :
          environments'[i] = IF i = current THEN e ELSE environments[i]
    BY <2>2 DEF IInv, TypeOK
  <2>4. \A i \in ModuleIds :
          DexOf(environments'[i]) =
            IF i = current THEN codelibDex ELSE DexOf(environments[i])
    BY <2>1, <2>3 DEF DexOf
  <2> QED
    BY <2>4 DEF Given, DexOf
<1>7. Provision!Give(current, codelibDex)
  BY <1>1, <1>3, <1>4, <1>5, <1>6 DEF Provision!Give, Provision!Undecided
<1> QED
  BY <1>2, <1>7 DEF Provision!Next, Registered

(* When the loop is over, every module that wants a codelib is decided.    *)
LEMMA FinishProvides ==
  ASSUME IInv, FinishInitialize
  PROVE  [Provision!Next]_(Provision!vars)
<1>1. /\ pc = "scan" /\ pc' = "done" /\ fate = "running" /\ Ahead = {}
      /\ UNCHANGED <<input, modules, enabled, environments, late, fate, job>>
  BY DEF FinishInitialize
<1>2. UNCHANGED <<Wants, SwitchedOff, Given, Passes>>
  BY <1>1 DEF Wants, SwitchedOff, Given, Passes, DexOf, Registered, CodelibOf
<1>3. ASSUME NEW id \in Wants
      PROVE  ~Provision!Undecided(id)
  <2>1. id \in Registered \ late /\ CodelibOf(id) # None
    BY DEF Wants
  <2>2. id \in Nat /\ current \in Nat
    BY <2>1, ConstantsAssumption DEF Registered, IInv, TypeOK
  <2>3. id <= current
    BY <1>1, <2>1, <2>2 DEF Ahead
  <2>4. environments[id] # None \/ ~enabled[modules[id]]
    BY <1>1, <2>1, <2>3 DEF IInv, Processed
  <2>5. environments[id] # None => environments[id].dex # None
    BY <2>1, ConstantsAssumption
    DEF IInv, TypeOK, Registered, Environment
  <2> QED
    BY <2>1, <2>4, <2>5
    DEF Provision!Undecided, SwitchedOff, Wants, Given, DexOf, Registered
<1> QED
  BY <1>1, <1>2, <1>3 DEF Provision!Next, Provision!Close

(* A pass is created with what the manager has given its module.           *)
LEMMA PassProvides ==
  ASSUME Gate = "returned", IInv, NEW w \in Workers, NEW id \in ModuleIds,
         NEW d \in DexFiles, CreatePass(w, id, d)
  PROVE  [Provision!Next]_(Provision!vars)
<1>1. /\ pc = "done" /\ fate = "running" /\ job[w] = None
      /\ enabled[modules[id]]
      /\ UNCHANGED <<input, modules, enabled, environments, late, pc, fate>>
  BY DEF CreatePass, GateOpen, managerVars, loopVars
<1>2. UNCHANGED <<Wants, SwitchedOff, Given>>
  BY <1>1, SameProvision
<1>3. Passes' = [Passes EXCEPT ![w] = [id |-> id, dex |-> Given[id]]]
  <2> DEFINE j == [id |-> id, dex |-> d, dexEnv |-> dexEnv,
                   env |-> environments[id]]
  <2>1. j \in Job
    BY DEF Job, IInv, TypeOK
  <2>2. j # None
    BY <2>1, NoneIsNoEnvironment
  <2>3. \A v \in Workers : job'[v] = IF v = w THEN j ELSE job[v]
    BY DEF CreatePass, IInv, TypeOK
  <2>4. \A v \in Workers :
          Passes'[v] = IF v = w THEN [id |-> id, dex |-> Given[id]]
                       ELSE Passes[v]
    BY <2>2, <2>3 DEF Passes, DexOf, Given
  <2> QED
    BY <2>4 DEF Passes
<1>4. Provision!CreatePass(w, id)
  BY <1>1, <1>2, <1>3 DEF Provision!CreatePass, Passes, SwitchedOff
<1> QED
  BY <1>4 DEF Provision!Next

(* A pass that ends is forgotten.                                          *)
LEMMA EndProvides ==
  ASSUME IInv, NEW w \in Workers, SkipCodelibMethod(w) \/ RunPass(w)
  PROVE  [Provision!Next]_(Provision!vars)
<1>1. /\ fate = "running"
      /\ job' = [job EXCEPT ![w] = None]
      /\ UNCHANGED <<input, modules, enabled, environments, late, pc, fate>>
  BY DEF SkipCodelibMethod, RunPass, managerVars, loopVars
<1>2. UNCHANGED <<Wants, SwitchedOff, Given>>
  BY <1>1, SameProvision
<1>3. Passes' = [Passes EXCEPT ![w] = None]
  BY <1>1 DEF Passes, DexOf, IInv, TypeOK
<1> QED
  BY <1>1, <1>2, <1>3 DEF Provision!Next, Provision!EndPass

(* Every step of the manager is a step of the hand-out, or hidden.         *)
LEMMA ProvisionStep ==
  ASSUME Gate = "returned", IInv, AllEnabledEarly, [Next]_vars
  PROVE  [Provision!Next]_(Provision!vars)
<1>1. CASE /\ UNCHANGED <<input, modules, enabled, environments, late, job,
                          fate>>
           /\ pc = "done" <=> pc' = "done"
  BY <1>1, SameProvision DEF Provision!vars, Passes, DexOf
<1>2. CASE /\ UNCHANGED <<input, modules, enabled, environments, late, job,
                          pc>>
           /\ fate = "running" /\ fate' # "running"
  BY <1>2, SameProvision
  DEF Provision!Next, Provision!Terminate, Passes, DexOf
<1>3. CASE \/ BeginInitialize \/ CreateDexEnvironment \/ SkipModule
           \/ FindCodelibDex \/ DeclareCodelib \/ ConstructorSticks
           \/ UNCHANGED vars
  BY <1>1, <1>3
  DEF BeginInitialize, AlreadyBegun, CreateDexEnvironment, SkipModule,
      FindCodelibDex, DeclareCodelib, ConstructorSticks, vars, managerVars,
      loopVars, dexVars, IInv, Phases
<1>4. CASE \/ InitializeAgain \/ DeclareCodelibTwice
           \/ ConstructEnvironmentFails \/ \E w \in Workers : PassCrashes(w)
  BY <1>2, <1>4
  DEF InitializeAgain, DeclareCodelibTwice, ConstructEnvironmentFails,
      PassCrashes, managerVars, loopVars
<1> QED
  BY <1>3, <1>4, RegisterProvides, DeactivateProvides, ConstructProvides,
     FinishProvides, PassProvides, EndProvides
  DEF Next, InitializeStep

(* ModuleManager hands codelibs out as CodelibProvision says.              *)
THEOREM ProvisionHolds ==
  ASSUME Gate = "returned"
  PROVE  Spec => ProvidesCodelibs
<1>1. Init => Provision!Init
  BY DEF Init, Provision!Init, Wants, SwitchedOff, Given, Passes, DexOf,
         Registered
<1>2. Init => AllEnabledEarly
  BY DEF Init, AllEnabledEarly
<1>3. IInv /\ AllEnabledEarly /\ [Next]_vars => AllEnabledEarly'
  BY EarlyStep
<1>4. IInv /\ AllEnabledEarly /\ [Next]_vars
        => [Provision!Next]_(Provision!vars)
  BY ProvisionStep
<1> QED
  BY <1>1, <1>2, <1>3, <1>4, Invariance, PTL
  DEF Spec, ProvidesCodelibs, Provision!Spec

=============================================================================
