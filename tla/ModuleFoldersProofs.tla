------------------------ MODULE ModuleFoldersProofs ------------------------
(***************************************************************************)
(* Theorems about ModuleFolders, for every number of compiler processes,   *)
(* of modules, and of kills.                                               *)
(***************************************************************************)
EXTENDS ModuleFolders, SequenceTheorems, TLAPS

(* Every folder before the one a process is at is a directory.             *)
Behind ==
  \A p \in Processes :
    \A i \in 1..(step[p] - 1) : entry[Setup(module[p])[i]] = "dir"

IInv ==
  /\ TypeOK
  /\ Behind
  /\ AbortBlamesThePath
  /\ ReadyMeansUsable

----------------------------------------------------------------------------
(* createForModule asks for five folders.                                  *)
LEMMA SetupFolders ==
  ASSUME NEW m \in ModuleIds
  PROVE  /\ Len(Setup(m)) = 5
         /\ Setup(m)[1] = BaseDir
         /\ Setup(m)[2] = ModulesDir
         /\ Setup(m)[3] = ModuleDir(m)
         /\ Setup(m)[4] = FilesDir(m)
         /\ Setup(m)[5] = TmpDir(m)
         /\ \A i \in 1..5 : Setup(m)[i] \in Paths
<1>1. /\ Len(Setup(m)) = 5
      /\ Setup(m)[1] = BaseDir
      /\ Setup(m)[2] = ModulesDir
      /\ Setup(m)[3] = ModuleDir(m)
      /\ Setup(m)[4] = FilesDir(m)
      /\ Setup(m)[5] = TmpDir(m)
  BY DEF Setup
<1>2. {BaseDir, ModulesDir, ModuleDir(m), FilesDir(m), TmpDir(m)}
        \subseteq Paths
  BY DEF Paths
<1>3. \A i \in 1..5 : i \in {1, 2, 3, 4, 5}
  OBVIOUS
<1> QED
  BY <1>1, <1>2, <1>3

(* The parent of a path is the path without its last segment.              *)
LEMMA WithoutLast ==
  ASSUME NEW S, NEW d \in Seq(S), NEW e \in Seq(S),
         Len(d) = Len(e) + 1,
         \A i \in 1..Len(e) : d[i] = e[i]
  PROVE  Parent(d) = e
<1>1. Len(e) \in Nat /\ Len(d) - 1 = Len(e)
  BY LenProperties
<1>2. \A i \in 1..Len(e) : d[i] \in S
  BY <1>1, ElementOfSeq
<1>3. /\ SubSeq(d, 1, Len(e)) \in Seq(S)
      /\ Len(SubSeq(d, 1, Len(e))) = IF 1 <= Len(e) THEN Len(e) - 1 + 1 ELSE 0
      /\ \A i \in 1..(Len(e) - 1 + 1) : SubSeq(d, 1, Len(e))[i] = d[1 + i - 1]
  BY <1>1, <1>2, SubSeqProperties
<1>4. Len(SubSeq(d, 1, Len(e))) = Len(e)
  BY <1>1, <1>3
<1>5. \A i \in 1..Len(e) : SubSeq(d, 1, Len(e))[i] = e[i]
  BY <1>1, <1>3
<1>6. SubSeq(d, 1, Len(e)) = e
  BY <1>3, <1>4, <1>5, SeqEqual
<1> QED
  BY <1>1, <1>6 DEF Parent

(* The parent of each folder.                                              *)
LEMMA Parents ==
  ASSUME NEW m
  PROVE  /\ Parent(ModulesDir) = BaseDir
         /\ Parent(ModuleDir(m)) = ModulesDir
         /\ Parent(FilesDir(m)) = ModuleDir(m)
         /\ Parent(TmpDir(m)) = ModuleDir(m)
<1> DEFINE S == {"modules", "files", "tmp", m}
<1> USE DEF BaseDir, ModulesDir, ModuleDir, FilesDir, TmpDir
<1>1. Parent(ModulesDir) = BaseDir
  <2>1. /\ ModulesDir \in Seq(S) /\ BaseDir \in Seq(S)
        /\ Len(ModulesDir) = Len(BaseDir) + 1
        /\ \A i \in 1..Len(BaseDir) : ModulesDir[i] = BaseDir[i]
    OBVIOUS
  <2> QED
    BY <2>1, WithoutLast
<1>2. Parent(ModuleDir(m)) = ModulesDir
  <2>1. /\ ModuleDir(m) \in Seq(S) /\ ModulesDir \in Seq(S)
        /\ Len(ModuleDir(m)) = Len(ModulesDir) + 1
        /\ \A i \in 1..Len(ModulesDir) : ModuleDir(m)[i] = ModulesDir[i]
    OBVIOUS
  <2> QED
    BY <2>1, WithoutLast
<1>3. Parent(FilesDir(m)) = ModuleDir(m)
  <2>1. /\ FilesDir(m) \in Seq(S) /\ ModuleDir(m) \in Seq(S)
        /\ Len(FilesDir(m)) = Len(ModuleDir(m)) + 1
        /\ \A i \in 1..Len(ModuleDir(m)) : FilesDir(m)[i] = ModuleDir(m)[i]
    OBVIOUS
  <2> QED
    BY <2>1, WithoutLast
<1>4. Parent(TmpDir(m)) = ModuleDir(m)
  <2>1. /\ TmpDir(m) \in Seq(S) /\ ModuleDir(m) \in Seq(S)
        /\ Len(TmpDir(m)) = Len(ModuleDir(m)) + 1
        /\ \A i \in 1..Len(ModuleDir(m)) : TmpDir(m)[i] = ModuleDir(m)[i]
    OBVIOUS
  <2> QED
    BY <2>1, WithoutLast
<1> QED
  BY <1>1, <1>2, <1>3, <1>4

LEMMA ParentIsPath ==
  ASSUME NEW d \in Paths \ {BaseDir}
  PROVE  Parent(d) \in Paths
<1>1. CASE d = ModulesDir
  BY <1>1, Parents DEF Paths
<1>2. ASSUME NEW m \in ModuleIds,
             d \in {ModuleDir(m), FilesDir(m), TmpDir(m)}
      PROVE  Parent(d) \in Paths
  BY <1>2, Parents DEF Paths
<1> QED
  BY <1>1, <1>2 DEF Paths

(* A folder comes after its parent.                                        *)
LEMMA ParentFirst ==
  ASSUME NEW m \in ModuleIds, NEW i \in 2..5
  PROVE  \E j \in 1..(i - 1) : Parent(Setup(m)[i]) = Setup(m)[j]
<1>1. CASE i = 2
  BY <1>1, SetupFolders, Parents
<1>2. CASE i = 3
  BY <1>2, SetupFolders, Parents
<1>3. CASE i = 4
  BY <1>3, SetupFolders, Parents
<1>4. CASE i = 5
  BY <1>4, SetupFolders, Parents
<1> QED
  BY <1>1, <1>2, <1>3, <1>4

(* What a process is at is a path, and all above it is there.              *)
LEMMA PathFacts ==
  ASSUME TypeOK, Behind, NEW p \in Processes
  PROVE  /\ Path(p) \in Paths
         /\ Path(p) # BaseDir => entry[Parent(Path(p))] = "dir"
<1>1. module[p] \in ModuleIds /\ step[p] \in 1..5
  BY DEF TypeOK
<1>2. Path(p) \in Paths
  BY <1>1, SetupFolders DEF Path
<1>3. ASSUME Path(p) # BaseDir
      PROVE  entry[Parent(Path(p))] = "dir"
  <2>1. step[p] \in 2..5
    BY <1>1, <1>3, SetupFolders DEF Path
  <2>2. PICK j \in 1..(step[p] - 1) : Parent(Path(p)) = Setup(module[p])[j]
    BY <1>1, <2>1, ParentFirst DEF Path
  <2> QED
    BY <2>2 DEF Behind
<1> QED
  BY <1>2, <1>3

(* Making a directory whose parent is there leaves a file system.          *)
LEMMA MakeKeepsTree ==
  ASSUME entry \in Trees, NEW d \in Paths, CanMake(d)
  PROVE  /\ [entry EXCEPT ![d] = "dir"] \in Trees
         /\ \A e \in Paths :
              entry[e] = "dir" => [entry EXCEPT ![d] = "dir"][e] = "dir"
<1> DEFINE new == [entry EXCEPT ![d] = "dir"]
<1>1. entry \in [Paths -> {"absent", "dir", "file"}]
  BY DEF Trees
<1>2. new \in [Paths -> {"absent", "dir", "file"}]
  BY <1>1
<1>3. \A e \in Paths : entry[e] = "dir" => new[e] = "dir"
  BY <1>1
<1>4. ASSUME NEW e \in Paths \ {BaseDir}, new[e] # "absent"
      PROVE  new[Parent(e)] = "dir"
  <2>1. entry[Parent(e)] = "dir"
    BY <1>1, <1>4 DEF CanMake, Trees
  <2> QED
    BY <1>3, <2>1, ParentIsPath
<1> QED
  BY <1>2, <1>3, <1>4 DEF Trees

----------------------------------------------------------------------------
LEMMA InitInvariant == Init => IInv
<1> SUFFICES ASSUME Init PROVE IInv
  OBVIOUS
<1> USE FoldersAssumption DEF Init
<1>1. TypeOK
  BY DEF TypeOK
<1>2. Behind
  BY DEF Behind
<1>3. AbortBlamesThePath /\ ReadyMeansUsable
  BY DEF AbortBlamesThePath, ReadyMeansUsable
<1> QED
  BY <1>1, <1>2, <1>3 DEF IInv

(* The set-up of p goes on in a file system in which its path is there     *)
(* and nothing that was a directory is gone.                               *)
LEMMA ProceedStep ==
  ASSUME IInv, NEW p \in Processes, Proceed(p), pc[p] # "aborted",
         entry' \in Trees, entry'[Path(p)] = "dir",
         \A d \in Paths : entry[d] = "dir" => entry'[d] = "dir",
         \A q \in Processes :
           pc[q] = "aborted" /\ q # p /\ entry[Path(q)] # "absent"
             => entry'[Path(q)] # "absent",
         UNCHANGED <<denied, module, kills>>
  PROVE  IInv'
<1> USE DEF IInv
<1>1. module[p] \in ModuleIds /\ step[p] \in 1..5
  BY DEF TypeOK
<1>2. Len(Setup(module[p])) = 5
  BY <1>1, SetupFolders
<1>3. /\ step' \in [Processes -> 1..5]
      /\ pc' \in [Processes -> {"off", "stat", "mkdir", "ready", "aborted"}]
      /\ \A q \in Processes \ {p} : step'[q] = step[q] /\ pc'[q] = pc[q]
      /\ step'[p] = step[p] \/ step'[p] = step[p] + 1
      /\ pc'[p] \in {"stat", "ready"}
  <2>1. CASE step[p] < Len(Setup(module[p]))
    BY <2>1, <1>1, <1>2 DEF Proceed, TypeOK
  <2>2. CASE ~(step[p] < Len(Setup(module[p])))
    BY <2>2, <1>1, <1>2 DEF Proceed, TypeOK
  <2> QED
    BY <2>1, <2>2
<1>4. usable' \in {usable, usable \cup {module[p]}}
  BY DEF Proceed
<1>5. TypeOK'
  BY <1>1, <1>3, <1>4 DEF TypeOK
<1>6. \A i \in 1..step[p] : entry'[Setup(module[p])[i]] = "dir"
  <2> SUFFICES ASSUME NEW i \in 1..step[p]
               PROVE  entry'[Setup(module[p])[i]] = "dir"
    OBVIOUS
  <2>1. CASE i = step[p]
    BY <2>1 DEF Path
  <2>2. CASE i # step[p]
    <3>1. i \in 1..(step[p] - 1) /\ i \in 1..5
      BY <2>2, <1>1
    <3> QED
      BY <3>1, <1>1, SetupFolders DEF Behind
  <2> QED
    BY <2>1, <2>2
<1>7. Behind'
  <2> SUFFICES ASSUME NEW q \in Processes, NEW i \in 1..(step'[q] - 1)
               PROVE  entry'[Setup(module[q])[i]] = "dir"
    BY DEF Behind
  <2>1. CASE q = p
    BY <2>1, <1>1, <1>3, <1>6
  <2>2. CASE q # p
    <3>1. i \in 1..(step[q] - 1) /\ i \in 1..5 /\ module[q] \in ModuleIds
      BY <2>2, <1>3 DEF TypeOK
    <3> QED
      BY <3>1, SetupFolders DEF Behind
  <2> QED
    BY <2>1, <2>2
<1>8. AbortBlamesThePath'
  BY <1>3 DEF AbortBlamesThePath, Path
<1>9. ReadyMeansUsable'
  <2> SUFFICES ASSUME NEW m \in usable',
                      NEW d \in {BaseDir, ModulesDir, ModuleDir(m),
                                 FilesDir(m), TmpDir(m)}
               PROVE  entry'[d] = "dir"
    BY DEF ReadyMeansUsable
  <2>1. m \in ModuleIds /\ d \in Paths
    BY <1>5 DEF TypeOK, Paths
  <2>2. CASE m \in usable
    BY <2>1, <2>2 DEF ReadyMeansUsable
  <2>3. CASE m \notin usable
    <3>1. m = module[p] /\ step[p] = 5
      BY <2>3, <1>1, <1>2 DEF Proceed
    <3>2. \E i \in 1..5 : d = Setup(m)[i]
      BY <2>1, SetupFolders
    <3> QED
      BY <3>1, <3>2, <1>6
  <2> QED
    BY <2>2, <2>3
<1> QED
  BY <1>5, <1>7, <1>8, <1>9

LEMMA NextInvariant == IInv /\ [Next]_vars => IInv'
<1> SUFFICES ASSUME IInv, [Next]_vars PROVE IInv'
  OBVIOUS
<1> USE DEF IInv
<1>1. ASSUME NEW p \in Processes, NEW m \in ModuleIds, Start(p, m)
      PROVE  IInv'
  <2>1. TypeOK'
    BY <1>1 DEF Start, TypeOK
  <2>2. Behind'
    BY <1>1 DEF Start, Behind, TypeOK
  <2>3. AbortBlamesThePath' /\ ReadyMeansUsable'
    BY <1>1 DEF Start, AbortBlamesThePath, ReadyMeansUsable, Path, TypeOK
  <2> QED
    BY <2>1, <2>2, <2>3
<1>2. ASSUME NEW p \in Processes, Found(p)
      PROVE  IInv'
  BY <1>2, ProceedStep DEF Found, IsDir, TypeOK
<1>3. ASSUME NEW p \in Processes, NotFound(p)
      PROVE  IInv'
  <2>1. TypeOK'
    BY <1>3 DEF NotFound, TypeOK
  <2>2. Behind'
    BY <1>3 DEF NotFound, Behind
  <2>3. AbortBlamesThePath' /\ ReadyMeansUsable'
    BY <1>3 DEF NotFound, AbortBlamesThePath, ReadyMeansUsable, Path, TypeOK
  <2> QED
    BY <2>1, <2>2, <2>3
<1>4. ASSUME NEW p \in Processes, Make(p)
      PROVE  IInv'
  <2>1. Path(p) \in Paths /\ entry \in Trees
    BY PathFacts DEF TypeOK
  <2>2. entry' \in Trees /\ entry'[Path(p)] = "dir"
    BY <1>4, <2>1, MakeKeepsTree DEF Make, Trees
  <2>3. \A d \in Paths : entry[d] = "dir" => entry'[d] = "dir"
    BY <1>4, <2>1, MakeKeepsTree DEF Make
  <2>4. \A d \in Paths : entry[d] # "absent" => entry'[d] # "absent"
    BY <1>4, <2>1 DEF Make, Trees
  <2>5. \A q \in Processes : Path(q) \in Paths
    BY PathFacts
  <2> QED
    BY <1>4, <2>2, <2>3, <2>4, <2>5, ProceedStep DEF Make
<1>5. ASSUME NEW p \in Processes, GiveUp(p)
      PROVE  IInv'
  <2>1. TypeOK'
    BY <1>5 DEF GiveUp, TypeOK
  <2>2. Behind'
    BY <1>5 DEF GiveUp, Behind
  <2>3. entry[Path(p)] # "absent" \/ Path(p) \in denied
    BY <1>5, PathFacts DEF GiveUp, CanMake
  <2>4. AbortBlamesThePath' /\ ReadyMeansUsable'
    BY <1>5, <2>3
       DEF GiveUp, AbortBlamesThePath, ReadyMeansUsable, Path, TypeOK
  <2> QED
    BY <2>1, <2>2, <2>4
<1>6. ASSUME NEW p \in Processes, Kill(p)
      PROVE  IInv'
  <2>1. TypeOK'
    BY <1>6, FoldersAssumption DEF Kill, TypeOK
  <2>2. Behind'
    BY <1>6 DEF Kill, Behind
  <2>3. AbortBlamesThePath' /\ ReadyMeansUsable'
    BY <1>6 DEF Kill, AbortBlamesThePath, ReadyMeansUsable, Path, TypeOK
  <2> QED
    BY <2>1, <2>2, <2>3
<1>7. CASE UNCHANGED vars
  BY <1>7 DEF vars, TypeOK, Behind, AbortBlamesThePath, ReadyMeansUsable, Path
<1> QED
  BY <1>1, <1>2, <1>3, <1>4, <1>5, <1>6, <1>7 DEF Next, Call

LEMMA Invariant == Spec => []IInv
  BY InitInvariant, NextInvariant, PTL DEF Spec

----------------------------------------------------------------------------
(* The variables keep their types, and what exists is in a directory, for  *)
(* any number of processes, modules and kills.                             *)
THEOREM TypeCorrect == Spec => []TypeOK
<1>1. IInv => TypeOK
  BY DEF IInv
<1> QED
  BY <1>1, Invariant, PTL

(* setupDir never fails because a parent is missing or a process was       *)
(* killed between two of its calls.                                        *)
THEOREM AbortsJustified == Spec => []AbortBlamesThePath
<1>1. IInv => AbortBlamesThePath
  BY DEF IInv
<1> QED
  BY <1>1, Invariant, PTL

(* The folders of a FilesystemHelper that could be built are directories   *)
(* and stay directories.                                                   *)
THEOREM UsableHolds == Spec => []ReadyMeansUsable
<1>1. IInv => ReadyMeansUsable
  BY DEF IInv
<1> QED
  BY <1>1, Invariant, PTL

(* What OnceReadyOnlyRacersRefused allows a step to do.                    *)
RacersStep ==
  \A p \in Processes : module[p] \in usable =>
    /\ pc[p] = "stat" => pc'[p] # "mkdir"
    /\ pc'[p] = "aborted" =>
         \/ pc[p] = "aborted"
         \/ pc[p] = "mkdir" /\ entry[Path(p)] = "dir"

(* The folder a process is at is there once its module has had them all.   *)
LEMMA UsablePath ==
  ASSUME IInv, NEW p \in Processes, module[p] \in usable
  PROVE  entry[Path(p)] = "dir"
<1>1. module[p] \in ModuleIds /\ step[p] \in {1, 2, 3, 4, 5}
  BY DEF IInv, TypeOK
<1>2. Path(p) \in {BaseDir, ModulesDir, ModuleDir(module[p]),
                   FilesDir(module[p]), TmpDir(module[p])}
  BY <1>1, SetupFolders DEF Path
<1> QED
  BY <1>2 DEF IInv, ReadyMeansUsable

(* Once a module has had its folders, nobody makes one again, and only who *)
(* lost the race between looking and making is refused them.               *)
THEOREM OnlyRacersRefused == Spec => OnceReadyOnlyRacersRefused
<1>1. ASSUME IInv, [Next]_vars
      PROVE  [RacersStep]_vars
  <2> SUFFICES ASSUME NEW p \in Processes, module[p] \in usable, Next
               PROVE  /\ pc[p] = "stat" => pc'[p] # "mkdir"
                      /\ pc'[p] = "aborted" =>
                           \/ pc[p] = "aborted"
                           \/ pc[p] = "mkdir" /\ entry[Path(p)] = "dir"
    BY <1>1 DEF RacersStep
  <2>1. entry[Path(p)] = "dir"
    BY <1>1, UsablePath
  <2>2. ASSUME NEW q \in Processes,
               Call(q) \/ Kill(q) \/ \E m \in ModuleIds : Start(q, m)
        PROVE  \/ pc'[p] \in {pc[p], "stat", "ready", "off"}
               \/ pc[p] = "mkdir" /\ pc'[p] = "aborted"
    <3>1. pc \in [Processes -> {"off", "stat", "mkdir", "ready", "aborted"}]
      BY <1>1 DEF IInv, TypeOK
    <3> QED
      BY <2>1, <2>2, <3>1
         DEF Call, Found, NotFound, IsDir, Make, GiveUp, Proceed, Kill, Start
  <2> QED
    BY <2>1, <2>2 DEF Next
<1> QED
  BY <1>1, Invariant, PTL DEF Spec, OnceReadyOnlyRacersRefused, RacersStep

=============================================================================
