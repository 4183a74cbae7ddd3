--------------------------- MODULE ModuleFolders ---------------------------
(***************************************************************************)
(* FilesystemHelper: the folders a module may write to, set up by every    *)
(* compiler process for itself on a file system they all share.            *)
(* setupDir looks whether a path is a directory and, if it is not, makes   *)
(* it: two system calls, between which other processes run and the process *)
(* may be killed.                                                          *)
(***************************************************************************)
EXTENDS Naturals, Sequences

CONSTANTS
  Processes,  \* compiler processes
  ModuleIds,  \* modules whose folders they set up
  MaxKills    \* bound on how often processes are killed

ASSUME FoldersAssumption == MaxKills \in Nat /\ ModuleIds # {}

(* A path is the sequence of its segments below the base directory.        *)
BaseDir == <<>>
ModulesDir == <<"modules">>
ModuleDir(m) == <<"modules", m>>
FilesDir(m) == <<"modules", m, "files">>
TmpDir(m) == <<"modules", m, "tmp">>

Paths ==
  {BaseDir, ModulesDir}
    \cup UNION {{ModuleDir(m), FilesDir(m), TmpDir(m)} : m \in ModuleIds}

Parent(d) == SubSeq(d, 1, Len(d) - 1)

(* createForModule, then the constructor: the order of the setupDir calls. *)
(* Mutant: the base of a module comes after its files.                     *)
MutantSetup(m) ==
  <<BaseDir, ModulesDir, FilesDir(m), ModuleDir(m), TmpDir(m)>>

Setup(m) ==
  <<BaseDir, ModulesDir, ModuleDir(m), FilesDir(m), TmpDir(m)>>

VARIABLES
  entry,   \* what each path is: "absent", "dir" or "file"
  denied,  \* the paths at which the system refuses mkdir: no permission,
           \* or, for the base directory, a missing directory above it
  pc,      \* per process: "off", "stat", "mkdir", "ready" or "aborted"
  module,  \* per process: the module it works for
  step,    \* per process: the setupDir call it is at
  kills,   \* how many processes have been killed
  usable   \* history: the modules whose folders have been ready once

vars == <<entry, denied, pc, module, step, kills, usable>>

Path(p) == Setup(module[p])[step[p]]

(* The file systems there are: what exists is in a directory.              *)
Trees ==
  {e \in [Paths -> {"absent", "dir", "file"}] :
     \A d \in Paths \ {BaseDir} : e[d] # "absent" => e[Parent(d)] = "dir"}

----------------------------------------------------------------------------
Init ==
  /\ entry \in Trees
  /\ denied \in {{}} \cup {{d} : d \in Paths}
  /\ pc = [p \in Processes |-> "off"]
  /\ module = [p \in Processes |-> CHOOSE m \in ModuleIds : TRUE]
  /\ step = [p \in Processes |-> 1]
  /\ kills = 0
  /\ usable = {}

(* A process (or the next one in its place) asks for a module's folders.   *)
Start(p, m) ==
  /\ pc[p] \notin {"stat", "mkdir"}
  /\ pc' = [pc EXCEPT ![p] = "stat"]
  /\ module' = [module EXCEPT ![p] = m]
  /\ step' = [step EXCEPT ![p] = 1]
  /\ UNCHANGED <<entry, denied, kills, usable>>

(* isDir; mutant: anything that exists will do.                            *)
MutantIsDir(d) == entry[d] # "absent"

IsDir(d) == entry[d] = "dir"

(* mkdir fails for a path that exists, whatever it is.                     *)
CanMake(d) ==
  /\ entry[d] = "absent"
  /\ d # BaseDir => entry[Parent(d)] = "dir"
  /\ d \notin denied

(* setupDir has returned true.  Mutant: one more call than there is.       *)
MutantProceed(p) ==
  /\ step' = [step EXCEPT ![p] = @ + 1]
  /\ pc' = [pc EXCEPT ![p] = "stat"]
  /\ UNCHANGED usable

Proceed(p) ==
  IF step[p] < Len(Setup(module[p]))
  THEN /\ step' = [step EXCEPT ![p] = @ + 1]
       /\ pc' = [pc EXCEPT ![p] = "stat"]
       /\ UNCHANGED usable
  ELSE /\ pc' = [pc EXCEPT ![p] = "ready"]
       /\ usable' = usable \cup {module[p]}
       /\ UNCHANGED step

Found(p) ==
  /\ pc[p] = "stat"
  /\ IsDir(Path(p))
  /\ Proceed(p)
  /\ UNCHANGED <<entry, denied, module, kills>>

NotFound(p) ==
  /\ pc[p] = "stat"
  /\ ~IsDir(Path(p))
  /\ pc' = [pc EXCEPT ![p] = "mkdir"]
  /\ UNCHANGED <<entry, denied, module, step, kills, usable>>

Make(p) ==
  /\ pc[p] = "mkdir"
  /\ CanMake(Path(p))
  /\ entry' = [entry EXCEPT ![Path(p)] = "dir"]
  /\ Proceed(p)
  /\ UNCHANGED <<denied, module, kills>>

(* setupDir returns false and the compilation is aborted.  Mutants: the    *)
(* call is made again; mkdir comes first, so a directory that is there is  *)
(* an error too.                                                           *)
MutantGiveUpRetries(p) ==
  /\ pc[p] = "mkdir"
  /\ ~CanMake(Path(p))
  /\ pc' = [pc EXCEPT ![p] = "stat"]
  /\ UNCHANGED <<entry, denied, module, step, kills, usable>>

MutantGiveUpEarly(p) ==
  /\ pc[p] \in {"stat", "mkdir"}
  /\ ~CanMake(Path(p))
  /\ pc' = [pc EXCEPT ![p] = "aborted"]
  /\ UNCHANGED <<entry, denied, module, step, kills, usable>>

GiveUp(p) ==
  /\ pc[p] = "mkdir"
  /\ ~CanMake(Path(p))
  /\ pc' = [pc EXCEPT ![p] = "aborted"]
  /\ UNCHANGED <<entry, denied, module, step, kills, usable>>

(* The system or the user kills a compiler process.                        *)
Kill(p) ==
  /\ pc[p] \in {"stat", "mkdir"}
  /\ kills < MaxKills
  /\ kills' = kills + 1
  /\ pc' = [pc EXCEPT ![p] = "off"]
  /\ UNCHANGED <<entry, denied, module, step, usable>>

----------------------------------------------------------------------------
Call(p) == Found(p) \/ NotFound(p) \/ Make(p) \/ GiveUp(p)

Next ==
  \E p \in Processes :
    Call(p) \/ Kill(p) \/ \E m \in ModuleIds : Start(p, m)

Spec == Init /\ [][Next]_vars

(* System calls return: a process inside the set-up goes on.               *)
FairSpec == Spec /\ \A p \in Processes : WF_vars(Call(p))

----------------------------------------------------------------------------
(* The variables keep their types, and what exists is in a directory.      *)
TypeOK ==
  /\ entry \in Trees
  /\ denied \subseteq Paths
  /\ pc \in [Processes -> {"off", "stat", "mkdir", "ready", "aborted"}]
  /\ module \in [Processes -> ModuleIds]
  /\ step \in [Processes -> 1..5]
  /\ kills \in 0..MaxKills
  /\ usable \subseteq ModuleIds

(* setupDir returns whether its path is a valid directory now: a process   *)
(* is not stopped because of a directory that is there.                    *)
SetupDirAnswersTruly ==
  \A p \in Processes : pc[p] = "aborted" => entry[Path(p)] # "dir"

(* The compilation is aborted over a path that is taken or refused, never  *)
(* because a parent among the five folders is missing: a process that was  *)
(* killed half way leaves nothing behind that stops the ones after it.     *)
AbortBlamesThePath ==
  \A p \in Processes :
    pc[p] = "aborted" => entry[Path(p)] # "absent" \/ Path(p) \in denied

(* A FilesystemHelper that could be built can be used: its files and its   *)
(* temporary folder are directories, and so is all above them.             *)
ReadyMeansUsable ==
  \A m \in usable :
    \A d \in {BaseDir, ModulesDir, ModuleDir(m), FilesDir(m), TmpDir(m)} :
      entry[d] = "dir"

(* Once a module has had its folders, whoever looks finds them, and the    *)
(* only process still turned away is one that had looked before: it is at  *)
(* a mkdir that another process has meanwhile done (folders_race).         *)
OnceReadyOnlyRacersRefused ==
  [][\A p \in Processes : module[p] \in usable =>
       /\ pc[p] = "stat" => pc'[p] # "mkdir"
       /\ pc'[p] = "aborted" =>
            \/ pc[p] = "aborted"
            \/ pc[p] = "mkdir" /\ entry[Path(p)] = "dir"]_vars

(* Every request comes to an end: the folders are ready, the compilation   *)
(* is aborted, or the process is killed.                                   *)
SetupEnds ==
  \A p \in Processes :
    pc[p] = "stat" ~> pc[p] \in {"ready", "aborted", "off"}

=============================================================================
