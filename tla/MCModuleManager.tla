-------------------------- MODULE MCModuleManager --------------------------
(* A small instance of ModuleManager for TLC: two module ids and objects,  *)
(* two codelibs, three dex files of which the first never defines one.     *)
EXTENDS ModuleManager

CONSTANTS o1, o2, c1, c2

MCIds == {1, 2}
MCObjects == {o1, o2}
MCCodeLibs == {c1, c2}
MCDexFiles == {1, 2, 3}

(* Distinct codelibs, the same codelib twice, one codelib, none.           *)
MCCodelibMaps ==
  {[o \in MCObjects |-> IF o = o1 THEN p[1] ELSE p[2]] :
     p \in {<<c1, c2>>, <<c1, c1>>, <<c1, None>>, <<None, None>>}}

(* A codelib class is defined by no file, by either of files 2 and 3, or   *)
(* by both; one file may lack a reference to a codelib; one codelib file   *)
(* may lack its own indices.  A codelib nobody returns varies in nothing.  *)
MCInputs ==
  {i \in [codelib  : MCCodelibMaps,
          defines  : [MCCodeLibs -> SUBSET {2, 3}],
          mentions : [MCCodeLibs -> {MCDexFiles} \cup
                        {MCDexFiles \ {d} : d \in MCDexFiles}],
          owns     : [MCCodeLibs -> {MCDexFiles, {3}}]] :
     \A c \in MCCodeLibs :
       (\A o \in MCObjects : i.codelib[o] # c) =>
         /\ i.defines[c] = {}
         /\ i.mentions[c] = MCDexFiles
         /\ i.owns[c] = MCDexFiles}

(* Every codelib that a module returns is defined by some dex file.        *)
MCFoundInputs ==
  {i \in MCInputs :
     \A o \in MCObjects :
       i.codelib[o] # None => i.defines[i.codelib[o]] # {}}

=============================================================================
