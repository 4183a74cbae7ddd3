------------------------ MODULE MCCompilerPipeline ------------------------
(* A small instance of CompilerPipeline for TLC: two modules, two methods  *)
(* in two of three dex files, filters that tell substrings, exact names    *)
(* and signatures apart.                                                   *)
EXTENDS CompilerPipeline

CONSTANTS o1, o2, c1, c2, w1, w2

MCIds == {1, 2}
MCObjects == {o1, o2}
MCCodeLibs == {c1, c2}
MCDexFiles == {1, 2, 3}
MCWorkers == {w1, w2}

Everywhere == [c \in MCCodeLibs |-> MCDexFiles]

(* One codelib in file 2 or 3; a codelib for each module, in files 3 and   *)
(* 2; a codelib that no file defines; no codelib at all.                   *)
MCInputs ==
  {[codelib  |-> [o \in MCObjects |-> IF o = o1 THEN p[1] ELSE p[2]],
    defines  |-> [c \in MCCodeLibs |-> IF c = c1 THEN p[3] ELSE {2}],
    mentions |-> Everywhere,
    owns     |-> Everywhere] :
   p \in {<<c1, None, {2}>>, <<c1, None, {3}>>, <<c1, c2, {3}>>,
          <<c1, None, {}>>, <<None, None, {}>>}}

MCTexts == {"run", "A.run", "A.runAll", "void A.run()", "int A.runAll(run)"}

MCOccurs ==
  {<<t, t>> : t \in MCTexts} \cup
  {<<"run", t>> : t \in MCTexts} \cup
  {<<"A.run", t>> : t \in MCTexts \ {"run"}} \cup
  {<<"A.runAll", "int A.runAll(run)">>}

MCMethods ==
  {[dex |-> 1, name |-> "A.run", signed |-> "void A.run()"],
   [dex |-> 2, name |-> "A.runAll", signed |-> "int A.runAll(run)"]}

White(n, e, s) == MethodNameWhitelist(n, e, s)
Black(n, e, s) == MethodNameBlacklist(n, e, s)

(* Nobody filters; a whitelist of an exact name; a whitelist of a          *)
(* substring with an exact blacklist; signatures against plain names.      *)
MCFilterings ==
  {[o \in MCObjects |-> IF o = o1 THEN p[1] ELSE p[2]] :
   p \in {<<{}, {}>>,
          <<{White({"A.run"}, TRUE, FALSE)},
            {White({"run"}, FALSE, FALSE), Black({"A.runAll"}, TRUE, FALSE)}>>,
          <<{Black({"void A.run()"}, FALSE, TRUE)},
            {White({"int A.runAll(run)", "A.run"}, TRUE, TRUE)}>>}}

===========================================================================
