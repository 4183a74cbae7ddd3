-------------------------- MODULE CodelibProvision --------------------------
(***************************************************************************)
(* What ModuleManager promises about codelibs.  Every module that wants a  *)
(* codelib is given a dex file of its own or is switched off, once and for *)
(* all and before the first pass is created; a pass is created only for a  *)
(* module that is not switched off, and holds what its module was given.   *)
(***************************************************************************)
CONSTANTS ModuleIds, DexFiles, Workers, None

VARIABLES
  wants,   \* the ids of the modules that want a codelib
  off,     \* the ids of those that are switched off
  given,   \* per id: the dex file of its codelib, or None
  closed,  \* nothing is given or switched off any more
  pass,    \* per worker: the id of its pass and what that holds, or None
  over     \* the process has terminated

vars == <<wants, off, given, closed, pass, over>>

Init ==
  /\ wants = {}
  /\ off = {}
  /\ given = [id \in ModuleIds |-> None]
  /\ closed = FALSE
  /\ pass = [w \in Workers |-> None]
  /\ over = FALSE

Undecided(id) == id \notin off /\ given[id] = None

Want(id) ==
  /\ ~over /\ ~closed
  /\ wants' = wants \cup {id}
  /\ UNCHANGED <<off, given, closed, pass, over>>

Give(id, d) ==
  /\ ~over /\ ~closed
  /\ id \in wants /\ Undecided(id)
  /\ \A i \in ModuleIds : given[i] # d
  /\ given' = [given EXCEPT ![id] = d]
  /\ UNCHANGED <<wants, off, closed, pass, over>>

(* A module may be registered under several ids: they are switched off     *)
(* together.                                                               *)
SwitchOff(ids) ==
  /\ ~over /\ ~closed
  /\ \A id \in ids : id \in wants /\ Undecided(id)
  /\ off' = off \cup ids
  /\ UNCHANGED <<wants, given, closed, pass, over>>

Close ==
  /\ ~over /\ ~closed
  /\ \A id \in wants : ~Undecided(id)
  /\ closed' = TRUE
  /\ UNCHANGED <<wants, off, given, pass, over>>

CreatePass(w, id) ==
  /\ ~over /\ closed
  /\ pass[w] = None
  /\ id \notin off
  /\ pass' = [pass EXCEPT ![w] = [id |-> id, dex |-> given[id]]]
  /\ UNCHANGED <<wants, off, given, closed, over>>

EndPass(w) ==
  /\ ~over
  /\ pass' = [pass EXCEPT ![w] = None]
  /\ UNCHANGED <<wants, off, given, closed, over>>

Terminate ==
  /\ ~over
  /\ over' = TRUE
  /\ UNCHANGED <<wants, off, given, closed, pass>>

Next ==
  \/ \E id \in ModuleIds : Want(id) \/ \E d \in DexFiles : Give(id, d)
  \/ \E ids \in SUBSET ModuleIds : SwitchOff(ids)
  \/ Close
  \/ \E w \in Workers : EndPass(w) \/ \E id \in ModuleIds : CreatePass(w, id)
  \/ Terminate

Spec == Init /\ [][Next]_vars
=============================================================================
