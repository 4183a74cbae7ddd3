---------------------------- MODULE CodeLibCache ----------------------------
(***************************************************************************)
(* The two lazily initialised parts of a CodeLibEnvironment, used by all   *)
(* the compiler threads at once: the offset of the instance field, behind  *)
(* call_once, and the map of vtable indices, behind nothing.               *)
(*                                                                         *)
(* Each operation on the map is one step here although nothing makes it    *)
(* atomic: what is shown of the map is the best a build can do.            *)
(***************************************************************************)
EXTENDS Naturals

CONSTANTS
  Threads,     \* compiler threads
  Signatures,  \* methods of the codelib
  Offset,      \* the key of the instance field's offset
  Value,       \* what findInstanceFieldOffset and findMethodVtableIdx find
  None         \* no map entry, no answer, no key

Keys == Signatures \cup {Offset}

ASSUME CacheAssumption ==
  /\ Offset \notin Signatures
  /\ Value \in [Keys -> Nat \ {0}]
  /\ None \notin Keys \cup Nat

VARIABLES
  findable,  \* the keys a search finds; it aborts for the others
  flag,      \* offset_flag: "unset", "running" or "set"
  offset,    \* _instance_offset, 0 from the constructor on
  index,     \* methodVtableIdx: signature -> value, None if it is absent
  pc,        \* per thread: where it is
  asked,     \* per thread: the key of its last call
  got,       \* per thread: what the last call returned
  found,     \* per thread: the right-hand side, None if not evaluated
  searches,  \* history: how often findInstanceFieldOffset has run
  fate       \* "running" or "aborted"

vars == <<findable, flag, offset, index, pc, asked, got, found, searches,
          fate>>

Places ==
  {"idle", "once", "search", "leave", "answer", "find", "assign", "read"}

Init ==
  /\ findable \in SUBSET Keys
  /\ flag = "unset"
  /\ offset = 0
  /\ index = [s \in Signatures |-> None]
  /\ pc = [t \in Threads |-> "idle"]
  /\ asked = [t \in Threads |-> None]
  /\ got = [t \in Threads |-> None]
  /\ found = [t \in Threads |-> None]
  /\ searches = 0
  /\ fate = "running"

At(t, place) == fate = "running" /\ pc[t] = place

Goto(t, place) == pc' = [pc EXCEPT ![t] = place]

----------------------------------------------------------------------------
(* A pass injects a call and needs the offset or a vtable index.           *)
Call(t, k) ==
  /\ At(t, "idle")
  /\ asked' = [asked EXCEPT ![t] = k]
  /\ got' = [got EXCEPT ![t] = None]
  /\ found' = [found EXCEPT ![t] = None]
  /\ Goto(t, IF k = Offset THEN "once" ELSE "find")
  /\ UNCHANGED <<findable, flag, offset, index, searches, fate>>

(* A search that finds nothing terminates the process.  The search for the *)
(* field also consults _class_loader, a handle whose scope has ended with  *)
(* the constructor: it may fail for a field that is there.                 *)
Abort(t) ==
  /\ \/ At(t, "search")
     \/ /\ At(t, "assign")
        /\ found[t] = None
        /\ asked[t] \notin findable
  /\ fate' = "aborted"
  /\ UNCHANGED <<findable, flag, offset, index, pc, asked, got, found,
                 searches>>

----------------------------------------------------------------------------
(* call_once: the first thread runs the initialisation, threads that come  *)
(* meanwhile wait in "once", the others pass.  Mutants: a thread that      *)
(* comes meanwhile passes; the flag is tested but not taken.               *)
MutantPassOnce(t) ==
  /\ At(t, "once")
  /\ flag # "unset"
  /\ Goto(t, "answer")
  /\ UNCHANGED <<findable, flag, offset, index, asked, got, found, searches,
                 fate>>

PassOnce(t) ==
  /\ At(t, "once")
  /\ flag = "set"
  /\ Goto(t, "answer")
  /\ UNCHANGED <<findable, flag, offset, index, asked, got, found, searches,
                 fate>>

MutantEnterOnce(t) ==
  /\ At(t, "once")
  /\ flag = "unset"
  /\ Goto(t, "search")
  /\ UNCHANGED <<findable, flag, offset, index, asked, got, found, searches,
                 fate>>

EnterOnce(t) ==
  /\ At(t, "once")
  /\ flag = "unset"
  /\ flag' = "running"
  /\ Goto(t, "search")
  /\ UNCHANGED <<findable, offset, index, asked, got, found, searches, fate>>

(* _instance_offset = findInstanceFieldOffset().                           *)
SearchOffset(t) ==
  /\ At(t, "search")
  /\ Offset \in findable
  /\ offset' = Value[Offset]
  /\ searches' = searches + 1
  /\ Goto(t, "leave")
  /\ UNCHANGED <<findable, flag, index, asked, got, found, fate>>

(* Mutant: the flag is left as it is.                                      *)
MutantLeaveOnce(t) ==
  /\ At(t, "leave")
  /\ Goto(t, "answer")
  /\ UNCHANGED <<findable, flag, offset, index, asked, got, found, searches,
                 fate>>

LeaveOnce(t) ==
  /\ At(t, "leave")
  /\ flag' = "set"
  /\ Goto(t, "answer")
  /\ UNCHANGED <<findable, offset, index, asked, got, found, searches, fate>>

ReturnOffset(t) ==
  /\ At(t, "answer")
  /\ got' = [got EXCEPT ![t] = offset]
  /\ Goto(t, "idle")
  /\ UNCHANGED <<findable, flag, offset, index, asked, found, searches, fate>>

----------------------------------------------------------------------------
(* getMethodVtableIdx: find; on a miss, an assignment whose two sides are  *)
(* evaluated in either order; and a second lookup.  Mutant: an entry that  *)
(* is there is looked up again and stored anew, from 0.                    *)
MutantFindIndex(t) ==
  /\ At(t, "find")
  /\ Goto(t, "assign")
  /\ index' = [index EXCEPT ![asked[t]] = 0]
  /\ UNCHANGED <<findable, flag, offset, asked, got, found, searches, fate>>

FindIndex(t) ==
  /\ At(t, "find")
  /\ Goto(t, IF index[asked[t]] = None THEN "assign" ELSE "read")
  /\ UNCHANGED <<findable, flag, offset, index, asked, got, found, searches,
                 fate>>

(* operator[] on the left: it inserts 0 if the key is (still) absent.      *)
InsertDefault(t) ==
  /\ At(t, "assign")
  /\ index[asked[t]] = None
  /\ index' = [index EXCEPT ![asked[t]] = 0]
  /\ UNCHANGED <<findable, flag, offset, pc, asked, got, found, searches,
                 fate>>

(* findMethodVtableIdx on the right.  Mutant: a method that cannot be      *)
(* found does not abort, its index is 0.                                   *)
MutantSearchIndex(t) ==
  /\ At(t, "assign")
  /\ found[t] = None
  /\ found' = [found EXCEPT ![t] = IF asked[t] \in findable
                                  THEN Value[asked[t]] ELSE 0]
  /\ UNCHANGED <<findable, flag, offset, index, pc, asked, got, searches,
                 fate>>

SearchIndex(t) ==
  /\ At(t, "assign")
  /\ found[t] = None
  /\ asked[t] \in findable
  /\ found' = [found EXCEPT ![t] = Value[asked[t]]]
  /\ UNCHANGED <<findable, flag, offset, index, pc, asked, got, searches,
                 fate>>

(* Both sides are evaluated.  Mutant: the value is not stored.             *)
MutantStoreIndex(t) ==
  /\ At(t, "assign")
  /\ found[t] # None
  /\ index[asked[t]] # None
  /\ Goto(t, "read")
  /\ UNCHANGED <<findable, flag, offset, index, asked, got, found, searches,
                 fate>>

StoreIndex(t) ==
  /\ At(t, "assign")
  /\ found[t] # None
  /\ index[asked[t]] # None
  /\ index' = [index EXCEPT ![asked[t]] = found[t]]
  /\ Goto(t, "read")
  /\ UNCHANGED <<findable, flag, offset, asked, got, found, searches, fate>>

ReturnIndex(t) ==
  /\ At(t, "read")
  /\ got' = [got EXCEPT ![t] = index[asked[t]]]
  /\ Goto(t, "idle")
  /\ UNCHANGED <<findable, flag, offset, index, asked, found, searches, fate>>

----------------------------------------------------------------------------
Step(t) ==
  \/ Abort(t)
  \/ PassOnce(t)
  \/ EnterOnce(t)
  \/ SearchOffset(t)
  \/ LeaveOnce(t)
  \/ ReturnOffset(t)
  \/ FindIndex(t)
  \/ InsertDefault(t)
  \/ SearchIndex(t)
  \/ StoreIndex(t)
  \/ ReturnIndex(t)

Next == \E t \in Threads : Step(t) \/ \E k \in Keys : Call(t, k)

Spec == Init /\ [][Next]_vars

(* A thread that is in a call is scheduled again and again, and gets the   *)
(* mutator lock its searches wait for (RuntimeLocks); nobody has to make a *)
(* call.                                                                   *)
FairSpec == Spec /\ \A t \in Threads : WF_vars(Step(t))

----------------------------------------------------------------------------
(* Every variable has a value of its type; no search yields 0, the value   *)
(* that stands for an entry nobody has filled in.                          *)
TypeOK ==
  /\ findable \subseteq Keys
  /\ flag \in {"unset", "running", "set"}
  /\ offset \in Nat
  /\ index \in [Signatures -> Nat \cup {None}]
  /\ pc \in [Threads -> Places]
  /\ asked \in [Threads -> Keys \cup {None}]
  /\ got \in [Threads -> Nat \cup {None}]
  /\ found \in [Threads -> (Nat \ {0}) \cup {None}]
  /\ searches \in Nat
  /\ fate \in {"running", "aborted"}

(* Nobody gets the 0 that the constructor has put into _instance_offset,   *)
(* or any other value than the offset.                                     *)
OffsetAnswersReal ==
  \A t \in Threads :
    asked[t] = Offset /\ got[t] # None => got[t] = Value[Offset]

(* The offset is initialised lazily a single time.                         *)
OffsetFoundOnce == searches <= 1

(* Every vtable index that is returned is the one of the signature.        *)
IndexAnswersReal ==
  \A t \in Threads :
    asked[t] \in Signatures /\ got[t] # None => got[t] = Value[asked[t]]

(* Once no thread is inside getMethodVtableIdx for a signature, the map    *)
(* holds the right index or none: races leave no wrong entry behind.       *)
IndexSettles ==
  \A s \in Signatures :
    \/ index[s] \in {None, Value[s]}
    \/ \E t \in Threads : pc[t] = "assign" /\ asked[t] = s

(* A right index never turns wrong again, however late another thread      *)
(* inserts, finds or stores for the same signature.                        *)
IndexNeverReverts ==
  [][\A s \in Signatures :
       index[s] # None => /\ index'[s] # None
                          /\ index[s] # 0 => index'[s] = index[s]]_vars

(* Every call returns unless the process is terminated: a thread that      *)
(* waits for the first one to initialise the offset is released.           *)
CallsReturn ==
  \A t \in Threads :
    pc[t] # "idle" ~> (pc[t] = "idle" \/ fate = "aborted")

(* What an environment can promise: the offset always, a vtable index only *)
(* to a thread that is alone with it; other threads may be answered with   *)
(* an entry that is still being filled in.                                 *)
Promised ==
  [k \in Keys |-> IF k = Offset \/ \A t, u \in Threads : t = u
                  THEN {Value[k]} ELSE {0, Value[k]}]

Getter == INSTANCE PureGetter WITH
  Threads <- Threads, Keys <- Keys, Answers <- Promised, None <- None,
  asked <- asked, got <- got

(* Whatever the threads do to the flag and to the map meanwhile, seen from *)
(* outside every call is one request and one answer of the data object     *)
(* that the class comment promises, as far as it can be promised.          *)
AnswersAsPromised == Getter!Spec
=============================================================================
