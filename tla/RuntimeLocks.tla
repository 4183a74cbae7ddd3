---------------------------- MODULE RuntimeLocks ----------------------------
(***************************************************************************)
(* The mutator lock of the runtime, as ARTist takes it before it touches   *)
(* objects on the managed heap: with SharedLock and SharedUnlock around a  *)
(* piece of code, or for a scope with ScopedObjectAccess.  The collector   *)
(* may move objects; it asks the threads to suspend, waits until none of   *)
(* them holds the lock, and resumes them when it has finished.             *)
(*                                                                         *)
(* A routine is the sequence of what it does to locks and to the heap.     *)
(* The lock of the class linker that Marshmallow builds take in addition   *)
(* is only ever shared here and left out.                                  *)
(***************************************************************************)
EXTENDS Naturals, Sequences

CONSTANTS
  Threads,         \* threads of the compiler
  Builder,         \* the one of them that runs initializeModules
  MaxCalls,        \* bound on the routines a thread runs
  MaxCollections   \* bound on the collections

ASSUME LocksAssumption ==
  /\ Builder \in Threads
  /\ MaxCalls \in Nat
  /\ MaxCollections \in Nat

VARIABLES
  rest,         \* per thread: what its routine still does
  holds,        \* per thread: how often it holds the mutator lock shared
  once,         \* offset_flag: "new", "busy" or "done"
  built,        \* the environment has been published
  calls,        \* per thread: routines begun
  requested,    \* the collector has asked the threads to suspend
  stopped,      \* the collector holds the mutator lock
  collections   \* collections begun

collectorVars == <<requested, stopped, collections>>
vars == <<rest, holds, once, built, calls, collectorVars>>

(* CodelibSymbols::CodelibSymbols                                          *)
CodelibSymbols == <<"access", "heap", "leave">>

(* CodeLibEnvironment::CodeLibEnvironment: the scope is opened while the   *)
(* lock is held, and ends with the constructor.                            *)
Construct == <<"lock", "access", "heap", "unlock", "leave", "publish">>

(* findInstanceFieldOffset.  Mutants: no lock; an access in its scope.     *)
MutantFindOffsetBare == <<"heap">>

MutantFindOffsetNested == <<"lock", "access", "heap", "unlock", "leave">>

FindOffset == <<"lock", "heap", "unlock">>

(* getInstanceFieldOffset                                                  *)
GetOffset == <<"enter">> \o FindOffset \o <<"done">>

(* InjectCodeLib asks for the offset before it opens its own scope.        *)
InjectScope == <<"access", "heap", "leave">>

InjectCodeLib == GetOffset \o InjectScope

(* findMethodVtableIdx, for InjectMethodCall                               *)
FindIndex == <<"access", "heap", "leave">>

(* Mutant: a way out that unlocks a second time.                           *)
MutantIsNativeMethod == <<"lock", "heap", "unlock", "unlock">>

IsNativeMethod == <<"lock", "heap", "unlock">>

GetClassFrom == <<"access", "heap", "leave">>

Routines == {InjectCodeLib, FindIndex, IsNativeMethod, GetClassFrom}

----------------------------------------------------------------------------
Init ==
  /\ rest = [t \in Threads |->
               IF t = Builder THEN CodelibSymbols \o Construct ELSE <<>>]
  /\ holds = [t \in Threads |-> 0]
  /\ once = "new"
  /\ built = FALSE
  /\ calls = [t \in Threads |-> 0]
  /\ requested = FALSE
  /\ stopped = FALSE
  /\ collections = 0

At(t, op) == rest[t] # <<>> /\ Head(rest[t]) = op

Go(t) == rest' = [rest EXCEPT ![t] = Tail(@)]

(* The compiler threads start when the environment has been published.     *)
Begin(t, routine) ==
  /\ built
  /\ rest[t] = <<>>
  /\ calls[t] < MaxCalls
  /\ calls' = [calls EXCEPT ![t] = @ + 1]
  /\ rest' = [rest EXCEPT ![t] = routine]
  /\ UNCHANGED <<holds, once, built, collectorVars>>

(* A reader waits only while the collector holds the lock.                 *)
SharedLock(t) ==
  /\ At(t, "lock")
  /\ ~stopped
  /\ holds' = [holds EXCEPT ![t] = @ + 1]
  /\ Go(t)
  /\ UNCHANGED <<once, built, calls, collectorVars>>

(* ScopedObjectAccess makes the thread runnable: it waits until nobody     *)
(* wants it suspended, and has the lock shared for the scope.              *)
ObjectAccess(t) ==
  /\ At(t, "access")
  /\ ~requested
  /\ holds' = [holds EXCEPT ![t] = @ + 1]
  /\ Go(t)
  /\ UNCHANGED <<once, built, calls, collectorVars>>

UseHeap(t) ==
  /\ At(t, "heap")
  /\ Go(t)
  /\ UNCHANGED <<holds, once, built, calls, collectorVars>>

(* SharedUnlock, or the end of the scope of a ScopedObjectAccess.          *)
Release(t) ==
  /\ At(t, "unlock") \/ At(t, "leave")
  /\ holds' = [holds EXCEPT ![t] = @ - 1]
  /\ Go(t)
  /\ UNCHANGED <<once, built, calls, collectorVars>>

(* call_once: the first thread searches, others wait for it, later ones    *)
(* pass.                                                                   *)
EnterOnce(t) ==
  /\ At(t, "enter")
  /\ \/ once = "new" /\ once' = "busy" /\ Go(t)
     \/ /\ once = "done" /\ UNCHANGED once
        /\ rest' = [rest EXCEPT ![t] = InjectScope]
  /\ UNCHANGED <<holds, built, calls, collectorVars>>

LeaveOnce(t) ==
  /\ At(t, "done")
  /\ once' = "done"
  /\ Go(t)
  /\ UNCHANGED <<holds, built, calls, collectorVars>>

Publish(t) ==
  /\ At(t, "publish")
  /\ built' = TRUE
  /\ Go(t)
  /\ UNCHANGED <<holds, once, calls, collectorVars>>

(* The collector.                                                          *)
RequestSuspension ==
  /\ ~requested
  /\ collections < MaxCollections
  /\ requested' = TRUE
  /\ collections' = collections + 1
  /\ UNCHANGED <<rest, holds, once, built, calls, stopped>>

StopTheWorld ==
  /\ requested /\ ~stopped
  /\ \A t \in Threads : holds[t] = 0
  /\ stopped' = TRUE
  /\ UNCHANGED <<rest, holds, once, built, calls, requested, collections>>

ResumeAll ==
  /\ stopped
  /\ stopped' = FALSE
  /\ requested' = FALSE
  /\ UNCHANGED <<rest, holds, once, built, calls, collections>>

ThreadStep(t) ==
  \/ SharedLock(t) \/ ObjectAccess(t) \/ UseHeap(t) \/ Release(t)
  \/ EnterOnce(t) \/ LeaveOnce(t) \/ Publish(t)

CollectorStep == StopTheWorld \/ ResumeAll

Next ==
  \/ \E t \in Threads :
       ThreadStep(t) \/ \E routine \in Routines : Begin(t, routine)
  \/ RequestSuspension
  \/ CollectorStep

Spec == Init /\ [][Next]_vars

(* Threads inside a routine and a collector that has begun go on whenever  *)
(* they can; nobody has to begin.                                          *)
FairSpec ==
  /\ Spec
  /\ \A t \in Threads : WF_vars(ThreadStep(t))
  /\ WF_vars(CollectorStep)

----------------------------------------------------------------------------
(* Every variable has a value of its type, and the collector never holds   *)
(* the mutator lock together with a thread.                                *)
TypeOK ==
  /\ rest \in [Threads -> Seq({"lock", "unlock", "access", "leave", "heap",
                               "enter", "done", "publish"})]
  /\ holds \in [Threads -> 0..2]
  /\ once \in {"new", "busy", "done"}
  /\ built \in BOOLEAN
  /\ calls \in [Threads -> 0..MaxCalls]
  /\ requested \in BOOLEAN /\ stopped \in BOOLEAN
  /\ collections \in 0..MaxCollections
  /\ stopped => requested /\ \A t \in Threads : holds[t] = 0

(* Objects are touched only by a thread that keeps the collector out, and  *)
(* no thread leaves a routine with the lock, whichever way it has taken    *)
(* through call_once.                                                      *)
LocksFollowScopes ==
  \A t \in Threads :
    /\ At(t, "heap") => holds[t] > 0
    /\ rest[t] = <<>> => holds[t] = 0

(* The constructor of the environment opens its scope while it holds the   *)
(* lock: a collector that has asked for suspension in between waits for    *)
(* the lock, and the constructor for the end of the suspension.            *)
Stuck == requested /\ At(Builder, "access") /\ holds[Builder] > 0

AtRest == ~requested /\ \A t \in Threads : rest[t] = <<>>

(* Compiler threads and collector always get on with each other, even when *)
(* they meet around call_once, unless a collection begins inside the       *)
(* constructor of an environment: from that there is no way out.           *)
OnlyConstructionSticks ==
  /\ []<>(AtRest \/ Stuck)
  /\ [](Stuck => []Stuck)

=============================================================================
