------------------------- MODULE RuntimeLocksProofs -------------------------
(***************************************************************************)
(* For any number of threads and collections: a routine touches the heap   *)
(* only while it holds the mutator lock, gives it back, and never has it   *)
(* while the collector does.                                               *)
(***************************************************************************)
EXTENDS RuntimeLocks, TLAPS, SequenceTheorems

Operations ==
  {"lock", "unlock", "access", "leave", "heap", "enter", "done", "publish"}

(* What may be left of a routine, and how often its thread holds the lock  *)
(* then: the ends of each routine that are not ends of an earlier one.     *)
ScopeEnds ==
  {<< <<>>, 0>>, << <<"leave">>, 1>>, << <<"heap", "leave">>, 1>>,
   << <<"access", "heap", "leave">>, 0>>}

LockEnds ==
  {<< <<"unlock">>, 1>>, << <<"heap", "unlock">>, 1>>,
   << <<"lock", "heap", "unlock">>, 0>>}

InjectEnds ==
  {<< <<"done", "access", "heap", "leave">>, 0>>,
   << <<"unlock", "done", "access", "heap", "leave">>, 1>>,
   << <<"heap", "unlock", "done", "access", "heap", "leave">>, 1>>,
   << <<"lock", "heap", "unlock", "done", "access", "heap", "leave">>, 0>>,
   << <<"enter", "lock", "heap", "unlock", "done", "access", "heap",
        "leave">>, 0>>}

ConstructEnds ==
  {<< <<"publish">>, 0>>, << <<"leave", "publish">>, 1>>,
   << <<"unlock", "leave", "publish">>, 2>>,
   << <<"heap", "unlock", "leave", "publish">>, 2>>,
   << <<"access", "heap", "unlock", "leave", "publish">>, 1>>,
   << <<"lock", "access", "heap", "unlock", "leave", "publish">>, 0>>}

BuilderEnds ==
  {<< <<"leave", "lock", "access", "heap", "unlock", "leave", "publish">>, 1>>,
   << <<"heap", "leave", "lock", "access", "heap", "unlock", "leave",
        "publish">>, 1>>,
   << <<"access", "heap", "leave", "lock", "access", "heap", "unlock",
        "leave", "publish">>, 0>>}

Ends == ScopeEnds \cup LockEnds \cup InjectEnds \cup ConstructEnds
          \cup BuilderEnds

Balanced == \A t \in Threads : <<rest[t], holds[t]>> \in Ends

LocksInv ==
  /\ rest \in [Threads -> Seq(Operations)]
  /\ holds \in [Threads -> Nat]
  /\ Balanced

(* Each operation leads from one end to another.                           *)
Leads(s, n) ==
  /\ Head(s) \in {"lock", "access"} => <<Tail(s), n + 1>> \in Ends
  /\ Head(s) \in {"unlock", "leave"} => <<Tail(s), n - 1>> \in Ends
  /\ Head(s) \in {"heap", "enter", "done", "publish"} =>
       <<Tail(s), n>> \in Ends
  /\ Head(s) = "heap" => n > 0
  /\ Head(s) = "enter" => n = 0

LEMMA ScopeLeads ==
  ASSUME NEW s, NEW n, <<s, n>> \in ScopeEnds, s # <<>>
  PROVE  Leads(s, n)
<1>1. CASE s = <<"leave">> /\ n = 1
  BY <1>1 DEF Leads, Ends, ScopeEnds
<1>2. CASE s = <<"heap", "leave">> /\ n = 1
  BY <1>2 DEF Leads, Ends, ScopeEnds
<1>3. CASE s = <<"access", "heap", "leave">> /\ n = 0
  BY <1>3 DEF Leads, Ends, ScopeEnds
<1> QED  BY <1>1, <1>2, <1>3 DEF ScopeEnds

LEMMA LockLeads ==
  ASSUME NEW s, NEW n, <<s, n>> \in LockEnds
  PROVE  Leads(s, n)
<1>1. CASE s = <<"unlock">> /\ n = 1
  BY <1>1 DEF Leads, Ends, ScopeEnds, LockEnds
<1>2. CASE s = <<"heap", "unlock">> /\ n = 1
  BY <1>2 DEF Leads, Ends, ScopeEnds, LockEnds
<1>3. CASE s = <<"lock", "heap", "unlock">> /\ n = 0
  BY <1>3 DEF Leads, Ends, ScopeEnds, LockEnds
<1> QED  BY <1>1, <1>2, <1>3 DEF LockEnds

LEMMA InjectLeads ==
  ASSUME NEW s, NEW n, <<s, n>> \in InjectEnds
  PROVE  Leads(s, n)
<1>1. CASE s = <<"done", "access", "heap", "leave">> /\ n = 0
  BY <1>1 DEF Leads, Ends, ScopeEnds, InjectEnds
<1>2. CASE s = <<"unlock", "done", "access", "heap", "leave">> /\ n = 1
  BY <1>2 DEF Leads, Ends, ScopeEnds, InjectEnds
<1>3. CASE s = <<"heap", "unlock", "done", "access", "heap", "leave">> /\ n = 1
  BY <1>3 DEF Leads, Ends, ScopeEnds, InjectEnds
<1>4. CASE /\ s = <<"lock", "heap", "unlock", "done", "access", "heap",
                    "leave">>
           /\ n = 0
  BY <1>4 DEF Leads, Ends, ScopeEnds, InjectEnds
<1>5. CASE /\ s = <<"enter", "lock", "heap", "unlock", "done", "access",
                    "heap", "leave">>
           /\ n = 0
  BY <1>5 DEF Leads, Ends, ScopeEnds, InjectEnds
<1> QED  BY <1>1, <1>2, <1>3, <1>4, <1>5 DEF InjectEnds

LEMMA ConstructLeads ==
  ASSUME NEW s, NEW n, <<s, n>> \in ConstructEnds
  PROVE  Leads(s, n)
<1>1. CASE s = <<"publish">> /\ n = 0
  BY <1>1 DEF Leads, Ends, ScopeEnds, ConstructEnds
<1>2. CASE s = <<"leave", "publish">> /\ n = 1
  BY <1>2 DEF Leads, Ends, ScopeEnds, ConstructEnds
<1>3. CASE s = <<"unlock", "leave", "publish">> /\ n = 2
  BY <1>3 DEF Leads, Ends, ScopeEnds, ConstructEnds
<1>4. CASE s = <<"heap", "unlock", "leave", "publish">> /\ n = 2
  BY <1>4 DEF Leads, Ends, ScopeEnds, ConstructEnds
<1>5. CASE s = <<"access", "heap", "unlock", "leave", "publish">> /\ n = 1
  BY <1>5 DEF Leads, Ends, ScopeEnds, ConstructEnds
<1>6. CASE /\ s = <<"lock", "access", "heap", "unlock", "leave", "publish">>
           /\ n = 0
  BY <1>6 DEF Leads, Ends, ScopeEnds, ConstructEnds
<1> QED  BY <1>1, <1>2, <1>3, <1>4, <1>5, <1>6 DEF ConstructEnds

LEMMA BuilderLeads ==
  ASSUME NEW s, NEW n, <<s, n>> \in BuilderEnds
  PROVE  Leads(s, n)
<1>1. CASE /\ s = <<"leave", "lock", "access", "heap", "unlock", "leave",
                    "publish">>
           /\ n = 1
  BY <1>1 DEF Leads, Ends, ConstructEnds, BuilderEnds
<1>2. CASE /\ s = <<"heap", "leave", "lock", "access", "heap", "unlock",
                    "leave", "publish">>
           /\ n = 1
  BY <1>2 DEF Leads, Ends, ConstructEnds, BuilderEnds
<1>3. CASE /\ s = <<"access", "heap", "leave", "lock", "access", "heap",
                    "unlock", "leave", "publish">>
           /\ n = 0
  BY <1>3 DEF Leads, Ends, ConstructEnds, BuilderEnds
<1> QED  BY <1>1, <1>2, <1>3 DEF BuilderEnds

LEMMA EndsLead ==
  ASSUME NEW s, NEW n, <<s, n>> \in Ends, s # <<>>
  PROVE  Leads(s, n)
  BY ScopeLeads, LockLeads, InjectLeads, ConstructLeads, BuilderLeads DEF Ends

LEMMA EmptyEnd ==
  ASSUME NEW n, << <<>>, n>> \in Ends
  PROVE  n = 0
<1>1. << <<>>, n>> \notin LockEnds \cup InjectEnds
  BY DEF LockEnds, InjectEnds
<1>2. << <<>>, n>> \notin ConstructEnds \cup BuilderEnds
  BY DEF ConstructEnds, BuilderEnds
<1> QED  BY <1>1, <1>2 DEF Ends, ScopeEnds

LEMMA EndsAreNat ==
  ASSUME NEW s, NEW n, <<s, n>> \in Ends
  PROVE  n \in Nat
<1>1. <<s, n>> \in ScopeEnds \cup LockEnds \cup InjectEnds => n \in Nat
  BY DEF ScopeEnds, LockEnds, InjectEnds
<1>2. <<s, n>> \in ConstructEnds \cup BuilderEnds => n \in Nat
  BY DEF ConstructEnds, BuilderEnds
<1> QED  BY <1>1, <1>2 DEF Ends

(* The concatenations, written out.                                        *)
LEMMA SameSequence ==
  ASSUME NEW s \in Seq(Operations), NEW t \in Seq(Operations), NEW n,
         Len(s) = n, Len(t) = n, \A i \in 1..n : s[i] = t[i]
  PROVE  s = t
  BY SeqEqual

LEMMA GetOffsetIs ==
  GetOffset = <<"enter", "lock", "heap", "unlock", "done">>
<1> DEFINE x == <<"enter", "lock", "heap", "unlock", "done">>
<1>1. /\ {<<"enter">>, FindOffset, <<"done">>, x} \subseteq Seq(Operations)
      /\ Len(x) = 5
  BY DEF FindOffset, Operations
<1>2. GetOffset \in Seq(Operations) /\ Len(GetOffset) = 5
  BY <1>1 DEF GetOffset, FindOffset
<1>3. /\ GetOffset[1] = "enter" /\ GetOffset[2] = "lock"
      /\ GetOffset[3] = "heap" /\ GetOffset[4] = "unlock"
      /\ GetOffset[5] = "done"
  BY <1>1 DEF GetOffset, FindOffset
<1>4. \A i \in 1..5 : GetOffset[i] = x[i]
  BY <1>3
<1> HIDE DEF x
<1>5. GetOffset = x
  BY <1>1, <1>2, <1>4, SameSequence
<1> QED  BY <1>5 DEF x

LEMMA InjectCodeLibIs ==
  InjectCodeLib = <<"enter", "lock", "heap", "unlock", "done", "access",
                    "heap", "leave">>
<1> DEFINE x == <<"enter", "lock", "heap", "unlock", "done", "access", "heap",
                  "leave">>
           y == <<"enter", "lock", "heap", "unlock", "done">>
<1>1. /\ {y, InjectScope, x} \subseteq Seq(Operations)
      /\ Len(x) = 8
  BY DEF InjectScope, Operations
<1>2. InjectCodeLib = y \o InjectScope
  BY GetOffsetIs DEF InjectCodeLib
<1>3. InjectCodeLib \in Seq(Operations) /\ Len(InjectCodeLib) = 8
  BY <1>1, <1>2 DEF InjectScope
<1>4. /\ InjectCodeLib[1] = "enter" /\ InjectCodeLib[2] = "lock"
      /\ InjectCodeLib[3] = "heap" /\ InjectCodeLib[4] = "unlock"
      /\ InjectCodeLib[5] = "done" /\ InjectCodeLib[6] = "access"
      /\ InjectCodeLib[7] = "heap" /\ InjectCodeLib[8] = "leave"
  BY <1>1, <1>2 DEF InjectScope
<1>5. \A i \in 1..8 : InjectCodeLib[i] = x[i]
  BY <1>4
<1> HIDE DEF x, y
<1>6. InjectCodeLib = x
  BY <1>1, <1>3, <1>5, SameSequence, ZenonT(30)
<1> QED  BY <1>6 DEF x

LEMMA BuilderIs ==
  CodelibSymbols \o Construct =
    <<"access", "heap", "leave", "lock", "access", "heap", "unlock", "leave",
      "publish">>
<1> DEFINE x == <<"access", "heap", "leave", "lock", "access", "heap",
                  "unlock", "leave", "publish">>
           b == CodelibSymbols \o Construct
<1>1. /\ {CodelibSymbols, Construct, x} \subseteq Seq(Operations)
      /\ Len(x) = 9
  BY DEF CodelibSymbols, Construct, Operations
<1>2. b \in Seq(Operations) /\ Len(b) = 9
  BY <1>1 DEF CodelibSymbols, Construct
<1>3. /\ b[1] = "access" /\ b[2] = "heap"
      /\ b[3] = "leave" /\ b[4] = "lock"
      /\ b[5] = "access" /\ b[6] = "heap"
      /\ b[7] = "unlock" /\ b[8] = "leave"
      /\ b[9] = "publish"
  BY <1>1, SMTT(30) DEF CodelibSymbols, Construct
<1> HIDE DEF b
<1>4. \A i \in 1..9 : b[i] = x[i]
  BY <1>3
<1> HIDE DEF x
<1>5. b = x
  BY <1>1, <1>2, <1>4, SameSequence, ZenonT(30)
<1> QED  BY <1>5 DEF x, b

LEMMA RoutinesBalanced ==
  /\ \A r \in Routines \cup {InjectScope, CodelibSymbols \o Construct} :
       r \in Seq(Operations) /\ <<r, 0>> \in Ends
  /\ <<>> \in Seq(Operations) /\ << <<>>, 0>> \in Ends
<1>1. <<>> \in Seq(Operations) /\ << <<>>, 0>> \in Ends
  BY DEF Ends, ScopeEnds
<1>2. /\ InjectScope \in Seq(Operations) /\ <<InjectScope, 0>> \in Ends
      /\ FindIndex = InjectScope /\ GetClassFrom = InjectScope
  BY DEF InjectScope, FindIndex, GetClassFrom, Ends, ScopeEnds, Operations
<1>3. IsNativeMethod \in Seq(Operations) /\ <<IsNativeMethod, 0>> \in Ends
  BY DEF IsNativeMethod, Ends, LockEnds, Operations
<1>4. InjectCodeLib \in Seq(Operations) /\ <<InjectCodeLib, 0>> \in Ends
  BY InjectCodeLibIs DEF Ends, InjectEnds, Operations
<1>5. /\ CodelibSymbols \o Construct \in Seq(Operations)
      /\ <<CodelibSymbols \o Construct, 0>> \in Ends
  BY BuilderIs DEF Ends, BuilderEnds, Operations
<1> QED  BY <1>1, <1>2, <1>3, <1>4, <1>5 DEF Routines

LEMMA LocksInvStep ==
  LocksInv /\ [Next]_vars => LocksInv'
<1> SUFFICES ASSUME LocksInv, [Next]_vars PROVE LocksInv'
  OBVIOUS
<1>1. ASSUME NEW t \in Threads, NEW s \in Seq(Operations), NEW n \in Nat,
             <<s, n>> \in Ends, rest' = [rest EXCEPT ![t] = s],
             holds' = [holds EXCEPT ![t] = n]
      PROVE  LocksInv'
  BY <1>1 DEF LocksInv, Balanced
<1>2. ASSUME NEW t \in Threads, NEW s \in Seq(Operations),
             <<s, holds[t]>> \in Ends, rest' = [rest EXCEPT ![t] = s],
             holds' = holds
      PROVE  LocksInv'
  BY <1>2 DEF LocksInv, Balanced
<1>3. ASSUME NEW t \in Threads, rest[t] # <<>>
      PROVE  /\ Tail(rest[t]) \in Seq(Operations)
             /\ holds[t] \in Nat
             /\ Leads(rest[t], holds[t])
  <2>1. rest[t] \in Seq(Operations) /\ holds[t] \in Nat
    BY DEF LocksInv
  <2>2. <<rest[t], holds[t]>> \in Ends
    BY DEF LocksInv, Balanced
  <2>3. Leads(rest[t], holds[t])
    BY <1>3, <2>2, EndsLead
  <2>4. Tail(rest[t]) \in Seq(Operations)
    BY <1>3, <2>1
  <2> QED  BY <2>1, <2>3, <2>4
<1>4. ASSUME NEW t \in Threads, NEW r \in Routines, Begin(t, r) PROVE LocksInv'
  <2>1. holds[t] = 0
    BY <1>4, EmptyEnd DEF Begin, LocksInv, Balanced
  <2> QED  BY <1>4, <2>1, <1>2, RoutinesBalanced DEF Begin
<1>5. ASSUME NEW t \in Threads, SharedLock(t) PROVE LocksInv'
  <2>1. /\ rest[t] # <<>> /\ Head(rest[t]) = "lock"
        /\ rest' = [rest EXCEPT ![t] = Tail(@)]
        /\ holds' = [holds EXCEPT ![t] = @ + 1]
    BY <1>5 DEF SharedLock, At, Go
  <2>2. <<Tail(rest[t]), holds[t] + 1>> \in Ends
    BY <1>3, <2>1 DEF Leads
  <2>3. holds[t] + 1 \in Nat
    BY <2>2, EndsAreNat
  <2> QED  BY <1>1, <1>3, <2>1, <2>2, <2>3
<1>6. ASSUME NEW t \in Threads, ObjectAccess(t) PROVE LocksInv'
  <2>1. /\ rest[t] # <<>> /\ Head(rest[t]) = "access"
        /\ rest' = [rest EXCEPT ![t] = Tail(@)]
        /\ holds' = [holds EXCEPT ![t] = @ + 1]
    BY <1>6 DEF ObjectAccess, At, Go
  <2>2. <<Tail(rest[t]), holds[t] + 1>> \in Ends
    BY <1>3, <2>1 DEF Leads
  <2>3. holds[t] + 1 \in Nat
    BY <2>2, EndsAreNat
  <2> QED  BY <1>1, <1>3, <2>1, <2>2, <2>3
<1>7. ASSUME NEW t \in Threads, UseHeap(t) PROVE LocksInv'
  BY <1>2, <1>3, <1>7 DEF UseHeap, At, Go, Leads
<1>8. ASSUME NEW t \in Threads, Release(t) PROVE LocksInv'
  <2>1. /\ rest[t] # <<>> /\ Head(rest[t]) \in {"unlock", "leave"}
        /\ rest' = [rest EXCEPT ![t] = Tail(@)]
        /\ holds' = [holds EXCEPT ![t] = @ - 1]
    BY <1>8 DEF Release, At, Go
  <2>2. <<Tail(rest[t]), holds[t] - 1>> \in Ends
    BY <1>3, <2>1 DEF Leads
  <2>3. holds[t] - 1 \in Nat
    BY <2>2, EndsAreNat
  <2> QED  BY <1>1, <1>3, <2>1, <2>2, <2>3 DEF LocksInv
<1>9. ASSUME NEW t \in Threads, EnterOnce(t) PROVE LocksInv'
  <2>1. CASE rest' = [rest EXCEPT ![t] = InjectScope]
    <3>1. holds[t] = 0
      BY <1>3, <1>9 DEF EnterOnce, At, Leads
    <3> QED  BY <1>2, <1>9, <2>1, <3>1, RoutinesBalanced DEF EnterOnce
  <2>2. CASE Go(t)
    BY <1>2, <1>3, <1>9, <2>2 DEF EnterOnce, At, Go, Leads
  <2> QED  BY <1>9, <2>1, <2>2 DEF EnterOnce
<1>10. ASSUME NEW t \in Threads, LeaveOnce(t) PROVE LocksInv'
  BY <1>2, <1>3, <1>10 DEF LeaveOnce, At, Go, Leads
<1>11. ASSUME NEW t \in Threads, Publish(t) PROVE LocksInv'
  BY <1>2, <1>3, <1>11 DEF Publish, At, Go, Leads
<1>12. CASE UNCHANGED <<rest, holds>>
  BY <1>12 DEF LocksInv, Balanced
<1>13. CASE RequestSuspension \/ CollectorStep \/ UNCHANGED vars
  BY <1>12, <1>13 DEF RequestSuspension, CollectorStep, StopTheWorld,
                      ResumeAll, vars
<1> QED  BY <1>4, <1>5, <1>6, <1>7, <1>8, <1>9, <1>10, <1>11, <1>13
         DEF Next, ThreadStep

LEMMA InitLocksInv == Init => LocksInv
<1> DEFINE b == CodelibSymbols \o Construct
<1>1. /\ b \in Seq(Operations) /\ <<b, 0>> \in Ends
      /\ <<>> \in Seq(Operations) /\ << <<>>, 0>> \in Ends
  BY RoutinesBalanced
<1> SUFFICES ASSUME rest = [t \in Threads |->
                              IF t = Builder THEN b ELSE <<>>],
                    holds = [t \in Threads |-> 0]
             PROVE  LocksInv
  BY DEF Init
<1> HIDE DEF b
<1>2. rest \in [Threads -> Seq(Operations)]
  BY <1>1
<1>3. holds \in [Threads -> Nat]
  OBVIOUS
<1>4. ASSUME NEW t \in Threads PROVE <<rest[t], holds[t]>> \in Ends
  <2>1. CASE t = Builder
    BY <1>1, <2>1
  <2>2. CASE t # Builder
    BY <1>1, <2>2
  <2> QED  BY <2>1, <2>2
<1> QED  BY <1>2, <1>3, <1>4 DEF LocksInv, Balanced

(* LocksFollowScopes: every thread is at an end of a routine, where the    *)
(* number of times it holds the lock is known.                             *)
THEOREM ScopesHold == Spec => []LocksFollowScopes
<1>1. LocksInv => LocksFollowScopes
  <2> SUFFICES ASSUME LocksInv, NEW t \in Threads
               PROVE  /\ At(t, "heap") => holds[t] > 0
                      /\ rest[t] = <<>> => holds[t] = 0
    BY DEF LocksFollowScopes
  <2>1. At(t, "heap") => holds[t] > 0
    BY EndsLead DEF At, LocksInv, Balanced, Leads
  <2>2. rest[t] = <<>> => holds[t] = 0
    BY EmptyEnd DEF LocksInv, Balanced
  <2> QED  BY <2>1, <2>2
<1> QED  BY <1>1, InitLocksInv, LocksInvStep, PTL DEF Spec

LEMMA EndsAreSmall ==
  ASSUME NEW s, NEW n, <<s, n>> \in Ends
  PROVE  n \in 0..2
<1>1. <<s, n>> \in ScopeEnds \cup LockEnds \cup InjectEnds => n \in 0..2
  BY DEF ScopeEnds, LockEnds, InjectEnds
<1>2. <<s, n>> \in ConstructEnds \cup BuilderEnds => n \in 0..2
  BY DEF ConstructEnds, BuilderEnds
<1> QED  BY <1>1, <1>2 DEF Ends

(* A thread takes the lock only where the collector lets it, and the       *)
(* collector takes it only when nobody has it.                             *)
Exclusive == stopped => requested /\ \A t \in Threads : holds[t] = 0

Counters ==
  /\ once \in {"new", "busy", "done"}
  /\ built \in BOOLEAN
  /\ calls \in [Threads -> 0..MaxCalls]
  /\ requested \in BOOLEAN /\ stopped \in BOOLEAN
  /\ collections \in 0..MaxCollections

(* TypeOK: the ends bound how often a thread holds the lock, and while the *)
(* collector has it, every step of a thread that would take it waits and   *)
(* no thread has one to give back.                                         *)
THEOREM TypeCorrect == Spec => []TypeOK
<1> DEFINE Inv == LocksInv /\ Counters /\ Exclusive
<1>1. Init => Inv
  <2> SUFFICES ASSUME Init PROVE Inv
    OBVIOUS
  <2>1. LocksInv
    BY InitLocksInv
  <2>2. calls \in [Threads -> 0..MaxCalls] /\ collections \in 0..MaxCollections
    BY LocksAssumption DEF Init
  <2> QED  BY <2>1, <2>2 DEF Init, Counters, Exclusive
<1>2. Inv /\ [Next]_vars => Inv'
  <2> SUFFICES ASSUME Inv, [Next]_vars PROVE Inv'
    OBVIOUS
  <2>1. LocksInv'
    BY LocksInvStep
  <2>2. ASSUME NEW t \in Threads, NEW r \in Routines, Begin(t, r)
        PROVE  Counters' /\ Exclusive'
    <3>1. calls' \in [Threads -> 0..MaxCalls]
      BY <2>2, LocksAssumption DEF Begin, Counters
    <3> QED  BY <2>2, <3>1 DEF Begin, Counters, Exclusive, collectorVars
  <2>3. ASSUME NEW t \in Threads, SharedLock(t) PROVE Counters' /\ Exclusive'
    BY <2>3 DEF SharedLock, Counters, Exclusive, collectorVars
  <2>4. ASSUME NEW t \in Threads, ObjectAccess(t)
        PROVE  Counters' /\ Exclusive'
    BY <2>4 DEF ObjectAccess, Counters, Exclusive, collectorVars
  <2>5. ASSUME NEW t \in Threads, UseHeap(t) PROVE Counters' /\ Exclusive'
    BY <2>5 DEF UseHeap, Counters, Exclusive, collectorVars
  <2>6. ASSUME NEW t \in Threads, Release(t) PROVE Counters' /\ Exclusive'
    <3>1. holds[t] # 0
      <4>1. rest[t] # <<>> /\ Head(rest[t]) \in {"unlock", "leave"}
        BY <2>6 DEF Release, At
      <4>2. <<rest[t], holds[t]>> \in Ends
        BY DEF LocksInv, Balanced
      <4>3. <<Tail(rest[t]), holds[t] - 1>> \in Ends
        BY <4>1, <4>2, EndsLead DEF Leads
      <4>4. holds[t] - 1 \in Nat
        BY <4>3, EndsAreNat
      <4> QED  BY <4>4
    <3>2. ~stopped
      BY <3>1 DEF Exclusive
    <3> QED  BY <2>6, <3>2 DEF Release, Counters, Exclusive, collectorVars
  <2>7. ASSUME NEW t \in Threads, EnterOnce(t) PROVE Counters' /\ Exclusive'
    BY <2>7 DEF EnterOnce, Counters, Exclusive, collectorVars
  <2>8. ASSUME NEW t \in Threads, LeaveOnce(t) PROVE Counters' /\ Exclusive'
    BY <2>8 DEF LeaveOnce, Counters, Exclusive, collectorVars
  <2>9. ASSUME NEW t \in Threads, Publish(t) PROVE Counters' /\ Exclusive'
    BY <2>9 DEF Publish, Counters, Exclusive, collectorVars
  <2>10. CASE RequestSuspension
    BY <2>1, <2>10, LocksAssumption DEF RequestSuspension, Counters, Exclusive
  <2>11. CASE CollectorStep
    BY <2>1, <2>11 DEF CollectorStep, StopTheWorld, ResumeAll, Counters,
                       Exclusive
  <2>12. CASE UNCHANGED vars
    BY <2>1, <2>12 DEF vars, collectorVars, Counters, Exclusive
  <2> QED  BY <2>1, <2>2, <2>3, <2>4, <2>5, <2>6, <2>7, <2>8, <2>9, <2>10,
              <2>11, <2>12
           DEF Next, ThreadStep
<1>3. Inv => TypeOK
  <2> SUFFICES ASSUME Inv PROVE TypeOK
    OBVIOUS
  <2>1. \A t \in Threads : holds[t] \in 0..2
    BY EndsAreSmall DEF LocksInv, Balanced
  <2> QED  BY <2>1 DEF TypeOK, LocksInv, Counters, Exclusive, Operations
<1> QED  BY <1>1, <1>2, <1>3, PTL DEF Spec

=============================================================================
