------------------------- MODULE CodeLibCacheProofs -------------------------
(***************************************************************************)
(* Theorems about CodeLibCache, for every number of threads and of codelib *)
(* methods.                                                                *)
(***************************************************************************)
EXTENDS CodeLibCache, TLAPS

(* A thread inside a call is at a place of that call and has no answer; a  *)
(* thread that has asked and is idle has one.                              *)
Calls ==
  \A t \in Threads :
    /\ pc[t] \in {"once", "search", "leave", "answer"} => asked[t] = Offset
    /\ pc[t] \in {"find", "assign", "read"} => asked[t] \in Signatures
    /\ pc[t] # "idle" => got[t] = None
    /\ pc[t] = "idle" /\ asked[t] # None => got[t] # None

(* The flag, the one thread that runs the initialisation, and the offset.  *)
OnceProtocol ==
  /\ \A t \in Threads :
       /\ pc[t] \in {"search", "leave"} => flag = "running"
       /\ pc[t] = "search" => searches = 0
       /\ pc[t] = "leave" => offset = Value[Offset]
       /\ pc[t] = "answer" => flag = "set"
       /\ \A u \in Threads :
            pc[t] \in {"search", "leave"} /\ pc[u] \in {"search", "leave"}
              => t = u
  /\ flag = "unset" => searches = 0
  /\ flag = "set" => offset = Value[Offset]
  /\ searches <= 1

(* The entries of the map and the values about to be stored in it.         *)
Entries ==
  /\ \A s \in Signatures : index[s] \in {None, 0, Value[s]}
  /\ \A t \in Threads :
       /\ found[t] # None => found[t] = Value[asked[t]]
       /\ pc[t] = "read" => index[asked[t]] # None

IInv ==
  /\ TypeOK
  /\ Calls
  /\ OnceProtocol
  /\ Entries
  /\ OffsetAnswersReal
  /\ IndexSettles

(* No step leaves the types.                                               *)
LEMMA TypeStep ==
  ASSUME IInv, [Next]_vars
  PROVE  TypeOK'
<1> USE CacheAssumption DEF IInv, TypeOK, Calls, Keys, Places
<1>1. ASSUME NEW t \in Threads, NEW k \in Keys, Call(t, k)
      PROVE  TypeOK'
  BY <1>1 DEF Call, At, Goto
<1>2. ASSUME NEW t \in Threads, Abort(t)
      PROVE  TypeOK'
  BY <1>2 DEF Abort, At
<1>3. ASSUME NEW t \in Threads, PassOnce(t)
      PROVE  TypeOK'
  BY <1>3 DEF PassOnce, At, Goto
<1>4. ASSUME NEW t \in Threads, EnterOnce(t)
      PROVE  TypeOK'
  BY <1>4 DEF EnterOnce, At, Goto
<1>5. ASSUME NEW t \in Threads, SearchOffset(t)
      PROVE  TypeOK'
  BY <1>5 DEF SearchOffset, At, Goto
<1>6. ASSUME NEW t \in Threads, LeaveOnce(t)
      PROVE  TypeOK'
  BY <1>6 DEF LeaveOnce, At, Goto
<1>7. ASSUME NEW t \in Threads, ReturnOffset(t)
      PROVE  TypeOK'
  BY <1>7 DEF ReturnOffset, At, Goto
<1>8. ASSUME NEW t \in Threads, FindIndex(t)
      PROVE  TypeOK'
  BY <1>8 DEF FindIndex, At, Goto
<1>9. ASSUME NEW t \in Threads, InsertDefault(t)
      PROVE  TypeOK'
  BY <1>9 DEF InsertDefault, At
<1>10. ASSUME NEW t \in Threads, SearchIndex(t)
      PROVE  TypeOK'
  BY <1>10 DEF SearchIndex, At
<1>11. ASSUME NEW t \in Threads, StoreIndex(t)
      PROVE  TypeOK'
  BY <1>11 DEF StoreIndex, At, Goto
<1>12. ASSUME NEW t \in Threads, ReturnIndex(t)
      PROVE  TypeOK'
  BY <1>12 DEF ReturnIndex, At, Goto
<1>13. CASE UNCHANGED vars
  BY <1>13 DEF vars
<1> QED
  BY <1>1, <1>2, <1>3, <1>4, <1>5, <1>6, <1>7, <1>8, <1>9, <1>10, <1>11, <1>12,
       <1>13
  DEF Next, Step

(* Only Call begins a call, and only an answer ends it.                    *)
LEMMA CallsStep ==
  ASSUME IInv, [Next]_vars
  PROVE  Calls'
<1> USE CacheAssumption DEF IInv, TypeOK, Calls, Keys, Places, Entries,
        OnceProtocol
<1>1. ASSUME NEW t \in Threads, NEW k \in Keys, Call(t, k)
      PROVE  Calls'
  BY <1>1 DEF Call, At, Goto
<1>2. ASSUME NEW t \in Threads, Abort(t)
      PROVE  Calls'
  BY <1>2 DEF Abort, At
<1>3. ASSUME NEW t \in Threads, PassOnce(t)
      PROVE  Calls'
  BY <1>3 DEF PassOnce, At, Goto
<1>4. ASSUME NEW t \in Threads, EnterOnce(t)
      PROVE  Calls'
  BY <1>4 DEF EnterOnce, At, Goto
<1>5. ASSUME NEW t \in Threads, SearchOffset(t)
      PROVE  Calls'
  BY <1>5 DEF SearchOffset, At, Goto
<1>6. ASSUME NEW t \in Threads, LeaveOnce(t)
      PROVE  Calls'
  BY <1>6 DEF LeaveOnce, At, Goto
<1>7. ASSUME NEW t \in Threads, ReturnOffset(t)
      PROVE  Calls'
  BY <1>7 DEF ReturnOffset, At, Goto
<1>8. ASSUME NEW t \in Threads, FindIndex(t)
      PROVE  Calls'
  BY <1>8 DEF FindIndex, At, Goto
<1>9. ASSUME NEW t \in Threads, InsertDefault(t)
      PROVE  Calls'
  BY <1>9 DEF InsertDefault, At
<1>10. ASSUME NEW t \in Threads, SearchIndex(t)
      PROVE  Calls'
  BY <1>10 DEF SearchIndex, At
<1>11. ASSUME NEW t \in Threads, StoreIndex(t)
      PROVE  Calls'
  BY <1>11 DEF StoreIndex, At, Goto
<1>12. ASSUME NEW t \in Threads, ReturnIndex(t)
      PROVE  Calls'
  BY <1>12 DEF ReturnIndex, At, Goto
<1>13. CASE UNCHANGED vars
  BY <1>13 DEF vars
<1> QED
  BY <1>1, <1>2, <1>3, <1>4, <1>5, <1>6, <1>7, <1>8, <1>9, <1>10, <1>11, <1>12,
       <1>13
  DEF Next, Step

(* One thread at most is between EnterOnce and LeaveOnce.                  *)
LEMMA OnceStep ==
  ASSUME IInv, [Next]_vars
  PROVE  OnceProtocol'
<1> USE CacheAssumption DEF IInv, TypeOK, OnceProtocol, Keys, Places
<1>1. ASSUME NEW t \in Threads, NEW k \in Keys, Call(t, k)
      PROVE  OnceProtocol'
  BY <1>1 DEF Call, At, Goto
<1>2. ASSUME NEW t \in Threads, Abort(t)
      PROVE  OnceProtocol'
  BY <1>2 DEF Abort, At
<1>3. ASSUME NEW t \in Threads, PassOnce(t)
      PROVE  OnceProtocol'
  BY <1>3 DEF PassOnce, At, Goto
<1>4. ASSUME NEW t \in Threads, EnterOnce(t)
      PROVE  OnceProtocol'
  BY <1>4 DEF EnterOnce, At, Goto
<1>5. ASSUME NEW t \in Threads, SearchOffset(t)
      PROVE  OnceProtocol'
  BY <1>5 DEF SearchOffset, At, Goto
<1>6. ASSUME NEW t \in Threads, LeaveOnce(t)
      PROVE  OnceProtocol'
  BY <1>6 DEF LeaveOnce, At, Goto
<1>7. ASSUME NEW t \in Threads, ReturnOffset(t)
      PROVE  OnceProtocol'
  BY <1>7 DEF ReturnOffset, At, Goto
<1>8. ASSUME NEW t \in Threads, FindIndex(t)
      PROVE  OnceProtocol'
  BY <1>8 DEF FindIndex, At, Goto
<1>9. ASSUME NEW t \in Threads, InsertDefault(t)
      PROVE  OnceProtocol'
  BY <1>9 DEF InsertDefault, At
<1>10. ASSUME NEW t \in Threads, SearchIndex(t)
      PROVE  OnceProtocol'
  BY <1>10 DEF SearchIndex, At
<1>11. ASSUME NEW t \in Threads, StoreIndex(t)
      PROVE  OnceProtocol'
  BY <1>11 DEF StoreIndex, At, Goto
<1>12. ASSUME NEW t \in Threads, ReturnIndex(t)
      PROVE  OnceProtocol'
  BY <1>12 DEF ReturnIndex, At, Goto
<1>13. CASE UNCHANGED vars
  BY <1>13 DEF vars
<1> QED
  BY <1>1, <1>2, <1>3, <1>4, <1>5, <1>6, <1>7, <1>8, <1>9, <1>10, <1>11, <1>12,
       <1>13
  DEF Next, Step

(* What is stored is what has been found for the signature.                *)
LEMMA EntriesStep ==
  ASSUME IInv, [Next]_vars
  PROVE  Entries'
<1> USE CacheAssumption DEF IInv, TypeOK, Calls, Entries, Keys, Places
<1>1. ASSUME NEW t \in Threads, NEW k \in Keys, Call(t, k)
      PROVE  Entries'
  BY <1>1 DEF Call, At, Goto
<1>2. ASSUME NEW t \in Threads, Abort(t)
      PROVE  Entries'
  BY <1>2 DEF Abort, At
<1>3. ASSUME NEW t \in Threads, PassOnce(t)
      PROVE  Entries'
  BY <1>3 DEF PassOnce, At, Goto
<1>4. ASSUME NEW t \in Threads, EnterOnce(t)
      PROVE  Entries'
  BY <1>4 DEF EnterOnce, At, Goto
<1>5. ASSUME NEW t \in Threads, SearchOffset(t)
      PROVE  Entries'
  BY <1>5 DEF SearchOffset, At, Goto
<1>6. ASSUME NEW t \in Threads, LeaveOnce(t)
      PROVE  Entries'
  BY <1>6 DEF LeaveOnce, At, Goto
<1>7. ASSUME NEW t \in Threads, ReturnOffset(t)
      PROVE  Entries'
  BY <1>7 DEF ReturnOffset, At, Goto
<1>8. ASSUME NEW t \in Threads, FindIndex(t)
      PROVE  Entries'
  BY <1>8 DEF FindIndex, At, Goto
<1>9. ASSUME NEW t \in Threads, InsertDefault(t)
      PROVE  Entries'
  BY <1>9 DEF InsertDefault, At
<1>10. ASSUME NEW t \in Threads, SearchIndex(t)
      PROVE  Entries'
  BY <1>10 DEF SearchIndex, At
<1>11. ASSUME NEW t \in Threads, StoreIndex(t)
      PROVE  Entries'
  BY <1>11 DEF StoreIndex, At, Goto
<1>12. ASSUME NEW t \in Threads, ReturnIndex(t)
      PROVE  Entries'
  BY <1>12 DEF ReturnIndex, At, Goto
<1>13. CASE UNCHANGED vars
  BY <1>13 DEF vars
<1> QED
  BY <1>1, <1>2, <1>3, <1>4, <1>5, <1>6, <1>7, <1>8, <1>9, <1>10, <1>11, <1>12,
       <1>13
  DEF Next, Step

(* The offset is read after it has been set.                               *)
LEMMA OffsetStep ==
  ASSUME IInv, [Next]_vars
  PROVE  OffsetAnswersReal'
<1> USE CacheAssumption DEF IInv, TypeOK, Calls, OnceProtocol,
        OffsetAnswersReal, Keys
<1>1. ASSUME NEW t \in Threads, NEW k \in Keys, Call(t, k)
      PROVE  OffsetAnswersReal'
  BY <1>1 DEF Call, At, Goto
<1>2. ASSUME NEW t \in Threads, Abort(t)
      PROVE  OffsetAnswersReal'
  BY <1>2 DEF Abort, At
<1>3. ASSUME NEW t \in Threads, PassOnce(t)
      PROVE  OffsetAnswersReal'
  BY <1>3 DEF PassOnce, At, Goto
<1>4. ASSUME NEW t \in Threads, EnterOnce(t)
      PROVE  OffsetAnswersReal'
  BY <1>4 DEF EnterOnce, At, Goto
<1>5. ASSUME NEW t \in Threads, SearchOffset(t)
      PROVE  OffsetAnswersReal'
  BY <1>5 DEF SearchOffset, At, Goto
<1>6. ASSUME NEW t \in Threads, LeaveOnce(t)
      PROVE  OffsetAnswersReal'
  BY <1>6 DEF LeaveOnce, At, Goto
<1>7. ASSUME NEW t \in Threads, ReturnOffset(t)
      PROVE  OffsetAnswersReal'
  BY <1>7 DEF ReturnOffset, At, Goto
<1>8. ASSUME NEW t \in Threads, FindIndex(t)
      PROVE  OffsetAnswersReal'
  BY <1>8 DEF FindIndex, At, Goto
<1>9. ASSUME NEW t \in Threads, InsertDefault(t)
      PROVE  OffsetAnswersReal'
  BY <1>9 DEF InsertDefault, At
<1>10. ASSUME NEW t \in Threads, SearchIndex(t)
      PROVE  OffsetAnswersReal'
  BY <1>10 DEF SearchIndex, At
<1>11. ASSUME NEW t \in Threads, StoreIndex(t)
      PROVE  OffsetAnswersReal'
  BY <1>11 DEF StoreIndex, At, Goto
<1>12. ASSUME NEW t \in Threads, ReturnIndex(t)
      PROVE  OffsetAnswersReal'
  BY <1>12 DEF ReturnIndex, At, Goto
<1>13. CASE UNCHANGED vars
  BY <1>13 DEF vars
<1> QED
  BY <1>1, <1>2, <1>3, <1>4, <1>5, <1>6, <1>7, <1>8, <1>9, <1>10, <1>11, <1>12,
       <1>13
  DEF Next, Step

(* A thread that leaves an entry has stored the right index in it.         *)
LEMMA SettlesStep ==
  ASSUME IInv, [Next]_vars
  PROVE  IndexSettles'
<1> USE CacheAssumption DEF IInv, TypeOK, Calls, Entries, IndexSettles, Keys
<1>1. ASSUME NEW t \in Threads, NEW k \in Keys, Call(t, k)
      PROVE  IndexSettles'
  BY <1>1 DEF Call, At, Goto
<1>2. ASSUME NEW t \in Threads, Abort(t)
      PROVE  IndexSettles'
  BY <1>2 DEF Abort, At
<1>3. ASSUME NEW t \in Threads, PassOnce(t)
      PROVE  IndexSettles'
  BY <1>3 DEF PassOnce, At, Goto
<1>4. ASSUME NEW t \in Threads, EnterOnce(t)
      PROVE  IndexSettles'
  BY <1>4 DEF EnterOnce, At, Goto
<1>5. ASSUME NEW t \in Threads, SearchOffset(t)
      PROVE  IndexSettles'
  BY <1>5 DEF SearchOffset, At, Goto
<1>6. ASSUME NEW t \in Threads, LeaveOnce(t)
      PROVE  IndexSettles'
  BY <1>6 DEF LeaveOnce, At, Goto
<1>7. ASSUME NEW t \in Threads, ReturnOffset(t)
      PROVE  IndexSettles'
  BY <1>7 DEF ReturnOffset, At, Goto
<1>8. ASSUME NEW t \in Threads, FindIndex(t)
      PROVE  IndexSettles'
  BY <1>8 DEF FindIndex, At, Goto
<1>9. ASSUME NEW t \in Threads, InsertDefault(t)
      PROVE  IndexSettles'
  BY <1>9 DEF InsertDefault, At
<1>10. ASSUME NEW t \in Threads, SearchIndex(t)
      PROVE  IndexSettles'
  BY <1>10 DEF SearchIndex, At
<1>11. ASSUME NEW t \in Threads, StoreIndex(t)
      PROVE  IndexSettles'
  BY <1>11 DEF StoreIndex, At, Goto
<1>12. ASSUME NEW t \in Threads, ReturnIndex(t)
      PROVE  IndexSettles'
  BY <1>12 DEF ReturnIndex, At, Goto
<1>13. CASE UNCHANGED vars
  BY <1>13 DEF vars
<1> QED
  BY <1>1, <1>2, <1>3, <1>4, <1>5, <1>6, <1>7, <1>8, <1>9, <1>10, <1>11, <1>12,
       <1>13
  DEF Next, Step

(* IInv is inductive.                                                      *)
THEOREM Invariance == Spec => []IInv
<1>1. Init => IInv
  BY CacheAssumption
  DEF Init, IInv, TypeOK, Calls, OnceProtocol, Entries, OffsetAnswersReal,
      IndexSettles, Places
<1>2. IInv /\ [Next]_vars => IInv'
  BY TypeStep, CallsStep, OnceStep, EntriesStep, OffsetStep, SettlesStep
  DEF IInv
<1> QED
  BY <1>1, <1>2, PTL DEF Spec

(* The lazy fields and the threads' locals keep their types; in particular *)
(* no search of the class linker puts a 0 into the map.                    *)
THEOREM TypeCorrect == Spec => []TypeOK
<1>1. IInv => TypeOK
  BY DEF IInv
<1> QED
  BY <1>1, Invariance, PTL

(* getInstanceFieldOffset never returns the offset of the constructor,     *)
(* however many threads ask for the first time at once.                    *)
THEOREM OffsetHolds == Spec => []OffsetAnswersReal
<1>1. IInv => OffsetAnswersReal
  BY DEF IInv
<1> QED
  BY <1>1, Invariance, PTL

(* findInstanceFieldOffset runs at most once.                              *)
THEOREM OnceHolds == Spec => []OffsetFoundOnce
<1>1. IInv => OffsetFoundOnce
  BY DEF IInv, OnceProtocol, OffsetFoundOnce
<1> QED
  BY <1>1, Invariance, PTL

(* The race on the map leaves no wrong entry behind when it is over.       *)
THEOREM SettlesHolds == Spec => []IndexSettles
<1>1. IInv => IndexSettles
  BY DEF IInv
<1> QED
  BY <1>1, Invariance, PTL

(* What IndexNeverReverts allows a step to do.                             *)
EntriesGrow ==
  \A s \in Signatures :
    index[s] # None => /\ index'[s] # None
                       /\ index[s] # 0 => index'[s] = index[s]

(* Every store to an entry that is filled in stores what is there.         *)
LEMMA GrowStep ==
  ASSUME IInv, [Next]_vars
  PROVE  EntriesGrow
<1> USE CacheAssumption DEF IInv, TypeOK, Calls, Entries, EntriesGrow, Keys
<1>1. ASSUME NEW t \in Threads, NEW k \in Keys, Call(t, k)
      PROVE  EntriesGrow
  BY <1>1 DEF Call, At, Goto
<1>2. ASSUME NEW t \in Threads, Abort(t)
      PROVE  EntriesGrow
  BY <1>2 DEF Abort, At
<1>3. ASSUME NEW t \in Threads, PassOnce(t)
      PROVE  EntriesGrow
  BY <1>3 DEF PassOnce, At, Goto
<1>4. ASSUME NEW t \in Threads, EnterOnce(t)
      PROVE  EntriesGrow
  BY <1>4 DEF EnterOnce, At, Goto
<1>5. ASSUME NEW t \in Threads, SearchOffset(t)
      PROVE  EntriesGrow
  BY <1>5 DEF SearchOffset, At, Goto
<1>6. ASSUME NEW t \in Threads, LeaveOnce(t)
      PROVE  EntriesGrow
  BY <1>6 DEF LeaveOnce, At, Goto
<1>7. ASSUME NEW t \in Threads, ReturnOffset(t)
      PROVE  EntriesGrow
  BY <1>7 DEF ReturnOffset, At, Goto
<1>8. ASSUME NEW t \in Threads, FindIndex(t)
      PROVE  EntriesGrow
  BY <1>8 DEF FindIndex, At, Goto
<1>9. ASSUME NEW t \in Threads, InsertDefault(t)
      PROVE  EntriesGrow
  BY <1>9 DEF InsertDefault, At
<1>10. ASSUME NEW t \in Threads, SearchIndex(t)
      PROVE  EntriesGrow
  BY <1>10 DEF SearchIndex, At
<1>11. ASSUME NEW t \in Threads, StoreIndex(t)
      PROVE  EntriesGrow
  BY <1>11 DEF StoreIndex, At, Goto
<1>12. ASSUME NEW t \in Threads, ReturnIndex(t)
      PROVE  EntriesGrow
  BY <1>12 DEF ReturnIndex, At, Goto
<1>13. CASE UNCHANGED vars
  BY <1>13 DEF vars
<1> QED
  BY <1>1, <1>2, <1>3, <1>4, <1>5, <1>6, <1>7, <1>8, <1>9, <1>10, <1>11, <1>12,
       <1>13
  DEF Next, Step

(* A vtable index that is right stays right.                               *)
THEOREM NeverRevertsHolds == Spec => IndexNeverReverts
<1>1. IInv /\ [Next]_vars => [EntriesGrow]_vars
  BY GrowStep
<1> QED
  BY <1>1, Invariance, PTL DEF Spec, IndexNeverReverts, EntriesGrow

(* One thread alone never reads an entry that is not filled in.            *)
LEMMA AloneReadsRight ==
  ASSUME NEW t, Threads = {t}, IInv, pc[t] = "read"
  PROVE  index[asked[t]] = Value[asked[t]]
<1>1. asked[t] \in Signatures
  BY DEF IInv, Calls
<1>2. index[asked[t]] # None
  BY DEF IInv, Entries
<1>3. index[asked[t]] \in {None, Value[asked[t]]}
  BY <1>1 DEF IInv, IndexSettles
<1> QED
  BY <1>2, <1>3

(* What a thread reads from the map at the end is what it was promised.    *)
LEMMA ReadsAsPromised ==
  ASSUME IInv, NEW t \in Threads, pc[t] = "read"
  PROVE  index[asked[t]] \in Promised[asked[t]]
<1>1. asked[t] \in Signatures
  BY DEF IInv, Calls
<1>2. index[asked[t]] \in {0, Value[asked[t]]}
  BY <1>1 DEF IInv, Entries
<1>3. CASE \A v, u \in Threads : v = u
  <2>1. Threads = {t}
    BY <1>3
  <2> QED
    BY <1>1, <1>3, <2>1, AloneReadsRight DEF Promised, Keys
<1>4. CASE ~ \A v, u \in Threads : v = u
  BY <1>1, <1>2, <1>4, CacheAssumption DEF Promised, Keys
<1> QED
  BY <1>3, <1>4

(* Seen from outside a step answers as promised, asks, or is hidden.       *)
LEMMA GetterStep ==
  ASSUME IInv, [Next]_vars
  PROVE  [Getter!Next]_(Getter!vars)
<1> USE CacheAssumption DEF IInv, TypeOK, Calls, OnceProtocol, Getter!Next,
        Getter!vars, Getter!Ask, Getter!Answer, Keys
<1>1. ASSUME NEW t \in Threads, NEW k \in Keys, Call(t, k)
      PROVE  [Getter!Next]_(Getter!vars)
  BY <1>1 DEF Call, At, Goto
<1>2. ASSUME NEW t \in Threads, Abort(t)
      PROVE  [Getter!Next]_(Getter!vars)
  BY <1>2 DEF Abort, At
<1>3. ASSUME NEW t \in Threads, PassOnce(t)
      PROVE  [Getter!Next]_(Getter!vars)
  BY <1>3 DEF PassOnce, At, Goto
<1>4. ASSUME NEW t \in Threads, EnterOnce(t)
      PROVE  [Getter!Next]_(Getter!vars)
  BY <1>4 DEF EnterOnce, At, Goto
<1>5. ASSUME NEW t \in Threads, SearchOffset(t)
      PROVE  [Getter!Next]_(Getter!vars)
  BY <1>5 DEF SearchOffset, At, Goto
<1>6. ASSUME NEW t \in Threads, LeaveOnce(t)
      PROVE  [Getter!Next]_(Getter!vars)
  BY <1>6 DEF LeaveOnce, At, Goto
<1>7. ASSUME NEW t \in Threads, ReturnOffset(t)
      PROVE  [Getter!Next]_(Getter!vars)
  <2>1. offset \in Promised[asked[t]]
    BY <1>7 DEF ReturnOffset, At, Promised
  <2>2. got[t] = None /\ asked[t] = Offset /\ Offset # None
    BY <1>7 DEF ReturnOffset, At
  <2> QED
    BY <1>7, <2>1, <2>2 DEF ReturnOffset
<1>8. ASSUME NEW t \in Threads, FindIndex(t)
      PROVE  [Getter!Next]_(Getter!vars)
  BY <1>8 DEF FindIndex, At, Goto
<1>9. ASSUME NEW t \in Threads, InsertDefault(t)
      PROVE  [Getter!Next]_(Getter!vars)
  BY <1>9 DEF InsertDefault, At
<1>10. ASSUME NEW t \in Threads, SearchIndex(t)
      PROVE  [Getter!Next]_(Getter!vars)
  BY <1>10 DEF SearchIndex, At
<1>11. ASSUME NEW t \in Threads, StoreIndex(t)
      PROVE  [Getter!Next]_(Getter!vars)
  BY <1>11 DEF StoreIndex, At, Goto
<1>12. ASSUME NEW t \in Threads, ReturnIndex(t)
      PROVE  [Getter!Next]_(Getter!vars)
  BY <1>12, ReadsAsPromised DEF ReturnIndex, At, Goto
<1>13. CASE UNCHANGED vars
  BY <1>13 DEF vars
<1> QED
  BY <1>1, <1>2, <1>3, <1>4, <1>5, <1>6, <1>7, <1>8, <1>9, <1>10, <1>11, <1>12,
       <1>13
  DEF Next, Step

(* A CodeLibEnvironment implements the data object its documentation       *)
(* promises: pure in the offset, and in everything for a thread alone.     *)
THEOREM GetterHolds == Spec => AnswersAsPromised
<1>1. Init => Getter!Init
  BY DEF Init, Getter!Init
<1>2. IInv /\ [Next]_vars => [Getter!Next]_(Getter!vars)
  BY GetterStep
<1> QED
  BY <1>1, <1>2, Invariance, PTL DEF Spec, AnswersAsPromised, Getter!Spec

=============================================================================
