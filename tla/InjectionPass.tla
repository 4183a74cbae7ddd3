--------------------------- MODULE InjectionPass ---------------------------
(***************************************************************************)
(* The ARTist passes that the enabled modules run, one after the other,    *)
(* over the graph of one method (HArtist::Run, HInjectionArtist,           *)
(* HInjectionVisitor, and ArtUtils::InjectCodeLib and InjectMethodCall).   *)
(* A pass declares injections; the visitor walks the graph that it is      *)
(* changing and inserts calls into the codelib of the module.              *)
(*                                                                         *)
(* One step is one round of a loop of the code: one target of one          *)
(* injection looked at, one instruction or block advanced to.              *)
(***************************************************************************)
EXTENDS Naturals, Sequences, FiniteSets, SequencesExt

CONSTANTS
  Signatures,  \* of the methods that are called or compiled
  Inputs,      \* the inputs considered: a subset of InputSpace
  MaxCode      \* bound on the instructions of a method, inserted ones included

InvokeKeys ==
  {"HInvoke", "HInvokeInterface", "HInvokeStaticOrDirect", "HInvokeVirtual"}

ReturnKeys == {"HReturn", "HReturnVoid"}

VisitorKeys == InvokeKeys \cup ReturnKeys

(* An instruction of a graph.                                              *)
(*   kind    its visitor key, "HGoto", "HOther", or "CodeLib" for the four *)
(*           instructions that load the codelib instance                   *)
(*   callee  the signature an invoke calls, "" for any other instruction   *)
(*   args    the number of arguments of an invoke                          *)
(*   words   the registers they take: two for a long or a double           *)
(*   by      the pass that inserted it, 0 for the method's own code        *)
(*   inj     the injection it stems from, 0 if none                        *)
(*   anchor  the instruction whose visit inserted it, 0 if none            *)
(*   lib     the codelib instruction that is its first argument, 0 if none *)
Instruction ==
  [id : Nat \ {0}, kind : VisitorKeys \cup {"HGoto", "HOther", "CodeLib"},
   callee : Signatures \cup {""}, args : Nat, words : Nat, by : Nat,
   inj : Nat, anchor : Nat, lib : Nat]

TargetTypes ==
  {"NO_INJECTION", "METHOD_START", "METHOD_END", "METHOD_CALL_BEFORE",
   "METHOD_CALL_AFTER"}

(* A target names the signatures that contain its search string; generic   *)
(* is the target "*".                                                      *)
Target == [type : TargetTypes, generic : BOOLEAN, names : SUBSET Signatures]

(* The types of parameters that have a value, and the two that have none.  *)
ConcreteTypes ==
  {"tBoolean", "tByte", "tChar", "tShort", "tInteger", "tLong", "tFloat",
   "tDouble"}

ParameterTypes == ConcreteTypes \cup {"tParameter", "tPrimitive"}

(* An injection calls signature with parameters (besides the codelib       *)
(* instance) at its targets.  It is up to the module and its codelib       *)
(* whether the codelib lists the signature, and whether the method is      *)
(* found in the codelib's dex file and resolved there.                     *)
DeclaredInjection ==
  [signature : Signatures, parameters : Seq(ParameterTypes),
   targets : Seq(Target), listed : BOOLEAN, resolved : BOOLEAN]

(* What the pass of a module is given to call: no environment, for a       *)
(* module without a codelib; one whose instance field does not resolve; or *)
(* one with everything.                                                    *)
Environments == {"none", "unresolved", "whole"}

(* A method, and for each pass that runs over it the policy and the        *)
(* environment of its codelib.                                             *)
InputSpace ==
  [graph : Seq(Seq(Instruction)), signature : Signatures, outs : Nat,
   policies : Seq(Seq(DeclaredInjection)), libs : Seq(Environments)]

ASSUME InputsAssumption ==
  /\ "" \notin Signatures
  /\ Inputs \subseteq InputSpace
  /\ \A i \in Inputs : Len(i.libs) = Len(i.policies)
  /\ MaxCode \in Nat

VARIABLES
  input,    \* the element of Inputs the passes run on
  graph,    \* the blocks of the method, block 1 is the entry block
  outs,     \* GetMaximumNumberOfOutVRegs of the graph
  pass,     \* the pass that runs
  pc,       \* where it is: "setup", "visit", "fix"; or "done", "aborted"
  table,    \* its _injection_table: visitor key -> injections
  codelib,  \* its _codelib_instruction, 0 for nullptr
  block,    \* the block the visitor is at, 0 before the first
  cur,      \* instruction_ of the instruction iterator, 0 for nullptr
  next,     \* next_ of the instruction iterator, 0 for nullptr
  todo,     \* <<injection, target>> pairs left in the visit of cur
  fresh,    \* the id of the next instruction created
  before    \* history: the graph when the pass began

vars == <<input, graph, outs, pass, pc, table, codelib, block, cur, next,
          todo, fresh, before>>

Policy == input.policies[pass]

----------------------------------------------------------------------------
(* Instructions in a graph.                                                *)
At(g, id) ==
  LET b == CHOOSE i \in DOMAIN g : \E k \in DOMAIN g[i] : g[i][k].id = id
  IN  <<b, CHOOSE k \in DOMAIN g[b] : g[b][k].id = id>>

Instr(g, id) == LET p == At(g, id) IN g[p[1]][p[2]]

Ids(g) == UNION {{g[b][k].id : k \in DOMAIN g[b]} : b \in DOMAIN g}

(* Identities are unique in a graph.                                       *)
Unique(g) ==
  \A b, c \in DOMAIN g : \A k \in DOMAIN g[b], n \in DOMAIN g[c] :
    g[b][k].id = g[c][n].id => b = c /\ k = n

(* An instruction of the method itself.  The dex file reserves the         *)
(* registers that the calls take.                                          *)
OwnCode(x, registers) ==
  /\ x.by = 0 /\ x.inj = 0 /\ x.lib = 0 /\ x.kind # "CodeLib"
  /\ x.kind \notin InvokeKeys => x.callee = ""
  /\ x.kind \in InvokeKeys => x.args <= x.words /\ x.words <= registers

(* What the backend hands to the passes: the code of a method, numbered    *)
(* from 1; an entry block that holds no calls and no returns and ends in   *)
(* an instruction of its own; and no block that ends in a call.            *)
ASSUME GraphsAssumption ==
  \A i \in Inputs :
    LET g == i.graph
    IN  /\ Unique(g)
        /\ Ids(g) \subseteq 1..Len(FlattenSeq(g))
        /\ \A b \in DOMAIN g : \A k \in DOMAIN g[b] : OwnCode(g[b][k], i.outs)
        /\ g # <<>> /\ g[1] # <<>>
        /\ \A k \in DOMAIN g[1] : g[1][k].kind \notin VisitorKeys
        /\ \A b \in DOMAIN g :
             g[b] # <<>> => Last(g[b]).kind \notin InvokeKeys

(* GetNext, nullptr at the end of the block.                               *)
Successor(g, id) ==
  LET p == At(g, id)
  IN  IF p[2] = Len(g[p[1]]) THEN 0 ELSE g[p[1]][p[2] + 1].id

First(blk) == IF blk = <<>> THEN 0 ELSE Head(blk).id

InsertBefore(g, id, x) ==
  LET p == At(g, id) IN [g EXCEPT ![p[1]] = InsertAt(@, p[2], x)]

InsertAfter(g, id, x) ==
  LET p == At(g, id) IN [g EXCEPT ![p[1]] = InsertAt(@, p[2] + 1, x)]

(* The last instruction of the entry block.                                *)
EntryEnd(g) == Last(g[1]).id

----------------------------------------------------------------------------
(* SetupInjections: the visitor keys a target is registered for.  Mutant:  *)
(* a key is forgotten.                                                     *)
MutantKeysOf(type) ==
  CASE type \in {"METHOD_CALL_BEFORE", "METHOD_CALL_AFTER"} ->
         InvokeKeys \ {"HInvokeInterface"}
    [] type \in {"METHOD_START", "METHOD_END"} -> ReturnKeys
    [] OTHER -> {}

KeysOf(type) ==
  CASE type \in {"METHOD_CALL_BEFORE", "METHOD_CALL_AFTER"} -> InvokeKeys
    [] type \in {"METHOD_START", "METHOD_END"} -> ReturnKeys
    [] OTHER -> {}

(* What EmplaceTableEntry has made of the entry of key in the end: an      *)
(* injection is in it once for each of its targets registered for key.     *)
TableEntry(policy, key) ==
  FlattenSeq(
    [i \in DOMAIN policy |->
       FlattenSeq(
         [n \in DOMAIN policy[i].targets |->
            IF key \in KeysOf(policy[i].targets[n].type) THEN <<i>>
            ELSE <<>>])])

(* The loops of VisitInvoke..., VisitReturn... and InjectInstruction: all  *)
(* the targets of every injection in the entry.                            *)
Visits(kind) ==
  IF kind \notin VisitorKeys THEN <<>>
  ELSE FlattenSeq(
         [k \in DOMAIN table[kind] |->
            LET i == table[kind][k]
            IN  [n \in DOMAIN Policy[i].targets |-> <<i, n>>]])

(* GetInvokedMethod: an instruction that is no invoke calls "".            *)
InvokedMethod(x) == x.callee

(* MethodSignatureContains the search string of the target.                *)
SignatureContains(signature, t) == signature \in t.names

(* The signature of the target against the invoked method, or the compiled *)
(* one.  Mutant: the compiled method is compared for every type.           *)
MutantMatches(t, x) == t.generic \/ SignatureContains(input.signature, t)

Matches(t, x) ==
  \/ t.generic
  \/ IF t.type \in {"METHOD_START", "METHOD_END"}
     THEN SignatureContains(input.signature, t)
     ELSE SignatureContains(InvokedMethod(x), t)

(* GetCodeLibInstruction() loads the codelib at the end of the entry block.*)
(* Mutant: at the visited instruction.                                     *)
MutantLibCursor(g) == cur

LibCursor(g) == EntryEnd(g)

NeedsCodelib == codelib = 0

(* The pass has an environment: CHECK(env != nullptr).                     *)
GivenEnvironment == input.libs[pass] # "none"

(* getInstanceFieldOffset: the field resolves.  The code asks when it      *)
(* loads the codelib, which is before the first call of the pass.          *)
OffsetFound == input.libs[pass] # "unresolved"

(* getMethodIdx: the symbols of the environment have the signature.        *)
Listed(i) == Policy[i].listed

(* getMethodVtableIdx: the method is in the codelib and resolves.          *)
IndexFound(i) == Policy[i].resolved

(* SetupFunctionParams: a constant can be made of every parameter.         *)
Concrete(i) ==
  \A n \in DOMAIN Policy[i].parameters :
    Policy[i].parameters[n] \in ConcreteTypes

(* Everything in InjectInstruction that ends the compiler unless it holds. *)
(* Mutant: the index of the method is not looked for.                      *)
MutantUsable(i) ==
  GivenEnvironment /\ OffsetFound /\ Concrete(i) /\ Listed(i)

Usable(i) ==
  GivenEnvironment /\ OffsetFound /\ Concrete(i) /\ Listed(i) /\ IndexFound(i)

(* SetupInstructionArguments: the codelib instance and the constants.      *)
Arguments(parameters) == 1 + Len(parameters)

(* The registers they take in a frame.                                     *)
Words(parameters) ==
  Arguments(parameters)
    + Cardinality({n \in DOMAIN parameters :
                     parameters[n] \in {"tLong", "tDouble"}})

(* InjectMethodCall at the location InjectInstruction has chosen.  Mutants:*)
(* METHOD_START behind the last instruction of the entry block; a call     *)
(* after an invoke behind the instruction that follows it; any other call  *)
(* in the place of the visited instruction.                                *)
MutantPlaceStart(g, type, x) ==
  CASE type = "METHOD_START" -> InsertAfter(g, EntryEnd(g), x)
    [] type = "METHOD_CALL_AFTER" -> InsertAfter(g, cur, x)
    [] OTHER -> InsertBefore(g, cur, x)

MutantPlaceAfter(g, type, x) ==
  CASE type = "METHOD_START" -> InsertBefore(g, EntryEnd(g), x)
    [] type = "METHOD_CALL_AFTER" ->
         InsertAfter(g, IF next = 0 THEN cur ELSE next, x)
    [] OTHER -> InsertBefore(g, cur, x)

MutantPlaceReplaces(g, type, x) ==
  CASE type = "METHOD_START" -> InsertBefore(g, EntryEnd(g), x)
    [] type = "METHOD_CALL_AFTER" -> InsertAfter(g, cur, x)
    [] OTHER -> [g EXCEPT ![At(g, cur)[1]] = ReplaceAt(@, At(g, cur)[2], x)]

Place(g, type, x) ==
  CASE type = "METHOD_START" -> InsertBefore(g, EntryEnd(g), x)
    [] type = "METHOD_CALL_AFTER" -> InsertAfter(g, cur, x)
    [] OTHER -> InsertBefore(g, cur, x)

----------------------------------------------------------------------------
Init ==
  /\ input \in Inputs
  /\ graph = input.graph
  /\ outs = input.outs
  /\ pass = 1
  /\ pc = IF input.policies = <<>> THEN "done" ELSE "setup"
  /\ table = [k \in VisitorKeys |-> <<>>]
  /\ codelib = 0
  /\ block = 0
  /\ cur = 0
  /\ next = 0
  /\ todo = <<>>
  /\ fresh = 1 + Len(FlattenSeq(input.graph))
  /\ before = input.graph

(* HArtist::Run on a new pass object: Setup, and RunPass begins.           *)
SetupPass ==
  /\ pc = "setup"
  /\ table' = [k \in VisitorKeys |-> TableEntry(Policy, k)]
  /\ pc' = "visit"
  /\ block' = 0
  /\ before' = graph
  /\ UNCHANGED <<input, graph, outs, pass, codelib, cur, next, todo, fresh>>

(* VisitInsertionOrder reaches the next block; a removed block is empty.   *)
EnterBlock ==
  /\ pc = "visit"
  /\ cur = 0
  /\ block < Len(graph)
  /\ block' = block + 1
  /\ cur' = First(graph[block'])
  /\ next' = IF cur' = 0 THEN 0 ELSE Successor(graph, cur')
  /\ todo' = IF cur' = 0 THEN <<>> ELSE Visits(Instr(graph, cur').kind)
  /\ UNCHANGED <<input, graph, outs, pass, pc, table, codelib, fresh, before>>

(* A target that is nothing to inject, or matches something else.          *)
PassOver ==
  /\ pc = "visit"
  /\ todo # <<>>
  /\ LET t == Policy[Head(todo)[1]].targets[Head(todo)[2]]
     IN  t.type = "NO_INJECTION" \/ ~Matches(t, Instr(graph, cur))
  /\ todo' = Tail(todo)
  /\ UNCHANGED <<input, graph, outs, pass, pc, table, codelib, block, cur,
                 next, fresh, before>>

(* A target that matches: load the codelib unless this pass already has,   *)
(* then insert the call.                                                   *)
Inject ==
  /\ pc = "visit"
  /\ todo # <<>>
  /\ fresh < MaxCode
  /\ LET i == Head(todo)[1]
         t == Policy[i].targets[Head(todo)[2]]
         new == [id |-> fresh, by |-> pass, kind |-> "CodeLib", callee |-> "",
                 args |-> 0, words |-> 0, inj |-> 0, anchor |-> 0,
                 lib |-> 0]
         g == IF NeedsCodelib THEN InsertBefore(graph, LibCursor(graph), new)
              ELSE graph
         lib == IF NeedsCodelib THEN fresh ELSE codelib
         call == [new EXCEPT !.id = IF NeedsCodelib THEN fresh + 1 ELSE fresh,
                             !.kind = "HInvokeVirtual",
                             !.callee = Policy[i].signature,
                             !.args = Arguments(Policy[i].parameters),
                             !.words = Words(Policy[i].parameters),
                             !.inj = i, !.anchor = cur, !.lib = lib]
     IN  /\ t.type # "NO_INJECTION"
         /\ Matches(t, Instr(graph, cur))
         /\ Usable(i)
         /\ graph' = Place(g, t.type, call)
         /\ codelib' = lib
         /\ fresh' = call.id + 1
  /\ todo' = Tail(todo)
  /\ UNCHANGED <<input, outs, pass, pc, table, block, cur, next, before>>

(* A target that matches, of an injection that cannot be carried out: the  *)
(* pass has no environment, the codelib's instance field does not resolve, *)
(* a parameter is abstract, or the codelib's symbols or its dex file lack  *)
(* the method.  Each of these ends the compiler, whatever has been         *)
(* inserted by then.                                                       *)
AbortCompilation ==
  /\ pc = "visit"
  /\ todo # <<>>
  /\ LET t == Policy[Head(todo)[1]].targets[Head(todo)[2]]
     IN  /\ t.type # "NO_INJECTION"
         /\ Matches(t, Instr(graph, cur))
         /\ ~Usable(Head(todo)[1])
  /\ pc' = "aborted"
  /\ UNCHANGED <<input, graph, outs, pass, table, codelib, block, cur, next,
                 todo, fresh, before>>

(* HInstructionIterator::Advance: on to the instruction that was next when *)
(* the visit of cur began.                                                 *)
Advance ==
  /\ pc = "visit"
  /\ cur # 0
  /\ todo = <<>>
  /\ cur' = next
  /\ next' = IF cur' = 0 THEN 0 ELSE Successor(graph, cur')
  /\ todo' = IF cur' = 0 THEN <<>> ELSE Visits(Instr(graph, cur').kind)
  /\ UNCHANGED <<input, graph, outs, pass, pc, table, codelib, block, fresh,
                 before>>

EndVisit ==
  /\ pc = "visit"
  /\ cur = 0
  /\ block = Len(graph)
  /\ pc' = "fix"
  /\ UNCHANGED <<input, graph, outs, pass, table, codelib, block, cur, next,
                 todo, fresh, before>>

(* GetNumberOfArguments; mutant: the receiver is not counted.              *)
MutantNumberOfArguments(x) == IF x.args = 0 THEN 0 ELSE x.args - 1

NumberOfArguments(x) == x.args

Invokes(g) ==
  UNION {{g[b][k] : k \in {j \in DOMAIN g[b] : g[b][j].kind \in InvokeKeys}} :
           b \in DOMAIN g}

(* fixMaximumNumberOfOutVRegs, then the pass of the next module: a new     *)
(* object, with an empty table and no codelib instruction.  Mutant: the    *)
(* while loop goes on to the next instruction only after an invoke.        *)
MutantFixOutVRegs ==
  /\ pc = "fix"
  /\ \A b \in DOMAIN graph : \A k \in DOMAIN graph[b] :
       graph[b][k].kind \in InvokeKeys
  /\ pc' = "done"
  /\ UNCHANGED <<input, graph, outs, pass, table, codelib, block, cur, next,
                 todo, fresh, before>>

FixOutVRegs ==
  /\ pc = "fix"
  /\ outs' = Max({outs} \cup {NumberOfArguments(x) : x \in Invokes(graph)})
  /\ IF pass < Len(input.policies)
     THEN pass' = pass + 1 /\ pc' = "setup"
     ELSE pass' = pass /\ pc' = "done"
  /\ table' = [k \in VisitorKeys |-> <<>>]
  /\ codelib' = 0
  /\ UNCHANGED <<input, graph, block, cur, next, todo, fresh, before>>

Next ==
  \/ SetupPass
  \/ EnterBlock
  \/ PassOver
  \/ Inject
  \/ AbortCompilation
  \/ Advance
  \/ EndVisit
  \/ FixOutVRegs

Spec == Init /\ [][Next]_vars

(* One compiler thread runs all the passes of a method.  The look-ups      *)
(* inside a step may wait for the mutator lock or for call_once;           *)
(* RuntimeLocks shows that a thread that runs passes does not wait there   *)
(* for ever, unless for a constructor that is stuck already.               *)
FairSpec == Spec /\ WF_vars(Next)
----------------------------------------------------------------------------
(* The variables keep their types; identities in the graph are unique and  *)
(* what the visitor holds on to is in the graph.                           *)
TypeOK ==
  /\ input \in InputSpace
  /\ \A b \in DOMAIN graph : \A k \in DOMAIN graph[b] :
       /\ graph[b][k] \in Instruction
       /\ graph[b][k].id < fresh
       /\ At(graph, graph[b][k].id) = <<b, k>>
  /\ pass \in 1..(Len(input.policies) + 1)
  /\ pc \in {"setup", "visit", "fix", "done", "aborted"}
  /\ block \in 0..Len(graph)
  /\ {codelib, cur, next} \subseteq Ids(graph) \cup {0}
  /\ \A k \in VisitorKeys : \A n \in DOMAIN table[k] :
       table[k][n] \in DOMAIN Policy

----------------------------------------------------------------------------
(* What the code's table and its two loops make of a policy, without the   *)
(* walk over a graph that changes: the calls before, after and at the      *)
(* start for one instruction, and the whole graph woven from them.         *)
(*                                                                         *)
(* once(i) is what injection i says of the instruction, a call for each    *)
(* target that names it.  all(i) is what the code does: it repeats that    *)
(* for each target aimed at the kind, since the table has the injection    *)
(* once for each of them (TODO in SetupInjections: "Bug: Using Injection   *)
(* with multiple targets ... Leads to duplicate injections").  The two     *)
(* agree for an injection with one target.  With targets of both kinds,    *)
(* once(i) counts those of the other kind as well, and a call may come     *)
(* behind a return (AfterReturns below).  In both cases the weave is what  *)
(* the code makes of a policy, not what the policy asks for.               *)
Aimed(t, x) ==
  \/ /\ t.type \in {"METHOD_CALL_BEFORE", "METHOD_CALL_AFTER"}
     /\ x.kind \in InvokeKeys
  \/ /\ t.type \in {"METHOD_START", "METHOD_END"}
     /\ x.kind \in ReturnKeys

NamedBy(t, x) ==
  \/ t.generic
  \/ /\ t.type \in {"METHOD_CALL_BEFORE", "METHOD_CALL_AFTER"}
     /\ x.callee \in t.names
  \/ /\ t.type \in {"METHOD_START", "METHOD_END"}
     /\ input.signature \in t.names

Calls(x, types) ==
  LET call(i) == [id |-> 0, inj |-> i, anchor |-> x.id]
      once(i) ==
        FlattenSeq(
          [n \in DOMAIN Policy[i].targets |->
             LET t == Policy[i].targets[n]
             IN  IF t.type \in types /\ NamedBy(t, x) THEN <<call(i)>>
                 ELSE <<>>])
      all(i) ==
        FlattenSeq(
          [n \in DOMAIN Policy[i].targets |->
             IF Aimed(Policy[i].targets[n], x) THEN once(i) ELSE <<>>])
  IN  FlattenSeq([i \in DOMAIN Policy |-> all(i)])

Kept(x) == [id |-> x.id, inj |-> 0, anchor |-> 0]

Loaded == [id |-> 0, inj |-> 0, anchor |-> 0]

BeforeTypes == {"METHOD_CALL_BEFORE", "METHOD_END"}

Around(x) ==
  Calls(x, BeforeTypes) \o <<Kept(x)>>
    \o Reverse(Calls(x, {"METHOD_CALL_AFTER"}))

Bodies(s) == FlattenSeq([k \in DOMAIN s |-> Around(s[k])])

Starts(s) == FlattenSeq([k \in DOMAIN s |-> Calls(s[k], {"METHOD_START"})])

Woven(g) ==
  LET hit == \E b \in DOMAIN g : \E k \in DOMAIN g[b] :
               Calls(g[b][k], TargetTypes \ {"NO_INJECTION"}) # <<>>
      starts == FlattenSeq([b \in DOMAIN g |-> Starts(g[b])])
  IN  [b \in DOMAIN g |->
         IF b = 1
         THEN Bodies(Front(g[1])) \o (IF hit THEN <<Loaded>> ELSE <<>>)
                \o starts \o Around(Last(g[1]))
         ELSE Bodies(g[b])]

(* The graph seen the same way: what this pass added has lost its id.      *)
SeenAs(x) ==
  IF x.by = pass THEN [id |-> 0, inj |-> x.inj, anchor |-> x.anchor]
  ELSE Kept(x)

SeenBlock(blk) == [k \in DOMAIN blk |-> SeenAs(blk[k])]

Seen(g) == [b \in DOMAIN g |-> SeenBlock(g[b])]

(* A pass visits a call it has injected itself.                            *)
VisitsOwnCall ==
  /\ pc = "visit" /\ cur # 0
  /\ LET x == Instr(graph, cur) IN x.kind \in VisitorKeys /\ x.by = pass

Aims(injection, types) ==
  \E n \in DOMAIN injection.targets : injection.targets[n].type \in types

CallTypes == {"METHOD_CALL_BEFORE", "METHOD_CALL_AFTER"}

(* An injection that aims at METHOD_START is carried out at a call as well *)
(* if it has a target for calls.  Where earlier passes have left a call in *)
(* the entry block and more code between it and the end of the block, that *)
(* puts a call behind the instruction the walk comes to next.              *)
MayMeetItself ==
  /\ \E i \in DOMAIN Policy :
       Aims(Policy[i], {"METHOD_START"}) /\ Aims(Policy[i], CallTypes)
  /\ \E k \in DOMAIN before[1] :
       k + 1 < Len(before[1]) /\ before[1][k].kind \in InvokeKeys

(* Walking a graph that changes under the walk makes no difference: the    *)
(* calls are those that the table and the loops make of the method as it   *)
(* was when the pass began, at their places and in the order of the        *)
(* policy; the codelib is loaded once and only if it is used; and nothing  *)
(* else has changed.  The duplicates that the code calls a bug are among   *)
(* these calls, as many as that bug explains and no more.  Passes that may *)
(* meet calls of their own are left out.                                   *)
WovenAsIfStill == pc = "fix" /\ ~MayMeetItself => Seen(graph) = Woven(before)

(* An injection is due at an instruction if one of its targets is aimed at *)
(* the kind and one of them, which may be another one, names the method.   *)
DueAt(injection, x) ==
  /\ \E n \in DOMAIN injection.targets : Aimed(injection.targets[n], x)
  /\ \E n \in DOMAIN injection.targets :
       /\ injection.targets[n].type # "NO_INJECTION"
       /\ NamedBy(injection.targets[n], x)

(* An injection of this pass that cannot be carried out.                   *)
Faulty(injection) ==
  \/ input.libs[pass] # "whole"
  \/ ~injection.listed
  \/ ~injection.resolved
  \/ \E t \in {"tParameter", "tPrimitive"} : Contains(injection.parameters, t)

FaultDue ==
  \E b \in DOMAIN before : \E k \in DOMAIN before[b] : \E i \in DOMAIN Policy :
    Faulty(Policy[i]) /\ DueAt(Policy[i], before[b][k])

(* A pass gives up exactly for an injection it cannot carry out and that   *)
(* has to be injected somewhere: no environment, an instance field that    *)
(* does not resolve, a method that the symbols or the dex file of the      *)
(* codelib lack, an abstract parameter.  One that matches nothing does no  *)
(* harm, not even in a module without a codelib, and none that is due is   *)
(* overlooked.  Only a pass that visits calls of its own may fail at one   *)
(* of those.                                                               *)
FaultyPolicyVerdict ==
  /\ pc = "fix" => ~FaultDue
  /\ pc = "aborted" => FaultDue \/ MayMeetItself

(* A pass does not visit the calls it has injected itself, wherever it     *)
(* inserts them relative to the instruction the walk is at: the walk feeds *)
(* on its own output only if METHOD_START is carried out at calls.         *)
NeverVisitsOwnCalls == VisitsOwnCall => MayMeetItself /\ block = 1

(* A target after any call, in an injection that also aims at returns.     *)
AfterReturns(injection) ==
  /\ \E n \in DOMAIN injection.targets :
       LET t == injection.targets[n]
       IN  t.generic /\ t.type = "METHOD_CALL_AFTER"
  /\ Aims(injection, {"METHOD_START", "METHOD_END"})

(* Every block still ends in the instruction of the method that ended it,  *)
(* however many passes have inserted there.  Only a block that returns may *)
(* not: an injection that mixes a target after any call with one at a      *)
(* return puts calls behind the return, and later passes may follow it.    *)
TerminatorLast ==
  \A b \in DOMAIN graph :
    graph[b] # <<>> =>
      \/ Last(graph[b]) = Last(input.graph[b])
      \/ /\ Last(input.graph[b]).kind \in ReturnKeys
         /\ \E p \in DOMAIN input.policies :
              /\ p <= pass
              /\ \E i \in DOMAIN input.policies[p] :
                   AfterReturns(input.policies[p][i])

(* The codelib instance a call is made on has been loaded before the call  *)
(* in every execution: in the entry block, and earlier if the call is in   *)
(* the entry block too.                                                    *)
CodelibBeforeUse ==
  \A b \in DOMAIN graph : \A k \in DOMAIN graph[b] :
    LET lib == graph[b][k].lib
    IN  lib # 0 => /\ At(graph, lib)[1] = 1
                   /\ b = 1 => At(graph, lib)[2] < k

(* Passes do not disturb each other's codelibs as long as no later pass is *)
(* carried out at the calls of one that aims at METHOD_START: only of such *)
(* a pass there are calls in the block where codelibs are loaded.  A call  *)
(* target makes a pass look at them, and what it names, or a METHOD_END of *)
(* the same injection, makes it insert a call next to them.                *)
CarriedOutAt(callee, injection) ==
  /\ Aims(injection, CallTypes)
  /\ \E n \in DOMAIN injection.targets :
       LET t == injection.targets[n]
       IN  \/ t.type \in CallTypes /\ (t.generic \/ callee \in t.names)
           \/ /\ t.type = "METHOD_END"
              /\ t.generic \/ input.signature \in t.names

AimsAtStartCalls ==
  \E p, q \in DOMAIN input.policies :
    LET earlier == input.policies[p]
        later == input.policies[q]
    IN  /\ p < q
        /\ \E i \in DOMAIN earlier : Aims(earlier[i], {"METHOD_START"})
        /\ \E i \in DOMAIN earlier, j \in DOMAIN later :
             CarriedOutAt(earlier[i].signature, later[j])

CodelibBeforeUseApart == ~AimsAtStartCalls => CodelibBeforeUse

(* When a pass is over, its method reserves at least a register for each   *)
(* argument of every call in it, those of the passes before included.  The *)
(* calls of the app find the registers they had; only an injected call     *)
(* that passes a long or a double may be short of some.                    *)
OutsCoverArguments ==
  pc \in {"setup", "done"} =>
    \A x \in Invokes(graph) :
      /\ x.args <= outs
      /\ x.words > outs =>
           /\ x.by # 0
           /\ \E t \in {"tLong", "tDouble"} :
                Contains(input.policies[x.by][x.inj].parameters, t)

(* The instructions of a block with an identity below n.                   *)
Older(blk, n) ==
  FlattenSeq([k \in DOMAIN blk |-> IF blk[k].id < n THEN <<blk[k]>> ELSE <<>>])

(* Code is only added: a step removes, moves and alters nothing that is in *)
(* the graph.                                                              *)
CodeOnlyAdded ==
  [][\A b \in DOMAIN graph : Older(graph'[b], fresh) = graph[b]]_vars

(* All passes come to an end, although each walks a list it is making      *)
(* longer, unless one begins to visit its own calls.                       *)
PassesEnd == <>(pc \in {"done", "aborted"} \/ VisitsOwnCall)

=============================================================================
