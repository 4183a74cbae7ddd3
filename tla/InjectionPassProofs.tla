------------------------ MODULE InjectionPassProofs ------------------------
(***************************************************************************)
(* For every method, every policy and every number of passes: what the     *)
(* ARTist passes leave of the code, and that the walk over a graph that it *)
(* changes keeps clear of the calls it inserts.                            *)
(***************************************************************************)
EXTENDS InjectionPass, SequenceLemmas

(* A graph with x inserted at place n of block b, and where that puts the  *)
(* instruction that was at place k of block c.                             *)
Put(g, b, n, x) == [g EXCEPT ![b] = InsertAt(@, n, x)]

Shift(b, n, c, k) == IF c = b /\ k >= n THEN k + 1 ELSE k

Graph == Seq(Seq(Instruction))

(* Put changes one block, and only by InsertAt.                            *)
LEMMA PutIs ==
  ASSUME NEW g \in Graph, NEW x \in Instruction,
         NEW b \in DOMAIN g, NEW n \in 1..(Len(g[b]) + 1)
  PROVE  /\ Put(g, b, n, x) \in Graph
         /\ Len(Put(g, b, n, x)) = Len(g)
         /\ DOMAIN Put(g, b, n, x) = DOMAIN g
         /\ Put(g, b, n, x)[b] = InsertAt(g[b], n, x)
         /\ \A c \in DOMAIN g : c # b => Put(g, b, n, x)[c] = g[c]
<1>1. g[b] \in Seq(Instruction)
  BY DEF Graph
<1>2. InsertAt(g[b], n, x) \in Seq(Instruction)
  BY <1>1, InsertAtIs
<1> QED  BY <1>2, ExceptSeq DEF Put, Graph

(* Every instruction of the new graph is the new one, or an old one at its *)
(* new place; and every old one is there.                                  *)
LEMMA PutFrom ==
  ASSUME NEW g \in Graph, NEW x \in Instruction,
         NEW b \in DOMAIN g, NEW n \in 1..(Len(g[b]) + 1),
         NEW c \in DOMAIN g, NEW k \in DOMAIN Put(g, b, n, x)[c]
  PROVE  \/ c = b /\ k = n /\ Put(g, b, n, x)[c][k] = x
         \/ \E m \in DOMAIN g[c] : /\ k = Shift(b, n, c, m)
                                   /\ Put(g, b, n, x)[c][k] = g[c][m]
<1>1. g[c] \in Seq(Instruction)
  BY DEF Graph
<1>2. CASE c # b
  BY <1>2, PutIs DEF Shift
<1>3. CASE c = b
  <2> DEFINE s == g[b]
             t == InsertAt(s, n, x)
  <2>1. /\ t \in Seq(Instruction) /\ Len(t) = Len(s) + 1
        /\ \A j \in 1..(Len(s) + 1) :
             t[j] = IF j < n THEN s[j] ELSE IF j = n THEN x ELSE s[j - 1]
    <3>1. s \in Seq(Instruction) /\ n \in 1..(Len(s) + 1)
      BY <1>1, <1>3
    <3> HIDE DEF s
    <3>2. Inserts(t, s, n, x, Instruction)
      BY <3>1, InsertAtInserts
    <3> QED  BY <3>2 DEF Inserts
  <2>2. Put(g, b, n, x)[c] = t
    BY <1>3, PutIs
  <2>3. k \in 1..(Len(s) + 1) /\ DOMAIN s = 1..Len(s) /\ Len(s) \in Nat
    BY <1>1, <1>3, <2>1, <2>2
  <2> HIDE DEF t
  <2>4. CASE k = n
    BY <1>3, <2>1, <2>2, <2>3, <2>4
  <2>5. CASE k < n
    <3>1. k \in DOMAIN s /\ t[k] = s[k] /\ k = Shift(b, n, c, k)
      BY <1>3, <2>1, <2>3, <2>5 DEF Shift
    <3> QED  BY <1>3, <2>2, <3>1
  <2>6. CASE k > n
    <3>1. k - 1 \in DOMAIN s /\ t[k] = s[k - 1] /\ k = Shift(b, n, c, k - 1)
      BY <1>3, <2>1, <2>3, <2>6 DEF Shift
    <3> QED  BY <1>3, <2>2, <3>1
  <2> QED  BY <2>3, <2>4, <2>5, <2>6
<1> QED  BY <1>2, <1>3

(* The new instruction is where it was put, and every old one at its new   *)
(* place.                                                                  *)
LEMMA PutKeeps ==
  ASSUME NEW g \in Graph, NEW x \in Instruction,
         NEW b \in DOMAIN g, NEW n \in 1..(Len(g[b]) + 1)
  PROVE  /\ n \in DOMAIN Put(g, b, n, x)[b] /\ Put(g, b, n, x)[b][n] = x
         /\ \A c \in DOMAIN g : \A m \in DOMAIN g[c] :
              /\ Shift(b, n, c, m) \in DOMAIN Put(g, b, n, x)[c]
              /\ Put(g, b, n, x)[c][Shift(b, n, c, m)] = g[c][m]
<1> DEFINE s == g[b]
           t == InsertAt(s, n, x)
<1>1. s \in Seq(Instruction) /\ n \in 1..(Len(s) + 1)
  BY DEF Graph
<1> HIDE DEF s
<1>2. /\ t \in Seq(Instruction) /\ Len(t) = Len(s) + 1
      /\ \A j \in 1..(Len(s) + 1) :
           t[j] = IF j < n THEN s[j] ELSE IF j = n THEN x ELSE s[j - 1]
  <2>1. Inserts(t, s, n, x, Instruction)
    BY <1>1, InsertAtInserts
  <2> QED  BY <2>1 DEF Inserts
<1>3. Put(g, b, n, x)[b] = t
  BY PutIs DEF s
<1>4. /\ DOMAIN s = 1..Len(s) /\ DOMAIN t = 1..(Len(s) + 1)
      /\ Len(s) \in Nat
  BY <1>1, <1>2
<1> HIDE DEF t
<1>5. n \in DOMAIN t /\ t[n] = x
  BY <1>1, <1>2, <1>4
<1>6. ASSUME NEW m \in DOMAIN s
      PROVE  Shift(b, n, b, m) \in DOMAIN t /\ t[Shift(b, n, b, m)] = s[m]
  BY <1>2, <1>4 DEF Shift
<1>7. ASSUME NEW c \in DOMAIN g, c # b, NEW m \in DOMAIN g[c]
      PROVE  /\ Shift(b, n, c, m) \in DOMAIN Put(g, b, n, x)[c]
             /\ Put(g, b, n, x)[c][Shift(b, n, c, m)] = g[c][m]
  BY <1>7, PutIs DEF Shift
<1> QED  BY <1>3, <1>5, <1>6, <1>7 DEF s

(* At and Instr find an instruction by its identity, as identities are     *)
(* unique.                                                                 *)
LEMMA AtIs ==
  ASSUME NEW g \in Graph, Unique(g), NEW b \in DOMAIN g, NEW k \in DOMAIN g[b]
  PROVE  /\ At(g, g[b][k].id) = <<b, k>>
         /\ Instr(g, g[b][k].id) = g[b][k]
         /\ g[b][k].id \in Ids(g)
<1> DEFINE id == g[b][k].id
           c == CHOOSE i \in DOMAIN g : \E m \in DOMAIN g[i] : g[i][m].id = id
           n == CHOOSE m \in DOMAIN g[c] : g[c][m].id = id
<1>1. c \in DOMAIN g /\ \E m \in DOMAIN g[c] : g[c][m].id = id
  OBVIOUS
<1> HIDE DEF c
<1>2. n \in DOMAIN g[c] /\ g[c][n].id = id
  BY <1>1
<1>3. c = b /\ n = k
  BY <1>1, <1>2 DEF Unique
<1>4. At(g, id) = <<c, n>>
  BY DEF At, c
<1>5. id \in Ids(g)
  BY DEF Ids
<1>6. At(g, id) = <<b, k>>
  BY <1>3, <1>4
<1> HIDE DEF id
<1>7. Instr(g, id) = g[b][k]
  BY <1>6 DEF Instr
<1> QED  BY <1>5, <1>6, <1>7 DEF id

(* An identity of a graph is that of an instruction, found by At.          *)
LEMMA AtIn ==
  ASSUME NEW g \in Graph, Unique(g), NEW id \in Ids(g)
  PROVE  \E b \in DOMAIN g : \E k \in DOMAIN g[b] :
           g[b][k].id = id /\ At(g, id) = <<b, k>> /\ Instr(g, id) = g[b][k]
<1>1. PICK b \in DOMAIN g : id \in {g[b][k].id : k \in DOMAIN g[b]}
  BY DEF Ids
<1>2. PICK k \in DOMAIN g[b] : g[b][k].id = id
  BY <1>1
<1> QED  BY <1>2, AtIs

(* Put adds one identity.                                                  *)
LEMMA IdsOfPut ==
  ASSUME NEW g \in Graph, NEW x \in Instruction,
         NEW b \in DOMAIN g, NEW n \in 1..(Len(g[b]) + 1)
  PROVE  Ids(Put(g, b, n, x)) = Ids(g) \cup {x.id}
<1> DEFINE h == Put(g, b, n, x)
<1>1. DOMAIN h = DOMAIN g
  BY PutIs
<1>2. ASSUME NEW id \in Ids(h) PROVE id \in Ids(g) \cup {x.id}
  <2>1. PICK c \in DOMAIN g : id \in {h[c][k].id : k \in DOMAIN h[c]}
    BY <1>1, <1>2 DEF Ids
  <2>2. PICK k \in DOMAIN h[c] : h[c][k].id = id
    BY <2>1
  <2>3. h[c][k] = x \/ \E m \in DOMAIN g[c] : h[c][k] = g[c][m]
    BY PutFrom
  <2> HIDE DEF h
  <2> QED  BY <2>2, <2>3 DEF Ids
<1>3. ASSUME NEW id \in Ids(g) PROVE id \in Ids(h)
  <2>1. PICK c \in DOMAIN g : id \in {g[c][k].id : k \in DOMAIN g[c]}
    BY <1>3 DEF Ids
  <2>2. PICK k \in DOMAIN g[c] : g[c][k].id = id
    BY <2>1
  <2>3. PICK m \in DOMAIN h[c] : h[c][m] = g[c][k]
    BY PutKeeps
  <2> HIDE DEF h
  <2> QED  BY <1>1, <2>2, <2>3 DEF Ids
<1>4. x.id \in Ids(h)
  <2>1. n \in DOMAIN h[b] /\ h[b][n] = x
    BY PutKeeps
  <2> HIDE DEF h
  <2> QED  BY <1>1, <2>1 DEF Ids
<1> QED  BY <1>2, <1>3, <1>4

(* Identities stay unique if that of the new instruction is new.           *)
LEMMA PutUnique ==
  ASSUME NEW g \in Graph, Unique(g), NEW x \in Instruction, x.id \notin Ids(g),
         NEW b \in DOMAIN g, NEW n \in 1..(Len(g[b]) + 1)
  PROVE  Unique(Put(g, b, n, x))
<1> DEFINE h == Put(g, b, n, x)
<1>1. DOMAIN h = DOMAIN g
  BY PutIs
<1>2. \A c \in DOMAIN g : \A k \in DOMAIN h[c] :
        \/ c = b /\ k = n /\ h[c][k] = x
        \/ \E m \in DOMAIN g[c] : /\ k = Shift(b, n, c, m)
                                  /\ h[c][k] = g[c][m]
  BY PutFrom
<1>3. \A c \in DOMAIN g : \A m \in DOMAIN g[c] : g[c][m].id # x.id
  BY DEF Ids
<1> HIDE DEF h
<1>4. ASSUME NEW c \in DOMAIN g, NEW d \in DOMAIN g,
             NEW k \in DOMAIN h[c], NEW j \in DOMAIN h[d],
             h[c][k].id = h[d][j].id
      PROVE  c = d /\ k = j
  <2>1. CASE c = b /\ k = n /\ h[c][k] = x
    BY <1>2, <1>3, <1>4, <2>1
  <2>2. CASE \E m \in DOMAIN g[c] : k = Shift(b, n, c, m) /\ h[c][k] = g[c][m]
    <3>1. PICK m \in DOMAIN g[c] : k = Shift(b, n, c, m) /\ h[c][k] = g[c][m]
      BY <2>2
    <3>2. PICK i \in DOMAIN g[d] : j = Shift(b, n, d, i) /\ h[d][j] = g[d][i]
      BY <1>2, <1>3, <1>4, <3>1
    <3>3. c = d /\ m = i
      BY <1>4, <3>1, <3>2 DEF Unique
    <3> QED  BY <3>1, <3>2, <3>3
  <2> QED  BY <1>2, <2>1, <2>2
<1> QED  BY <1>1, <1>4 DEF Unique, h

(* Where At and Instr find the instructions afterwards.                    *)
LEMMA PutAt ==
  ASSUME NEW g \in Graph, Unique(g), NEW x \in Instruction, x.id \notin Ids(g),
         NEW b \in DOMAIN g, NEW n \in 1..(Len(g[b]) + 1)
  PROVE  /\ At(Put(g, b, n, x), x.id) = <<b, n>>
         /\ \A id \in Ids(g) :
              /\ At(Put(g, b, n, x), id) =
                   <<At(g, id)[1], Shift(b, n, At(g, id)[1], At(g, id)[2])>>
              /\ Instr(Put(g, b, n, x), id) = Instr(g, id)
<1> DEFINE h == Put(g, b, n, x)
<1>1. h \in Graph /\ Unique(h) /\ DOMAIN h = DOMAIN g
  BY PutIs, PutUnique
<1>2. At(h, x.id) = <<b, n>>
  <2>1. n \in DOMAIN h[b] /\ h[b][n] = x
    BY PutKeeps
  <2> HIDE DEF h
  <2> QED  BY <1>1, <2>1, AtIs
<1>3. ASSUME NEW id \in Ids(g)
      PROVE  /\ At(h, id) =
                  <<At(g, id)[1], Shift(b, n, At(g, id)[1], At(g, id)[2])>>
             /\ Instr(h, id) = Instr(g, id)
  <2>1. PICK c \in DOMAIN g : \E m \in DOMAIN g[c] :
          g[c][m].id = id /\ At(g, id) = <<c, m>> /\ Instr(g, id) = g[c][m]
    BY AtIn
  <2>2. PICK m \in DOMAIN g[c] :
          g[c][m].id = id /\ At(g, id) = <<c, m>> /\ Instr(g, id) = g[c][m]
    BY <2>1
  <2> DEFINE k == Shift(b, n, c, m)
  <2>3. k \in DOMAIN h[c] /\ h[c][k] = g[c][m]
    BY PutKeeps
  <2> HIDE DEF h, k
  <2>4. At(h, id) = <<c, k>> /\ Instr(h, id) = h[c][k]
    BY <1>1, <2>2, <2>3, AtIs
  <2> QED  BY <2>2, <2>3, <2>4 DEF k
<1> QED  BY <1>2, <1>3

----------------------------------------------------------------------------
(* The inductive invariant.  The parts that speak of the graph take it, the*)
(* codelib instruction and the next identity as arguments: Inject inserts  *)
(* twice, and each insertion keeps them.                                   *)

(* Where an instruction can come from.                                     *)
InjectedBy(x, injection) ==
  /\ x.callee = injection.signature
  /\ x.args = Arguments(injection.parameters)
  /\ x.words = Words(injection.parameters)

Origin(x) ==
  \/ OwnCode(x, input.outs)
  \/ /\ x.by \in DOMAIN input.policies /\ x.by <= pass
     /\ x.kind = "CodeLib" /\ x.lib = 0
  \/ /\ x.by \in DOMAIN input.policies /\ x.by <= pass
     /\ x.kind = "HInvokeVirtual" /\ x.lib # 0
     /\ x.inj \in DOMAIN input.policies[x.by]
     /\ InjectedBy(x, input.policies[x.by][x.inj])

Sound(g, f) ==
  /\ g \in Graph
  /\ Len(g) = Len(input.graph)
  /\ Unique(g)
  /\ f \in Nat \ {0}
  /\ \A b \in DOMAIN g : \A k \in DOMAIN g[b] :
       g[b][k].id < f /\ Origin(g[b][k])

(* The entry block ends as it did, and never holds a return.               *)
Entry(g) ==
  /\ g # <<>> /\ g[1] # <<>>
  /\ Last(g[1]).kind \notin VisitorKeys
  /\ \A k \in DOMAIN g[1] : g[1][k].kind \notin ReturnKeys

(* What the visitor holds on to.                                           *)
Registered(i, kind) ==
  /\ i \in DOMAIN Policy
  /\ kind \in VisitorKeys
  /\ \E n \in DOMAIN Policy[i].targets :
       kind \in KeysOf(Policy[i].targets[n].type)

Walk(g) ==
  cur # 0 =>
    /\ cur \in Ids(g) /\ At(g, cur)[1] = block
    /\ next # 0 => /\ next \in Ids(g) /\ At(g, next)[1] = block
                   /\ At(g, cur)[2] < At(g, next)[2]
    /\ \A n \in DOMAIN todo :
         /\ Registered(todo[n][1], Instr(g, cur).kind)
         /\ todo[n][2] \in DOMAIN Policy[todo[n][1]].targets

Control ==
  /\ pc \in {"setup", "visit", "fix", "done", "aborted"}
  /\ pass \in 1..(Len(input.policies) + 1)
  /\ pc # "done" => pass \in DOMAIN input.policies
  /\ outs \in Nat
  /\ block \in 0..Len(graph)
  /\ pc \notin {"visit", "aborted"} => cur = 0
  /\ cur = 0 => next = 0 /\ todo = <<>>
  /\ todo \in Seq(Nat \X Nat)
  /\ table \in [VisitorKeys -> Seq(Nat)]
  /\ \A k \in VisitorKeys : \A n \in DOMAIN table[k] :
       Registered(table[k][n], k)

(* The codelib instruction, and the calls of this pass made on it.         *)
Codelib(g, lib) ==
  /\ lib # 0 => /\ lib \in Ids(g) /\ At(g, lib)[1] = 1
                /\ At(g, lib)[2] < Len(g[1])
  /\ pc = "setup" => lib = 0
  /\ \A b \in DOMAIN g : \A k \in DOMAIN g[b] :
       LET x == g[b][k]
       IN  /\ pc = "setup" => x.by < pass
           /\ x.by = pass /\ x.kind = "HInvokeVirtual" /\ pc # "done" =>
                x.lib = lib

(* The codelibs of all calls.                                              *)
Libs(g) ==
  \A b \in DOMAIN g : \A k \in DOMAIN g[b] :
    LET lib == g[b][k].lib
    IN  lib # 0 => lib \in Ids(g) /\ At(g, lib)[1] = 1

(* As long as passes keep apart: only calls of passes that aim at the      *)
(* start of methods are in the entry block, behind their codelibs.         *)
Apart(g) ==
  ~AimsAtStartCalls =>
    \A k \in DOMAIN g[1] :
      LET x == g[1][k]
      IN  /\ x.lib # 0 => At(g, x.lib)[2] < k
          /\ x.kind \in InvokeKeys =>
               /\ x.by \in DOMAIN input.policies
               /\ \E i \in DOMAIN input.policies[x.by] :
                    Aims(input.policies[x.by][i], {"METHOD_START"})

Ends(g) ==
  \A b \in DOMAIN g :
    /\ g[b] = <<>> <=> input.graph[b] = <<>>
    /\ g[b] # <<>> =>
         \/ Last(g[b]) = Last(input.graph[b])
         \/ /\ Last(input.graph[b]).kind \in ReturnKeys
            /\ \E p \in DOMAIN input.policies :
                 /\ p <= pass
                 /\ \E i \in DOMAIN input.policies[p] :
                      AfterReturns(input.policies[p][i])

(* A place the walk does not come to any more.                             *)
Behind(g, b, k) ==
  \/ b < block
  \/ /\ b = block
     /\ cur # 0 => /\ k # At(g, cur)[2]
                   /\ next # 0 => k < At(g, next)[2]

OwnBehind(g) ==
  pc = "visit" =>
    \A b \in DOMAIN g : \A k \in DOMAIN g[b] :
      /\ g[b][k].by = pass /\ g[b][k].kind \in VisitorKeys
      /\ ~ (b = 1 /\ MayMeetItself)
      => Behind(g, b, k)

(* Unless a call is left inside the entry block, the walk through it comes *)
(* to its end before anything is inserted there, or at once after.         *)
CallInside(g) ==
  \E k \in DOMAIN g[1] : k + 1 < Len(g[1]) /\ g[1][k].kind \in InvokeKeys

Ahead(g) ==
  pc = "visit" =>
    /\ block = 0 => g = before /\ cur = 0
    /\ block = 1 /\ ~CallInside(before) =>
         \/ next = 0
         \/ next = EntryEnd(g)
         \/ g = before /\ cur # 0 /\ next = Successor(g, cur)

Reserved ==
  /\ input.outs <= outs
  /\ pc \in {"setup", "done"} => \A x \in Invokes(graph) : x.args <= outs

GraphInv(g, lib, f) ==
  /\ Sound(g, f)
  /\ Entry(g)
  /\ Walk(g)
  /\ Codelib(g, lib)
  /\ Libs(g)
  /\ Apart(g)
  /\ Ends(g)
  /\ OwnBehind(g)
  /\ Ahead(g)

PassInv ==
  /\ input \in Inputs
  /\ Control
  /\ Reserved
  /\ GraphInv(graph, codelib, fresh)

----------------------------------------------------------------------------
(* The entry of a key has the injections with a target registered for it,  *)
(* and a visit the targets of the injections in the entry.                 *)
Registrations(targets, key, i) ==
  [n \in DOMAIN targets |->
     IF key \in KeysOf(targets[n].type) THEN <<i>> ELSE <<>>]

(* The part of one injection in the entry of a key.                        *)
LEMMA EntryOfOne ==
  ASSUME NEW targets \in Seq(Target), NEW key, NEW i \in Nat
  PROVE  /\ FlattenSeq(Registrations(targets, key, i)) \in Seq(Nat)
         /\ \A n \in DOMAIN FlattenSeq(Registrations(targets, key, i)) :
              /\ FlattenSeq(Registrations(targets, key, i))[n] = i
              /\ \E m \in DOMAIN targets : key \in KeysOf(targets[m].type)
<1> DEFINE part == Registrations(targets, key, i)
           e == FlattenSeq(part)
<1>1. part \in Seq(Seq(Nat)) /\ Len(part) = Len(targets)
  <2>1. /\ DOMAIN targets = 1..Len(targets) /\ Len(targets) \in Nat
        /\ <<i>> \in Seq(Nat) /\ <<>> \in Seq(Nat)
    OBVIOUS
  <2>2. part \in [1..Len(targets) -> Seq(Nat)]
    BY <2>1 DEF Registrations
  <2> HIDE DEF part
  <2> QED  BY <2>1, <2>2, FunctionIsSeq
<1>2. \A m \in DOMAIN targets :
        part[m] = IF key \in KeysOf(targets[m].type) THEN <<i>> ELSE <<>>
  BY DEF Registrations
<1>3. DOMAIN targets = 1..Len(targets)
  OBVIOUS
<1> HIDE DEF part
<1>4. e \in Seq(Nat)
  BY <1>1, FlattenType
<1>5. ASSUME NEW n \in DOMAIN e
      PROVE  /\ e[n] = i
             /\ \E m \in DOMAIN targets : key \in KeysOf(targets[m].type)
  <2>1. n \in 1..Len(FlattenSeq(part))
    BY <1>4
  <2>2. PICK m \in 1..Len(part) : \E k \in 1..Len(part[m]) : e[n] = part[m][k]
    BY <1>1, <2>1, FlattenElement
  <2>3. PICK k \in 1..Len(part[m]) : e[n] = part[m][k]
    BY <2>2
  <2>4. m \in DOMAIN targets
    BY <1>1, <1>3
  <2>5. CASE key \in KeysOf(targets[m].type)
    <3>1. part[m] = <<i>>
      BY <1>2, <2>4, <2>5
    <3> QED  BY <2>3, <2>4, <2>5, <3>1
  <2>6. CASE key \notin KeysOf(targets[m].type)
    <3>1. part[m] = <<>>
      BY <1>2, <2>4, <2>6
    <3> QED  BY <2>3, <3>1
  <2> QED  BY <2>5, <2>6
<1> QED  BY <1>4, <1>5 DEF part

(* The entry of a key has injections with a target registered for it.      *)
LEMMA TableEntryIs ==
  ASSUME NEW policy \in Seq(DeclaredInjection), NEW key
  PROVE  /\ TableEntry(policy, key) \in Seq(Nat)
         /\ \A n \in DOMAIN TableEntry(policy, key) :
              LET i == TableEntry(policy, key)[n]
              IN  /\ i \in DOMAIN policy
                  /\ \E m \in DOMAIN policy[i].targets :
                       key \in KeysOf(policy[i].targets[m].type)
<1> DEFINE one(i) == FlattenSeq(Registrations(policy[i].targets, key, i))
           all == [i \in DOMAIN policy |-> one(i)]
           e == FlattenSeq(all)
<1>1. DOMAIN policy = 1..Len(policy) /\ Len(policy) \in Nat
  OBVIOUS
<1>2. ASSUME NEW i \in DOMAIN policy
      PROVE  /\ one(i) \in Seq(Nat)
             /\ \A n \in DOMAIN one(i) :
                  /\ one(i)[n] = i
                  /\ \E m \in DOMAIN policy[i].targets :
                       key \in KeysOf(policy[i].targets[m].type)
  <2>1. policy[i] \in DeclaredInjection
    BY ElementOfSeq, <1>1
  <2>2. policy[i].targets \in Seq(Target) /\ i \in Nat
    BY <1>1, <2>1 DEF DeclaredInjection
  <2> QED  BY <2>2, EntryOfOne
<1> HIDE DEF one
<1>3. all \in [1..Len(policy) -> Seq(Nat)]
  BY <1>1, <1>2
<1>4. \A i \in DOMAIN policy : all[i] = one(i)
  OBVIOUS
<1> HIDE DEF all
<1>5. all \in Seq(Seq(Nat)) /\ Len(all) = Len(policy)
  BY <1>1, <1>3, FunctionIsSeq
<1>6. e \in Seq(Nat)
  BY <1>5, FlattenType
<1>7. ASSUME NEW n \in DOMAIN e
      PROVE  /\ e[n] \in DOMAIN policy
             /\ \E m \in DOMAIN policy[e[n]].targets :
                  key \in KeysOf(policy[e[n]].targets[m].type)
  <2>1. n \in 1..Len(FlattenSeq(all))
    BY <1>6
  <2>2. PICK i \in 1..Len(all) : \E k \in 1..Len(all[i]) : e[n] = all[i][k]
    BY <1>5, <2>1, FlattenElement
  <2>3. PICK k \in 1..Len(all[i]) : e[n] = all[i][k]
    BY <2>2
  <2>4. i \in DOMAIN policy /\ all[i] = one(i) /\ one(i) \in Seq(Nat)
    BY <1>1, <1>2, <1>4, <1>5
  <2>5. k \in DOMAIN one(i) /\ e[n] = one(i)[k]
    BY <2>3, <2>4
  <2> QED  BY <1>2, <2>4, <2>5
<1>8. e = TableEntry(policy, key)
  BY DEF TableEntry, all, one, Registrations
<1> HIDE DEF e
<1> QED  BY <1>6, <1>7, <1>8

(* A visit is made of targets of injections registered for the kind of the *)
(* instruction.                                                            *)
LEMMA VisitsAre ==
  ASSUME table \in [VisitorKeys -> Seq(Nat)], NEW kind,
         \A k \in VisitorKeys : \A n \in DOMAIN table[k] :
           Registered(table[k][n], k),
         \A i \in DOMAIN Policy : Policy[i] \in DeclaredInjection
  PROVE  /\ Visits(kind) \in Seq(Nat \X Nat)
         /\ \A n \in DOMAIN Visits(kind) :
              /\ Registered(Visits(kind)[n][1], kind)
              /\ Visits(kind)[n][2] \in
                   DOMAIN Policy[Visits(kind)[n][1]].targets
<1>1. CASE kind \notin VisitorKeys
  BY <1>1, EmptySeq DEF Visits
<1>2. CASE kind \in VisitorKeys
  <2> DEFINE t == table[kind]
             one(k) == [n \in DOMAIN Policy[t[k]].targets |-> <<t[k], n>>]
             all == [k \in DOMAIN t |-> one(k)]
             e == FlattenSeq(all)
  <2>1. /\ t \in Seq(Nat) /\ DOMAIN t = 1..Len(t) /\ Len(t) \in Nat
        /\ \A k \in DOMAIN t : t[k] \in Nat /\ Registered(t[k], kind)
    BY <1>2
  <2> HIDE DEF t
  <2>2. ASSUME NEW k \in DOMAIN t
        PROVE  /\ one(k) \in Seq(Nat \X Nat)
               /\ \A n \in DOMAIN one(k) :
                    /\ n \in DOMAIN Policy[t[k]].targets
                    /\ one(k)[n] = <<t[k], n>>
    <3> DEFINE s == Policy[t[k]].targets
    <3>1. t[k] \in DOMAIN Policy
      BY <2>1 DEF Registered
    <3>2. s \in Seq(Target)
      BY <3>1 DEF DeclaredInjection
    <3>3. DOMAIN s = 1..Len(s) /\ Len(s) \in Nat
      BY <3>2
    <3> HIDE DEF s
    <3>4. \A n \in DOMAIN s : n \in Nat /\ t[k] \in Nat
      BY <2>1, <3>3
    <3>5. [n \in DOMAIN s |-> <<t[k], n>>] \in [1..Len(s) -> Nat \X Nat]
      BY <3>3, <3>4
    <3>6. [n \in DOMAIN s |-> <<t[k], n>>] \in Seq(Nat \X Nat)
      BY <3>3, <3>5, FunctionIsSeq
    <3>7. one(k) = [n \in DOMAIN s |-> <<t[k], n>>]
      BY DEF s
    <3>8. \A n \in DOMAIN s : [m \in DOMAIN s |-> <<t[k], m>>][n] = <<t[k], n>>
      OBVIOUS
    <3>9. DOMAIN [n \in DOMAIN s |-> <<t[k], n>>] = DOMAIN s
      OBVIOUS
    <3> HIDE DEF one
    <3> QED  BY <3>6, <3>7, <3>8, <3>9 DEF s
  <2> HIDE DEF one
  <2>3. all \in [1..Len(t) -> Seq(Nat \X Nat)]
    BY <2>1, <2>2
  <2>4. \A k \in DOMAIN t : all[k] = one(k)
    OBVIOUS
  <2> HIDE DEF all
  <2>5. all \in Seq(Seq(Nat \X Nat)) /\ Len(all) = Len(t)
    BY <2>1, <2>3, FunctionIsSeq
  <2>6. e \in Seq(Nat \X Nat)
    BY <2>5, FlattenType
  <2>7. ASSUME NEW n \in DOMAIN e
        PROVE  /\ Registered(e[n][1], kind)
               /\ e[n][2] \in DOMAIN Policy[e[n][1]].targets
    <3>1. n \in 1..Len(FlattenSeq(all))
      BY <2>6
    <3>2. PICK i \in 1..Len(all) : \E k \in 1..Len(all[i]) : e[n] = all[i][k]
      BY <2>5, <3>1, FlattenElement
    <3>3. PICK k \in 1..Len(all[i]) : e[n] = all[i][k]
      BY <3>2
    <3>4. i \in DOMAIN t /\ all[i] = one(i) /\ one(i) \in Seq(Nat \X Nat)
      BY <2>1, <2>2, <2>4, <2>5
    <3>5. k \in DOMAIN one(i) /\ e[n] = one(i)[k]
      BY <3>3, <3>4
    <3>6. e[n] = <<t[i], k>> /\ k \in DOMAIN Policy[t[i]].targets
      BY <2>2, <3>4, <3>5
    <3>7. Registered(t[i], kind)
      BY <2>1, <3>4
    <3> QED  BY <3>6, <3>7
  <2>8. e = Visits(kind)
    BY <1>2 DEF Visits, all, one, t
  <2> HIDE DEF e
  <2> QED  BY <2>6, <2>7, <2>8
<1> QED  BY <1>1, <1>2

----------------------------------------------------------------------------
(* What may be put into a graph: a new instruction of the pass.            *)
Placed(g, f, b, n, x) ==
  /\ Sound(g, f)
  /\ x \in Instruction /\ x.id = f /\ Origin(x)
  /\ b \in DOMAIN g /\ n \in 1..(Len(g[b]) + 1)

(* At names a place of the graph.                                          *)
LEMMA AtType ==
  ASSUME NEW g \in Graph, Unique(g), NEW id \in Ids(g)
  PROVE  /\ At(g, id)[1] \in DOMAIN g
         /\ At(g, id)[2] \in 1..Len(g[At(g, id)[1]])
         /\ At(g, id)[2] \in Nat /\ At(g, id)[1] \in Nat
         /\ g[At(g, id)[1]][At(g, id)[2]] = Instr(g, id)
         /\ Instr(g, id) \in Instruction /\ Instr(g, id).id = id
         /\ At(g, id) = <<At(g, id)[1], At(g, id)[2]>>
         /\ id \in Nat \ {0}
<1>1. PICK b \in DOMAIN g : \E k \in DOMAIN g[b] :
        g[b][k].id = id /\ At(g, id) = <<b, k>> /\ Instr(g, id) = g[b][k]
  BY AtIn
<1>2. PICK k \in DOMAIN g[b] :
        g[b][k].id = id /\ At(g, id) = <<b, k>> /\ Instr(g, id) = g[b][k]
  BY <1>1
<1>3. g[b] \in Seq(Instruction) /\ b \in Nat
  BY DEF Graph
<1>4. /\ k \in 1..Len(g[b]) /\ k \in Nat /\ g[b][k] \in Instruction
  BY <1>3
<1>5. g[b][k].id \in Nat \ {0}
  BY <1>4 DEF Instruction
<1> QED  BY <1>2, <1>3, <1>4, <1>5

(* The next identity is not in the graph.                                  *)
LEMMA FreshIsNew ==
  ASSUME NEW g, NEW f, Sound(g, f)
  PROVE  f \notin Ids(g)
<1> SUFFICES ASSUME f \in Ids(g) PROVE FALSE
  OBVIOUS
<1>1. g \in Graph /\ Unique(g)
  BY DEF Sound
<1>2. PICK b \in DOMAIN g : \E k \in DOMAIN g[b] :
        g[b][k].id = f /\ At(g, f) = <<b, k>> /\ Instr(g, f) = g[b][k]
  BY <1>1, AtIn
<1>3. f < f
  BY <1>2 DEF Sound
<1> QED  BY <1>3 DEF Sound

(* The effect of Put, together.                                            *)
LEMMA PutEffect ==
  ASSUME NEW g, NEW f, NEW b, NEW n, NEW x, Placed(g, f, b, n, x),
         NEW h, h = Put(g, b, n, x)
  PROVE  /\ h \in Graph /\ Unique(h) /\ DOMAIN h = DOMAIN g /\ Len(h) = Len(g)
         /\ At(h, f) = <<b, n>> /\ Ids(h) = Ids(g) \cup {f}
         /\ n \in DOMAIN h[b] /\ h[b][n] = x
         /\ Len(h[b]) = Len(g[b]) + 1
         /\ \A c \in DOMAIN g : c # b => h[c] = g[c]
         /\ \A id \in Ids(g) :
              /\ At(h, id) =
                   <<At(g, id)[1], Shift(b, n, At(g, id)[1], At(g, id)[2])>>
              /\ Instr(h, id) = Instr(g, id)
         /\ \A c \in DOMAIN g : \A k \in DOMAIN h[c] :
              \/ c = b /\ k = n /\ h[c][k] = x
              \/ \E m \in DOMAIN g[c] : k = Shift(b, n, c, m)
                                        /\ h[c][k] = g[c][m]
         /\ \A c \in DOMAIN g : \A m \in DOMAIN g[c] :
              /\ Shift(b, n, c, m) \in DOMAIN h[c]
              /\ h[c][Shift(b, n, c, m)] = g[c][m]
<1>1. /\ g \in Graph /\ Unique(g) /\ x \in Instruction /\ x.id = f
      /\ b \in DOMAIN g /\ n \in 1..(Len(g[b]) + 1)
  BY DEF Placed, Sound
<1>2. f \notin Ids(g)
  BY FreshIsNew DEF Placed
<1>3. /\ h \in Graph /\ Unique(h) /\ DOMAIN h = DOMAIN g /\ Len(h) = Len(g)
      /\ h[b] = InsertAt(g[b], n, x)
      /\ \A c \in DOMAIN g : c # b => h[c] = g[c]
  BY <1>1, <1>2, PutIs, PutUnique
<1>4. Len(h[b]) = Len(g[b]) + 1
  <2>1. g[b] \in Seq(Instruction)
    BY <1>1 DEF Graph
  <2> QED  BY <1>1, <1>3, <2>1, InsertAtIs
<1>5. /\ At(h, f) = <<b, n>>
      /\ \A id \in Ids(g) :
           /\ At(h, id) =
                <<At(g, id)[1], Shift(b, n, At(g, id)[1], At(g, id)[2])>>
           /\ Instr(h, id) = Instr(g, id)
  BY <1>1, <1>2, PutAt
<1>6. Ids(h) = Ids(g) \cup {f}
  BY <1>1, IdsOfPut
<1>7. n \in DOMAIN h[b] /\ h[b][n] = x
  BY <1>1, PutKeeps
<1>8. \A c \in DOMAIN g : \A k \in DOMAIN h[c] :
        \/ c = b /\ k = n /\ h[c][k] = x
        \/ \E m \in DOMAIN g[c] : k = Shift(b, n, c, m) /\ h[c][k] = g[c][m]
  BY <1>1, PutFrom
<1>9. \A c \in DOMAIN g : \A m \in DOMAIN g[c] :
        /\ Shift(b, n, c, m) \in DOMAIN h[c]
        /\ h[c][Shift(b, n, c, m)] = g[c][m]
  BY <1>1, PutKeeps
<1> QED  BY <1>3, <1>4, <1>5, <1>6, <1>7, <1>8, <1>9

(* Put keeps identities and origins in order.                              *)
LEMMA SoundPut ==
  ASSUME NEW g, NEW f, NEW b, NEW n, NEW x, Placed(g, f, b, n, x)
  PROVE  Sound(Put(g, b, n, x), f + 1)
<1> DEFINE h == Put(g, b, n, x)
<1>1. /\ h \in Graph /\ Unique(h) /\ DOMAIN h = DOMAIN g /\ Len(h) = Len(g)
      /\ \A c \in DOMAIN g : \A k \in DOMAIN h[c] :
           \/ c = b /\ k = n /\ h[c][k] = x
           \/ \E m \in DOMAIN g[c] : k = Shift(b, n, c, m)
                                     /\ h[c][k] = g[c][m]
  BY PutEffect
<1>2. /\ Len(g) = Len(input.graph) /\ f \in Nat \ {0} /\ g \in Graph
      /\ \A c \in DOMAIN g : \A m \in DOMAIN g[c] :
           g[c][m].id < f /\ Origin(g[c][m])
      /\ x.id = f /\ Origin(x)
  BY DEF Placed, Sound
<1> HIDE DEF h
<1>3. ASSUME NEW c \in DOMAIN g, NEW k \in DOMAIN h[c]
      PROVE  h[c][k].id < f + 1 /\ Origin(h[c][k])
  <2>1. CASE h[c][k] = x
    BY <1>2, <2>1
  <2>2. ASSUME NEW m \in DOMAIN g[c], h[c][k] = g[c][m]
        PROVE  h[c][k].id < f + 1 /\ Origin(h[c][k])
    <3>1. g[c][m] \in Instruction
      BY <1>2, ElementOfSeq DEF Graph
    <3>2. g[c][m].id \in Nat
      BY <3>1 DEF Instruction
    <3> QED  BY <1>2, <2>2, <3>2
  <2> QED  BY <1>1, <2>1, <2>2
<1> QED  BY <1>1, <1>2, <1>3 DEF Sound, h

(* What is put before the end of a block leaves its last instruction.      *)
LEMMA LastOfPut ==
  ASSUME NEW g, NEW f, NEW b, NEW n, NEW x, Placed(g, f, b, n, x),
         n <= Len(g[b])
  PROVE  /\ g[b] # <<>> /\ Put(g, b, n, x)[b] # <<>>
         /\ Last(Put(g, b, n, x)[b]) = Last(g[b])
<1> DEFINE h == Put(g, b, n, x)
<1>1. /\ g \in Graph /\ b \in DOMAIN g /\ n \in 1..(Len(g[b]) + 1)
  BY DEF Placed, Sound
<1>2. /\ h \in Graph /\ DOMAIN h = DOMAIN g
      /\ Len(h[b]) = Len(g[b]) + 1
      /\ \A m \in DOMAIN g[b] : h[b][Shift(b, n, b, m)] = g[b][m]
  BY <1>1, PutEffect
<1> HIDE DEF h
<1>3. /\ g[b] \in Seq(Instruction) /\ h[b] \in Seq(Instruction)
      /\ Len(g[b]) \in Nat
  BY <1>1, <1>2 DEF Graph
<1>4. Len(g[b]) \in DOMAIN g[b] /\ g[b] # <<>> /\ h[b] # <<>>
  BY <1>1, <1>2, <1>3
<1>5. Shift(b, n, b, Len(g[b])) = Len(g[b]) + 1
  BY DEF Shift
<1>6. h[b][Len(g[b]) + 1] = g[b][Len(g[b])]
  BY <1>2, <1>4, <1>5
<1> QED  BY <1>2, <1>3, <1>4, <1>6, LastIs DEF h

(* The entry block keeps its end.                                          *)
LEMMA EntryPut ==
  ASSUME NEW g, NEW f, NEW b, NEW n, NEW x, Placed(g, f, b, n, x),
         Entry(g), x.kind \notin ReturnKeys, b = 1 => n <= Len(g[1])
  PROVE  /\ Entry(Put(g, b, n, x))
         /\ EntryEnd(Put(g, b, n, x)) = EntryEnd(g)
<1> DEFINE h == Put(g, b, n, x)
<1>0. 1 \in DOMAIN g
  BY DEF Placed, Sound, Graph
<1>1. Last(h[1]) = Last(g[1]) /\ h[1] # <<>>
  <2>1. CASE b = 1
    BY <2>1, LastOfPut
  <2>2. CASE b # 1
    <3>1. h[1] = g[1]
      BY <1>0, <2>2, PutEffect
    <3> QED  BY <3>1 DEF Entry
  <2> QED  BY <2>1, <2>2
<1>2. ASSUME NEW k \in DOMAIN h[1] PROVE h[1][k].kind \notin ReturnKeys
  <2>1. h[1][k] = x \/ \E m \in DOMAIN g[1] : h[1][k] = g[1][m]
    BY <1>0, PutEffect
  <2> HIDE DEF h
  <2> QED  BY <2>1 DEF Entry
<1>3. DOMAIN h = DOMAIN g
  BY PutEffect
<1> HIDE DEF h
<1>4. h # <<>>
  BY <1>0, <1>3
<1> QED  BY <1>1, <1>2, <1>4 DEF Entry, EntryEnd, h

(* Shift keeps the order of places and leaves the new place free.          *)
LEMMA ShiftIs ==
  ASSUME NEW b, NEW n \in Nat, NEW c, NEW k \in Nat, NEW m \in Nat
  PROVE  /\ Shift(b, n, c, k) \in Nat
         /\ k < m => Shift(b, n, c, k) < Shift(b, n, c, m)
         /\ k # m => Shift(b, n, c, k) # Shift(b, n, c, m)
         /\ Shift(b, n, c, k) # n \/ c # b
  BY DEF Shift

(* The types of a place.                                                   *)
LEMMA PlacedNat ==
  ASSUME NEW g, NEW f, NEW b, NEW n, NEW x, Placed(g, f, b, n, x)
  PROVE  /\ n \in Nat /\ b \in Nat \ {0} /\ g \in Graph /\ Unique(g)
         /\ \A c \in DOMAIN g : /\ g[c] \in Seq(Instruction)
                                /\ DOMAIN g[c] = 1..Len(g[c])
                                /\ Len(g[c]) \in Nat
<1>1. g \in Graph /\ b \in DOMAIN g /\ n \in 1..(Len(g[b]) + 1) /\ Unique(g)
  BY DEF Placed, Sound
<1>2. \A c \in DOMAIN g : g[c] \in Seq(Instruction)
  BY <1>1 DEF Graph
<1>3. b \in Nat \ {0}
  BY <1>1 DEF Graph
<1> QED  BY <1>1, <1>2, <1>3

(* The instructions that the walk holds on to stay in order.               *)
LEMMA WalkPut ==
  ASSUME NEW g, NEW f, NEW b, NEW n, NEW x, Placed(g, f, b, n, x), Walk(g)
  PROVE  Walk(Put(g, b, n, x))
<1> DEFINE h == Put(g, b, n, x)
<1> SUFFICES ASSUME cur # 0
             PROVE  /\ cur \in Ids(h) /\ At(h, cur)[1] = block
                    /\ next # 0 => /\ next \in Ids(h)
                                   /\ At(h, next)[1] = block
                                   /\ At(h, cur)[2] < At(h, next)[2]
                    /\ Instr(h, cur) = Instr(g, cur)
  BY DEF Walk
<1>1. /\ Ids(g) \subseteq Ids(h)
      /\ \A id \in Ids(g) :
           /\ At(h, id) =
                <<At(g, id)[1], Shift(b, n, At(g, id)[1], At(g, id)[2])>>
           /\ Instr(h, id) = Instr(g, id)
  BY PutEffect
<1> HIDE DEF h
<1>2. n \in Nat /\ g \in Graph /\ Unique(g)
  BY PlacedNat
<1>3. cur \in Ids(g) /\ At(g, cur)[1] = block
  BY DEF Walk
<1>4. /\ cur \in Ids(h) /\ At(h, cur)[1] = block
      /\ At(h, cur)[2] = Shift(b, n, block, At(g, cur)[2])
      /\ Instr(h, cur) = Instr(g, cur)
  BY <1>1, <1>3
<1>5. ASSUME next # 0
      PROVE  /\ next \in Ids(h) /\ At(h, next)[1] = block
             /\ At(h, cur)[2] < At(h, next)[2]
  <2>1. /\ next \in Ids(g) /\ At(g, next)[1] = block
        /\ At(g, cur)[2] < At(g, next)[2]
    BY <1>5 DEF Walk
  <2>2. /\ next \in Ids(h) /\ At(h, next)[1] = block
        /\ At(h, next)[2] = Shift(b, n, block, At(g, next)[2])
    BY <1>1, <2>1
  <2>3. At(g, cur)[2] \in Nat /\ At(g, next)[2] \in Nat
    BY <1>2, <1>3, <2>1, AtType
  <2> QED  BY <1>2, <1>4, <2>1, <2>2, <2>3, ShiftIs
<1> QED  BY <1>4, <1>5

(* The codelibs of calls stay in the entry block.                          *)
LEMMA LibsPut ==
  ASSUME NEW g, NEW f, NEW b, NEW n, NEW x, Placed(g, f, b, n, x), Libs(g),
         x.lib # 0 => x.lib \in Ids(g) /\ At(g, x.lib)[1] = 1
  PROVE  Libs(Put(g, b, n, x))
<1> DEFINE h == Put(g, b, n, x)
<1>1. /\ DOMAIN h = DOMAIN g /\ Ids(g) \subseteq Ids(h)
      /\ \A id \in Ids(g) : At(h, id)[1] = At(g, id)[1]
      /\ \A c \in DOMAIN g : \A k \in DOMAIN h[c] :
           h[c][k] = x \/ \E m \in DOMAIN g[c] : h[c][k] = g[c][m]
  BY PutEffect
<1> HIDE DEF h
<1>2. ASSUME NEW c \in DOMAIN g, NEW k \in DOMAIN h[c], h[c][k].lib # 0
      PROVE  h[c][k].lib \in Ids(h) /\ At(h, h[c][k].lib)[1] = 1
  BY <1>1, <1>2 DEF Libs
<1> QED  BY <1>1, <1>2 DEF Libs, h

(* The codelibs of calls in the entry block stay before them, if that of   *)
(* the new instruction is.                                                 *)
LEMMA ApartPut ==
  ASSUME NEW g, NEW f, NEW b, NEW n, NEW x, Placed(g, f, b, n, x),
         Libs(g), Apart(g),
         ~AimsAtStartCalls /\ b = 1 =>
           /\ x.lib # 0 => /\ x.lib \in Ids(g) /\ At(g, x.lib)[1] = 1
                           /\ At(g, x.lib)[2] < n
           /\ x.kind \in InvokeKeys =>
                /\ x.by \in DOMAIN input.policies
                /\ \E i \in DOMAIN input.policies[x.by] :
                     Aims(input.policies[x.by][i], {"METHOD_START"})
  PROVE  Apart(Put(g, b, n, x))
<1> DEFINE h == Put(g, b, n, x)
           Early(y) == y.kind \in InvokeKeys =>
                         /\ y.by \in DOMAIN input.policies
                         /\ \E i \in DOMAIN input.policies[y.by] :
                              Aims(input.policies[y.by][i], {"METHOD_START"})
<1> SUFFICES ASSUME ~AimsAtStartCalls, NEW k \in DOMAIN h[1]
             PROVE  /\ h[1][k].lib # 0 => At(h, h[1][k].lib)[2] < k
                    /\ Early(h[1][k])
  BY DEF Apart
<1>0. 1 \in DOMAIN g
  BY DEF Placed, Sound, Graph
<1>1. /\ \A id \in Ids(g) : At(g, id)[1] = 1 =>
           At(h, id)[2] = Shift(b, n, 1, At(g, id)[2])
      /\ \/ 1 = b /\ k = n /\ h[1][k] = x
         \/ \E m \in DOMAIN g[1] : k = Shift(b, n, 1, m) /\ h[1][k] = g[1][m]
  <2>1. \A id \in Ids(g) :
          At(h, id) = <<At(g, id)[1], Shift(b, n, At(g, id)[1], At(g, id)[2])>>
    BY PutEffect
  <2>2. \/ 1 = b /\ k = n /\ h[1][k] = x
        \/ \E m \in DOMAIN g[1] : k = Shift(b, n, 1, m) /\ h[1][k] = g[1][m]
    BY <1>0, PutEffect
  <2> HIDE DEF h
  <2> QED  BY <2>1, <2>2
<1>2. n \in Nat /\ g \in Graph /\ Unique(g) /\ DOMAIN g[1] \subseteq Nat
  BY <1>0, PlacedNat
<1> HIDE DEF h
<1>3. CASE 1 = b /\ k = n /\ h[1][k] = x
  <2>1. Early(x)
    BY <1>3
  <2>2. ASSUME x.lib # 0 PROVE At(h, x.lib)[2] < k
    <3>1. x.lib \in Ids(g) /\ At(g, x.lib)[1] = 1 /\ At(g, x.lib)[2] < n
      BY <1>3, <2>2
    <3>2. At(h, x.lib)[2] = Shift(b, n, 1, At(g, x.lib)[2])
      BY <1>1, <3>1
    <3>3. At(g, x.lib)[2] \in Nat
      BY <1>2, <3>1, AtType
    <3> QED  BY <1>2, <1>3, <3>1, <3>2, <3>3 DEF Shift
  <2> QED  BY <1>3, <2>1, <2>2
<1>4. ASSUME NEW m \in DOMAIN g[1], k = Shift(b, n, 1, m), h[1][k] = g[1][m]
      PROVE  /\ h[1][k].lib # 0 => At(h, h[1][k].lib)[2] < k
             /\ Early(h[1][k])
  <2> DEFINE y == g[1][m]
  <2>1. Early(y) /\ (y.lib # 0 => At(g, y.lib)[2] < m)
    BY DEF Apart
  <2>2. ASSUME y.lib # 0 PROVE At(h, y.lib)[2] < k
    <3>1. y.lib \in Ids(g) /\ At(g, y.lib)[1] = 1 /\ At(g, y.lib)[2] < m
      BY <1>0, <2>1, <2>2 DEF Libs
    <3>2. At(h, y.lib)[2] = Shift(b, n, 1, At(g, y.lib)[2])
      BY <1>1, <3>1
    <3>3. At(g, y.lib)[2] \in Nat /\ m \in Nat
      BY <1>2, <3>1, AtType
    <3> HIDE DEF y
    <3> QED  BY <1>2, <1>4, <3>1, <3>2, <3>3, ShiftIs
  <2> HIDE DEF Early
  <2> QED  BY <1>4, <2>1, <2>2
<1> QED  BY <1>1, <1>3, <1>4

Prolonged(b) ==
  /\ Last(input.graph[b]).kind \in ReturnKeys
  /\ \E p \in DOMAIN input.policies :
       /\ p <= pass
       /\ \E i \in DOMAIN input.policies[p] :
            AfterReturns(input.policies[p][i])

(* The blocks keep their ends, or may be prolonged.                        *)
LEMMA EndsPut ==
  ASSUME NEW g, NEW f, NEW b, NEW n, NEW x, Placed(g, f, b, n, x), Ends(g),
         g[b] # <<>>, n <= Len(g[b]) \/ Prolonged(b)
  PROVE  Ends(Put(g, b, n, x))
<1> DEFINE h == Put(g, b, n, x)
<1>1. /\ DOMAIN h = DOMAIN g /\ h[b] # <<>>
      /\ \A c \in DOMAIN g : c # b => h[c] = g[c]
  <2>1. Len(h[b]) = Len(g[b]) + 1 /\ Len(g[b]) \in Nat
    BY PutEffect, PlacedNat DEF Placed
  <2>2. h[b] # <<>>
    <3> HIDE DEF h
    <3> QED  BY <2>1
  <2> QED  BY <2>2, PutEffect
<1>2. n <= Len(g[b]) => Last(h[b]) = Last(g[b])
  BY LastOfPut
<1>3. b \in DOMAIN g
  BY DEF Placed
<1> HIDE DEF h
<1>4. ASSUME NEW c \in DOMAIN g
      PROVE  /\ h[c] = <<>> <=> input.graph[c] = <<>>
             /\ h[c] # <<>> => \/ Last(h[c]) = Last(input.graph[c])
                               \/ Prolonged(c)
  <2>1. /\ g[c] = <<>> <=> input.graph[c] = <<>>
        /\ g[c] # <<>> => \/ Last(g[c]) = Last(input.graph[c])
                          \/ Prolonged(c)
    BY DEF Ends, Prolonged
  <2>2. CASE c # b
    BY <1>1, <2>1, <2>2
  <2>3. CASE c = b
    BY <1>1, <1>2, <2>1, <2>3
  <2> QED  BY <2>2, <2>3
<1> QED  BY <1>1, <1>4 DEF Ends, Prolonged, h

(* What the walk has passed stays behind it.                               *)
LEMMA BehindPut ==
  ASSUME NEW g, NEW f, NEW b, NEW n, NEW x, Placed(g, f, b, n, x), Walk(g),
         NEW c \in DOMAIN g, NEW m \in DOMAIN g[c], Behind(g, c, m)
  PROVE  Behind(Put(g, b, n, x), c, Shift(b, n, c, m))
<1> DEFINE h == Put(g, b, n, x)
<1>1. \A id \in Ids(g) :
        At(h, id) = <<At(g, id)[1], Shift(b, n, At(g, id)[1], At(g, id)[2])>>
  BY PutEffect
<1>2. n \in Nat /\ g \in Graph /\ Unique(g) /\ m \in Nat
  BY PlacedNat
<1> HIDE DEF h
<1> SUFFICES ASSUME ~ (c < block)
             PROVE  /\ c = block
                    /\ cur # 0 => Shift(b, n, c, m) # At(h, cur)[2]
                    /\ cur # 0 /\ next # 0 =>
                         Shift(b, n, c, m) < At(h, next)[2]
  BY DEF Behind, h
<1>3. /\ c = block /\ cur # 0 => m # At(g, cur)[2]
      /\ cur # 0 /\ next # 0 => m < At(g, next)[2]
  BY DEF Behind
<1>4. c = block
  BY DEF Behind
<1>5. ASSUME cur # 0 PROVE Shift(b, n, c, m) # At(h, cur)[2]
  <2>1. cur \in Ids(g) /\ At(g, cur)[1] = block
    BY <1>5 DEF Walk
  <2>2. At(h, cur)[2] = Shift(b, n, c, At(g, cur)[2])
    BY <1>1, <1>4, <2>1
  <2>3. At(g, cur)[2] \in Nat
    BY <1>2, <2>1, AtType
  <2> QED  BY <1>2, <1>3, <1>4, <1>5, <2>2, <2>3, ShiftIs
<1>6. ASSUME cur # 0, next # 0 PROVE Shift(b, n, c, m) < At(h, next)[2]
  <2>1. next \in Ids(g) /\ At(g, next)[1] = block
    BY <1>6 DEF Walk
  <2>2. At(h, next)[2] = Shift(b, n, c, At(g, next)[2])
    BY <1>1, <1>4, <2>1
  <2>3. At(g, next)[2] \in Nat
    BY <1>2, <2>1, AtType
  <2> QED  BY <1>2, <1>3, <1>6, <2>2, <2>3, ShiftIs
<1> QED  BY <1>4, <1>5, <1>6

(* The visit of an instruction that has targets left.                      *)
Visiting(g, i) ==
  /\ input \in Inputs /\ Control /\ pc = "visit" /\ cur # 0
  /\ Registered(i, Instr(g, cur).kind)

(* The policy of the pass that runs, and its input, are of their types.    *)
LEMMA InputIs ==
  ASSUME input \in Inputs, pass \in DOMAIN input.policies
  PROVE  /\ input \in InputSpace
         /\ Policy \in Seq(DeclaredInjection)
         /\ input.policies \in Seq(Seq(DeclaredInjection))
         /\ \A i \in DOMAIN Policy :
              /\ Policy[i] \in DeclaredInjection
              /\ Policy[i].targets \in Seq(Target)
              /\ Policy[i].parameters \in Seq(ParameterTypes)
         /\ input.graph \in Graph /\ input.outs \in Nat
         /\ pass \in Nat \ {0}
<1>1. input \in InputSpace
  BY InputsAssumption
<1>2. /\ input.policies \in Seq(Seq(DeclaredInjection))
      /\ input.graph \in Graph /\ input.outs \in Nat
  BY <1>1 DEF InputSpace, Graph
<1>3. Policy \in Seq(DeclaredInjection) /\ pass \in Nat \ {0}
  BY <1>2 DEF Policy
<1>4. ASSUME NEW i \in DOMAIN Policy
      PROVE  /\ Policy[i] \in DeclaredInjection
             /\ Policy[i].targets \in Seq(Target)
             /\ Policy[i].parameters \in Seq(ParameterTypes)
  <2>1. Policy[i] \in DeclaredInjection
    BY <1>3
  <2> QED  BY <2>1 DEF DeclaredInjection
<1> QED  BY <1>1, <1>2, <1>3, <1>4

(* The visited instruction of the entry block is a call, and not its last. *)
LEMMA VisitInEntry ==
  ASSUME NEW g, NEW f, NEW i, Sound(g, f), Entry(g), Walk(g), Visiting(g, i),
         block = 1
  PROVE  /\ 1 \in DOMAIN g /\ At(g, cur)[2] \in DOMAIN g[1]
         /\ At(g, cur)[2] \in Nat /\ At(g, cur)[2] < Len(g[1])
         /\ Len(g[1]) \in Nat
         /\ Instr(g, cur) = g[1][At(g, cur)[2]]
         /\ Instr(g, cur).kind \in InvokeKeys
         /\ Aims(Policy[i], CallTypes)
<1>1. g \in Graph /\ Unique(g) /\ cur \in Ids(g) /\ At(g, cur)[1] = 1
  BY DEF Sound, Walk, Visiting
<1> DEFINE p == At(g, cur)[2]
<1>2. /\ 1 \in DOMAIN g /\ p \in 1..Len(g[1]) /\ p \in Nat
      /\ g[1][p] = Instr(g, cur)
  BY <1>1, AtType
<1>3. g[1] \in Seq(Instruction) /\ DOMAIN g[1] = 1..Len(g[1])
      /\ Len(g[1]) \in Nat
  BY <1>1, <1>2 DEF Graph
<1> HIDE DEF p
<1>4. Instr(g, cur).kind \in VisitorKeys
  BY DEF Visiting, Registered
<1>5. Instr(g, cur).kind \in InvokeKeys
  BY <1>2, <1>3, <1>4 DEF Entry, VisitorKeys
<1>6. p # Len(g[1])
  BY <1>2, <1>3, <1>4, LastIs DEF Entry
<1>7. Aims(Policy[i], CallTypes)
  <2>1. PICK n \in DOMAIN Policy[i].targets :
          Instr(g, cur).kind \in KeysOf(Policy[i].targets[n].type)
    BY DEF Visiting, Registered
  <2>2. Policy[i].targets[n].type \in CallTypes
    BY <1>5, <2>1 DEF KeysOf, CallTypes, InvokeKeys, ReturnKeys
  <2> QED  BY <2>2 DEF Aims
<1> QED  BY <1>1, <1>2, <1>3, <1>5, <1>6, <1>7 DEF p

(* EntryEnd is the identity of the last instruction of block 1.            *)
LEMMA EntryEndIs ==
  ASSUME NEW g, NEW f, Sound(g, f), Entry(g)
  PROVE  /\ 1 \in DOMAIN g /\ Len(g[1]) \in DOMAIN g[1]
         /\ Len(g[1]) \in Nat \ {0}
         /\ EntryEnd(g) = g[1][Len(g[1])].id
         /\ EntryEnd(g) \in Ids(g)
         /\ At(g, EntryEnd(g)) = <<1, Len(g[1])>>
<1>1. g \in Graph /\ Unique(g) /\ g # <<>> /\ g[1] # <<>>
  BY DEF Sound, Entry
<1>2. 1 \in DOMAIN g
  BY <1>1 DEF Graph
<1>3. g[1] \in Seq(Instruction) /\ Len(g[1]) \in DOMAIN g[1]
      /\ Len(g[1]) \in Nat \ {0}
  BY <1>1, <1>2 DEF Graph
<1>4. EntryEnd(g) = g[1][Len(g[1])].id
  BY DEF EntryEnd, Last
<1> QED  BY <1>1, <1>2, <1>3, <1>4, AtIs

(* At a visit in the entry block nothing but the end of the block is       *)
(* ahead, unless an earlier pass left a call there.                        *)
LEMMA AheadMeans ==
  ASSUME NEW g, NEW f, NEW i, Sound(g, f), Entry(g), Walk(g), Ahead(g),
         Visiting(g, i), block = 1, ~CallInside(before)
  PROVE  next = 0 \/ next = EntryEnd(g)
<1> SUFFICES ASSUME g = before, next = Successor(g, cur)
             PROVE  next = EntryEnd(g)
  BY DEF Ahead, Visiting
<1> DEFINE p == At(g, cur)[2]
<1>1. /\ p \in DOMAIN g[1] /\ p \in Nat /\ p < Len(g[1]) /\ Len(g[1]) \in Nat
      /\ g[1][p].kind \in InvokeKeys
  BY VisitInEntry
<1>2. At(g, cur)[1] = 1
  BY DEF Walk, Visiting
<1> HIDE DEF p
<1>3. ~ (p + 1 < Len(g[1]))
  BY <1>1 DEF CallInside
<1>4. p + 1 = Len(g[1]) /\ p # Len(g[1])
  BY <1>1, <1>3
<1>5. Successor(g, cur) = g[1][p + 1].id
  BY <1>2, <1>4 DEF Successor, p
<1> QED  BY <1>4, <1>5, EntryEndIs

(* The calls of the pass stay behind the walk, if the new one is.          *)
LEMMA OwnBehindPut ==
  ASSUME NEW g, NEW f, NEW b, NEW n, NEW x, Placed(g, f, b, n, x), Walk(g),
         OwnBehind(g),
         /\ x.by = pass /\ x.kind \in VisitorKeys /\ ~ (b = 1 /\ MayMeetItself)
         => Behind(Put(g, b, n, x), b, n)
  PROVE  OwnBehind(Put(g, b, n, x))
<1> DEFINE h == Put(g, b, n, x)
<1> SUFFICES ASSUME pc = "visit", NEW c \in DOMAIN h, NEW k \in DOMAIN h[c],
                    h[c][k].by = pass, h[c][k].kind \in VisitorKeys,
                    ~ (c = 1 /\ MayMeetItself)
             PROVE  Behind(h, c, k)
  BY DEF OwnBehind
<1>1. c \in DOMAIN g
  BY PutEffect
<1>2. \/ c = b /\ k = n /\ h[c][k] = x
      \/ \E m \in DOMAIN g[c] : k = Shift(b, n, c, m) /\ h[c][k] = g[c][m]
  BY <1>1, PutEffect
<1> HIDE DEF h
<1>3. CASE c = b /\ k = n /\ h[c][k] = x
  BY <1>3 DEF h
<1>4. ASSUME NEW m \in DOMAIN g[c], k = Shift(b, n, c, m), h[c][k] = g[c][m]
      PROVE  Behind(h, c, k)
  <2>1. Behind(g, c, m)
    BY <1>1, <1>4 DEF OwnBehind
  <2> QED  BY <1>1, <1>4, <2>1, BehindPut DEF h
<1> QED  BY <1>2, <1>3, <1>4

(* What is ahead in the entry block stays ahead.                           *)
LEMMA AheadPut ==
  ASSUME NEW g, NEW f, NEW b, NEW n, NEW x, NEW i, Placed(g, f, b, n, x),
         Entry(g), Walk(g), Ahead(g), Visiting(g, i),
         EntryEnd(Put(g, b, n, x)) = EntryEnd(g)
  PROVE  Ahead(Put(g, b, n, x))
<1>1. block # 0
  <2>1. /\ cur \in Ids(g) /\ At(g, cur)[1] = block /\ g \in Graph /\ Unique(g)
    BY DEF Walk, Visiting, Placed, Sound
  <2> QED  BY <2>1, AtType DEF Graph
<1>2. ASSUME block = 1, ~CallInside(before)
      PROVE  next = 0 \/ next = EntryEnd(g)
  BY <1>2, AheadMeans DEF Placed
<1> QED  BY <1>1, <1>2 DEF Ahead

(* GetCodeLibInstruction: the codelib is loaded before the last            *)
(* instruction of the entry block.                                         *)
LEMMA LibStep ==
  ASSUME NEW g, NEW f, NEW x, NEW i, GraphInv(g, 0, f), Visiting(g, i),
         x \in Instruction, x.id = f, x.by = pass, x.kind = "CodeLib",
         x.lib = 0
  PROVE  GraphInv(Put(g, 1, Len(g[1]), x), f, f + 1)
<1> DEFINE n == Len(g[1])
           h == Put(g, 1, n, x)
<1>1. /\ Sound(g, f) /\ Entry(g) /\ Walk(g) /\ Codelib(g, 0) /\ Libs(g)
      /\ Apart(g) /\ Ends(g) /\ OwnBehind(g) /\ Ahead(g)
  BY DEF GraphInv
<1>2. 1 \in DOMAIN g /\ n \in DOMAIN g[1] /\ n \in Nat \ {0} /\ g[1] # <<>>
  BY <1>1, EntryEndIs DEF Entry
<1>3. pass \in DOMAIN input.policies /\ pc = "visit" /\ pass \in Nat \ {0}
  BY InputIs DEF Visiting, Control
<1>4. Placed(g, f, 1, n, x)
  <2>1. Origin(x)
    BY <1>3 DEF Origin
  <2>2. n \in 1..(Len(g[1]) + 1)
    BY <1>2
  <2> QED  BY <1>1, <1>2, <2>1, <2>2 DEF Placed
<1>5. x.kind \notin VisitorKeys /\ x.kind \notin ReturnKeys
      /\ x.kind \notin InvokeKeys
  BY DEF VisitorKeys, InvokeKeys, ReturnKeys
<1>6. Sound(h, f + 1)
  BY <1>4, SoundPut
<1>7. n <= Len(g[1])
  BY <1>2
<1>8. Entry(h) /\ EntryEnd(h) = EntryEnd(g)
  BY <1>1, <1>4, <1>5, <1>7, EntryPut
<1>9. Walk(h)
  BY <1>1, <1>4, WalkPut
<1>10. Libs(h)
  BY <1>1, <1>4, LibsPut
<1>11. Apart(h)
  BY <1>1, <1>4, <1>5, ApartPut
<1>12. Ends(h)
  BY <1>1, <1>2, <1>4, <1>7, EndsPut
<1>13. OwnBehind(h)
  BY <1>1, <1>4, <1>5, OwnBehindPut
<1>14. Ahead(h)
  BY <1>1, <1>4, <1>8, AheadPut
<1>15. Codelib(h, f)
  <2>1. /\ f \in Ids(h) /\ At(h, f) = <<1, n>> /\ Len(h[1]) = n + 1
        /\ DOMAIN h = DOMAIN g
        /\ \A c \in DOMAIN g : \A k \in DOMAIN h[c] :
             h[c][k] = x \/ \E m \in DOMAIN g[c] : h[c][k] = g[c][m]
    BY <1>4, PutEffect
  <2> HIDE DEF h
  <2>2. ASSUME NEW c \in DOMAIN g, NEW m \in DOMAIN g[c],
               g[c][m].by = pass, g[c][m].kind = "HInvokeVirtual"
        PROVE  FALSE
    <3>1. g[c][m].lib = 0
      BY <1>1, <1>3, <2>2 DEF Codelib
    <3>2. Origin(g[c][m])
      BY <1>1 DEF Sound
    <3> QED  BY <1>3, <2>2, <3>1, <3>2 DEF Origin, OwnCode
  <2>3. ASSUME NEW c \in DOMAIN h, NEW k \in DOMAIN h[c]
        PROVE  ~ (h[c][k].by = pass /\ h[c][k].kind = "HInvokeVirtual")
    BY <2>1, <2>2
  <2> QED  BY <1>2, <1>3, <2>1, <2>3 DEF Codelib
<1> QED  BY <1>6, <1>8, <1>9, <1>10, <1>11, <1>12, <1>13, <1>14, <1>15
         DEF GraphInv

(* InjectInstruction: the block and place of the call.                     *)
Where(g, type) ==
  CASE type = "METHOD_START" -> <<1, Len(g[1])>>
    [] type = "METHOD_CALL_AFTER" -> <<At(g, cur)[1], At(g, cur)[2] + 1>>
    [] OTHER -> At(g, cur)

(* Where says what Place does, and names a place of the graph.             *)
LEMMA WhereIs ==
  ASSUME NEW g, NEW f, NEW i, NEW type, NEW x, NEW b, NEW n,
         Sound(g, f), Entry(g), Walk(g), Visiting(g, i),
         b = Where(g, type)[1], n = Where(g, type)[2]
  PROVE  /\ Place(g, type, x) = Put(g, b, n, x)
         /\ b \in DOMAIN g /\ n \in 1..(Len(g[b]) + 1)
         /\ g[b] # <<>>
         /\ b = 1 => n <= Len(g[1])
         /\ type = "METHOD_START" => b = 1 /\ n = Len(g[1])
         /\ type = "METHOD_CALL_AFTER" => b = block /\ n = At(g, cur)[2] + 1
         /\ type \notin {"METHOD_START", "METHOD_CALL_AFTER"} =>
              b = block /\ n = At(g, cur)[2]
         /\ n > Len(g[b]) => /\ type = "METHOD_CALL_AFTER"
                             /\ Last(g[b]) = Instr(g, cur)
         /\ block \in Nat \ {0} /\ At(g, cur)[2] \in Nat
         /\ Len(g[b]) \in Nat
<1> DEFINE p == At(g, cur)[2]
<1>1. g \in Graph /\ Unique(g) /\ cur \in Ids(g) /\ At(g, cur)[1] = block
  BY DEF Sound, Walk, Visiting
<1>2. /\ block \in DOMAIN g /\ p \in 1..Len(g[block]) /\ p \in Nat
      /\ block \in Nat \ {0} /\ At(g, cur) = <<block, p>>
      /\ g[block][p] = Instr(g, cur)
  BY <1>1, AtType DEF Graph
<1>3. \A c \in DOMAIN g : g[c] \in Seq(Instruction) /\ Len(g[c]) \in Nat
  BY <1>1 DEF Graph
<1>4. block = 1 => p < Len(g[1])
  BY VisitInEntry
<1>5. /\ 1 \in DOMAIN g /\ Len(g[1]) \in Nat \ {0} /\ g[1] # <<>>
      /\ At(g, EntryEnd(g)) = <<1, Len(g[1])>>
  BY EntryEndIs DEF Entry
<1>6. g[block] # <<>>
  BY <1>2, <1>3
<1> HIDE DEF p
<1>7. CASE type = "METHOD_START"
  <2>1. b = 1 /\ n = Len(g[1])
    BY <1>7 DEF Where
  <2>2. Place(g, type, x) = Put(g, b, n, x)
    <3>1. InsertBefore(g, EntryEnd(g), x) = Put(g, 1, Len(g[1]), x)
      BY <1>5 DEF InsertBefore, Put
    <3>2. Place(g, type, x) = InsertBefore(g, EntryEnd(g), x)
      BY <1>7 DEF Place
    <3> QED  BY <2>1, <3>1, <3>2
  <2> QED  BY <1>2, <1>3, <1>5, <1>7, <2>1, <2>2 DEF p
<1>8. CASE type = "METHOD_CALL_AFTER"
  <2>1. b = block /\ n = p + 1
    BY <1>2, <1>8 DEF Where
  <2>2. Place(g, type, x) = Put(g, b, n, x)
    <3>1. InsertAfter(g, cur, x) = Put(g, block, p + 1, x)
      BY <1>2 DEF InsertAfter, Put
    <3>2. Place(g, type, x) = InsertAfter(g, cur, x)
      BY <1>8 DEF Place
    <3> QED  BY <2>1, <3>1, <3>2
  <2>3. n > Len(g[b]) => p = Len(g[b])
    BY <1>2, <1>3, <2>1
  <2>4. n > Len(g[b]) => Last(g[b]) = Instr(g, cur)
    BY <1>2, <2>1, <2>3 DEF Last
  <2>5. b = 1 => n <= Len(g[1])
    BY <1>2, <1>4, <1>5, <2>1
  <2>6. n \in 1..(Len(g[b]) + 1) /\ b \in DOMAIN g
    BY <1>2, <1>3, <2>1
  <2> QED  BY <1>2, <1>3, <1>6, <1>8, <2>1, <2>2, <2>4, <2>5, <2>6 DEF p
<1>9. CASE type \notin {"METHOD_START", "METHOD_CALL_AFTER"}
  <2>1. b = block /\ n = p
    BY <1>2, <1>9 DEF Where
  <2>2. Place(g, type, x) = Put(g, b, n, x)
    <3>1. InsertBefore(g, cur, x) = Put(g, block, p, x)
      BY <1>2 DEF InsertBefore, Put
    <3>2. Place(g, type, x) = InsertBefore(g, cur, x)
      BY <1>9 DEF Place
    <3> QED  BY <2>1, <3>1, <3>2
  <2>3. n \in 1..(Len(g[b]) + 1) /\ b \in DOMAIN g /\ n <= Len(g[b])
    BY <1>2, <1>3, <2>1
  <2>4. ~ (n > Len(g[b]))
    BY <1>2, <1>3, <2>1
  <2> QED  BY <1>2, <1>3, <1>6, <1>9, <2>1, <2>2, <2>3, <2>4 DEF p
<1> QED  BY <1>7, <1>8, <1>9

IsCall(x, i, lib, f) ==
  /\ x \in Instruction /\ x.id = f /\ x.by = pass
  /\ x.kind = "HInvokeVirtual" /\ x.inj = i /\ x.lib = lib
  /\ InjectedBy(x, Policy[i])

(* The calls that a visit meets in the entry block, as long as the passes  *)
(* keep apart, are those of the same pass.                                 *)
LEMMA OwnCallsInEntry ==
  ASSUME NEW g, NEW f, NEW lib, NEW i, NEW n, GraphInv(g, lib, f),
         Visiting(g, i), block = 1, ~AimsAtStartCalls,
         n \in DOMAIN Policy[i].targets,
         Policy[i].targets[n].type \notin {"METHOD_START", "NO_INJECTION"},
         Matches(Policy[i].targets[n], Instr(g, cur))
  PROVE  /\ lib # 0 => At(g, lib)[2] < At(g, cur)[2]
         /\ \E j \in DOMAIN Policy : Aims(Policy[j], {"METHOD_START"})
<1> DEFINE p == At(g, cur)[2]
           y == g[1][p]
           t == Policy[i].targets[n]
<1>1. /\ Sound(g, f) /\ Entry(g) /\ Walk(g) /\ Codelib(g, lib) /\ Libs(g)
      /\ Apart(g)
  BY DEF GraphInv
<1>2. /\ 1 \in DOMAIN g /\ p \in DOMAIN g[1] /\ Instr(g, cur) = y
      /\ y.kind \in InvokeKeys /\ Aims(Policy[i], CallTypes)
  BY <1>1, VisitInEntry
<1>3. /\ pass \in DOMAIN input.policies /\ pc = "visit"
      /\ input.policies \in Seq(Seq(DeclaredInjection))
      /\ Policy \in Seq(DeclaredInjection) /\ pass \in Nat
      /\ i \in DOMAIN Policy
  BY InputIs DEF Visiting, Control, Registered
<1>4. /\ y.lib # 0 => At(g, y.lib)[2] < p
      /\ y.by \in DOMAIN input.policies
      /\ \E j \in DOMAIN input.policies[y.by] :
           Aims(input.policies[y.by][j], {"METHOD_START"})
  BY <1>1, <1>2 DEF Apart
<1>5. Origin(y) /\ y.by \in Nat \ {0}
  <2>1. Origin(y)
    BY <1>1, <1>2 DEF Sound
  <2>2. \A q \in DOMAIN input.policies : q \in Nat \ {0}
    BY <1>3
  <2> QED  BY <1>4, <2>1, <2>2
<1> HIDE DEF p
<1> HIDE DEF y
<1>6. /\ y.by <= pass /\ y.kind = "HInvokeVirtual"
      /\ y.inj \in DOMAIN input.policies[y.by]
      /\ y.callee = input.policies[y.by][y.inj].signature
  BY <1>2, <1>5 DEF Origin, OwnCode, InjectedBy, InvokeKeys
<1>7. y.by = pass
  <2> SUFFICES ASSUME y.by < pass PROVE FALSE
    BY <1>3, <1>5, <1>6
  <2>1. t.type \in {"METHOD_END"} \cup CallTypes
    <3>1. Policy[i].targets \in Seq(Target)
      BY <1>3, InputIs DEF Visiting
    <3>2. t \in Target
      BY <3>1, ElementOfSeq
    <3> QED  BY <3>2 DEF Target, TargetTypes, CallTypes
  <2>2. CarriedOutAt(y.callee, Policy[i])
    <3>1. CASE t.type = "METHOD_END"
      <4>1. t.generic \/ input.signature \in t.names
        BY <3>1 DEF Matches, SignatureContains
      <4> QED  BY <1>2, <3>1, <4>1 DEF CarriedOutAt
    <3>2. CASE t.type \in CallTypes
      <4>1. t.generic \/ y.callee \in t.names
        BY <1>2, <3>2 DEF Matches, SignatureContains, InvokedMethod, CallTypes
      <4> QED  BY <1>2, <3>2, <4>1 DEF CarriedOutAt
    <3> QED  BY <2>1, <3>1, <3>2
  <2>3. CarriedOutAt(input.policies[y.by][y.inj].signature,
                     input.policies[pass][i])
    BY <1>6, <2>2 DEF Policy
  <2>4. i \in DOMAIN input.policies[pass]
    BY <1>3 DEF Policy
  <2> HIDE DEF t
  <2>5. AimsAtStartCalls
    <3> DEFINE q == y.by
    <3>1. /\ q \in DOMAIN input.policies /\ pass \in DOMAIN input.policies
          /\ q < pass
      BY <1>3, <1>4
    <3>2. \E j \in DOMAIN input.policies[q] :
            Aims(input.policies[q][j], {"METHOD_START"})
      BY <1>4
    <3>3. \E k \in DOMAIN input.policies[q],
             j \in DOMAIN input.policies[pass] :
            CarriedOutAt(input.policies[q][k].signature,
                         input.policies[pass][j])
      BY <1>6, <2>3, <2>4
    <3> HIDE DEF q
    <3> QED  BY <3>1, <3>2, <3>3 DEF AimsAtStartCalls
  <2> QED  BY <2>5
<1>8. y.lib = lib
  BY <1>1, <1>2, <1>3, <1>6, <1>7 DEF Codelib, y
<1> QED  BY <1>4, <1>7, <1>8 DEF Policy, p, y

(* InjectMethodCall keeps the graph in order.                              *)
LEMMA CallStep ==
  ASSUME NEW g, NEW f, NEW lib, NEW x, NEW i, NEW n, GraphInv(g, lib, f),
         Visiting(g, i), IsCall(x, i, lib, f), lib # 0,
         n \in DOMAIN Policy[i].targets,
         Policy[i].targets[n].type # "NO_INJECTION",
         Matches(Policy[i].targets[n], Instr(g, cur))
  PROVE  GraphInv(Place(g, Policy[i].targets[n].type, x), lib, f + 1)
<1> DEFINE t == Policy[i].targets[n]
           b == Where(g, t.type)[1]
           m == Where(g, t.type)[2]
           p == At(g, cur)[2]
           h == Put(g, b, m, x)
<1>1. /\ Sound(g, f) /\ Entry(g) /\ Walk(g) /\ Codelib(g, lib) /\ Libs(g)
      /\ Apart(g) /\ Ends(g) /\ OwnBehind(g) /\ Ahead(g)
  BY DEF GraphInv
<1>0. b = Where(g, t.type)[1] /\ m = Where(g, t.type)[2]
  OBVIOUS
<1> HIDE DEF b, m
<1>2. /\ Place(g, t.type, x) = h
      /\ b \in DOMAIN g /\ m \in 1..(Len(g[b]) + 1) /\ g[b] # <<>>
      /\ b = 1 => m <= Len(g[1])
      /\ t.type = "METHOD_START" => b = 1 /\ m = Len(g[1])
      /\ t.type = "METHOD_CALL_AFTER" => b = block /\ m = p + 1
      /\ t.type \notin {"METHOD_START", "METHOD_CALL_AFTER"} =>
           b = block /\ m = p
      /\ m > Len(g[b]) => /\ t.type = "METHOD_CALL_AFTER"
                          /\ Last(g[b]) = Instr(g, cur)
      /\ block \in Nat \ {0} /\ p \in Nat /\ Len(g[b]) \in Nat
  <2> DEFINE type == t.type
  <2>1. b = Where(g, type)[1] /\ m = Where(g, type)[2]
    BY <1>0
  <2> HIDE DEF type
  <2>2. /\ Place(g, type, x) = Put(g, b, m, x)
        /\ b \in DOMAIN g /\ m \in 1..(Len(g[b]) + 1) /\ g[b] # <<>>
        /\ b = 1 => m <= Len(g[1])
    BY <1>1, <2>1, WhereIs
  <2>3. ASSUME type = "METHOD_START" PROVE b = 1 /\ m = Len(g[1])
    BY <1>1, <2>1, <2>3, WhereIs
  <2>5. ASSUME type = "METHOD_CALL_AFTER"
        PROVE  b = block /\ m = At(g, cur)[2] + 1
    BY <1>1, <2>1, <2>5, WhereIs
  <2>6. ASSUME type \notin {"METHOD_START", "METHOD_CALL_AFTER"}
        PROVE  b = block /\ m = At(g, cur)[2]
    BY <1>1, <2>1, <2>6, WhereIs, ZenonT(60)
  <2>4. /\ m > Len(g[b]) => /\ type = "METHOD_CALL_AFTER"
                            /\ Last(g[b]) = Instr(g, cur)
        /\ block \in Nat \ {0} /\ At(g, cur)[2] \in Nat
        /\ Len(g[b]) \in Nat
    BY <1>1, <2>1, WhereIs, ZenonT(30)
  <2> QED  BY <2>2, <2>3, <2>4, <2>5, <2>6 DEF type
<1>3. /\ pass \in DOMAIN input.policies /\ pc = "visit" /\ pass \in Nat \ {0}
      /\ i \in DOMAIN Policy /\ cur # 0
      /\ Policy[i].targets \in Seq(Target)
      /\ Instr(g, cur).kind \in VisitorKeys
  BY InputIs DEF Visiting, Control, Registered
<1>4. t \in Target
  BY <1>3, ElementOfSeq
<1>5. /\ x \in Instruction /\ x.id = f /\ x.by = pass /\ x.inj = i
      /\ x.kind = "HInvokeVirtual" /\ x.lib = lib
      /\ InjectedBy(x, Policy[i])
  BY DEF IsCall
<1>6. x.kind \in InvokeKeys /\ x.kind \notin ReturnKeys
  BY <1>5 DEF InvokeKeys, ReturnKeys
<1>7. lib \in Ids(g) /\ At(g, lib)[1] = 1 /\ At(g, lib)[2] < Len(g[1])
  BY <1>1 DEF Codelib
<1>8. Placed(g, f, b, m, x)
  <2>1. Origin(x)
    <3>1. x.inj \in DOMAIN input.policies[x.by]
          /\ InjectedBy(x, input.policies[x.by][x.inj])
      BY <1>3, <1>5 DEF Policy
    <3> QED  BY <1>3, <1>5, <3>1 DEF Origin
  <2> QED  BY <1>1, <1>2, <1>5, <2>1 DEF Placed
<1>9. t.type # "METHOD_START" => b = block
  BY <1>2
<1>10. block = 1 => /\ p < Len(g[1]) /\ 1 \in DOMAIN g /\ p \in DOMAIN g[1]
                    /\ Instr(g, cur).kind \in InvokeKeys
                    /\ Aims(Policy[i], CallTypes)
  BY <1>1, VisitInEntry
<1> HIDE DEF h
<1>11. Sound(h, f + 1)
  BY <1>8, SoundPut DEF h
<1>12. Entry(h) /\ EntryEnd(h) = EntryEnd(g)
  BY <1>1, <1>2, <1>6, <1>8, EntryPut DEF h
<1>13. Walk(h)
  BY <1>1, <1>8, WalkPut DEF h
<1>14. Libs(h)
  BY <1>1, <1>5, <1>7, <1>8, LibsPut DEF h
<1>15. Apart(h)
  <2>1. ASSUME ~AimsAtStartCalls, b = 1
        PROVE  /\ At(g, lib)[2] < m
               /\ \E j \in DOMAIN Policy : Aims(Policy[j], {"METHOD_START"})
    <3>1. CASE t.type = "METHOD_START"
      BY <1>2, <1>3, <1>7, <3>1 DEF Aims
    <3>2. CASE t.type # "METHOD_START"
      <4>1. block = 1
        BY <1>9, <2>1, <3>2
      <4>2. /\ At(g, lib)[2] < p
            /\ \E j \in DOMAIN Policy : Aims(Policy[j], {"METHOD_START"})
        BY <2>1, <3>2, <4>1, OwnCallsInEntry
      <4>3. m = p \/ m = p + 1
        BY <1>2, <3>2
      <4>4. At(g, lib)[2] \in Nat
        BY <1>1, <1>7, AtType DEF Sound
      <4> QED  BY <1>2, <4>2, <4>3, <4>4
    <3> QED  BY <3>1, <3>2
  <2>2. ASSUME ~AimsAtStartCalls, b = 1
        PROVE  /\ x.lib \in Ids(g) /\ At(g, x.lib)[1] = 1
               /\ At(g, x.lib)[2] < m
               /\ x.by \in DOMAIN input.policies
               /\ \E j \in DOMAIN input.policies[x.by] :
                    Aims(input.policies[x.by][j], {"METHOD_START"})
    BY <1>3, <1>5, <1>7, <2>1, <2>2 DEF Policy
  <2> QED  BY <1>1, <1>8, <2>2, ApartPut DEF h
<1>16. Ends(h)
  <2>1. ASSUME ~ (m <= Len(g[b])) PROVE Prolonged(b)
    <3>1. t.type = "METHOD_CALL_AFTER" /\ Last(g[b]) = Instr(g, cur)
      BY <1>2, <2>1
    <3>2. CASE Last(g[b]) = Last(input.graph[b])
      <4> DEFINE y == Last(input.graph[b])
      <4>1. /\ DOMAIN input.graph = DOMAIN g /\ input.graph \in Graph
            /\ input.graph[b] # <<>>
        <5>1. input.graph \in Graph /\ Len(g) = Len(input.graph) /\ g \in Graph
          BY <1>1, <1>3, InputIs DEF Sound, Visiting
        <5>2. DOMAIN input.graph = DOMAIN g
          BY <5>1 DEF Graph
        <5> QED  BY <1>1, <1>2, <5>1, <5>2 DEF Ends
      <4>2. y = input.graph[b][Len(input.graph[b])]
            /\ Len(input.graph[b]) \in DOMAIN input.graph[b]
        BY <1>2, <4>1, LastIs DEF Graph
      <4>3. OwnCode(y, input.outs) /\ y.kind \notin InvokeKeys
        <5>1. input \in Inputs
          BY DEF Visiting
        <5> QED  BY <1>2, <4>1, <4>2, <5>1, GraphsAssumption
      <4>4. y = Instr(g, cur)
        BY <3>1, <3>2
      <4> HIDE DEF y
      <4>5. y.kind \in ReturnKeys /\ y.callee = ""
        BY <1>3, <4>3, <4>4 DEF OwnCode, VisitorKeys
      <4>6. t.generic
        <5>1. t.generic \/ y.callee \in t.names
          BY <3>1, <4>4 DEF Matches, InvokedMethod, SignatureContains
        <5>2. t.names \subseteq Signatures
          BY <1>4 DEF Target
        <5> QED  BY <4>5, <5>1, <5>2, InputsAssumption
      <4>7. Aims(Policy[i], {"METHOD_START", "METHOD_END"})
        <5>1. PICK j \in DOMAIN Policy[i].targets :
                y.kind \in KeysOf(Policy[i].targets[j].type)
          BY <4>4 DEF Visiting, Registered
        <5>2. Policy[i].targets[j].type \in {"METHOD_START", "METHOD_END"}
          BY <4>5, <5>1 DEF KeysOf, InvokeKeys, ReturnKeys
        <5> QED  BY <5>2 DEF Aims
      <4>8. AfterReturns(Policy[i])
        BY <3>1, <4>6, <4>7 DEF AfterReturns
      <4>9. pass <= pass
        BY <1>3
      <4> QED  BY <1>3, <4>5, <4>8, <4>9 DEF Prolonged, Policy, y
    <3>3. CASE Last(g[b]) # Last(input.graph[b])
      BY <1>1, <1>2, <3>3 DEF Ends, Prolonged
    <3> QED  BY <3>2, <3>3
  <2> QED  BY <1>1, <1>2, <1>8, <2>1, EndsPut DEF h
<1>17. OwnBehind(h)
  <2>1. ASSUME ~ (b = 1 /\ MayMeetItself) PROVE Behind(h, b, m)
    <3>1. /\ cur \in Ids(g) /\ At(g, cur)[1] = block
          /\ next # 0 => /\ next \in Ids(g) /\ At(g, next)[1] = block
                         /\ p < At(g, next)[2] /\ At(g, next)[2] \in Nat
      BY <1>1, <1>3, AtType DEF Walk, Sound
    <3>2. /\ At(h, cur)[2] = Shift(b, m, block, p)
          /\ next # 0 => At(h, next)[2] = Shift(b, m, block, At(g, next)[2])
      BY <1>8, <3>1, PutEffect DEF h
    <3>3. CASE t.type # "METHOD_START"
      <4>1. b = block /\ (m = p \/ m = p + 1)
        BY <1>2, <3>3
      <4>2. m # At(h, cur)[2]
        BY <1>2, <3>2, <4>1 DEF Shift
      <4>3. next # 0 => m < At(h, next)[2]
        BY <1>2, <3>1, <3>2, <4>1 DEF Shift
      <4> QED  BY <4>1, <4>2, <4>3 DEF Behind
    <3>4. CASE t.type = "METHOD_START"
      <4>1. b = 1 /\ m = Len(g[1]) /\ Len(g[1]) \in Nat
        BY <1>2, <3>4
      <4>2. CASE block # 1
        <5>1. b < block
          BY <1>2, <4>1, <4>2
        <5> QED  BY <5>1 DEF Behind
      <4>3. CASE block = 1
        <5>1. ~ CallInside(before)
          <6> SUFFICES ASSUME CallInside(before) PROVE MayMeetItself
            BY <2>1, <4>1
          <6>1. Aims(Policy[i], {"METHOD_START"})
            BY <3>4 DEF Aims
          <6> QED  BY <1>3, <1>10, <4>3, <6>1 DEF MayMeetItself, CallInside
        <5>2. next = 0 \/ next = EntryEnd(g)
          BY <1>1, <4>3, <5>1, AheadMeans
        <5>3. m # At(h, cur)[2]
          BY <1>2, <1>10, <3>2, <4>1, <4>3 DEF Shift
        <5>4. ASSUME next # 0 PROVE m < At(h, next)[2]
          <6>1. At(g, next) = <<1, Len(g[1])>>
            BY <1>1, <5>2, <5>4, EntryEndIs
          <6>2. At(g, next)[2] = m
            BY <4>1, <6>1
          <6> QED  BY <3>2, <4>1, <4>3, <5>4, <6>2 DEF Shift
        <5> QED  BY <4>1, <4>3, <5>3, <5>4 DEF Behind
      <4> QED  BY <4>2, <4>3
    <3> QED  BY <3>3, <3>4
  <2> QED  BY <1>1, <1>8, <2>1, OwnBehindPut DEF h
<1>18. Ahead(h)
  BY <1>1, <1>8, <1>12, AheadPut DEF h
<1>19. Codelib(h, lib)
  <2>1. /\ lib \in Ids(h) /\ At(h, lib)[1] = 1
        /\ At(h, lib)[2] = Shift(b, m, 1, At(g, lib)[2])
        /\ Len(h[b]) = Len(g[b]) + 1
        /\ \A c \in DOMAIN g : c # b => h[c] = g[c]
        /\ DOMAIN h = DOMAIN g
        /\ \A c \in DOMAIN g : \A k \in DOMAIN h[c] :
             h[c][k] = x \/ \E j \in DOMAIN g[c] : h[c][k] = g[c][j]
    BY <1>7, <1>8, PutEffect DEF h
  <2>2. At(g, lib)[2] \in Nat /\ 1 \in DOMAIN g /\ Len(g[1]) \in Nat
    BY <1>1, <1>7, AtType, EntryEndIs DEF Sound
  <2>3. At(h, lib)[2] < Len(h[1])
    <3>1. CASE b = 1
      BY <1>2, <1>7, <2>1, <2>2, <3>1 DEF Shift
    <3>2. CASE b # 1
      BY <1>7, <2>1, <2>2, <3>2 DEF Shift
    <3> QED  BY <3>1, <3>2
  <2>4. ASSUME NEW c \in DOMAIN g, NEW k \in DOMAIN h[c],
               h[c][k].by = pass, h[c][k].kind = "HInvokeVirtual"
        PROVE  h[c][k].lib = lib
    BY <1>1, <1>3, <1>5, <2>1, <2>4 DEF Codelib
  <2> QED  BY <1>3, <2>1, <2>3, <2>4 DEF Codelib
<1> QED  BY <1>2, <1>11, <1>12, <1>13, <1>14, <1>15, <1>16, <1>17, <1>18,
            <1>19 DEF GraphInv

----------------------------------------------------------------------------
(* The graph of the method, as the backend hands it over.                  *)
LEMMA InputGraph ==
  ASSUME input \in Inputs
  PROVE  /\ input.graph \in Graph /\ Unique(input.graph)
         /\ input.graph # <<>> /\ input.graph[1] # <<>>
         /\ 1 \in DOMAIN input.graph
         /\ Len(FlattenSeq(input.graph)) \in Nat
         /\ \A b \in DOMAIN input.graph : \A k \in DOMAIN input.graph[b] :
              /\ OwnCode(input.graph[b][k], input.outs)
              /\ input.graph[b][k] \in Instruction
              /\ input.graph[b][k].id \in Nat
              /\ input.graph[b][k].id <= Len(FlattenSeq(input.graph))
         /\ \A k \in DOMAIN input.graph[1] :
              input.graph[1][k].kind \notin VisitorKeys
         /\ Last(input.graph[1]).kind \notin VisitorKeys
<1> DEFINE g == input.graph
<1>1. g \in Graph
  BY InputsAssumption DEF InputSpace, Graph
<1>2. /\ Unique(g) /\ Ids(g) \subseteq 1..Len(FlattenSeq(g))
      /\ \A b \in DOMAIN g : \A k \in DOMAIN g[b] :
           OwnCode(g[b][k], input.outs)
      /\ g # <<>> /\ g[1] # <<>>
      /\ \A k \in DOMAIN g[1] : g[1][k].kind \notin VisitorKeys
  BY GraphsAssumption
<1> HIDE DEF g
<1>3. Len(FlattenSeq(g)) \in Nat
  <2>1. FlattenSeq(g) \in Seq(Instruction)
    BY <1>1, FlattenType DEF Graph
  <2> QED  BY <2>1
<1>4. 1 \in DOMAIN g
  BY <1>1, <1>2 DEF Graph
<1>5. Last(g[1]).kind \notin VisitorKeys
  <2>1. g[1] \in Seq(Instruction)
    BY <1>1, <1>4 DEF Graph
  <2>2. Last(g[1]) = g[1][Len(g[1])] /\ Len(g[1]) \in DOMAIN g[1]
    BY <1>2, <2>1, LastIs
  <2> QED  BY <1>2, <2>2
<1>6. ASSUME NEW b \in DOMAIN g, NEW k \in DOMAIN g[b]
      PROVE  /\ g[b][k] \in Instruction /\ g[b][k].id \in Nat
             /\ g[b][k].id <= Len(FlattenSeq(g))
  <2>1. g[b][k] \in Instruction
    BY <1>1 DEF Graph
  <2>2. g[b][k].id \in Ids(g)
    BY DEF Ids
  <2>3. g[b][k].id \in 1..Len(FlattenSeq(g))
    BY <1>2, <2>2
  <2> QED  BY <1>3, <2>1, <2>3
<1> QED  BY <1>1, <1>2, <1>3, <1>4, <1>5, <1>6 DEF g

(* An invoke of a graph is one of its instructions.                        *)
LEMMA InvokesIn ==
  ASSUME NEW g, NEW x \in Invokes(g)
  PROVE  \E b \in DOMAIN g : \E k \in DOMAIN g[b] :
           x = g[b][k] /\ x.kind \in InvokeKeys
  BY DEF Invokes

(* The invariant holds at the beginning.                                   *)
LEMMA InitInv == Init => PassInv
<1> SUFFICES ASSUME Init PROVE PassInv
  OBVIOUS
<1> USE DEF Init
<1>0. /\ input \in Inputs /\ graph = input.graph /\ pass = 1 /\ codelib = 0
      /\ cur = 0 /\ next = 0 /\ todo = <<>> /\ block = 0 /\ outs = input.outs
      /\ pc \in {"setup", "done"} /\ (pc = "setup" => input.policies # <<>>)
      /\ fresh = 1 + Len(FlattenSeq(input.graph))
      /\ table = [k \in VisitorKeys |-> <<>>]
  OBVIOUS
<1> DEFINE g == input.graph
           n == Len(FlattenSeq(g))
<1>1. /\ g \in Graph /\ Unique(g) /\ g # <<>> /\ g[1] # <<>> /\ 1 \in DOMAIN g
      /\ n \in Nat
      /\ \A b \in DOMAIN g : \A k \in DOMAIN g[b] :
           OwnCode(g[b][k], input.outs) /\ g[b][k] \in Instruction
           /\ g[b][k].id \in Nat /\ g[b][k].id <= n
      /\ \A k \in DOMAIN g[1] : g[1][k].kind \notin VisitorKeys
      /\ Last(g[1]).kind \notin VisitorKeys
  BY <1>0, InputGraph
<1>2. /\ input \in InputSpace /\ input.outs \in Nat
      /\ input.policies \in Seq(Seq(DeclaredInjection))
  BY <1>0, InputsAssumption DEF InputSpace
<1> HIDE DEF Init, g, n
<1>3. Control
  <2>1. table \in [VisitorKeys -> Seq(Nat)]
    <3>1. <<>> \in Seq(Nat)
      BY EmptySeq
    <3> QED  BY <1>0, <3>1
  <2>2. \A k \in VisitorKeys : DOMAIN table[k] = {}
    BY <1>0
  <2>3. todo \in Seq(Nat \X Nat)
    BY <1>0, EmptySeq
  <2>4. pass \in 1..(Len(input.policies) + 1)
        /\ (pc # "done" => pass \in DOMAIN input.policies)
    BY <1>0, <1>2
  <2>5. block \in 0..Len(graph)
    BY <1>0, <1>1 DEF g, Graph
  <2> QED  BY <1>0, <1>2, <2>1, <2>2, <2>3, <2>4, <2>5 DEF Control
<1>4. Reserved
  <2>1. ASSUME NEW x \in Invokes(graph) PROVE x.args <= outs
    <3>1. PICK b \in DOMAIN g : \E k \in DOMAIN g[b] :
            x = g[b][k] /\ x.kind \in InvokeKeys
      BY <1>0, InvokesIn DEF g
    <3>2. PICK k \in DOMAIN g[b] : x = g[b][k] /\ x.kind \in InvokeKeys
      BY <3>1
    <3>3. OwnCode(x, input.outs) /\ x \in Instruction
      BY <1>1, <3>2
    <3>4. x.args \in Nat /\ x.words \in Nat
      BY <3>3 DEF Instruction
    <3>5. x.args <= x.words /\ x.words <= input.outs
      BY <3>2, <3>3 DEF OwnCode
    <3> QED  BY <1>0, <1>2, <3>4, <3>5
  <2> QED  BY <1>0, <1>2, <2>1 DEF Reserved
<1>5. Sound(g, fresh)
  <2>1. fresh \in Nat \ {0} /\ fresh = n + 1
    BY <1>0, <1>1 DEF g, n
  <2>2. \A b \in DOMAIN g : \A k \in DOMAIN g[b] :
          g[b][k].id < fresh /\ Origin(g[b][k])
    BY <1>1, <2>1 DEF Origin
  <2> QED  BY <1>1, <2>1, <2>2 DEF Sound, g
<1>6. Entry(g)
  BY <1>1 DEF Entry, VisitorKeys
<1>7. Walk(g)
  BY <1>0 DEF Walk
<1>8. Codelib(g, 0)
  <2>1. \A b \in DOMAIN g : \A k \in DOMAIN g[b] : g[b][k].by = 0
    BY <1>1 DEF OwnCode
  <2> QED  BY <1>0, <2>1 DEF Codelib
<1>9. Libs(g)
  BY <1>1 DEF Libs, OwnCode
<1>10. Apart(g)
  BY <1>1 DEF Apart, OwnCode, VisitorKeys
<1>11. Ends(g)
  BY DEF Ends, g
<1>12. OwnBehind(g) /\ Ahead(g)
  BY <1>0 DEF OwnBehind, Ahead
<1> QED  BY <1>0, <1>3, <1>4, <1>5, <1>6, <1>7, <1>8, <1>9, <1>10, <1>11, <1>12
         DEF PassInv, GraphInv, g

(* Setup of a new pass: all calls are of earlier passes.                   *)
LEMMA SetupPassInv == ASSUME PassInv, SetupPass PROVE PassInv'
<1> USE DEF SetupPass
<1>0. /\ input \in Inputs /\ Control /\ Reserved /\ Sound(graph, fresh)
      /\ Entry(graph) /\ Walk(graph) /\ Codelib(graph, codelib)
      /\ Libs(graph) /\ Apart(graph) /\ Ends(graph)
  BY DEF PassInv, GraphInv
<1>1. cur = 0 /\ cur' = 0 /\ pass \in DOMAIN input.policies
  BY <1>0 DEF Control
<1>2. Policy \in Seq(DeclaredInjection) /\ pass \in Nat \ {0}
  BY <1>0, <1>1, InputIs
<1>3. Control'
  <2>1. ASSUME NEW k \in VisitorKeys
        PROVE  /\ TableEntry(Policy, k) \in Seq(Nat)
               /\ \A n \in DOMAIN TableEntry(Policy, k) :
                    Registered(TableEntry(Policy, k)[n], k)
    BY <1>2, <2>1, TableEntryIs DEF Registered
  <2>2. table' \in [VisitorKeys -> Seq(Nat)]
    BY <2>1
  <2>3. \A k \in VisitorKeys : \A n \in DOMAIN table'[k] :
          Registered(table'[k][n], k)
    BY <2>1
  <2>4. \A k \in VisitorKeys : \A n \in DOMAIN table'[k] :
          Registered(table[k][n], k)'
    BY <2>3 DEF Registered, Policy
  <2>5. block' \in 0..Len(graph')
    BY <1>0 DEF Sound, Graph
  <2> QED  BY <1>0, <1>1, <2>2, <2>4, <2>5 DEF Control
<1>4. Sound(graph, fresh)'
  BY <1>0 DEF Sound, Origin
<1>5. Entry(graph)' /\ Libs(graph)'
  BY <1>0 DEF Entry, Libs
<1>6. Walk(graph)'
  BY <1>1 DEF Walk
<1>7. \A b \in DOMAIN graph : \A k \in DOMAIN graph[b] :
        graph[b][k].by < pass
  BY <1>0 DEF Codelib
<1>8. \A b \in DOMAIN graph : \A k \in DOMAIN graph[b] :
        graph[b][k].by # pass
  <2>1. \A b \in DOMAIN graph : \A k \in DOMAIN graph[b] :
          graph[b][k].by \in Nat
    <3>1. \A b \in DOMAIN graph : \A k \in DOMAIN graph[b] :
            graph[b][k] \in Instruction
      BY <1>0 DEF Sound, Graph
    <3> QED  BY <3>1 DEF Instruction
  <2> QED  BY <1>2, <1>7, <2>1
<1>9. Codelib(graph, codelib)'
  BY <1>0, <1>8 DEF Codelib
<1>10. Apart(graph)'
  <2>1. AimsAtStartCalls' = AimsAtStartCalls
    BY DEF AimsAtStartCalls, CarriedOutAt
  <2> QED  BY <1>0, <2>1 DEF Apart
<1>11. Ends(graph)'
  BY <1>0 DEF Ends
<1>12. OwnBehind(graph)'
  BY <1>8 DEF OwnBehind
<1>13. Ahead(graph)'
  BY <1>1 DEF Ahead
<1>14. Reserved'
  BY <1>0 DEF Reserved
<1> QED  BY <1>0, <1>3, <1>4, <1>5, <1>6, <1>9, <1>10, <1>11, <1>12, <1>13,
            <1>14 DEF PassInv, GraphInv

(* The successor is the next instruction of the block, if there is one.    *)
LEMMA SuccessorIs ==
  ASSUME NEW g \in Graph, Unique(g), NEW c \in Ids(g)
  PROVE  /\ At(g, c)[2] = Len(g[At(g, c)[1]]) => Successor(g, c) = 0
         /\ Successor(g, c) # 0 =>
              /\ Successor(g, c) \in Ids(g)
              /\ At(g, Successor(g, c)) = <<At(g, c)[1], At(g, c)[2] + 1>>
<1> DEFINE b == At(g, c)[1]
           p == At(g, c)[2]
<1>1. b \in DOMAIN g /\ p \in 1..Len(g[b]) /\ p \in Nat
  BY AtType
<1>2. g[b] \in Seq(Instruction) /\ Len(g[b]) \in Nat
      /\ DOMAIN g[b] = 1..Len(g[b])
  BY <1>1 DEF Graph
<1>3. Successor(g, c) = IF p = Len(g[b]) THEN 0 ELSE g[b][p + 1].id
  BY DEF Successor
<1> HIDE DEF b, p
<1>4. CASE p = Len(g[b])
  BY <1>3, <1>4 DEF b, p
<1>5. CASE p # Len(g[b])
  <2>1. p + 1 \in DOMAIN g[b]
    <3>1. p \in Nat /\ 1 <= p /\ p <= Len(g[b]) /\ Len(g[b]) \in Nat
      BY <1>1, <1>2
    <3>2. p + 1 \in 1..Len(g[b])
      BY <1>5, <3>1
    <3> QED  BY <1>2, <3>2
  <2>2. g[b][p + 1].id \in Ids(g) /\ At(g, g[b][p + 1].id) = <<b, p + 1>>
    BY <1>1, <2>1, AtIs
  <2> QED  BY <1>3, <1>5, <2>2 DEF b, p
<1> QED  BY <1>4, <1>5

(* The walk arrives at instruction c.                                      *)
LEMMA ArriveAt ==
  ASSUME PassInv, pc = "visit", NEW c \in Ids(graph), NEW kind,
         kind = Instr(graph, c).kind
  PROVE  /\ Visits(kind) \in Seq(Nat \X Nat)
         /\ \A n \in DOMAIN Visits(kind) :
              /\ Registered(Visits(kind)[n][1], kind)
              /\ Visits(kind)[n][2] \in
                   DOMAIN Policy[Visits(kind)[n][1]].targets
         /\ c # 0 /\ graph \in Graph /\ Unique(graph)
<1>1. /\ input \in Inputs /\ Control /\ Sound(graph, fresh)
  BY DEF PassInv, GraphInv
<1>2. pass \in DOMAIN input.policies
  BY <1>1 DEF Control
<1>3. \A i \in DOMAIN Policy : Policy[i] \in DeclaredInjection
  BY <1>1, <1>2, InputIs
<1>4. /\ table \in [VisitorKeys -> Seq(Nat)]
      /\ \A k \in VisitorKeys : \A n \in DOMAIN table[k] :
           Registered(table[k][n], k)
  BY <1>1 DEF Control
<1>5. graph \in Graph /\ Unique(graph)
  BY <1>1 DEF Sound
<1>6. c # 0
  BY <1>5, AtType
<1> QED  BY <1>3, <1>4, <1>5, <1>6, VisitsAre

(* The first instruction of a block is at its first place.                 *)
LEMMA FirstIs ==
  ASSUME NEW g \in Graph, Unique(g), NEW b \in DOMAIN g, First(g[b]) # 0
  PROVE  First(g[b]) \in Ids(g) /\ At(g, First(g[b])) = <<b, 1>>
<1>1. g[b] \in Seq(Instruction)
  BY DEF Graph
<1>2. g[b] # <<>> /\ First(g[b]) = g[b][1].id
  BY <1>1 DEF First
<1>3. 1 \in DOMAIN g[b]
  BY <1>1, <1>2
<1> QED  BY <1>2, <1>3, AtIs

(* The parts of the invariant that no step of the visitor but Inject       *)
(* touches.                                                                *)
Still(g, lib, f) ==
  /\ Sound(g, f) /\ Entry(g) /\ Codelib(g, lib) /\ Libs(g) /\ Apart(g)
  /\ Ends(g) /\ Reserved /\ input \in Inputs

(* They hold after such a step.                                            *)
LEMMA StillStill ==
  ASSUME PassInv, pc \in {"visit", "fix"}, pc' \in {pc, "fix", "aborted"},
         UNCHANGED <<input, graph, outs, pass, codelib, fresh>>
  PROVE  Still(graph, codelib, fresh)'
<1>1. Still(graph, codelib, fresh)
  BY DEF PassInv, GraphInv, Still
<1>2. Sound(graph, fresh)'
  BY <1>1 DEF Still, Sound, Origin
<1>3. (Entry(graph) /\ Libs(graph) /\ Ends(graph))'
  BY <1>1 DEF Still, Entry, Libs, Ends
<1>4. Codelib(graph, codelib)'
  BY <1>1 DEF Still, Codelib
<1>5. Apart(graph)'
  <2>1. AimsAtStartCalls' = AimsAtStartCalls
    BY DEF AimsAtStartCalls, CarriedOutAt
  <2> QED  BY <1>1, <2>1 DEF Still, Apart
<1>6. Reserved'
  BY <1>1 DEF Still, Reserved
<1> QED  BY <1>1, <1>2, <1>3, <1>4, <1>5, <1>6 DEF Still

(* The parts make the invariant.                                           *)
LEMMA Together ==
  ASSUME Still(graph, codelib, fresh)', Control', Walk(graph)',
         OwnBehind(graph)', Ahead(graph)'
  PROVE  PassInv'
BY DEF Still, PassInv, GraphInv

(* MayMeetItself does not change within a pass.                            *)
LEMMA MayMeetItselfStill ==
  ASSUME UNCHANGED <<input, pass, before>>
  PROVE  MayMeetItself' = MayMeetItself
BY DEF MayMeetItself, Policy

(* The visitor enters a block: all calls of the pass are behind.           *)
LEMMA EnterBlockInv == ASSUME PassInv, EnterBlock PROVE PassInv'
<1> USE DEF EnterBlock
<1>0. /\ input \in Inputs /\ Control /\ Sound(graph, fresh)
      /\ OwnBehind(graph) /\ Ahead(graph)
  BY DEF PassInv, GraphInv
<1>1. graph \in Graph /\ Unique(graph) /\ block \in Nat /\ Len(graph) \in Nat
  BY <1>0 DEF Sound, Control, Graph
<1> DEFINE c == First(graph[block + 1])
           kind == Instr(graph, c).kind
<1>2. block + 1 \in DOMAIN graph /\ cur' = c /\ graph' = graph
      /\ block' = block + 1
  BY <1>1 DEF Graph
<1> HIDE DEF c
<1>3. c # 0 => c \in Ids(graph) /\ At(graph, c) = <<block + 1, 1>>
  BY <1>1, <1>2, FirstIs DEF c
<1>4. ASSUME c # 0
      PROVE  /\ todo' = Visits(kind)
             /\ Visits(kind) \in Seq(Nat \X Nat)
             /\ \A n \in DOMAIN Visits(kind) :
                  /\ Registered(Visits(kind)[n][1], kind)
                  /\ Visits(kind)[n][2] \in
                       DOMAIN Policy[Visits(kind)[n][1]].targets
  BY <1>2, <1>3, <1>4, ArriveAt
<1>5. c = 0 => todo' = <<>> /\ next' = 0
  BY <1>2
<1>6. Control'
  <2>1. todo' \in Seq(Nat \X Nat)
    BY <1>4, <1>5, EmptySeq
  <2>2. \A k \in VisitorKeys : \A n \in DOMAIN table'[k] :
          Registered(table[k][n], k)'
    BY <1>0 DEF Control, Registered, Policy
  <2> QED  BY <1>0, <1>1, <1>2, <1>5, <2>1, <2>2 DEF Control
<1>7. Walk(graph)'
  <2> SUFFICES ASSUME c # 0
               PROVE  /\ c \in Ids(graph) /\ At(graph, c)[1] = block'
                      /\ next' # 0 => /\ next' \in Ids(graph)
                                      /\ At(graph, next')[1] = block'
                                      /\ At(graph, c)[2] < At(graph, next')[2]
                      /\ \A n \in DOMAIN todo' :
                           /\ Registered(todo'[n][1], kind)
                           /\ todo'[n][2] \in
                                DOMAIN Policy[todo'[n][1]].targets
    BY <1>2, ZenonT(30) DEF Walk, Registered, Policy
  <2>1. next' = Successor(graph, c)
    BY <1>2
  <2> QED  BY <1>1, <1>2, <1>3, <1>4, <2>1, SuccessorIs
<1>8. OwnBehind(graph)'
  <2>1. MayMeetItself' = MayMeetItself
    BY MayMeetItselfStill
  <2>2. \A b \in DOMAIN graph : \A k \in DOMAIN graph[b] :
          Behind(graph, b, k) => b < block + 1
    BY <1>1 DEF Behind, Graph
  <2>3. \A b \in DOMAIN graph : \A k \in DOMAIN graph[b] :
          Behind(graph, b, k) => Behind(graph, b, k)'
    BY <1>2, <2>2 DEF Behind
  <2> QED  BY <1>0, <2>1, <2>3 DEF OwnBehind
<1>9. Ahead(graph)'
  <2>1. block' = 1 => graph' = before'
    BY <1>0, <1>1, <1>2 DEF Ahead
  <2> QED  BY <1>1, <1>2, <1>5, <2>1 DEF Ahead
<1> QED  BY <1>6, <1>7, <1>8, <1>9, StillStill, Together

(* The iterator advances to an instruction ahead of all calls of the pass. *)
LEMMA AdvanceInv == ASSUME PassInv, Advance PROVE PassInv'
<1> USE DEF Advance
<1>0. /\ input \in Inputs /\ Control /\ Sound(graph, fresh) /\ Entry(graph)
      /\ Walk(graph) /\ OwnBehind(graph) /\ Ahead(graph)
  BY DEF PassInv, GraphInv
<1>1. graph \in Graph /\ Unique(graph) /\ block \in Nat /\ Len(graph) \in Nat
  BY <1>0 DEF Sound, Control, Graph
<1> DEFINE kind == Instr(graph, next).kind
<1>2. /\ cur' = next /\ graph' = graph /\ block' = block
      /\ next = 0 => todo' = <<>> /\ next' = 0
      /\ next # 0 => todo' = Visits(kind) /\ next' = Successor(graph, next)
  OBVIOUS
<1>3. next # 0 => /\ next \in Ids(graph) /\ At(graph, next)[1] = block
                  /\ At(graph, next)[2] \in Nat
  BY <1>0, <1>1, AtType DEF Walk
<1>4. ASSUME next # 0
      PROVE  /\ Visits(kind) \in Seq(Nat \X Nat)
             /\ \A n \in DOMAIN Visits(kind) :
                  /\ Registered(Visits(kind)[n][1], kind)
                  /\ Visits(kind)[n][2] \in
                       DOMAIN Policy[Visits(kind)[n][1]].targets
  BY <1>3, <1>4, ArriveAt
<1>5. ASSUME next # 0, next' # 0
      PROVE  /\ next' \in Ids(graph)
             /\ At(graph, next') = <<block, At(graph, next)[2] + 1>>
  BY <1>1, <1>2, <1>3, <1>5, SuccessorIs
<1> HIDE DEF Advance
<1>6. /\ UNCHANGED <<input, graph, outs, pass, codelib, fresh, before, table,
                     pc>>
      /\ pc = "visit"
  BY DEF Advance
<1>7. Control'
  <2>1. todo' \in Seq(Nat \X Nat)
    BY <1>2, <1>4, EmptySeq
  <2>2. \A k \in VisitorKeys : \A n \in DOMAIN table'[k] :
          Registered(table[k][n], k)'
    BY <1>0, <1>6 DEF Control, Registered, Policy
  <2> QED  BY <1>0, <1>1, <1>2, <1>6, <2>1, <2>2 DEF Control
<1>8. Walk(graph)'
  <2> SUFFICES ASSUME next # 0
               PROVE  /\ next \in Ids(graph) /\ At(graph, next)[1] = block'
                      /\ next' # 0 => /\ next' \in Ids(graph)
                                      /\ At(graph, next')[1] = block'
                                      /\ At(graph, next)[2]
                                           < At(graph, next')[2]
                      /\ \A n \in DOMAIN todo' :
                           /\ Registered(todo'[n][1], kind)
                           /\ todo'[n][2] \in
                                DOMAIN Policy[todo'[n][1]].targets
    BY <1>2, <1>6 DEF Walk, Registered, Policy
  <2> QED  BY <1>2, <1>3, <1>4, <1>5
<1>9. OwnBehind(graph)'
  <2>1. MayMeetItself' = MayMeetItself
    BY <1>6, MayMeetItselfStill
  <2>2. ASSUME NEW b \in DOMAIN graph, NEW k \in DOMAIN graph[b],
               Behind(graph, b, k)
        PROVE  Behind(graph, b, k)'
    <3>1. CASE b < block
      BY <1>2, <3>1 DEF Behind
    <3>2. CASE b = block /\ next = 0
      BY <1>2, <3>2 DEF Behind
    <3>3. CASE ~ (b < block) /\ next # 0
      <4>1. b = block /\ k < At(graph, next)[2] /\ k \in Nat
        <5>1. cur # 0
          BY DEF Advance
        <5>2. k \in Nat
          BY <1>1 DEF Graph
        <5> QED  BY <2>2, <3>3, <5>1, <5>2 DEF Behind
      <4>2. k # At(graph, cur')[2]
        BY <1>2, <1>3, <3>3, <4>1
      <4>3. next' # 0 => k < At(graph, next')[2]
        BY <1>3, <1>5, <3>3, <4>1
      <4> QED  BY <1>2, <4>1, <4>2, <4>3 DEF Behind
    <3>4. b < block \/ b = block
      BY <2>2 DEF Behind
    <3> QED  BY <3>1, <3>2, <3>3, <3>4
  <2> QED  BY <1>0, <1>2, <1>6, <2>1, <2>2 DEF OwnBehind
<1>10. Ahead(graph)'
  <2>1. ASSUME next = EntryEnd(graph) PROVE next' = 0
    <3>1. /\ next # 0 /\ next \in Ids(graph)
          /\ At(graph, next) = <<1, Len(graph[1])>>
      BY <1>0, <1>1, <2>1, EntryEndIs, AtType
    <3> QED  BY <1>1, <1>2, <3>1, SuccessorIs
  <2>2. block # 0
    BY <1>0, <1>6 DEF Ahead, Advance
  <2> QED  BY <1>0, <1>2, <1>6, <2>1, <2>2 DEF Ahead, CallInside
<1> QED  BY <1>6, <1>7, <1>8, <1>9, <1>10, StillStill, Together

OlderParts(blk, n) ==
  [k \in DOMAIN blk |-> IF blk[k].id < n THEN <<blk[k]>> ELSE <<>>]

(* Older puts them together.                                               *)
LEMMA OlderPartsIs ==
  ASSUME NEW s \in Seq(Instruction), NEW n
  PROVE  /\ OlderParts(s, n) \in Seq(Seq(Instruction))
         /\ Len(OlderParts(s, n)) = Len(s)
         /\ \A k \in 1..Len(s) :
              OlderParts(s, n)[k] = IF s[k].id < n THEN <<s[k]>> ELSE <<>>
         /\ Older(s, n) = FlattenSeq(OlderParts(s, n))
<1>1. DOMAIN s = 1..Len(s) /\ Len(s) \in Nat
      /\ \A k \in DOMAIN s : s[k] \in Instruction
  OBVIOUS
<1>2. OlderParts(s, n) \in [1..Len(s) -> Seq(Instruction)]
  <2>1. \A k \in DOMAIN s : <<s[k]>> \in Seq(Instruction)
    BY <1>1
  <2>2. <<>> \in Seq(Instruction)
    BY EmptySeq
  <2> QED  BY <1>1, <2>1, <2>2 DEF OlderParts
<1>3. OlderParts(s, n) \in Seq(Seq(Instruction))
      /\ Len(OlderParts(s, n)) = Len(s)
  BY <1>1, <1>2, FunctionIsSeq
<1>4. \A k \in 1..Len(s) :
        OlderParts(s, n)[k] = IF s[k].id < n THEN <<s[k]>> ELSE <<>>
  BY <1>1 DEF OlderParts
<1>5. Older(s, n) = FlattenSeq(OlderParts(s, n))
  BY DEF Older, OlderParts
<1> QED  BY <1>3, <1>4, <1>5

(* Nothing is older in an empty block.                                     *)
LEMMA OlderEmpty == ASSUME NEW n PROVE Older(<<>>, n) = <<>>
<1>1. <<>> \in Seq(Instruction)
  BY EmptySeq
<1>2. Older(<<>>, n) = FlattenSeq(OlderParts(<<>>, n))
      /\ OlderParts(<<>>, n) \in Seq(Seq(Instruction))
      /\ Len(OlderParts(<<>>, n)) = Len(<<>>)
  BY <1>1, OlderPartsIs
<1>3. OlderParts(<<>>, n) = <<>>
  BY <1>2
<1> QED  BY <1>2, <1>3, FlattenEmpty

(* One more instruction counts if it is older.                             *)
LEMMA OlderAppend ==
  ASSUME NEW s \in Seq(Instruction), NEW e \in Instruction, NEW n
  PROVE  Older(Append(s, e), n) =
           Older(s, n) \o (IF e.id < n THEN <<e>> ELSE <<>>)
<1> DEFINE t == Append(s, e)
           last == IF e.id < n THEN <<e>> ELSE <<>>
           p == OlderParts(s, n)
           q == OlderParts(t, n)
<1>1. /\ t \in Seq(Instruction) /\ Len(t) = Len(s) + 1 /\ Len(s) \in Nat
      /\ t[Len(s) + 1] = e /\ \A k \in 1..Len(s) : t[k] = s[k]
  BY AppendProperties, LenProperties
<1>2. last \in Seq(Instruction)
  BY EmptySeq
<1> HIDE DEF t
<1>3. /\ p \in Seq(Seq(Instruction)) /\ Len(p) = Len(s)
      /\ \A k \in 1..Len(s) : p[k] = IF s[k].id < n THEN <<s[k]>> ELSE <<>>
      /\ Older(s, n) = FlattenSeq(p)
  BY OlderPartsIs
<1>4. /\ q \in Seq(Seq(Instruction)) /\ Len(q) = Len(t)
      /\ \A k \in 1..Len(t) : q[k] = IF t[k].id < n THEN <<t[k]>> ELSE <<>>
      /\ Older(t, n) = FlattenSeq(q)
  BY <1>1, OlderPartsIs
<1> HIDE DEF p, q
<1>5. Len(s) + 1 \in 1..Len(t) /\ \A k \in 1..Len(s) : k \in 1..Len(t)
  BY <1>1
<1>6. q[Len(s) + 1] = last /\ \A k \in 1..Len(s) : q[k] = p[k]
  BY <1>1, <1>3, <1>4, <1>5
<1> HIDE DEF last
<1>7. q = Append(p, last)
  <2> DEFINE r == Append(p, last)
  <2>1. /\ r \in Seq(Seq(Instruction)) /\ Len(r) = Len(s) + 1
        /\ r[Len(s) + 1] = last /\ \A k \in 1..Len(s) : r[k] = p[k]
    BY <1>2, <1>3, AppendProperties
  <2> HIDE DEF r
  <2>2. \A k \in 1..Len(q) : q[k] = r[k]
    <3>1. Len(q) = Len(s) + 1
      BY <1>1, <1>4
    <3>2. \A k \in 1..(Len(s) + 1) : k \in 1..Len(s) \/ k = Len(s) + 1
      BY <1>1
    <3> QED  BY <1>6, <2>1, <3>1, <3>2
  <2>3. Len(q) = Len(r)
    BY <1>1, <1>4, <2>1
  <2>4. q = r
    BY <1>4, <2>1, <2>2, <2>3, SeqEqual
  <2> QED  BY <2>4 DEF r
<1>8. FlattenSeq(q) = FlattenSeq(p) \o last
  BY <1>2, <1>3, <1>7, FlattenAppend
<1> QED  BY <1>3, <1>4, <1>8 DEF t, last

(* What is older is a block.                                               *)
LEMMA OlderType ==
  ASSUME NEW s \in Seq(Instruction), NEW n
  PROVE  Older(s, n) \in Seq(Instruction)
<1>1. Older(s, n) = FlattenSeq(OlderParts(s, n))
      /\ OlderParts(s, n) \in Seq(Seq(Instruction))
  BY OlderPartsIs
<1> QED  BY <1>1, FlattenType

(* If all instructions are older, they are what is older.                  *)
LEMMA OlderAll ==
  ASSUME NEW s \in Seq(Instruction), NEW n, \A k \in 1..Len(s) : s[k].id < n
  PROVE  Older(s, n) = s
<1> DEFINE T == {t \in Seq(Instruction) :
                   (\A k \in 1..Len(t) : t[k].id < n) => Older(t, n) = t}
<1>1. <<>> \in T
  BY OlderEmpty, EmptySeq
<1>2. ASSUME NEW t \in Seq(Instruction), NEW e \in Instruction, t \in T
      PROVE  Append(t, e) \in T
  <2> DEFINE u == Append(t, e)
  <2>1. /\ u \in Seq(Instruction) /\ Len(u) = Len(t) + 1 /\ Len(t) \in Nat
        /\ u[Len(t) + 1] = e /\ \A k \in 1..Len(t) : u[k] = t[k]
    BY AppendProperties, LenProperties
  <2>2. Older(u, n) = Older(t, n) \o (IF e.id < n THEN <<e>> ELSE <<>>)
    BY OlderAppend
  <2>3. t \o <<e>> = u
    OBVIOUS
  <2> HIDE DEF u
  <2>4. ASSUME \A k \in 1..Len(u) : u[k].id < n PROVE Older(u, n) = u
    <3>1. Len(t) + 1 \in 1..Len(u) /\ \A k \in 1..Len(t) : k \in 1..Len(u)
      BY <2>1
    <3>2. e.id < n
      BY <2>1, <2>4, <3>1
    <3>3. Older(t, n) = t
      BY <1>2, <2>1, <2>4, <3>1
    <3> QED  BY <2>2, <2>3, <3>2, <3>3
  <2> QED  BY <2>1, <2>4 DEF u
<1> HIDE DEF T
<1>3. Seq(Instruction) \subseteq T
  BY <1>1, <1>2, SequenceInduction
<1> QED  BY <1>3 DEF T

(* Older distributes over concatenation.                                   *)
LEMMA OlderConcat ==
  ASSUME NEW s \in Seq(Instruction), NEW t \in Seq(Instruction), NEW n
  PROVE  Older(s \o t, n) = Older(s, n) \o Older(t, n)
<1> DEFINE T == {u \in Seq(Instruction) :
                   Older(s \o u, n) = Older(s, n) \o Older(u, n)}
<1>1. <<>> \in T
  <2>1. s \o <<>> = s
    BY ConcatEmptySeq
  <2>2. Older(s, n) \o <<>> = Older(s, n)
    BY OlderType, ConcatEmptySeq
  <2>3. <<>> \in Seq(Instruction)
    BY EmptySeq
  <2> QED  BY <2>1, <2>2, <2>3, OlderEmpty
<1>2. ASSUME NEW u \in Seq(Instruction), NEW e \in Instruction, u \in T
      PROVE  Append(u, e) \in T
  <2> DEFINE r == IF e.id < n THEN <<e>> ELSE <<>>
  <2>1. s \o Append(u, e) = Append(s \o u, e)
    OBVIOUS
  <2>2. Append(u, e) \in Seq(Instruction) /\ s \o u \in Seq(Instruction)
        /\ r \in Seq(Instruction)
    BY AppendProperties, ConcatProperties, EmptySeq
  <2>3. /\ Older(Append(s \o u, e), n) = Older(s \o u, n) \o r
        /\ Older(Append(u, e), n) = Older(u, n) \o r
    BY <2>2, OlderAppend
  <2> HIDE DEF r
  <2>4. (Older(s, n) \o Older(u, n)) \o r = Older(s, n) \o (Older(u, n) \o r)
    BY <2>2, OlderType, ConcatAssociative, SMTT(30)
  <2> QED  BY <1>2, <2>1, <2>2, <2>3, <2>4
<1> HIDE DEF T
<1>3. Seq(Instruction) \subseteq T
  BY <1>1, <1>2, SequenceInduction
<1> QED  BY <1>3 DEF T

(* A newer instruction put into a block leaves what is older.              *)
LEMMA OlderInsert ==
  ASSUME NEW s \in Seq(Instruction), NEW x \in Instruction, NEW n \in Nat,
         ~ (x.id < n), NEW k \in 1..(Len(s) + 1)
  PROVE  Older(InsertAt(s, k, x), n) = Older(s, n)
<1> DEFINE p == SubSeq(s, 1, k - 1)
           q == SubSeq(s, k, Len(s))
<1>1. p \in Seq(Instruction) /\ q \in Seq(Instruction) /\ p \o q = s
  <2>0. Len(s) \in Nat /\ \A j \in 1..Len(s) : s[j] \in Instruction
    BY LenProperties, ElementOfSeq
  <2>1. /\ p \in Seq(Instruction) /\ Len(p) = k - 1
        /\ \A j \in 1..(k - 1) : p[j] = s[j]
    BY <2>0, SubSeqProperties
  <2>2. /\ q \in Seq(Instruction) /\ Len(q) = Len(s) - k + 1
        /\ \A j \in 1..(Len(s) - k + 1) : q[j] = s[k + j - 1]
    BY <2>0, SubSeqProperties
  <2> HIDE DEF p, q
  <2> DEFINE r == p \o q
  <2>3. /\ r \in Seq(Instruction) /\ Len(r) = Len(s)
        /\ \A j \in 1..Len(s) : r[j] = IF j <= k - 1 THEN p[j]
                                       ELSE q[j - (k - 1)]
    <3>1. Len(p) + Len(q) = Len(s)
      BY <2>0, <2>1, <2>2
    <3> QED  BY <2>1, <2>2, <3>1, ConcatProperties
  <2> HIDE DEF r
  <2>4. \A j \in 1..Len(s) : r[j] = s[j]
    <3> SUFFICES ASSUME NEW j \in 1..Len(s) PROVE r[j] = s[j]
      OBVIOUS
    <3>1. CASE j <= k - 1
      BY <2>0, <2>1, <2>3, <3>1
    <3>2. CASE ~ (j <= k - 1)
      <4>1. j - (k - 1) \in 1..(Len(s) - k + 1) /\ k + (j - (k - 1)) - 1 = j
        BY <2>0, <3>2
      <4>2. q[j - (k - 1)] = s[j]
        BY <2>2, <4>1
      <4> QED  BY <2>3, <3>2, <4>2
    <3> QED  BY <3>1, <3>2
  <2>5. r = s
    BY <2>3, <2>4, SeqEqual
  <2> QED  BY <2>1, <2>2, <2>5 DEF r
<1>2. InsertAt(s, k, x) = (p \o <<x>>) \o q
  BY DEF InsertAt
<1> HIDE DEF p, q
<1>3. p \o <<x>> = Append(p, x) /\ Append(p, x) \in Seq(Instruction)
  BY <1>1
<1>4. Older(Append(p, x), n) = Older(p, n)
  <2>1. Older(Append(p, x), n) = Older(p, n) \o <<>>
    BY <1>1, OlderAppend
  <2> QED  BY <1>1, <2>1, OlderType, ConcatEmptySeq
<1>5. Older(Append(p, x) \o q, n) = Older(Append(p, x), n) \o Older(q, n)
  BY <1>1, <1>3, OlderConcat
<1>6. Older(p \o q, n) = Older(p, n) \o Older(q, n)
  <2>1. p \in Seq(Instruction) /\ q \in Seq(Instruction)
    BY <1>1
  <2> QED  BY <2>1, OlderConcat, SMTT(30)
<1> QED  BY <1>1, <1>2, <1>3, <1>4, <1>5, <1>6

(* So does one put into a graph.                                           *)
LEMMA OlderPut ==
  ASSUME NEW g \in Graph, NEW x \in Instruction, NEW b \in DOMAIN g,
         NEW k \in 1..(Len(g[b]) + 1), NEW n \in Nat, ~ (x.id < n),
         NEW c \in DOMAIN g
  PROVE  Older(Put(g, b, k, x)[c], n) = Older(g[c], n)
<1>1. g[b] \in Seq(Instruction)
  BY DEF Graph
<1>2. CASE c = b
  BY <1>1, <1>2, PutIs, OlderInsert
<1>3. CASE c # b
  BY <1>3, PutIs
<1> QED  BY <1>2, <1>3

(* What is left of a visit.                                                *)
LEMMA RestOfVisit ==
  ASSUME PassInv, pc = "visit", todo # <<>>, todo' = Tail(todo),
         UNCHANGED <<input, pass, pc, table, block, cur, next, outs>>,
         Len(graph') = Len(graph)
  PROVE  /\ Control'
         /\ \A n \in DOMAIN todo' : \E m \in DOMAIN todo : todo'[n] = todo[m]
         /\ cur # 0
<1>1. Control
  BY DEF PassInv
<1>2. todo \in Seq(Nat \X Nat)
  BY <1>1 DEF Control
<1>3. /\ todo' \in Seq(Nat \X Nat)
      /\ \A n \in DOMAIN todo' :
           n + 1 \in DOMAIN todo /\ todo'[n] = todo[n + 1]
  BY <1>2, TailIs
<1>4. cur # 0
  BY <1>1 DEF Control
<1>5. Control'
  <2>1. \A k \in VisitorKeys : \A n \in DOMAIN table'[k] :
          Registered(table[k][n], k)'
    BY <1>1 DEF Control, Registered, Policy
  <2> QED  BY <1>1, <1>3, <1>4, <2>1 DEF Control
<1> QED  BY <1>3, <1>4, <1>5

(* A target passed over changes nothing but the visit.                     *)
LEMMA PassOverInv == ASSUME PassInv, PassOver PROVE PassInv'
<1>0. Walk(graph) /\ OwnBehind(graph) /\ Ahead(graph)
  BY DEF PassInv, GraphInv
<1>1. /\ pc = "visit" /\ todo # <<>> /\ todo' = Tail(todo)
      /\ UNCHANGED <<input, graph, outs, pass, pc, table, codelib, block, cur,
                     next, fresh, before>>
  BY DEF PassOver
<1>2. /\ Control'
      /\ \A n \in DOMAIN todo' : \E m \in DOMAIN todo : todo'[n] = todo[m]
  BY <1>1, RestOfVisit
<1>3. Walk(graph)'
  BY <1>0, <1>1, <1>2, ZenonT(30) DEF Walk, Registered, Policy
<1>4. OwnBehind(graph)'
  <2>1. MayMeetItself' = MayMeetItself
    BY <1>1, MayMeetItselfStill
  <2> QED  BY <1>0, <1>1, <2>1 DEF OwnBehind, Behind
<1>5. Ahead(graph)'
  BY <1>0, <1>1 DEF Ahead, CallInside
<1> QED  BY <1>1, <1>2, <1>3, <1>4, <1>5, StillStill, Together

(* Neither does the end of the visit, or an abort.                         *)
LEMMA StopInv ==
  ASSUME PassInv, AbortCompilation \/ EndVisit
  PROVE  PassInv'
<1>0. Control /\ Walk(graph)
  BY DEF PassInv, GraphInv
<1>1. /\ pc = "visit" /\ pc' \in {"aborted", "fix"}
      /\ pc' = "fix" => cur = 0
      /\ UNCHANGED <<input, graph, outs, pass, table, codelib, block, cur,
                     next, todo, fresh, before>>
  BY DEF AbortCompilation, EndVisit
<1>2. Control'
  <2>1. \A k \in VisitorKeys : \A n \in DOMAIN table'[k] :
          Registered(table[k][n], k)'
    BY <1>0, <1>1 DEF Control, Registered, Policy
  <2> QED  BY <1>0, <1>1, <2>1 DEF Control
<1>3. Walk(graph)'
  BY <1>0, <1>1 DEF Walk, Registered, Policy
<1>4. OwnBehind(graph)' /\ Ahead(graph)'
  BY <1>1 DEF OwnBehind, Ahead
<1> QED  BY <1>1, <1>2, <1>3, <1>4, StillStill, Together

(* h is g with an instruction of the pass put somewhere.                   *)
InsertedAs(g, f, b, n, x, h) ==
  /\ Placed(g, f, b, n, x) /\ Walk(g) /\ x.by = pass
  /\ h = Put(g, b, n, x)

Inserted(g, f, h) == \E b, n, x : InsertedAs(g, f, b, n, x, h)

(* The two instructions that Inject inserts.                               *)
Loading(g, f, x, h) ==
  InsertedAs(g, f, 1, Len(g[1]), x, h) /\ x.inj = 0 /\ x.anchor = 0

Calling(g, f, x, h) ==
  LET i == Head(todo)[1]
      type == Policy[i].targets[Head(todo)[2]].type
  IN  /\ InsertedAs(g, f, Where(g, type)[1], Where(g, type)[2], x, h)
      /\ x.inj = i /\ x.anchor = cur

(* Inject keeps the invariant, and what is older than its step; it inserts *)
(* the call, and before it the codelib if that is not loaded.              *)
LEMMA InjectInv ==
  ASSUME PassInv, Inject
  PROVE  /\ PassInv'
         /\ \A b \in DOMAIN graph :
              Older(graph'[b], fresh) = Older(graph[b], fresh)
         /\ \E g, f, x, y :
              /\ IF codelib = 0 THEN Loading(graph, fresh, x, g)
                 ELSE g = graph
              /\ Calling(g, f, y, graph')
<1> DEFINE i == Head(todo)[1]
           m == Head(todo)[2]
           t == Policy[i].targets[m]
           new == [id |-> fresh, by |-> pass, kind |-> "CodeLib",
                   callee |-> "", args |-> 0, words |-> 0, inj |-> 0,
                   anchor |-> 0, lib |-> 0]
           g == IF NeedsCodelib
                THEN InsertBefore(graph, LibCursor(graph), new) ELSE graph
           lib == IF NeedsCodelib THEN fresh ELSE codelib
           f == IF NeedsCodelib THEN fresh + 1 ELSE fresh
           call == [new EXCEPT !.id = f, !.kind = "HInvokeVirtual",
                               !.callee = Policy[i].signature,
                               !.args = Arguments(Policy[i].parameters),
                               !.words = Words(Policy[i].parameters),
                               !.inj = i, !.anchor = cur, !.lib = lib]
<1>0. /\ input \in Inputs /\ Control /\ Reserved
      /\ GraphInv(graph, codelib, fresh)
      /\ Sound(graph, fresh) /\ Entry(graph) /\ Walk(graph)
  BY DEF PassInv, GraphInv
<1>1. /\ pc = "visit" /\ todo # <<>> /\ todo' = Tail(todo)
      /\ UNCHANGED <<input, outs, pass, pc, table, block, cur, next, before>>
  BY DEF Inject
<1>2. /\ t.type # "NO_INJECTION" /\ Matches(t, Instr(graph, cur))
      /\ graph' = Place(g, t.type, call)
      /\ codelib' = lib /\ fresh' = f + 1
  BY DEF Inject
<1>3. /\ 1 \in DOMAIN todo /\ Head(todo) = todo[1] /\ cur # 0
  BY <1>0, <1>1 DEF Control
<1>4. /\ Registered(i, Instr(graph, cur).kind)
      /\ m \in DOMAIN Policy[i].targets
  BY <1>0, <1>3 DEF Walk
<1>5. Visiting(graph, i)
  BY <1>0, <1>1, <1>3, <1>4 DEF Visiting
<1>6. /\ i \in DOMAIN Policy /\ Policy[i] \in DeclaredInjection
      /\ Policy[i].parameters \in Seq(ParameterTypes) /\ i \in Nat
      /\ pass \in Nat \ {0} /\ pass \in DOMAIN input.policies
  <2>1. i \in DOMAIN Policy /\ pass \in DOMAIN input.policies
    BY <1>0, <1>1, <1>4 DEF Registered, Control
  <2> QED  BY <1>0, <2>1, InputIs
<1>7. fresh \in Nat \ {0} /\ cur \in Nat /\ cur \in Ids(graph)
      /\ graph \in Graph /\ Unique(graph)
  BY <1>0, <1>3, AtType DEF Sound, Walk
<1> HIDE DEF i, m
<1>8. /\ new \in Instruction /\ new.id = fresh /\ new.by = pass
      /\ new.kind = "CodeLib" /\ new.lib = 0
      /\ new.inj = 0 /\ new.anchor = 0
  BY <1>6, <1>7 DEF Instruction
<1> HIDE DEF new
<1>9. /\ GraphInv(g, lib, f) /\ lib # 0 /\ f \in Nat \ {0} /\ lib \in Nat
      /\ Instr(g, cur) = Instr(graph, cur)
      /\ Len(g) = Len(graph) /\ DOMAIN g = DOMAIN graph
      /\ \A b \in DOMAIN graph : Older(g[b], fresh) = Older(graph[b], fresh)
      /\ ~ (f < fresh)
      /\ IF codelib = 0 THEN Loading(graph, fresh, new, g) ELSE g = graph
  <2>1. CASE NeedsCodelib
    <3> DEFINE h == Put(graph, 1, Len(graph[1]), new)
    <3>1. g = h
      <4>1. At(graph, EntryEnd(graph)) = <<1, Len(graph[1])>>
        BY <1>0, EntryEndIs
      <4> QED  BY <2>1, <4>1 DEF LibCursor, InsertBefore, Put
    <3>2. codelib = 0 /\ lib = fresh /\ f = fresh + 1
      BY <2>1 DEF NeedsCodelib
    <3>3. GraphInv(h, fresh, fresh + 1)
      BY <1>0, <1>5, <1>8, <3>2, LibStep
    <3>4. Placed(graph, fresh, 1, Len(graph[1]), new)
      <4>1. Origin(new)
        BY <1>0, <1>6, <1>8 DEF Origin
      <4>2. 1 \in DOMAIN graph /\ Len(graph[1]) \in 1..(Len(graph[1]) + 1)
        BY <1>0, EntryEndIs
      <4> QED  BY <1>0, <1>8, <4>1, <4>2 DEF Placed
    <3>5. /\ Instr(h, cur) = Instr(graph, cur) /\ Len(h) = Len(graph)
          /\ DOMAIN h = DOMAIN graph
      BY <1>7, <3>4, PutEffect
    <3>6. ~ (fresh + 1 < fresh) /\ ~ (new.id < fresh)
      BY <1>7, <1>8
    <3>7. \A b \in DOMAIN graph : Older(h[b], fresh) = Older(graph[b], fresh)
      BY <1>7, <1>8, <3>4, <3>6, OlderPut DEF Placed
    <3>8. Loading(graph, fresh, new, h)
      BY <1>0, <1>8, <3>4 DEF Loading, InsertedAs
    <3> HIDE DEF h, g
    <3> QED  BY <1>7, <3>1, <3>2, <3>3, <3>5, <3>6, <3>7, <3>8
  <2>2. CASE ~NeedsCodelib
    <3>1. g = graph /\ lib = codelib /\ f = fresh
      BY <2>2
    <3>2. codelib # 0
      BY <2>2 DEF NeedsCodelib
    <3>3. codelib \in Nat
      <4>1. codelib \in Ids(graph)
        BY <1>0, <3>2 DEF GraphInv, Codelib
      <4> QED  BY <1>7, <4>1, AtType
    <3> HIDE DEF g, lib, f
    <3> QED  BY <1>0, <1>7, <3>1, <3>2, <3>3
  <2> QED  BY <2>1, <2>2
<1> HIDE DEF g, lib, f
<1>10. IsCall(call, i, lib, f)
  <2>1. /\ Policy[i].signature \in Signatures
        /\ Arguments(Policy[i].parameters) \in Nat
        /\ Words(Policy[i].parameters) \in Nat
    <3> DEFINE p == Policy[i].parameters
               wide == {n \in DOMAIN p : p[n] \in {"tLong", "tDouble"}}
    <3>1. Len(p) \in Nat /\ DOMAIN p = 1..Len(p)
      BY <1>6
    <3>2. Cardinality(wide) \in Nat
      <4>1. IsFiniteSet(1..Len(p))
        <5>1. Len(p) \in Int /\ 1 \in Int
          BY <3>1
        <5> HIDE DEF p
        <5> QED  BY <5>1, FS_Interval
      <4>2. IsFiniteSet(wide)
        BY <3>1, <4>1, FS_Subset
      <4> QED  BY <4>2, FS_CardinalityType
    <3>3. Policy[i].signature \in Signatures
      BY <1>6 DEF DeclaredInjection
    <3> QED  BY <3>1, <3>2, <3>3, SMTT(30) DEF Arguments, Words
  <2>2. /\ call \in Instruction /\ call.id = f /\ call.by = pass
        /\ call.kind = "HInvokeVirtual" /\ call.inj = i /\ call.lib = lib
        /\ call.callee = Policy[i].signature
        /\ call.args = Arguments(Policy[i].parameters)
        /\ call.words = Words(Policy[i].parameters)
    BY <1>6, <1>7, <1>9, <2>1 DEF new, Instruction, VisitorKeys, InvokeKeys
  <2> QED  BY <2>2 DEF IsCall, InjectedBy
<1>11. Visiting(g, i) /\ Matches(t, Instr(g, cur))
  BY <1>2, <1>5, <1>9 DEF Visiting
<1> HIDE DEF call
<1>12. GraphInv(graph', codelib', fresh')
  BY <1>2, <1>4, <1>9, <1>10, <1>11, CallStep
<1>23. /\ \A b \in DOMAIN graph :
            Older(graph'[b], fresh) = Older(graph[b], fresh)
       /\ Calling(g, f, call, graph')
  <2> DEFINE type == t.type
             b == Where(g, type)[1]
             n == Where(g, type)[2]
  <2>1. b = Where(g, type)[1] /\ n = Where(g, type)[2]
    OBVIOUS
  <2> HIDE DEF type, b, n
  <2>2. Sound(g, f) /\ Entry(g) /\ Walk(g) /\ Visiting(g, i)
    BY <1>9, <1>11 DEF GraphInv
  <2>3. /\ Place(g, type, call) = Put(g, b, n, call)
        /\ b \in DOMAIN g /\ n \in 1..(Len(g[b]) + 1)
    BY <2>1, <2>2, WhereIs
  <2>4. graph' = Put(g, b, n, call)
    BY <1>2, <2>3 DEF type
  <2>5. g \in Graph /\ call \in Instruction /\ ~ (call.id < fresh)
    BY <1>9, <1>10, <2>2 DEF Sound, IsCall
  <2>6. \A c \in DOMAIN g : Older(graph'[c], fresh) = Older(g[c], fresh)
    BY <1>7, <2>3, <2>4, <2>5, OlderPut
  <2>7. Origin(call)
    <3>1. b \in DOMAIN graph' /\ n \in DOMAIN graph'[b] /\ graph'[b][n] = call
      BY <2>2, <2>3, <2>4, <2>5, PutIs, PutKeeps
    <3> QED  BY <1>12, <3>1 DEF GraphInv, Sound
  <2>8. Calling(g, f, call, graph')
    <3>1. InsertedAs(g, f, b, n, call, graph')
      BY <1>10, <2>2, <2>3, <2>4, <2>7 DEF InsertedAs, Placed, IsCall
    <3>2. call.inj = i /\ call.anchor = cur
      BY DEF call
    <3> QED  BY <2>1, <3>1, <3>2 DEF Calling, type, i, m
  <2> QED  BY <1>9, <2>6, <2>8
<1>13. Len(graph') = Len(graph)
  BY <1>0, <1>12 DEF GraphInv, Sound
<1>14. /\ Control'
       /\ \A n \in DOMAIN todo' : \E k \in DOMAIN todo : todo'[n] = todo[k]
  BY <1>1, <1>13, RestOfVisit
<1>15. Reserved'
  BY <1>0, <1>1 DEF Reserved
<1>16. MayMeetItself' = MayMeetItself /\ AimsAtStartCalls' = AimsAtStartCalls
  BY <1>1, MayMeetItselfStill DEF AimsAtStartCalls, CarriedOutAt
<1>17. Sound(graph, fresh)' /\ Entry(graph)' /\ Libs(graph)' /\ Ends(graph)'
  BY <1>1, <1>12 DEF GraphInv, Sound, Origin, Entry, Libs, Ends
<1>18. Codelib(graph, codelib)'
  BY <1>1, <1>12 DEF GraphInv, Codelib
<1>19. Apart(graph)'
  BY <1>1, <1>12, <1>16 DEF GraphInv, Apart
<1>20. OwnBehind(graph)'
  BY <1>1, <1>12, <1>16 DEF GraphInv, OwnBehind, Behind
<1>21. Ahead(graph)'
  BY <1>1, <1>12 DEF GraphInv, Ahead, CallInside
<1>22. Walk(graph)'
  <2>1. \A n \in DOMAIN todo :
          /\ Registered(todo[n][1], Instr(graph', cur).kind)
          /\ todo[n][2] \in DOMAIN Policy[todo[n][1]].targets
    BY <1>3, <1>12 DEF GraphInv, Walk
  <2>2. /\ cur \in Ids(graph') /\ At(graph', cur)[1] = block
        /\ next # 0 => /\ next \in Ids(graph') /\ At(graph', next)[1] = block
                       /\ At(graph', cur)[2] < At(graph', next)[2]
    BY <1>3, <1>12 DEF GraphInv, Walk
  <2> QED  BY <1>1, <1>14, <2>1, <2>2, ZenonT(30) DEF Walk, Registered, Policy
<1> QED  BY <1>0, <1>1, <1>9, <1>14, <1>15, <1>17, <1>18, <1>19, <1>20, <1>21,
            <1>22, <1>23
         DEF PassInv, GraphInv

----------------------------------------------------------------------------
(* The numbers of arguments in a graph have a bound.                       *)
LEMMA ArgumentsBounded ==
  ASSUME NEW g \in Graph
  PROVE  \E n \in Nat : \A x \in Invokes(g) : x.args <= n /\ x.args \in Nat
<1> DEFINE of(b) == [k \in 1..Len(g[b]) |-> g[b][k].args]
           bound(b) == CHOOSE n \in Nat : \A k \in 1..Len(g[b]) :
                         g[b][k].args <= n
           all == [b \in 1..Len(g) |-> bound(b)]
<1>1. DOMAIN g = 1..Len(g) /\ Len(g) \in Nat
  BY DEF Graph
<1>2. ASSUME NEW b \in 1..Len(g)
      PROVE  /\ bound(b) \in Nat
             /\ \A k \in 1..Len(g[b]) : /\ g[b][k].args <= bound(b)
                                        /\ g[b][k].args \in Nat
             /\ DOMAIN g[b] = 1..Len(g[b])
  <2>1. g[b] \in Seq(Instruction)
    BY <1>1 DEF Graph
  <2>2. Len(g[b]) \in Nat /\ DOMAIN g[b] = 1..Len(g[b])
        /\ \A k \in 1..Len(g[b]) : g[b][k] \in Instruction
    BY <2>1
  <2>3. \A k \in 1..Len(g[b]) : g[b][k].args \in Nat
    BY <2>2 DEF Instruction
  <2>4. of(b) \in [1..Len(g[b]) -> Nat]
    BY <2>3
  <2>5. \A k \in 1..Len(g[b]) : of(b)[k] = g[b][k].args
    OBVIOUS
  <2> HIDE DEF of
  <2>6. of(b) \in Seq(Nat) /\ Len(of(b)) = Len(g[b])
    BY <2>2, <2>4, FunctionIsSeq
  <2>7. \E n \in Nat : \A k \in 1..Len(g[b]) : g[b][k].args <= n
    <3>1. PICK n \in Nat : \A k \in 1..Len(of(b)) : of(b)[k] <= n
      BY <2>6, BoundOf
    <3> QED  BY <2>5, <2>6, <3>1
  <2> QED  BY <2>2, <2>3, <2>7
<1>3. all \in [1..Len(g) -> Nat] /\ \A b \in 1..Len(g) : all[b] = bound(b)
  BY <1>2
<1> HIDE DEF all, bound
<1>4. all \in Seq(Nat) /\ Len(all) = Len(g)
  BY <1>1, <1>3, FunctionIsSeq
<1>5. PICK n \in Nat : \A b \in 1..Len(g) : all[b] <= n
  BY <1>4, BoundOf
<1>6. ASSUME NEW x \in Invokes(g) PROVE x.args <= n /\ x.args \in Nat
  <2>1. PICK b \in DOMAIN g : \E k \in DOMAIN g[b] : x = g[b][k]
    BY InvokesIn
  <2>2. PICK k \in DOMAIN g[b] : x = g[b][k]
    BY <2>1
  <2>3. x.args <= bound(b) /\ x.args \in Nat /\ bound(b) \in Nat
    BY <1>1, <1>2, <2>2
  <2>4. bound(b) <= n
    BY <1>1, <1>3, <1>5
  <2> QED  BY <2>3, <2>4
<1> QED  BY <1>6

(* The end of a pass: as many registers as any call has arguments, and the *)
(* next pass finds only calls of earlier ones.                             *)
LEMMA FixOutVRegsInv == ASSUME PassInv, FixOutVRegs PROVE PassInv'
<1>0. /\ input \in Inputs /\ Control /\ Reserved /\ Sound(graph, fresh)
      /\ Entry(graph) /\ Libs(graph) /\ Apart(graph) /\ Ends(graph)
  BY DEF PassInv, GraphInv
<1>1. /\ pc = "fix" /\ pc' \in {"setup", "done"}
      /\ outs' = Max({outs} \cup {NumberOfArguments(x) : x \in Invokes(graph)})
      /\ pc' = "setup" => pass < Len(input.policies) /\ pass' = pass + 1
      /\ pc' = "done" => pass' = pass
      /\ table' = [k \in VisitorKeys |-> <<>>]
      /\ codelib' = 0
      /\ UNCHANGED <<input, graph, block, cur, next, todo, fresh, before>>
  BY DEF FixOutVRegs
<1>2. /\ pass \in DOMAIN input.policies /\ pass \in Nat \ {0}
      /\ input.policies \in Seq(Seq(DeclaredInjection))
      /\ input.outs \in Nat /\ outs \in Nat /\ graph \in Graph
      /\ cur = 0 /\ next = 0 /\ todo = <<>>
  <2>1. pass \in DOMAIN input.policies /\ cur = 0 /\ outs \in Nat
        /\ next = 0 /\ todo = <<>>
    BY <1>0, <1>1 DEF Control
  <2> QED  BY <1>0, <2>1, InputIs DEF Sound
<1>3. pass <= pass' /\ pass' \in Nat /\ pass' \in DOMAIN input.policies
  BY <1>1, <1>2
<1>4. \A b \in DOMAIN graph : \A k \in DOMAIN graph[b] :
        graph[b][k].by <= pass /\ graph[b][k].by \in Nat
  <2>1. ASSUME NEW b \in DOMAIN graph, NEW k \in DOMAIN graph[b]
        PROVE  graph[b][k].by <= pass /\ graph[b][k].by \in Nat
    <3>1. Origin(graph[b][k])
      BY <1>0 DEF Sound
    <3>2. graph[b][k] \in Instruction
      BY <1>2 DEF Graph
    <3>3. graph[b][k].by \in Nat
      BY <3>2 DEF Instruction
    <3>4. graph[b][k].by = 0 \/ graph[b][k].by <= pass
      BY <3>1 DEF Origin, OwnCode
    <3> QED  BY <1>2, <3>3, <3>4
  <2> QED  BY <2>1
<1>5. /\ outs' \in Nat /\ outs <= outs'
      /\ \A x \in Invokes(graph) : x.args <= outs'
  <2> DEFINE S == {outs} \cup {x.args : x \in Invokes(graph)}
  <2>1. PICK n \in Nat :
          \A x \in Invokes(graph) : x.args <= n /\ x.args \in Nat
    BY <1>2, ArgumentsBounded
  <2>2. S \subseteq Nat /\ S # {} /\ outs + n \in Nat
    BY <1>2, <2>1
  <2>3. \A x \in S : x <= outs + n
    BY <1>2, <2>1
  <2>4. outs' = Max(S)
    BY <1>1 DEF NumberOfArguments
  <2>5. outs \in S /\ \A x \in Invokes(graph) : x.args \in S
    OBVIOUS
  <2> HIDE DEF S
  <2>6. Max(S) \in S /\ \A x \in S : x <= Max(S)
    BY <2>2, <2>3, MaxIs
  <2> QED  BY <2>2, <2>4, <2>5, <2>6
<1>6. Control'
  <2>1. table' \in [VisitorKeys -> Seq(Nat)]
    <3>1. <<>> \in Seq(Nat)
      BY EmptySeq
    <3> QED  BY <1>1, <3>1
  <2>2. \A k \in VisitorKeys : DOMAIN table'[k] = {}
    BY <1>1
  <2>3. pass' \in 1..(Len(input.policies) + 1)
    BY <1>2, <1>3
  <2>4. todo' \in Seq(Nat \X Nat)
    BY <1>1, <1>2, EmptySeq
  <2> QED  BY <1>0, <1>1, <1>2, <1>3, <1>5, <2>1, <2>2, <2>3, <2>4 DEF Control
<1>7. Reserved'
  <2>1. input.outs <= outs'
    BY <1>0, <1>2, <1>5 DEF Reserved
  <2> QED  BY <1>1, <1>5, <2>1 DEF Reserved
<1>8. Sound(graph, fresh)'
  <2>1. ASSUME NEW b \in DOMAIN graph, NEW k \in DOMAIN graph[b]
        PROVE  Origin(graph[b][k])'
    <3>1. Origin(graph[b][k]) /\ graph[b][k].by <= pass'
      BY <1>0, <1>2, <1>3, <1>4 DEF Sound
    <3> QED  BY <1>1, <3>1 DEF Origin
  <2> QED  BY <1>0, <1>1, <2>1 DEF Sound
<1>9. Entry(graph)' /\ Libs(graph)'
  BY <1>0, <1>1 DEF Entry, Libs
<1>10. Walk(graph)' /\ OwnBehind(graph)' /\ Ahead(graph)'
  BY <1>1, <1>2 DEF Walk, OwnBehind, Ahead
<1>11. Codelib(graph, codelib)'
  <2>1. \A b \in DOMAIN graph : \A k \in DOMAIN graph[b] :
          pc' = "setup" => graph[b][k].by < pass' /\ graph[b][k].by # pass'
    BY <1>1, <1>2, <1>4
  <2> QED  BY <1>1, <2>1 DEF Codelib
<1>12. Apart(graph)'
  <2>1. AimsAtStartCalls' = AimsAtStartCalls
    BY <1>1 DEF AimsAtStartCalls, CarriedOutAt
  <2> QED  BY <1>0, <1>1, <2>1 DEF Apart
<1>13. Ends(graph)'
  <2>1. \A p \in DOMAIN input.policies : p <= pass => p <= pass'
    <3>1. \A p \in DOMAIN input.policies : p \in Nat
      BY <1>2
    <3> QED  BY <1>2, <1>3, <3>1
  <2> QED  BY <1>0, <1>1, <2>1 DEF Ends
<1> QED  BY <1>0, <1>1, <1>6, <1>7, <1>8, <1>9, <1>10, <1>11, <1>12, <1>13
         DEF PassInv, GraphInv

(* The passes keep their invariant, for every method, every policy and     *)
(* every number of passes.                                                 *)
THEOREM PassInvariant == Spec => []PassInv
<1>1. Init => PassInv
  BY InitInv
<1>2. PassInv /\ [Next]_vars => PassInv'
  <2> SUFFICES ASSUME PassInv, [Next]_vars PROVE PassInv'
    OBVIOUS
  <2>1. CASE SetupPass
    BY <2>1, SetupPassInv
  <2>2. CASE EnterBlock
    BY <2>2, EnterBlockInv
  <2>3. CASE PassOver
    BY <2>3, PassOverInv
  <2>4. CASE Inject
    BY <2>4, InjectInv
  <2>5. CASE AbortCompilation
    BY <2>5, StopInv
  <2>6. CASE Advance
    BY <2>6, AdvanceInv
  <2>7. CASE EndVisit
    BY <2>7, StopInv
  <2>8. CASE FixOutVRegs
    BY <2>8, FixOutVRegsInv
  <2>9. CASE UNCHANGED vars
    <3>1. UNCHANGED <<input, graph, outs, pass, pc, table, codelib, block, cur,
                      next, todo, fresh, before>>
      BY <2>9 DEF vars
    <3>2. /\ AimsAtStartCalls' = AimsAtStartCalls
          /\ MayMeetItself' = MayMeetItself
      BY <3>1, MayMeetItselfStill DEF AimsAtStartCalls, CarriedOutAt
    <3>3. Control' /\ Reserved'
      BY <3>1 DEF PassInv, Control, Reserved, Registered, Policy
    <3>4. (Sound(graph, fresh) /\ Entry(graph) /\ Walk(graph)
           /\ Codelib(graph, codelib) /\ Libs(graph) /\ Ends(graph))'
      <4>1. Sound(graph, fresh)' /\ Entry(graph)'
        BY <3>1 DEF PassInv, GraphInv, Sound, Origin, Entry
      <4>2. Walk(graph)'
        BY <3>1 DEF PassInv, GraphInv, Walk, Registered, Policy
      <4>3. Codelib(graph, codelib)' /\ Libs(graph)' /\ Ends(graph)'
        BY <3>1 DEF PassInv, GraphInv, Codelib, Libs, Ends
      <4> QED  BY <4>1, <4>2, <4>3
    <3>5. (Apart(graph) /\ OwnBehind(graph) /\ Ahead(graph))'
      BY <3>1, <3>2 DEF PassInv, GraphInv, Apart, OwnBehind, Behind, Ahead,
                        CallInside
    <3> QED  BY <3>1, <3>3, <3>4, <3>5 DEF PassInv, GraphInv
  <2> QED  BY <2>1, <2>2, <2>3, <2>4, <2>5, <2>6, <2>7, <2>8, <2>9 DEF Next
<1> QED  BY <1>1, <1>2, PTL DEF Spec

(* HArtist, HInjectionArtist: the variables keep their types, identities   *)
(* are unique, and all that the visitor and the pass hold on to            *)
(* (instruction_, next_, _codelib_instruction) is in the graph.            *)
THEOREM TypeCorrect == Spec => []TypeOK
<1>1. PassInv => TypeOK
  <2> SUFFICES ASSUME PassInv PROVE TypeOK
    OBVIOUS
  <2>1. /\ input \in Inputs /\ Control /\ Sound(graph, fresh) /\ Walk(graph)
        /\ Codelib(graph, codelib)
    BY DEF PassInv, GraphInv
  <2>2. input \in InputSpace
    BY <2>1, InputsAssumption
  <2>3. graph \in Graph /\ Unique(graph)
    BY <2>1 DEF Sound
  <2>4. ASSUME NEW b \in DOMAIN graph, NEW k \in DOMAIN graph[b]
        PROVE  /\ graph[b][k] \in Instruction /\ graph[b][k].id < fresh
               /\ At(graph, graph[b][k].id) = <<b, k>>
    <3>1. graph[b][k] \in Instruction
      BY <2>3 DEF Graph
    <3>2. At(graph, graph[b][k].id) = <<b, k>>
      BY <2>3, AtIs
    <3> QED  BY <2>1, <3>1, <3>2 DEF Sound
  <2>5. {codelib, cur, next} \subseteq Ids(graph) \cup {0}
    BY <2>1 DEF Control, Walk, Codelib
  <2>6. \A k \in VisitorKeys : \A n \in DOMAIN table[k] :
          table[k][n] \in DOMAIN Policy
    BY <2>1 DEF Control, Registered
  <2> QED  BY <2>1, <2>2, <2>4, <2>5, <2>6 DEF TypeOK, Control
<1> QED  BY <1>1, PassInvariant, PTL

(* HInjectionVisitor: a pass does not visit the calls it has injected      *)
(* itself, unless METHOD_START is carried out at a call in the entry       *)
(* block.                                                                  *)
THEOREM OwnCallsNotVisited == Spec => []NeverVisitsOwnCalls
<1>1. PassInv => NeverVisitsOwnCalls
  <2> SUFFICES ASSUME PassInv, VisitsOwnCall, ~ (block = 1 /\ MayMeetItself)
               PROVE  FALSE
    BY DEF NeverVisitsOwnCalls
  <2>1. /\ Sound(graph, fresh) /\ Walk(graph) /\ OwnBehind(graph) /\ Control
    BY DEF PassInv, GraphInv
  <2>2. /\ pc = "visit" /\ cur # 0
        /\ Instr(graph, cur).kind \in VisitorKeys
        /\ Instr(graph, cur).by = pass
    BY DEF VisitsOwnCall
  <2>3. /\ cur \in Ids(graph) /\ At(graph, cur)[1] = block
        /\ graph \in Graph /\ Unique(graph)
    BY <2>1, <2>2 DEF Walk, Sound
  <2> DEFINE p == At(graph, cur)[2]
  <2>4. /\ block \in DOMAIN graph /\ p \in DOMAIN graph[block]
        /\ graph[block][p] = Instr(graph, cur) /\ block \in Nat
    <3>1. /\ block \in DOMAIN graph /\ p \in 1..Len(graph[block])
          /\ graph[block][p] = Instr(graph, cur)
      BY <2>3, AtType
    <3>2. graph[block] \in Seq(Instruction) /\ block \in Nat
      BY <2>3, <3>1 DEF Graph
    <3> HIDE DEF p
    <3> QED  BY <3>1, <3>2
  <2>5. Behind(graph, block, p)
    <3> HIDE DEF p
    <3> QED  BY <2>1, <2>2, <2>4 DEF OwnBehind
  <2> QED  BY <2>2, <2>4, <2>5 DEF Behind
<1> QED  BY <1>1, PassInvariant, PTL

(* ArtUtils::InjectMethodCall: every block ends as it did, except blocks   *)
(* that return where a policy asks for calls after returns.                *)
THEOREM TerminatorsStay == Spec => []TerminatorLast
<1>1. PassInv => TerminatorLast
  BY DEF PassInv, GraphInv, Ends, TerminatorLast
<1> QED  BY <1>1, PassInvariant, PTL

(* fixMaximumNumberOfOutVRegs: after every pass the method reserves a      *)
(* register for each argument, and only injected calls with a wide         *)
(* parameter may need more.                                                *)
THEOREM OutsCover == Spec => []OutsCoverArguments
<1>1. PassInv => OutsCoverArguments
  <2> SUFFICES ASSUME PassInv, pc \in {"setup", "done"},
                      NEW x \in Invokes(graph)
               PROVE  /\ x.args <= outs
                      /\ x.words > outs =>
                           /\ x.by # 0
                           /\ \E t \in {"tLong", "tDouble"} : Contains(
                                input.policies[x.by][x.inj].parameters, t)
    BY DEF OutsCoverArguments
  <2>1. /\ input \in Inputs /\ Control /\ Reserved /\ Sound(graph, fresh)
    BY DEF PassInv, GraphInv
  <2>2. x.args <= outs
    BY <2>1 DEF Reserved
  <2>3. x \in Instruction /\ Origin(x) /\ x.kind \in InvokeKeys
    <3>1. PICK b \in DOMAIN graph : \E k \in DOMAIN graph[b] :
            x = graph[b][k] /\ x.kind \in InvokeKeys
      BY InvokesIn
    <3>2. PICK k \in DOMAIN graph[b] :
            x = graph[b][k] /\ x.kind \in InvokeKeys
      BY <3>1
    <3>3. Origin(x) /\ graph \in Graph
      BY <2>1, <3>2 DEF Sound
    <3> QED  BY <3>2, <3>3 DEF Graph
  <2>4. x.words \in Nat /\ x.args \in Nat /\ outs \in Nat
        /\ input.outs \in Nat /\ input.outs <= outs
        /\ input.policies \in Seq(Seq(DeclaredInjection))
    <3>1. x.words \in Nat /\ x.args \in Nat
      BY <2>3 DEF Instruction
    <3>2. input.outs \in Nat /\ input.policies \in Seq(Seq(DeclaredInjection))
      BY <2>1, InputsAssumption DEF InputSpace
    <3> QED  BY <2>1, <3>1, <3>2 DEF Control, Reserved
  <2>5. ASSUME x.words > outs
        PROVE  /\ x.by # 0
               /\ \E t \in {"tLong", "tDouble"} :
                    Contains(input.policies[x.by][x.inj].parameters, t)
    <3>1. ~OwnCode(x, input.outs)
      <4> SUFFICES ASSUME OwnCode(x, input.outs) PROVE FALSE
        OBVIOUS
      <4>1. x.words <= input.outs
        BY <2>3 DEF OwnCode
      <4> QED  BY <2>4, <2>5, <4>1
    <3>2. /\ x.by \in DOMAIN input.policies
          /\ x.inj \in DOMAIN input.policies[x.by]
          /\ InjectedBy(x, input.policies[x.by][x.inj])
      BY <2>3, <3>1 DEF Origin, InvokeKeys
    <3> DEFINE s == input.policies[x.by][x.inj].parameters
               wide == {n \in DOMAIN s : s[n] \in {"tLong", "tDouble"}}
    <3>3. s \in Seq(ParameterTypes) /\ x.by # 0
      <4>1. input.policies[x.by] \in Seq(DeclaredInjection) /\ x.by # 0
        BY <2>4, <3>2
      <4>2. input.policies[x.by][x.inj] \in DeclaredInjection
        BY <3>2, <4>1
      <4> QED  BY <4>1, <4>2 DEF DeclaredInjection
    <3>4. x.args = 1 + Len(s) /\ x.words = 1 + Len(s) + Cardinality(wide)
      BY <3>2 DEF InjectedBy, Arguments, Words
    <3>5. Len(s) \in Nat /\ DOMAIN s = 1..Len(s)
      <4> HIDE DEF s
      <4> QED  BY <3>3
    <3> HIDE DEF s
    <3>6. wide # {}
      <4> SUFFICES ASSUME wide = {} PROVE FALSE
        OBVIOUS
      <4>1. Cardinality(wide) = 0
        BY FS_EmptySet
      <4> HIDE DEF wide
      <4> QED  BY <2>2, <2>4, <2>5, <3>4, <3>5, <4>1
    <3>7. PICK n \in 1..Len(s) : s[n] \in {"tLong", "tDouble"}
      BY <3>5, <3>6
    <3>8. Contains(s, s[n])
      BY <3>7 DEF Contains
    <3> QED  BY <3>3, <3>7, <3>8 DEF s
  <2> QED  BY <2>2, <2>5
<1> QED  BY <1>1, PassInvariant, PTL

(* GetCodeLibInstruction: the codelib instance is loaded before every call *)
(* on it, as long as no later pass is carried out at the calls that an     *)
(* earlier one puts at the start of the method.                            *)
THEOREM CodelibsApart == Spec => []CodelibBeforeUseApart
<1>1. PassInv => CodelibBeforeUseApart
  BY DEF PassInv, GraphInv, Libs, Apart, CodelibBeforeUseApart,
         CodelibBeforeUse
<1> QED  BY <1>1, PassInvariant, PTL

(* HInjectionArtist, ArtUtils: no step removes, moves or alters an         *)
(* instruction that is in the graph.                                       *)
THEOREM OnlyAdded == Spec => CodeOnlyAdded
<1> DEFINE Added == \A b \in DOMAIN graph : Older(graph'[b], fresh) = graph[b]
<1>1. PassInv /\ [Next]_vars => [Added]_vars
  <2> SUFFICES ASSUME PassInv, Next PROVE Added
    OBVIOUS
  <2>1. \A b \in DOMAIN graph : Older(graph[b], fresh) = graph[b]
    <3>1. Sound(graph, fresh)
      BY DEF PassInv, GraphInv
    <3> SUFFICES ASSUME NEW b \in DOMAIN graph
                 PROVE  Older(graph[b], fresh) = graph[b]
      OBVIOUS
    <3>2. graph[b] \in Seq(Instruction)
      BY <3>1 DEF Sound, Graph
    <3>3. \A k \in 1..Len(graph[b]) : graph[b][k].id < fresh
      BY <3>1, <3>2 DEF Sound
    <3> QED  BY <3>2, <3>3, OlderAll
  <2>2. CASE Inject
    BY <2>1, <2>2, InjectInv
  <2>3. CASE ~Inject
    <3>1. graph' = graph
      BY <2>3 DEF Next, SetupPass, EnterBlock, PassOver, AbortCompilation,
                  Advance, EndVisit, FixOutVRegs
    <3> QED  BY <2>1, <3>1
  <2> QED  BY <2>2, <2>3
<1> QED  BY <1>1, PassInvariant, PTL DEF Spec, CodeOnlyAdded

----------------------------------------------------------------------------
(* Nothing is overlooked: the entry of a key has all injections registered *)
(* for it, and a visit all targets of the injections in the entry.         *)

(* The part of an injection in the entry of a key it is registered for.    *)
LEMMA EntryOfOneHolds ==
  ASSUME NEW targets \in Seq(Target), NEW key, NEW i \in Nat,
         NEW m \in DOMAIN targets, key \in KeysOf(targets[m].type)
  PROVE  \E n \in 1..Len(FlattenSeq(Registrations(targets, key, i))) :
           FlattenSeq(Registrations(targets, key, i))[n] = i
<1> DEFINE part == Registrations(targets, key, i)
<1>1. part \in Seq(Seq(Nat)) /\ Len(part) = Len(targets)
  <2>1. /\ DOMAIN targets = 1..Len(targets) /\ Len(targets) \in Nat
        /\ <<i>> \in Seq(Nat) /\ <<>> \in Seq(Nat)
    OBVIOUS
  <2>2. part \in [1..Len(targets) -> Seq(Nat)]
    BY <2>1 DEF Registrations
  <2> HIDE DEF part
  <2> QED  BY <2>1, <2>2, FunctionIsSeq
<1>2. part[m] = <<i>>
  BY DEF Registrations
<1>3. DOMAIN targets = 1..Len(targets)
  OBVIOUS
<1> HIDE DEF part
<1>4. m \in 1..Len(part)
  BY <1>1, <1>3
<1>5. 1 \in 1..Len(part[m]) /\ part[m][1] = i
  BY <1>2
<1>6. \E n \in 1..Len(FlattenSeq(part)) : FlattenSeq(part)[n] = part[m][1]
  BY <1>1, <1>4, <1>5, FlattenHolds, ZenonT(30)
<1>7. \E n \in 1..Len(FlattenSeq(part)) : FlattenSeq(part)[n] = i
  BY <1>5, <1>6
<1> QED  BY <1>7 DEF part

(* SetupInjections forgets no injection.                                   *)
LEMMA TableEntryHolds ==
  ASSUME NEW policy \in Seq(DeclaredInjection), NEW key,
         NEW i \in DOMAIN policy, NEW m \in DOMAIN policy[i].targets,
         key \in KeysOf(policy[i].targets[m].type)
  PROVE  \E n \in DOMAIN TableEntry(policy, key) :
           TableEntry(policy, key)[n] = i
<1> DEFINE one(j) == FlattenSeq(Registrations(policy[j].targets, key, j))
           all == [j \in DOMAIN policy |-> one(j)]
           e == FlattenSeq(all)
<1>1. DOMAIN policy = 1..Len(policy) /\ Len(policy) \in Nat
  OBVIOUS
<1>2. ASSUME NEW j \in DOMAIN policy
      PROVE  policy[j].targets \in Seq(Target) /\ j \in Nat
  <2>1. policy[j] \in DeclaredInjection
    BY ElementOfSeq, <1>1
  <2> QED  BY <1>1, <2>1 DEF DeclaredInjection
<1>3. ASSUME NEW j \in DOMAIN policy PROVE one(j) \in Seq(Nat)
  BY <1>2, EntryOfOne
<1>4. \E n \in 1..Len(one(i)) : one(i)[n] = i
  BY <1>2, EntryOfOneHolds
<1> HIDE DEF one
<1>5. all \in [1..Len(policy) -> Seq(Nat)]
  BY <1>1, <1>3
<1>6. all[i] = one(i)
  OBVIOUS
<1> HIDE DEF all
<1>7. all \in Seq(Seq(Nat)) /\ Len(all) = Len(policy)
  BY <1>1, <1>5, FunctionIsSeq
<1>8. i \in 1..Len(all)
  BY <1>1, <1>7
<1>9. PICK n \in 1..Len(all[i]) : all[i][n] = i
  BY <1>4, <1>6
<1>10. \E k \in 1..Len(e) : e[k] = i
  <2>1. \E k \in 1..Len(FlattenSeq(all)) : FlattenSeq(all)[k] = all[i][n]
    BY <1>7, <1>8, FlattenHolds
  <2> QED  BY <1>9, <2>1
<1>11. e \in Seq(Nat)
  BY <1>7, FlattenType
<1>12. e = TableEntry(policy, key)
  BY DEF TableEntry, all, one, Registrations
<1> HIDE DEF e
<1>13. DOMAIN e = 1..Len(e)
  BY <1>11
<1> QED  BY <1>10, <1>12, <1>13

(* InjectInstruction forgets no target of an injection in the entry.       *)
LEMMA VisitsHold ==
  ASSUME table \in [VisitorKeys -> Seq(Nat)], NEW kind \in VisitorKeys,
         \A j \in DOMAIN table[kind] : table[kind][j] \in DOMAIN Policy,
         \A j \in DOMAIN Policy : Policy[j] \in DeclaredInjection,
         NEW k \in DOMAIN table[kind],
         NEW n \in DOMAIN Policy[table[kind][k]].targets
  PROVE  \E j \in 1..Len(Visits(kind)) :
           Visits(kind)[j] = <<table[kind][k], n>>
<1> DEFINE t == table[kind]
           one(j) == [m \in DOMAIN Policy[t[j]].targets |-> <<t[j], m>>]
           all == [j \in DOMAIN t |-> one(j)]
           e == FlattenSeq(all)
<1>1. /\ t \in Seq(Nat) /\ DOMAIN t = 1..Len(t) /\ Len(t) \in Nat
      /\ \A j \in DOMAIN t : t[j] \in Nat /\ t[j] \in DOMAIN Policy
      /\ k \in DOMAIN t /\ n \in DOMAIN Policy[t[k]].targets
  OBVIOUS
<1>2. e = Visits(kind)
  BY DEF Visits
<1> HIDE DEF t
<1>3. ASSUME NEW j \in DOMAIN t
      PROVE  /\ one(j) \in Seq(Nat \X Nat)
             /\ Len(one(j)) = Len(Policy[t[j]].targets)
             /\ DOMAIN Policy[t[j]].targets = 1..Len(Policy[t[j]].targets)
  <2> DEFINE s == Policy[t[j]].targets
  <2>1. s \in Seq(Target)
    BY <1>1 DEF DeclaredInjection
  <2>2. DOMAIN s = 1..Len(s) /\ Len(s) \in Nat
    BY <2>1
  <2> HIDE DEF s
  <2>3. \A m \in DOMAIN s : m \in Nat /\ t[j] \in Nat
    BY <1>1, <2>2
  <2>4. [m \in DOMAIN s |-> <<t[j], m>>] \in [1..Len(s) -> Nat \X Nat]
    BY <2>2, <2>3
  <2>5. /\ [m \in DOMAIN s |-> <<t[j], m>>] \in Seq(Nat \X Nat)
        /\ Len([m \in DOMAIN s |-> <<t[j], m>>]) = Len(s)
    BY <2>2, <2>4, FunctionIsSeq
  <2>6. one(j) = [m \in DOMAIN s |-> <<t[j], m>>]
    BY DEF s
  <2> HIDE DEF one
  <2> QED  BY <2>2, <2>5, <2>6 DEF s
<1>4. one(k)[n] = <<t[k], n>> /\ n \in 1..Len(one(k))
  <2>1. n \in DOMAIN Policy[t[k]].targets
    BY <1>1
  <2>2. one(k)[n] = <<t[k], n>>
    BY <2>1
  <2> HIDE DEF one
  <2> QED  BY <1>1, <1>3, <2>1, <2>2
<1> HIDE DEF one
<1>5. all \in [1..Len(t) -> Seq(Nat \X Nat)] /\ all[k] = one(k)
  BY <1>1, <1>3
<1> HIDE DEF all
<1>6. all \in Seq(Seq(Nat \X Nat)) /\ Len(all) = Len(t)
  BY <1>1, <1>5, FunctionIsSeq
<1>7. k \in 1..Len(all) /\ n \in 1..Len(all[k])
  BY <1>1, <1>4, <1>5, <1>6
<1>8. \E j \in 1..Len(e) : e[j] = all[k][n]
  BY <1>6, <1>7, FlattenHolds
<1> HIDE DEF e
<1> QED  BY <1>2, <1>4, <1>5, <1>8 DEF t

----------------------------------------------------------------------------
(* The invariant behind FaultyPolicyVerdict, on top of PassInv.            *)

(* The pass gives up at target n of injection i, at instruction x.         *)
Refused(i, n, x) ==
  /\ Registered(i, x.kind)
  /\ n \in DOMAIN Policy[i].targets
  /\ Policy[i].targets[n].type # "NO_INJECTION"
  /\ Matches(Policy[i].targets[n], x)
  /\ ~Usable(i)

(* The table has all that is registered.                                   *)
TableFull ==
  pc = "visit" =>
    \A key \in VisitorKeys : \A i \in DOMAIN Policy :
      Registered(i, key) => \E n \in DOMAIN table[key] : table[key][n] = i

(* Between the visited instruction and the one that was next when its      *)
(* visit began there is only what this pass has put there.                 *)
Between(g) ==
  cur # 0 =>
    \A k \in DOMAIN g[block] :
      At(g, cur)[2] < k /\ (next # 0 => k < At(g, next)[2])
        => g[block][k].by = pass

(* Apart from what this pass has put there, the graph is what it was.      *)
Foreign(g) ==
  pc \in {"visit", "fix", "aborted"} =>
    /\ \A b \in DOMAIN g : \A k \in DOMAIN g[b] :
         \/ g[b][k].by = pass
         \/ \E c \in DOMAIN before : \E m \in DOMAIN before[c] :
              before[c][m] = g[b][k]
    /\ \A c \in DOMAIN before : \A m \in DOMAIN before[c] :
         /\ before[c][m].by # pass
         /\ \E b \in DOMAIN g : \E k \in DOMAIN g[b] : g[b][k] = before[c][m]

(* What the walk has passed has given no reason to give up,                *)
Passed(g, b, k) ==
  b < block \/ (b = block /\ (cur # 0 => k < At(g, cur)[2]))

Clean(g) ==
  pc \in {"visit", "fix"} =>
    /\ pc = "fix" => block = Len(g)
    /\ \A b \in DOMAIN g : \A k \in DOMAIN g[b] :
         g[b][k].by # pass /\ Passed(g, b, k) =>
           \A i, n \in Nat : ~Refused(i, n, g[b][k])

(* and where it is, the reasons are still to come.                         *)
Pending(g, rest) ==
  pc = "visit" /\ cur # 0 =>
    \A i, n \in Nat :
      Refused(i, n, Instr(g, cur)) =>
        \E k \in DOMAIN rest : rest[k] = <<i, n>>

(* A pass that gave up had a reason in the code it found.                  *)
Blame ==
  pc = "aborted" =>
    \/ MayMeetItself
    \/ \E b \in DOMAIN before : \E k \in DOMAIN before[b] :
         \E i, n \in Nat : Refused(i, n, before[b][k])

VerdictInv ==
  /\ TableFull
  /\ Between(graph)
  /\ Foreign(graph)
  /\ Clean(graph)
  /\ Pending(graph, todo)
  /\ Blame

(* Shift does not change the order of places.                              *)
LEMMA ShiftBack ==
  ASSUME NEW b, NEW n \in Nat, NEW c, NEW k \in Nat, NEW m \in Nat,
         Shift(b, n, c, k) < Shift(b, n, c, m)
  PROVE  k < m
BY DEF Shift

(* What an insertion leaves of the invariant.                              *)
VerdictGraph(g) == Between(g) /\ Foreign(g) /\ Clean(g)

LEMMA VerdictPut ==
  ASSUME NEW g, NEW f, NEW b, NEW n, NEW x, Placed(g, f, b, n, x), Walk(g),
         x.by = pass, pc = "visit", VerdictGraph(g)
  PROVE  VerdictGraph(Put(g, b, n, x))
<1> DEFINE h == Put(g, b, n, x)
<1>1. /\ DOMAIN h = DOMAIN g /\ n \in DOMAIN h[b] /\ h[b][n] = x
      /\ \A id \in Ids(g) :
           At(h, id) =
             <<At(g, id)[1], Shift(b, n, At(g, id)[1], At(g, id)[2])>>
      /\ \A c \in DOMAIN g : \A k \in DOMAIN h[c] :
           \/ c = b /\ k = n /\ h[c][k] = x
           \/ \E m \in DOMAIN g[c] : k = Shift(b, n, c, m)
                                     /\ h[c][k] = g[c][m]
      /\ \A c \in DOMAIN g : \A m \in DOMAIN g[c] :
           /\ Shift(b, n, c, m) \in DOMAIN h[c]
           /\ h[c][Shift(b, n, c, m)] = g[c][m]
  BY PutEffect
<1>2. /\ n \in Nat /\ g \in Graph /\ Unique(g)
      /\ \A c \in DOMAIN g : \A m \in DOMAIN g[c] : m \in Nat
  BY PlacedNat
<1> HIDE DEF h
<1>3. cur # 0 => /\ cur \in Ids(g) /\ At(g, cur)[1] = block
                 /\ block \in DOMAIN g /\ At(g, cur)[2] \in Nat
                 /\ At(h, cur)[2] = Shift(b, n, block, At(g, cur)[2])
  BY <1>1, <1>2, AtType DEF Walk
<1>4. cur # 0 /\ next # 0 =>
        /\ At(g, next)[2] \in Nat
        /\ At(h, next)[2] = Shift(b, n, block, At(g, next)[2])
  BY <1>1, <1>2, AtType DEF Walk
<1>5. ASSUME NEW c \in DOMAIN g, NEW k \in DOMAIN h[c], h[c][k].by # pass
      PROVE  \E m \in DOMAIN g[c] : k = Shift(b, n, c, m)
                                    /\ h[c][k] = g[c][m]
  BY <1>1, <1>5
<1>6. Between(h)
  <2> SUFFICES ASSUME cur # 0, NEW k \in DOMAIN h[block],
                      At(h, cur)[2] < k, next # 0 => k < At(h, next)[2],
                      h[block][k].by # pass
               PROVE  FALSE
    BY DEF Between
  <2>1. PICK m \in DOMAIN g[block] : /\ k = Shift(b, n, block, m)
                                     /\ h[block][k] = g[block][m]
    BY <1>3, <1>5
  <2>2. At(g, cur)[2] < m
    BY <1>2, <1>3, <2>1, ShiftBack
  <2>3. next # 0 => m < At(g, next)[2]
    BY <1>2, <1>3, <1>4, <2>1, ShiftBack
  <2> QED  BY <2>1, <2>2, <2>3 DEF VerdictGraph, Between
<1>7. Foreign(h)
  <2>1. ASSUME NEW c \in DOMAIN h, NEW k \in DOMAIN h[c], h[c][k].by # pass
        PROVE  \E d \in DOMAIN before : \E j \in DOMAIN before[d] :
                 before[d][j] = h[c][k]
    <3>1. PICK m \in DOMAIN g[c] : h[c][k] = g[c][m]
      BY <1>1, <1>5, <2>1
    <3> QED  BY <1>1, <2>1, <3>1 DEF VerdictGraph, Foreign
  <2>2. ASSUME NEW d \in DOMAIN before, NEW j \in DOMAIN before[d]
        PROVE  /\ before[d][j].by # pass
               /\ \E c \in DOMAIN h : \E k \in DOMAIN h[c] :
                    h[c][k] = before[d][j]
    <3>1. PICK c \in DOMAIN g : \E m \in DOMAIN g[c] : g[c][m] = before[d][j]
      BY DEF VerdictGraph, Foreign
    <3>2. PICK m \in DOMAIN g[c] : g[c][m] = before[d][j]
      BY <3>1
    <3> QED  BY <1>1, <3>2 DEF VerdictGraph, Foreign
  <2> QED  BY <2>1, <2>2 DEF Foreign
<1>8. Clean(h)
  <2> SUFFICES ASSUME NEW c \in DOMAIN h, NEW k \in DOMAIN h[c],
                      h[c][k].by # pass, Passed(h, c, k),
                      NEW i \in Nat, NEW r \in Nat
               PROVE  ~Refused(i, r, h[c][k])
    BY DEF Clean
  <2>1. PICK m \in DOMAIN g[c] : /\ k = Shift(b, n, c, m)
                                 /\ h[c][k] = g[c][m]
    BY <1>1, <1>5
  <2>2. Passed(g, c, m)
    <3>1. CASE c < block
      BY <3>1 DEF Passed
    <3>2. ASSUME c = block, cur # 0, k < At(h, cur)[2]
          PROVE  m < At(g, cur)[2]
      BY <1>2, <1>3, <2>1, <3>2, ShiftBack
    <3> QED  BY <3>1, <3>2 DEF Passed
  <2> QED  BY <1>1, <2>1, <2>2 DEF VerdictGraph, Clean
<1> QED  BY <1>6, <1>7, <1>8 DEF VerdictGraph, h

(* Refusals are a matter of the policy and the compiled method.            *)
LEMMA RefusedStill ==
  ASSUME UNCHANGED <<input, pass>>
  PROVE  \A i, n, x : Refused(i, n, x)' <=> Refused(i, n, x)
BY DEF Refused, Registered, Policy, Matches, SignatureContains,
       InvokedMethod, Usable, GivenEnvironment, OffsetFound, Concrete,
       Listed, IndexFound

(* A visit meets every target that is refused.                             *)
LEMMA VisitMeets ==
  ASSUME PassInv, TableFull, pc = "visit", NEW x, NEW i, NEW n,
         Refused(i, n, x)
  PROVE  \E j \in DOMAIN Visits(x.kind) : Visits(x.kind)[j] = <<i, n>>
<1> DEFINE kind == x.kind
<1>1. /\ input \in Inputs /\ Control /\ pass \in DOMAIN input.policies
  BY DEF PassInv, Control
<1>2. /\ table \in [VisitorKeys -> Seq(Nat)]
      /\ \A k \in VisitorKeys : \A j \in DOMAIN table[k] :
           Registered(table[k][j], k)
  BY <1>1 DEF Control
<1>3. \A j \in DOMAIN Policy : Policy[j] \in DeclaredInjection
  BY <1>1, InputIs
<1>4. /\ kind \in VisitorKeys /\ i \in DOMAIN Policy
      /\ Registered(i, kind) /\ n \in DOMAIN Policy[i].targets
  BY DEF Refused, Registered
<1> HIDE DEF kind
<1>5. PICK k \in DOMAIN table[kind] : table[kind][k] = i
  BY <1>4 DEF TableFull
<1>6. \A j \in DOMAIN table[kind] : table[kind][j] \in DOMAIN Policy
  BY <1>2, <1>4 DEF Registered
<1>7. \E j \in 1..Len(Visits(kind)) : Visits(kind)[j] = <<i, n>>
  BY <1>2, <1>3, <1>4, <1>5, <1>6, VisitsHold
<1>8. Visits(kind) \in Seq(Nat \X Nat)
  BY <1>2, <1>3, VisitsAre
<1>9. DOMAIN Visits(kind) = 1..Len(Visits(kind))
  BY <1>8
<1> QED  BY <1>7, <1>9 DEF kind

(* Nothing is between an instruction and its successor, or behind the last.*)
LEMMA NothingBetween ==
  ASSUME NEW g \in Graph, Unique(g), NEW c \in Ids(g), NEW s,
         s = Successor(g, c), NEW k \in DOMAIN g[At(g, c)[1]],
         At(g, c)[2] < k, s # 0 => k < At(g, s)[2]
  PROVE  FALSE
<1> DEFINE b == At(g, c)[1]
           p == At(g, c)[2]
<1>1. b \in DOMAIN g /\ p \in 1..Len(g[b]) /\ p \in Nat
  BY AtType
<1>2. /\ Len(g[b]) \in Nat /\ DOMAIN g[b] = 1..Len(g[b])
      /\ \A m \in DOMAIN g[b] : g[b][m] \in Instruction
  BY <1>1 DEF Graph
<1>3. s = IF p = Len(g[b]) THEN 0 ELSE g[b][p + 1].id
  BY DEF Successor
<1>4. s # 0 => At(g, s) = <<b, p + 1>>
  BY SuccessorIs
<1>5. p < k /\ k \in DOMAIN g[b] /\ (s # 0 => k < At(g, s)[2])
  OBVIOUS
<1> HIDE DEF b, p
<1>6. p < Len(g[b]) /\ p + 1 \in DOMAIN g[b] /\ p # Len(g[b])
  <2>1. k \in 1..Len(g[b]) /\ Len(g[b]) \in Nat /\ p \in Nat /\ p < k
    BY <1>1, <1>2, <1>5
  <2>2. p < Len(g[b]) /\ p + 1 \in 1..Len(g[b]) /\ p # Len(g[b])
    BY <2>1
  <2> QED  BY <1>2, <2>2
<1>7. s # 0
  BY <1>2, <1>3, <1>6 DEF Instruction
<1>8. k < p + 1
  BY <1>4, <1>5, <1>7
<1> QED  BY <1>1, <1>2, <1>5, <1>8

(* A visit goes on behind a target that is not refused.                    *)
LEMMA PendingRest ==
  ASSUME NEW g, Pending(g, todo), todo \in Seq(Nat \X Nat), todo # <<>>,
         ~Refused(Head(todo)[1], Head(todo)[2], Instr(g, cur))
  PROVE  Pending(g, Tail(todo))
<1> SUFFICES ASSUME pc = "visit", cur # 0, NEW i \in Nat, NEW n \in Nat,
                    Refused(i, n, Instr(g, cur))
             PROVE  \E k \in DOMAIN Tail(todo) : Tail(todo)[k] = <<i, n>>
  BY DEF Pending
<1>1. PICK k \in DOMAIN todo : todo[k] = <<i, n>>
  BY DEF Pending
<1>2. k # 1
  <2>1. Head(todo) = todo[1]
    OBVIOUS
  <2> QED  BY <1>1, <2>1
<1>3. PICK m \in Nat : m = Len(todo)
  OBVIOUS
<1>4. k \in Nat /\ 1 <= k /\ k <= m
  BY <1>3
<1>5. k - 1 \in DOMAIN Tail(todo)
  <2>1. k - 1 \in 1..(m - 1)
    BY <1>2, <1>3, <1>4
  <2>2. DOMAIN Tail(todo) = 1..(m - 1)
    BY <1>3
  <2> QED  BY <2>1, <2>2
<1>6. Tail(todo)[k - 1] = todo[k]
  <2>1. k - 1 + 1 = k
    BY <1>4
  <2> QED  BY <1>5, <2>1, TailIs
<1> QED  BY <1>1, <1>5, <1>6

(* The pass begins: nothing is passed, and the table is full.              *)
LEMMA SetupPassVerdict == ASSUME PassInv, SetupPass PROVE VerdictInv'
<1>0. /\ input \in Inputs /\ Control /\ Sound(graph, fresh)
      /\ Codelib(graph, codelib)
  BY DEF PassInv, GraphInv
<1>1. /\ pc = "setup" /\ pc' = "visit" /\ block' = 0 /\ before' = graph
      /\ table' = [k \in VisitorKeys |-> TableEntry(Policy, k)]
      /\ UNCHANGED <<input, graph, pass, cur>>
  BY DEF SetupPass
<1>2. cur' = 0 /\ pass \in DOMAIN input.policies
  BY <1>0, <1>1 DEF Control
<1>3. Policy \in Seq(DeclaredInjection) /\ pass \in Nat /\ graph \in Graph
  BY <1>0, <1>2, InputIs DEF Sound
<1>4. TableFull'
  <2>1. ASSUME NEW key \in VisitorKeys, NEW i \in DOMAIN Policy,
               Registered(i, key)
        PROVE  \E n \in DOMAIN table'[key] : table'[key][n] = i
    <3>1. PICK m \in DOMAIN Policy[i].targets :
            key \in KeysOf(Policy[i].targets[m].type)
      BY <2>1 DEF Registered
    <3>2. \E n \in DOMAIN TableEntry(Policy, key) :
            TableEntry(Policy, key)[n] = i
      BY <1>3, <3>1, TableEntryHolds, ZenonT(30)
    <3>3. table'[key] = TableEntry(Policy, key)
      BY <1>1
    <3> QED  BY <3>2, <3>3
  <2> QED  BY <1>1, <2>1 DEF TableFull, Registered, Policy
<1>5. \A b \in DOMAIN graph : \A k \in DOMAIN graph[b] :
        graph[b][k].by # pass
  <2>1. ASSUME NEW b \in DOMAIN graph, NEW k \in DOMAIN graph[b]
        PROVE  graph[b][k].by # pass
    <3>1. graph[b][k].by < pass
      BY <1>0, <1>1 DEF Codelib
    <3>2. graph[b][k] \in Instruction
      BY <1>3 DEF Graph
    <3>3. graph[b][k].by \in Nat
      BY <3>2 DEF Instruction
    <3> QED  BY <1>3, <3>1, <3>3
  <2> QED  BY <2>1
<1>6. Foreign(graph)'
  BY <1>1, <1>5 DEF Foreign
<1>7. Clean(graph)'
  <2>1. \A b \in DOMAIN graph : ~ (b < 0) /\ b # 0
    BY <1>3 DEF Graph
  <2> QED  BY <1>1, <2>1 DEF Clean, Passed
<1>8. Between(graph)' /\ Pending(graph, todo)' /\ Blame'
  BY <1>1, <1>2 DEF Between, Pending, Blame
<1> QED  BY <1>4, <1>6, <1>7, <1>8 DEF VerdictInv

(* What steps of the walk have in common.                                  *)
LEMMA WalkVerdict ==
  ASSUME VerdictInv, pc = "visit", pc' = pc,
         UNCHANGED <<input, graph, pass, table, before>>
  PROVE  TableFull' /\ Foreign(graph)' /\ Blame'
<1>1. TableFull'
  BY DEF VerdictInv, TableFull, Registered, Policy
<1>2. Foreign(graph)'
  BY DEF VerdictInv, Foreign
<1>3. Blame'
  BY DEF Blame
<1> QED  BY <1>1, <1>2, <1>3

(* The walk arrives at an instruction, with all its targets to come.       *)
LEMMA ArriveVerdict ==
  ASSUME PassInv, VerdictInv, pc = "visit", cur' \in Ids(graph),
         UNCHANGED <<input, graph, pass>>,
         next' = Successor(graph, cur'), block' = At(graph, cur')[1],
         todo' = Visits(Instr(graph, cur').kind)
  PROVE  Between(graph)' /\ Pending(graph, todo)'
<1>0. PICK c, s : c = cur' /\ s = next' /\ c \in Ids(graph)
  OBVIOUS
<1>1. graph \in Graph /\ Unique(graph)
  BY DEF PassInv, GraphInv, Sound
<1>2. Between(graph)'
  <2>1. ASSUME NEW k \in DOMAIN graph[At(graph, c)[1]],
               At(graph, c)[2] < k, next' # 0 => k < At(graph, next')[2]
        PROVE  FALSE
    <3>1. s = Successor(graph, c) /\ (s # 0 => k < At(graph, s)[2])
      BY <1>0, <2>1
    <3>2. c \in Ids(graph) /\ k \in DOMAIN graph[At(graph, c)[1]]
          /\ At(graph, c)[2] < k
      BY <1>0, <2>1
    <3> QED  BY <1>1, <3>1, <3>2, NothingBetween
  <2> QED  BY <1>0, <2>1 DEF Between
<1>3. Pending(graph, todo)'
  <2>1. PICK x : x = Instr(graph, c)
    OBVIOUS
  <2>2. Instr(graph, cur)' = x /\ todo' = Visits(x.kind)
    BY <1>0, <2>1 DEF Instr, At
  <2>3. ASSUME NEW i \in Nat, NEW n \in Nat, Refused(i, n, x)
        PROVE  \E k \in DOMAIN todo' : todo'[k] = <<i, n>>
    BY <2>2, <2>3, VisitMeets DEF VerdictInv
  <2>4. \A i, n \in Nat :
          Refused(i, n, Instr(graph, cur))' => Refused(i, n, x)
    BY <2>2, RefusedStill
  <2> QED  BY <2>3, <2>4 DEF Pending
<1> QED  BY <1>2, <1>3

(* The visitor enters a block: all those before are clean.                 *)
LEMMA EnterBlockVerdict ==
  ASSUME PassInv, VerdictInv, EnterBlock
  PROVE  VerdictInv'
<1>0. /\ Control /\ Sound(graph, fresh)
  BY DEF PassInv, GraphInv
<1>1. /\ pc = "visit" /\ cur = 0 /\ block' = block + 1
      /\ block < Len(graph) /\ cur' = First(graph[block'])
      /\ next' = IF cur' = 0 THEN 0 ELSE Successor(graph, cur')
      /\ todo' = IF cur' = 0 THEN <<>> ELSE Visits(Instr(graph, cur').kind)
      /\ UNCHANGED <<input, graph, pass, pc, table, before>>
  BY DEF EnterBlock
<1>2. graph \in Graph /\ Unique(graph) /\ block \in Nat /\ Len(graph) \in Nat
  BY <1>0 DEF Sound, Control, Graph
<1>3. /\ block + 1 \in DOMAIN graph /\ \A b \in DOMAIN graph : b \in Nat
      /\ \A b \in DOMAIN graph : \A k \in DOMAIN graph[b] :
           k \in Nat /\ ~ (k < 1) /\ graph[b][k].id # 0
  <2>1. block + 1 \in DOMAIN graph /\ \A b \in DOMAIN graph : b \in Nat
    BY <1>1, <1>2 DEF Graph
  <2>2. ASSUME NEW b \in DOMAIN graph, NEW k \in DOMAIN graph[b]
        PROVE  k \in Nat /\ ~ (k < 1) /\ graph[b][k] \in Instruction
    BY <1>2 DEF Graph
  <2> QED  BY <2>1, <2>2 DEF Instruction
<1>4. cur' # 0 => /\ cur' \in Ids(graph)
                  /\ At(graph, cur') = <<block + 1, 1>>
  BY <1>1, <1>2, <1>3, FirstIs
<1>5. cur' = 0 => graph[block + 1] = <<>>
  <2>1. graph[block + 1] \in Seq(Instruction)
    BY <1>2, <1>3 DEF Graph
  <2>2. graph[block + 1] # <<>> =>
          /\ 1 \in DOMAIN graph[block + 1]
          /\ First(graph[block + 1]) = graph[block + 1][1].id
    BY <2>1 DEF First
  <2> QED  BY <1>1, <1>3, <2>2
<1>6. Between(graph)' /\ Pending(graph, todo)'
  <2>1. CASE cur' # 0
    <3>1. /\ next' = Successor(graph, cur')
          /\ block' = At(graph, cur')[1] /\ cur' \in Ids(graph)
          /\ todo' = Visits(Instr(graph, cur').kind)
      BY <1>1, <1>4, <2>1
    <3> QED  BY <1>1, <3>1, ArriveVerdict
  <2>2. CASE cur' = 0
    BY <2>2 DEF Between, Pending
  <2> QED  BY <2>1, <2>2
<1>7. Clean(graph)'
  <2>1. ASSUME NEW b \in DOMAIN graph, NEW k \in DOMAIN graph[b],
               Passed(graph, b, k)'
        PROVE  Passed(graph, b, k)
    <3>1. CASE b < block + 1
      BY <1>1, <1>2, <1>3, <3>1 DEF Passed
    <3>2. CASE ~ (b < block + 1)
      <4>1. b = block + 1 /\ (cur' # 0 => k < At(graph, cur')[2])
        BY <1>1, <2>1, <3>2 DEF Passed
      <4> QED  BY <1>3, <1>4, <1>5, <4>1
    <3> QED  BY <3>1, <3>2
  <2> QED  BY <1>1, <2>1, RefusedStill DEF VerdictInv, Clean
<1> QED  BY <1>1, <1>6, <1>7, WalkVerdict DEF VerdictInv

(* The iterator advances: what it leaves has been looked at.               *)
LEMMA AdvanceVerdict ==
  ASSUME PassInv, VerdictInv, Advance
  PROVE  VerdictInv'
<1>0. /\ Control /\ Sound(graph, fresh) /\ Walk(graph)
  BY DEF PassInv, GraphInv
<1>1. /\ pc = "visit" /\ cur # 0 /\ todo = <<>> /\ cur' = next
      /\ next' = IF cur' = 0 THEN 0 ELSE Successor(graph, cur')
      /\ todo' = IF cur' = 0 THEN <<>> ELSE Visits(Instr(graph, cur').kind)
      /\ UNCHANGED <<input, graph, pass, pc, table, before, block>>
  BY DEF Advance
<1>2. /\ graph \in Graph /\ Unique(graph)
      /\ \A b \in DOMAIN graph : \A k \in DOMAIN graph[b] : k \in Nat
  BY <1>0 DEF Sound, Graph
<1>3. /\ cur \in Ids(graph) /\ At(graph, cur)[1] = block
      /\ next # 0 => next \in Ids(graph) /\ At(graph, next)[1] = block
  BY <1>0, <1>1 DEF Walk
<1>4. Between(graph)' /\ Pending(graph, todo)'
  <2>1. CASE cur' # 0
    <3>1. /\ next' = Successor(graph, cur')
          /\ block' = At(graph, cur')[1] /\ cur' \in Ids(graph)
          /\ todo' = Visits(Instr(graph, cur').kind)
      BY <1>1, <1>3, <2>1
    <3> QED  BY <1>1, <3>1, ArriveVerdict
  <2>2. CASE cur' = 0
    BY <2>2 DEF Between, Pending
  <2> QED  BY <2>1, <2>2
<1> DEFINE p == At(graph, cur)[2]
<1>5. /\ block \in DOMAIN graph /\ p \in Nat
      /\ Instr(graph, cur) = graph[block][p]
  BY <1>2, <1>3, AtType
<1>6. \A i, n \in Nat : ~Refused(i, n, Instr(graph, cur))
  BY <1>1 DEF VerdictInv, Pending
<1> HIDE DEF p
<1>7. Clean(graph)'
  <2>1. ASSUME NEW b \in DOMAIN graph, NEW k \in DOMAIN graph[b],
               graph[b][k].by # pass, Passed(graph, b, k)',
               NEW i \in Nat, NEW n \in Nat
        PROVE  ~Refused(i, n, graph[b][k])
    <3>1. b < block \/ (b = block /\ (next # 0 => k < At(graph, next)[2]))
      BY <1>1, <2>1 DEF Passed
    <3>2. CASE Passed(graph, b, k)
      BY <1>1, <2>1, <3>2 DEF VerdictInv, Clean
    <3>3. CASE b = block /\ k = p
      BY <1>5, <1>6, <3>3
    <3>4. CASE b = block /\ p < k /\ (next # 0 => k < At(graph, next)[2])
      <4>1. graph[b][k].by = pass
        BY <1>1, <3>4 DEF VerdictInv, Between, p
      <4> QED  BY <2>1, <4>1
    <3>5. b = block => Passed(graph, b, k) \/ k = p \/ p < k
      BY <1>2, <1>5 DEF Passed, p
    <3>6. b < block => Passed(graph, b, k)
      BY DEF Passed
    <3> QED  BY <3>1, <3>2, <3>3, <3>4, <3>5, <3>6
  <2> QED  BY <1>1, <2>1, RefusedStill DEF Clean
<1> QED  BY <1>1, <1>4, <1>7, WalkVerdict DEF VerdictInv

(* A target passed over was not refused.                                   *)
LEMMA PassOverVerdict ==
  ASSUME PassInv, VerdictInv, PassOver
  PROVE  VerdictInv'
<1>1. /\ pc = "visit" /\ todo # <<>> /\ todo' = Tail(todo)
      /\ LET t == Policy[Head(todo)[1]].targets[Head(todo)[2]]
         IN  t.type = "NO_INJECTION" \/ ~Matches(t, Instr(graph, cur))
      /\ UNCHANGED <<input, graph, pass, pc, table, before, block, cur, next>>
  BY DEF PassOver
<1>2. todo \in Seq(Nat \X Nat)
  BY DEF PassInv, Control
<1>3. ~Refused(Head(todo)[1], Head(todo)[2], Instr(graph, cur))
  BY <1>1 DEF Refused
<1>4. Pending(graph, Tail(todo))
  BY <1>1, <1>2, <1>3, PendingRest DEF VerdictInv
<1>5. Pending(graph, todo)'
  <2>1. Instr(graph, cur)' = Instr(graph, cur)
    BY <1>1 DEF Instr, At
  <2> QED  BY <1>1, <1>4, <2>1, RefusedStill DEF Pending
<1>6. Between(graph)'
  BY <1>1 DEF VerdictInv, Between
<1>7. Clean(graph)'
  <2>1. \A b \in DOMAIN graph : \A k \in DOMAIN graph[b] :
          Passed(graph, b, k)' => Passed(graph, b, k)
    BY <1>1 DEF Passed
  <2> QED  BY <1>1, <2>1, RefusedStill DEF VerdictInv, Clean
<1> QED  BY <1>1, <1>5, <1>6, <1>7, WalkVerdict DEF VerdictInv

(* An injection that is carried out was not refused, and what it inserts   *)
(* is of this pass.                                                        *)
LEMMA InjectVerdict ==
  ASSUME PassInv, VerdictInv, Inject
  PROVE  VerdictInv'
<1>1. /\ pc = "visit" /\ todo # <<>> /\ todo' = Tail(todo)
      /\ Usable(Head(todo)[1])
      /\ UNCHANGED <<input, pass, pc, table, before, block, cur, next>>
  BY DEF Inject
<1>2. \E g, f : /\ g = graph \/ Inserted(graph, fresh, g)
                /\ Inserted(g, f, graph')
  BY InjectInv DEF Loading, Calling, Inserted
<1>3. VerdictGraph(graph')
  <2>1. \A h, e, d : Inserted(h, e, d) /\ VerdictGraph(h) => VerdictGraph(d)
    BY <1>1, VerdictPut DEF Inserted, InsertedAs
  <2>2. VerdictGraph(graph)
    BY DEF VerdictInv, VerdictGraph
  <2> QED  BY <1>2, <2>1, <2>2
<1>4. cur # 0 => Instr(graph', cur) = Instr(graph, cur)
  <2>1. \A h, e, d : Inserted(h, e, d) /\ cur # 0 =>
                       Instr(d, cur) = Instr(h, cur)
    <3> SUFFICES ASSUME NEW h, NEW e, NEW d, cur # 0,
                        NEW b, NEW n, NEW x, Placed(h, e, b, n, x), Walk(h),
                        d = Put(h, b, n, x)
                 PROVE  Instr(d, cur) = Instr(h, cur)
      BY DEF Inserted, InsertedAs
    <3>1. cur \in Ids(h)
      BY DEF Walk
    <3> QED  BY <3>1, PutEffect
  <2> QED  BY <1>2, <2>1
<1>5. todo \in Seq(Nat \X Nat)
  BY DEF PassInv, Control
<1>6. ~Refused(Head(todo)[1], Head(todo)[2], Instr(graph, cur))
  BY <1>1 DEF Refused
<1>7. Pending(graph, Tail(todo))
  BY <1>1, <1>5, <1>6, PendingRest DEF VerdictInv
<1>8. Pending(graph, todo)'
  <2>1. cur' # 0 => Instr(graph, cur)' = Instr(graph, cur)
    BY <1>1, <1>4 DEF Instr, At
  <2> QED  BY <1>1, <1>7, <2>1, RefusedStill DEF Pending
<1>9. Between(graph)' /\ Foreign(graph)'
  BY <1>1, <1>3 DEF VerdictGraph, Between, Foreign
<1>10. Clean(graph)'
  <2>1. \A b \in DOMAIN graph' : \A k \in DOMAIN graph'[b] :
          Passed(graph, b, k)' => Passed(graph', b, k)
    BY <1>1 DEF Passed
  <2> QED  BY <1>1, <1>3, <2>1, RefusedStill DEF VerdictGraph, Clean
<1>11. TableFull' /\ Blame'
  BY <1>1 DEF VerdictInv, TableFull, Blame, Registered, Policy
<1> QED  BY <1>8, <1>9, <1>10, <1>11 DEF VerdictInv

(* A pass that gives up is at an instruction that it found, unless it      *)
(* visits its own calls.                                                   *)
LEMMA AbortVerdict ==
  ASSUME PassInv, VerdictInv, NeverVisitsOwnCalls, AbortCompilation
  PROVE  VerdictInv'
<1>0. /\ Control /\ Sound(graph, fresh) /\ Walk(graph)
  BY DEF PassInv, GraphInv
<1>1. /\ pc = "visit" /\ pc' = "aborted" /\ todo # <<>>
      /\ UNCHANGED <<input, graph, pass, before, cur, next, block>>
  BY DEF AbortCompilation
<1>2. PICK i, n : i = Head(todo)[1] /\ n = Head(todo)[2]
  OBVIOUS
<1>3. /\ Policy[i].targets[n].type # "NO_INJECTION"
      /\ Matches(Policy[i].targets[n], Instr(graph, cur)) /\ ~Usable(i)
  BY <1>2 DEF AbortCompilation
<1>4. /\ todo \in Seq(Nat \X Nat) /\ 1 \in DOMAIN todo /\ cur # 0
      /\ i = todo[1][1] /\ n = todo[1][2] /\ i \in Nat /\ n \in Nat
  BY <1>0, <1>1, <1>2 DEF Control
<1>5. Refused(i, n, Instr(graph, cur))
  BY <1>0, <1>3, <1>4 DEF Walk, Refused
<1>6. Blame'
  <2> SUFFICES ASSUME ~MayMeetItself
               PROVE  \E b \in DOMAIN before : \E k \in DOMAIN before[b] :
                        Refused(i, n, before[b][k])
    BY <1>1, <1>4, MayMeetItselfStill, RefusedStill DEF Blame
  <2>1. Instr(graph, cur).by # pass
    <3>1. Instr(graph, cur).kind \in VisitorKeys
      BY <1>5 DEF Refused, Registered
    <3> QED  BY <1>1, <1>4, <3>1 DEF NeverVisitsOwnCalls, VisitsOwnCall
  <2>2. PICK b \in DOMAIN graph : \E k \in DOMAIN graph[b] :
          graph[b][k] = Instr(graph, cur)
    <3>1. graph \in Graph /\ Unique(graph) /\ cur \in Ids(graph)
      BY <1>0, <1>4 DEF Sound, Walk
    <3> QED  BY <3>1, AtIn
  <2>3. PICK k \in DOMAIN graph[b] : graph[b][k] = Instr(graph, cur)
    BY <2>2
  <2>4. PICK c \in DOMAIN before : \E m \in DOMAIN before[c] :
          before[c][m] = graph[b][k]
    BY <1>1, <2>1, <2>3 DEF VerdictInv, Foreign
  <2> QED  BY <1>5, <2>3, <2>4
<1>7. Foreign(graph)' /\ Between(graph)'
  BY <1>1 DEF VerdictInv, Foreign, Between
<1> QED  BY <1>1, <1>6, <1>7 DEF VerdictInv, TableFull, Clean, Pending

(* The visit ends when all is passed.                                      *)
LEMMA EndVisitVerdict ==
  ASSUME PassInv, VerdictInv, EndVisit
  PROVE  VerdictInv'
<1>1. /\ pc = "visit" /\ pc' = "fix" /\ cur = 0 /\ block = Len(graph)
      /\ UNCHANGED <<input, graph, pass, before, cur, next, block>>
  BY DEF EndVisit
<1>2. Clean(graph)'
  <2>1. \A b \in DOMAIN graph : \A k \in DOMAIN graph[b] :
          Passed(graph, b, k)' => Passed(graph, b, k)
    BY <1>1 DEF Passed
  <2> QED  BY <1>1, <2>1, RefusedStill DEF VerdictInv, Clean
<1>3. Foreign(graph)' /\ Between(graph)'
  BY <1>1 DEF VerdictInv, Foreign, Between
<1> QED  BY <1>1, <1>2, <1>3 DEF VerdictInv, TableFull, Pending, Blame

(* When a pass is over, its policy has no say any more.                    *)
LEMMA FixOutVRegsVerdict ==
  ASSUME PassInv, FixOutVRegs
  PROVE  VerdictInv'
<1>1. pc' \in {"setup", "done"} /\ cur' = 0
  BY DEF PassInv, Control, FixOutVRegs
<1> QED  BY <1>1 DEF VerdictInv, TableFull, Between, Foreign, Clean, Pending,
                     Blame

(* The invariant holds in all reachable states.                            *)
LEMMA VerdictInvariant == Spec => []VerdictInv
<1>1. Init => VerdictInv
  <2> SUFFICES ASSUME Init PROVE VerdictInv
    OBVIOUS
  <2>1. pc \in {"setup", "done"} /\ cur = 0
    BY DEF Init
  <2> QED  BY <2>1 DEF VerdictInv, TableFull, Between, Foreign, Clean,
                       Pending, Blame
<1>2. VerdictInv /\ PassInv /\ NeverVisitsOwnCalls /\ [Next]_vars
        => VerdictInv'
  <2> SUFFICES ASSUME VerdictInv, PassInv, NeverVisitsOwnCalls, [Next]_vars
               PROVE  VerdictInv'
    OBVIOUS
  <2>1. CASE SetupPass
    BY <2>1, SetupPassVerdict
  <2>2. CASE EnterBlock
    BY <2>2, EnterBlockVerdict
  <2>3. CASE PassOver
    BY <2>3, PassOverVerdict
  <2>4. CASE Inject
    BY <2>4, InjectVerdict
  <2>5. CASE AbortCompilation
    BY <2>5, AbortVerdict
  <2>6. CASE Advance
    BY <2>6, AdvanceVerdict
  <2>7. CASE EndVisit
    BY <2>7, EndVisitVerdict
  <2>8. CASE FixOutVRegs
    BY <2>8, FixOutVRegsVerdict
  <2>9. CASE UNCHANGED vars
    <3>1. UNCHANGED <<input, graph, outs, pass, pc, table, codelib, block, cur,
                      next, todo, fresh, before>>
      BY <2>9 DEF vars
    <3>2. MayMeetItself' = MayMeetItself
      BY <3>1, MayMeetItselfStill
    <3>3. TableFull' /\ Between(graph)' /\ Foreign(graph)'
      BY <3>1 DEF VerdictInv, TableFull, Between, Foreign, Registered, Policy
    <3>4. Clean(graph)'
      BY <3>1, RefusedStill DEF VerdictInv, Clean, Passed
    <3>5. Pending(graph, todo)'
      <4>1. Instr(graph, cur)' = Instr(graph, cur)
        BY <3>1 DEF Instr, At
      <4> QED  BY <3>1, <4>1, RefusedStill DEF VerdictInv, Pending
    <3>6. Blame'
      BY <3>1, <3>2, RefusedStill DEF VerdictInv, Blame
    <3> QED  BY <3>3, <3>4, <3>5, <3>6 DEF VerdictInv
  <2> QED  BY <2>1, <2>2, <2>3, <2>4, <2>5, <2>6, <2>7, <2>8, <2>9 DEF Next
<1> QED  BY <1>1, <1>2, PassInvariant, OwnCallsNotVisited, PTL DEF Spec

(* Every pass has been given its environment, or none.                     *)
LEMMA EnvironmentIs ==
  ASSUME input \in Inputs, pass \in DOMAIN input.policies
  PROVE  input.libs[pass] \in Environments
<1>1. /\ input.libs \in Seq(Environments)
      /\ input.policies \in Seq(Seq(DeclaredInjection))
      /\ Len(input.libs) = Len(input.policies)
  BY InputsAssumption DEF InputSpace
<1> QED  BY <1>1

(* An injection is refused at an instruction if it is faulty and due there.*)
LEMMA RefusedMeansDue ==
  ASSUME input \in Inputs, pass \in DOMAIN input.policies,
         NEW i \in DOMAIN Policy, NEW x \in Instruction
  PROVE  (\E n \in Nat : Refused(i, n, x))
           <=> Faulty(Policy[i]) /\ DueAt(Policy[i], x)
<1>1. /\ Policy[i].targets \in Seq(Target)
      /\ Policy[i].parameters \in Seq(ParameterTypes)
  BY InputIs
<1>2. Usable(i) <=> ~Faulty(Policy[i])
  <2> DEFINE p == Policy[i].parameters
  <2>1. /\ DOMAIN p = 1..Len(p)
        /\ \A n \in DOMAIN p : p[n] \in ParameterTypes
    BY <1>1
  <2>2. Concrete(i) <=>
          ~ \E t \in {"tParameter", "tPrimitive"} : Contains(p, t)
    <3>1. Concrete(i) <=> \A n \in DOMAIN p : p[n] \in ConcreteTypes
      BY DEF Concrete
    <3>2. \A n \in DOMAIN p :
            p[n] \notin ConcreteTypes <=> p[n] \in {"tParameter", "tPrimitive"}
      BY <2>1 DEF ParameterTypes, ConcreteTypes
    <3> HIDE DEF p
    <3>3. (\E t \in {"tParameter", "tPrimitive"} : Contains(p, t)) <=>
            \E n \in DOMAIN p : p[n] \in {"tParameter", "tPrimitive"}
      BY <2>1 DEF Contains
    <3> QED  BY <3>1, <3>2, <3>3
  <2>3. GivenEnvironment /\ OffsetFound <=> input.libs[pass] = "whole"
    BY EnvironmentIs DEF GivenEnvironment, OffsetFound, Environments
  <2> QED  BY <2>2, <2>3 DEF Usable, Listed, IndexFound, Faulty
<1>3. \A n \in DOMAIN Policy[i].targets :
        /\ n \in Nat /\ Policy[i].targets[n].type \in TargetTypes
  <2>1. \A n \in DOMAIN Policy[i].targets :
          n \in Nat /\ Policy[i].targets[n] \in Target
    BY <1>1
  <2> QED  BY <2>1 DEF Target
<1>4. ASSUME NEW t, t.type \in TargetTypes
      PROVE  /\ x.kind \in KeysOf(t.type) <=> Aimed(t, x)
             /\ t.type # "NO_INJECTION" => (Matches(t, x) <=> NamedBy(t, x))
  <2>1. x.kind \in KeysOf(t.type) <=> Aimed(t, x)
    BY <1>4 DEF KeysOf, Aimed, TargetTypes
  <2>2. t.type # "NO_INJECTION" => (Matches(t, x) <=> NamedBy(t, x))
    BY <1>4 DEF Matches, NamedBy, TargetTypes, SignatureContains,
                InvokedMethod
  <2> QED  BY <2>1, <2>2
<1>5. Registered(i, x.kind) <=>
        \E n \in DOMAIN Policy[i].targets : Aimed(Policy[i].targets[n], x)
  <2>1. \A n \in DOMAIN Policy[i].targets :
          Aimed(Policy[i].targets[n], x) => x.kind \in VisitorKeys
    BY DEF Aimed, VisitorKeys
  <2> QED  BY <1>3, <1>4, <2>1 DEF Registered
<1>6. (\E n \in Nat : Refused(i, n, x)) <=>
        /\ Registered(i, x.kind) /\ ~Usable(i)
        /\ \E n \in DOMAIN Policy[i].targets :
             /\ Policy[i].targets[n].type # "NO_INJECTION"
             /\ Matches(Policy[i].targets[n], x)
  BY <1>3 DEF Refused
<1> QED  BY <1>2, <1>3, <1>4, <1>5, <1>6 DEF DueAt

(* A pass gives up for an injection that cannot be carried out (no         *)
(* environment, getInstanceFieldOffset, SetupFunctionParams, getMethodIdx  *)
(* or getMethodVtableIdx fails), exactly when it is due somewhere in the   *)
(* method; a pass that visits calls of its own may also do so for those.   *)
THEOREM VerdictHolds == Spec => []FaultyPolicyVerdict
<1>1. PassInv /\ VerdictInv => FaultyPolicyVerdict
  <2> SUFFICES ASSUME PassInv, VerdictInv, pc \in {"fix", "aborted"}
               PROVE  /\ pc = "fix" => ~FaultDue
                      /\ pc = "aborted" => FaultDue \/ MayMeetItself
    BY DEF FaultyPolicyVerdict
  <2>1. /\ input \in Inputs /\ pass \in DOMAIN input.policies
        /\ Sound(graph, fresh) /\ block \in Nat
    BY DEF PassInv, GraphInv, Control, Sound, Graph
  <2>2. graph \in Graph
    BY <2>1 DEF Sound
  <2>3. ASSUME NEW c \in DOMAIN before, NEW m \in DOMAIN before[c]
        PROVE  /\ before[c][m] \in Instruction /\ before[c][m].by # pass
               /\ \E b \in DOMAIN graph : \E k \in DOMAIN graph[b] :
                    graph[b][k] = before[c][m]
    <3>1. PICK b \in DOMAIN graph : \E k \in DOMAIN graph[b] :
            graph[b][k] = before[c][m]
      BY DEF VerdictInv, Foreign
    <3>2. PICK k \in DOMAIN graph[b] : graph[b][k] = before[c][m]
      BY <3>1
    <3>3. graph[b][k] \in Instruction
      BY <2>2 DEF Graph
    <3>4. before[c][m].by # pass
      BY DEF VerdictInv, Foreign
    <3> QED  BY <3>2, <3>3, <3>4
  <2>4. FaultDue <=> \E c \in DOMAIN before : \E m \in DOMAIN before[c] :
                       \E i \in DOMAIN Policy : \E n \in Nat :
                         Refused(i, n, before[c][m])
    BY <2>1, <2>3, RefusedMeansDue DEF FaultDue
  <2>5. ASSUME pc = "fix", NEW c \in DOMAIN before, NEW m \in DOMAIN before[c],
               NEW i \in DOMAIN Policy, NEW n \in Nat,
               Refused(i, n, before[c][m])
        PROVE  FALSE
    <3>1. PICK b \in DOMAIN graph : \E k \in DOMAIN graph[b] :
            graph[b][k] = before[c][m]
      BY <2>3
    <3>2. PICK k \in DOMAIN graph[b] : graph[b][k] = before[c][m]
      BY <3>1
    <3>3. Passed(graph, b, k)
      <4>1. cur = 0 /\ block = Len(graph)
        BY <2>5 DEF PassInv, Control, VerdictInv, Clean
      <4>2. b <= block /\ b \in Nat
        BY <2>2, <4>1 DEF Graph
      <4> QED  BY <2>1, <4>1, <4>2 DEF Passed
    <3>4. i \in Nat
      BY <2>1, InputIs
    <3>5. graph[b][k].by # pass
      BY <2>3, <3>2
    <3> QED  BY <2>5, <3>2, <3>3, <3>4, <3>5 DEF VerdictInv, Clean
  <2>6. pc = "aborted" => FaultDue \/ MayMeetItself
    BY <2>4 DEF VerdictInv, Blame, Refused, Registered
  <2> QED  BY <2>4, <2>5, <2>6
<1> QED  BY <1>1, PassInvariant, VerdictInvariant, PTL

----------------------------------------------------------------------------
(* The invariant behind WovenAsIfStill, on top of the others.  done[b][k] *)
(* is the part of the visit of instruction k of block b that the walk has  *)
(* done: all of it behind the walk, nothing ahead of it.                   *)
Views == [id : Nat, inj : Nat, anchor : Nat]

CallOf(i, x) == [id |-> 0, inj |-> i, anchor |-> x.id]

(* The calls that part v of the visit of x makes at targets of these types,*)
MadeBy(v, x, types) ==
  LET t == Policy[v[1]].targets[v[2]]
  IN  IF t.type \in types /\ NamedBy(t, x) THEN <<CallOf(v[1], x)>> ELSE <<>>

Makes(x, types) == [v \in Nat \X Nat |-> MadeBy(v, x, types)]

Made(x, d, types) == Each(Makes(x, types), d)

(* One more part of a visit makes its calls behind those of the others.    *)
LEMMA MadeIs ==
  ASSUME NEW x, x.id \in Nat, NEW types, NEW d \in Seq(Nat \X Nat)
  PROVE  /\ Makes(x, types) \in ToSeq(Nat \X Nat, Views)
         /\ Made(x, d, types) \in Seq(Views)
         /\ Made(x, <<>>, types) = <<>>
         /\ \A v \in Nat \X Nat :
              /\ MadeBy(v, x, types) \in Seq(Views)
              /\ Made(x, Append(d, v), types)
                   = Made(x, d, types) \o MadeBy(v, x, types)
<1> DEFINE S == Nat \X Nat
           F == Makes(x, types)
<1>1. \A v \in S : MadeBy(v, x, types) \in Seq(Views)
  <2> SUFFICES ASSUME NEW v \in S PROVE MadeBy(v, x, types) \in Seq(Views)
    OBVIOUS
  <2>1. CallOf(v[1], x) \in Views
    BY DEF CallOf, Views
  <2>2. <<CallOf(v[1], x)>> \in Seq(Views) /\ <<>> \in Seq(Views)
    BY <2>1, EmptySeq
  <2> QED  BY <2>2 DEF MadeBy
<1>2. F \in ToSeq(S, Views) /\ \A v \in S : F[v] = MadeBy(v, x, types)
  BY <1>1 DEF Makes, ToSeq
<1> HIDE DEF F
<1>3. d \in Seq(S)
  OBVIOUS
<1> HIDE DEF S
<1>4. /\ Each(F, d) \in Seq(Views) /\ Each(F, <<>>) = <<>>
      /\ \A v \in S : Each(F, Append(d, v)) = Each(F, d) \o F[v]
  BY <1>2, <1>3, EachIs
<1> QED  BY <1>1, <1>2, <1>4 DEF Made, F, S

(* A target is aimed at a kind if it is registered for it.                 *)
LEMMA TargetMeans ==
  ASSUME NEW t, t.type \in TargetTypes, NEW x
  PROVE  /\ x.kind \in KeysOf(t.type) <=> Aimed(t, x)
         /\ t.type # "NO_INJECTION" => (Matches(t, x) <=> NamedBy(t, x))
<1>1. x.kind \in KeysOf(t.type) <=> Aimed(t, x)
  BY DEF KeysOf, Aimed, TargetTypes
<1>2. t.type # "NO_INJECTION" => (Matches(t, x) <=> NamedBy(t, x))
  BY DEF Matches, NamedBy, TargetTypes, SignatureContains, InvokedMethod
<1> QED  BY <1>1, <1>2

(* The parts of Calls: of one injection carried out once, and as often as  *)
(* it is aimed at x.                                                       *)
OnceParts(i, x, types) ==
  [n \in DOMAIN Policy[i].targets |-> MadeBy(<<i, n>>, x, types)]

AllParts(i, x, types) ==
  [n \in DOMAIN Policy[i].targets |->
     IF Aimed(Policy[i].targets[n], x) THEN FlattenSeq(OnceParts(i, x, types))
     ELSE <<>>]

LEMMA CallsParts ==
  ASSUME NEW x, NEW types
  PROVE  Calls(x, types)
           = FlattenSeq([i \in DOMAIN Policy |->
                           FlattenSeq(AllParts(i, x, types))])
BY DEF Calls, AllParts, OnceParts, MadeBy, CallOf

(* They are sequences of calls.                                            *)
LEMMA PartsType ==
  ASSUME input \in Inputs, pass \in DOMAIN input.policies, NEW x,
         x.id \in Nat, NEW types, NEW i \in DOMAIN Policy
  PROVE  /\ i \in Nat /\ Policy[i].targets \in Seq(Target)
         /\ DOMAIN Policy[i].targets = 1..Len(Policy[i].targets)
         /\ Len(Policy[i].targets) \in Nat
         /\ OnceParts(i, x, types) \in Seq(Seq(Views))
         /\ Len(OnceParts(i, x, types)) = Len(Policy[i].targets)
         /\ FlattenSeq(OnceParts(i, x, types)) \in Seq(Views)
         /\ AllParts(i, x, types) \in Seq(Seq(Views))
         /\ Len(AllParts(i, x, types)) = Len(Policy[i].targets)
         /\ FlattenSeq(AllParts(i, x, types)) \in Seq(Views)
<1> DEFINE s == Policy[i].targets
           once == OnceParts(i, x, types)
           all == AllParts(i, x, types)
<1>1. s \in Seq(Target) /\ Policy \in Seq(DeclaredInjection)
  BY InputIs
<1>2. DOMAIN s = 1..Len(s) /\ Len(s) \in Nat /\ i \in Nat
  BY <1>1
<1>3. once \in Seq(Seq(Views)) /\ Len(once) = Len(s)
  <2>1. \A n \in DOMAIN s : MadeBy(<<i, n>>, x, types) \in Seq(Views)
    <3>1. \A n \in DOMAIN s : <<i, n>> \in Nat \X Nat
      BY <1>2
    <3>2. <<>> \in Seq(Nat \X Nat)
      BY EmptySeq
    <3> QED  BY <3>1, <3>2, MadeIs
  <2>2. once = [n \in 1..Len(s) |-> MadeBy(<<i, n>>, x, types)]
    BY <1>2 DEF OnceParts
  <2> HIDE DEF once, s
  <2>3. once \in [1..Len(s) -> Seq(Views)]
    BY <1>2, <2>1, <2>2
  <2> QED  BY <1>2, <2>3, FunctionIsSeq
<1>4. FlattenSeq(once) \in Seq(Views)
  BY <1>3, FlattenType
<1>5. all \in Seq(Seq(Views)) /\ Len(all) = Len(s)
  <2>1. all = [n \in 1..Len(s) |->
                 IF Aimed(s[n], x) THEN FlattenSeq(once) ELSE <<>>]
    BY <1>2 DEF AllParts
  <2>2. <<>> \in Seq(Views)
    BY EmptySeq
  <2> HIDE DEF once, s, all
  <2>3. all \in [1..Len(s) -> Seq(Views)]
    BY <1>4, <2>1, <2>2
  <2> QED  BY <1>2, <2>3, FunctionIsSeq
<1>6. FlattenSeq(all) \in Seq(Views)
  BY <1>5, FlattenType
<1> QED  BY <1>1, <1>2, <1>3, <1>4, <1>5, <1>6

(* An instruction that is not visited has no calls.                        *)
LEMMA NoCalls ==
  ASSUME input \in Inputs, pass \in DOMAIN input.policies, NEW x,
         x.id \in Nat, x.kind \notin VisitorKeys, NEW types
  PROVE  Calls(x, types) = <<>>
<1>1. ASSUME NEW i \in DOMAIN Policy
      PROVE  FlattenSeq(AllParts(i, x, types)) = <<>>
  <2> DEFINE all == AllParts(i, x, types)
  <2>1. all \in Seq(Seq(Views)) /\ Len(all) = Len(Policy[i].targets)
        /\ DOMAIN Policy[i].targets = 1..Len(Policy[i].targets)
    BY PartsType
  <2>2. \A n \in DOMAIN Policy[i].targets : all[n] = <<>>
    BY DEF AllParts, Aimed, VisitorKeys
  <2> HIDE DEF all
  <2>3. \A n \in 1..Len(all) : all[n] = <<>>
    BY <2>1, <2>2
  <2>4. all \in Seq(Seq(Views))
    BY <2>1
  <2> QED  BY <2>3, <2>4, FlattenNone DEF all
<1> DEFINE parts == [i \in DOMAIN Policy |->
                       FlattenSeq(AllParts(i, x, types))]
<1>2. Policy \in Seq(DeclaredInjection)
  BY InputIs
<1>3. DOMAIN Policy = 1..Len(Policy) /\ Len(Policy) \in Nat
  BY <1>2
<1>4. \A i \in DOMAIN Policy : parts[i] = <<>>
  BY <1>1
<1>5. parts \in Seq(Seq(Views)) /\ Len(parts) = Len(Policy)
  <2>1. <<>> \in Seq(Views) /\ parts = [i \in 1..Len(Policy) |-> parts[i]]
    BY <1>3, EmptySeq
  <2> HIDE DEF parts
  <2>2. parts \in [1..Len(Policy) -> Seq(Views)]
    BY <1>3, <1>4, <2>1
  <2> QED  BY <1>3, <2>2, FunctionIsSeq
<1> HIDE DEF parts
<1>6. FlattenSeq(parts) = <<>>
  BY <1>3, <1>4, <1>5, FlattenNone
<1> QED  BY <1>6, CallsParts DEF parts

(* A whole visit makes the declared calls.                                 *)
LEMMA VisitMakesCalls ==
  ASSUME input \in Inputs, pass \in DOMAIN input.policies,
         table = [k \in VisitorKeys |-> TableEntry(Policy, k)],
         NEW x, x.id \in Nat, NEW types
  PROVE  Made(x, Visits(x.kind), types) = Calls(x, types)
<1>1. CASE x.kind \notin VisitorKeys
  <2>1. Visits(x.kind) = <<>>
    BY <1>1 DEF Visits
  <2>2. <<>> \in Seq(Nat \X Nat)
    BY EmptySeq
  <2>3. Made(x, <<>>, types) = <<>>
    BY <2>2, MadeIs
  <2> QED  BY <1>1, <2>1, <2>3, NoCalls
<1>2. CASE x.kind \in VisitorKeys
  <2> DEFINE D == DOMAIN Policy
             S == Nat \X Nat
             M == Makes(x, types)
             entry == table[x.kind]
             visit(i) == [n \in DOMAIN Policy[i].targets |-> <<i, n>>]
             V == [i \in D |-> visit(i)]
             once(i) == FlattenSeq(OnceParts(i, x, types))
             O == [i \in D |-> once(i)]
             reg(i) == Registrations(Policy[i].targets, x.kind, i)
             one(i) == FlattenSeq(reg(i))
             E == [i \in D |-> one(i)]
  <2>1. /\ Policy \in Seq(DeclaredInjection) /\ D = 1..Len(Policy)
        /\ Len(Policy) \in Nat
    <3>1. Policy \in Seq(DeclaredInjection)
      BY InputIs
    <3> QED  BY <3>1
  <2>2. M \in ToSeq(S, Views) /\ \A v \in S : M[v] = MadeBy(v, x, types)
    <3>1. <<>> \in Seq(Nat \X Nat)
      BY EmptySeq
    <3>2. M \in ToSeq(S, Views)
      BY <3>1, MadeIs
    <3> QED  BY <3>2 DEF Makes
  <2>3. ASSUME NEW i \in D
        PROVE  /\ visit(i) \in Seq(S) /\ Each(M, visit(i)) = once(i)
               /\ once(i) \in Seq(Views) /\ reg(i) \in Seq(Seq(D))
               /\ Len(reg(i)) = Len(Policy[i].targets)
               /\ one(i) \in Seq(D)
    <3> DEFINE s == Policy[i].targets
    <3>1. s \in Seq(Target) /\ DOMAIN s = 1..Len(s) /\ Len(s) \in Nat
          /\ i \in Nat /\ FlattenSeq(OnceParts(i, x, types)) \in Seq(Views)
      BY PartsType
    <3>2. visit(i) = [n \in 1..Len(s) |-> <<i, n>>]
      BY <3>1
    <3>3. OnceParts(i, x, types)
            = [n \in 1..Len(s) |-> MadeBy(<<i, n>>, x, types)]
      BY <3>1 DEF OnceParts
    <3>4. reg(i) = [n \in 1..Len(s) |->
                      IF x.kind \in KeysOf(s[n].type) THEN <<i>> ELSE <<>>]
      BY <3>1 DEF Registrations
    <3> HIDE DEF s, visit, reg, M, S, D
    <3>5. visit(i) \in Seq(S) /\ Len(visit(i)) = Len(s)
      <4>1. \A n \in 1..Len(s) : <<i, n>> \in S
        BY <3>1 DEF S
      <4>2. visit(i) \in [1..Len(s) -> S]
        BY <3>2, <4>1
      <4> QED  BY <3>1, <4>2, FunctionIsSeq
    <3>6. Each(M, visit(i)) = once(i)
      <4>1. \A n \in 1..Len(s) : M[visit(i)[n]] = MadeBy(<<i, n>>, x, types)
        <5>1. \A n \in 1..Len(s) : <<i, n>> \in S /\ visit(i)[n] = <<i, n>>
          BY <3>1, <3>2 DEF S
        <5> QED  BY <2>2, <5>1
      <4>2. [n \in 1..Len(visit(i)) |-> M[visit(i)[n]]]
              = OnceParts(i, x, types)
        BY <3>3, <3>5, <4>1
      <4> QED  BY <4>2 DEF Each
    <3>7. reg(i) \in Seq(Seq(D)) /\ Len(reg(i)) = Len(s)
      <4>1. <<i>> \in Seq(D) /\ <<>> \in Seq(D)
        BY EmptySeq
      <4>2. reg(i) \in [1..Len(s) -> Seq(D)]
        BY <3>4, <4>1
      <4> QED  BY <3>1, <4>2, FunctionIsSeq
    <3>8. one(i) \in Seq(D)
      BY <3>7, FlattenType
    <3> QED  BY <3>1, <3>5, <3>6, <3>7, <3>8 DEF s
  <2>4. V \in ToSeq(D, S) /\ \A i \in D : V[i] = visit(i)
    <3> HIDE DEF visit, S, D
    <3> QED  BY <2>3 DEF ToSeq
  <2>5. O \in ToSeq(D, Views) /\ \A i \in D : O[i] = once(i)
    <3> HIDE DEF once, D
    <3> QED  BY <2>3 DEF ToSeq
  <2>6. E \in Seq(Seq(D)) /\ Len(E) = Len(Policy) /\ \A i \in D : E[i] = one(i)
    <3> HIDE DEF one
    <3>1. E \in [1..Len(Policy) -> Seq(D)]
      BY <2>1, <2>3
    <3>2. \A i \in D : E[i] = one(i)
      OBVIOUS
    <3> HIDE DEF E, D
    <3> QED  BY <2>1, <3>1, <3>2, FunctionIsSeq
  <2>7. entry = FlattenSeq(E) /\ entry \in Seq(D)
    <3>1. entry = TableEntry(Policy, x.kind)
      BY <1>2
    <3>2. TableEntry(Policy, x.kind) = FlattenSeq(E)
      BY DEF TableEntry, Registrations
    <3> HIDE DEF E, entry, D
    <3> QED  BY <2>6, <3>1, <3>2, FlattenType
  <2>8. Visits(x.kind) = Each(V, entry)
    <3>1. entry \in Seq(D) /\ DOMAIN entry = 1..Len(entry)
          /\ \A k \in 1..Len(entry) : entry[k] \in D
      <4> HIDE DEF entry, D
      <4> QED  BY <2>7, ElementOfSeq
    <3>2. Visits(x.kind) = FlattenSeq([k \in DOMAIN entry |-> visit(entry[k])])
      BY <1>2 DEF Visits
    <3> HIDE DEF entry, visit, V, D
    <3>3. [k \in DOMAIN entry |-> visit(entry[k])]
            = [k \in 1..Len(entry) |-> V[entry[k]]]
      BY <2>4, <3>1
    <3> QED  BY <3>2, <3>3 DEF Each
  <2> HIDE DEF D, S, M, entry, visit, V, once, O, reg, one, E
  <2>9. Each(M, Each(V, entry)) = Each(O, entry)
    <3> DEFINE W == [k \in 1..Len(entry) |-> V[entry[k]]]
    <3>1. W \in Seq(Seq(S)) /\ Len(W) = Len(entry)
      BY <2>4, <2>7, EachIs
    <3>2. \A k \in 1..Len(entry) : entry[k] \in D /\ W[k] = V[entry[k]]
      BY <2>7, ElementOfSeq
    <3>3. Each(V, entry) = FlattenSeq(W)
      BY DEF Each
    <3> HIDE DEF W
    <3>4. Each(M, FlattenSeq(W))
            = FlattenSeq([k \in 1..Len(W) |-> Each(M, W[k])])
      BY <2>2, <3>1, EachFlatten
    <3>5. \A k \in 1..Len(entry) : Each(M, W[k]) = O[entry[k]]
      <4>1. \A i \in D : Each(M, V[i]) = O[i]
        BY <2>3, <2>4, <2>5
      <4> QED  BY <3>2, <4>1
    <3>6. [k \in 1..Len(W) |-> Each(M, W[k])]
            = [k \in 1..Len(entry) |-> O[entry[k]]]
      BY <3>1, <3>5
    <3> QED  BY <3>3, <3>4, <3>6 DEF Each
  <2>10. Each(O, entry)
           = FlattenSeq([i \in 1..Len(Policy) |-> Each(O, one(i))])
    <3>1. Each(O, FlattenSeq(E))
            = FlattenSeq([i \in 1..Len(E) |-> Each(O, E[i])])
      BY <2>5, <2>6, EachFlatten
    <3>2. \A i \in 1..Len(Policy) : E[i] = one(i)
      BY <2>1, <2>6
    <3> QED  BY <2>6, <2>7, <3>1, <3>2
  <2>11. ASSUME NEW i \in D
         PROVE  Each(O, one(i)) = FlattenSeq(AllParts(i, x, types))
    <3> DEFINE s == Policy[i].targets
    <3>1. s \in Seq(Target) /\ DOMAIN s = 1..Len(s)
      BY PartsType DEF D
    <3>2. \A n \in 1..Len(s) : s[n].type \in TargetTypes
      <4>1. \A n \in 1..Len(s) : s[n] \in Target
        BY <3>1, ElementOfSeq
      <4> QED  BY <4>1 DEF Target
    <3>3. AllParts(i, x, types)
            = [n \in 1..Len(s) |-> IF Aimed(s[n], x) THEN once(i) ELSE <<>>]
      BY <3>1 DEF AllParts, once
    <3>4. reg(i) = [n \in 1..Len(s) |->
                      IF x.kind \in KeysOf(s[n].type) THEN <<i>> ELSE <<>>]
      BY <3>1 DEF reg, Registrations
    <3>5. reg(i) \in Seq(Seq(D)) /\ Len(reg(i)) = Len(s)
      BY <2>3
    <3>6. Each(O, <<i>>) = once(i) /\ Each(O, <<>>) = <<>>
      <4>1. <<>> \in Seq(D)
        BY EmptySeq
      <4>2. Each(O, <<>>) = <<>>
        BY <2>5, <4>1, EachIs
      <4>3. Each(O, <<i>>) = O[i]
        BY <2>5, EachOne
      <4> QED  BY <2>5, <4>2, <4>3
    <3>7. Each(O, FlattenSeq(reg(i)))
            = FlattenSeq([n \in 1..Len(reg(i)) |-> Each(O, reg(i)[n])])
      BY <2>5, <3>5, EachFlatten
    <3> HIDE DEF s
    <3>8. ASSUME NEW n \in 1..Len(s)
          PROVE  Each(O, reg(i)[n])
                   = IF Aimed(s[n], x) THEN once(i) ELSE <<>>
      <4>1. x.kind \in KeysOf(s[n].type) <=> Aimed(s[n], x)
        BY <3>2, TargetMeans
      <4>2. reg(i)[n] = IF Aimed(s[n], x) THEN <<i>> ELSE <<>>
        BY <3>4, <4>1
      <4> QED  BY <3>6, <4>2
    <3>9. [n \in 1..Len(reg(i)) |-> Each(O, reg(i)[n])] = AllParts(i, x, types)
      BY <3>3, <3>5, <3>8
    <3> QED  BY <3>7, <3>9 DEF one
  <2>12. Each(O, entry) = Calls(x, types)
    <3>1. [i \in 1..Len(Policy) |-> Each(O, one(i))]
            = [i \in DOMAIN Policy |-> FlattenSeq(AllParts(i, x, types))]
      BY <2>1, <2>11 DEF D
    <3> QED  BY <2>10, <3>1, CallsParts
  <2> QED  BY <2>8, <2>9, <2>12 DEF Made, M
<1> QED  BY <1>1, <1>2

(* What the visit so far has made of x, and of all but the last instruction*)
(* of the entry block and all of any other block.                          *)
Partly(x, d) ==
  (Made(x, d, BeforeTypes) \o <<Kept(x)>>)
    \o Reverse(Made(x, d, {"METHOD_CALL_AFTER"}))

Body(b) == IF b = 1 THEN Front(before[1]) ELSE before[b]

Parts(b, ds) == [k \in 1..Len(Body(b)) |-> Partly(Body(b)[k], ds[k])]

(* What is put before the end of the entry block.                          *)
StartParts(b, ds) ==
  [k \in 1..Len(before[b]) |-> Made(before[b][k], ds[k], {"METHOD_START"})]

BlockStarts(done) ==
  [b \in 1..Len(before) |-> FlattenSeq(StartParts(b, done[b]))]

AllStarts(done) == FlattenSeq(BlockStarts(done))

Loads(lib) == IF lib = 0 THEN <<>> ELSE <<Loaded>>

Hem(b, done, lib) ==
  IF b = 1
  THEN (Loads(lib) \o AllStarts(done)) \o <<Kept(Last(before[1]))>>
  ELSE <<>>

(* Block b, woven as far as the visits are done.                           *)
Fabric(b, done, lib) == FlattenSeq(Parts(b, done[b])) \o Hem(b, done, lib)

Found ==
  /\ before \in Graph /\ Unique(before) /\ Len(before) = Len(graph)
  /\ Entry(before)

Progress(done) ==
  /\ done \in [1..Len(before) -> Seq(Seq(Nat \X Nat))]
  /\ \A b \in 1..Len(before) : Len(done[b]) = Len(before[b])

(* One more part of the visit of instruction k of block b is done.         *)
More(d, v) == Append(d, v)

Onward(done, b, k, v) ==
  [done EXCEPT ![b] = [done[b] EXCEPT ![k] = More(done[b][k], v)]]

LEMMA OnwardIs ==
  ASSUME NEW done, Progress(done), NEW b \in 1..Len(before),
         NEW k \in 1..Len(before[b]), NEW v \in Nat \X Nat
  PROVE  /\ Progress(Onward(done, b, k, v))
         /\ done[b][k] \in Seq(Nat \X Nat)
         /\ Onward(done, b, k, v)[b][k] = More(done[b][k], v)
         /\ \A j \in 1..Len(before[b]) :
              j # k => Onward(done, b, k, v)[b][j] = done[b][j]
         /\ \A c \in 1..Len(before) :
              c # b => Onward(done, b, k, v)[c] = done[c]
<1> DEFINE S == Nat \X Nat
           e == More(done[b][k], v)
           ds == [done[b] EXCEPT ![k] = e]
           then == Onward(done, b, k, v)
<1>1. done[b] \in Seq(Seq(S)) /\ Len(done[b]) = Len(before[b])
  BY DEF Progress
<1>2. k \in 1..Len(done[b])
  BY <1>1
<1>3. done[b][k] \in Seq(S) /\ v \in S
  BY <1>1, <1>2, ElementOfSeq
<1> HIDE DEF S
<1>4. e \in Seq(S)
  BY <1>3, AppendProperties DEF More
<1>5. then = [done EXCEPT ![b] = ds]
  BY DEF Onward
<1> HIDE DEF then
<1> HIDE DEF e
<1>6. /\ ds \in Seq(Seq(S)) /\ Len(ds) = Len(done[b])
      /\ \A j \in 1..Len(done[b]) : ds[j] = IF j = k THEN e ELSE done[b][j]
  BY <1>1, <1>2, <1>4, ExceptSeq
<1> HIDE DEF ds
<1>7. /\ done \in [1..Len(before) -> Seq(Seq(S))]
      /\ \A c \in 1..Len(before) : Len(done[c]) = Len(before[c])
  BY DEF Progress, S
<1>8. /\ then[b] = ds /\ \A c \in 1..Len(before) : c # b => then[c] = done[c]
      /\ then \in [1..Len(before) -> Seq(Seq(S))]
  BY <1>5, <1>6, <1>7
<1>9. \A c \in 1..Len(before) : Len(then[c]) = Len(before[c])
  BY <1>1, <1>6, <1>7, <1>8
<1> QED  BY <1>1, <1>2, <1>3, <1>6, <1>8, <1>9 DEF Progress, S, e, then

(* The instructions that may be visited.                                   *)
LEMMA BodyIs ==
  ASSUME Found, NEW b \in 1..Len(before)
  PROVE  /\ Len(before) \in Nat /\ DOMAIN before = 1..Len(before)
         /\ before[b] \in Seq(Instruction) /\ Len(before[b]) \in Nat
         /\ DOMAIN before[b] = 1..Len(before[b])
         /\ \A k \in 1..Len(before[b]) : /\ before[b][k] \in Instruction
                                         /\ before[b][k].id \in Nat \ {0}
         /\ Body(b) \in Seq(Instruction) /\ Len(Body(b)) \in Nat
         /\ b # 1 => Body(b) = before[b]
         /\ b = 1 => Len(Body(1)) + 1 = Len(before[1])
         /\ \A k \in 1..Len(Body(b)) :
              k \in 1..Len(before[b]) /\ Body(b)[k] = before[b][k]
         /\ \A k \in 1..Len(before[b]) :
              before[b][k].kind \in VisitorKeys => k \in 1..Len(Body(b))
<1>1. before \in Seq(Seq(Instruction)) /\ before[1] # <<>>
      /\ Last(before[1]).kind \notin VisitorKeys
  BY DEF Found, Graph, Entry
<1>2. before[b] \in Seq(Instruction)
  BY <1>1, ElementOfSeq
<1>3. /\ Len(before) \in Nat /\ DOMAIN before = 1..Len(before)
      /\ Len(before[b]) \in Nat /\ DOMAIN before[b] = 1..Len(before[b])
  BY <1>1, <1>2
<1>4. \A k \in 1..Len(before[b]) : /\ before[b][k] \in Instruction
                                   /\ before[b][k].id \in Nat \ {0}
  <2>1. \A k \in 1..Len(before[b]) : before[b][k] \in Instruction
    BY <1>2, ElementOfSeq
  <2> QED  BY <2>1 DEF Instruction
<1>5. CASE b # 1
  <2>1. Body(b) = before[b]
    BY <1>5 DEF Body
  <2> QED  BY <1>2, <1>3, <1>4, <1>5, <2>1
<1>6. CASE b = 1
  <2> DEFINE s == before[1]
  <2>1. PICK n \in Nat : n = Len(s)
    BY <1>3, <1>6
  <2>2. n # 0 /\ s \in Seq(Instruction)
    BY <1>1, <1>2, <1>6, <2>1, EmptySeq
  <2>3. Body(1) = SubSeq(s, 1, n - 1)
    BY <2>1 DEF Body, Front
  <2>4. \A k \in 1..(n - 1) : s[k] \in Instruction
    BY <1>4, <1>6, <2>1
  <2>5. /\ Body(1) \in Seq(Instruction) /\ Len(Body(1)) = n - 1
        /\ \A k \in 1..(n - 1) : Body(1)[k] = s[k]
    BY <2>2, <2>3, <2>4, SubSeqProperties
  <2>6. s[n].kind \notin VisitorKeys
    BY <1>1, <2>1 DEF Last
  <2>7. \A k \in 1..n : k # n => k \in 1..(n - 1)
    OBVIOUS
  <2>8. n - 1 \in Nat /\ n - 1 + 1 = n /\ \A k \in 1..(n - 1) : k \in 1..n
    BY <2>2
  <2> HIDE DEF s
  <2> QED  BY <1>2, <1>3, <1>4, <1>6, <2>1, <2>5, <2>6, <2>7, <2>8 DEF s
<1> QED  BY <1>5, <1>6

LEMMA FoundIds ==
  ASSUME Found
  PROVE  \A b \in 1..Len(before) : \A k \in 1..Len(before[b]) :
           before[b][k].id \in Nat \ {0}
<1> SUFFICES ASSUME NEW b \in 1..Len(before), NEW k \in 1..Len(before[b])
             PROVE  before[b][k].id \in Nat \ {0}
  OBVIOUS
<1>1. \A j \in 1..Len(before[b]) : /\ before[b][j] \in Instruction
                                   /\ before[b][j].id \in Nat \ {0}
  BY BodyIs
<1> QED  BY <1>1

(* All this is made of calls and of instructions that are kept.            *)
LEMMA PartlyIs ==
  ASSUME NEW x, x.id \in Nat, NEW d \in Seq(Nat \X Nat)
  PROVE  /\ Kept(x) \in Views /\ <<Kept(x)>> \in Seq(Views)
         /\ Partly(x, d) \in Seq(Views)
         /\ Partly(x, <<>>) = <<Kept(x)>>
<1>1. Kept(x) \in Views
  BY DEF Kept, Views
<1>2. <<Kept(x)>> \in Seq(Views)
  BY <1>1
<1> DEFINE B(c) == Made(x, c, BeforeTypes)
           A(c) == Made(x, c, {"METHOD_CALL_AFTER"})
           K == <<Kept(x)>>
<1>3. /\ B(d) \in Seq(Views) /\ A(d) \in Seq(Views)
      /\ B(<<>>) = <<>> /\ A(<<>>) = <<>>
  BY MadeIs
<1>4. Partly(x, d) = (B(d) \o K) \o Reverse(A(d))
      /\ Partly(x, <<>>) = (B(<<>>) \o K) \o Reverse(A(<<>>))
  BY DEF Partly
<1> HIDE DEF B, A, K
<1>5. Reverse(A(d)) \in Seq(Views)
  BY <1>3, ReverseAppend
<1>6. Reverse(<<>>) = <<>>
  <2>1. <<>> \in Seq(Views) /\ Len(<<>>) = 0
    BY EmptySeq
  <2>2. Reverse(<<>>) \in Seq(Views)
    BY <2>1, ReverseAppend
  <2>3. Reverse(<<>>) = [i \in 1..0 |-> <<>>[(0 - i) + 1]]
    BY <2>1 DEF Reverse
  <2>4. Len(Reverse(<<>>)) = 0
    BY <2>2, <2>3
  <2> QED  BY <2>2, <2>4, EmptySeq
<1>7. Partly(x, d) \in Seq(Views)
  BY <1>2, <1>3, <1>4, <1>5, ConcatProperties DEF K
<1>8. Partly(x, <<>>) = K
  <2>1. K \in Seq(Views)
    BY <1>2 DEF K
  <2>2. <<>> \o K = K /\ K \o <<>> = K
    BY <2>1, ConcatEmptySeq
  <2> QED  BY <1>3, <1>4, <1>6, <2>2
<1> QED  BY <1>1, <1>2, <1>7, <1>8 DEF K

LEMMA PartsAre ==
  ASSUME Found, NEW b \in 1..Len(before), NEW ds \in Seq(Seq(Nat \X Nat)),
         Len(ds) = Len(before[b])
  PROVE  /\ Parts(b, ds) \in Seq(Seq(Views))
         /\ Len(Parts(b, ds)) = Len(Body(b))
         /\ FlattenSeq(Parts(b, ds)) \in Seq(Views)
         /\ StartParts(b, ds) \in Seq(Seq(Views))
         /\ Len(StartParts(b, ds)) = Len(before[b])
         /\ FlattenSeq(StartParts(b, ds)) \in Seq(Views)
<1>1. /\ Len(before[b]) \in Nat /\ Len(Body(b)) \in Nat
      /\ \A k \in 1..Len(before[b]) : before[b][k].id \in Nat
      /\ \A k \in 1..Len(Body(b)) :
           k \in 1..Len(before[b]) /\ Body(b)[k] = before[b][k]
  BY BodyIs
<1>2. \A k \in 1..Len(before[b]) : ds[k] \in Seq(Nat \X Nat)
  BY ElementOfSeq
<1> DEFINE p(k) == Partly(Body(b)[k], ds[k])
           q(k) == Made(before[b][k], ds[k], {"METHOD_START"})
           P == Parts(b, ds)
           Q == StartParts(b, ds)
<1>3. \A k \in 1..Len(Body(b)) : p(k) \in Seq(Views)
  BY <1>1, <1>2, PartlyIs
<1>4. \A k \in 1..Len(before[b]) : q(k) \in Seq(Views)
  BY <1>1, <1>2, MadeIs
<1>5. /\ P = [k \in 1..Len(Body(b)) |-> p(k)]
      /\ Q = [k \in 1..Len(before[b]) |-> q(k)]
  BY DEF Parts, StartParts
<1> HIDE DEF p, q, P, Q
<1>6. P \in Seq(Seq(Views)) /\ Len(P) = Len(Body(b))
  <2>1. P \in [1..Len(Body(b)) -> Seq(Views)]
    BY <1>3, <1>5
  <2> QED  BY <1>1, <2>1, FunctionIsSeq
<1>7. Q \in Seq(Seq(Views)) /\ Len(Q) = Len(before[b])
  <2>1. Q \in [1..Len(before[b]) -> Seq(Views)]
    BY <1>4, <1>5
  <2> QED  BY <1>1, <2>1, FunctionIsSeq
<1>8. FlattenSeq(P) \in Seq(Views) /\ FlattenSeq(Q) \in Seq(Views)
  BY <1>6, <1>7, FlattenType
<1> QED  BY <1>6, <1>7, <1>8 DEF P, Q

LEMMA FabricType ==
  ASSUME Found, NEW done, Progress(done), NEW lib
  PROVE  /\ BlockStarts(done) \in Seq(Seq(Views))
         /\ Len(BlockStarts(done)) = Len(before)
         /\ AllStarts(done) \in Seq(Views)
         /\ Loads(lib) \in Seq(Views)
         /\ \A b \in 1..Len(before) :
              /\ done[b] \in Seq(Seq(Nat \X Nat))
              /\ Len(done[b]) = Len(before[b])
              /\ FlattenSeq(Parts(b, done[b])) \in Seq(Views)
              /\ Hem(b, done, lib) \in Seq(Views)
              /\ Fabric(b, done, lib) \in Seq(Views)
         /\ Kept(Last(before[1])) \in Views
         /\ <<Kept(Last(before[1]))>> \in Seq(Views)
<1>1. \A b \in 1..Len(before) : /\ done[b] \in Seq(Seq(Nat \X Nat))
                                /\ Len(done[b]) = Len(before[b])
  BY DEF Progress
<1> DEFINE B == BlockStarts(done)
           q(b) == FlattenSeq(StartParts(b, done[b]))
<1>2. \A b \in 1..Len(before) : q(b) \in Seq(Views)
  BY <1>1, PartsAre
<1>3. B = [b \in 1..Len(before) |-> q(b)]
  BY DEF BlockStarts
<1>4. Len(before) \in Nat
  BY DEF Found, Graph
<1> HIDE DEF B, q
<1>5. B \in Seq(Seq(Views)) /\ Len(B) = Len(before)
  <2>1. B \in [1..Len(before) -> Seq(Views)]
    BY <1>2, <1>3
  <2> QED  BY <1>4, <2>1, FunctionIsSeq
<1>6. AllStarts(done) \in Seq(Views)
  BY <1>5, FlattenType DEF AllStarts, B
<1>7. Loads(lib) \in Seq(Views)
  <2>1. Loaded \in Views
    BY DEF Loaded, Views
  <2>2. <<Loaded>> \in Seq(Views) /\ <<>> \in Seq(Views)
    BY <2>1, EmptySeq
  <2> QED  BY <2>2 DEF Loads
<1>8. /\ Kept(Last(before[1])) \in Views
      /\ <<Kept(Last(before[1]))>> \in Seq(Views)
  <2>1. before[1] \in Seq(Instruction) /\ before[1] # <<>>
    BY DEF Found, Graph, Entry
  <2>2. Last(before[1]) \in Instruction
    BY <2>1, LastIs
  <2>3. Last(before[1]).id \in Nat
    BY <2>2 DEF Instruction
  <2>4. <<>> \in Seq(Nat \X Nat)
    BY EmptySeq
  <2> QED  BY <2>3, <2>4, PartlyIs
<1>9. ASSUME NEW b \in 1..Len(before)
      PROVE  /\ FlattenSeq(Parts(b, done[b])) \in Seq(Views)
             /\ Hem(b, done, lib) \in Seq(Views)
             /\ Fabric(b, done, lib) \in Seq(Views)
  <2>1. FlattenSeq(Parts(b, done[b])) \in Seq(Views)
    BY <1>1, PartsAre
  <2>2. Hem(b, done, lib) \in Seq(Views)
    <3> DEFINE h == (Loads(lib) \o AllStarts(done))
                      \o <<Kept(Last(before[1]))>>
    <3>1. h \in Seq(Views)
      BY <1>6, <1>7, <1>8, ConcatProperties
    <3>2. <<>> \in Seq(Views)
      BY EmptySeq
    <3>3. Hem(b, done, lib) = IF b = 1 THEN h ELSE <<>>
      BY DEF Hem
    <3> HIDE DEF h
    <3> QED  BY <3>1, <3>2, <3>3
  <2> QED  BY <2>1, <2>2, ConcatProperties DEF Fabric
<1> QED  BY <1>1, <1>5, <1>6, <1>7, <1>8, <1>9 DEF B

(* Nothing behind instruction k of block b has been visited.               *)
Later(done, b, k) ==
  \A c \in 1..Len(before) : \A j \in 1..Len(before[c]) :
    b < c \/ (b = c /\ k < j) => done[c][j] = <<>>

(* What the next part of a visit puts before the end of the entry block    *)
(* comes last there.                                                       *)
LEMMA StartsOnward ==
  ASSUME Found, NEW done, Progress(done), NEW b \in 1..Len(before),
         NEW k \in 1..Len(before[b]), NEW v \in Nat \X Nat,
         Later(done, b, k)
  PROVE  AllStarts(Onward(done, b, k, v))
           = Cat(AllStarts(done), MadeBy(v, before[b][k], {"METHOD_START"}))
<1> DEFINE then == Onward(done, b, k, v)
           T == {"METHOD_START"}
           x == before[b][k]
           m == MadeBy(v, x, T)
           s == StartParts(b, done[b])
           t == StartParts(b, then[b])
           B == BlockStarts(done)
           C == BlockStarts(then)
<1>1. /\ Progress(then) /\ done[b][k] \in Seq(Nat \X Nat)
      /\ then[b][k] = More(done[b][k], v)
      /\ \A j \in 1..Len(before[b]) : j # k => then[b][j] = done[b][j]
      /\ \A c \in 1..Len(before) : c # b => then[c] = done[c]
  BY OnwardIs
<1> HIDE DEF then
<1>2. /\ x.id \in Nat /\ b \in Nat /\ k \in Nat
      /\ \A c \in 1..Len(before) : \A j \in 1..Len(before[c]) :
           before[c][j].id \in Nat
  BY FoundIds
<1>3. /\ m \in Seq(Views)
      /\ Made(x, then[b][k], T) = Cat(Made(x, done[b][k], T), m)
  <2>1. done[b][k] \in Seq(Nat \X Nat) /\ v \in Nat \X Nat
    BY <1>1
  <2>2. /\ MadeBy(v, x, T) \in Seq(Views)
        /\ Made(x, Append(done[b][k], v), T)
             = Made(x, done[b][k], T) \o MadeBy(v, x, T)
    BY <1>2, <2>1, MadeIs
  <2> QED  BY <1>1, <2>2 DEF Cat, More
<1>4. \A c \in 1..Len(before) :
        /\ done[c] \in Seq(Seq(Nat \X Nat)) /\ Len(done[c]) = Len(before[c])
        /\ then[c] \in Seq(Seq(Nat \X Nat)) /\ Len(then[c]) = Len(before[c])
  BY <1>1 DEF Progress
<1>5. /\ s \in Seq(Seq(Views)) /\ Len(s) = Len(before[b])
      /\ t \in Seq(Seq(Views)) /\ Len(t) = Len(before[b])
  BY <1>4, PartsAre
<1>6. /\ \A j \in 1..Len(before[b]) :
           /\ s[j] = Made(before[b][j], done[b][j], T)
           /\ t[j] = Made(before[b][j], then[b][j], T)
  BY DEF StartParts
<1>7. \A c \in 1..Len(before) : \A j \in 1..Len(before[c]) :
        Made(before[c][j], <<>>, T) = <<>>
  <2>1. <<>> \in Seq(Nat \X Nat)
    BY EmptySeq
  <2> QED  BY <1>2, <2>1, MadeIs
<1> HIDE DEF m, s, t, x, T
<1>8. FlattenSeq(t) = Cat(FlattenSeq(s), m)
  <2>1. t[k] = Cat(s[k], m) /\ k \in 1..Len(s)
    BY <1>3, <1>5, <1>6 DEF x
  <2>2. Differ(t, s, k) /\ Differ(s, t, k)
    BY <1>1, <1>5, <1>6 DEF Differ
  <2>3. EndsAt(s, k)
    <3>1. \A j \in 1..Len(before[b]) : k < j => done[b][j] = <<>>
      BY DEF Later
    <3>2. \A j \in 1..Len(before[b]) : k < j => s[j] = <<>>
      BY <1>6, <1>7, <3>1
    <3> QED  BY <1>5, <3>2 DEF EndsAt
  <2>4. s \in Seq(Seq(Views)) /\ t \in Seq(Seq(Views)) /\ m \in Seq(Views)
    BY <1>3, <1>5
  <2> QED  BY <2>1, <2>2, <2>3, <2>4, FlattenGrow
<1>9. /\ B \in Seq(Seq(Views)) /\ Len(B) = Len(before)
      /\ C \in Seq(Seq(Views)) /\ Len(C) = Len(before)
  BY <1>1, FabricType
<1>10. \A c \in 1..Len(before) :
         /\ B[c] = FlattenSeq(StartParts(c, done[c]))
         /\ C[c] = FlattenSeq(StartParts(c, then[c]))
  BY DEF BlockStarts
<1> HIDE DEF B, C
<1>11. C[b] = Cat(B[b], m) /\ b \in 1..Len(B)
  BY <1>8, <1>9, <1>10 DEF s, t
<1>12. Differ(C, B, b) /\ Differ(B, C, b)
  <2>1. \A c \in 1..Len(before) : c # b => C[c] = B[c]
    BY <1>1, <1>10
  <2> QED  BY <1>9, <2>1 DEF Differ
<1>13. EndsAt(B, b)
  <2>1. ASSUME NEW c \in 1..Len(before), b < c
        PROVE  FlattenSeq(StartParts(c, done[c])) = <<>>
    <3>1. /\ StartParts(c, done[c]) \in Seq(Seq(Views))
          /\ Len(StartParts(c, done[c])) = Len(before[c])
      BY <1>4, PartsAre
    <3>2. \A j \in 1..Len(before[c]) : StartParts(c, done[c])[j] = <<>>
      BY <1>7, <2>1 DEF StartParts, Later, T
    <3> QED  BY <3>1, <3>2, FlattenNone
  <2> QED  BY <1>9, <1>10, <2>1 DEF EndsAt
<1>14. FlattenSeq(C) = Cat(FlattenSeq(B), m)
  BY <1>3, <1>9, <1>11, <1>12, <1>13, FlattenGrow
<1> QED  BY <1>14 DEF AllStarts, B, C, m, x, T, then

(* The next part of a visit changes what surrounds its instruction.        *)
LEMMA PartsOnward ==
  ASSUME Found, NEW done, Progress(done), NEW b \in 1..Len(before),
         NEW k \in 1..Len(Body(b)), NEW v \in Nat \X Nat
  PROVE  LET then == Onward(done, b, k, v)
         IN  /\ \E l, r \in Seq(Views) :
                  /\ FlattenSeq(Parts(b, done[b]))
                       = Cat(Cat(l, Partly(before[b][k], done[b][k])), r)
                  /\ FlattenSeq(Parts(b, then[b]))
                       = Cat(Cat(l, Partly(before[b][k], then[b][k])), r)
             /\ \A c \in 1..Len(before) :
                  c # b => Parts(c, then[c]) = Parts(c, done[c])
<1> DEFINE then == Onward(done, b, k, v)
           P == Parts(b, done[b])
           Q == Parts(b, then[b])
<1>1. /\ k \in 1..Len(before[b]) /\ Body(b)[k] = before[b][k]
      /\ \A j \in 1..Len(Body(b)) : j \in 1..Len(before[b])
  BY BodyIs
<1>2. /\ Progress(then)
      /\ \A j \in 1..Len(before[b]) : j # k => then[b][j] = done[b][j]
      /\ \A c \in 1..Len(before) : c # b => then[c] = done[c]
  BY <1>1, OnwardIs
<1> HIDE DEF then
<1>3. /\ done[b] \in Seq(Seq(Nat \X Nat)) /\ Len(done[b]) = Len(before[b])
      /\ then[b] \in Seq(Seq(Nat \X Nat)) /\ Len(then[b]) = Len(before[b])
  BY <1>2 DEF Progress
<1>4. /\ P \in Seq(Seq(Views)) /\ Len(P) = Len(Body(b))
      /\ Q \in Seq(Seq(Views)) /\ Len(Q) = Len(Body(b))
  BY <1>3, PartsAre
<1>5. \A j \in 1..Len(Body(b)) : /\ P[j] = Partly(Body(b)[j], done[b][j])
                                 /\ Q[j] = Partly(Body(b)[j], then[b][j])
  BY DEF Parts
<1> HIDE DEF P, Q
<1>6. Differ(P, Q, k)
  BY <1>1, <1>2, <1>4, <1>5 DEF Differ
<1>7. \E l, r \in Seq(Views) :
        /\ FlattenSeq(P) = Cat(Cat(l, P[k]), r)
        /\ FlattenSeq(Q) = Cat(Cat(l, Q[k]), r)
        /\ EndsAt(P, k) => r = <<>>
  <2>1. k \in 1..Len(P)
    BY <1>4
  <2> QED  BY <1>4, <1>6, <2>1, FlattenAround
<1> QED  BY <1>1, <1>2, <1>5, <1>7 DEF P, Q, then

(* They come next to the instruction that is kept.                         *)
LEMMA PartlyOnward ==
  ASSUME NEW x, x.id \in Nat, NEW d \in Seq(Nat \X Nat), NEW v \in Nat \X Nat
  PROVE  LET b == Made(x, d, BeforeTypes)
             r == Reverse(Made(x, d, {"METHOD_CALL_AFTER"}))
             e == CallOf(v[1], x)
             ahead == MadeBy(v, x, BeforeTypes)
             after == MadeBy(v, x, {"METHOD_CALL_AFTER"})
             then == Partly(x, More(d, v))
         IN  /\ b \in Seq(Views) /\ r \in Seq(Views) /\ e \in Views
             /\ Partly(x, d) = Cat(Cat(b, <<Kept(x)>>), r)
             /\ ahead = <<e>> /\ after = <<>> =>
                  then = Cat(Cat(Cat(b, <<e>>), <<Kept(x)>>), r)
             /\ ahead = <<>> /\ after = <<e>> =>
                  then = Cat(Cat(b, <<Kept(x)>>), Cat(<<e>>, r))
             /\ ahead = <<>> /\ after = <<>> => then = Partly(x, d)
<1> DEFINE T == {"METHOD_CALL_AFTER"}
           b == Made(x, d, BeforeTypes)
           a == Made(x, d, T)
           r == Reverse(a)
           e == CallOf(v[1], x)
           ahead == MadeBy(v, x, BeforeTypes)
           after == MadeBy(v, x, T)
           K == <<Kept(x)>>
           then == Partly(x, More(d, v))
<1>1. /\ b \in Seq(Views) /\ a \in Seq(Views)
      /\ Made(x, Append(d, v), BeforeTypes) = b \o ahead
      /\ Made(x, Append(d, v), T) = a \o after
  BY MadeIs
<1>2. e \in Views
  BY DEF CallOf, Views
<1>3. /\ Partly(x, d) = (b \o K) \o r
      /\ then = (Made(x, Append(d, v), BeforeTypes) \o K)
                  \o Reverse(Made(x, Append(d, v), T))
  BY DEF Partly, More
<1> HIDE DEF b, a, e, ahead, after, K, then, T
<1>4. /\ r \in Seq(Views) /\ Reverse(a \o <<e>>) = <<e>> \o r
  BY <1>1, <1>2, ReverseAppend
<1>5. a \o <<>> = a /\ b \o <<>> = b
  BY <1>1, ConcatEmptySeq
<1>6. then = ((b \o ahead) \o K) \o Reverse(a \o after)
  BY <1>1, <1>3
<1> HIDE DEF r
<1>7. r = Reverse(a)
  BY DEF r
<1> QED  BY <1>1, <1>2, <1>3, <1>4, <1>5, <1>6, <1>7
         DEF Cat, b, a, e, ahead, after, K, then, T, r

(* The end of the entry block takes the calls at the start.                *)
LEMMA HemStays ==
  ASSUME Found, NEW done, Progress(done), NEW b \in 1..Len(before),
         NEW k \in 1..Len(before[b]), NEW v \in Nat \X Nat,
         Later(done, b, k), NEW lib,
         MadeBy(v, before[b][k], {"METHOD_START"}) = <<>>
  PROVE  \A c \in 1..Len(before) :
           Hem(c, Onward(done, b, k, v), lib) = Hem(c, done, lib)
<1> DEFINE then == Onward(done, b, k, v)
           A == AllStarts(done)
<1>1. AllStarts(then) = Cat(A, <<>>)
  BY StartsOnward
<1>2. A \in Seq(Views)
  BY FabricType
<1> HIDE DEF then, A
<1>3. AllStarts(then) = A
  BY <1>1, <1>2, ConcatEmptySeq DEF Cat
<1> QED  BY <1>3 DEF Hem, then, A

CallsAtStart(v, x) == MadeBy(v, x, {"METHOD_START"}) = <<CallOf(v[1], x)>>

Grows(h, e, t) ==
  \E u \in Seq(Views) : \E z \in Views : /\ h = Cat(u, <<z>>)
                                         /\ t = Cat(Cat(u, <<e>>), <<z>>)

LEMMA HemGrows ==
  ASSUME Found, NEW done, Progress(done), NEW b \in 1..Len(before),
         NEW k \in 1..Len(before[b]), NEW v \in Nat \X Nat,
         Later(done, b, k), NEW lib,
         CallsAtStart(v, before[b][k])
  PROVE  Grows(Hem(1, done, lib), CallOf(v[1], before[b][k]),
               Hem(1, Onward(done, b, k, v), lib))
<1> DEFINE then == Onward(done, b, k, v)
           z == Kept(Last(before[1]))
           A == AllStarts(done)
           L == Loads(lib)
           e == CallOf(v[1], before[b][k])
           E == <<e>>
<1>1. AllStarts(then) = Cat(A, E)
  BY StartsOnward DEF CallsAtStart
<1>2. A \in Seq(Views) /\ L \in Seq(Views) /\ z \in Views
  BY FabricType
<1>3. E \in Seq(Views)
  <2>1. before[b][k].id \in Nat
    BY BodyIs
  <2> QED  BY <2>1 DEF CallOf, Views
<1>4. /\ Hem(1, done, lib) = Cat(Cat(L, A), <<z>>)
      /\ Hem(1, then, lib) = Cat(Cat(L, AllStarts(then)), <<z>>)
  BY DEF Hem, Cat
<1> HIDE DEF z, A, L, e, E, then
<1>5. Cat(L, A) \in Seq(Views)
  BY <1>2, CatType
<1>6. Cat(L, Cat(A, E)) = Cat(Cat(L, A), E)
  BY <1>2, <1>3, CatAssociative
<1>7. Hem(1, then, lib) = Cat(Cat(Cat(L, A), E), <<z>>)
  BY <1>1, <1>4, <1>6
<1> QED  BY <1>2, <1>4, <1>5, <1>7 DEF e, E, then, Grows

(* A part of a visit that makes no calls leaves the blocks as they are.    *)
LEMMA FabricStays ==
  ASSUME Found, NEW done, Progress(done), NEW b \in 1..Len(before),
         NEW k \in 1..Len(Body(b)), NEW v \in Nat \X Nat,
         Later(done, b, k), NEW lib,
         MadeBy(v, before[b][k], {"METHOD_START"}) = <<>>,
         MadeBy(v, before[b][k], BeforeTypes) = <<>>,
         MadeBy(v, before[b][k], {"METHOD_CALL_AFTER"}) = <<>>
  PROVE  \A c \in 1..Len(before) :
           Fabric(c, Onward(done, b, k, v), lib) = Fabric(c, done, lib)
<1> DEFINE then == Onward(done, b, k, v)
           x == before[b][k]
<1>1. k \in 1..Len(before[b]) /\ x.id \in Nat
  BY BodyIs
<1>2. \A c \in 1..Len(before) : Hem(c, then, lib) = Hem(c, done, lib)
  BY <1>1, HemStays
<1>3. /\ done[b][k] \in Seq(Nat \X Nat)
      /\ then[b][k] = More(done[b][k], v)
  BY <1>1, OnwardIs
<1>4. Partly(x, More(done[b][k], v)) = Partly(x, done[b][k])
  BY <1>1, <1>3, PartlyOnward
<1>5. PICK l \in Seq(Views), r \in Seq(Views) :
        /\ FlattenSeq(Parts(b, done[b]))
             = Cat(Cat(l, Partly(x, done[b][k])), r)
        /\ FlattenSeq(Parts(b, then[b]))
             = Cat(Cat(l, Partly(x, then[b][k])), r)
  BY PartsOnward
<1>6. \A c \in 1..Len(before) :
        c # b => Parts(c, then[c]) = Parts(c, done[c])
  BY PartsOnward
<1> HIDE DEF then, x
<1>7. \A c \in 1..Len(before) :
        FlattenSeq(Parts(c, then[c])) = FlattenSeq(Parts(c, done[c]))
  BY <1>3, <1>4, <1>5, <1>6
<1> QED  BY <1>2, <1>7 DEF Fabric, then

(* One that makes a call before or after its instruction puts it there.    *)
AtKept(done, b, k, v, lib) ==
  LET then == Onward(done, b, k, v)
      e == CallOf(v[1], before[b][k])
      ahead == MadeBy(v, before[b][k], BeforeTypes)
      after == MadeBy(v, before[b][k], {"METHOD_CALL_AFTER"})
      F == Fabric(b, done, lib)
      G == Fabric(b, then, lib)
  IN  /\ (ahead = <<e>> /\ after = <<>>) \/ (ahead = <<>> /\ after = <<e>>)
         => \E p \in 1..Len(F) :
              /\ F[p] = Kept(before[b][k])
              /\ ahead = <<e>> => G = InsertAt(F, p, e)
              /\ after = <<e>> => G = InsertAt(F, p + 1, e)
      /\ \A c \in 1..Len(before) :
           c # b => Fabric(c, then, lib) = Fabric(c, done, lib)

LEMMA FabricAround ==
  ASSUME Found, NEW done, Progress(done), NEW b \in 1..Len(before),
         NEW k \in 1..Len(Body(b)), NEW v \in Nat \X Nat,
         Later(done, b, k), NEW lib,
         MadeBy(v, before[b][k], {"METHOD_START"}) = <<>>
  PROVE  AtKept(done, b, k, v, lib)
<1> DEFINE then == Onward(done, b, k, v)
           x == before[b][k]
           d == done[b][k]
           e == CallOf(v[1], x)
           ahead == MadeBy(v, x, BeforeTypes)
           after == MadeBy(v, x, {"METHOD_CALL_AFTER"})
           B == Made(x, d, BeforeTypes)
           R == Reverse(Made(x, d, {"METHOD_CALL_AFTER"}))
           K == Kept(x)
           h == Hem(b, done, lib)
           F == Fabric(b, done, lib)
           G == Fabric(b, then, lib)
<1>1. k \in 1..Len(before[b]) /\ x.id \in Nat
  BY BodyIs
<1>2. \A c \in 1..Len(before) : Hem(c, then, lib) = Hem(c, done, lib)
  BY <1>1, HemStays
<1>3. d \in Seq(Nat \X Nat) /\ then[b][k] = More(d, v)
  BY <1>1, OnwardIs
<1>4. /\ B \in Seq(Views) /\ R \in Seq(Views) /\ e \in Views
      /\ Partly(x, d) = Cat(Cat(B, <<K>>), R)
      /\ ahead = <<e>> /\ after = <<>> =>
           Partly(x, More(d, v)) = Cat(Cat(Cat(B, <<e>>), <<K>>), R)
      /\ ahead = <<>> /\ after = <<e>> =>
           Partly(x, More(d, v)) = Cat(Cat(B, <<K>>), Cat(<<e>>, R))
  <2> HIDE DEF d
  <2> QED  BY <1>1, <1>3, PartlyOnward
<1>5. K \in Views /\ h \in Seq(Views)
  BY <1>1, <1>3, PartlyIs, FabricType
<1>6. PICK l \in Seq(Views), r \in Seq(Views) :
        /\ FlattenSeq(Parts(b, done[b])) = Cat(Cat(l, Partly(x, d)), r)
        /\ FlattenSeq(Parts(b, then[b]))
             = Cat(Cat(l, Partly(x, then[b][k])), r)
  BY PartsOnward
<1>7. \A c \in 1..Len(before) :
        c # b => Parts(c, then[c]) = Parts(c, done[c])
  BY PartsOnward
<1>8. /\ F = Amid(l, Partly(x, d), r, h)
      /\ G = Amid(l, Partly(x, More(d, v)), r, h)
  <2>1. F = FlattenSeq(Parts(b, done[b])) \o Hem(b, done, lib)
    BY DEF Fabric
  <2>2. G = FlattenSeq(Parts(b, then[b])) \o Hem(b, then, lib)
    BY DEF Fabric
  <2> HIDE DEF F, G, then, d, x, h
  <2>3. /\ F = Cat(FlattenSeq(Parts(b, done[b])), h)
        /\ G = Cat(FlattenSeq(Parts(b, then[b])), h)
    BY <1>2, <2>1, <2>2 DEF Cat, h
  <2>4. /\ F = Cat(Cat(Cat(l, Partly(x, d)), r), h)
        /\ G = Cat(Cat(Cat(l, Partly(x, More(d, v))), r), h)
    BY <1>3, <1>6, <2>3
  <2> QED  BY <2>4 DEF Amid
<1>9. \A c \in 1..Len(before) :
        c # b => Fabric(c, then, lib) = Fabric(c, done, lib)
  <2> HIDE DEF then
  <2> QED  BY <1>2, <1>7 DEF Fabric
<1> HIDE DEF then, x, d, e, ahead, after, B, R, K, h, F, G
<1>10. Sides(F, K, e, Amid(l, Cat(Cat(Cat(B, <<e>>), <<K>>), R), r, h),
             Amid(l, Cat(Cat(B, <<K>>), Cat(<<e>>, R)), r, h))
  <2>1. F = Amid(l, Cat(Cat(B, <<K>>), R), r, h)
    BY <1>4, <1>8
  <2>2. B \in Seq(Views) /\ R \in Seq(Views) /\ e \in Views
    BY <1>4
  <2> QED  BY <1>5, <2>1, <2>2, InsertAround
<1>11. <<e>> # <<>>
  OBVIOUS
<1>12. ASSUME \/ ahead = <<e>> /\ after = <<>>
              \/ ahead = <<>> /\ after = <<e>>
       PROVE  \E p \in 1..Len(F) : /\ F[p] = K
                                   /\ ahead = <<e>> => G = InsertAt(F, p, e)
                                   /\ after = <<e>> =>
                                        G = InsertAt(F, p + 1, e)
  <2>1. PICK p \in 1..Len(F) :
          /\ F[p] = K
          /\ Amid(l, Cat(Cat(Cat(B, <<e>>), <<K>>), R), r, h)
               = InsertAt(F, p, e)
          /\ Amid(l, Cat(Cat(B, <<K>>), Cat(<<e>>, R)), r, h)
               = InsertAt(F, p + 1, e)
    BY <1>10 DEF Sides
  <2>2. ASSUME ahead = <<e>> PROVE G = InsertAt(F, p, e)
    <3>1. after = <<>>
      BY <1>11, <1>12, <2>2
    <3> QED  BY <1>4, <1>8, <2>1, <2>2, <3>1
  <2>3. ASSUME after = <<e>> PROVE G = InsertAt(F, p + 1, e)
    <3>1. ahead = <<>>
      BY <1>11, <1>12, <2>3
    <3> QED  BY <1>4, <1>8, <2>1, <2>3, <3>1
  <2> QED  BY <2>1, <2>2, <2>3
<1> QED  BY <1>9, <1>12 DEF then, x, e, ahead, after, K, F, G, AtKept

(* One that makes a call at the start puts it before the end of the entry  *)
(* block.                                                                  *)
AtEnd(done, then, e, lib) ==
  LET F == Fabric(1, done, lib)
  IN  /\ Fabric(1, then, lib) = InsertAt(F, Len(F), e)
      /\ \A c \in 1..Len(before) :
           c # 1 => Fabric(c, then, lib) = Fabric(c, done, lib)

LEMMA FabricStart ==
  ASSUME Found, NEW done, Progress(done), NEW b \in 1..Len(before),
         NEW k \in 1..Len(Body(b)), NEW v \in Nat \X Nat,
         Later(done, b, k), NEW lib,
         CallsAtStart(v, before[b][k]),
         MadeBy(v, before[b][k], BeforeTypes) = <<>>,
         MadeBy(v, before[b][k], {"METHOD_CALL_AFTER"}) = <<>>
  PROVE  AtEnd(done, Onward(done, b, k, v), CallOf(v[1], before[b][k]), lib)
<1> DEFINE then == Onward(done, b, k, v)
           x == before[b][k]
           e == CallOf(v[1], x)
           P == FlattenSeq(Parts(1, done[1]))
           F == Fabric(1, done, lib)
<1>1. k \in 1..Len(before[b]) /\ x.id \in Nat
  BY BodyIs
<1>14. e \in Views
  BY <1>1 DEF CallOf, Views
<1> HIDE DEF e
<1>2. PICK u \in Seq(Views), z \in Views :
        /\ Hem(1, done, lib) = Cat(u, <<z>>)
        /\ Hem(1, then, lib) = Cat(Cat(u, <<e>>), <<z>>)
  <2>1. Grows(Hem(1, done, lib), e, Hem(1, then, lib))
    BY <1>1, HemGrows DEF e
  <2> QED  BY <2>1 DEF Grows
<1>3. \A c \in 1..Len(before) :
        c # 1 => Hem(c, then, lib) = Hem(c, done, lib)
  BY DEF Hem
<1>4. /\ done[b][k] \in Seq(Nat \X Nat)
      /\ then[b][k] = More(done[b][k], v)
  BY <1>1, OnwardIs
<1>5. Partly(x, More(done[b][k], v)) = Partly(x, done[b][k])
  BY <1>1, <1>4, PartlyOnward
<1>6. PICK l \in Seq(Views), r \in Seq(Views) :
        /\ FlattenSeq(Parts(b, done[b]))
             = Cat(Cat(l, Partly(x, done[b][k])), r)
        /\ FlattenSeq(Parts(b, then[b]))
             = Cat(Cat(l, Partly(x, then[b][k])), r)
  BY PartsOnward
<1>7. \A c \in 1..Len(before) :
        c # b => Parts(c, then[c]) = Parts(c, done[c])
  BY PartsOnward
<1>8. 1 \in 1..Len(before)
  BY DEF Found, Graph, Entry
<1>9. P \in Seq(Views)
  BY <1>8, FabricType
<1> HIDE DEF then, x, F
<1>10. \A c \in 1..Len(before) :
         FlattenSeq(Parts(c, then[c])) = FlattenSeq(Parts(c, done[c]))
  BY <1>4, <1>5, <1>6, <1>7
<1>11. F = Cat(P, Cat(u, <<z>>))
       /\ Fabric(1, then, lib) = Cat(P, Cat(Cat(u, <<e>>), <<z>>))
  BY <1>2, <1>8, <1>10 DEF Fabric, Cat, F
<1> HIDE DEF P
<1>12. Cat(P, Cat(Cat(u, <<e>>), <<z>>)) = InsertAt(F, Len(F), e)
  BY <1>9, <1>11, <1>14, InsertLast
<1>13. \A c \in 1..Len(before) :
         c # 1 => Fabric(c, then, lib) = Fabric(c, done, lib)
  BY <1>3, <1>10 DEF Fabric
<1> QED  BY <1>11, <1>12, <1>13 DEF then, F, e, x, AtEnd

(* The first call loads the codelib, before it.                            *)
LEMMA FabricLoaded ==
  ASSUME Found, NEW done, Progress(done), AllStarts(done) = <<>>, NEW lib,
         lib # 0
  PROVE  LET F == Fabric(1, done, 0)
         IN  /\ Fabric(1, done, lib) = InsertAt(F, Len(F), Loaded)
             /\ \A c \in 1..Len(before) :
                  c # 1 => Fabric(c, done, lib) = Fabric(c, done, 0)
<1> DEFINE P == FlattenSeq(Parts(1, done[1]))
           F == Fabric(1, done, 0)
           z == Kept(Last(before[1]))
           none == <<>>
<1>1. 1 \in 1..Len(before)
  BY DEF Found, Graph, Entry
<1>2. P \in Seq(Views) /\ z \in Views /\ none \in Seq(Views)
  BY <1>1, FabricType
<1>3. Loaded \in Views
  BY DEF Loaded, Views
<1>4. none \o none = none /\ <<Loaded>> \o none = none \o <<Loaded>>
  BY <1>3
<1>5. /\ F = P \o ((none \o none) \o <<z>>)
      /\ Fabric(1, done, lib) = P \o ((<<Loaded>> \o none) \o <<z>>)
  BY DEF Fabric, Hem, Loads
<1>6. \A c : c # 1 => Fabric(c, done, lib) = Fabric(c, done, 0)
  BY DEF Fabric, Hem
<1> HIDE DEF P, F, z, none
<1>7. /\ F = Cat(P, Cat(none, <<z>>))
      /\ Fabric(1, done, lib) = Cat(P, Cat(Cat(none, <<Loaded>>), <<z>>))
  BY <1>4, <1>5 DEF Cat
<1>8. Cat(P, Cat(Cat(none, <<Loaded>>), <<z>>)) = InsertAt(F, Len(F), Loaded)
  BY <1>2, <1>3, <1>7, InsertLast
<1> QED  BY <1>6, <1>7, <1>8 DEF F

(* Whether the visits have made a call yet.                                *)
InjectionTypes == TargetTypes \ {"NO_INJECTION"}

Hit(done) ==
  \E b \in 1..Len(before) : \E k \in 1..Len(before[b]) :
    Made(before[b][k], done[b][k], InjectionTypes) # <<>>

(* Who makes no calls at all makes none at the start.                      *)
LEMMA MadeNone ==
  ASSUME NEW x, x.id \in Nat, NEW d \in Seq(Nat \X Nat),
         Made(x, d, InjectionTypes) = <<>>
  PROVE  Made(x, d, {"METHOD_START"}) = <<>>
<1> DEFINE S == Nat \X Nat
           T == {"METHOD_START"}
           F == Makes(x, InjectionTypes)
           G == Makes(x, T)
           P == [i \in 1..Len(d) |-> F[d[i]]]
           Q == [i \in 1..Len(d) |-> G[d[i]]]
<1>1. F \in ToSeq(S, Views) /\ G \in ToSeq(S, Views)
  BY MadeIs
<1>2. \A v \in S : F[v] = <<>> => G[v] = <<>>
  <2>1. \A v \in S : MadeBy(v, x, InjectionTypes) = <<>> =>
                       MadeBy(v, x, T) = <<>>
    <3>1. <<CallOf(1, x)>> # <<>> /\ \A i : <<CallOf(i, x)>> # <<>>
      OBVIOUS
    <3> QED  BY <3>1 DEF MadeBy, InjectionTypes, TargetTypes
  <2> QED  BY <2>1 DEF Makes
<1>3. d \in Seq(S) /\ \A i \in 1..Len(d) : d[i] \in S
  BY ElementOfSeq
<1> HIDE DEF S, F, G, T
<1>4. /\ P \in Seq(Seq(Views)) /\ Len(P) = Len(d)
      /\ Q \in Seq(Seq(Views)) /\ Len(Q) = Len(d)
  BY <1>1, <1>3, EachIs
<1>5. FlattenSeq(P) = <<>>
  BY DEF Made, Each, F
<1>6. \A i \in 1..Len(d) : P[i] = F[d[i]] /\ Q[i] = G[d[i]]
  OBVIOUS
<1>7. Made(x, d, T) = FlattenSeq(Q)
  BY DEF Made, Each, G
<1> HIDE DEF P, Q
<1>8. \A i \in 1..Len(P) : P[i] = <<>>
  BY <1>4, <1>5, FlattenNone
<1>9. \A i \in 1..Len(Q) : Q[i] = <<>>
  BY <1>2, <1>3, <1>4, <1>6, <1>8
<1>10. FlattenSeq(Q) = <<>>
  BY <1>4, <1>9, FlattenNone
<1> QED  BY <1>7, <1>10 DEF T

LEMMA NoStarts ==
  ASSUME Found, NEW done, Progress(done), ~Hit(done)
  PROVE  AllStarts(done) = <<>>
<1> DEFINE B == BlockStarts(done)
           T == {"METHOD_START"}
<1>1. B \in Seq(Seq(Views)) /\ Len(B) = Len(before)
  BY FabricType
<1>2. ASSUME NEW b \in 1..Len(before)
      PROVE  FlattenSeq(StartParts(b, done[b])) = <<>>
  <2> DEFINE s == StartParts(b, done[b])
  <2>1. done[b] \in Seq(Seq(Nat \X Nat)) /\ Len(done[b]) = Len(before[b])
    BY FabricType
  <2>2. s \in Seq(Seq(Views)) /\ Len(s) = Len(before[b])
    BY <2>1, PartsAre
  <2>3. \A k \in 1..Len(before[b]) : before[b][k].id \in Nat
    BY BodyIs
  <2>4. \A k \in 1..Len(before[b]) : done[b][k] \in Seq(Nat \X Nat)
    BY <2>1, ElementOfSeq
  <2>5. \A k \in 1..Len(before[b]) :
          Made(before[b][k], done[b][k], InjectionTypes) = <<>>
    BY DEF Hit
  <2>6. \A k \in 1..Len(before[b]) : Made(before[b][k], done[b][k], T) = <<>>
    BY <2>3, <2>4, <2>5, MadeNone
  <2>7. \A k \in 1..Len(s) : s[k] = <<>>
    BY <2>2, <2>6 DEF StartParts
  <2> HIDE DEF s
  <2>8. FlattenSeq(s) = <<>>
    BY <2>2, <2>7, FlattenNone
  <2> QED  BY <2>8 DEF s
<1>3. \A b \in 1..Len(B) : B[b] = <<>>
  BY <1>1, <1>2 DEF BlockStarts
<1> HIDE DEF B
<1>4. FlattenSeq(B) = <<>>
  BY <1>1, <1>3, FlattenNone
<1> QED  BY <1>4 DEF AllStarts, B

LEMMA HitOnward ==
  ASSUME Found, NEW done, Progress(done), NEW b \in 1..Len(before),
         NEW k \in 1..Len(before[b]), NEW v \in Nat \X Nat
  PROVE  Hit(Onward(done, b, k, v)) <=>
           Hit(done) \/ MadeBy(v, before[b][k], InjectionTypes) # <<>>
<1> DEFINE then == Onward(done, b, k, v)
           T == InjectionTypes
           x == before[b][k]
           m == MadeBy(v, x, T)
           was(c, j) == Made(before[c][j], done[c][j], T)
           is(c, j) == Made(before[c][j], then[c][j], T)
<1>1. /\ done[b][k] \in Seq(Nat \X Nat)
      /\ then[b][k] = More(done[b][k], v)
      /\ \A j \in 1..Len(before[b]) : j # k => then[b][j] = done[b][j]
      /\ \A c \in 1..Len(before) : c # b => then[c] = done[c]
  BY OnwardIs
<1>2. x.id \in Nat
  BY BodyIs
<1>3. /\ was(b, k) \in Seq(Views) /\ m \in Seq(Views)
      /\ Made(x, Append(done[b][k], v), T) = was(b, k) \o m
  BY <1>1, <1>2, MadeIs
<1>4. is(b, k) = was(b, k) \o m
  BY <1>1, <1>3 DEF More
<1>5. \A c \in 1..Len(before) : \A j \in 1..Len(before[c]) :
        c # b \/ j # k => is(c, j) = was(c, j)
  <2> HIDE DEF then
  <2> QED  BY <1>1
<1>6. /\ Hit(done) <=> \E c \in 1..Len(before) :
                         \E j \in 1..Len(before[c]) : was(c, j) # <<>>
      /\ Hit(then) <=> \E c \in 1..Len(before) :
                         \E j \in 1..Len(before[c]) : is(c, j) # <<>>
  BY DEF Hit
<1> HIDE DEF was, is, then, m, x, T
<1>7. is(b, k) = <<>> <=> was(b, k) = <<>> /\ m = <<>>
  <2>1. Len(was(b, k) \o m) = Len(was(b, k)) + Len(m)
        /\ was(b, k) \o m \in Seq(Views)
    BY <1>3, ConcatJoins DEF Joins
  <2>2. Len(was(b, k)) \in Nat /\ Len(m) \in Nat
    BY <1>3
  <2>3. \A s \in Seq(Views) : s = <<>> <=> Len(s) = 0
    BY EmptySeq
  <2>4. \A i, j \in Nat : i + j = 0 <=> i = 0 /\ j = 0
    OBVIOUS
  <2> QED  BY <1>3, <1>4, <2>1, <2>2, <2>3, <2>4
<1>8. Hit(then) <=> Hit(done) \/ m # <<>>
  BY <1>5, <1>6, <1>7
<1> QED  BY <1>8 DEF then, m, x, T

(* The instructions the pass found are in the graph, in their blocks and in*)
(* their order.                                                            *)
Steady(g) ==
  \A b \in 1..Len(before) : \A k \in 1..Len(before[b]) :
    LET x == before[b][k]
    IN  /\ x.id \in Ids(g) /\ Instr(g, x.id) = x /\ At(g, x.id)[1] = b
        /\ x.by # pass
        /\ \A m \in 1..Len(before[b]) :
             k < m => At(g, x.id)[2] < At(g, before[b][m].id)[2]

(* The visits behind the walk are done, at the instruction it is at they   *)
(* are done but for the rest, and ahead of it they are not.                *)
Reached(g, done, rest) ==
  \A b \in 1..Len(before) : \A k \in 1..Len(before[b]) :
    LET x == before[b][k]
    IN  IF x.id = cur THEN done[b][k] \o rest = Visits(x.kind)
        ELSE done[b][k] = IF Passed(g, b, At(g, x.id)[2]) THEN Visits(x.kind)
                          ELSE <<>>

LEMMA SteadyPut ==
  ASSUME NEW g, NEW f, NEW b, NEW n, NEW x, Placed(g, f, b, n, x), Found,
         Steady(g)
  PROVE  Steady(Put(g, b, n, x))
<1> DEFINE h == Put(g, b, n, x)
<1>1. \A id \in Ids(g) :
        /\ At(h, id)
             = <<At(g, id)[1], Shift(b, n, At(g, id)[1], At(g, id)[2])>>
        /\ Instr(h, id) = Instr(g, id) /\ id \in Ids(h)
  BY PutEffect
<1>2. n \in Nat /\ g \in Graph /\ Unique(g)
  BY PlacedNat
<1> HIDE DEF h
<1>3. SUFFICES ASSUME NEW c \in 1..Len(before), NEW k \in 1..Len(before[c])
               PROVE  LET y == before[c][k]
                      IN  /\ y.id \in Ids(h) /\ Instr(h, y.id) = y
                          /\ At(h, y.id)[1] = c /\ y.by # pass
                          /\ \A m \in 1..Len(before[c]) :
                               k < m => At(h, y.id)[2]
                                          < At(h, before[c][m].id)[2]
  BY DEF Steady, h
<1> DEFINE y == before[c][k]
<1>4. /\ y.id \in Ids(g) /\ Instr(g, y.id) = y
      /\ At(g, y.id)[1] = c /\ y.by # pass
  BY DEF Steady
<1>5. y.id \in Ids(h) /\ Instr(h, y.id) = y /\ At(h, y.id)[1] = c
  BY <1>1, <1>4
<1>6. ASSUME NEW m \in 1..Len(before[c]), k < m
      PROVE  At(h, y.id)[2] < At(h, before[c][m].id)[2]
  <2> DEFINE z == before[c][m]
  <2>1. /\ z.id \in Ids(g) /\ At(g, z.id)[1] = c
        /\ At(g, y.id)[2] < At(g, z.id)[2]
    BY <1>6 DEF Steady
  <2>2. At(g, y.id)[2] \in Nat /\ At(g, z.id)[2] \in Nat
    BY <1>2, <1>4, <2>1, AtType
  <2>3. Shift(b, n, c, At(g, y.id)[2]) < Shift(b, n, c, At(g, z.id)[2])
    BY <1>2, <2>1, <2>2, ShiftIs
  <2> QED  BY <1>1, <1>4, <2>1, <2>3
<1> QED  BY <1>4, <1>5, <1>6

LEMMA ReachedPut ==
  ASSUME NEW g, NEW f, NEW b, NEW n, NEW x, Placed(g, f, b, n, x), Found,
         Steady(g), Walk(g), NEW done, NEW rest, Reached(g, done, rest)
  PROVE  Reached(Put(g, b, n, x), done, rest)
<1> DEFINE h == Put(g, b, n, x)
<1>1. \A id \in Ids(g) :
        At(h, id) = <<At(g, id)[1], Shift(b, n, At(g, id)[1], At(g, id)[2])>>
  BY PutEffect
<1>2. n \in Nat /\ g \in Graph /\ Unique(g)
  BY PlacedNat
<1> HIDE DEF h
<1>3. SUFFICES ASSUME NEW c \in 1..Len(before), NEW k \in 1..Len(before[c])
               PROVE  Passed(h, c, At(h, before[c][k].id)[2])
                        <=> Passed(g, c, At(g, before[c][k].id)[2])
  BY DEF Reached, h
<1> DEFINE y == before[c][k]
           p == At(g, y.id)[2]
           q == At(g, cur)[2]
<1>4. y.id \in Ids(g) /\ At(g, y.id)[1] = c
  BY DEF Steady
<1>5. p \in Nat /\ At(h, y.id)[2] = Shift(b, n, c, p)
  BY <1>1, <1>2, <1>4, AtType
<1>6. CASE cur = 0
  BY <1>6 DEF Passed
<1>7. CASE cur # 0
  <2>1. cur \in Ids(g) /\ At(g, cur)[1] = block
    BY <1>7 DEF Walk
  <2>2. q \in Nat /\ At(h, cur)[2] = Shift(b, n, block, q)
    BY <1>1, <1>2, <2>1, AtType
  <2> HIDE DEF p, q, y
  <2>3. p < q => Shift(b, n, c, p) < Shift(b, n, c, q)
    BY <1>2, <1>5, <2>2, ShiftIs
  <2>4. Shift(b, n, c, p) < Shift(b, n, c, q) => p < q
    BY <1>2, <1>5, <2>2, ShiftBack
  <2> QED  BY <1>5, <1>7, <2>2, <2>3, <2>4 DEF Passed, p, q, y
<1> QED  BY <1>6, <1>7

(* What is seen of a block.                                                *)
LEMMA SeenType ==
  ASSUME NEW s \in Seq(Instruction)
  PROVE  /\ SeenBlock(s) \in Seq(Views) /\ Len(SeenBlock(s)) = Len(s)
         /\ \A k \in 1..Len(s) : SeenBlock(s)[k] = SeenAs(s[k])
<1>1. \A y \in Instruction : SeenAs(y) \in Views
  BY DEF Instruction, SeenAs, Kept, Views
<1>2. Len(s) \in Nat /\ DOMAIN s = 1..Len(s)
      /\ \A k \in 1..Len(s) : s[k] \in Instruction
  BY ElementOfSeq
<1>3. SeenBlock(s) = [k \in 1..Len(s) |-> SeenAs(s[k])]
  BY <1>2 DEF SeenBlock
<1>4. SeenBlock(s) \in [1..Len(s) -> Views]
  BY <1>1, <1>2, <1>3
<1> QED  BY <1>2, <1>3, <1>4, FunctionIsSeq

LEMMA SeenInsert ==
  ASSUME NEW s \in Seq(Instruction), NEW x \in Instruction,
         NEW n \in 1..(Len(s) + 1)
  PROVE  SeenBlock(InsertAt(s, n, x)) = InsertAt(SeenBlock(s), n, SeenAs(x))
<1> DEFINE t == InsertAt(s, n, x)
           u == SeenBlock(s)
           w == InsertAt(u, n, SeenAs(x))
           e == SeenAs(x)
<1>1. Inserts(t, s, n, x, Instruction)
  BY InsertAtInserts
<1>2. u \in Seq(Views) /\ Len(u) = Len(s)
      /\ \A k \in 1..Len(s) : u[k] = SeenAs(s[k])
  BY SeenType
<1>3. e \in Views
  BY DEF Instruction, SeenAs, Kept, Views
<1> HIDE DEF t, u, e
<1>4. Inserts(w, u, n, e, Views)
  <2>1. n \in 1..(Len(u) + 1)
    BY <1>2
  <2>2. w = InsertAt(u, n, e)
    BY DEF e
  <2> HIDE DEF w
  <2> QED  BY <1>2, <1>3, <2>1, <2>2, InsertAtInserts
<1>5. t \in Seq(Instruction) /\ Len(t) = Len(s) + 1
  BY <1>1 DEF Inserts
<1>6. SeenBlock(t) \in Seq(Views) /\ Len(SeenBlock(t)) = Len(t)
      /\ \A k \in 1..Len(t) : SeenBlock(t)[k] = SeenAs(t[k])
  BY <1>5, SeenType
<1> HIDE DEF w
<1>7. w \in Seq(Views) /\ Len(w) = Len(s) + 1
  BY <1>2, <1>4 DEF Inserts
<1>8. ASSUME NEW k \in 1..Len(t) PROVE SeenBlock(t)[k] = w[k]
  <2>1. /\ t[k] = IF k < n THEN s[k] ELSE IF k = n THEN x ELSE s[k - 1]
        /\ w[k] = IF k < n THEN u[k] ELSE IF k = n THEN e ELSE u[k - 1]
    BY <1>1, <1>2, <1>4, <1>5 DEF Inserts
  <2>2. PICK m \in Nat : m = Len(s)
    BY LenProperties
  <2>3. k \in 1..(m + 1) /\ n \in 1..(m + 1)
    BY <1>5, <2>2
  <2>4. /\ k < n => k \in 1..m
        /\ ~ (k < n) /\ k # n => k - 1 \in 1..m
    BY <2>3
  <2> QED  BY <1>2, <1>6, <2>1, <2>2, <2>4 DEF e
<1>9. SeenBlock(t) = w
  BY <1>5, <1>6, <1>7, <1>8, SeqEqual
<1> QED  BY <1>9 DEF t, w, u, e

(* Where an instruction is seen, it is.                                    *)
LEMMA SeenPlace ==
  ASSUME NEW g \in Graph, Unique(g), NEW b \in DOMAIN g, NEW x,
         x.id \in Nat \ {0}, NEW p \in 1..Len(SeenBlock(g[b])),
         SeenBlock(g[b])[p] = Kept(x)
  PROVE  At(g, x.id) = <<b, p>>
<1>1. g[b] \in Seq(Instruction)
  BY ElementOfSeq DEF Graph
<1>2. p \in DOMAIN g[b] /\ SeenAs(g[b][p]) = Kept(x)
  BY <1>1, SeenType
<1>3. SeenAs(g[b][p]).id = x.id
  BY <1>2 DEF Kept
<1>4. g[b][p].by # pass
  BY <1>3 DEF SeenAs
<1>5. g[b][p].id = x.id
  BY <1>3, <1>4 DEF SeenAs, Kept
<1> QED  BY <1>2, <1>5, AtIs

WovenTo(g, done, lib) ==
  \A b \in 1..Len(before) : SeenBlock(g[b]) = Fabric(b, done, lib)

(* The graph is woven as far as done says, and the rest is still to come.  *)
Sewn(g, lib, done, rest) ==
  /\ Progress(done)
  /\ Reached(g, done, rest)
  /\ WovenTo(g, done, lib)
  /\ lib # 0 <=> Hit(done)

WeaveInv ==
  pc \in {"visit", "fix"} =>
    /\ table = [k \in VisitorKeys |-> TableEntry(Policy, k)]
    /\ Found
    /\ Steady(graph)
    /\ ~MayMeetItself => \E done : Sewn(graph, codelib, done, todo)

(* None of this but the walk itself depends on what a step changes.        *)
LEMMA WeaveStill ==
  ASSUME UNCHANGED <<input, pass, before>>
  PROVE  \A done :
           /\ Progress(done)' <=> Progress(done)
           /\ Hit(done)' <=> Hit(done)
           /\ \A b, lib : Fabric(b, done, lib)' = Fabric(b, done, lib)
           /\ \A blk : SeenBlock(blk)' = SeenBlock(blk)
<1>1. \A v, x, types : MadeBy(v, x, types)' = MadeBy(v, x, types)
  BY DEF MadeBy, Policy, NamedBy, CallOf
<1>2. \A x, d, types : Made(x, d, types)' = Made(x, d, types)
  <2>1. \A x, types : Makes(x, types)' = Makes(x, types)
    BY <1>1 DEF Makes
  <2> QED  BY <2>1 DEF Made
<1>3. \A x, d : Partly(x, d)' = Partly(x, d)
  BY <1>2 DEF Partly, Kept, Reverse
<1>4. \A b : Body(b)' = Body(b)
  BY DEF Body, Front
<1>5. \A b, ds : /\ Parts(b, ds)' = Parts(b, ds)
                 /\ StartParts(b, ds)' = StartParts(b, ds)
  BY <1>2, <1>3, <1>4 DEF Parts, StartParts
<1>6. \A done : AllStarts(done)' = AllStarts(done)
  BY <1>5 DEF AllStarts, BlockStarts
<1>7. \A b, done, lib : Hem(b, done, lib)' = Hem(b, done, lib)
  BY <1>6 DEF Hem, Loads, Loaded, Kept, Last
<1>8. \A b, done, lib : Fabric(b, done, lib)' = Fabric(b, done, lib)
  BY <1>5, <1>7 DEF Fabric
<1>9. \A blk : SeenBlock(blk)' = SeenBlock(blk)
  BY DEF SeenBlock, SeenAs, Kept
<1>10. \A done : (Progress(done)' <=> Progress(done))
                 /\ (Hit(done)' <=> Hit(done))
  BY <1>2 DEF Progress, Hit
<1> QED  BY <1>8, <1>9, <1>10

(* What the walk visits is an instruction that the pass found.             *)
LEMMA VisitedIs ==
  ASSUME PassInv, VerdictInv, NeverVisitsOwnCalls, pc = "visit", todo # <<>>,
         ~MayMeetItself, Found, Steady(graph)
  PROVE  /\ block \in 1..Len(before)
         /\ \E k \in 1..Len(Body(block)) :
              /\ k \in 1..Len(before[block])
              /\ before[block][k] = Instr(graph, cur)
              /\ before[block][k].id = cur
<1>1. /\ Walk(graph) /\ graph \in Graph /\ Unique(graph) /\ Control
  BY DEF PassInv, GraphInv, Sound
<1>2. cur # 0 /\ 1 \in DOMAIN todo
  BY <1>1 DEF Control
<1>3. /\ cur \in Ids(graph) /\ At(graph, cur)[1] = block
      /\ Instr(graph, cur).kind \in VisitorKeys
  BY <1>1, <1>2 DEF Walk, Registered
<1>4. PICK b \in DOMAIN graph : \E k \in DOMAIN graph[b] :
        graph[b][k].id = cur /\ Instr(graph, cur) = graph[b][k]
  BY <1>1, <1>3, AtIn
<1>5. PICK k \in DOMAIN graph[b] :
        graph[b][k].id = cur /\ Instr(graph, cur) = graph[b][k]
  BY <1>4
<1>6. Instr(graph, cur).by # pass
  BY <1>2, <1>3 DEF NeverVisitsOwnCalls, VisitsOwnCall
<1>7. PICK c \in DOMAIN before : \E m \in DOMAIN before[c] :
        before[c][m] = graph[b][k]
  BY <1>5, <1>6 DEF VerdictInv, Foreign
<1>8. PICK m \in DOMAIN before[c] : before[c][m] = graph[b][k]
  BY <1>7
<1>9. c \in 1..Len(before) /\ before[c] \in Seq(Instruction)
  BY DEF Found, Graph
<1>10. m \in 1..Len(before[c]) /\ m \in 1..Len(Body(c))
  BY <1>3, <1>5, <1>8, <1>9, BodyIs
<1>11. c = block
  BY <1>3, <1>5, <1>8, <1>9, <1>10 DEF Steady
<1> QED  BY <1>5, <1>8, <1>9, <1>10, <1>11

LEMMA FoundOnce ==
  ASSUME Found, NEW b \in 1..Len(before), NEW k \in 1..Len(before[b]),
         NEW c \in 1..Len(before), NEW j \in 1..Len(before[c]),
         c # b \/ j # k
  PROVE  before[c][j].id # before[b][k].id
<1>1. /\ DOMAIN before = 1..Len(before) /\ DOMAIN before[b] = 1..Len(before[b])
      /\ DOMAIN before[c] = 1..Len(before[c])
  BY BodyIs
<1> QED  BY <1>1 DEF Found, Unique

(* Nothing behind it has been visited.                                     *)
LEMMA NothingLater ==
  ASSUME NEW g \in Graph, Unique(g), Found, Steady(g), NEW done, NEW rest,
         Reached(g, done, rest), block \in 1..Len(before),
         NEW k \in 1..Len(before[block]), before[block][k].id = cur
  PROVE  Later(done, block, k)
<1> SUFFICES ASSUME NEW c \in 1..Len(before), NEW j \in 1..Len(before[c]),
                    block < c \/ (block = c /\ k < j)
             PROVE  done[c][j] = <<>>
  BY DEF Later
<1> DEFINE x == before[block][k]
           y == before[c][j]
<1>1. cur \in Nat \ {0} /\ block \in Nat /\ c \in Nat /\ k \in Nat
      /\ j \in Nat
  BY BodyIs
<1>2. y.id # cur
  <2>1. c # block \/ j # k
    BY <1>1
  <2> QED  BY <2>1, FoundOnce
<1>3. y.id \in Ids(g) /\ cur \in Ids(g) /\ At(g, cur)[1] = block
      /\ At(g, y.id)[1] = c
  BY DEF Steady
<1>4. At(g, y.id)[2] \in Nat /\ At(g, cur)[2] \in Nat
  BY <1>3, AtType
<1>5. block = c => At(g, cur)[2] < At(g, y.id)[2]
  BY DEF Steady
<1>6. ~Passed(g, c, At(g, y.id)[2])
  <2> HIDE DEF y
  <2> QED  BY <1>1, <1>4, <1>5 DEF Passed
<1> QED  BY <1>2, <1>6 DEF Reached

(* The walk has come a target further.                                     *)
LEMMA ReachedOnward ==
  ASSUME NEW g, Found, NEW done, Progress(done), Reached(g, done, todo),
         todo \in Seq(Nat \X Nat), todo # <<>>, NEW b \in 1..Len(before),
         NEW k \in 1..Len(before[b]), before[b][k].id = cur
  PROVE  Reached(g, Onward(done, b, k, Head(todo)), Tail(todo))
<1> DEFINE v == Head(todo)
           then == Onward(done, b, k, v)
           S == Nat \X Nat
<1>10. v \in Nat \X Nat /\ Tail(todo) \in Seq(Nat \X Nat)
       /\ todo = <<v>> \o Tail(todo)
  OBVIOUS
<1> HIDE DEF v
<1>20. /\ done[b][k] \in Seq(Nat \X Nat)
       /\ then[b][k] = More(done[b][k], v)
       /\ \A j \in 1..Len(before[b]) : j # k => then[b][j] = done[b][j]
       /\ \A c \in 1..Len(before) : c # b => then[c] = done[c]
  BY <1>10, OnwardIs
<1> HIDE DEF then
<1>1. v \in S /\ Tail(todo) \in Seq(S) /\ todo = <<v>> \o Tail(todo)
  BY <1>10
<1>2. /\ done[b][k] \in Seq(S)
      /\ then[b][k] = More(done[b][k], v)
      /\ \A j \in 1..Len(before[b]) : j # k => then[b][j] = done[b][j]
      /\ \A c \in 1..Len(before) : c # b => then[c] = done[c]
  BY <1>20
<1>3. done[b][k] \o todo = Visits(before[b][k].kind)
  BY DEF Reached
<1> HIDE DEF S
<1>4. then[b][k] \o Tail(todo) = done[b][k] \o todo
  <2> DEFINE d == done[b][k]
             u == Tail(todo)
             e == <<v>>
  <2>1. More(d, v) = Cat(d, e)
    BY <1>1, <1>2, AppendIsConcat DEF More, Cat
  <2>2. e \in Seq(S)
    BY <1>1
  <2>3. d \in Seq(S) /\ u \in Seq(S) /\ todo = Cat(e, u)
    BY <1>1, <1>2 DEF Cat
  <2> HIDE DEF d, u, e
  <2>4. Cat(Cat(d, e), u) = Cat(d, Cat(e, u))
    BY <2>2, <2>3, CatAssociative
  <2> QED  BY <1>2, <2>1, <2>3, <2>4 DEF Cat, d, u
<1>5. ASSUME NEW c \in 1..Len(before), NEW j \in 1..Len(before[c]),
             c # b \/ j # k
      PROVE  before[c][j].id # cur /\ then[c][j] = done[c][j]
  <2>1. before[c][j].id # cur
    BY <1>5, FoundOnce
  <2> QED  BY <1>2, <1>5, <2>1
<1>6. Reached(g, then, Tail(todo))
  <2> SUFFICES ASSUME NEW c \in 1..Len(before), NEW j \in 1..Len(before[c])
               PROVE  LET x == before[c][j]
                      IN  IF x.id = cur
                          THEN then[c][j] \o Tail(todo) = Visits(x.kind)
                          ELSE then[c][j] =
                                 IF Passed(g, c, At(g, x.id)[2])
                                 THEN Visits(x.kind) ELSE <<>>
    BY DEF Reached
  <2>1. CASE c = b /\ j = k
    BY <1>3, <1>4, <2>1
  <2>2. CASE c # b \/ j # k
    <3>1. before[c][j].id # cur /\ then[c][j] = done[c][j]
      BY <1>5, <2>2
    <3>2. before[c][j].id # cur =>
            done[c][j] = IF Passed(g, c, At(g, before[c][j].id)[2])
                         THEN Visits(before[c][j].kind) ELSE <<>>
      BY DEF Reached
    <3> QED  BY <3>1, <3>2
  <2> QED  BY <2>1, <2>2
<1> QED  BY <1>6 DEF then, v

(* The target the walk looks at.                                           *)
LEMMA TargetOf ==
  ASSUME PassInv, pc = "visit", todo # <<>>
  PROVE  /\ Head(todo) \in Nat \X Nat /\ todo \in Seq(Nat \X Nat)
         /\ Policy[Head(todo)[1]].targets[Head(todo)[2]].type \in TargetTypes
         /\ input \in Inputs /\ pass \in DOMAIN input.policies
<1>1. /\ todo \in Seq(Nat \X Nat) /\ input \in Inputs
      /\ pass \in DOMAIN input.policies /\ cur # 0
  BY DEF PassInv, Control
<1>2. 1 \in DOMAIN todo /\ Head(todo) = todo[1] /\ Head(todo) \in Nat \X Nat
  BY <1>1
<1> DEFINE i == Head(todo)[1]
           n == Head(todo)[2]
<1>3. i \in DOMAIN Policy /\ n \in DOMAIN Policy[i].targets
  BY <1>1, <1>2 DEF PassInv, GraphInv, Walk, Registered
<1> HIDE DEF i, n
<1>4. Policy[i].targets \in Seq(Target)
  BY <1>1, <1>3, InputIs
<1>5. Policy[i].targets[n] \in Target
  BY <1>3, <1>4
<1>6. Policy[i].targets[n].type \in TargetTypes
  BY <1>5 DEF Target
<1> QED  BY <1>1, <1>2, <1>6 DEF i, n

(* What a step of a visit has to show.                                     *)
LEMMA WeaveTogether ==
  ASSUME WeaveInv, pc \in {"visit", "fix"}, pc' \in {"visit", "fix"},
         UNCHANGED <<input, pass, before, table>>, Len(graph') = Len(graph),
         Steady(graph'),
         ~MayMeetItself =>
           \E done : /\ Progress(done)
                     /\ \A b \in 1..Len(before) :
                          SeenBlock(graph'[b]) = Fabric(b, done, codelib')
                     /\ codelib' # 0 <=> Hit(done)
                     /\ Reached(graph, done, todo)'
  PROVE  WeaveInv'
<1>1. Found /\ table = [k \in VisitorKeys |-> TableEntry(Policy, k)]
  BY DEF WeaveInv
<1>2. Found' /\ (table = [k \in VisitorKeys |-> TableEntry(Policy, k)])'
  BY <1>1 DEF Found, Entry, Policy
<1>3. Steady(graph)'
  BY DEF Steady
<1>4. MayMeetItself' = MayMeetItself
  BY MayMeetItselfStill
<1>5. ASSUME ~MayMeetItself
      PROVE  \E done : Sewn(graph, codelib, done, todo)'
  <2>1. PICK done : /\ Progress(done)
                    /\ \A b \in 1..Len(before) :
                         SeenBlock(graph'[b]) = Fabric(b, done, codelib')
                    /\ codelib' # 0 <=> Hit(done)
                    /\ Reached(graph, done, todo)'
    BY <1>5
  <2>2. /\ Progress(done)' <=> Progress(done)
        /\ Hit(done)' <=> Hit(done)
        /\ \A b, lib : Fabric(b, done, lib)' = Fabric(b, done, lib)
        /\ \A blk : SeenBlock(blk)' = SeenBlock(blk)
    BY WeaveStill
  <2>3. \A b \in 1..Len(before) :
          SeenBlock(graph[b])' = Fabric(b, done, codelib)'
    <3>1. ASSUME NEW b \in 1..Len(before)
          PROVE  SeenBlock(graph[b])' = Fabric(b, done, codelib)'
      <4>1. SeenBlock(graph[b])' = SeenBlock(graph'[b])
        BY DEF SeenBlock, SeenAs, Kept
      <4>2. Fabric(b, done, codelib)' = Fabric(b, done, codelib')
        BY <2>2
      <4> QED  BY <2>1, <4>1, <4>2
    <3> QED  BY <3>1
  <2>4. Sewn(graph, codelib, done, todo)'
    BY <2>1, <2>2, <2>3 DEF Sewn, WovenTo
  <2> QED  BY <2>4
<1> QED  BY <1>2, <1>3, <1>4, <1>5 DEF WeaveInv

(* Where the walk is depends on the walk alone.                            *)
LEMMA ReachedStill ==
  ASSUME UNCHANGED <<input, pass, before, table, cur, block>>,
         NEW done, Reached(graph', done, todo')
  PROVE  Reached(graph, done, todo)'
<1>1. \A kind : Visits(kind)' = Visits(kind)
  BY DEF Visits, Policy
<1>2. \A b, id : Passed(graph, b, At(graph, id)[2])'
                  <=> Passed(graph', b, At(graph', id)[2])
  BY DEF Passed, At
<1> DEFINE Fits(d, x, visits, passed) ==
             IF x.id = cur THEN d \o todo' = visits
             ELSE d = IF passed THEN visits ELSE <<>>
<1>3. \A b \in 1..Len(before) : \A k \in 1..Len(before[b]) :
        Fits(done[b][k], before[b][k], Visits(before[b][k].kind),
             Passed(graph', b, At(graph', before[b][k].id)[2]))
  BY DEF Reached
<1>4. \A b \in 1..Len(before) : \A k \in 1..Len(before[b]) :
        Fits(done[b][k], before[b][k], Visits(before[b][k].kind)',
             Passed(graph, b, At(graph, before[b][k].id)[2])')
  BY <1>1, <1>2, <1>3
<1> QED  BY <1>4 DEF Reached

LEMMA PassOverWeave ==
  ASSUME PassInv, VerdictInv, NeverVisitsOwnCalls, WeaveInv, PassOver
  PROVE  WeaveInv'
<1> DEFINE v == Head(todo)
           t == Policy[v[1]].targets[v[2]]
<1>1. /\ pc = "visit" /\ todo # <<>> /\ todo' = Tail(todo)
      /\ t.type = "NO_INJECTION" \/ ~Matches(t, Instr(graph, cur))
      /\ UNCHANGED <<input, graph, pass, pc, table, codelib, block, cur,
                     before>>
  BY DEF PassOver
<1>2. Found /\ Steady(graph) /\ graph \in Graph /\ Unique(graph)
  BY <1>1 DEF WeaveInv, PassInv, GraphInv, Sound
<1>3. ASSUME ~MayMeetItself
      PROVE  \E done : /\ Progress(done)
                       /\ \A b \in 1..Len(before) :
                            SeenBlock(graph'[b]) = Fabric(b, done, codelib')
                       /\ codelib' # 0 <=> Hit(done)
                       /\ Reached(graph, done, todo)'
  <2>1. PICK done : Sewn(graph, codelib, done, todo)
    BY <1>1, <1>3 DEF WeaveInv
  <2>2. block \in 1..Len(before)
    BY <1>1, <1>2, <1>3, VisitedIs
  <2>3. PICK k \in 1..Len(Body(block)) :
          /\ k \in 1..Len(before[block])
          /\ before[block][k] = Instr(graph, cur)
          /\ before[block][k].id = cur
    BY <1>1, <1>2, <1>3, VisitedIs
  <2>4. /\ v \in Nat \X Nat /\ todo \in Seq(Nat \X Nat)
        /\ t.type \in TargetTypes
    BY <1>1, TargetOf
  <2> DEFINE x == before[block][k]
             then == Onward(done, block, k, v)
  <2>5. /\ Progress(done) /\ Reached(graph, done, todo)
        /\ \A b \in 1..Len(before) :
             SeenBlock(graph[b]) = Fabric(b, done, codelib)
        /\ codelib # 0 <=> Hit(done)
    BY <2>1 DEF Sewn, WovenTo
  <2> HIDE DEF v
  <2>6. t.type = "NO_INJECTION" \/ ~NamedBy(t, x)
    BY <1>1, <2>3, <2>4, TargetMeans
  <2>7. /\ MadeBy(v, x, {"METHOD_START"}) = <<>>
        /\ MadeBy(v, x, BeforeTypes) = <<>>
        /\ MadeBy(v, x, {"METHOD_CALL_AFTER"}) = <<>>
        /\ MadeBy(v, x, InjectionTypes) = <<>>
    BY <2>6 DEF MadeBy, BeforeTypes, InjectionTypes
  <2>8. Later(done, block, k)
    BY <1>2, <2>2, <2>3, <2>5, NothingLater
  <2>9. \A c \in 1..Len(before) :
          Fabric(c, then, codelib) = Fabric(c, done, codelib)
    BY <1>2, <2>2, <2>4, <2>5, <2>7, <2>8, FabricStays
  <2>10. Progress(then)
    BY <1>2, <2>2, <2>3, <2>4, <2>5, OnwardIs
  <2>11. Hit(then) <=> Hit(done)
    BY <1>2, <2>2, <2>3, <2>4, <2>5, <2>7, HitOnward
  <2>12. Reached(graph, then, Tail(todo))
    BY <1>1, <1>2, <2>2, <2>3, <2>4, <2>5, ReachedOnward DEF v
  <2> HIDE DEF then
  <2>13. PICK d : d = then
    OBVIOUS
  <2>14. Reached(graph', d, todo')
    BY <1>1, <2>12, <2>13
  <2>15. Reached(graph, d, todo)'
    BY <1>1, <2>14, ReachedStill
  <2>16. /\ Progress(d) /\ (codelib # 0 <=> Hit(d))
         /\ \A b \in 1..Len(before) :
              SeenBlock(graph[b]) = Fabric(b, d, codelib)
    BY <2>5, <2>9, <2>10, <2>11, <2>13
  <2> QED  BY <1>1, <2>15, <2>16
<1>4. Steady(graph')
  BY <1>1, <1>2
<1> QED  BY <1>1, <1>3, <1>4, WeaveTogether

(* The places at which Inject inserts, as they are seen.                   *)
LEMMA LoadingWeave ==
  ASSUME NEW g, NEW f, NEW x, NEW h, Loading(g, f, x, h), Found,
         Len(g) = Len(before), Steady(g), NEW done, Progress(done), NEW rest,
         Reached(g, done, rest), ~Hit(done),
         WovenTo(g, done, 0), NEW lib, lib # 0
  PROVE  /\ Steady(h) /\ Reached(h, done, rest) /\ Len(h) = Len(before)
         /\ WovenTo(h, done, lib)
<1> DEFINE n == Len(g[1])
<1>1. /\ Placed(g, f, 1, n, x) /\ Walk(g) /\ x.by = pass /\ x.inj = 0
      /\ x.anchor = 0 /\ h = Put(g, 1, n, x)
  BY DEF Loading, InsertedAs
<1>2. /\ g \in Graph /\ x \in Instruction /\ 1 \in DOMAIN g
      /\ n \in 1..(Len(g[1]) + 1)
  BY <1>1 DEF Placed, Sound
<1>3. /\ Len(h) = Len(g) /\ h[1] = InsertAt(g[1], n, x)
      /\ \A c \in DOMAIN g : c # 1 => h[c] = g[c]
  BY <1>1, <1>2, PutIs
<1>4. Steady(h)
  BY <1>1, SteadyPut
<1>5. Reached(h, done, rest)
  BY <1>1, ReachedPut
<1>6. g[1] \in Seq(Instruction) /\ DOMAIN g = 1..Len(before)
  BY <1>2 DEF Graph
<1>7. SeenAs(x) = Loaded
  BY <1>1 DEF SeenAs, Loaded
<1>8. n = Len(SeenBlock(g[1]))
  BY <1>6, SeenType
<1>9. SeenBlock(h[1]) = InsertAt(SeenBlock(g[1]), n, Loaded)
  BY <1>2, <1>3, <1>6, <1>7, SeenInsert
<1>10. AllStarts(done) = <<>>
  BY NoStarts
<1> DEFINE F == Fabric(1, done, 0)
<1>11. /\ Fabric(1, done, lib) = InsertAt(F, Len(F), Loaded)
       /\ \A c \in 1..Len(before) :
            c # 1 => Fabric(c, done, lib) = Fabric(c, done, 0)
  BY <1>10, FabricLoaded
<1> QED  BY <1>2, <1>3, <1>4, <1>5, <1>6, <1>8, <1>9, <1>11 DEF WovenTo

(* What is inserted is seen where it is.                                   *)
Shown(g, b, n, e, h) ==
  /\ Len(h) = Len(before) /\ b \in 1..Len(before)
  /\ SeenBlock(h[b]) = InsertAt(SeenBlock(g[b]), n, e)
  /\ \A c \in 1..Len(before) : c # b => SeenBlock(h[c]) = SeenBlock(g[c])
  /\ Len(g[b]) = Len(SeenBlock(g[b]))

LEMMA SeenPut ==
  ASSUME NEW g, NEW f, NEW b, NEW n, NEW y, NEW h,
         InsertedAs(g, f, b, n, y, h), Found, Len(g) = Len(before)
  PROVE  Shown(g, b, n, [id |-> 0, inj |-> y.inj, anchor |-> y.anchor], h)
<1>1. /\ Placed(g, f, b, n, y) /\ y.by = pass /\ h = Put(g, b, n, y)
  BY DEF InsertedAs
<1>2. /\ g \in Graph /\ y \in Instruction /\ b \in DOMAIN g
      /\ n \in 1..(Len(g[b]) + 1)
  BY <1>1 DEF Placed, Sound
<1>3. /\ Len(h) = Len(g) /\ h[b] = InsertAt(g[b], n, y)
      /\ \A c \in DOMAIN g : c # b => h[c] = g[c]
  BY <1>1, <1>2, PutIs
<1>4. g[b] \in Seq(Instruction) /\ DOMAIN g = 1..Len(before)
  BY <1>2 DEF Graph
<1>5. SeenAs(y) = [id |-> 0, inj |-> y.inj, anchor |-> y.anchor]
  BY <1>1 DEF SeenAs
<1>6. SeenBlock(h[b]) = InsertAt(SeenBlock(g[b]), n, SeenAs(y))
  BY <1>2, <1>3, <1>4, SeenInsert
<1>7. Len(g[b]) = Len(SeenBlock(g[b]))
  BY <1>4, SeenType
<1> QED  BY <1>2, <1>3, <1>4, <1>5, <1>6, <1>7 DEF Shown

(* A target of a visit is one that a call is due for.                      *)
Due(v, x) ==
  LET t == Policy[v[1]].targets[v[2]]
  IN  t.type \in InjectionTypes /\ NamedBy(t, x)

(* The blocks are woven on as the call is inserted.                        *)
LEMMA CallingSeen ==
  ASSUME NEW g, NEW f, NEW y, NEW h, Calling(g, f, y, h), Found,
         Len(g) = Len(before), NEW done, Progress(done),
         Head(todo) \in Nat \X Nat, block \in 1..Len(before),
         NEW k \in 1..Len(Body(block)), before[block][k].id = cur,
         Later(done, block, k), NEW lib, WovenTo(g, done, lib),
         Due(Head(todo), before[block][k])
  PROVE  WovenTo(h, Onward(done, block, k, Head(todo)), lib)
<1> DEFINE v == Head(todo)
           t == Policy[v[1]].targets[v[2]]
           x == before[block][k]
           e == CallOf(v[1], x)
           then == Onward(done, block, k, v)
           b == Where(g, t.type)[1]
           n == Where(g, t.type)[2]
           start == MadeBy(v, x, {"METHOD_START"})
           ahead == MadeBy(v, x, BeforeTypes)
           after == MadeBy(v, x, {"METHOD_CALL_AFTER"})
<1>1. /\ InsertedAs(g, f, b, n, y, h) /\ y.inj = v[1] /\ y.anchor = cur
  BY DEF Calling
<1>2. t.type \in InjectionTypes /\ NamedBy(t, x)
  BY DEF Due
<1>3. /\ t.type = "METHOD_START" =>
           start = <<e>> /\ ahead = <<>> /\ after = <<>>
      /\ t.type = "METHOD_CALL_AFTER" =>
           start = <<>> /\ ahead = <<>> /\ after = <<e>>
      /\ t.type \in BeforeTypes =>
           start = <<>> /\ ahead = <<e>> /\ after = <<>>
  BY <1>2 DEF MadeBy, BeforeTypes
<1>4. g \in Graph /\ Unique(g)
  BY <1>1 DEF InsertedAs, Placed, Sound
<1>5. x.id \in Nat \ {0} /\ k \in 1..Len(before[block])
  BY BodyIs
<1>6. e = [id |-> 0, inj |-> y.inj, anchor |-> y.anchor]
  BY <1>1 DEF CallOf
<1>7. v \in Nat \X Nat
  OBVIOUS
<1> HIDE DEF t, x, e, start, ahead, after, b, n, v, then
<1>8. /\ b \in 1..Len(before)
      /\ SeenBlock(h[b]) = InsertAt(SeenBlock(g[b]), n, e)
      /\ \A c \in 1..Len(before) :
           c # b => SeenBlock(h[c]) = SeenBlock(g[c])
      /\ Len(g[b]) = Len(SeenBlock(g[b]))
  <2>1. Shown(g, b, n, [id |-> 0, inj |-> y.inj, anchor |-> y.anchor], h)
    BY <1>1, SeenPut
  <2> QED  BY <1>6, <2>1 DEF Shown
<1>9. CASE t.type = "METHOD_START"
  <2>1. b = 1 /\ n = Len(g[1])
    BY <1>9 DEF Where, b, n
  <2>2. CallsAtStart(v, x) /\ ahead = <<>> /\ after = <<>>
    BY <1>3, <1>9 DEF CallsAtStart, start, e
  <2>3. /\ Fabric(1, then, lib)
             = InsertAt(Fabric(1, done, lib), Len(Fabric(1, done, lib)), e)
        /\ \A c \in 1..Len(before) :
             c # 1 => Fabric(c, then, lib) = Fabric(c, done, lib)
    <3>1. AtEnd(done, Onward(done, block, k, v), CallOf(v[1], x), lib)
      BY <1>7, <2>2, FabricStart DEF x, ahead, after
    <3> QED  BY <3>1 DEF AtEnd, e, then
  <2> QED  BY <1>8, <2>1, <2>3 DEF then, v, WovenTo
<1>10. CASE t.type \in BeforeTypes \cup {"METHOD_CALL_AFTER"}
  <2> DEFINE F == Fabric(block, done, lib)
             G == Fabric(block, then, lib)
  <2>1. start = <<>>
        /\ \/ ahead = <<e>> /\ after = <<>>
           \/ ahead = <<>> /\ after = <<e>>
    BY <1>3, <1>10
  <2>2. /\ \E p \in 1..Len(F) : /\ F[p] = Kept(x)
                                /\ ahead = <<e>> => G = InsertAt(F, p, e)
                                /\ after = <<e>> => G = InsertAt(F, p + 1, e)
        /\ \A c \in 1..Len(before) :
             c # block => Fabric(c, then, lib) = Fabric(c, done, lib)
    <3>1. AtKept(done, block, k, v, lib)
      BY <1>7, <2>1, FabricAround DEF x, start
    <3>2. (ahead = <<e>> /\ after = <<>>) \/ (ahead = <<>> /\ after = <<e>>)
            => \E p \in 1..Len(F) :
                 /\ F[p] = Kept(x)
                 /\ ahead = <<e>> => G = InsertAt(F, p, e)
                 /\ after = <<e>> => G = InsertAt(F, p + 1, e)
      BY <3>1, Zenon DEF AtKept, x, e, ahead, after, then
    <3>3. \A c \in 1..Len(before) :
            c # block => Fabric(c, then, lib) = Fabric(c, done, lib)
      BY <3>1 DEF AtKept, then
    <3> HIDE DEF F, G
    <3>4. \E p \in 1..Len(F) : /\ F[p] = Kept(x)
                               /\ ahead = <<e>> => G = InsertAt(F, p, e)
                               /\ after = <<e>> => G = InsertAt(F, p + 1, e)
      BY <2>1, <3>2
    <3> QED  BY <3>3, <3>4, Zenon DEF F, G
  <2>3. PICK p \in 1..Len(F) : /\ F[p] = Kept(x)
                               /\ ahead = <<e>> => G = InsertAt(F, p, e)
                               /\ after = <<e>> => G = InsertAt(F, p + 1, e)
    BY <2>2
  <2>4. F = SeenBlock(g[block]) /\ block \in DOMAIN g
    BY <1>4 DEF Graph, WovenTo
  <2> HIDE DEF F, G
  <2>5. At(g, x.id) = <<block, p>>
    <3>1. p \in 1..Len(SeenBlock(g[block]))
          /\ SeenBlock(g[block])[p] = Kept(x)
      BY <2>3, <2>4
    <3>2. block \in DOMAIN g
      BY <2>4
    <3> QED  BY <1>4, <1>5, <3>1, <3>2, SeenPlace
  <2>6. At(g, cur)[1] = block /\ At(g, cur)[2] = p
        /\ At(g, cur) = <<block, p>>
    BY <2>5 DEF x
  <2>7. b = block
        /\ n = IF t.type = "METHOD_CALL_AFTER" THEN p + 1 ELSE p
    BY <1>10, <2>6 DEF Where, BeforeTypes, b, n
  <2>8. G = InsertAt(F, n, e)
    BY <1>3, <1>10, <2>3, <2>7 DEF BeforeTypes
  <2> QED  BY <1>8, <2>2, <2>4, <2>7, <2>8 DEF F, G, then, v, WovenTo
<1> QED  BY <1>2, <1>9, <1>10 DEF InjectionTypes, TargetTypes, BeforeTypes

WovenOn(h, then, lib) ==
  /\ Progress(then) /\ Reached(h, then, Tail(todo))
  /\ WovenTo(h, then, lib) /\ Hit(then)

LEMMA CallingWeave ==
  ASSUME NEW g, NEW f, NEW y, NEW h, Calling(g, f, y, h), Found,
         Len(g) = Len(before), Steady(g), NEW done, Progress(done),
         Reached(g, done, todo), Head(todo) \in Nat \X Nat,
         todo \in Seq(Nat \X Nat), todo # <<>>, block \in 1..Len(before),
         NEW k \in 1..Len(Body(block)), before[block][k].id = cur, NEW lib,
         WovenTo(g, done, lib), Due(Head(todo), before[block][k])
  PROVE  WovenOn(h, Onward(done, block, k, Head(todo)), lib)
<1> DEFINE v == Head(todo)
           type == Policy[v[1]].targets[v[2]].type
           b == Where(g, type)[1]
           n == Where(g, type)[2]
           then == Onward(done, block, k, v)
<1>1. InsertedAs(g, f, b, n, y, h)
  BY DEF Calling
<1>2. k \in 1..Len(before[block])
  BY BodyIs
<1> HIDE DEF b, n, type
<1>3. /\ Placed(g, f, b, n, y) /\ Walk(g) /\ h = Put(g, b, n, y)
      /\ g \in Graph /\ Unique(g)
  BY <1>1 DEF InsertedAs, Placed, Sound
<1>4. Later(done, block, k)
  BY <1>2, <1>3, NothingLater
<1>5. WovenTo(h, then, lib)
  BY <1>4, CallingSeen
<1>6. Progress(then)
  BY <1>2, OnwardIs
<1>7. Hit(then)
  <2>1. MadeBy(v, before[block][k], InjectionTypes) # <<>>
    <3>1. \A z : <<z>> # <<>>
      OBVIOUS
    <3> QED  BY <3>1 DEF MadeBy, Due
  <2> QED  BY <1>2, <2>1, HitOnward
<1>8. Reached(g, then, Tail(todo))
  BY <1>2, ReachedOnward
<1> HIDE DEF then
<1>9. Reached(h, then, Tail(todo))
  BY <1>3, <1>8, ReachedPut
<1> QED  BY <1>5, <1>6, <1>7, <1>9 DEF then, v, WovenOn

LEMMA SteadyInserted ==
  ASSUME NEW g, NEW f, NEW h, Inserted(g, f, h), Found, Steady(g),
         Len(g) = Len(before)
  PROVE  Steady(h) /\ Len(h) = Len(before)
<1>1. PICK b, n, x : InsertedAs(g, f, b, n, x, h)
  BY DEF Inserted
<1>2. Placed(g, f, b, n, x) /\ h = Put(g, b, n, x)
  BY <1>1 DEF InsertedAs
<1>3. Steady(h)
  BY <1>2, SteadyPut
<1>4. Shown(g, b, n, [id |-> 0, inj |-> x.inj, anchor |-> x.anchor], h)
  BY <1>1, SeenPut
<1> QED  BY <1>3, <1>4 DEF Shown

LEMMA InjectWeave ==
  ASSUME PassInv, VerdictInv, NeverVisitsOwnCalls, WeaveInv, Inject
  PROVE  WeaveInv'
<1> DEFINE v == Head(todo)
           t == Policy[v[1]].targets[v[2]]
           lib == IF codelib = 0 THEN fresh ELSE codelib
<1>1. /\ pc = "visit" /\ todo # <<>> /\ todo' = Tail(todo)
      /\ t.type # "NO_INJECTION" /\ Matches(t, Instr(graph, cur))
      /\ codelib' = lib
      /\ UNCHANGED <<input, pass, pc, table, block, cur, before>>
  BY DEF Inject, NeedsCodelib
<1>2. /\ Found /\ Steady(graph) /\ graph \in Graph /\ Unique(graph)
      /\ fresh # 0 /\ Len(graph) = Len(before)
  BY <1>1 DEF WeaveInv, PassInv, GraphInv, Sound, Found
<1>3. PICK g, f, x, y :
        /\ IF codelib = 0 THEN Loading(graph, fresh, x, g) ELSE g = graph
        /\ Calling(g, f, y, graph')
  BY InjectInv
<1>4. PICK h : h = graph'
  OBVIOUS
<1>5. Calling(g, f, y, h)
  BY <1>3, <1>4
<1>6. Steady(g) /\ Len(g) = Len(before)
  <2>1. CASE codelib = 0
    <3>1. Inserted(graph, fresh, g)
      BY <1>3, <2>1 DEF Loading, Inserted
    <3> QED  BY <1>2, <3>1, SteadyInserted
  <2>2. CASE codelib # 0
    BY <1>2, <1>3, <2>2
  <2> QED  BY <2>1, <2>2
<1>7. Steady(h) /\ Len(h) = Len(before)
  <2>1. Inserted(g, f, h)
    BY <1>5 DEF Calling, Inserted
  <2> QED  BY <1>2, <1>6, <2>1, SteadyInserted
<1>8. ASSUME ~MayMeetItself
      PROVE  \E done : /\ Progress(done)
                       /\ \A b \in 1..Len(before) :
                            SeenBlock(graph'[b]) = Fabric(b, done, codelib')
                       /\ codelib' # 0 <=> Hit(done)
                       /\ Reached(graph, done, todo)'
  <2>1. PICK done : Sewn(graph, codelib, done, todo)
    BY <1>1, <1>8 DEF WeaveInv
  <2>2. block \in 1..Len(before)
    BY <1>1, <1>2, <1>8, VisitedIs
  <2>3. PICK k \in 1..Len(Body(block)) :
          /\ k \in 1..Len(before[block])
          /\ before[block][k] = Instr(graph, cur)
          /\ before[block][k].id = cur
    BY <1>1, <1>2, <1>8, VisitedIs
  <2>4. /\ v \in Nat \X Nat /\ todo \in Seq(Nat \X Nat)
        /\ t.type \in TargetTypes
    BY <1>1, TargetOf
  <2>5. Due(v, before[block][k])
    BY <1>1, <2>3, <2>4, TargetMeans DEF Due, InjectionTypes
  <2>6. /\ Progress(done) /\ Reached(graph, done, todo)
        /\ WovenTo(graph, done, codelib)
        /\ codelib # 0 <=> Hit(done)
    BY <2>1 DEF Sewn
  <2>7. Reached(g, done, todo) /\ WovenTo(g, done, lib)
    <3>1. CASE codelib = 0
      <4>1. WovenTo(graph, done, 0)
        BY <2>6, <3>1
      <4>2. Loading(graph, fresh, x, g) /\ ~Hit(done) /\ lib = fresh
        BY <1>3, <2>6, <3>1
      <4> HIDE DEF lib
      <4>3. Reached(g, done, todo) /\ WovenTo(g, done, fresh)
        BY <1>2, <2>6, <4>1, <4>2, LoadingWeave
      <4> QED  BY <4>2, <4>3
    <3>2. CASE codelib # 0
      BY <1>3, <2>6, <3>2
    <3> QED  BY <3>1, <3>2
  <2> DEFINE then == Onward(done, block, k, v)
  <2>8. WovenOn(h, then, lib)
    <3> HIDE DEF lib
    <3> QED  BY <1>1, <1>2, <1>5, <1>6, <2>2, <2>3, <2>4, <2>5, <2>6, <2>7,
                CallingWeave
  <2> HIDE DEF then
  <2>9. PICK d : d = then
    OBVIOUS
  <2>10. WovenOn(h, d, lib)
    BY <2>8, <2>9
  <2>11. Reached(graph', d, todo')
    BY <1>1, <1>4, <2>10 DEF WovenOn
  <2>12. Reached(graph, d, todo)'
    BY <1>1, <2>11, ReachedStill
  <2>13. /\ Progress(d) /\ Hit(d) /\ lib # 0
         /\ \A b \in 1..Len(before) :
              SeenBlock(graph'[b]) = Fabric(b, d, lib)
    BY <1>2, <1>4, <2>10 DEF WovenOn, WovenTo
  <2> HIDE DEF lib
  <2> QED  BY <1>1, <2>12, <2>13
<1>9. Steady(graph') /\ Len(graph') = Len(graph)
  BY <1>2, <1>4, <1>7
<1>10. pc' \in {"visit", "fix"}
  BY <1>1
<1> HIDE DEF lib, v, t
<1> QED  BY <1>1, <1>8, <1>9, <1>10, WeaveTogether

(* Where an instruction that the pass found is.                            *)
LEMMA FoundAt ==
  ASSUME Found, NEW g \in Graph, Unique(g), Len(g) = Len(before), Steady(g),
         NEW b \in 1..Len(before), NEW k \in 1..Len(before[b])
  PROVE  LET x == before[b][k]
             p == At(g, x.id)[2]
         IN  /\ x.id \in Nat \ {0} /\ x.id \in Ids(g) /\ b \in Nat /\ p \in Nat
             /\ At(g, x.id)[1] = b /\ b \in DOMAIN g /\ p \in DOMAIN g[b]
             /\ p >= 1 /\ g[b][p] = x /\ Instr(g, x.id) = x /\ x.by # pass
<1> DEFINE x == before[b][k]
<1>1. /\ x.id \in Ids(g) /\ Instr(g, x.id) = x /\ At(g, x.id)[1] = b
      /\ x.by # pass
  BY DEF Steady
<1>2. x.id \in Nat \ {0}
  BY BodyIs
<1> HIDE DEF x
<1> DEFINE p == At(g, x.id)[2]
<1>3. /\ b \in DOMAIN g /\ p \in 1..Len(g[b]) /\ p \in Nat /\ b \in Nat
      /\ g[b][p] = x
  BY <1>1, AtType
<1>4. g[b] \in Seq(Instruction)
  BY <1>3 DEF Graph
<1> HIDE DEF p
<1>5. p \in DOMAIN g[b] /\ p >= 1
  BY <1>3, <1>4
<1> QED  BY <1>1, <1>2, <1>3, <1>5 DEF x, p

(* The walk moves on when the visit is over.                               *)
Leaves(b, k) ==
  LET x == before[b][k]
      passed == Passed(graph, b, At(graph, x.id)[2])
  IN  /\ x.id # cur' =>
           (Passed(graph, b, At(graph, x.id)[2])' <=> x.id = cur \/ passed)
      /\ x.id = cur' => x.id # cur /\ ~passed

LEMMA ReachedMoves ==
  ASSUME Found, Steady(graph), NEW done, Progress(done), todo = <<>>,
         Reached(graph, done, todo), todo' \in Seq(Nat \X Nat),
         UNCHANGED <<input, pass, before, table, graph>>,
         cur' # 0 => todo' = Visits(Instr(graph, cur').kind),
         \A b \in 1..Len(before) : \A k \in 1..Len(before[b]) : Leaves(b, k)
  PROVE  Reached(graph, done, todo)'
<1>1. \A kind : Visits(kind)' = Visits(kind)
  BY DEF Visits, Policy
<1>2. ASSUME NEW b \in 1..Len(before), NEW k \in 1..Len(before[b])
      PROVE  LET x == before[b][k]
             IN  IF x.id = cur' THEN done[b][k] \o todo' = Visits(x.kind)
                 ELSE done[b][k] =
                        IF Passed(graph, b, At(graph, x.id)[2])'
                        THEN Visits(x.kind) ELSE <<>>
  <2> DEFINE x == before[b][k]
             S == Nat \X Nat
             d == done[b][k]
             passed == Passed(graph, b, At(graph, x.id)[2])
  <2>1. x.id # 0 /\ Instr(graph, x.id) = x
    BY FoundIds DEF Steady
  <2>2. d \in Seq(S)
    <3>1. done[b] \in Seq(Seq(S)) /\ Len(done[b]) = Len(before[b])
      BY DEF Progress
    <3> HIDE DEF S
    <3> QED  BY <3>1, ElementOfSeq
  <2>3. IF x.id = cur THEN d \o <<>> = Visits(x.kind)
        ELSE d = IF passed THEN Visits(x.kind) ELSE <<>>
    BY DEF Reached
  <2>4. /\ x.id # cur' => (Passed(graph, b, At(graph, x.id)[2])'
                             <=> x.id = cur \/ passed)
        /\ x.id = cur' => x.id # cur /\ ~passed
    BY DEF Leaves
  <2>5. d \o <<>> = d /\ <<>> \o todo' = todo'
    BY <2>2, ConcatEmptySeq
  <2> HIDE DEF x, d, passed
  <2>6. CASE x.id = cur'
    <3>1. d = <<>> /\ todo' = Visits(x.kind)
      BY <2>1, <2>3, <2>4, <2>6
    <3> QED  BY <2>5, <2>6, <3>1 DEF x, d
  <2>7. CASE x.id # cur'
    <3>1. d = IF Passed(graph, b, At(graph, x.id)[2])' THEN Visits(x.kind)
              ELSE <<>>
      BY <2>3, <2>4, <2>5, <2>7
    <3> QED  BY <2>7, <3>1 DEF x, d
  <2> QED  BY <2>6, <2>7
<1>3. \A b \in 1..Len(before) : \A k \in 1..Len(before[b]) :
        LET x == before[b][k]
        IN  IF x.id = cur' THEN done[b][k] \o todo' = Visits(x.kind)'
            ELSE done[b][k] = IF Passed(graph, b, At(graph, x.id)[2])'
                              THEN Visits(x.kind)' ELSE <<>>
  BY <1>1, <1>2
<1> QED  BY <1>3 DEF Reached

(* A move of the walk leaves what is woven as it is.                       *)
LEMMA MoveWeave ==
  ASSUME PassInv, PassInv', WeaveInv, pc = "visit", pc' = pc, todo = <<>>,
         UNCHANGED <<input, graph, pass, table, codelib, before>>,
         cur' # 0 => todo' = Visits(Instr(graph, cur').kind),
         \A b \in 1..Len(before) : \A k \in 1..Len(before[b]) : Leaves(b, k)
  PROVE  WeaveInv'
<1>1. /\ Found /\ Steady(graph) /\ graph' = graph
      /\ todo' \in Seq(Nat \X Nat)
  BY DEF WeaveInv, PassInv, Control
<1>2. ASSUME ~MayMeetItself
      PROVE  \E done : /\ Progress(done)
                       /\ \A b \in 1..Len(before) :
                            SeenBlock(graph'[b]) = Fabric(b, done, codelib')
                       /\ codelib' # 0 <=> Hit(done)
                       /\ Reached(graph, done, todo)'
  <2>1. PICK done : Sewn(graph, codelib, done, todo)
    BY <1>2 DEF WeaveInv
  <2>2. /\ Progress(done) /\ Reached(graph, done, todo)
        /\ \A b \in 1..Len(before) :
             SeenBlock(graph[b]) = Fabric(b, done, codelib)
        /\ codelib # 0 <=> Hit(done)
    BY <2>1 DEF Sewn, WovenTo
  <2>3. Reached(graph, done, todo)'
    BY <1>1, <2>2, ReachedMoves
  <2> QED  BY <2>2, <2>3
<1> QED  BY <1>1, <1>2, WeaveTogether

LEMMA EnterBlockWeave ==
  ASSUME PassInv, PassInv', WeaveInv, EnterBlock
  PROVE  WeaveInv'
<1>0. /\ Control /\ Sound(graph, fresh)
  BY DEF PassInv, GraphInv
<1>1. /\ pc = "visit" /\ cur = 0 /\ block' = block + 1 /\ pc' = pc
      /\ block < Len(graph) /\ cur' = First(graph[block'])
      /\ todo' = IF cur' = 0 THEN <<>> ELSE Visits(Instr(graph, cur').kind)
      /\ UNCHANGED <<input, graph, pass, table, codelib, before>>
  BY DEF EnterBlock
<1>2. graph \in Graph /\ Unique(graph) /\ block \in Nat /\ todo = <<>>
      /\ Len(graph) \in Nat
  BY <1>0, <1>1 DEF Sound, Control, Graph
<1>3. block + 1 \in DOMAIN graph
  BY <1>1, <1>2 DEF Graph
<1>4. cur' # 0 => At(graph, cur') = <<block + 1, 1>>
  BY <1>1, <1>2, <1>3, FirstIs
<1>5. Found /\ Steady(graph) /\ Len(graph) = Len(before)
  BY <1>1 DEF WeaveInv, Found
<1>6. cur' = 0 => DOMAIN graph[block + 1] = {}
  <2>1. graph[block + 1] \in Seq(Instruction)
    BY <1>2, <1>3 DEF Graph
  <2>2. graph[block + 1] # <<>> =>
          /\ 1 \in DOMAIN graph[block + 1]
          /\ First(graph[block + 1]) = graph[block + 1][1].id
    BY <2>1 DEF First
  <2>3. \A k \in DOMAIN graph[block + 1] : graph[block + 1][k].id # 0
    <3>1. \A k \in DOMAIN graph[block + 1] :
            graph[block + 1][k] \in Instruction
      BY <2>1
    <3> QED  BY <3>1 DEF Instruction
  <2> QED  BY <1>1, <2>2, <2>3
<1>7. ASSUME NEW b \in 1..Len(before), NEW k \in 1..Len(before[b])
      PROVE  Leaves(b, k)
  <2> DEFINE x == before[b][k]
             p == At(graph, x.id)[2]
  <2>1. /\ x.id # 0 /\ b \in Nat /\ p \in Nat /\ p >= 1
        /\ p \in DOMAIN graph[b] /\ At(graph, x.id)[1] = b
    BY <1>2, <1>5, FoundAt
  <2>2. p' = p
    BY <1>1 DEF At
  <2> HIDE DEF p
  <2>3. Passed(graph, b, p) <=> b <= block
    BY <1>1, <1>2, <2>1 DEF Passed
  <2>4. Passed(graph, b, p)' <=> b <= block
    <3>1. ~(cur' # 0 => p < At(graph, cur')[2]) \/ b # block + 1
      BY <1>2, <1>4, <1>6, <2>1
    <3>2. Passed(graph, b, p)' <=>
            \/ b < block'
            \/ b = block' /\ (cur' # 0 => p < At(graph, cur')[2])
      BY <1>1, <2>2 DEF Passed, At
    <3> QED  BY <1>1, <1>2, <2>1, <3>1, <3>2
  <2>5. x.id = cur' => b = block + 1
    BY <1>4, <2>1
  <2> HIDE DEF x
  <2>6. x.id # cur
    BY <1>1, <2>1
  <2>7. x.id = cur' => ~(b <= block)
    BY <1>2, <2>1, <2>5
  <2> QED  BY <2>3, <2>4, <2>6, <2>7 DEF Leaves, p, x
<1> QED  BY <1>1, <1>2, <1>7, MoveWeave

LEMMA AdvanceWeave ==
  ASSUME PassInv, PassInv', VerdictInv, WeaveInv, Advance
  PROVE  WeaveInv'
<1>0. /\ Control /\ Sound(graph, fresh) /\ Walk(graph) /\ Between(graph)
  BY DEF PassInv, GraphInv, VerdictInv
<1>1. /\ pc = "visit" /\ cur # 0 /\ todo = <<>> /\ cur' = next /\ pc' = pc
      /\ todo' = IF cur' = 0 THEN <<>> ELSE Visits(Instr(graph, cur').kind)
      /\ UNCHANGED <<input, graph, pass, table, codelib, before, block>>
  BY DEF Advance
<1>2. graph \in Graph /\ Unique(graph) /\ block \in Nat
  BY <1>0, <1>1 DEF Sound, Control, Graph
<1>3. Found /\ Steady(graph) /\ Len(graph) = Len(before)
  BY <1>1 DEF WeaveInv, Found
<1> DEFINE q == At(graph, cur)[2]
           r == At(graph, next)[2]
<1>4. /\ cur \in Ids(graph) /\ At(graph, cur)[1] = block /\ q \in Nat
      /\ At(graph, cur) = <<block, q>>
      /\ graph[block][q] = Instr(graph, cur) /\ Instr(graph, cur).id = cur
  BY <1>0, <1>1, <1>2, AtType DEF Walk
<1>5. next # 0 => /\ At(graph, next)[1] = block /\ r \in Nat /\ q < r
  BY <1>0, <1>1, <1>2, AtType DEF Walk
<1>6. ASSUME NEW b \in 1..Len(before), NEW k \in 1..Len(before[b])
      PROVE  Leaves(b, k)
  <2> DEFINE x == before[b][k]
             p == At(graph, x.id)[2]
  <2>1. /\ x.id # 0 /\ b \in Nat /\ p \in Nat /\ p \in DOMAIN graph[b]
        /\ At(graph, x.id)[1] = b /\ graph[b][p] = x /\ x.by # pass
    BY <1>2, <1>3, FoundAt
  <2>2. p' = p
    BY <1>1 DEF At
  <2>3. x.id = cur <=> b = block /\ p = q
    BY <1>4, <2>1
  <2>4. x.id = next => b = block /\ p = r
    BY <1>5, <2>1
  <2>5. Passed(graph, b, p) <=> b < block \/ (b = block /\ p < q)
    BY <1>1 DEF Passed
  <2>6. Passed(graph, b, p)' <=>
          b < block \/ (b = block /\ (next # 0 => p < r))
    BY <1>1, <2>2 DEF Passed, At
  <2>7. b = block /\ q < p => ~(next # 0 => p < r)
    BY <1>0, <1>1, <2>1 DEF Between
  <2> HIDE DEF x, p, q, r
  <2>8. x.id # next =>
          (Passed(graph, b, p)' <=> x.id = cur \/ Passed(graph, b, p))
    BY <1>2, <1>4, <1>5, <2>1, <2>3, <2>5, <2>6, <2>7
  <2>9. x.id = next => x.id # cur /\ ~Passed(graph, b, p)
    BY <1>2, <1>4, <1>5, <2>1, <2>3, <2>4, <2>5
  <2> QED  BY <1>1, <2>8, <2>9 DEF Leaves, p, x
<1> HIDE DEF q, r
<1> QED  BY <1>1, <1>6, MoveWeave

LEMMA EndVisitWeave ==
  ASSUME PassInv, WeaveInv, EndVisit
  PROVE  WeaveInv'
<1>1. /\ pc = "visit" /\ pc' = "fix"
      /\ UNCHANGED <<input, graph, pass, table, codelib, block, cur, todo,
                     before>>
  BY DEF EndVisit
<1>2. ASSUME ~MayMeetItself
      PROVE  \E done : /\ Progress(done)
                       /\ \A b \in 1..Len(before) :
                            SeenBlock(graph'[b]) = Fabric(b, done, codelib')
                       /\ codelib' # 0 <=> Hit(done)
                       /\ Reached(graph, done, todo)'
  <2>1. PICK done : Sewn(graph, codelib, done, todo)
    BY <1>1, <1>2 DEF WeaveInv
  <2>2. /\ Progress(done) /\ Reached(graph, done, todo)
        /\ \A b \in 1..Len(before) :
             SeenBlock(graph[b]) = Fabric(b, done, codelib)
        /\ codelib # 0 <=> Hit(done)
    BY <2>1 DEF Sewn, WovenTo
  <2>3. Reached(graph', done, todo')
    BY <1>1, <2>2
  <2>4. Reached(graph, done, todo)'
    BY <1>1, <2>3, ReachedStill
  <2> QED  BY <1>1, <2>2, <2>4
<1>3. Steady(graph') /\ Len(graph') = Len(graph)
  BY <1>1 DEF WeaveInv
<1> QED  BY <1>1, <1>2, <1>3, WeaveTogether

(* A pass begins with nothing done.                                        *)
Begins ==
  /\ pc = "visit" /\ PassInv /\ before = graph
  /\ table = [k \in VisitorKeys |-> TableEntry(Policy, k)]
  /\ codelib = 0 /\ block = 0 /\ cur = 0
  /\ \A b \in DOMAIN graph : \A k \in DOMAIN graph[b] : graph[b][k].by # pass

NothingDone == [b \in 1..Len(before) |-> [k \in 1..Len(before[b]) |-> <<>>]]

LEMMA NothingIs ==
  ASSUME Found
  PROVE  /\ Progress(NothingDone) /\ ~Hit(NothingDone)
         /\ \A b \in 1..Len(before) :
              /\ NothingDone[b] \in Seq(Seq(Nat \X Nat))
              /\ Len(NothingDone[b]) = Len(before[b])
              /\ \A k \in 1..Len(before[b]) : NothingDone[b][k] = <<>>
<1> DEFINE D == NothingDone
           S == Nat \X Nat
           row(b) == [k \in 1..Len(before[b]) |-> <<>>]
<1>1. \A b \in 1..Len(before) : D[b] = row(b)
  BY DEF NothingDone
<1>2. D = [b \in 1..Len(before) |-> row(b)]
  BY DEF NothingDone
<1>3. ASSUME NEW b \in 1..Len(before)
      PROVE  /\ row(b) \in Seq(Seq(S)) /\ Len(row(b)) = Len(before[b])
             /\ \A k \in 1..Len(before[b]) : row(b)[k] = <<>>
  <2>1. <<>> \in Seq(S)
    BY EmptySeq
  <2>2. Len(before[b]) \in Nat
    BY BodyIs
  <2> DEFINE f == row(b)
  <2>3. \A k \in 1..Len(before[b]) : f[k] = <<>>
    OBVIOUS
  <2>4. f \in [1..Len(before[b]) -> Seq(S)]
    BY <2>1
  <2> HIDE DEF f, S
  <2>5. f \in Seq(Seq(S)) /\ Len(f) = Len(before[b])
    BY <2>2, <2>4, FunctionIsSeq
  <2> QED  BY <2>3, <2>5 DEF f
<1> HIDE DEF row, D
<1>4. Progress(D)
  <2> HIDE DEF S
  <2>1. D \in [1..Len(before) -> Seq(Seq(S))]
    BY <1>2, <1>3
  <2> QED  BY <1>1, <1>3, <2>1 DEF Progress, S
<1>5. ~Hit(D)
  <2>1. ASSUME NEW b \in 1..Len(before), NEW k \in 1..Len(before[b])
        PROVE  Made(before[b][k], D[b][k], InjectionTypes) = <<>>
    <3>1. D[b][k] = <<>> /\ before[b][k].id \in Nat
      BY <1>1, <1>3, FoundIds
    <3>2. <<>> \in Seq(Nat \X Nat)
      BY EmptySeq
    <3>3. Made(before[b][k], <<>>, InjectionTypes) = <<>>
      BY <3>1, <3>2, MadeIs
    <3> QED  BY <3>1, <3>3
  <2> QED  BY <2>1 DEF Hit
<1> QED  BY <1>1, <1>3, <1>4, <1>5 DEF D

(* So its blocks are those it found.                                       *)
LEMMA NothingSeen ==
  ASSUME Begins, Found
  PROVE  WovenTo(graph, NothingDone, 0)
<1> SUFFICES ASSUME NEW b \in 1..Len(before)
             PROVE  SeenBlock(graph[b]) = Fabric(b, NothingDone, 0)
  BY DEF WovenTo
<1> DEFINE D == NothingDone
           s == before[b]
           body == Body(b)
           P == Parts(b, D[b])
           seen == SeenBlock(graph[b])
           kept == [k \in 1..Len(body) |-> Kept(body[k])]
<1>1. /\ s \in Seq(Instruction) /\ Len(s) \in Nat /\ Len(body) \in Nat
      /\ b # 1 => body = s
      /\ b = 1 => Len(body) + 1 = Len(s)
      /\ \A k \in 1..Len(body) :
           k \in 1..Len(s) /\ body[k] = s[k] /\ s[k].id \in Nat
  BY BodyIs
<1>2. /\ Progress(D) /\ ~Hit(D)
      /\ \A k \in 1..Len(s) : D[b][k] = <<>>
  BY NothingIs
<1>3. /\ seen \in Seq(Views) /\ Len(seen) = Len(s)
      /\ \A k \in 1..Len(s) : seen[k] = Kept(s[k])
  <2>1. graph[b] = s
    BY DEF Begins
  <2>2. b \in DOMAIN graph /\ \A k \in 1..Len(s) : k \in DOMAIN graph[b]
    BY <1>1, <2>1 DEF Begins, Found, Graph
  <2>3. \A k \in 1..Len(s) : SeenAs(s[k]) = Kept(s[k])
    BY <2>1, <2>2 DEF Begins, SeenAs
  <2> HIDE DEF s
  <2> QED  BY <1>1, <2>1, <2>3, SeenType
<1>4. kept \in Seq(Views) /\ Len(kept) = Len(body)
      /\ \A k \in 1..Len(body) : kept[k] = Kept(s[k])
  <2>1. \A k \in 1..Len(body) : Kept(body[k]) \in Views
    BY <1>1 DEF Kept, Views
  <2>2. kept \in [1..Len(body) -> Views]
    BY <2>1
  <2>3. \A k \in 1..Len(body) : kept[k] = Kept(s[k])
    BY <1>1
  <2> HIDE DEF kept, body
  <2> QED  BY <1>1, <2>2, <2>3, FunctionIsSeq
<1>5. P = Singles(kept)
  <2>1. \A k \in 1..Len(body) : Partly(body[k], D[b][k]) = <<Kept(body[k])>>
    <3>1. <<>> \in Seq(Nat \X Nat)
      BY EmptySeq
    <3>2. \A k \in 1..Len(body) : body[k].id \in Nat /\ D[b][k] = <<>>
      BY <1>1, <1>2
    <3> QED  BY <3>1, <3>2, PartlyIs
  <2>2. P = [k \in 1..Len(body) |-> <<Kept(body[k])>>]
    BY <2>1 DEF Parts
  <2>3. Singles(kept) = [k \in 1..Len(body) |-> <<Kept(body[k])>>]
    BY <1>4 DEF Singles
  <2> QED  BY <2>2, <2>3
<1> HIDE DEF P, kept, D, seen, body
<1>6. FlattenSeq(P) = kept
  BY <1>4, <1>5, FlattenSingles
<1>7. AllStarts(D) = <<>>
  BY <1>2, NoStarts
<1>8. Fabric(b, D, 0) = kept \o Hem(b, D, 0)
  BY <1>6 DEF Fabric, P
<1>9. CASE b # 1
  <2>1. Hem(b, D, 0) = <<>>
    BY <1>9 DEF Hem
  <2>2. kept \o <<>> = kept
    BY <1>4, ConcatEmptySeq
  <2>3. seen = kept
    BY <1>1, <1>3, <1>4, <1>9, SeqEqual
  <2> QED  BY <1>8, <2>1, <2>2, <2>3 DEF seen, D
<1>10. CASE b = 1
  <2> DEFINE z == Kept(Last(before[1]))
             none == <<>>
             t == kept \o <<z>>
  <2>1. none \in Seq(Views) /\ z \in Views
    <3>1. z \in Views
      BY <1>2, FabricType
    <3> QED  BY <3>1, EmptySeq
  <2>2. Hem(b, D, 0) = (none \o none) \o <<z>>
    BY <1>7, <1>10 DEF Hem, Loads
  <2> HIDE DEF z
  <2>3. Hem(b, D, 0) = <<z>>
    BY <2>1, <2>2
  <2>4. /\ t \in Seq(Views) /\ Len(t) = Len(kept) + 1
        /\ \A k \in 1..Len(kept) : t[k] = kept[k]
        /\ t[Len(kept) + 1] = z
    BY <1>4, <2>1, AppendProperties, AppendIsConcat
  <2> HIDE DEF t
  <2>5. z = seen[Len(s)]
    BY <1>1, <1>3, <1>10 DEF z, Last
  <2>6. seen = t
    <3>1. \A k \in 1..Len(s) : k \in 1..Len(body) \/ k = Len(body) + 1
      BY <1>1, <1>10
    <3>2. \A k \in 1..Len(s) : seen[k] = t[k]
      BY <1>1, <1>3, <1>4, <1>10, <2>4, <2>5, <3>1
    <3> QED  BY <1>1, <1>3, <1>4, <1>10, <2>4, <3>2, SeqEqual
  <2> QED  BY <1>8, <2>3, <2>6 DEF t, seen, D
<1> QED  BY <1>9, <1>10

LEMMA BeginsWeave == Begins => WeaveInv
<1> SUFFICES ASSUME Begins PROVE WeaveInv
  OBVIOUS
<1>1. /\ pc = "visit" /\ PassInv /\ before = graph /\ codelib = 0
      /\ block = 0 /\ cur = 0 /\ todo = <<>> /\ Sound(graph, fresh)
      /\ Entry(graph) /\ graph \in Graph /\ Unique(graph)
      /\ table = [k \in VisitorKeys |-> TableEntry(Policy, k)]
  BY DEF Begins, PassInv, Control, GraphInv, Sound
<1>2. Found
  BY <1>1 DEF Found
<1>3. Steady(graph)
  <2> SUFFICES ASSUME NEW b \in 1..Len(before), NEW k \in 1..Len(before[b])
               PROVE  LET x == before[b][k]
                      IN  /\ x.id \in Ids(graph) /\ Instr(graph, x.id) = x
                          /\ At(graph, x.id)[1] = b /\ x.by # pass
                          /\ \A m \in 1..Len(before[b]) :
                               k < m => At(graph, x.id)[2]
                                          < At(graph, before[b][m].id)[2]
    BY DEF Steady
  <2>1. DOMAIN graph = 1..Len(before) /\ DOMAIN graph[b] = 1..Len(before[b])
    BY <1>1 DEF Graph
  <2>2. \A m \in 1..Len(before[b]) :
          /\ At(graph, before[b][m].id) = <<b, m>>
          /\ Instr(graph, before[b][m].id) = before[b][m]
          /\ before[b][m].id \in Ids(graph)
    BY <1>1, <2>1, AtIs
  <2>3. before[b][k].by # pass
    BY <1>1, <2>1 DEF Begins
  <2> QED  BY <2>2, <2>3
<1>4. Reached(graph, NothingDone, todo)
  <2> SUFFICES ASSUME NEW b \in 1..Len(before), NEW k \in 1..Len(before[b])
               PROVE  /\ before[b][k].id # cur
                      /\ NothingDone[b][k] = <<>>
                      /\ ~Passed(graph, b, At(graph, before[b][k].id)[2])
    BY DEF Reached
  <2>1. before[b][k].id # 0
    BY <1>2, BodyIs
  <2>2. NothingDone[b][k] = <<>>
    BY <1>2, NothingIs
  <2>3. b \in Nat /\ b >= 1 /\ block = 0
    BY <1>1 DEF Graph
  <2>4. ~Passed(graph, b, At(graph, before[b][k].id)[2])
    BY <2>3 DEF Passed
  <2> QED  BY <1>1, <2>1, <2>2, <2>4
<1>5. Sewn(graph, codelib, NothingDone, todo)
  BY <1>1, <1>2, <1>4, NothingIs, NothingSeen DEF Sewn
<1> QED  BY <1>1, <1>2, <1>3, <1>5 DEF WeaveInv

LEMMA SetupWeave ==
  ASSUME PassInv, PassInv', SetupPass
  PROVE  Begins'
<1>1. /\ pc = "setup" /\ pc' = "visit" /\ block' = 0 /\ before' = graph
      /\ table' = [k \in VisitorKeys |-> TableEntry(Policy, k)]
      /\ UNCHANGED <<input, graph, pass, cur, codelib>>
  BY DEF SetupPass
<1>2. /\ Control /\ Codelib(graph, codelib) /\ graph \in Graph
      /\ input \in Inputs
  BY DEF PassInv, GraphInv, Sound
<1>3. cur' = 0 /\ codelib' = 0 /\ pass \in DOMAIN input.policies
  BY <1>1, <1>2 DEF Control, Codelib
<1>4. pass \in Nat
  BY <1>2, <1>3, InputIs
<1>5. \A b \in DOMAIN graph : \A k \in DOMAIN graph[b] :
        graph[b][k].by # pass
  <2>1. ASSUME NEW b \in DOMAIN graph, NEW k \in DOMAIN graph[b]
        PROVE  graph[b][k].by # pass
    <3>1. graph[b][k].by < pass
      BY <1>1, <1>2 DEF Codelib
    <3>2. graph[b][k] \in Instruction
      BY <1>2 DEF Graph
    <3>3. graph[b][k].by \in Nat
      BY <3>2 DEF Instruction
    <3> QED  BY <1>4, <3>1, <3>3
  <2> QED  BY <2>1
<1> QED  BY <1>1, <1>3, <1>5 DEF Begins, Policy

LEMMA WeaveInvariant == Spec => []WeaveInv
<1>1. Init => WeaveInv
  BY DEF Init, WeaveInv
<1>2. WeaveInv /\ PassInv /\ PassInv' /\ VerdictInv /\ NeverVisitsOwnCalls
        /\ [Next]_vars => WeaveInv' \/ Begins'
  <2> SUFFICES ASSUME WeaveInv, PassInv, PassInv', VerdictInv,
                      NeverVisitsOwnCalls, [Next]_vars
               PROVE  WeaveInv' \/ Begins'
    OBVIOUS
  <2>1. CASE SetupPass
    BY <2>1, SetupWeave
  <2>2. CASE EnterBlock
    BY <2>2, EnterBlockWeave
  <2>3. CASE PassOver
    BY <2>3, PassOverWeave
  <2>4. CASE Inject
    BY <2>4, InjectWeave
  <2>5. CASE AbortCompilation
    BY <2>5 DEF AbortCompilation, WeaveInv
  <2>6. CASE Advance
    BY <2>6, AdvanceWeave
  <2>7. CASE EndVisit
    BY <2>7, EndVisitWeave
  <2>8. CASE FixOutVRegs
    BY <2>8 DEF FixOutVRegs, WeaveInv
  <2>9. CASE UNCHANGED vars
    <3>1. UNCHANGED <<input, graph, pass, pc, table, codelib, block, cur, todo,
                      before>>
      BY <2>9 DEF vars
    <3>2. CASE pc # "visit" /\ pc # "fix"
      BY <3>1, <3>2 DEF WeaveInv
    <3>3. CASE pc \in {"visit", "fix"}
      <4>1. ASSUME ~MayMeetItself
            PROVE  \E done :
                     /\ Progress(done)
                     /\ \A b \in 1..Len(before) :
                          SeenBlock(graph'[b]) = Fabric(b, done, codelib')
                     /\ codelib' # 0 <=> Hit(done)
                     /\ Reached(graph, done, todo)'
        <5>1. PICK done : Sewn(graph, codelib, done, todo)
          BY <3>3, <4>1 DEF WeaveInv
        <5>2. /\ Progress(done) /\ Reached(graph, done, todo)
              /\ \A b \in 1..Len(before) :
                   SeenBlock(graph[b]) = Fabric(b, done, codelib)
              /\ codelib # 0 <=> Hit(done)
          BY <5>1 DEF Sewn, WovenTo
        <5>3. Reached(graph', done, todo')
          BY <3>1, <5>2
        <5>4. Reached(graph, done, todo)'
          BY <3>1, <5>3, ReachedStill
        <5> QED  BY <3>1, <5>2, <5>4
      <4>2. Steady(graph') /\ Len(graph') = Len(graph)
        BY <3>1, <3>3 DEF WeaveInv
      <4> QED  BY <3>1, <3>3, <4>1, <4>2, WeaveTogether
    <3> QED  BY <3>2, <3>3
  <2> QED  BY <2>1, <2>2, <2>3, <2>4, <2>5, <2>6, <2>7, <2>8, <2>9 DEF Next
<1> QED  BY <1>1, <1>2, PassInvariant, VerdictInvariant, OwnCallsNotVisited,
            BeginsWeave, PTL DEF Spec

(* When the walk is over, all visits are done.                             *)
LEMMA AllDone ==
  ASSUME PassInv, VerdictInv, Found, Steady(graph), pc = "fix", NEW done,
         Reached(graph, done, todo), NEW b \in 1..Len(before),
         NEW k \in 1..Len(before[b])
  PROVE  done[b][k] = Visits(before[b][k].kind)
<1> DEFINE x == before[b][k]
<1>1. cur = 0 /\ block = Len(graph) /\ Len(graph) = Len(before)
  BY DEF PassInv, Control, VerdictInv, Clean, Found
<1>2. x.id # 0 /\ b \in Nat /\ b <= Len(before) /\ Len(before) \in Nat
  BY BodyIs
<1>3. Passed(graph, b, At(graph, x.id)[2])
  BY <1>1, <1>2 DEF Passed
<1> QED  BY <1>1, <1>2, <1>3 DEF Reached

(* Then what is woven so far is what the policy declares.                  *)
LEMMA WovenParts ==
  ASSUME PassInv, VerdictInv, Found, Steady(graph), pc = "fix", NEW done,
         table = [k \in VisitorKeys |-> TableEntry(Policy, k)],
         Reached(graph, done, todo), NEW b \in 1..Len(before)
  PROVE  /\ FlattenSeq(Parts(b, done[b])) = Bodies(Body(b))
         /\ FlattenSeq(StartParts(b, done[b])) = Starts(before[b])
         /\ \A k \in 1..Len(before[b]) : \A types :
              Made(before[b][k], done[b][k], types)
                = Calls(before[b][k], types)
<1>1. input \in Inputs /\ pass \in DOMAIN input.policies
  BY DEF PassInv, Control
<1>2. /\ \A k \in 1..Len(before[b]) : before[b][k].id \in Nat
      /\ DOMAIN before[b] = 1..Len(before[b])
      /\ Body(b) \in Seq(Instruction) /\ Len(Body(b)) \in Nat
      /\ \A k \in 1..Len(Body(b)) :
           k \in 1..Len(before[b]) /\ Body(b)[k] = before[b][k]
  BY BodyIs
<1>3. \A k \in 1..Len(before[b]) : done[b][k] = Visits(before[b][k].kind)
  BY AllDone
<1>4. ASSUME NEW k \in 1..Len(before[b]), NEW types
      PROVE  Made(before[b][k], done[b][k], types)
               = Calls(before[b][k], types)
  <2>1. Made(before[b][k], Visits(before[b][k].kind), types)
          = Calls(before[b][k], types)
    BY <1>1, <1>2, VisitMakesCalls
  <2> QED  BY <1>3, <2>1
<1>5. \A k \in 1..Len(Body(b)) :
        Partly(Body(b)[k], done[b][k]) = Around(Body(b)[k])
  BY <1>2, <1>4 DEF Partly, Around
<1>6. Parts(b, done[b]) = [k \in DOMAIN Body(b) |-> Around(Body(b)[k])]
  <2>1. DOMAIN Body(b) = 1..Len(Body(b))
    BY <1>2
  <2> QED  BY <1>5, <2>1 DEF Parts
<1>7. StartParts(b, done[b])
        = [k \in DOMAIN before[b] |-> Calls(before[b][k], {"METHOD_START"})]
  BY <1>2, <1>4 DEF StartParts
<1> QED  BY <1>4, <1>6, <1>7 DEF Bodies, Starts

LEMMA WovenWhole ==
  ASSUME PassInv, VerdictInv, WeaveInv, pc = "fix", ~MayMeetItself
  PROVE  Seen(graph) = Woven(before)
<1>1. /\ table = [k \in VisitorKeys |-> TableEntry(Policy, k)]
      /\ Found /\ Steady(graph)
      /\ input \in Inputs /\ pass \in DOMAIN input.policies
      /\ \E done : Sewn(graph, codelib, done, todo)
  BY DEF WeaveInv, PassInv, Control
<1>2. PICK done : Sewn(graph, codelib, done, todo)
  BY <1>1
<1>3. /\ Progress(done) /\ Reached(graph, done, todo)
      /\ WovenTo(graph, done, codelib) /\ (codelib # 0 <=> Hit(done))
  BY <1>2 DEF Sewn
<1>4. /\ DOMAIN graph = 1..Len(before) /\ DOMAIN before = 1..Len(before)
      /\ \A b \in 1..Len(before) : DOMAIN before[b] = 1..Len(before[b])
  BY <1>1, BodyIs DEF PassInv, GraphInv, Sound, Graph, Found
<1>5. \A b \in 1..Len(before) :
        /\ FlattenSeq(Parts(b, done[b])) = Bodies(Body(b))
        /\ FlattenSeq(StartParts(b, done[b])) = Starts(before[b])
        /\ \A k \in 1..Len(before[b]) : \A types :
             Made(before[b][k], done[b][k], types)
               = Calls(before[b][k], types)
  BY <1>1, <1>3, WovenParts
<1> DEFINE hit == \E b \in DOMAIN before : \E k \in DOMAIN before[b] :
                    Calls(before[b][k], TargetTypes \ {"NO_INJECTION"}) # <<>>
           starts == FlattenSeq([b \in DOMAIN before |-> Starts(before[b])])
           load == IF hit THEN <<Loaded>> ELSE <<>>
           last == Last(before[1])
<1>6. Hit(done) <=> hit
  <2> DEFINE was(b, k) == Made(before[b][k], done[b][k], InjectionTypes)
             is(b, k) == Calls(before[b][k], TargetTypes \ {"NO_INJECTION"})
  <2>1. \A b \in 1..Len(before) : \A k \in 1..Len(before[b]) :
          was(b, k) = is(b, k)
    <3>1. \A b \in 1..Len(before) : \A k \in 1..Len(before[b]) :
            Made(before[b][k], done[b][k], InjectionTypes)
              = Calls(before[b][k], InjectionTypes)
      BY <1>5
    <3> QED  BY <3>1 DEF InjectionTypes
  <2>2. Hit(done) <=> \E b \in 1..Len(before) :
                        \E k \in 1..Len(before[b]) : was(b, k) # <<>>
    BY DEF Hit
  <2>3. hit <=> \E b \in DOMAIN before :
                  \E k \in DOMAIN before[b] : is(b, k) # <<>>
    OBVIOUS
  <2> HIDE DEF was, is, hit
  <2> QED  BY <1>4, <2>1, <2>2, <2>3
<1>7. AllStarts(done) = starts
  <2>1. BlockStarts(done) = [b \in DOMAIN before |-> Starts(before[b])]
    BY <1>4, <1>5 DEF BlockStarts
  <2> QED  BY <2>1 DEF AllStarts
<1>8. Loads(codelib) = load
  <2> HIDE DEF hit
  <2> QED  BY <1>3, <1>6 DEF Loads
<1>9. Around(last) = <<Kept(last)>>
  <2>1. last \in Instruction /\ last.kind \notin VisitorKeys
    <3>1. before[1] \in Seq(Instruction) /\ before[1] # <<>>
          /\ last.kind \notin VisitorKeys
      BY <1>1 DEF Found, Graph, Entry
    <3> HIDE DEF last
    <3>2. Last(before[1]) \in Instruction
      BY <3>1, LastIs
    <3> QED  BY <3>1, <3>2 DEF last
  <2> HIDE DEF last
  <2>2. last.id \in Nat
    BY <2>1 DEF Instruction
  <2>3. \A types : Calls(last, types) = <<>>
    BY <1>1, <2>1, <2>2, NoCalls
  <2>4. <<>> \in Seq(Nat \X Nat)
    BY EmptySeq
  <2>5. Partly(last, <<>>) = <<Kept(last)>>
    BY <2>2, <2>4, PartlyIs
  <2>6. \A types : Made(last, <<>>, types) = <<>>
    BY <2>2, <2>4, MadeIs
  <2>7. Around(last) = Partly(last, <<>>)
    BY <2>3, <2>6 DEF Around, Partly
  <2> QED  BY <2>5, <2>7
<1>10. /\ \A b \in 1..Len(before) : Bodies(Body(b)) \in Seq(Views)
       /\ starts \in Seq(Views) /\ load \in Seq(Views)
       /\ <<Kept(last)>> \in Seq(Views)
  BY <1>1, <1>3, <1>5, <1>7, <1>8, FabricType
<1> HIDE DEF starts, load, last, hit
<1>11. ASSUME NEW b \in 1..Len(before)
       PROVE  Fabric(b, done, codelib)
                = IF b = 1
                  THEN ((Bodies(Front(before[1])) \o load) \o starts)
                         \o Around(last)
                  ELSE Bodies(before[b])
  <2>1. CASE b = 1
    <3> DEFINE B == Bodies(Body(1))
               K == <<Kept(last)>>
    <3>1. Fabric(1, done, codelib) = Cat(B, Cat(Cat(load, starts), K))
      BY <1>5, <1>7, <1>8, <2>1 DEF Fabric, Hem, Cat, last
    <3>2. B \in Seq(Views) /\ K \in Seq(Views)
      BY <1>10, <2>1
    <3> HIDE DEF B, K
    <3>3. Cat(load, starts) \in Seq(Views) /\ Cat(B, load) \in Seq(Views)
      BY <1>10, <3>2, CatType
    <3>4. /\ Cat(B, Cat(Cat(load, starts), K))
               = Cat(Cat(B, Cat(load, starts)), K)
          /\ Cat(B, Cat(load, starts)) = Cat(Cat(B, load), starts)
      BY <1>10, <3>2, <3>3, CatAssociative
    <3>5. B = Bodies(Front(before[1]))
      BY DEF Body, B
    <3>6. Fabric(1, done, codelib) = Cat(Cat(Cat(B, load), starts), K)
      BY <3>1, <3>4
    <3> QED  BY <1>9, <2>1, <3>5, <3>6 DEF Cat, K
  <2>2. CASE b # 1
    <3> DEFINE B == Bodies(Body(b))
    <3>1. Fabric(b, done, codelib) = B \o <<>>
      BY <1>5, <2>2 DEF Fabric, Hem
    <3>2. B \in Seq(Views)
      BY <1>10
    <3>3. B = Bodies(before[b])
      BY <2>2 DEF Body
    <3> HIDE DEF B
    <3>4. B \o <<>> = B
      BY <3>2, ConcatEmptySeq
    <3> QED  BY <2>2, <3>1, <3>3, <3>4
  <2> QED  BY <2>1, <2>2
<1>12. Woven(before)
         = [b \in DOMAIN before |->
              IF b = 1
              THEN ((Bodies(Front(before[1])) \o load) \o starts)
                     \o Around(last)
              ELSE Bodies(before[b])]
  BY DEF Woven, hit, starts, load, last
<1>13. \A b \in 1..Len(before) :
         SeenBlock(graph[b])
           = IF b = 1
             THEN ((Bodies(Front(before[1])) \o load) \o starts)
                    \o Around(last)
             ELSE Bodies(before[b])
  BY <1>3, <1>11 DEF WovenTo
<1> QED  BY <1>4, <1>12, <1>13 DEF Seen

(* HInjectionVisitor: a pass over a graph that it changes weaves in exactly*)
(* the calls that the table and the loops make of its policy for the graph *)
(* it found, each at its place and in the order of the policy, and the     *)
(* codelib if there is a call; no other code changes.                      *)
THEOREM WovenHolds == Spec => []WovenAsIfStill
<1>1. PassInv /\ VerdictInv /\ WeaveInv => WovenAsIfStill
  BY WovenWhole DEF WovenAsIfStill
<1> QED  BY <1>1, PassInvariant, VerdictInvariant, WeaveInvariant, PTL

===============================================================================
