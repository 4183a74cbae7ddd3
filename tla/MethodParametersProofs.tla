---------------------- MODULE MethodParametersProofs ----------------------
(***************************************************************************)
(* For every signature of the dex format: ExtractMethodArguments splits it *)
(* into the types it is made of.                                           *)
(***************************************************************************)
EXTENDS MethodParameters, SequenceLemmas

(* The characters of the first n types.                                    *)
Written(types, n) == FlattenSeq(SubSeq(types, 1, n))

(* What has been read of the descriptor d: marks, then part of a class.    *)
Reading(marks, name, d) ==
  LET p == Len(marks)
      c == Len(name)
  IN  /\ p + c < Len(d)
      /\ \A k \in 1..p : marks[k] = "[" /\ d[k] = "["
      /\ \A k \in 1..c : name[k] = d[p + k]
      /\ c # 0 => d[p + 1] = "L"

Typed ==
  /\ method \in Inputs
  /\ at \in Nat
  /\ started \in BOOLEAN
  /\ classBuffer \in Seq(Characters)
  /\ paramBuffer \in Seq(Characters)
  /\ paramTypes \in Seq(Seq(Characters))
  /\ pc \in {"parse", "done"}
  /\ asked \in 0..ParameterCount \cup {None}
  /\ answer \in {"yes", "no", "out of bounds", None}

(* Before the parenthesis nothing is collected.                            *)
Skipping ==
  ~started =>
    /\ pc = "parse" /\ at \in 1..(Len(method.prefix) + 1)
    /\ paramTypes = <<>> /\ paramBuffer = <<>> /\ classBuffer = <<>>

(* The result holds types that are complete.                               *)
Whole ==
  /\ Len(paramTypes) <= Len(method.types)
  /\ \A n \in 1..Len(paramTypes) : paramTypes[n] = method.types[n]

(* The loop is as far as the result and the buffers say.                   *)
Within ==
  started /\ pc = "parse" =>
    LET n == Len(paramTypes)
        read == Len(paramBuffer) + Len(classBuffer)
    IN  /\ at = Len(method.prefix) + 2 + Len(Written(method.types, n)) + read
        /\ read # 0 => n < Len(method.types)
        /\ n < Len(method.types) =>
             Reading(paramBuffer, classBuffer, method.types[n + 1])

Finished ==
  pc = "done" =>
    /\ Len(paramTypes) = Len(method.types)
    /\ at \in 1..(Len(Signature) + 1)

ParseInv == Typed /\ Skipping /\ Whole /\ Within /\ Finished

----------------------------------------------------------------------------
(* The parts of a method.                                                  *)
LEMMA MethodIs ==
  ASSUME method \in Inputs
  PROVE  /\ method \in InputSpace
         /\ method.prefix \in Seq(Characters)
         /\ method.types \in Seq(Seq(Characters))
         /\ method.returns \in Seq(Characters)
         /\ method.static \in BOOLEAN
         /\ Len(method.prefix) \in Nat /\ Len(method.types) \in Nat
         /\ \A k \in 1..Len(method.prefix) :
              method.prefix[k] \notin {"(", ")"}
         /\ \A n \in 1..Len(method.types) :
              /\ method.types[n] \in Seq(Characters)
              /\ IsDescriptor(method.types[n])
<1>1. method \in InputSpace
  BY ParametersAssumption
<1>2. /\ method.prefix \in Seq(Characters)
      /\ method.types \in Seq(Seq(Characters))
      /\ method.returns \in Seq(Characters)
      /\ method.static \in BOOLEAN
  BY <1>1 DEF InputSpace
<1>3. /\ DOMAIN method.prefix = 1..Len(method.prefix)
      /\ DOMAIN method.types = 1..Len(method.types)
      /\ Len(method.prefix) \in Nat /\ Len(method.types) \in Nat
  BY <1>2, LenProperties
<1> QED  BY <1>1, <1>2, <1>3, ParametersAssumption

(* One type more.                                                          *)
LEMMA WrittenNext ==
  ASSUME method \in Inputs, NEW n \in Nat, n < Len(method.types)
  PROVE  /\ Written(method.types, n) \in Seq(Characters)
         /\ method.types[n + 1] \in Seq(Characters)
         /\ Written(method.types, n + 1)
              = Written(method.types, n) \o method.types[n + 1]
<1> DEFINE t == method.types
           s == SubSeq(t, 1, n)
           u == SubSeq(t, 1, n + 1)
<1>1. /\ t \in Seq(Seq(Characters)) /\ Len(t) \in Nat
      /\ t[n + 1] \in Seq(Characters)
  BY MethodIs
<1>2. s \in Seq(Seq(Characters)) /\ u \in Seq(Seq(Characters))
  BY <1>1
<1>3. u = Append(s, t[n + 1])
  BY <1>1
<1>4. FlattenSeq(s) \in Seq(Characters)
  BY <1>2, FlattenType
<1>5. FlattenSeq(u) = FlattenSeq(s) \o t[n + 1]
  BY <1>1, <1>2, <1>3, FlattenAppend
<1> QED  BY <1>1, <1>4, <1>5 DEF Written

(* The characters of a type are found behind those of the types before.    *)
LEMMA CharacterOfType ==
  ASSUME method \in Inputs, NEW n \in Nat, n < Len(method.types),
         NEW k \in 1..Len(method.types[n + 1])
  PROVE  /\ Len(Written(method.types, n)) + k
              \in 1..Len(FlattenSeq(method.types))
         /\ FlattenSeq(method.types)[Len(Written(method.types, n)) + k]
              = method.types[n + 1][k]
<1> DEFINE t == method.types
           u == SubSeq(t, 1, n + 1)
           v == SubSeq(t, n + 2, Len(t))
           w == Written(method.types, n)
           r == FlattenSeq(v)
<1>1. /\ t \in Seq(Seq(Characters)) /\ Len(t) \in Nat
      /\ t[n + 1] \in Seq(Characters)
  BY MethodIs
<1>2. u \in Seq(Seq(Characters)) /\ v \in Seq(Seq(Characters))
  <2> HIDE DEF t
  <2>1. u \in Seq(Seq(Characters))
    <3>1. \A i \in 1..(n + 1) : t[i] \in Seq(Characters)
      <4>1. n + 1 <= Len(t)
        BY <1>1 DEF t
      <4> QED  BY <1>1, <4>1, ElementOfSeq
    <3>2. 1 \in Int /\ n + 1 \in Int
      OBVIOUS
    <3> QED  BY <3>1, <3>2, SubSeqProperties
  <2>2. v \in Seq(Seq(Characters))
    BY <1>1, SMTT(30)
  <2> QED  BY <2>1, <2>2
<1>3. t = u \o v
  <2>1. u \o v = SubSeq(t, 1, Len(t))
    <3>1. /\ 1 \in 1..(Len(t) + 1)
          /\ n + 1 \in (1 - 1)..Len(t) /\ Len(t) \in (n + 1)..Len(t)
          /\ n + 1 + 1 = n + 2
      BY <1>1
    <3> HIDE DEF t
    <3>2. SubSeq(t, 1, n + 1) \o SubSeq(t, n + 1 + 1, Len(t))
            = SubSeq(t, 1, Len(t))
      BY <1>1, <3>1, ConcatAdjacentSubSeq, ZenonT(30)
    <3> QED  BY <3>1, <3>2
  <2> QED  BY <1>1, <2>1, SubSeqFull
<1>4. FlattenSeq(t) = FlattenSeq(u) \o r
  BY <1>2, <1>3, FlattenConcat
<1>5. r \in Seq(Characters)
  BY <1>2, FlattenType
<1>6. w \in Seq(Characters) /\ FlattenSeq(u) = w \o t[n + 1]
  BY WrittenNext DEF Written
<1> HIDE DEF t, u, v, w, r
<1>7. FlattenSeq(t) = (w \o t[n + 1]) \o r
  BY <1>4, <1>6
<1>8. /\ w \o t[n + 1] \in Seq(Characters)
      /\ Len(w \o t[n + 1]) = Len(w) + Len(t[n + 1])
      /\ \A i \in 1..(Len(w) + Len(t[n + 1])) :
           (w \o t[n + 1])[i] = IF i <= Len(w) THEN w[i]
                                ELSE t[n + 1][i - Len(w)]
  BY <1>1, <1>6, ConcatProperties
<1>9. /\ Len(FlattenSeq(t)) = Len(w) + Len(t[n + 1]) + Len(r)
      /\ \A i \in 1..(Len(w) + Len(t[n + 1])) :
           FlattenSeq(t)[i] = (w \o t[n + 1])[i]
  BY <1>5, <1>7, <1>8, ConcatProperties
<1>10. Len(w) \in Nat /\ Len(t[n + 1]) \in Nat /\ Len(r) \in Nat
  BY <1>1, <1>5, <1>6
<1>11. k \in 1..Len(t[n + 1])
  BY DEF t
<1>12. /\ Len(w) + k \in 1..(Len(w) + Len(t[n + 1]))
       /\ ~ (Len(w) + k <= Len(w)) /\ Len(w) + k - Len(w) = k
  BY <1>10, <1>11
<1>13. FlattenSeq(t)[Len(w) + k] = t[n + 1][k]
  BY <1>8, <1>9, <1>12
<1>14. Len(w) + k \in 1..Len(FlattenSeq(t))
  BY <1>9, <1>10, <1>12
<1> QED  BY <1>13, <1>14 DEF t, w

(* The signature, character by character.                                  *)
LEMMA SignatureIs ==
  ASSUME method \in Inputs
  PROVE  LET p == Len(method.prefix)
             f == FlattenSeq(method.types)
             s == Signature
         IN  /\ s \in Seq(Characters) /\ f \in Seq(Characters)
             /\ Len(s) = p + Len(f) + 2 + Len(method.returns)
             /\ \A k \in 1..p : s[k] = method.prefix[k]
             /\ s[p + 1] = "("
             /\ \A k \in 1..Len(f) : s[p + 1 + k] = f[k]
             /\ s[p + 2 + Len(f)] = ")"
             /\ \A k \in 1..Len(method.returns) :
                  s[p + 2 + Len(f) + k] = method.returns[k]
<1> DEFINE x == method.prefix
           f == FlattenSeq(method.types)
           r == method.returns
           a == x \o <<"(">>
           b == a \o f
           c == b \o <<")">>
<1>1. /\ x \in Seq(Characters) /\ f \in Seq(Characters)
      /\ r \in Seq(Characters)
  BY MethodIs, FlattenType
<1>2. <<"(">> \in Seq(Characters) /\ <<")">> \in Seq(Characters)
  BY DEF Characters
<1>3. Signature = c \o r
  BY DEF Signature
<1> HIDE DEF x, f, r
<1>4. /\ a \in Seq(Characters) /\ Len(a) = Len(x) + 1
      /\ \A k \in 1..Len(x) : a[k] = x[k]
      /\ a[Len(x) + 1] = "("
  BY <1>1, <1>2
<1> HIDE DEF a
<1>5. /\ b \in Seq(Characters) /\ Len(b) = Len(a) + Len(f)
      /\ \A k \in 1..Len(a) : b[k] = a[k]
      /\ \A k \in 1..Len(f) : b[Len(a) + k] = f[k]
  <2>1. Joins(b, a, f, Characters)
    BY <1>1, <1>4, ConcatJoins
  <2> QED  BY <2>1 DEF Joins
<1> HIDE DEF b
<1>6. /\ c \in Seq(Characters) /\ Len(c) = Len(b) + 1
      /\ \A k \in 1..Len(b) : c[k] = b[k]
      /\ c[Len(b) + 1] = ")"
  BY <1>2, <1>5
<1> HIDE DEF c
<1>7. /\ Signature \in Seq(Characters) /\ Len(Signature) = Len(c) + Len(r)
      /\ \A k \in 1..Len(c) : Signature[k] = c[k]
      /\ \A k \in 1..Len(r) : Signature[Len(c) + k] = r[k]
  <2>1. Joins(Signature, c, r, Characters)
    BY <1>1, <1>3, <1>6, ConcatJoins
  <2> QED  BY <2>1 DEF Joins
<1>8. Len(x) \in Nat /\ Len(f) \in Nat /\ Len(r) \in Nat
  BY <1>1
<1> DEFINE p == Len(x)
<1>9. \A k \in 1..p : Signature[k] = x[k]
  BY <1>4, <1>5, <1>6, <1>7, <1>8
<1>10. Signature[p + 1] = "("
  <2>1. /\ p + 1 \in 1..Len(a) /\ p + 1 \in 1..Len(b)
        /\ p + 1 \in 1..Len(c)
    BY <1>4, <1>5, <1>6, <1>8
  <2> QED  BY <1>4, <1>5, <1>6, <1>7, <2>1
<1>11. ASSUME NEW k \in 1..Len(f) PROVE Signature[p + 1 + k] = f[k]
  <2>1. b[p + 1 + k] = f[k] /\ p + 1 + k \in 1..Len(b)
    BY <1>4, <1>5, <1>8
  <2> QED  BY <2>1, <1>5, <1>6, <1>7, <1>8
<1>12. Signature[p + 2 + Len(f)] = ")"
  <2>1. p + 2 + Len(f) = Len(b) + 1 /\ p + 2 + Len(f) \in 1..Len(c)
    BY <1>4, <1>5, <1>6, <1>8
  <2> QED  BY <2>1, <1>6, <1>7
<1>13. p + 2 + Len(f) = Len(c)
  BY <1>4, <1>5, <1>6, <1>8
<1>14. Len(Signature) = p + Len(f) + 2 + Len(r)
  BY <1>7, <1>8, <1>13
<1>15. \A k \in 1..Len(r) : Signature[p + 2 + Len(f) + k] = r[k]
  BY <1>7, <1>13
<1> QED  BY <1>1, <1>7, <1>9, <1>10, <1>11, <1>12, <1>14, <1>15 DEF x, f, r

(* The signature behind the parameters.                                    *)
LEMMA WrittenIs ==
  ASSUME method \in Inputs
  PROVE  /\ \A n \in 0..Len(method.types) :
              Len(Written(method.types, n)) \in Nat
         /\ Len(Written(method.types, 0)) = 0
         /\ Written(method.types, Len(method.types)) = FlattenSeq(method.types)
<1> DEFINE t == method.types
<1>1. t \in Seq(Seq(Characters)) /\ Len(t) \in Nat
  BY MethodIs
<1>2. ASSUME NEW n \in 0..Len(t) PROVE Len(Written(method.types, n)) \in Nat
  <2>1. SubSeq(t, 1, n) \in Seq(Seq(Characters))
    BY <1>1
  <2>2. Written(method.types, n) \in Seq(Characters)
    BY <2>1, FlattenType DEF Written
  <2> QED  BY <2>2, LenProperties
<1>3. SubSeq(t, 1, 0) = <<>>
  BY SubSeqEmpty
<1>4. Written(method.types, 0) = <<>>
  BY <1>3, FlattenEmpty DEF Written
<1>5. SubSeq(t, 1, Len(t)) = t
  BY <1>1, SubSeqFull
<1> QED  BY <1>2, <1>4, <1>5 DEF Written

(* What the loop finds in a descriptor it has read in part.                *)
LEMMA InDescriptor ==
  ASSUME NEW d \in Seq(Characters), IsDescriptor(d),
         Reading(paramBuffer, classBuffer, d),
         paramBuffer \in Seq(Characters), classBuffer \in Seq(Characters)
  PROVE  LET p == Len(paramBuffer)
             c == Len(classBuffer)
             x == d[p + c + 1]
         IN  /\ x \in Letters \cup {"[", "L", ";"}
             /\ x = "[" => c = 0 /\ p + 1 < Len(d)
             /\ x = "L" => p + c + 1 < Len(d)
             /\ x = ";" => c # 0 /\ p + c + 1 = Len(d)
             /\ x \in Letters /\ c = 0 => p + 1 = Len(d)
             /\ x \in Letters /\ c # 0 => p + c + 1 < Len(d)
<1> DEFINE p == Len(paramBuffer)
           c == Len(classBuffer)
           x == d[p + c + 1]
<1>1. /\ p \in Nat /\ c \in Nat /\ Len(d) \in Nat /\ p + c < Len(d)
      /\ \A k \in 1..p : d[k] = "["
      /\ c # 0 => d[p + 1] = "L"
  BY LenProperties DEF Reading
<1>2. PICK marks \in 0..(Len(d) - 1) :
        /\ \A k \in 1..marks : d[k] = "["
        /\ \/ Len(d) = marks + 1 /\ d[Len(d)] \in Letters
           \/ /\ Len(d) > marks + 1
              /\ d[marks + 1] = "L"
              /\ \A k \in (marks + 2)..(Len(d) - 1) :
                   d[k] \in Letters \cup {"L"}
              /\ d[Len(d)] = ";"
  BY DEF IsDescriptor
<1>3. /\ "[" \notin Letters /\ "L" \notin Letters /\ ";" \notin Letters
      /\ "[" # "L" /\ "[" # ";" /\ "L" # ";"
  BY DEF Letters
<1> HIDE DEF p, c
<1>4. marks \in Nat /\ marks + 1 <= Len(d) /\ d[marks + 1] # "["
  <2>1. marks \in Nat /\ marks + 1 <= Len(d)
    BY <1>1
  <2>2. d[marks + 1] \in Letters \/ d[marks + 1] = "L"
    BY <1>2
  <2> QED  BY <1>3, <2>1, <2>2
<1>5. p <= marks
  BY <1>1, <1>4
<1>6. CASE c = 0 /\ p < marks
  <2>1. p + c + 1 = p + 1 /\ p + 1 \in 1..marks /\ p + 1 < Len(d)
    BY <1>1, <1>4, <1>6
  <2>2. x = "["
    BY <1>2, <2>1
  <2> QED  BY <1>3, <1>6, <2>1, <2>2 DEF p, c
<1>7. CASE c = 0 /\ p = marks
  <2>1. p + c + 1 = marks + 1
    BY <1>1, <1>7
  <2>2. CASE Len(d) = marks + 1 /\ d[Len(d)] \in Letters
    BY <1>3, <1>7, <2>1, <2>2 DEF p, c
  <2>3. CASE Len(d) > marks + 1 /\ d[marks + 1] = "L"
    BY <1>3, <1>4, <1>7, <2>1, <2>3 DEF p, c
  <2> QED  BY <1>2, <2>2, <2>3
<1>8. CASE c # 0
  <2>1. d[p + 1] = "L"
    BY <1>1, <1>8
  <2>2. p = marks
    <3> SUFFICES ASSUME p # marks PROVE FALSE
      OBVIOUS
    <3>1. p + 1 \in 1..marks
      BY <1>1, <1>4, <1>5
    <3> QED  BY <1>2, <1>3, <2>1, <3>1
  <2>3. Len(d) # marks + 1
    BY <1>1, <1>4, <1>8, <2>2
  <2>4. /\ \A k \in (marks + 2)..(Len(d) - 1) : d[k] \in Letters \cup {"L"}
        /\ d[Len(d)] = ";"
    BY <1>2, <2>3
  <2>5. CASE p + c + 1 = Len(d)
    BY <1>3, <1>8, <2>4, <2>5 DEF p, c
  <2>6. CASE p + c + 1 < Len(d)
    <3>1. p + c + 1 \in (marks + 2)..(Len(d) - 1)
      BY <1>1, <1>4, <1>8, <2>2, <2>6
    <3>2. x \in Letters \cup {"L"}
      BY <2>4, <3>1
    <3> QED  BY <1>3, <1>8, <2>6, <3>2 DEF p, c
  <2>7. p + c + 1 = Len(d) \/ p + c + 1 < Len(d)
    BY <1>1
  <2> QED  BY <2>5, <2>6, <2>7
<1>9. c # 0 \/ (c = 0 /\ p < marks) \/ (c = 0 /\ p = marks)
  <2>1. p \in Nat /\ marks \in Nat
    BY <1>1, <1>4
  <2> QED  BY <1>5, <2>1
<1> QED  BY <1>6, <1>7, <1>8, <1>9

(* The character the loop is at.                                           *)
LEMMA CharacterIs ==
  ASSUME ParseInv, pc = "parse"
  PROVE  LET n == Len(paramTypes)
             read == Len(paramBuffer) + Len(classBuffer)
         IN  /\ at \in 1..Len(Signature)
             /\ character \in Characters
             /\ ~started =>
                  \/ at <= Len(method.prefix) /\ character \notin {"(", ")"}
                  \/ at = Len(method.prefix) + 1 /\ character = "("
             /\ started /\ n < Len(method.types) =>
                  character = method.types[n + 1][read + 1]
             /\ started /\ n = Len(method.types) => character = ")"
<1> DEFINE n == Len(paramTypes)
           read == Len(paramBuffer) + Len(classBuffer)
           p == Len(method.prefix)
           f == FlattenSeq(method.types)
<1>1. /\ method \in Inputs /\ at \in Nat /\ n \in Nat /\ read \in Nat
      /\ n <= Len(method.types)
  <2>1. /\ paramTypes \in Seq(Seq(Characters))
        /\ paramBuffer \in Seq(Characters)
        /\ classBuffer \in Seq(Characters)
    BY DEF ParseInv, Typed
  <2>2. /\ Len(paramTypes) \in Nat
        /\ Len(paramBuffer) \in Nat /\ Len(classBuffer) \in Nat
    BY <2>1, LenProperties
  <2>3. method \in Inputs /\ at \in Nat /\ n <= Len(method.types)
    BY DEF ParseInv, Typed, Whole
  <2>4. read \in Nat
    BY <2>2
  <2> QED  BY <2>2, <2>3, <2>4
<1>2. /\ Signature \in Seq(Characters) /\ f \in Seq(Characters)
      /\ Len(Signature) = p + Len(f) + 2 + Len(method.returns)
      /\ \A k \in 1..p : Signature[k] = method.prefix[k]
      /\ Signature[p + 1] = "("
      /\ \A k \in 1..Len(f) : Signature[p + 1 + k] = f[k]
      /\ Signature[p + 2 + Len(f)] = ")"
  BY <1>1, SignatureIs
<1>3. /\ p \in Nat /\ Len(method.types) \in Nat
      /\ method.returns \in Seq(Characters)
      /\ \A k \in 1..p : method.prefix[k] \notin {"(", ")"}
  BY <1>1, MethodIs
<1>4. Len(f) \in Nat /\ Len(method.returns) \in Nat
  BY <1>2, <1>3, LenProperties
<1> HIDE DEF n, read, p, f
<1>5. \A k \in 1..Len(Signature) : Signature[k] \in Characters
  BY <1>2, ElementOfSeq
<1>9. /\ Len(Signature) \in Nat
      /\ p + 1 <= Len(Signature) /\ p + 2 + Len(f) <= Len(Signature)
  <2> DEFINE l == Len(Signature)
             r == Len(method.returns)
             k == Len(f)
  <2>1. l = p + k + 2 + r /\ p \in Nat /\ k \in Nat /\ r \in Nat
    BY <1>2, <1>3, <1>4
  <2> HIDE DEF l, r, k
  <2>2. l \in Nat /\ p + 1 <= l /\ p + 2 + k <= l
    BY <2>1
  <2> QED  BY <2>2 DEF l, k
<1>6. CASE ~started
  <2>1. at \in 1..(p + 1)
    BY <1>6 DEF ParseInv, Skipping, p
  <2>2. at \in 1..Len(Signature)
    BY <1>3, <1>9, <2>1
  <2>3. CASE at <= p
    <3>1. at \in 1..p
      BY <1>3, <2>1, <2>3
    <3>2. character = method.prefix[at] /\ character \notin {"(", ")"}
      BY <1>2, <1>3, <3>1 DEF character
    <3> QED  BY <1>5, <1>6, <2>2, <2>3, <3>2 DEF character, p
  <2>4. CASE at = p + 1
    BY <1>2, <1>5, <1>6, <2>2, <2>4 DEF character, p
  <2> QED  BY <1>3, <2>1, <2>3, <2>4
<1>7. CASE started /\ n < Len(method.types)
  <2> DEFINE d == method.types[n + 1]
             w == Len(Written(method.types, n))
  <2>1. at = p + 2 + w + read /\ Reading(paramBuffer, classBuffer, d)
    BY <1>7 DEF ParseInv, Within, n, p, read
  <2>2. w \in Nat
    BY <1>1, <1>7, WrittenNext, LenProperties
  <2>3. read + 1 \in 1..Len(d)
    <3>1. d \in Seq(Characters)
      BY <1>1, <1>7, WrittenNext
    <3>2. Len(d) \in Nat
      BY <3>1, LenProperties
    <3> QED  BY <1>1, <2>1, <3>2 DEF Reading, read
  <2>4. w + (read + 1) \in 1..Len(f) /\ f[w + (read + 1)] = d[read + 1]
    BY <1>1, <1>7, <2>3, CharacterOfType DEF f
  <2> HIDE DEF d, w
  <2>5. at = p + 1 + (w + (read + 1))
    BY <1>1, <1>3, <2>1, <2>2
  <2>6. character = d[read + 1]
    BY <1>2, <2>4, <2>5 DEF character
  <2>7. at \in 1..Len(Signature)
    <3> DEFINE m == Len(f)
    <3>1. m \in Nat /\ w + (read + 1) \in 1..m
      BY <1>4, <2>4
    <3>2. Len(Signature) \in Nat /\ p + 2 + m <= Len(Signature)
      BY <1>9
    <3> HIDE DEF m
    <3> QED  BY <1>3, <2>5, <3>1, <3>2
  <2>8. character \in Characters
    BY <1>5, <2>7 DEF character
  <2> QED  BY <1>7, <2>6, <2>7, <2>8 DEF d, n, read
<1>8. CASE started /\ n = Len(method.types)
  <2>1. at = p + 2 + Len(Written(method.types, n)) + read /\ read = 0
    BY <1>1, <1>8 DEF ParseInv, Within, n, p, read
  <2>2. Len(Written(method.types, n)) = Len(f)
    BY <1>1, <1>8, WrittenIs DEF f
  <2>3. at = p + 2 + Len(f)
    BY <1>3, <1>4, <2>1, <2>2
  <2>4. character = ")"
    BY <1>2, <2>3 DEF character
  <2>5. at \in 1..Len(Signature)
    BY <1>1, <1>3, <1>4, <1>9, <2>3
  <2>6. character \in Characters
    BY <2>4 DEF Characters
  <2> QED  BY <1>1, <1>8, <2>4, <2>5, <2>6 DEF n
<1> QED  BY <1>1, <1>3, <1>6, <1>7, <1>8 DEF n

LEMMA NextPosition ==
  \A p, w, r \in Nat : p + 2 + w + r + 1 = p + 2 + (w + (r + 1))
  OBVIOUS

(* How far the loop is, in numbers.                                        *)
LEMMA Lengths ==
  ASSUME ParseInv
  PROVE  /\ method \in Inputs /\ at \in Nat
         /\ paramTypes \in Seq(Seq(Characters))
         /\ paramBuffer \in Seq(Characters)
         /\ classBuffer \in Seq(Characters)
         /\ Len(paramTypes) \in Nat
         /\ Len(paramBuffer) \in Nat /\ Len(classBuffer) \in Nat
         /\ Len(method.prefix) \in Nat /\ Len(method.types) \in Nat
         /\ Len(paramTypes) <= Len(method.types)
         /\ Len(Written(method.types, Len(paramTypes))) \in Nat
<1>1. /\ method \in Inputs /\ at \in Nat
      /\ paramTypes \in Seq(Seq(Characters))
      /\ paramBuffer \in Seq(Characters)
      /\ classBuffer \in Seq(Characters)
      /\ Len(paramTypes) <= Len(method.types)
  BY DEF ParseInv, Typed, Whole
<1>2. /\ Len(paramTypes) \in Nat
      /\ Len(paramBuffer) \in Nat /\ Len(classBuffer) \in Nat
  BY <1>1, LenProperties
<1>3. Len(method.prefix) \in Nat /\ Len(method.types) \in Nat
  BY <1>1, MethodIs
<1>4. Len(paramTypes) \in 0..Len(method.types)
  BY <1>1, <1>2, <1>3
<1>5. Len(Written(method.types, Len(paramTypes))) \in Nat
  BY <1>1, <1>4, WrittenIs
<1> QED  BY <1>1, <1>2, <1>3, <1>5

(* A type that is complete goes to the result.                             *)
LEMMA TypeComplete ==
  ASSUME ParseInv, pc = "parse", started, Round,
         NEW type \in Seq(Characters), NEW n \in Nat, n = Len(paramTypes),
         n < Len(method.types),
         type = method.types[n + 1],
         Len(paramBuffer) + Len(classBuffer) + 1 = Len(type),
         paramTypes' = Append(paramTypes, type),
         classBuffer' = <<>>, paramBuffer' = <<>>,
         started' = started, pc' = pc
  PROVE  ParseInv'
<1> DEFINE p == Len(method.prefix)
           m == Len(method.types)
<1>1. /\ method \in Inputs /\ at \in Nat /\ p \in Nat /\ m \in Nat
      /\ paramTypes \in Seq(Seq(Characters))
  BY Lengths
<1>2. /\ method' = method /\ at' = at + 1 /\ asked' = asked
      /\ answer' = answer
  BY DEF Round
<1>3. /\ paramTypes' \in Seq(Seq(Characters)) /\ Len(paramTypes') = n + 1
      /\ paramTypes'[n + 1] = type
      /\ \A k \in 1..n : paramTypes'[k] = paramTypes[k]
  BY <1>1
<1>4. <<>> \in Seq(Characters) /\ Len(<<>>) = 0
  BY EmptySeq
<1>5. Typed'
  <2>1. ParameterCount' = ParameterCount
    BY <1>2 DEF ParameterCount
  <2>2. at + 1 \in Nat
    BY Lengths
  <2>3. /\ method \in Inputs /\ started \in BOOLEAN
        /\ pc \in {"parse", "done"}
        /\ asked \in 0..ParameterCount \cup {None}
        /\ answer \in {"yes", "no", "out of bounds", None}
    BY DEF ParseInv, Typed
  <2> QED  BY <1>2, <1>3, <1>4, <2>1, <2>2, <2>3 DEF Typed
<1>6. Skipping' /\ Finished'
  BY DEF Skipping, Finished
<1>7. Whole'
  <2>1. n + 1 <= m
    BY <1>1
  <2>2. ASSUME NEW k \in 1..(n + 1) PROVE paramTypes'[k] = method.types[k]
    <3>1. CASE k = n + 1
      BY <1>3, <3>1
    <3>2. CASE k # n + 1
      <4>1. k \in 1..n
        BY <3>2
      <4> QED  BY <1>3, <4>1 DEF ParseInv, Whole
    <3> QED  BY <3>1, <3>2
  <2> QED  BY <1>2, <1>3, <2>1, <2>2 DEF Whole
<1>8. Within'
  <2> DEFINE w == Len(Written(method.types, n))
             v == Len(Written(method.types, n + 1))
             read == Len(paramBuffer) + Len(classBuffer)
  <2>1. v = w + Len(type) /\ w \in Nat
    <3>1. /\ Written(method.types, n) \in Seq(Characters)
          /\ Written(method.types, n + 1) = Written(method.types, n) \o type
      BY <1>1, WrittenNext
    <3>2. Joins(Written(method.types, n + 1), Written(method.types, n), type,
                Characters)
      BY <3>1, ConcatJoins
    <3> QED  BY <3>1, <3>2, LenProperties DEF Joins
  <2>2. at = p + 2 + w + read
    BY DEF ParseInv, Within
  <2>3. read + 1 = Len(type) /\ Len(type) \in Nat
    BY LenProperties
  <2>4. read \in Nat
    BY Lengths
  <2> HIDE DEF read, w, v
  <2>5. at' = p + 2 + v
    <3>1. v = w + (read + 1)
      BY <2>1, <2>3
    <3>2. at' = p + 2 + w + read + 1
      BY <1>2, <2>2
    <3>3. p \in Nat /\ w \in Nat /\ read \in Nat
      BY <1>1, <2>1, <2>4
    <3> HIDE DEF p
    <3>4. p + 2 + w + read + 1 = p + 2 + (w + (read + 1))
      BY <3>3, NextPosition, ZenonT(30)
    <3> QED  BY <3>1, <3>2, <3>4
  <2>6. Len(paramBuffer') = 0 /\ Len(classBuffer') = 0
    BY <1>4
  <2>7. v' = v /\ p' = p
    BY <1>2 DEF Written, v
  <2>8. ASSUME n + 1 < m
        PROVE  Reading(paramBuffer', classBuffer', method.types'[n + 2])
    <3> DEFINE d == method.types[n + 2]
    <3>1. n + 2 \in 1..m
      BY <1>1, <2>8
    <3>2. d \in Seq(Characters) /\ IsDescriptor(d) /\ Len(d) \in Nat
      BY <1>1, <3>1, MethodIs, LenProperties
    <3> HIDE DEF d
    <3>3. 0 < Len(d)
      <4>1. PICK k \in 0..(Len(d) - 1) : TRUE
        BY <3>2 DEF IsDescriptor
      <4> QED  BY <3>2, <4>1
    <3>4. method.types'[n + 2] = d
      BY <1>2 DEF d
    <3>5. Reading(paramBuffer', classBuffer', d)
      BY <2>6, <3>3 DEF Reading
    <3> QED  BY <3>4, <3>5
  <2>9. Len(paramTypes)' = n + 1 /\ n + 1 + 1 = n + 2
    BY <1>3
  <2>10. at' = p' + 2 + v' + (Len(paramBuffer') + Len(classBuffer'))
    <3>1. v \in Nat
      BY <2>1, <2>3
    <3>2. p + 2 + v + 0 = p + 2 + v
      BY <1>1, <3>1
    <3> QED  BY <2>5, <2>6, <2>7, <3>2
  <2>11. /\ Len(paramTypes') = n + 1 /\ method.types' = method.types
         /\ v' = Len(Written(method.types', n + 1))
    BY <1>2, <1>3 DEF v
  <2>12. Len(paramBuffer') + Len(classBuffer') = 0
    BY <2>6
  <2> HIDE DEF v
  <2> QED  BY <2>8, <2>9, <2>10, <2>11, <2>12 DEF Within
<1> QED  BY <1>5, <1>6, <1>7, <1>8 DEF ParseInv

(* A character that leaves a type incomplete goes to a buffer.             *)
LEMMA TypeGoesOn ==
  ASSUME ParseInv, pc = "parse", started, Round,
         NEW n \in Nat, n = Len(paramTypes), n < Len(method.types),
         paramBuffer' \in Seq(Characters), classBuffer' \in Seq(Characters),
         Len(paramBuffer') + Len(classBuffer')
           = Len(paramBuffer) + Len(classBuffer) + 1,
         Reading(paramBuffer, classBuffer, method.types[n + 1])',
         paramTypes' = paramTypes, started' = started, pc' = pc
  PROVE  ParseInv'
<1> DEFINE p == Len(method.prefix)
           w == Len(Written(method.types, n))
           read == Len(paramBuffer) + Len(classBuffer)
<1>1. /\ method' = method /\ at' = at + 1 /\ asked' = asked
      /\ answer' = answer
  BY DEF Round
<1>2. Typed'
  <2>1. ParameterCount' = ParameterCount
    BY <1>1 DEF ParameterCount
  <2>2. at + 1 \in Nat
    BY Lengths
  <2>3. /\ method \in Inputs /\ started \in BOOLEAN
        /\ pc \in {"parse", "done"}
        /\ paramTypes \in Seq(Seq(Characters))
        /\ asked \in 0..ParameterCount \cup {None}
        /\ answer \in {"yes", "no", "out of bounds", None}
    BY DEF ParseInv, Typed
  <2> QED  BY <1>1, <2>1, <2>2, <2>3 DEF Typed
<1>3. Skipping' /\ Finished'
  BY DEF Skipping, Finished
<1>4. Whole'
  BY <1>1 DEF ParseInv, Whole
<1>5. at \in Nat /\ p \in Nat /\ w \in Nat /\ read \in Nat
  BY Lengths
<1>6. at = p + 2 + w + read
  BY DEF ParseInv, Within
<1>7. read' = read + 1
  OBVIOUS
<1> HIDE DEF read, w, p
<1>8. at' = p + 2 + w + read'
  BY <1>1, <1>5, <1>6, <1>7
<1>9. w' = w /\ p' = p
  BY <1>1 DEF Written, w, p
<1>10. Within'
  BY <1>1, <1>8, <1>9 DEF Within, w, p, read
<1> QED  BY <1>2, <1>3, <1>4, <1>10 DEF ParseInv

----------------------------------------------------------------------------
LEMMA InitParse == Init => ParseInv
<1> SUFFICES ASSUME Init PROVE ParseInv
  OBVIOUS
<1>1. method \in Inputs
  BY DEF Init
<1>2. Len(method.prefix) \in Nat /\ Len(method.types) \in Nat
  BY <1>1, MethodIs
<1>3. /\ <<>> \in Seq(Characters) /\ <<>> \in Seq(Seq(Characters))
      /\ Len(<<>>) = 0
  BY EmptySeq
<1>4. Typed
  BY <1>1, <1>3 DEF Init, Typed
<1>5. Skipping
  BY <1>2, <1>3 DEF Init, Skipping
<1>6. Whole
  BY <1>2, <1>3 DEF Init, Whole
<1>7. Within /\ Finished
  BY DEF Init, Within, Finished
<1> QED  BY <1>4, <1>5, <1>6, <1>7 DEF ParseInv

(* The rounds before the parenthesis.                                      *)
LEMMA OpenParenthesisInv ==
  ASSUME ParseInv, OpenParenthesis
  PROVE  ParseInv'
<1>1. /\ pc = "parse" /\ character = "(" /\ started' = TRUE
      /\ at' = at + 1
      /\ UNCHANGED <<method, asked, answer, classBuffer, paramBuffer,
                     paramTypes, pc>>
  BY DEF OpenParenthesis, Round
<1> DEFINE n == Len(paramTypes)
           p == Len(method.prefix)
           m == Len(method.types)
<1>2. /\ method \in Inputs /\ at \in Nat /\ p \in Nat /\ m \in Nat
      /\ n \in Nat /\ n <= m
  BY Lengths
<1>3. ~started
  <2> SUFFICES ASSUME started PROVE FALSE
    OBVIOUS
  <2>1. CASE n = m
    BY <1>1, <2>1, CharacterIs
  <2>2. CASE n < m
    <3> DEFINE d == method.types[n + 1]
    <3>1. Reading(paramBuffer, classBuffer, d)
      BY <1>1, <2>2 DEF ParseInv, Within
    <3>2. n + 1 \in 1..m
      BY <1>2, <2>2
    <3>3. d \in Seq(Characters) /\ IsDescriptor(d)
      BY <1>2, <3>2, MethodIs
    <3>4. character = d[Len(paramBuffer) + Len(classBuffer) + 1]
      BY <1>1, <2>2, CharacterIs
    <3> HIDE DEF d
    <3>5. character \in Letters \cup {"[", "L", ";"}
      BY <3>1, <3>3, <3>4, InDescriptor, Lengths
    <3> QED  BY <1>1, <3>5 DEF Letters
  <2> QED  BY <1>2, <2>1, <2>2
<1>4. /\ at = p + 1 /\ paramTypes = <<>> /\ paramBuffer = <<>>
      /\ classBuffer = <<>>
  BY <1>1, <1>3, CharacterIs DEF ParseInv, Skipping
<1>5. Typed'
  <2>1. ParameterCount' = ParameterCount
    BY <1>1 DEF ParameterCount
  <2>2. at + 1 \in Nat
    BY <1>2
  <2> QED  BY <1>1, <2>1, <2>2 DEF ParseInv, Typed
<1>6. Skipping' /\ Whole' /\ Finished'
  BY <1>1 DEF ParseInv, Skipping, Whole, Finished
<1>7. Within'
  <2>1. n = 0 /\ Len(paramBuffer) = 0 /\ Len(classBuffer) = 0
    BY <1>4, EmptySeq
  <2>2. Len(Written(method.types, 0)) = 0
    BY <1>2, WrittenIs
  <2>3. at' = p + 2 + Len(Written(method.types, n))
               + (Len(paramBuffer) + Len(classBuffer))
    <3>1. Len(Written(method.types, n)) = 0
      BY <2>1, <2>2
    <3>2. Len(paramBuffer) + Len(classBuffer) = 0
      BY <2>1
    <3>3. at' = p + 1 + 1
      BY <1>1, <1>4
    <3>4. p + 1 + 1 = p + 2 + 0 + 0
      BY <1>2
    <3> QED  BY <3>1, <3>2, <3>3, <3>4
  <2>5. Len(paramBuffer) + Len(classBuffer) = 0
    BY <2>1
  <2>4. ASSUME n < m
        PROVE  Reading(paramBuffer, classBuffer, method.types[n + 1])
    <3> DEFINE d == method.types[n + 1]
    <3>1. n + 1 \in 1..m
      BY <1>2, <2>4
    <3>2. d \in Seq(Characters) /\ IsDescriptor(d) /\ Len(d) \in Nat
      BY <1>2, <3>1, MethodIs, LenProperties
    <3> HIDE DEF d
    <3>3. 0 < Len(d)
      <4>1. PICK k \in 0..(Len(d) - 1) : TRUE
        BY <3>2 DEF IsDescriptor
      <4> QED  BY <3>2, <4>1
    <3>4. Reading(paramBuffer, classBuffer, d)
      BY <2>1, <3>3 DEF Reading
    <3> QED  BY <3>4 DEF d
  <2> QED  BY <1>1, <2>5, <2>3, <2>4 DEF Within
<1> QED  BY <1>5, <1>6, <1>7 DEF ParseInv

LEMMA BeforeParenthesisInv ==
  ASSUME ParseInv, BeforeParenthesis
  PROVE  ParseInv'
<1>1. /\ pc = "parse" /\ character # "(" /\ ~started /\ at' = at + 1
      /\ UNCHANGED <<method, asked, answer, started, classBuffer, paramBuffer,
                     paramTypes, pc>>
  BY DEF BeforeParenthesis, Round
<1>2. /\ at \in 1..Len(method.prefix) /\ at + 1 \in Nat
      /\ at + 1 \in 1..(Len(method.prefix) + 1)
  <2>1. at <= Len(method.prefix) /\ at \in 1..(Len(method.prefix) + 1)
    BY <1>1, CharacterIs DEF ParseInv, Skipping
  <2>2. Len(method.prefix) \in Nat
    BY Lengths
  <2> QED  BY <2>1, <2>2
<1>3. Typed'
  <2>1. ParameterCount' = ParameterCount
    BY <1>1 DEF ParameterCount
  <2> QED  BY <1>1, <1>2, <2>1 DEF ParseInv, Typed
<1>4. Skipping'
  BY <1>1, <1>2 DEF ParseInv, Skipping
<1>5. Whole' /\ Within' /\ Finished'
  BY <1>1 DEF ParseInv, Whole, Within, Finished
<1> QED  BY <1>3, <1>4, <1>5 DEF ParseInv

(* The closing parenthesis is not part of a type.                          *)
LEMMA CloseParenthesisInv ==
  ASSUME ParseInv, CloseParenthesis
  PROVE  ParseInv'
<1>1. /\ pc = "parse" /\ character = ")" /\ started /\ at' = at + 1
      /\ pc' = "done"
      /\ UNCHANGED <<method, asked, answer, started, classBuffer, paramBuffer,
                     paramTypes>>
  BY DEF CloseParenthesis, Round
<1> DEFINE n == Len(paramTypes)
           m == Len(method.types)
<1>2. /\ method \in Inputs /\ at \in Nat /\ m \in Nat
      /\ n \in Nat /\ n <= m
  BY Lengths
<1>3. n = m
  <2> SUFFICES ASSUME n < m PROVE FALSE
    BY <1>2
  <2> DEFINE d == method.types[n + 1]
  <2>1. Reading(paramBuffer, classBuffer, d)
    BY <1>1 DEF ParseInv, Within
  <2>2. n + 1 \in 1..m
    BY <1>2
  <2>3. d \in Seq(Characters) /\ IsDescriptor(d)
    BY <1>2, <2>2, MethodIs
  <2>4. character = d[Len(paramBuffer) + Len(classBuffer) + 1]
    BY <1>1, CharacterIs
  <2> HIDE DEF d
  <2>5. character \in Letters \cup {"[", "L", ";"}
    BY <2>1, <2>3, <2>4, InDescriptor, Lengths
  <2> QED  BY <1>1, <2>5 DEF Letters
<1>4. at + 1 \in 1..(Len(Signature) + 1) /\ at + 1 \in Nat
  <2>1. at \in 1..Len(Signature)
    BY <1>1, CharacterIs
  <2>2. Len(Signature) \in Nat
    BY <1>2, SignatureIs, LenProperties
  <2> HIDE DEF Signature
  <2> QED  BY <1>2, <2>1, <2>2
<1>5. Typed'
  <2>1. ParameterCount' = ParameterCount
    BY <1>1 DEF ParameterCount
  <2> QED  BY <1>1, <1>4, <2>1 DEF ParseInv, Typed
<1>6. Skipping' /\ Whole' /\ Within'
  BY <1>1 DEF ParseInv, Skipping, Whole, Within
<1>7. Finished'
  BY <1>1, <1>3, <1>4 DEF Finished, Signature
<1> QED  BY <1>5, <1>6, <1>7 DEF ParseInv

(* The rounds inside the parentheses are at a character of a type.         *)
LEMMA InsideType ==
  ASSUME ParseInv, pc = "parse", started, character # ")"
  PROVE  LET n == Len(paramTypes)
             d == method.types[n + 1]
             p == Len(paramBuffer)
             c == Len(classBuffer)
         IN  /\ n \in Nat /\ n < Len(method.types)
             /\ d \in Seq(Characters) /\ Len(d) \in Nat
             /\ Reading(paramBuffer, classBuffer, d)
             /\ character = d[p + c + 1]
             /\ character \in Letters \cup {"[", "L", ";"}
             /\ character = "[" => c = 0 /\ p + 1 < Len(d)
             /\ character = "L" => p + c + 1 < Len(d)
             /\ character = ";" => c # 0 /\ p + c + 1 = Len(d)
             /\ character \in Letters /\ c = 0 => p + 1 = Len(d)
             /\ character \in Letters /\ c # 0 => p + c + 1 < Len(d)
<1> DEFINE n == Len(paramTypes)
           m == Len(method.types)
           d == method.types[n + 1]
<1>1. /\ method \in Inputs /\ m \in Nat /\ n \in Nat /\ n <= m
      /\ paramBuffer \in Seq(Characters) /\ classBuffer \in Seq(Characters)
  BY Lengths
<1>2. n < m
  BY <1>1, CharacterIs
<1>3. /\ Reading(paramBuffer, classBuffer, d)
      /\ character = d[Len(paramBuffer) + Len(classBuffer) + 1]
  BY <1>2, CharacterIs DEF ParseInv, Within
<1>4. n + 1 \in 1..m
  BY <1>1, <1>2
<1>5. d \in Seq(Characters) /\ IsDescriptor(d) /\ Len(d) \in Nat
  BY <1>1, <1>4, MethodIs, LenProperties
<1> HIDE DEF d
<1>6. LET p == Len(paramBuffer)
          c == Len(classBuffer)
          x == d[p + c + 1]
      IN  /\ x \in Letters \cup {"[", "L", ";"}
          /\ x = "[" => c = 0 /\ p + 1 < Len(d)
          /\ x = "L" => p + c + 1 < Len(d)
          /\ x = ";" => c # 0 /\ p + c + 1 = Len(d)
          /\ x \in Letters /\ c = 0 => p + 1 = Len(d)
          /\ x \in Letters /\ c # 0 => p + c + 1 < Len(d)
  BY <1>1, <1>3, <1>5, InDescriptor
<1> QED  BY <1>1, <1>2, <1>3, <1>5, <1>6 DEF d

(* A sequence with one element more, by its places.                        *)
LEMMA AppendIs ==
  ASSUME NEW S, NEW s \in Seq(S), NEW x \in S
  PROVE  /\ Append(s, x) \in Seq(S) /\ Len(Append(s, x)) = Len(s) + 1
         /\ Len(s) \in Nat
         /\ \A k \in 1..Len(s) : Append(s, x)[k] = s[k]
         /\ Append(s, x)[Len(s) + 1] = x
  BY AppendProperties, LenProperties

LEMMA ClassMarkInv ==
  ASSUME ParseInv, ClassMark
  PROVE  ParseInv'
<1>1. /\ pc = "parse" /\ started /\ character = "L" /\ character # ")"
      /\ Round /\ classBuffer' = Append(classBuffer, "L")
      /\ UNCHANGED <<started, paramBuffer, paramTypes, pc>>
  BY DEF ClassMark, Round
<1> DEFINE p == Len(paramBuffer)
           c == Len(classBuffer)
<1>2. PICK n \in Nat : n = Len(paramTypes)
  BY Lengths
<1>3. PICK d : d = method.types[n + 1]
  OBVIOUS
<1>4. /\ n < Len(method.types) /\ Reading(paramBuffer, classBuffer, d)
      /\ d[p + c + 1] = "L" /\ p + c + 1 < Len(d) /\ Len(d) \in Nat
  BY <1>1, <1>2, <1>3, InsideType
<1>5. /\ paramBuffer \in Seq(Characters) /\ classBuffer \in Seq(Characters)
      /\ p \in Nat /\ c \in Nat
  BY Lengths
<1>6. /\ classBuffer' \in Seq(Characters) /\ Len(classBuffer') = c + 1
      /\ \A k \in 1..c : classBuffer'[k] = classBuffer[k]
      /\ classBuffer'[c + 1] = "L"
  <2>1. "L" \in Characters
    BY DEF Characters
  <2> QED  BY <1>1, <1>5, <2>1, AppendIs
<1>7. Reading(paramBuffer, classBuffer', d)
  <2>1. ASSUME NEW k \in 1..(c + 1) PROVE classBuffer'[k] = d[p + k]
    <3>1. CASE k = c + 1
      <4>1. p + k = p + c + 1
        BY <1>5, <3>1
      <4> QED  BY <1>4, <1>6, <3>1, <4>1
    <3>2. CASE k # c + 1
      <4>1. k \in 1..c
        BY <1>5, <3>2
      <4> QED  BY <1>4, <1>6, <4>1 DEF Reading
    <3> QED  BY <3>1, <3>2
  <2>2. d[p + 1] = "L"
    BY <1>4, <1>5 DEF Reading
  <2>3. p + (c + 1) < Len(d)
    BY <1>4, <1>5
  <2> QED  BY <1>4, <1>6, <2>1, <2>2, <2>3 DEF Reading
<1>8. p + (c + 1) = p + c + 1
  BY <1>5
<1>9. Len(paramBuffer') + Len(classBuffer') = p + c + 1
  BY <1>1, <1>6, <1>8
<1>10. paramBuffer' \in Seq(Characters)
  BY <1>1, <1>5
<1>11. Reading(paramBuffer', classBuffer', method.types'[n + 1])
  BY <1>1, <1>3, <1>7 DEF Round
<1> QED  BY <1>1, <1>2, <1>4, <1>6, <1>9, <1>10, <1>11, TypeGoesOn

LEMMA ArrayMarkInv ==
  ASSUME ParseInv, ArrayMark
  PROVE  ParseInv'
<1>1. /\ pc = "parse" /\ started /\ character = "[" /\ character # ")"
      /\ Round /\ paramBuffer' = Append(paramBuffer, "[")
      /\ UNCHANGED <<started, classBuffer, paramTypes, pc>>
  BY DEF ArrayMark, Round
<1> DEFINE p == Len(paramBuffer)
           c == Len(classBuffer)
<1>2. PICK n \in Nat : n = Len(paramTypes)
  BY Lengths
<1>3. PICK d : d = method.types[n + 1]
  OBVIOUS
<1>4. /\ n < Len(method.types) /\ Reading(paramBuffer, classBuffer, d)
      /\ d[p + c + 1] = "[" /\ c = 0 /\ p + 1 < Len(d) /\ Len(d) \in Nat
  BY <1>1, <1>2, <1>3, InsideType
<1>5. /\ paramBuffer \in Seq(Characters) /\ classBuffer \in Seq(Characters)
      /\ p \in Nat /\ c \in Nat
  BY Lengths
<1>6. /\ paramBuffer' \in Seq(Characters) /\ Len(paramBuffer') = p + 1
      /\ \A k \in 1..p : paramBuffer'[k] = paramBuffer[k]
      /\ paramBuffer'[p + 1] = "["
  <2>1. "[" \in Characters
    BY DEF Characters
  <2> QED  BY <1>1, <1>5, <2>1, AppendIs
<1>7. Reading(paramBuffer', classBuffer, d)
  <2>1. ASSUME NEW k \in 1..(p + 1)
        PROVE  paramBuffer'[k] = "[" /\ d[k] = "["
    <3>1. CASE k = p + 1
      <4>1. p + c + 1 = k
        BY <1>4, <1>5, <3>1
      <4> QED  BY <1>4, <1>6, <3>1, <4>1
    <3>2. CASE k # p + 1
      <4>1. k \in 1..p
        BY <1>5, <3>2
      <4> QED  BY <1>4, <1>6, <4>1 DEF Reading
    <3> QED  BY <3>1, <3>2
  <2>2. p + 1 + c < Len(d)
    BY <1>4, <1>5
  <2> QED  BY <1>4, <1>6, <2>1, <2>2 DEF Reading
<1>8. p + 1 + c = p + c + 1
  BY <1>5
<1>9. Len(paramBuffer') + Len(classBuffer') = p + c + 1
  BY <1>1, <1>6, <1>8
<1>10. classBuffer' \in Seq(Characters)
  BY <1>1, <1>5
<1>11. Reading(paramBuffer', classBuffer', method.types'[n + 1])
  BY <1>1, <1>3, <1>7 DEF Round
<1> QED  BY <1>1, <1>2, <1>4, <1>6, <1>9, <1>10, <1>11, TypeGoesOn

LEMMA ClassNameInv ==
  ASSUME ParseInv, ClassName
  PROVE  ParseInv'
<1> DEFINE p == Len(paramBuffer)
           c == Len(classBuffer)
<1>1. PICK x : x = character
  OBVIOUS
<1>2. /\ pc = "parse" /\ started /\ character = x
      /\ x \in Letters /\ x # ")" /\ x \in Characters
      /\ Round /\ classBuffer' = Append(classBuffer, x)
      /\ classBuffer # <<>>
      /\ UNCHANGED <<started, paramBuffer, paramTypes, pc>>
  BY <1>1 DEF ClassName, IsLetter, Letters, Round
<1>3. PICK n \in Nat : n = Len(paramTypes)
  BY Lengths
<1>4. PICK d : d = method.types[n + 1]
  OBVIOUS
<1>5. /\ paramBuffer \in Seq(Characters) /\ classBuffer \in Seq(Characters)
      /\ p \in Nat /\ c \in Nat
  BY Lengths
<1>6. c # 0
  BY <1>2, <1>5, EmptySeq
<1>7. /\ n < Len(method.types) /\ Reading(paramBuffer, classBuffer, d)
      /\ d[p + c + 1] = x /\ p + c + 1 < Len(d) /\ Len(d) \in Nat
  BY <1>2, <1>3, <1>4, <1>6, InsideType
<1>8. /\ classBuffer' \in Seq(Characters) /\ Len(classBuffer') = c + 1
      /\ \A k \in 1..c : classBuffer'[k] = classBuffer[k]
      /\ classBuffer'[c + 1] = x
  BY <1>2, <1>5, AppendIs
<1>9. Reading(paramBuffer, classBuffer', d)
  <2>1. ASSUME NEW k \in 1..(c + 1) PROVE classBuffer'[k] = d[p + k]
    <3>1. CASE k = c + 1
      <4>1. p + k = p + c + 1
        BY <1>5, <3>1
      <4> QED  BY <1>7, <1>8, <3>1, <4>1
    <3>2. CASE k # c + 1
      <4>1. k \in 1..c
        BY <1>5, <3>2
      <4> QED  BY <1>7, <1>8, <4>1 DEF Reading
    <3> QED  BY <3>1, <3>2
  <2>2. d[p + 1] = "L"
    BY <1>6, <1>7 DEF Reading
  <2>3. p + (c + 1) < Len(d)
    BY <1>5, <1>7
  <2> QED  BY <1>7, <1>8, <2>1, <2>2, <2>3 DEF Reading
<1>10. p + (c + 1) = p + c + 1
  BY <1>5
<1>11. Len(paramBuffer') + Len(classBuffer') = p + c + 1
  BY <1>2, <1>8, <1>10
<1>12. paramBuffer' \in Seq(Characters)
  BY <1>2, <1>5
<1>13. Reading(paramBuffer', classBuffer', method.types'[n + 1])
  BY <1>2, <1>4, <1>9 DEF Round
<1> QED  BY <1>2, <1>3, <1>7, <1>8, <1>11, <1>12, <1>13, TypeGoesOn

LEMMA BaseTypeInv ==
  ASSUME ParseInv, BaseType
  PROVE  ParseInv'
<1> DEFINE p == Len(paramBuffer)
           c == Len(classBuffer)
<1>1. PICK x : x = character
  OBVIOUS
<1>2. /\ pc = "parse" /\ started /\ character = x
      /\ x \in Letters /\ x # ")" /\ x \in Characters
      /\ Round /\ paramTypes' = Append(paramTypes, Append(paramBuffer, x))
      /\ classBuffer = <<>> /\ paramBuffer' = <<>>
      /\ UNCHANGED <<started, classBuffer, pc>>
  BY <1>1 DEF BaseType, IsLetter, Letters, Round
<1>3. PICK n \in Nat : n = Len(paramTypes)
  BY Lengths
<1>4. PICK d : d = method.types[n + 1]
  OBVIOUS
<1>5. /\ paramBuffer \in Seq(Characters) /\ p \in Nat /\ c = 0
  BY <1>2, Lengths, EmptySeq
<1>6. /\ n < Len(method.types) /\ Reading(paramBuffer, classBuffer, d)
      /\ d[p + c + 1] = x /\ p + 1 = Len(d)
      /\ d \in Seq(Characters)
  BY <1>2, <1>3, <1>4, <1>5, InsideType
<1>7. PICK type : type = Append(paramBuffer, x)
  OBVIOUS
<1>8. /\ type \in Seq(Characters) /\ Len(type) = p + 1
      /\ \A k \in 1..p : type[k] = paramBuffer[k]
      /\ type[p + 1] = x
  BY <1>2, <1>5, <1>7, AppendIs
<1>9. type = d
  <2>1. ASSUME NEW k \in 1..(p + 1) PROVE type[k] = d[k]
    <3>1. CASE k = p + 1
      <4>1. p + c + 1 = k
        BY <1>5, <3>1
      <4> QED  BY <1>6, <1>8, <3>1, <4>1
    <3>2. CASE k # p + 1
      <4>1. k \in 1..p
        BY <1>5, <3>2
      <4> QED  BY <1>6, <1>8, <4>1 DEF Reading
    <3> QED  BY <3>1, <3>2
  <2> QED  BY <1>6, <1>8, <2>1, SeqEqual
<1>10. p + c + 1 = Len(type)
  BY <1>5, <1>8
<1> QED  BY <1>2, <1>3, <1>4, <1>6, <1>7, <1>8, <1>9, <1>10, TypeComplete

LEMMA ClassTerminatorInv ==
  ASSUME ParseInv, ClassTerminator
  PROVE  ParseInv'
<1>1. /\ pc = "parse" /\ started /\ character = ";" /\ character # ")"
      /\ Round
      /\ paramTypes'
           = Append(paramTypes, paramBuffer \o Append(classBuffer, ";"))
      /\ classBuffer' = <<>> /\ paramBuffer' = <<>>
      /\ UNCHANGED <<started, pc>>
  BY DEF ClassTerminator, Round
<1> DEFINE p == Len(paramBuffer)
           c == Len(classBuffer)
<1>2. PICK n \in Nat : n = Len(paramTypes)
  BY Lengths
<1>3. PICK d : d = method.types[n + 1]
  OBVIOUS
<1>4. /\ n < Len(method.types) /\ Reading(paramBuffer, classBuffer, d)
      /\ d[p + c + 1] = ";" /\ p + c + 1 = Len(d)
      /\ d \in Seq(Characters)
  BY <1>1, <1>2, <1>3, InsideType
<1>5. /\ paramBuffer \in Seq(Characters) /\ classBuffer \in Seq(Characters)
      /\ p \in Nat /\ c \in Nat
  BY Lengths
<1>6. PICK name : name = Append(classBuffer, ";")
  OBVIOUS
<1>7. /\ name \in Seq(Characters) /\ Len(name) = c + 1
      /\ \A k \in 1..c : name[k] = classBuffer[k]
      /\ name[c + 1] = ";"
  <2>1. PICK x \in Characters : x = ";"
    BY DEF Characters
  <2>2. classBuffer \in Seq(Characters)
    BY <1>5
  <2>3. name = Append(classBuffer, x)
    BY <1>6, <2>1
  <2>4. /\ name \in Seq(Characters)
        /\ Len(name) = Len(classBuffer) + 1
        /\ \A k \in 1..Len(classBuffer) : name[k] = classBuffer[k]
        /\ name[Len(classBuffer) + 1] = x
    BY <2>2, <2>3, AppendIs
  <2> QED  BY <2>1, <2>4
<1>8. PICK type : type = paramBuffer \o name
  OBVIOUS
<1>9. /\ type \in Seq(Characters) /\ Len(type) = p + (c + 1)
      /\ \A k \in 1..p : type[k] = paramBuffer[k]
      /\ \A k \in 1..(c + 1) : type[p + k] = name[k]
  <2>1. Joins(type, paramBuffer, name, Characters)
    BY <1>5, <1>7, <1>8, ConcatJoins
  <2> QED  BY <1>7, <2>1 DEF Joins
<1>10. p + (c + 1) = p + c + 1
  BY <1>5
<1>11. type = d
  <2>1. ASSUME NEW k \in 1..(p + (c + 1)) PROVE type[k] = d[k]
    <3>1. CASE k \in 1..p
      BY <1>4, <1>9, <3>1 DEF Reading
    <3>2. CASE k \notin 1..p
      <4>1. PICK i \in 1..(c + 1) : k = p + i
        <5>1. k - p \in 1..(c + 1) /\ k = p + (k - p)
          BY <1>5, <3>2
        <5> QED  BY <5>1
      <4>2. CASE i = c + 1
        BY <1>4, <1>7, <1>9, <1>10, <4>1, <4>2
      <4>3. CASE i # c + 1
        <5>1. i \in 1..c
          BY <1>5, <4>3
        <5> QED  BY <1>4, <1>7, <1>9, <4>1, <5>1 DEF Reading
      <4> QED  BY <4>2, <4>3
    <3> QED  BY <3>1, <3>2
  <2> QED  BY <1>4, <1>9, <1>10, <2>1, SeqEqual
<1>12. p + c + 1 = Len(type)
  BY <1>4, <1>11
<1>13. paramTypes' = Append(paramTypes, type)
  BY <1>1, <1>6, <1>8
<1> QED
  BY <1>1, <1>2, <1>3, <1>4, <1>9, <1>11, <1>12, <1>13, TypeComplete

(* A question about a parameter leaves the result alone.                   *)
LEMMA AskInv ==
  ASSUME ParseInv, NEW index \in 0..(ParameterCount - 1), Ask(index)
  PROVE  ParseInv'
<1>1. /\ pc = "done" /\ asked' = index /\ answer' = IsStringParam(index)
      /\ UNCHANGED <<method, at, started, classBuffer, paramBuffer,
                     paramTypes, pc>>
  BY DEF Ask
<1>2. ParameterCount \in Nat
  <2>1. Len(method.types) \in Nat /\ method.static \in BOOLEAN
    BY Lengths, MethodIs
  <2>2. CASE method.static
    BY <2>1, <2>2 DEF ParameterCount
  <2>3. CASE ~method.static
    BY <2>1, <2>3 DEF ParameterCount
  <2> QED  BY <2>2, <2>3
<1> HIDE DEF ParameterCount
<1>3. index \in 0..ParameterCount
  BY <1>2
<1>4. IsStringParam(index) \in {"yes", "no", "out of bounds", None}
  BY DEF IsStringParam
<1>5. Typed'
  <2>1. ParameterCount' = ParameterCount
    BY <1>1 DEF ParameterCount
  <2> QED  BY <1>1, <1>3, <1>4, <2>1 DEF ParseInv, Typed
<1>6. Skipping' /\ Whole' /\ Within'
  BY <1>1 DEF ParseInv, Skipping, Whole, Within
<1>7. Finished'
  BY <1>1 DEF ParseInv, Finished, Signature
<1> QED  BY <1>5, <1>6, <1>7 DEF ParseInv

LEMMA StutterParse ==
  ASSUME ParseInv, UNCHANGED vars
  PROVE  ParseInv'
<1>1. UNCHANGED <<method, at, started, classBuffer, paramBuffer, paramTypes,
                  pc, asked, answer>>
  BY DEF vars
<1>2. Typed'
  BY <1>1 DEF ParseInv, Typed, ParameterCount
<1>3. Skipping' /\ Whole' /\ Within'
  BY <1>1 DEF ParseInv, Skipping, Whole, Within
<1>4. Finished'
  BY <1>1 DEF ParseInv, Finished, Signature
<1> QED  BY <1>2, <1>3, <1>4 DEF ParseInv

(* The loop keeps the signature apart at the borders of its types.         *)
THEOREM ParseInvariant == Spec => []ParseInv
<1>1. ParseInv /\ [Next]_vars => ParseInv'
  <2> SUFFICES ASSUME ParseInv, [Next]_vars PROVE ParseInv'
    OBVIOUS
  <2>1. CASE Parse
    BY <2>1, OpenParenthesisInv, BeforeParenthesisInv, CloseParenthesisInv,
       ClassMarkInv, ArrayMarkInv, ClassTerminatorInv, ClassNameInv,
       BaseTypeInv DEF Parse
  <2>2. CASE \E index \in 0..(ParameterCount - 1) : Ask(index)
    BY <2>2, AskInv
  <2>3. CASE UNCHANGED vars
    BY <2>3, StutterParse
  <2> QED  BY <2>1, <2>2, <2>3 DEF Next
<1> QED  BY <1>1, InitParse, PTL DEF Spec

----------------------------------------------------------------------------
(* The variables keep their types and the loop stays in the signature:     *)
(* the search for the closing parenthesis ends.                            *)
THEOREM TypeCorrect == Spec => []TypeOK
<1>1. ParseInv => TypeOK
  <2> SUFFICES ASSUME ParseInv PROVE TypeOK
    OBVIOUS
  <2>1. method \in InputSpace /\ Len(Signature) \in Nat
    BY Lengths, MethodIs, SignatureIs, LenProperties
  <2>2. at \in 1..(Len(Signature) + 1)
    <3>1. CASE pc = "parse"
      <4>1. at \in 1..Len(Signature)
        BY <3>1, CharacterIs
      <4> HIDE DEF Signature
      <4> QED  BY <2>1, <4>1
    <3>2. CASE pc = "done"
      BY <3>2 DEF ParseInv, Finished
    <3> QED  BY <3>1, <3>2 DEF ParseInv, Typed
  <2>3. {classBuffer, paramBuffer} \subseteq Seq(Characters)
    <3>1. classBuffer \in Seq(Characters) /\ paramBuffer \in Seq(Characters)
      BY Lengths
    <3> QED  BY <3>1, Zenon
  <2>4. /\ started \in BOOLEAN /\ paramTypes \in Seq(Seq(Characters))
        /\ pc \in {"parse", "done"}
        /\ asked \in 0..ParameterCount \cup {None}
        /\ answer \in {"yes", "no", "out of bounds", None}
    BY DEF ParseInv, Typed
  <2> QED  BY <2>1, <2>2, <2>3, <2>4 DEF TypeOK
<1> QED  BY <1>1, ParseInvariant, PTL

(* At any moment of the loop the result is a prefix of the declared types. *)
THEOREM TypesWhole == Spec => []TypesComeWhole
<1>1. ParseInv => TypesComeWhole
  <2> SUFFICES ASSUME ParseInv PROVE TypesComeWhole
    OBVIOUS
  <2> DEFINE s == paramTypes
             t == method.types
             n == Len(s)
  <2>1. /\ s \in Seq(Seq(Characters)) /\ n \in Nat /\ n <= Len(t)
        /\ t \in Seq(Seq(Characters)) /\ Len(t) \in Nat
        /\ \A k \in 1..n : s[k] = t[k]
    BY Lengths, MethodIs DEF ParseInv, Whole
  <2> HIDE DEF s, t, n
  <2>2. /\ SubSeq(t, 1, n) \in Seq(Seq(Characters))
        /\ Len(SubSeq(t, 1, n)) = n
        /\ \A k \in 1..n : SubSeq(t, 1, n)[k] = t[k]
    BY <2>1
  <2>3. s = SubSeq(t, 1, n)
    BY <2>1, <2>2, SeqEqual DEF n
  <2>4. SubSeq(s, 1, n) = s
    BY <2>1, SubSeqFull DEF n
  <2> QED  BY <2>1, <2>3, <2>4 DEF TypesComeWhole, IsPrefix, s, t, n
<1> QED  BY <1>1, ParseInvariant, PTL

(* A descriptor has no parentheses, so neither have the types.             *)
LEMMA NoParenthesis ==
  ASSUME method \in Inputs, NEW j \in 1..Len(FlattenSeq(method.types))
  PROVE  FlattenSeq(method.types)[j] # ")"
<1>1. method.types \in Seq(Seq(Characters))
  BY MethodIs
<1>2. PICK i \in 1..Len(method.types) :
        \E k \in 1..Len(method.types[i]) :
          FlattenSeq(method.types)[j] = method.types[i][k]
  BY <1>1, FlattenElement
<1>3. PICK d : d = method.types[i]
  OBVIOUS
<1>4. d \in Seq(Characters) /\ IsDescriptor(d) /\ Len(d) \in Nat
  BY <1>3, MethodIs, LenProperties
<1>5. PICK k \in 1..Len(d) : FlattenSeq(method.types)[j] = d[k]
  BY <1>2, <1>3
<1>6. PICK marks \in 0..(Len(d) - 1) :
        /\ \A l \in 1..marks : d[l] = "["
        /\ \/ Len(d) = marks + 1 /\ d[Len(d)] \in Letters
           \/ /\ Len(d) > marks + 1
              /\ d[marks + 1] = "L"
              /\ \A l \in (marks + 2)..(Len(d) - 1) :
                   d[l] \in Letters \cup {"L"}
              /\ d[Len(d)] = ";"
  BY <1>4 DEF IsDescriptor
<1>7. \/ k \in 1..marks \/ k = marks + 1 \/ k = Len(d)
      \/ k \in (marks + 2)..(Len(d) - 1)
  BY <1>4
<1>8. d[k] \in Letters \cup {"[", "L", ";"}
  <2>1. CASE Len(d) = marks + 1 /\ d[Len(d)] \in Letters
    <3>1. k \in 1..marks \/ k = Len(d)
      BY <1>4, <2>1
    <3> QED  BY <1>6, <2>1, <3>1
  <2>2. CASE /\ Len(d) > marks + 1
             /\ d[marks + 1] = "L"
             /\ \A l \in (marks + 2)..(Len(d) - 1) :
                  d[l] \in Letters \cup {"L"}
             /\ d[Len(d)] = ";"
    BY <1>6, <1>7, <2>2
  <2> QED  BY <1>6, <2>1, <2>2
<1> QED  BY <1>5, <1>8 DEF Letters

(* The first closing parenthesis is the one behind the types.              *)
LEMMA ReturnIs ==
  ASSUME method \in Inputs
  PROVE  ReturnValue = method.returns
<1> DEFINE p == Len(method.prefix)
           f == FlattenSeq(method.types)
           s == Signature
           r == method.returns
           e == p + 2 + Len(f)
<1>1. /\ s \in Seq(Characters) /\ f \in Seq(Characters)
      /\ Len(s) = p + Len(f) + 2 + Len(r)
      /\ \A k \in 1..p : s[k] = method.prefix[k]
      /\ s[p + 1] = "("
      /\ \A k \in 1..Len(f) : s[p + 1 + k] = f[k]
      /\ s[e] = ")"
      /\ \A k \in 1..Len(r) : s[e + k] = r[k]
  BY SignatureIs
<1>2. /\ r \in Seq(Characters) /\ p \in Nat
      /\ \A k \in 1..p : method.prefix[k] \notin {"(", ")"}
  BY MethodIs
<1>3. \A j \in 1..Len(f) : f[j] # ")"
  BY NoParenthesis
<1>4. ReturnValue = SubSeq(s, (CHOOSE i \in DOMAIN s :
                       s[i] = ")" /\ \A j \in 1..(i - 1) : s[j] # ")") + 1,
                     Len(s))
  BY DEF ReturnValue
<1>5. Len(f) \in Nat /\ Len(r) \in Nat
  BY <1>1, <1>2, LenProperties
<1> DEFINE l == Len(f)
           m == Len(r)
<1>6. l \in Nat /\ m \in Nat /\ p \in Nat /\ e = p + 2 + l
      /\ Len(s) = p + l + 2 + m /\ DOMAIN s = 1..Len(s)
  BY <1>1, <1>2, <1>5, LenProperties
<1>7. ASSUME NEW j \in 1..(e - 1) PROVE s[j] # ")"
  <2>1. CASE j \in 1..p
    BY <1>1, <1>2, <2>1
  <2>2. CASE j = p + 1
    BY <1>1, <2>2
  <2>3. CASE j \notin 1..p /\ j # p + 1
    <3>1. PICK k \in 1..l : j = p + 1 + k
      <4> HIDE DEF l, p
      <4>1. j - (p + 1) \in 1..l /\ j = p + 1 + (j - (p + 1))
        BY <1>6, <2>3
      <4> QED  BY <4>1
    <3>2. s[p + 1 + k] = f[k]
      BY <1>1, <3>1
    <3> QED  BY <1>3, <3>1, <3>2
  <2> QED  BY <2>1, <2>2, <2>3
<1> HIDE DEF p, f, s, r, e, l, m
<1>8. e \in DOMAIN s /\ e \in Nat
  BY <1>6
<1>9. ASSUME NEW i \in DOMAIN s, s[i] = ")",
             \A j \in 1..(i - 1) : s[j] # ")"
      PROVE  i = e
  <2>1. i \in Nat /\ i >= 1 /\ e >= 1
    BY <1>6
  <2>2. ~ i < e
    <3> SUFFICES ASSUME i < e PROVE FALSE
      OBVIOUS
    <3>1. i \in 1..(e - 1)
      BY <1>8, <2>1
    <3> QED  BY <1>7, <1>9, <3>1
  <2>3. ~ e < i
    <3> SUFFICES ASSUME e < i PROVE FALSE
      OBVIOUS
    <3>1. e \in 1..(i - 1)
      BY <1>8, <2>1
    <3> QED  BY <1>1, <1>9, <3>1
  <2> QED  BY <1>8, <2>1, <2>2, <2>3
<1>10. (CHOOSE i \in DOMAIN s :
          s[i] = ")" /\ \A j \in 1..(i - 1) : s[j] # ")") = e
  BY <1>1, <1>7, <1>8, <1>9
<1>11. ReturnValue = SubSeq(s, e + 1, Len(s))
  BY <1>4, <1>10
<1>12. PICK t : t = SubSeq(s, e + 1, Len(s))
  OBVIOUS
<1>13. /\ t \in Seq(Characters) /\ Len(t) = m
       /\ \A k \in 1..m : t[k] = s[e + k]
  <2>1. Len(s) = e + m /\ Len(s) \in Nat
    BY <1>6
  <2>2. t \in Seq(Characters)
    BY <1>1, <1>6, <1>8, <1>12, <2>1
  <2>3. Len(t) = m
    BY <1>1, <1>6, <1>8, <1>12, <2>1
  <2>4. ASSUME NEW k \in 1..m PROVE t[k] = s[e + k]
    <3>1. e + 1 + k - 1 = e + k
      BY <1>6, <1>8
    <3> QED  BY <1>1, <1>6, <1>8, <1>12, <2>1, <3>1
  <2> QED  BY <2>2, <2>3, <2>4
<1>14. t = r
  BY <1>1, <1>2, <1>13, SeqEqual DEF m
<1> QED  BY <1>11, <1>12, <1>14 DEF r

(* The types come out one by one, in order and complete, and the return    *)
(* type behind them, whatever precedes the signature.                      *)
THEOREM SignatureRead == Spec => []SignatureReadAsDeclared
<1>1. ParseInv => SignatureReadAsDeclared
  <2> SUFFICES ASSUME ParseInv, pc = "done"
               PROVE  paramTypes = method.types
                        /\ ReturnValue = method.returns
    BY DEF SignatureReadAsDeclared
  <2>1. /\ paramTypes \in Seq(Seq(Characters))
        /\ method.types \in Seq(Seq(Characters))
        /\ Len(paramTypes) = Len(method.types)
        /\ \A k \in 1..Len(paramTypes) : paramTypes[k] = method.types[k]
    BY Lengths, MethodIs DEF ParseInv, Whole, Finished
  <2>2. paramTypes = method.types
    BY <2>1, SeqEqual
  <2>3. ReturnValue = method.returns
    BY Lengths, ReturnIs
  <2> QED  BY <2>2, <2>3
<1> QED  BY <1>1, ParseInvariant, PTL

=============================================================================
