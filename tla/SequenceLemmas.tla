--------------------------- MODULE SequenceLemmas -----------------------------
(***************************************************************************)
(* Lemmas about sequences, among them what FlattenSeq does.  Induction is  *)
(* over sets: the theorems of the library about induction take a predicate *)
(* that the provers cannot instantiate, those about well-founded relations *)
(* do not.                                                                 *)
(***************************************************************************)
EXTENDS Integers, SequencesExt, SequenceTheorems, FiniteSetTheorems, TLAPS

(* Every set of naturals that is not empty has a least element: the        *)
(* library says that < is well founded on them.                            *)
LEMMA LeastNatural ==
  ASSUME NEW S, S \subseteq Nat, S # {}
  PROVE  \E m \in S : \A n \in S : m <= n
<1> DEFINE R == OpToRel(<, Nat)
<1>1. IsWellFoundedOn(R, Nat)
  BY NatLessThanWellFounded
<1>2. \A x, y \in Nat : x < y => <<x, y>> \in R
  BY DEF OpToRel
<1> HIDE DEF R
<1>3. PICK m \in S : \A n \in S : ~ (<<n, m>> \in R)
  BY <1>1, WFMin
<1>4. \A n \in S : ~ (n < m)
  BY <1>2, <1>3
<1> QED  BY <1>4

(* Induction over the naturals, for a set instead of a predicate, which    *)
(* the provers can instantiate.                                            *)
LEMMA SetInduction ==
  ASSUME NEW S, 0 \in S, \A n \in Nat : n \in S => n + 1 \in S
  PROVE  Nat \subseteq S
<1> DEFINE T == Nat \ S
<1> SUFFICES ASSUME T # {} PROVE FALSE
  OBVIOUS
<1>1. PICK m \in T : \A n \in T : m <= n
  BY LeastNatural
<1>2. m # 0
  OBVIOUS
<1>3. m - 1 \in Nat /\ m - 1 \notin T
  BY <1>1, <1>2
<1> QED  BY <1>1, <1>3

(* f[i] is the first i of the sequences s put together.                    *)
IsFlatten(f, s, n) ==
  f = [i \in 1..n |-> IF i = 1 THEN s[i] ELSE f[i - 1] \o s[i]]

(* There is such a function for every number of sequences.                 *)
LEMMA FlattenExists ==
  ASSUME NEW s, NEW n \in Nat
  PROVE  \E f : IsFlatten(f, s, n)
<1> DEFINE I == {k \in Nat : \E f : IsFlatten(f, s, k)}
<1>1. 0 \in I
  <2>1. IsFlatten([i \in 1..0 |-> IF i = 1 THEN s[i] ELSE <<>>], s, 0)
    BY DEF IsFlatten
  <2> QED  BY <2>1
<1>2. ASSUME NEW k \in Nat, k \in I PROVE k + 1 \in I
  <2>1. PICK f : IsFlatten(f, s, k)
    BY <1>2
  <2> DEFINE last == IF k = 0 THEN s[1] ELSE f[k] \o s[k + 1]
             g == [i \in 1..(k + 1) |-> IF i = k + 1 THEN last ELSE f[i]]
  <2>2. ASSUME NEW i \in 1..(k + 1)
        PROVE  g[i] = IF i = 1 THEN s[i] ELSE g[i - 1] \o s[i]
    <3>1. CASE i = k + 1
      BY <3>1
    <3>2. CASE i # k + 1
      <4>1. i \in 1..k
        BY <3>2
      <4>2. f[i] = IF i = 1 THEN s[i] ELSE f[i - 1] \o s[i]
        BY <2>1, <4>1 DEF IsFlatten
      <4>3. g[i] = f[i] /\ (i # 1 => g[i - 1] = f[i - 1])
        BY <4>1
      <4> QED  BY <4>2, <4>3
    <3> QED  BY <3>1, <3>2
  <2>3. IsFlatten(g, s, k + 1)
    <3> HIDE DEF last
    <3>1. g = [i \in 1..(k + 1) |-> g[i]]
      OBVIOUS
    <3> HIDE DEF g
    <3> QED  BY <2>2, <3>1 DEF IsFlatten
  <2> QED  BY <2>3
<1> QED
  <2> HIDE DEF I
  <2>1. Nat \subseteq I
    BY <1>1, <1>2, SetInduction
  <2> QED  BY <2>1 DEF I

(* What such a function does in one step.                                  *)
LEMMA FlattenStep ==
  ASSUME NEW s, NEW n \in Nat, NEW f, IsFlatten(f, s, n), NEW i \in 1..n
  PROVE  f[i] = IF i = 1 THEN s[i] ELSE f[i - 1] \o s[i]
  BY DEF IsFlatten

(* Two such functions agree as long as the sequences do.                   *)
LEMMA FlattenUnique ==
  ASSUME NEW s, NEW t, NEW k \in Nat, NEW n \in Nat, k <= n, NEW f, NEW g,
         IsFlatten(f, s, k), IsFlatten(g, t, n), \A i \in 1..k : s[i] = t[i]
  PROVE  \A i \in 1..k : f[i] = g[i]
<1> DEFINE I == {i \in Nat : i \in 1..k => f[i] = g[i]}
<1>1. 0 \in I
  OBVIOUS
<1>2. ASSUME NEW i \in Nat, i \in I PROVE i + 1 \in I
  <2> SUFFICES ASSUME i + 1 \in 1..k PROVE f[i + 1] = g[i + 1]
    OBVIOUS
  <2> DEFINE j == i + 1
  <2>1. j \in 1..k /\ j \in 1..n /\ (j # 1 => f[j - 1] = g[j - 1])
    BY <1>2
  <2> HIDE DEF j
  <2>2. /\ f[j] = IF j = 1 THEN s[j] ELSE f[j - 1] \o s[j]
        /\ g[j] = IF j = 1 THEN t[j] ELSE g[j - 1] \o t[j]
    BY <2>1, FlattenStep
  <2>3. f[j] = g[j]
    BY <2>1, <2>2
  <2> QED  BY <2>3 DEF j
<1> QED
  <2> HIDE DEF I
  <2>1. Nat \subseteq I
    BY <1>1, <1>2, SetInduction
  <2> QED  BY <2>1 DEF I

(* FlattenSeq of sequences that are not none is the last value of such a   *)
(* function.                                                               *)
LEMMA FlattenIs ==
  ASSUME NEW S, NEW s \in Seq(Seq(S)), s # <<>>
  PROVE  \E f : IsFlatten(f, s, Len(s)) /\ FlattenSeq(s) = f[Len(s)]
<1>1. Len(s) \in Nat /\ Len(s) # 0
  OBVIOUS
<1> DEFINE f == CHOOSE h : IsFlatten(h, s, Len(s))
<1>2. IsFlatten(f, s, Len(s))
  BY <1>1, FlattenExists
<1>3. FlattenSeq(s) = f[Len(s)]
  BY <1>1 DEF FlattenSeq, IsFlatten
<1> QED  BY <1>2, <1>3

(* Without sequences there is nothing to put together.                     *)
LEMMA FlattenEmpty == FlattenSeq(<<>>) = <<>>
  BY DEF FlattenSeq

(* One more sequence goes behind the others.                               *)
LEMMA FlattenAppend ==
  ASSUME NEW S, NEW s \in Seq(Seq(S)), NEW e \in Seq(S)
  PROVE  FlattenSeq(Append(s, e)) = FlattenSeq(s) \o e
<1> DEFINE t == Append(s, e)
           n == Len(s)
<1>1. /\ t \in Seq(Seq(S)) /\ t # <<>> /\ Len(t) = n + 1
      /\ t[n + 1] = e /\ n \in Nat /\ \A i \in 1..n : t[i] = s[i]
  BY AppendProperties, LenProperties
<1> HIDE DEF t, n
<1>2. PICK g : IsFlatten(g, t, n + 1) /\ FlattenSeq(t) = g[n + 1]
  BY <1>1, FlattenIs
<1>3. g[n + 1] = IF n = 0 THEN e ELSE g[n] \o e
  <2>1. n + 1 \in 1..(n + 1)
    BY <1>1
  <2>2. g[n + 1] = IF n + 1 = 1 THEN t[n + 1] ELSE g[n + 1 - 1] \o t[n + 1]
    BY <1>1, <1>2, <2>1, FlattenStep
  <2>3. n + 1 - 1 = n /\ (n + 1 = 1 <=> n = 0)
    BY <1>1
  <2> QED  BY <1>1, <2>2, <2>3
<1>4. CASE n = 0
  <2>1. s = <<>>
    BY <1>4 DEF n
  <2>2. FlattenSeq(s) \o e = e
    BY <2>1, FlattenEmpty
  <2> QED  BY <1>2, <1>3, <1>4, <2>2 DEF t
<1>5. CASE n # 0
  <2>1. PICK f : IsFlatten(f, s, n) /\ FlattenSeq(s) = f[n]
    <3>1. s # <<>>
      BY <1>5 DEF n
    <3> QED  BY <3>1, FlattenIs DEF n
  <2>2. n \in Nat /\ n + 1 \in Nat /\ n <= n + 1 /\ n \in 1..n
    BY <1>1, <1>5
  <2>3. \A i \in 1..n : s[i] = t[i]
    BY <1>1
  <2>4. \A i \in 1..n : f[i] = g[i]
    BY <1>2, <2>1, <2>2, <2>3, FlattenUnique
  <2>5. f[n] = g[n]
    BY <2>2, <2>4
  <2> QED  BY <1>2, <1>3, <1>5, <2>1, <2>5 DEF t
<1> QED  BY <1>4, <1>5

(* Induction over sequences: a set that has the empty one, and with a      *)
(* sequence those an element longer, has all.                              *)
LEMMA SequenceInduction ==
  ASSUME NEW S, NEW T, <<>> \in T,
         \A s \in Seq(S), e \in S : s \in T => Append(s, e) \in T
  PROVE  Seq(S) \subseteq T
<1> DEFINE I == {n \in Nat : \A s \in Seq(S) : Len(s) = n => s \in T}
<1>1. 0 \in I
  <2>1. \A s \in Seq(S) : Len(s) = 0 => s = <<>>
    OBVIOUS
  <2> QED  BY <2>1
<1>2. ASSUME NEW n \in Nat, n \in I PROVE n + 1 \in I
  <2> SUFFICES ASSUME NEW s \in Seq(S), Len(s) = n + 1 PROVE s \in T
    OBVIOUS
  <2>1. PICK p \in Seq(S), e \in S : s = Append(p, e)
    BY SequenceEmptyOrAppend
  <2>2. Len(p) = n
    BY <2>1, AppendProperties, LenProperties
  <2> QED  BY <1>2, <2>1, <2>2
<1> QED
  <2> HIDE DEF I
  <2>1. Nat \subseteq I
    BY <1>1, <1>2, SetInduction
  <2>2. \A s \in Seq(S) : Len(s) \in I
    BY <2>1
  <2> QED  BY <2>2 DEF I

(* The elements stay what they are.                                        *)
LEMMA FlattenType ==
  ASSUME NEW S, NEW s \in Seq(Seq(S))
  PROVE  FlattenSeq(s) \in Seq(S)
<1> DEFINE T == {t \in Seq(Seq(S)) : FlattenSeq(t) \in Seq(S)}
<1>1. <<>> \in T
  <2>1. <<>> \in Seq(Seq(S)) /\ <<>> \in Seq(S)
    BY EmptySeq
  <2> QED  BY <2>1, FlattenEmpty
<1>2. ASSUME NEW t \in Seq(Seq(S)), NEW e \in Seq(S), t \in T
      PROVE  Append(t, e) \in T
  <2>1. Append(t, e) \in Seq(Seq(S))
    BY AppendProperties
  <2>2. FlattenSeq(t) \o e \in Seq(S)
    BY <1>2
  <2> QED  BY <2>1, <2>2, FlattenAppend
<1> QED
  <2> HIDE DEF T
  <2>1. Seq(Seq(S)) \subseteq T
    BY <1>1, <1>2, SequenceInduction
  <2> QED  BY <2>1 DEF T

(* FlattenSeq distributes over concatenation.                              *)
LEMMA FlattenConcat ==
  ASSUME NEW S, NEW s \in Seq(Seq(S)), NEW t \in Seq(Seq(S))
  PROVE  FlattenSeq(s \o t) = FlattenSeq(s) \o FlattenSeq(t)
<1> DEFINE T == {u \in Seq(Seq(S)) :
                   FlattenSeq(s \o u) = FlattenSeq(s) \o FlattenSeq(u)}
<1>1. <<>> \in T
  <2>1. s \o <<>> = s
    BY ConcatEmptySeq
  <2>2. FlattenSeq(s) \o <<>> = FlattenSeq(s)
    BY FlattenType, ConcatEmptySeq
  <2>3. <<>> \in Seq(Seq(S))
    BY EmptySeq
  <2> QED  BY <2>1, <2>2, <2>3, FlattenEmpty
<1>2. ASSUME NEW u \in Seq(Seq(S)), NEW e \in Seq(S), u \in T
      PROVE  Append(u, e) \in T
  <2>1. /\ Append(u, e) \in Seq(Seq(S))
        /\ s \o u \in Seq(Seq(S))
    BY AppendProperties, ConcatProperties
  <2>2. s \o Append(u, e) = Append(s \o u, e)
    <3>1. <<e>> \in Seq(Seq(S))
      OBVIOUS
    <3>2. s \o (u \o <<e>>) = (s \o u) \o <<e>>
      BY <3>1, ConcatAssociative
    <3>3. Append(u, e) = u \o <<e>> /\ Append(s \o u, e) = (s \o u) \o <<e>>
      BY <2>1, AppendIsConcat
    <3> QED  BY <3>2, <3>3
  <2>3. FlattenSeq(s \o Append(u, e)) = (FlattenSeq(s) \o FlattenSeq(u)) \o e
    BY <1>2, <2>1, <2>2, FlattenAppend
  <2>4. FlattenSeq(Append(u, e)) = FlattenSeq(u) \o e
    BY FlattenAppend
  <2>5. /\ FlattenSeq(s) \in Seq(S)
        /\ FlattenSeq(u) \in Seq(S)
    BY FlattenType
  <2>6. (FlattenSeq(s) \o FlattenSeq(u)) \o e
          = FlattenSeq(s) \o (FlattenSeq(u) \o e)
    BY <2>5, ConcatAssociative, SMTT(30)
  <2> QED  BY <2>1, <2>3, <2>4, <2>6
<1> QED
  <2> HIDE DEF T
  <2>1. Seq(Seq(S)) \subseteq T
    BY <1>1, <1>2, SequenceInduction
  <2> QED  BY <2>1 DEF T

(* Every element of the concatenation is an element of one of the parts.   *)
LEMMA FlattenElement ==
  ASSUME NEW S, NEW s \in Seq(Seq(S)), NEW j \in 1..Len(FlattenSeq(s))
  PROVE  \E i \in 1..Len(s) : \E k \in 1..Len(s[i]) :
           FlattenSeq(s)[j] = s[i][k]
<1> DEFINE Of(t, n) == \E i \in 1..Len(t) : \E k \in 1..Len(t[i]) :
                        FlattenSeq(t)[n] = t[i][k]
           T == {t \in Seq(Seq(S)) : \A n \in 1..Len(FlattenSeq(t)) : Of(t, n)}
<1>1. <<>> \in T
  BY FlattenEmpty
<1>2. ASSUME NEW t \in Seq(Seq(S)), NEW e \in Seq(S), t \in T
      PROVE  Append(t, e) \in T
  <2> DEFINE u == Append(t, e)
             f == FlattenSeq(t)
  <2>1. /\ u \in Seq(Seq(S)) /\ Len(u) = Len(t) + 1 /\ u[Len(t) + 1] = e
        /\ \A i \in 1..Len(t) : u[i] = t[i]
    BY AppendProperties
  <2>2. FlattenSeq(u) = f \o e
    BY FlattenAppend
  <2>3. f \in Seq(S)
    BY FlattenType
  <2>4. /\ Len(f \o e) = Len(f) + Len(e)
        /\ \A n \in 1..(Len(f) + Len(e)) :
             (f \o e)[n] = IF n <= Len(f) THEN f[n] ELSE e[n - Len(f)]
    BY <2>3, ConcatProperties
  <2>5. Len(t) \in Nat /\ Len(f) \in Nat /\ Len(e) \in Nat
    BY <2>3
  <2> SUFFICES ASSUME NEW n \in 1..Len(FlattenSeq(u)) PROVE Of(u, n)
    BY <2>1
  <2> HIDE DEF u
  <2>6. n \in 1..(Len(f) + Len(e))
    BY <2>2, <2>4
  <2>7. CASE n <= Len(f)
    <3>1. n \in 1..Len(f)
      BY <2>5, <2>6, <2>7
    <3>2. PICK i \in 1..Len(t) : \E k \in 1..Len(t[i]) : f[n] = t[i][k]
      BY <1>2, <3>1
    <3>3. i \in 1..Len(u) /\ u[i] = t[i]
      BY <2>1, <2>5
    <3> QED  BY <2>2, <2>4, <2>6, <2>7, <3>2, <3>3
  <2>8. CASE n > Len(f)
    <3>1. n - Len(f) \in 1..Len(e) /\ ~ (n <= Len(f))
      BY <2>5, <2>6, <2>8
    <3>2. FlattenSeq(u)[n] = e[n - Len(f)]
      BY <2>2, <2>4, <2>6, <3>1
    <3>3. Len(t) + 1 \in 1..Len(u) /\ u[Len(t) + 1] = e
      BY <2>1, <2>5
    <3> QED  BY <3>1, <3>2, <3>3
  <2> QED  BY <2>5, <2>6, <2>7, <2>8
<1> QED
  <2>1. Seq(Seq(S)) \subseteq T
    <3> HIDE DEF T
    <3> QED  BY <1>1, <1>2, SequenceInduction
  <2> QED  BY <2>1

(* A bounded set of numbers has a largest one.                             *)
LEMMA MaxIs ==
  ASSUME NEW S, S \subseteq Nat, S # {}, NEW n \in Nat, \A x \in S : x <= n
  PROVE  Max(S) \in S /\ \A x \in S : x <= Max(S)
<1> DEFINE B == {m \in Nat : \A x \in S : x <= m}
<1>1. PICK m \in B : \A k \in B : m <= k
  <2>1. n \in B /\ B \subseteq Nat
    OBVIOUS
  <2> HIDE DEF B
  <2> QED  BY <2>1, LeastNatural
<1>2. m \in S
  <2> SUFFICES ASSUME m \notin S PROVE FALSE
    OBVIOUS
  <2>1. \A x \in S : x \in Nat /\ x <= m - 1
    BY <1>1
  <2>2. m - 1 \in Nat
    <3>1. PICK x \in S : x \in Nat /\ x <= m - 1
      BY <2>1
    <3> QED  BY <3>1
  <2>3. m - 1 \in B
    BY <2>1, <2>2
  <2> QED  BY <1>1, <2>3
<1>3. \A x \in S : m >= x
  BY <1>1
<1>4. Max(S) \in S /\ \A x \in S : Max(S) >= x
  BY <1>2, <1>3 DEF Max
<1> QED  BY <1>4

(* A function on 1..n is a sequence of length n.                           *)
LEMMA FunctionIsSeq ==
  ASSUME NEW S, NEW n \in Nat, NEW f \in [1..n -> S]
  PROVE  f \in Seq(S) /\ Len(f) = n
<1>1. f \in Seq(S)
  BY SeqDef
<1> QED  BY <1>1

(* The elements of a concatenation, counted from where each part begins.   *)
Joins(r, s, t, S) ==
  /\ r \in Seq(S)
  /\ Len(r) = Len(s) + Len(t)
  /\ \A k \in 1..Len(s) : r[k] = s[k]
  /\ \A k \in 1..Len(t) : r[Len(s) + k] = t[k]

LEMMA ConcatJoins ==
  ASSUME NEW S, NEW s \in Seq(S), NEW t \in Seq(S)
  PROVE  Joins(s \o t, s, t, S)
<1>1. Len(s) \in Nat /\ Len(t) \in Nat
  BY LenProperties
<1>2. /\ s \o t \in Seq(S) /\ Len(s \o t) = Len(s) + Len(t)
      /\ \A i \in 1..(Len(s) + Len(t)) :
           (s \o t)[i] = IF i <= Len(s) THEN s[i] ELSE t[i - Len(s)]
  BY ConcatProperties
<1>3. ASSUME NEW k \in 1..Len(t) PROVE (s \o t)[Len(s) + k] = t[k]
  <2>1. /\ Len(s) + k \in 1..(Len(s) + Len(t))
        /\ ~ (Len(s) + k <= Len(s)) /\ Len(s) + k - Len(s) = k
    BY <1>1
  <2> QED  BY <1>2, <2>1
<1> QED  BY <1>1, <1>2, <1>3 DEF Joins

(* And every element of a part is an element of the concatenation.         *)
LEMMA FlattenHolds ==
  ASSUME NEW S, NEW s \in Seq(Seq(S)), NEW i \in 1..Len(s),
         NEW k \in 1..Len(s[i])
  PROVE  \E j \in 1..Len(FlattenSeq(s)) : FlattenSeq(s)[j] = s[i][k]
<1> DEFINE In(t, m, n) == \E j \in 1..Len(FlattenSeq(t)) :
                            FlattenSeq(t)[j] = t[m][n]
           T == {t \in Seq(Seq(S)) :
                   \A m \in 1..Len(t) : \A n \in 1..Len(t[m]) : In(t, m, n)}
<1>1. <<>> \in T
  BY EmptySeq
<1>2. ASSUME NEW t \in Seq(Seq(S)), NEW e \in Seq(S), t \in T
      PROVE  Append(t, e) \in T
  <2> DEFINE u == Append(t, e)
             f == FlattenSeq(t)
  <2>1. /\ u \in Seq(Seq(S)) /\ Len(u) = Len(t) + 1 /\ u[Len(t) + 1] = e
        /\ \A m \in 1..Len(t) : u[m] = t[m]
    BY AppendProperties
  <2>2. FlattenSeq(u) = f \o e
    BY FlattenAppend
  <2>3. f \in Seq(S)
    BY FlattenType
  <2>4. Joins(f \o e, f, e, S)
    BY <2>3, ConcatJoins
  <2>5. Len(t) \in Nat /\ Len(f) \in Nat /\ Len(e) \in Nat
    BY <2>3
  <2> SUFFICES ASSUME NEW m \in 1..Len(u), NEW n \in 1..Len(u[m])
               PROVE  In(u, m, n)
    BY <2>1
  <2> HIDE DEF u
  <2>6. m \in 1..Len(t) \/ m = Len(t) + 1
    BY <2>1, <2>5
  <2>7. CASE m \in 1..Len(t)
    <3>1. u[m] = t[m]
      BY <2>1, <2>7
    <3>2. PICK j \in 1..Len(f) : f[j] = t[m][n]
      BY <1>2, <2>7, <3>1
    <3>3. j \in 1..Len(f \o e) /\ (f \o e)[j] = f[j]
      BY <2>4, <2>5 DEF Joins
    <3> QED  BY <2>2, <3>1, <3>2, <3>3
  <2>8. CASE m = Len(t) + 1
    <3>1. u[m] = e /\ n \in 1..Len(e)
      BY <2>1, <2>8
    <3>2. /\ Len(f) + n \in 1..Len(f \o e)
          /\ (f \o e)[Len(f) + n] = e[n]
      BY <2>4, <2>5, <3>1 DEF Joins
    <3> QED  BY <2>2, <3>1, <3>2
  <2> QED  BY <2>6, <2>7, <2>8
<1> QED
  <2>1. Seq(Seq(S)) \subseteq T
    <3> HIDE DEF T
    <3> QED  BY <1>1, <1>2, SequenceInduction
  <2> QED  BY <2>1

(* InsertAt moves the elements from place n on one place back.             *)
LEMMA InsertAtIs ==
  ASSUME NEW S, NEW s \in Seq(S), NEW x \in S, NEW n \in 1..(Len(s) + 1)
  PROVE  /\ InsertAt(s, n, x) \in Seq(S)
         /\ Len(InsertAt(s, n, x)) = Len(s) + 1
         /\ \A k \in 1..(Len(s) + 1) :
              InsertAt(s, n, x)[k] = IF k < n THEN s[k]
                                     ELSE IF k = n THEN x ELSE s[k - 1]
<1> DEFINE p == SubSeq(s, 1, n - 1)
           q == SubSeq(s, n, Len(s))
<1>0. Len(s) \in Nat /\ \A k \in 1..Len(s) : s[k] \in S
  BY LenProperties, ElementOfSeq
<1>1. /\ p \in Seq(S) /\ Len(p) = n - 1
      /\ \A k \in 1..(n - 1) : p[k] = s[k]
  BY <1>0, SubSeqProperties
<1>2. /\ q \in Seq(S) /\ Len(q) = Len(s) - n + 1
      /\ \A k \in 1..(Len(s) - n + 1) : q[k] = s[n + k - 1]
  BY <1>0, SubSeqProperties
<1> HIDE DEF p, q
<1>3. /\ <<x>> \in Seq(S) /\ Len(<<x>>) = 1 /\ <<x>>[1] = x
  OBVIOUS
<1>4. /\ p \o <<x>> \in Seq(S) /\ Len(p \o <<x>>) = n
      /\ \A k \in 1..n : (p \o <<x>>)[k] = IF k < n THEN s[k] ELSE x
  <2> DEFINE e == <<x>>
  <2>1. e \in Seq(S) /\ Len(e) = 1 /\ e[1] = x
    BY <1>3
  <2> HIDE DEF e
  <2>2. /\ p \o e \in Seq(S) /\ Len(p \o e) = Len(p) + Len(e)
        /\ \A k \in 1..Len(p) : (p \o e)[k] = p[k]
        /\ \A k \in 1..Len(e) : (p \o e)[Len(p) + k] = e[k]
    <3>1. Joins(p \o e, p, e, S)
      BY <1>1, <2>1, ConcatJoins
    <3> QED  BY <3>1 DEF Joins
  <2>3. Len(p \o e) = n
    BY <1>1, <2>1, <2>2
  <2>4. ASSUME NEW k \in 1..n
        PROVE  (p \o e)[k] = IF k < n THEN s[k] ELSE x
    <3>1. CASE k < n
      BY <1>1, <2>2, <3>1
    <3>2. CASE k = n
      <4>1. (p \o e)[n - 1 + 1] = x
        BY <1>1, <2>1, <2>2
      <4>2. n - 1 + 1 = k /\ ~ (k < n)
        BY <3>2
      <4> QED  BY <4>1, <4>2
    <3>3. k < n \/ k = n
      OBVIOUS
    <3> QED  BY <3>1, <3>2, <3>3
  <2> QED  BY <2>2, <2>3, <2>4 DEF e
<1>5. InsertAt(s, n, x) = (p \o <<x>>) \o q
  BY DEF InsertAt, p, q
<1> DEFINE u == p \o <<x>>
<1>6. u \in Seq(S) /\ Len(u) = n
  BY <1>4
<1>7. \A k \in 1..n : u[k] = IF k < n THEN s[k] ELSE x
  BY <1>4
<1> HIDE DEF u
<1>8. /\ u \o q \in Seq(S) /\ Len(u \o q) = Len(s) + 1
      /\ \A k \in 1..(Len(s) + 1) :
           (u \o q)[k] = IF k <= n THEN u[k] ELSE q[k - n]
  <2>1. Len(u) + Len(q) = Len(s) + 1
    BY <1>0, <1>2, <1>6
  <2>2. Joins(u \o q, u, q, S)
    BY <1>2, <1>6, ConcatJoins
  <2>3. /\ u \o q \in Seq(S) /\ Len(u \o q) = Len(s) + 1
        /\ \A k \in 1..n : (u \o q)[k] = u[k]
        /\ \A k \in 1..Len(q) : (u \o q)[n + k] = q[k]
    BY <1>6, <2>1, <2>2 DEF Joins
  <2>4. ASSUME NEW k \in 1..(Len(s) + 1)
        PROVE  (u \o q)[k] = IF k <= n THEN u[k] ELSE q[k - n]
    <3>1. CASE k <= n
      <4>1. k \in 1..n
        BY <3>1
      <4> QED  BY <2>3, <3>1, <4>1
    <3>2. CASE ~ (k <= n)
      <4>1. k - n \in 1..Len(q) /\ n + (k - n) = k
        BY <1>0, <1>2, <3>2
      <4>2. (u \o q)[n + (k - n)] = q[k - n]
        BY <2>3, <4>1
      <4> QED  BY <3>2, <4>1, <4>2
    <3> QED  BY <3>1, <3>2
  <2> QED  BY <2>3, <2>4
<1>9. ASSUME NEW k \in 1..(Len(s) + 1)
      PROVE  (u \o q)[k] = IF k < n THEN s[k]
                           ELSE IF k = n THEN x ELSE s[k - 1]
  <2>1. CASE k <= n
    BY <1>7, <1>8, <2>1
  <2>2. CASE k > n
    <3>1. k - n \in 1..(Len(s) - n + 1) /\ n + (k - n) - 1 = k - 1
      BY <1>0, <2>2
    <3>2. q[k - n] = s[k - 1]
      BY <1>2, <3>1
    <3>3. ~ (k <= n) /\ ~ (k < n) /\ k # n
      BY <2>2
    <3> QED  BY <1>8, <3>2, <3>3
  <2>3. k <= n \/ k > n
    OBVIOUS
  <2> QED  BY <2>1, <2>2, <2>3
<1> QED  BY <1>5, <1>8, <1>9 DEF u

Inserts(r, s, n, x, S) ==
  /\ r \in Seq(S) /\ Len(r) = Len(s) + 1
  /\ \A j \in 1..(Len(s) + 1) :
       r[j] = IF j < n THEN s[j] ELSE IF j = n THEN x ELSE s[j - 1]

LEMMA InsertAtInserts ==
  ASSUME NEW S, NEW s \in Seq(S), NEW x \in S, NEW n \in 1..(Len(s) + 1)
  PROVE  Inserts(InsertAt(s, n, x), s, n, x, S)
  BY InsertAtIs, SMTT(30) DEF Inserts

(* Last of a sequence that is not empty is its element at Len.             *)
LEMMA LastIs ==
  ASSUME NEW S, NEW s \in Seq(S), s # <<>>
  PROVE  Len(s) \in 1..Len(s) /\ Last(s) = s[Len(s)] /\ Last(s) \in S
<1>1. Len(s) \in 1..Len(s)
  BY LenProperties
<1> QED  BY <1>1, ElementOfSeq DEF Last

(* The elements of a tail are elements of the sequence.                    *)
LEMMA TailIs ==
  ASSUME NEW S, NEW s \in Seq(S), s # <<>>
  PROVE  /\ Tail(s) \in Seq(S)
         /\ \A n \in DOMAIN Tail(s) :
              n + 1 \in DOMAIN s /\ Tail(s)[n] = s[n + 1]
  OBVIOUS

(* The elements of a sequence of naturals have a bound.                    *)
LEMMA BoundOf ==
  ASSUME NEW s \in Seq(Nat)
  PROVE  \E n \in Nat : \A k \in 1..Len(s) : s[k] <= n
<1> DEFINE T == {t \in Seq(Nat) :
                   \E n \in Nat : \A k \in 1..Len(t) : t[k] <= n}
<1>1. <<>> \in T
  BY EmptySeq
<1>2. ASSUME NEW t \in Seq(Nat), NEW e \in Nat, t \in T
      PROVE  Append(t, e) \in T
  <2> DEFINE u == Append(t, e)
  <2>1. /\ u \in Seq(Nat) /\ Len(u) = Len(t) + 1 /\ Len(t) \in Nat
        /\ u[Len(t) + 1] = e /\ \A k \in 1..Len(t) : u[k] = t[k]
    BY AppendProperties, LenProperties
  <2>2. PICK n \in Nat : \A k \in 1..Len(t) : t[k] <= n
    BY <1>2
  <2> HIDE DEF u
  <2>3. \A k \in 1..Len(u) : u[k] <= n + e
    <3> SUFFICES ASSUME NEW k \in 1..Len(u) PROVE u[k] <= n + e
      OBVIOUS
    <3>1. k \in 1..Len(t) \/ k = Len(t) + 1
      BY <2>1
    <3>2. CASE k \in 1..Len(t)
      <4>1. u[k] <= n /\ u[k] \in Nat
        <5>1. t[k] \in Nat
          BY <3>2, ElementOfSeq
        <5> QED  BY <2>1, <2>2, <3>2, <5>1
      <4> QED  BY <4>1
    <3>3. CASE k = Len(t) + 1
      BY <2>1, <3>3
    <3> QED  BY <3>1, <3>2, <3>3
  <2>4. n + e \in Nat
    OBVIOUS
  <2> QED  BY <2>1, <2>3, <2>4 DEF u
<1> HIDE DEF T
<1>3. Seq(Nat) \subseteq T
  BY <1>1, <1>2, SequenceInduction
<1> QED  BY <1>3 DEF T

(* A sequence of one sequence, put together.                               *)
LEMMA FlattenOne ==
  ASSUME NEW S, NEW e \in Seq(S)
  PROVE  FlattenSeq(<<e>>) = e
<1> DEFINE n == <<>>
<1>1. n \in Seq(Seq(S)) /\ n \in Seq(S)
  BY EmptySeq
<1>2. Append(n, e) = <<e>>
  OBVIOUS
<1>3. FlattenSeq(n) = n /\ n \o e = e
  BY FlattenEmpty, ConcatEmptySeq
<1>4. FlattenSeq(Append(n, e)) = FlattenSeq(n) \o e
  BY <1>1, FlattenAppend
<1> QED  BY <1>2, <1>3, <1>4

(* Nothing comes of nothing, and only of nothing.                          *)
LEMMA FlattenNone ==
  ASSUME NEW S, NEW s \in Seq(Seq(S))
  PROVE  FlattenSeq(s) = <<>> <=> \A i \in 1..Len(s) : s[i] = <<>>
<1>1. ASSUME FlattenSeq(s) = <<>>, NEW i \in 1..Len(s), s[i] # <<>>
      PROVE  FALSE
  <2>1. s[i] \in Seq(S)
    BY ElementOfSeq
  <2>2. PICK k \in 1..Len(s[i]) : k = 1
    BY <1>1, <2>1, EmptySeq
  <2>3. \E j \in 1..Len(FlattenSeq(s)) : FlattenSeq(s)[j] = s[i][k]
    BY FlattenHolds
  <2> QED  BY <1>1, <2>3
<1>2. ASSUME \A i \in 1..Len(s) : s[i] = <<>>, FlattenSeq(s) # <<>>
      PROVE  FALSE
  <2>1. FlattenSeq(s) \in Seq(S)
    BY FlattenType
  <2>2. 1 \in 1..Len(FlattenSeq(s))
    BY <1>2, <2>1, EmptySeq
  <2>3. PICK i \in 1..Len(s) : \E k \in 1..Len(s[i]) :
          FlattenSeq(s)[1] = s[i][k]
    BY <2>2, FlattenElement
  <2>4. s[i] = <<>>
    BY <1>2
  <2> QED  BY <2>3, <2>4
<1> QED  BY <1>1, <1>2

(* Concatenation under a name: the provers then rearrange it by these two  *)
(* facts, not by what they know of sequences.                              *)
Cat(s, t) == s \o t

LEMMA CatType ==
  ASSUME NEW S, NEW s \in Seq(S), NEW t \in Seq(S)
  PROVE  Cat(s, t) \in Seq(S)
BY ConcatProperties DEF Cat

LEMMA CatAssociative ==
  ASSUME NEW S, NEW s \in Seq(S), NEW t \in Seq(S), NEW u \in Seq(S)
  PROVE  Cat(Cat(s, t), u) = Cat(s, Cat(t, u))
BY ConcatAssociative, SMTT(30) DEF Cat

(* A sequence taken apart at place i.                                      *)
LEMMA SplitAt ==
  ASSUME NEW S, NEW s \in Seq(S), NEW i \in 1..Len(s)
  PROVE  /\ SubSeq(s, 1, i - 1) \in Seq(S)
         /\ SubSeq(s, i + 1, Len(s)) \in Seq(S)
         /\ s = (SubSeq(s, 1, i - 1) \o <<s[i]>>) \o SubSeq(s, i + 1, Len(s))
<1> DEFINE p == SubSeq(s, 1, i - 1)
           q == SubSeq(s, i + 1, Len(s))
           e == <<s[i]>>
<1>1. Len(s) \in Nat /\ \A k \in 1..Len(s) : s[k] \in S
  BY LenProperties, ElementOfSeq
<1>2. p \in Seq(S) /\ q \in Seq(S) /\ e \in Seq(S)
  <2>1. p \in Seq(S)
    BY <1>1, SubSeqProperties
  <2>2. q \in Seq(S)
    BY <1>1, SubSeqProperties
  <2> QED  BY <1>1, <2>1, <2>2
<1>3. p \o SubSeq(s, (i - 1) + 1, Len(s)) = SubSeq(s, 1, Len(s))
  <2>1. /\ 1 \in 1..Len(s) + 1 /\ i - 1 \in 1 - 1..Len(s)
        /\ Len(s) \in i - 1..Len(s)
    BY <1>1
  <2> QED  BY <2>1, ConcatAdjacentSubSeq
<1>4. SubSeq(s, i, Len(s)) = e \o q
  <2>1. Len(s) \in i..Len(s)
    BY <1>1
  <2> QED  BY <2>1, SubSeqRecursiveFirst
<1>5. (i - 1) + 1 = i
  OBVIOUS
<1>6. SubSeq(s, 1, Len(s)) = s
  BY SubSeqFull
<1> HIDE DEF p, q, e
<1>7. (p \o e) \o q = p \o (e \o q)
  <2>1. Cat(Cat(p, e), q) = Cat(p, Cat(e, q))
    BY <1>2, CatAssociative
  <2> QED  BY <2>1 DEF Cat
<1> QED  BY <1>2, <1>3, <1>4, <1>5, <1>6, <1>7 DEF p, q, e

(* The parts before and behind part i, put together.  If it is replaced,   *)
(* they stay what they are.                                                *)
Differ(s, t, i) ==
  Len(t) = Len(s) /\ \A j \in 1..Len(s) : j # i => t[j] = s[j]

EndsAt(s, i) == \A j \in 1..Len(s) : i < j => s[j] = <<>>

LEMMA FlattenAround ==
  ASSUME NEW S, NEW s \in Seq(Seq(S)), NEW t \in Seq(Seq(S)),
         NEW i \in 1..Len(s), Differ(s, t, i)
  PROVE  \E l, r \in Seq(S) :
           /\ FlattenSeq(s) = Cat(Cat(l, s[i]), r)
           /\ FlattenSeq(t) = Cat(Cat(l, t[i]), r)
           /\ EndsAt(s, i) => r = <<>>
<1> USE DEF Differ, EndsAt
<1> DEFINE p == SubSeq(s, 1, i - 1)
           q == SubSeq(s, i + 1, Len(s))
<1>0. /\ Len(s) \in Nat /\ s[i] \in Seq(S) /\ t[i] \in Seq(S)
      /\ i \in Nat /\ i \in 1..Len(t)
      /\ \A k \in 1..(Len(s) - i) : i + k \in 1..Len(s) /\ i < i + k
  <2>1. s[i] \in Seq(S) /\ t[i] \in Seq(S)
    BY ElementOfSeq
  <2>2. PICK n \in Nat : n = Len(s)
    BY LenProperties
  <2>3. i \in Nat /\ i <= n
    BY <2>2
  <2>4. \A k \in 1..(n - i) : i + k \in 1..n /\ i < i + k
    BY <2>3
  <2> QED  BY <2>1, <2>2, <2>3, <2>4
<1>1. p \in Seq(Seq(S)) /\ q \in Seq(Seq(S)) /\ s = (p \o <<s[i]>>) \o q
  BY SplitAt
<1>2. SubSeq(t, 1, i - 1) = p /\ SubSeq(t, i + 1, Len(s)) = q
  <2> DEFINE u == SubSeq(t, 1, i - 1)
             v == SubSeq(t, i + 1, Len(s))
  <2>1. \A k \in 1..Len(s) : t[k] \in Seq(S) /\ s[k] \in Seq(S)
    BY ElementOfSeq
  <2>2. /\ u \in Seq(Seq(S)) /\ Len(u) = i - 1
        /\ \A k \in 1..(i - 1) : u[k] = t[k]
    BY <1>0, <2>1, SubSeqProperties
  <2>3. /\ p \in Seq(Seq(S)) /\ Len(p) = i - 1
        /\ \A k \in 1..(i - 1) : p[k] = s[k]
    BY <1>0, <2>1, SubSeqProperties
  <2>4. /\ v \in Seq(Seq(S)) /\ Len(v) = Len(s) - i
        /\ \A k \in 1..(Len(s) - i) : v[k] = t[i + k]
    BY <1>0, <2>1, SubSeqProperties
  <2>5. /\ q \in Seq(Seq(S)) /\ Len(q) = Len(s) - i
        /\ \A k \in 1..(Len(s) - i) : q[k] = s[i + k]
    BY <1>0, <2>1, SubSeqProperties
  <2> HIDE DEF u, v, p, q
  <2>6. u = p
    <3>1. \A k \in 1..(i - 1) : k \in 1..Len(s) /\ k # i
      BY <1>0
    <3> QED  BY <2>2, <2>3, <3>1, SeqEqual
  <2>7. v = q
    <3>1. \A k \in 1..(Len(s) - i) : i + k \in 1..Len(s) /\ i + k # i
      BY <1>0, SMTT(30)
    <3> QED  BY <2>4, <2>5, <3>1, SeqEqual
  <2> QED  BY <2>6, <2>7 DEF u, v
<1>3. t = (p \o <<t[i]>>) \o q
  <2>1. /\ SubSeq(t, 1, i - 1) = p /\ SubSeq(t, i + 1, Len(t)) = q
        /\ i \in 1..Len(t)
    BY <1>0, <1>2
  <2> HIDE DEF p, q
  <2>2. t = (SubSeq(t, 1, i - 1) \o <<t[i]>>) \o SubSeq(t, i + 1, Len(t))
    BY <2>1, SplitAt
  <2> QED  BY <2>1, <2>2
<1>4. ASSUME \A j \in 1..Len(s) : i < j => s[j] = <<>>
      PROVE  FlattenSeq(q) = <<>>
  <2>1. /\ Len(q) = Len(s) - i
        /\ \A k \in 1..(Len(s) - i) : q[k] = s[i + k]
    <3>1. \A k \in 1..Len(s) : s[k] \in Seq(S)
      BY ElementOfSeq
    <3> QED  BY <1>0, <3>1, SubSeqProperties
  <2>2. \A k \in 1..(Len(s) - i) : i + k \in 1..Len(s) /\ i < i + k
    BY <1>0
  <2> HIDE DEF p, q
  <2>3. \A k \in 1..Len(q) : q[k] = <<>>
    BY <1>4, <2>1, <2>2
  <2> QED  BY <1>1, <2>3, FlattenNone
<1> HIDE DEF p, q
<1>5. ASSUME NEW e \in Seq(S)
      PROVE  FlattenSeq((p \o <<e>>) \o q)
               = (FlattenSeq(p) \o e) \o FlattenSeq(q)
  <2>1. <<e>> \in Seq(Seq(S))
    OBVIOUS
  <2>2. p \o <<e>> \in Seq(Seq(S))
    BY <1>1, <2>1, ConcatProperties
  <2>3. FlattenSeq(p \o <<e>>) = FlattenSeq(p) \o FlattenSeq(<<e>>)
    BY <1>1, <2>1, FlattenConcat
  <2>4. FlattenSeq((p \o <<e>>) \o q) = FlattenSeq(p \o <<e>>) \o FlattenSeq(q)
    BY <1>1, <2>2, FlattenConcat
  <2> QED  BY <2>3, <2>4, FlattenOne
<1>6. FlattenSeq(p) \in Seq(S) /\ FlattenSeq(q) \in Seq(S)
  BY <1>1, FlattenType
<1>7. /\ FlattenSeq(s) = Cat(Cat(FlattenSeq(p), s[i]), FlattenSeq(q))
      /\ FlattenSeq(t) = Cat(Cat(FlattenSeq(p), t[i]), FlattenSeq(q))
  BY <1>0, <1>1, <1>3, <1>5 DEF Cat
<1> QED  BY <1>4, <1>6, <1>7

(* InsertAt between two parts.                                             *)
LEMMA InsertBetween ==
  ASSUME NEW S, NEW l \in Seq(S), NEW r \in Seq(S), NEW e \in S
  PROVE  InsertAt(l \o r, Len(l) + 1, e) = (l \o <<e>>) \o r
<1> DEFINE s == l \o r
           n == Len(l) + 1
           t == InsertAt(s, n, e)
           p == l \o <<e>>
           u == p \o r
<1>1. Joins(s, l, r, S) /\ Len(l) \in Nat /\ Len(r) \in Nat
  BY ConcatJoins, LenProperties
<1>2. s \in Seq(S) /\ Len(s) = Len(l) + Len(r) /\ n \in 1..(Len(s) + 1)
  BY <1>1 DEF Joins
<1>3. Inserts(t, s, n, e, S)
  BY <1>2, InsertAtInserts
<1>4. /\ p \in Seq(S) /\ Len(p) = n /\ p[n] = e
      /\ \A k \in 1..Len(l) : p[k] = l[k]
  <2>1. p = Append(l, e)
    BY AppendIsConcat
  <2> QED  BY <2>1, AppendProperties
<1> HIDE DEF s, t, p
<1>5. Joins(u, p, r, S)
  BY <1>4, ConcatJoins
<1>6. /\ u \in Seq(S) /\ Len(u) = n + Len(r) /\ t \in Seq(S)
      /\ Len(t) = Len(s) + 1 /\ Len(t) = Len(u)
  BY <1>1, <1>2, <1>3, <1>4, <1>5 DEF Joins, Inserts
<1>7. ASSUME NEW k \in 1..Len(t) PROVE t[k] = u[k]
  <2>1. t[k] = IF k < n THEN s[k] ELSE IF k = n THEN e ELSE s[k - 1]
    BY <1>3, <1>6 DEF Inserts
  <2>2. CASE k < n
    <3>1. k \in 1..Len(l) /\ k \in 1..n
      BY <1>1, <2>2
    <3>2. s[k] = l[k] /\ u[k] = p[k] /\ p[k] = l[k]
      BY <1>1, <1>4, <1>5, <3>1 DEF Joins
    <3> QED  BY <2>1, <2>2, <3>2
  <2>3. CASE k = n
    <3>1. n \in 1..n
      BY <1>1
    <3>2. u[n] = p[n]
      BY <1>4, <1>5, <3>1 DEF Joins
    <3> QED  BY <1>4, <2>1, <2>3, <3>2
  <2>4. CASE k > n
    <3>1. PICK j \in Nat : j = k - n
      <4>1. k \in Nat /\ n \in Nat
        BY <1>1, <1>2, <1>6
      <4>2. k - n \in Nat
        BY <2>4, <4>1
      <4> QED  BY <4>2
    <3>2. j \in 1..Len(r) /\ k = n + j /\ k - 1 = Len(l) + j
      BY <1>1, <1>2, <1>6, <2>4, <3>1
    <3>3. s[Len(l) + j] = r[j] /\ u[n + j] = r[j]
      BY <1>1, <1>4, <1>5, <3>2 DEF Joins
    <3>4. ~ (k < n) /\ k # n
      BY <1>1, <2>4
    <3> QED  BY <2>1, <3>2, <3>3, <3>4
  <2>5. k < n \/ k = n \/ k > n
    BY <1>1
  <2> QED  BY <2>2, <2>3, <2>4, <2>5
<1>8. t = u
  BY <1>6, <1>7, SeqEqual
<1> QED  BY <1>8 DEF s, t, p

(* If part i grows by m and there is nothing behind it, so does the whole. *)
LEMMA FlattenGrow ==
  ASSUME NEW S, NEW s \in Seq(Seq(S)), NEW t \in Seq(Seq(S)),
         NEW i \in 1..Len(s), Differ(s, t, i), EndsAt(s, i),
         NEW m \in Seq(S), t[i] = Cat(s[i], m)
  PROVE  FlattenSeq(t) = Cat(FlattenSeq(s), m)
<1>1. PICK l \in Seq(S), r \in Seq(S) :
        /\ FlattenSeq(s) = Cat(Cat(l, s[i]), r)
        /\ FlattenSeq(t) = Cat(Cat(l, t[i]), r)
        /\ EndsAt(s, i) => r = <<>>
  BY FlattenAround
<1>2. PICK u : u = s[i]
  OBVIOUS
<1>3. u \in Seq(S) /\ t[i] = Cat(u, m)
  BY <1>2, ElementOfSeq
<1>4. ASSUME NEW c \in Seq(S) PROVE Cat(c, r) = c
  BY <1>1, <1>4, ConcatEmptySeq DEF Cat
<1>5. Cat(l, u) \in Seq(S) /\ Cat(l, Cat(u, m)) \in Seq(S)
  BY <1>3, CatType
<1>6. FlattenSeq(s) = Cat(l, u) /\ FlattenSeq(t) = Cat(l, Cat(u, m))
  BY <1>1, <1>2, <1>3, <1>4, <1>5
<1>7. Cat(l, Cat(u, m)) = Cat(Cat(l, u), m)
  BY <1>3, CatAssociative
<1> QED  BY <1>6, <1>7

(* The same of InsertAt.                                                   *)
LEMMA InsertCat ==
  ASSUME NEW S, NEW l \in Seq(S), NEW r \in Seq(S), NEW e \in S
  PROVE  InsertAt(Cat(l, r), Len(l) + 1, e) = Cat(Cat(l, <<e>>), r)
BY InsertBetween DEF Cat

(* InsertAt on either side of an element k that has b before and a behind  *)
(* it, in the middle of more.                                              *)
Amid(l, c, r, h) == Cat(Cat(Cat(l, c), r), h)

Sides(s, k, e, ahead, behind) ==
  \E p \in 1..Len(s) : /\ s[p] = k
                       /\ ahead = InsertAt(s, p, e)
                       /\ behind = InsertAt(s, p + 1, e)

LEMMA InsertAround ==
  ASSUME NEW S, NEW l \in Seq(S), NEW b \in Seq(S), NEW k \in S,
         NEW a \in Seq(S), NEW r \in Seq(S), NEW h \in Seq(S), NEW e \in S
  PROVE  Sides(Amid(l, Cat(Cat(b, <<k>>), a), r, h), k, e,
               Amid(l, Cat(Cat(Cat(b, <<e>>), <<k>>), a), r, h),
               Amid(l, Cat(Cat(b, <<k>>), Cat(<<e>>, a)), r, h))
<1> DEFINE K == <<k>>
           E == <<e>>
           s == Amid(l, Cat(Cat(b, K), a), r, h)
           lb == Cat(l, b)
           f == Cat(Cat(a, r), h)
<1>1. K \in Seq(S) /\ E \in Seq(S) /\ Len(K) = 1 /\ K[1] = k
  OBVIOUS
<1>2. /\ s = Cat(Cat(Cat(l, Cat(Cat(b, K), a)), r), h)
      /\ Amid(l, Cat(Cat(Cat(b, E), K), a), r, h)
           = Cat(Cat(Cat(l, Cat(Cat(Cat(b, E), K), a)), r), h)
      /\ Amid(l, Cat(Cat(b, K), Cat(E, a)), r, h)
           = Cat(Cat(Cat(l, Cat(Cat(b, K), Cat(E, a))), r), h)
  BY DEF Amid
<1> HIDE DEF K, E, s
<1>3. /\ lb \in Seq(S) /\ f \in Seq(S) /\ Cat(K, f) \in Seq(S)
      /\ Cat(lb, K) \in Seq(S) /\ Cat(a, r) \in Seq(S)
      /\ Cat(b, K) \in Seq(S) /\ Cat(b, E) \in Seq(S)
      /\ Cat(Cat(b, E), K) \in Seq(S) /\ Cat(E, a) \in Seq(S)
  BY <1>1, CatType
<1>4. ASSUME NEW x \in Seq(S), NEW y \in Seq(S)
      PROVE  Cat(Cat(Cat(l, Cat(x, y)), r), h)
               = Cat(Cat(l, x), Cat(Cat(y, r), h))
  <2>1. /\ Cat(x, y) \in Seq(S) /\ Cat(l, x) \in Seq(S)
        /\ Cat(y, r) \in Seq(S)
    BY CatType
  <2> QED  BY <2>1, CatAssociative
<1>5. s = Cat(lb, Cat(K, f)) /\ s = Cat(Cat(lb, K), f)
  <2>1. s = Cat(Cat(l, Cat(b, K)), f)
    <3>1. Cat(Cat(Cat(l, Cat(Cat(b, K), a)), r), h)
            = Cat(Cat(l, Cat(b, K)), Cat(Cat(a, r), h))
      BY <1>3, <1>4
    <3> QED  BY <1>2, <3>1
  <2>2. Cat(l, Cat(b, K)) = Cat(lb, K)
    BY <1>1, CatAssociative
  <2> HIDE DEF lb, f
  <2>3. Cat(Cat(lb, K), f) = Cat(lb, Cat(K, f))
    <3>1. lb \in Seq(S) /\ K \in Seq(S) /\ f \in Seq(S)
      BY <1>1, <1>3
    <3> QED  BY <3>1, CatAssociative
  <2> QED  BY <2>1, <2>2, <2>3
<1>6. Cat(Cat(Cat(l, Cat(Cat(Cat(b, E), K), a)), r), h)
        = Cat(Cat(lb, E), Cat(K, f))
  <2>1. Cat(Cat(Cat(l, Cat(Cat(Cat(b, E), K), a)), r), h)
          = Cat(Cat(l, Cat(Cat(b, E), K)), f)
    BY <1>3, <1>4
  <2>2. Cat(l, Cat(Cat(b, E), K)) = Cat(Cat(l, Cat(b, E)), K)
    <3>1. Cat(b, E) \in Seq(S) /\ K \in Seq(S)
      BY <1>1, <1>3
    <3> QED  BY <3>1, CatAssociative
  <2>3. Cat(l, Cat(b, E)) = Cat(lb, E)
    BY <1>1, CatAssociative
  <2> HIDE DEF lb, f
  <2>4. Cat(Cat(Cat(lb, E), K), f) = Cat(Cat(lb, E), Cat(K, f))
    <3>1. Cat(lb, E) \in Seq(S) /\ K \in Seq(S) /\ f \in Seq(S)
      BY <1>1, <1>3, CatType
    <3> QED  BY <3>1, CatAssociative
  <2> QED  BY <2>1, <2>2, <2>3, <2>4
<1>7. Cat(Cat(Cat(l, Cat(Cat(b, K), Cat(E, a))), r), h)
        = Cat(Cat(Cat(lb, K), E), f)
  <2>1. Cat(Cat(Cat(l, Cat(Cat(b, K), Cat(E, a))), r), h)
          = Cat(Cat(l, Cat(b, K)), Cat(Cat(Cat(E, a), r), h))
    BY <1>3, <1>4
  <2>2. Cat(l, Cat(b, K)) = Cat(lb, K)
    BY <1>1, CatAssociative
  <2>3. Cat(Cat(Cat(E, a), r), h) = Cat(E, f)
    <3>1. Cat(Cat(E, a), r) = Cat(E, Cat(a, r))
      BY <1>1, CatAssociative
    <3>2. Cat(Cat(E, Cat(a, r)), h) = Cat(E, f)
      <4>1. Cat(a, r) \in Seq(S) /\ E \in Seq(S)
        BY <1>1, <1>3
      <4> QED  BY <4>1, CatAssociative
    <3> QED  BY <3>1, <3>2
  <2>4. Cat(Cat(lb, K), Cat(E, f)) = Cat(Cat(Cat(lb, K), E), f)
    <3> HIDE DEF lb, f
    <3>1. Cat(lb, K) \in Seq(S) /\ E \in Seq(S) /\ f \in Seq(S)
      BY <1>1, <1>3
    <3> QED  BY <3>1, CatAssociative
  <2> HIDE DEF lb, f
  <2> QED  BY <2>1, <2>2, <2>3, <2>4
<1> HIDE DEF lb, f
<1> DEFINE lk == Cat(lb, K)
           kf == Cat(K, f)
<1>8. PICK n \in Nat : n = Len(lb)
  BY <1>3
<1>9. InsertAt(s, n + 1, e) = Cat(Cat(lb, E), kf)
  <2>1. lb \in Seq(S) /\ kf \in Seq(S) /\ s = Cat(lb, kf)
    BY <1>3, <1>5
  <2> HIDE DEF kf
  <2>2. InsertAt(Cat(lb, kf), Len(lb) + 1, e) = Cat(Cat(lb, <<e>>), kf)
    BY <2>1, InsertCat
  <2> QED  BY <1>8, <2>1, <2>2 DEF E
<1>10. InsertAt(s, n + 1 + 1, e) = Cat(Cat(lk, E), f)
  <2>1. lk \in Seq(S) /\ f \in Seq(S) /\ s = Cat(lk, f)
    BY <1>3, <1>5
  <2>2. Len(lk) = n + 1
    <3>1. Joins(lb \o K, lb, K, S)
      BY <1>1, <1>3, ConcatJoins
    <3> QED  BY <1>1, <1>8, <3>1 DEF Joins, Cat
  <2> HIDE DEF lk
  <2>3. InsertAt(Cat(lk, f), Len(lk) + 1, e) = Cat(Cat(lk, <<e>>), f)
    BY <2>1, InsertCat
  <2> QED  BY <2>1, <2>2, <2>3 DEF E
<1>11. n + 1 \in 1..Len(s) /\ s[n + 1] = k
  <2>1. Joins(lb \o kf, lb, kf, S) /\ Joins(K \o f, K, f, S)
    BY <1>1, <1>3, ConcatJoins
  <2>2. s = lb \o kf /\ kf = K \o f
    BY <1>5 DEF Cat
  <2>3. PICK m \in Nat : m = Len(f)
    BY <1>3
  <2>4. Len(kf) = 1 + m /\ kf[1] = k
    BY <1>1, <2>1, <2>2, <2>3 DEF Joins
  <2> HIDE DEF kf
  <2>5. Len(s) = n + (1 + m) /\ \A j \in 1..(1 + m) : s[n + j] = kf[j]
    BY <1>8, <2>1, <2>2, <2>4 DEF Joins
  <2>6. 1 \in 1..(1 + m) /\ n + 1 \in 1..(n + (1 + m))
    OBVIOUS
  <2>7. s[n + 1] = kf[1]
    BY <2>5, <2>6
  <2> QED  BY <2>4, <2>5, <2>6, <2>7
<1> QED  BY <1>2, <1>6, <1>7, <1>9, <1>10, <1>11
         DEF K, E, s, Sides

(* InsertAt before the last element.                                       *)
LEMMA InsertLast ==
  ASSUME NEW S, NEW p \in Seq(S), NEW u \in Seq(S), NEW z \in S, NEW e \in S,
         NEW s, s = Cat(p, Cat(u, <<z>>))
  PROVE  Cat(p, Cat(Cat(u, <<e>>), <<z>>)) = InsertAt(s, Len(s), e)
<1> DEFINE Z == <<z>>
           E == <<e>>
           l == Cat(p, u)
<1>1. Z \in Seq(S) /\ E \in Seq(S) /\ Len(Z) = 1
  OBVIOUS
<1> HIDE DEF Z, E
<1>2. l \in Seq(S) /\ Cat(u, E) \in Seq(S)
  BY <1>1, CatType
<1>3. s = Cat(l, Z)
  <2>1. s = Cat(p, Cat(u, Z))
    BY DEF Z
  <2>2. Cat(p, Cat(u, Z)) = Cat(l, Z)
    BY <1>1, CatAssociative
  <2> QED  BY <2>1, <2>2
<1>4. Cat(p, Cat(Cat(u, E), Z)) = Cat(Cat(l, E), Z)
  <2>1. Cat(p, Cat(Cat(u, E), Z)) = Cat(Cat(p, Cat(u, E)), Z)
    BY <1>1, <1>2, CatAssociative
  <2>2. Cat(p, Cat(u, E)) = Cat(l, E)
    BY <1>1, CatAssociative
  <2> QED  BY <2>1, <2>2
<1> HIDE DEF l
<1>5. Len(s) = Len(l) + 1
  <2>1. Joins(l \o Z, l, Z, S)
    BY <1>1, <1>2, ConcatJoins
  <2> QED  BY <1>1, <1>3, <2>1 DEF Joins, Cat
<1>6. InsertAt(Cat(l, Z), Len(l) + 1, e) = Cat(Cat(l, E), Z)
  BY <1>1, <1>2, InsertCat DEF E
<1> QED  BY <1>3, <1>4, <1>5, <1>6 DEF E, Z

(* The reverse of a sequence.                                              *)
LEMMA ReverseAppend ==
  ASSUME NEW S, NEW s \in Seq(S)
  PROVE  /\ Reverse(s) \in Seq(S)
         /\ \A e \in S : Reverse(s \o <<e>>) = <<e>> \o Reverse(s)
<1>1. Len(s) \in Nat /\ \A k \in 1..Len(s) : s[k] \in S
  BY LenProperties, ElementOfSeq
<1>2. ASSUME NEW t \in Seq(S)
      PROVE  /\ Reverse(t) \in Seq(S) /\ Len(Reverse(t)) = Len(t)
             /\ \A k \in 1..Len(t) : Reverse(t)[k] = t[(Len(t) - k) + 1]
  <2>1. Len(t) \in Nat
    OBVIOUS
  <2>2. \A k \in 1..Len(t) : (Len(t) - k) + 1 \in 1..Len(t)
    BY <2>1
  <2>3. Reverse(t) \in [1..Len(t) -> S]
    BY <2>2, ElementOfSeq DEF Reverse
  <2> QED  BY <2>1, <2>3, FunctionIsSeq DEF Reverse
<1>3. ASSUME NEW e \in S
      PROVE  Reverse(s \o <<e>>) = <<e>> \o Reverse(s)
  <2> DEFINE t == s \o <<e>>
             u == <<e>>
             v == u \o Reverse(s)
  <2>1. /\ t \in Seq(S) /\ Len(t) = Len(s) + 1 /\ t[Len(s) + 1] = e
        /\ \A k \in 1..Len(s) : t[k] = s[k]
    <3>1. t = Append(s, e)
      BY AppendIsConcat
    <3> QED  BY <3>1, AppendProperties
  <2>2. u \in Seq(S) /\ Len(u) = 1 /\ u[1] = e
    OBVIOUS
  <2> HIDE DEF t, u
  <2>3. Joins(v, u, Reverse(s), S)
    BY <1>2, <2>2, ConcatJoins
  <2>4. /\ v \in Seq(S) /\ Len(v) = Len(t) /\ v[1] = e
        /\ \A k \in 1..Len(s) : v[1 + k] = Reverse(s)[k]
    <3>1. 1 \in 1..Len(u)
      BY <2>2
    <3> QED  BY <1>1, <1>2, <2>1, <2>2, <2>3, <3>1 DEF Joins
  <2>5. ASSUME NEW k \in 1..Len(t) PROVE Reverse(t)[k] = v[k]
    <3>1. Reverse(t)[k] = t[(Len(t) - k) + 1]
      BY <1>2, <2>1
    <3>2. CASE k = 1
      <4>1. (Len(t) - k) + 1 = Len(s) + 1
        BY <1>1, <2>1, <3>2
      <4> QED  BY <2>1, <2>4, <3>1, <3>2, <4>1
    <3>3. CASE k # 1
      <4>1. PICK j \in Nat : j = k - 1
        BY <3>3
      <4>2. /\ j \in 1..Len(s) /\ k = 1 + j
            /\ (Len(t) - k) + 1 = (Len(s) - j) + 1
            /\ (Len(s) - j) + 1 \in 1..Len(s)
        BY <1>1, <2>1, <3>3, <4>1
      <4>3. v[1 + j] = s[(Len(s) - j) + 1]
        BY <1>2, <2>4, <4>2
      <4> QED  BY <2>1, <3>1, <4>2, <4>3
    <3> QED  BY <3>2, <3>3
  <2>6. Reverse(t) = v
    BY <1>2, <2>1, <2>4, <2>5, SeqEqual
  <2> QED  BY <2>6 DEF t, u
<1> QED  BY <1>2, <1>3

(* For each element of s a sequence, put together.  The set of functions   *)
(* has a name because the provers do not instantiate [S -> Seq(T)].        *)
ToSeq(S, T) == [S -> Seq(T)]

Each(F, s) == FlattenSeq([n \in 1..Len(s) |-> F[s[n]]])

LEMMA EachIs ==
  ASSUME NEW S, NEW T, NEW F \in ToSeq(S, T), NEW s \in Seq(S)
  PROVE  /\ [n \in 1..Len(s) |-> F[s[n]]] \in Seq(Seq(T))
         /\ Len([n \in 1..Len(s) |-> F[s[n]]]) = Len(s)
         /\ Each(F, s) \in Seq(T)
         /\ Each(F, <<>>) = <<>>
         /\ \A e \in S : Each(F, Append(s, e)) = Each(F, s) \o F[e]
<1>1. ASSUME NEW t \in Seq(S)
      PROVE  /\ [n \in 1..Len(t) |-> F[t[n]]] \in Seq(Seq(T))
             /\ Len([n \in 1..Len(t) |-> F[t[n]]]) = Len(t)
             /\ Each(F, t) \in Seq(T)
  <2>1. [n \in 1..Len(t) |-> F[t[n]]] \in [1..Len(t) -> Seq(T)]
    BY ElementOfSeq DEF ToSeq
  <2>2. Len(t) \in Nat
    OBVIOUS
  <2>3. /\ [n \in 1..Len(t) |-> F[t[n]]] \in Seq(Seq(T))
        /\ Len([n \in 1..Len(t) |-> F[t[n]]]) = Len(t)
    BY <2>1, <2>2, FunctionIsSeq
  <2> QED  BY <2>3, FlattenType DEF Each
<1>2. Each(F, <<>>) = <<>>
  <2> DEFINE z == [n \in 1..0 |-> F[<<>>[n]]]
  <2>1. <<>> \in Seq(S) /\ Len(<<>>) = 0
    BY EmptySeq
  <2>2. [n \in 1..Len(<<>>) |-> F[<<>>[n]]] \in Seq(Seq(T))
    BY <1>1, <2>1
  <2>3. Len([n \in 1..Len(<<>>) |-> F[<<>>[n]]]) = 0
    BY <1>1, <2>1
  <2> HIDE DEF z
  <2> QED  BY <2>2, <2>3, EmptySeq, FlattenEmpty DEF Each
<1>3. ASSUME NEW t \in Seq(S), NEW e \in S
      PROVE  Each(F, Append(t, e)) = Each(F, t) \o F[e]
  <2> DEFINE a == Append(t, e)
             u == [n \in 1..Len(t) |-> F[t[n]]]
             v == [n \in 1..Len(a) |-> F[a[n]]]
  <2>1. /\ a \in Seq(S) /\ Len(a) = Len(t) + 1 /\ a[Len(t) + 1] = e
        /\ \A k \in 1..Len(t) : a[k] = t[k]
    BY AppendProperties
  <2>2. /\ u \in Seq(Seq(T)) /\ Len(u) = Len(t)
        /\ v \in Seq(Seq(T)) /\ Len(v) = Len(t) + 1
    BY <1>1, <2>1
  <2>3. Len(t) \in Nat /\ F[e] \in Seq(T)
    BY DEF ToSeq
  <2>4. v[Len(t) + 1] = F[e] /\ \A k \in 1..Len(t) : v[k] = u[k]
    <3>1. Len(t) + 1 \in 1..Len(a)
          /\ \A k \in 1..Len(t) : k \in 1..Len(a)
      BY <2>1, <2>3
    <3> HIDE DEF a
    <3> QED  BY <2>1, <3>1
  <2> HIDE DEF u, v
  <2>5. /\ Append(u, F[e]) \in Seq(Seq(T))
        /\ Len(Append(u, F[e])) = Len(t) + 1
        /\ Append(u, F[e])[Len(t) + 1] = F[e]
        /\ \A k \in 1..Len(t) : Append(u, F[e])[k] = u[k]
    BY <2>2, <2>3, AppendProperties
  <2>6. \A k \in 1..(Len(t) + 1) : k \in 1..Len(t) \/ k = Len(t) + 1
    BY <2>3
  <2>7. v = Append(u, F[e])
    BY <2>2, <2>4, <2>5, <2>6, SeqEqual
  <2>8. FlattenSeq(v) = FlattenSeq(u) \o F[e]
    BY <2>2, <2>3, <2>7, FlattenAppend
  <2> QED  BY <2>8 DEF Each, u, v
<1> QED  BY <1>1, <1>2, <1>3

(* Of a single element that is the sequence for it.                        *)
LEMMA EachOne ==
  ASSUME NEW S, NEW T, NEW F \in ToSeq(S, T), NEW e \in S
  PROVE  Each(F, <<e>>) = F[e]
<1> DEFINE none == <<>>
<1>0. Append(none, e) = <<e>>
  OBVIOUS
<1>1. none \in Seq(S)
  BY EmptySeq
<1>2. Each(F, none) = <<>>
  BY <1>1, EachIs
<1> HIDE DEF none
<1>3. Each(F, Append(none, e)) = Each(F, none) \o F[e]
  BY <1>1, EachIs
<1>4. F[e] \in Seq(T)
  BY DEF ToSeq
<1> QED  BY <1>0, <1>2, <1>3, <1>4, ConcatEmptySeq

(* Each distributes over concatenation,                                    *)
LEMMA EachConcat ==
  ASSUME NEW S, NEW T, NEW F \in ToSeq(S, T), NEW s \in Seq(S),
         NEW t \in Seq(S)
  PROVE  Each(F, s \o t) = Each(F, s) \o Each(F, t)
<1> DEFINE u == [n \in 1..Len(s) |-> F[s[n]]]
           v == [n \in 1..Len(t) |-> F[t[n]]]
           a == s \o t
           w == [n \in 1..Len(a) |-> F[a[n]]]
<1>1. Joins(a, s, t, S) /\ Len(s) \in Nat /\ Len(t) \in Nat
  BY ConcatJoins
<1>2. a \in Seq(S) /\ Len(a) = Len(s) + Len(t)
  BY <1>1 DEF Joins
<1>3. /\ u \in Seq(Seq(T)) /\ Len(u) = Len(s)
      /\ v \in Seq(Seq(T)) /\ Len(v) = Len(t)
      /\ w \in Seq(Seq(T)) /\ Len(w) = Len(s) + Len(t)
  <2>1. ASSUME NEW x \in Seq(S)
        PROVE  /\ [n \in 1..Len(x) |-> F[x[n]]] \in Seq(Seq(T))
               /\ Len([n \in 1..Len(x) |-> F[x[n]]]) = Len(x)
    BY EachIs
  <2>2. /\ u \in Seq(Seq(T)) /\ Len(u) = Len(s)
        /\ v \in Seq(Seq(T)) /\ Len(v) = Len(t)
    BY <2>1
  <2>3. w \in Seq(Seq(T)) /\ Len(w) = Len(a)
    BY <1>2, <2>1
  <2> HIDE DEF w, a
  <2> QED  BY <1>2, <2>2, <2>3
<1>4. /\ \A k \in 1..Len(s) : w[k] = u[k]
      /\ \A k \in 1..Len(t) : w[Len(s) + k] = v[k]
  <2>1. /\ \A k \in 1..Len(s) : k \in 1..Len(a) /\ a[k] = s[k]
        /\ \A k \in 1..Len(t) : Len(s) + k \in 1..Len(a)
                                /\ a[Len(s) + k] = t[k]
    BY <1>1, <1>2 DEF Joins
  <2> HIDE DEF a
  <2> QED  BY <2>1
<1> HIDE DEF u, v, w, a
<1>5. Joins(u \o v, u, v, Seq(T))
  BY <1>3, ConcatJoins
<1>6. w = u \o v
  <2>1. ASSUME NEW k \in 1..(Len(s) + Len(t)) PROVE w[k] = (u \o v)[k]
    <3>1. CASE k <= Len(s)
      <4>1. k \in 1..Len(s)
        BY <1>1, <3>1
      <4> QED  BY <1>3, <1>4, <1>5, <4>1 DEF Joins
    <3>2. CASE k > Len(s)
      <4>1. PICK j \in Nat : j = k - Len(s)
        <5>1. k \in Nat
          BY <1>1
        <5>2. k - Len(s) \in Nat
          BY <1>1, <3>2, <5>1
        <5> QED  BY <5>2
      <4>2. j \in 1..Len(t) /\ k = Len(s) + j
        BY <1>1, <3>2, <4>1
      <4> QED  BY <1>3, <1>4, <1>5, <4>2 DEF Joins
    <3>3. k <= Len(s) \/ k > Len(s)
      BY <1>1
    <3> QED  BY <3>1, <3>2, <3>3
  <2> QED  BY <1>3, <1>5, <2>1, SeqEqual DEF Joins
<1>7. FlattenSeq(w) = FlattenSeq(u) \o FlattenSeq(v)
  BY <1>3, <1>6, FlattenConcat
<1> QED  BY <1>7 DEF Each, u, v, w, a

(* and over FlattenSeq.                                                    *)
LEMMA EachFlatten ==
  ASSUME NEW S, NEW T, NEW F \in ToSeq(S, T), NEW s \in Seq(Seq(S))
  PROVE  Each(F, FlattenSeq(s))
           = FlattenSeq([i \in 1..Len(s) |-> Each(F, s[i])])
<1>a. ASSUME NEW a \in Seq(S), NEW b \in Seq(S)
      PROVE  Each(F, a \o b) = Each(F, a) \o Each(F, b)
  BY EachConcat
<1>b. ASSUME NEW G \in ToSeq(Seq(S), T), NEW u \in Seq(Seq(S)),
             NEW e \in Seq(S)
      PROVE  /\ Each(G, <<>>) = <<>>
             /\ Each(G, Append(u, e)) = Each(G, u) \o G[e]
  BY EachIs
<1> DEFINE G == [t \in Seq(S) |-> Each(F, t)]
           I == {u \in Seq(Seq(S)) : Each(F, FlattenSeq(u)) = Each(G, u)}
<1>1. G \in ToSeq(Seq(S), T) /\ \A t \in Seq(S) : G[t] = Each(F, t)
  <2>1. \A t \in Seq(S) : Each(F, t) \in Seq(T)
    BY EachIs
  <2> QED  BY <2>1 DEF ToSeq
<1> HIDE DEF G
<1>2. <<>> \in I
  <2>1. <<>> \in Seq(Seq(S)) /\ <<>> \in Seq(S)
    BY EmptySeq
  <2>2. Each(F, <<>>) = <<>>
    BY <2>1, EachIs
  <2>4. Each(G, <<>>) = <<>>
    BY <1>1, <1>b, <2>1
  <2> QED  BY <2>1, <2>2, <2>4, FlattenEmpty
<1>3. ASSUME NEW u \in Seq(Seq(S)), NEW e \in Seq(S), u \in I
      PROVE  Append(u, e) \in I
  <2>1. Append(u, e) \in Seq(Seq(S))
    BY AppendProperties
  <2>2. FlattenSeq(Append(u, e)) = FlattenSeq(u) \o e
    BY FlattenAppend
  <2>3. FlattenSeq(u) \in Seq(S)
    BY FlattenType
  <2>4. Each(F, FlattenSeq(u) \o e) = Each(F, FlattenSeq(u)) \o Each(F, e)
    BY <1>a, <2>3
  <2>5. Each(G, Append(u, e)) = Each(G, u) \o G[e]
    BY <1>1, <1>b
  <2> QED  BY <1>1, <1>3, <2>1, <2>2, <2>4, <2>5
<1> HIDE DEF I
<1>4. s \in I
  BY <1>2, <1>3, SequenceInduction
<1>5. Each(F, FlattenSeq(s)) = Each(G, s)
  BY <1>4 DEF I
<1>6. [i \in 1..Len(s) |-> G[s[i]]] = [i \in 1..Len(s) |-> Each(F, s[i])]
  BY <1>1, ElementOfSeq
<1> QED  BY <1>5, <1>6 DEF Each

(* A sequence is put together from its elements.                           *)
Singles(s) == [n \in 1..Len(s) |-> <<s[n]>>]

LEMMA FlattenSingles ==
  ASSUME NEW S, NEW s \in Seq(S)
  PROVE  FlattenSeq(Singles(s)) = s
<1> DEFINE T == {t \in Seq(S) : FlattenSeq(Singles(t)) = t}
<1>1. ASSUME NEW t \in Seq(S)
      PROVE  /\ Singles(t) \in Seq(Seq(S)) /\ Len(Singles(t)) = Len(t)
             /\ \A n \in 1..Len(t) : Singles(t)[n] = <<t[n]>>
  <2>1. \A n \in 1..Len(t) : t[n] \in S
    BY ElementOfSeq
  <2>2. \A n \in 1..Len(t) : <<t[n]>> \in Seq(S)
    BY <2>1
  <2>3. Singles(t) \in [1..Len(t) -> Seq(S)]
    BY <2>2 DEF Singles
  <2>4. Len(t) \in Nat
    BY LenProperties
  <2> QED  BY <2>3, <2>4, FunctionIsSeq DEF Singles
<1>2. <<>> \in T
  <2>1. <<>> \in Seq(S) /\ Len(<<>>) = 0
    BY EmptySeq
  <2>2. Singles(<<>>) = <<>>
    BY <1>1, <2>1, EmptySeq
  <2> QED  BY <2>1, <2>2, FlattenEmpty
<1>3. ASSUME NEW t \in Seq(S), NEW e \in S, t \in T
      PROVE  Append(t, e) \in T
  <2> DEFINE u == Append(t, e)
             E == <<e>>
             v == Append(Singles(t), E)
  <2>1. /\ u \in Seq(S) /\ Len(u) = Len(t) + 1 /\ u = t \o E /\ E \in Seq(S)
        /\ u[Len(t) + 1] = e /\ \A n \in 1..Len(t) : u[n] = t[n]
    BY AppendProperties, AppendIsConcat
  <2> HIDE DEF u
  <2>2. /\ Singles(t) \in Seq(Seq(S)) /\ Len(Singles(t)) = Len(t)
        /\ \A n \in 1..Len(t) : Singles(t)[n] = <<t[n]>>
    BY <1>1
  <2>3. /\ Singles(u) \in Seq(Seq(S)) /\ Len(Singles(u)) = Len(u)
        /\ \A n \in 1..Len(u) : Singles(u)[n] = <<u[n]>>
    BY <1>1, <2>1
  <2> HIDE DEF E
  <2>4. /\ v \in Seq(Seq(S)) /\ Len(v) = Len(t) + 1 /\ v[Len(t) + 1] = E
        /\ \A n \in 1..Len(t) : v[n] = Singles(t)[n]
    BY <2>1, <2>2, AppendProperties
  <2> HIDE DEF v
  <2>5. Singles(u) = v
    <3>1. Len(t) \in Nat
      BY LenProperties
    <3>2. \A n \in 1..Len(u) : n \in 1..Len(t) \/ n = Len(t) + 1
      BY <2>1, <3>1
    <3>3. \A n \in 1..Len(u) : Singles(u)[n] = v[n]
      BY <2>1, <2>2, <2>3, <2>4, <3>2 DEF E
    <3> QED  BY <2>1, <2>3, <2>4, <3>3, SeqEqual
  <2>6. FlattenSeq(v) = FlattenSeq(Singles(t)) \o E
    BY <2>1, <2>2, FlattenAppend DEF v
  <2> QED  BY <1>3, <2>1, <2>5, <2>6 DEF u
<1> HIDE DEF T
<1>4. Seq(S) \subseteq T
  BY <1>2, <1>3, SequenceInduction
<1> QED  BY <1>4 DEF T

===============================================================================
