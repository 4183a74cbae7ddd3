----------------------------- MODULE PureGetter -----------------------------
(***************************************************************************)
(* What CodeLibEnvironment promises to its callers: it acts as a data      *)
(* object.  A request is answered with a value that belongs to its key,    *)
(* whoever asks, in whatever order and however often.  The object is pure  *)
(* where a single value belongs to a key.                                  *)
(***************************************************************************)
CONSTANTS Threads, Keys, Answers, None

VARIABLES
  asked,  \* per thread: the key of its last request, None before the first
  got     \* per thread: the answer to it, None while there is none

vars == <<asked, got>>

Init ==
  /\ asked = [t \in Threads |-> None]
  /\ got = [t \in Threads |-> None]

Ask(t, k) ==
  /\ asked[t] # None => got[t] # None
  /\ asked' = [asked EXCEPT ![t] = k]
  /\ got' = [got EXCEPT ![t] = None]

Answer(t) ==
  /\ asked[t] # None
  /\ got[t] = None
  /\ \E v \in Answers[asked[t]] : got' = [got EXCEPT ![t] = v]
  /\ UNCHANGED asked

Next == \E t \in Threads : Answer(t) \/ \E k \in Keys : Ask(t, k)

Spec == Init /\ [][Next]_vars
=============================================================================
