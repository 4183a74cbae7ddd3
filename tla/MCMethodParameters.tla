------------------------ MODULE MCMethodParameters ------------------------
(* Methods with up to three parameters, for TLC.                           *)
EXTENDS MethodParameters

MCString == <<"L", "s", ";">>

(* Class names contain the letters of base types and the class mark.       *)
Types ==
  {<<"I">>, <<"[", "I">>, MCString, <<"L", "L", "I", ";">>,
   <<"[", "[", "L", "x", ";">>}

UpTo3(S) ==
  {<<>>} \cup {<<s>> : s \in S} \cup (S \X S) \cup (S \X S \X S)

MCInputs ==
  {[prefix |-> p, types |-> t, returns |-> r, static |-> s] :
     p \in {<<>>, <<"L", "x", ";", "x">>}, t \in UpTo3(Types),
     r \in {<<"V">>, MCString}, s \in BOOLEAN}

=============================================================================
