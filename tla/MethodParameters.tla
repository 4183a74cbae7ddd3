-------------------------- MODULE MethodParameters --------------------------
(***************************************************************************)
(* What a pass knows about the parameters of the method it works on:       *)
(* ArtUtils::ExtractMethodArguments splits the signature into the types,   *)
(* MethodInfoFactory::obtain keeps them beside the HParameterValues, and   *)
(* MethodInfo::IsStringParam looks one of them up.                         *)
(*                                                                         *)
(* One step of the parser is one round of its loop over the characters.    *)
(***************************************************************************)
EXTENDS Integers, Sequences, SequencesExt

CONSTANTS
  Inputs,     \* the methods considered: a subset of InputSpace
  CString,    \* the descriptor of java.lang.String
  None        \* no query, no answer

Characters == {"(", ")", "[", "L", ";", "I", "V", "x", "s"}

(* A method: what is written before its signature (nothing, or its class   *)
(* and name), its descriptors, and whether it has no `this`.               *)
InputSpace ==
  [prefix : Seq(Characters), types : Seq(Seq(Characters)),
   returns : Seq(Characters), static : BOOLEAN]

(* A descriptor of the dex format: marks for the dimensions of an array,   *)
(* then a base type or a class name between "L" and ";".                   *)
Letters == Characters \ {"(", ")", "[", "L", ";"}

IsDescriptor(d) ==
  \E marks \in 0..(Len(d) - 1) :
    /\ \A k \in 1..marks : d[k] = "["
    /\ \/ Len(d) = marks + 1 /\ d[Len(d)] \in Letters
       \/ /\ Len(d) > marks + 1
          /\ d[marks + 1] = "L"
          /\ \A k \in (marks + 2)..(Len(d) - 1) : d[k] \in Letters \cup {"L"}
          /\ d[Len(d)] = ";"

ASSUME ParametersAssumption ==
  /\ Inputs \subseteq InputSpace
  /\ \A m \in Inputs :
       /\ \A k \in DOMAIN m.prefix : m.prefix[k] \notin {"(", ")"}
       /\ \A n \in DOMAIN m.types : IsDescriptor(m.types[n])

VARIABLES
  method,       \* the element of Inputs
  at,           \* position of the loop in the signature
  started,      \* parsingStarted
  classBuffer,  \* classBuffer
  paramBuffer,  \* paramBuffer
  paramTypes,   \* result, which becomes MethodInfo::paramTypes
  pc,           \* "parse" or "done"
  asked,        \* index of the HParameterValue asked about
  answer        \* what IsStringParam returns: "yes", "no", "out of bounds"

vars == <<method, at, started, classBuffer, paramBuffer, paramTypes, pc,
          asked, answer>>

Signature ==
  method.prefix \o <<"(">> \o FlattenSeq(method.types) \o <<")">>
    \o method.returns

character == Signature[at]

(* The number of HParameterValues; `this` comes first unless static.       *)
ParameterCount ==
  Len(method.types) + (IF method.static THEN 0 ELSE 1)

Init ==
  /\ method \in Inputs
  /\ at = 1
  /\ started = FALSE
  /\ classBuffer = <<>>
  /\ paramBuffer = <<>>
  /\ paramTypes = <<>>
  /\ pc = "parse"
  /\ asked = None
  /\ answer = None

----------------------------------------------------------------------------
(* The rounds of ExtractMethodArguments, a branch each.  Mutant: the body  *)
(* advances the loop once more.                                            *)
MutantRound ==
  /\ pc = "parse"
  /\ at' = at + 2
  /\ UNCHANGED <<method, asked, answer>>

Round ==
  /\ pc = "parse"
  /\ at' = at + 1
  /\ UNCHANGED <<method, asked, answer>>

OpenParenthesis ==
  /\ Round
  /\ character = "("
  /\ started' = TRUE
  /\ UNCHANGED <<classBuffer, paramBuffer, paramTypes, pc>>

BeforeParenthesis ==
  /\ Round
  /\ character # "("
  /\ ~started
  /\ UNCHANGED <<started, classBuffer, paramBuffer, paramTypes, pc>>

CloseParenthesis ==
  /\ Round
  /\ started
  /\ character = ")"
  /\ pc' = "done"
  /\ UNCHANGED <<started, classBuffer, paramBuffer, paramTypes>>

ClassMark ==
  /\ Round
  /\ started
  /\ character = "L"
  /\ classBuffer' = Append(classBuffer, "L")
  /\ UNCHANGED <<started, paramBuffer, paramTypes, pc>>

ArrayMark ==
  /\ Round
  /\ started
  /\ character = "["
  /\ paramBuffer' = Append(paramBuffer, "[")
  /\ UNCHANGED <<started, classBuffer, paramTypes, pc>>

(* Mutant: the array marks are not cleared.                                *)
MutantClassTerminator ==
  /\ Round
  /\ started
  /\ character = ";"
  /\ paramTypes' = Append(paramTypes, paramBuffer \o Append(classBuffer, ";"))
  /\ classBuffer' = <<>>
  /\ UNCHANGED <<started, paramBuffer, pc>>

ClassTerminator ==
  /\ Round
  /\ started
  /\ character = ";"
  /\ paramTypes' = Append(paramTypes, paramBuffer \o Append(classBuffer, ";"))
  /\ classBuffer' = <<>>
  /\ paramBuffer' = <<>>
  /\ UNCHANGED <<started, pc>>

IsLetter == character \in Letters

ClassName ==
  /\ Round
  /\ started
  /\ IsLetter
  /\ classBuffer # <<>>
  /\ classBuffer' = Append(classBuffer, character)
  /\ UNCHANGED <<started, paramBuffer, paramTypes, pc>>

(* Mutant: the array marks before a base type are overlooked.              *)
MutantBaseType ==
  /\ Round
  /\ started
  /\ IsLetter
  /\ classBuffer = <<>>
  /\ paramTypes' = Append(paramTypes, <<character>>)
  /\ UNCHANGED <<started, classBuffer, paramBuffer, pc>>

BaseType ==
  /\ Round
  /\ started
  /\ IsLetter
  /\ classBuffer = <<>>
  /\ paramTypes' = Append(paramTypes, Append(paramBuffer, character))
  /\ paramBuffer' = <<>>
  /\ UNCHANGED <<started, classBuffer, pc>>

(* ExtractMethodReturnValue: what follows the first closing parenthesis.   *)
ReturnValue ==
  LET end == CHOOSE i \in DOMAIN Signature :
               Signature[i] = ")" /\ \A j \in 1..(i - 1) : Signature[j] # ")"
  IN  SubSeq(Signature, end + 1, Len(Signature))

----------------------------------------------------------------------------
(* IsStringParam: the index of the parameter, decremented for a static     *)
(* method; a negative one is `this`; vector::operator[] checks nothing.    *)
IsStringParam(index) ==
  LET arg_index == IF method.static THEN index - 1 ELSE index
  IN  IF arg_index < 0 THEN "no"
      ELSE IF arg_index >= Len(paramTypes) THEN "out of bounds"
      ELSE IF paramTypes[arg_index + 1] = CString THEN "yes"
      ELSE "no"

(* A pass asks about one of the parameters.                                *)
Ask(index) ==
  /\ pc = "done"
  /\ asked' = index
  /\ answer' = IsStringParam(index)
  /\ UNCHANGED <<method, at, started, classBuffer, paramBuffer, paramTypes,
                 pc>>

----------------------------------------------------------------------------
Parse ==
  \/ OpenParenthesis
  \/ BeforeParenthesis
  \/ CloseParenthesis
  \/ ClassMark
  \/ ArrayMark
  \/ ClassTerminator
  \/ ClassName
  \/ BaseType

Next == Parse \/ \E index \in 0..(ParameterCount - 1) : Ask(index)

Spec == Init /\ [][Next]_vars

----------------------------------------------------------------------------
(* The declared type of each parameter, by its index in the graph.         *)
DeclaredString(index) ==
  LET n == IF method.static THEN index + 1 ELSE index
  IN  n > 0 /\ method.types[n] = CString

(* The variables keep their types and the loop stays in the signature.     *)
TypeOK ==
  /\ method \in InputSpace
  /\ at \in 1..(Len(Signature) + 1)
  /\ started \in BOOLEAN
  /\ {classBuffer, paramBuffer} \subseteq Seq(Characters)
  /\ paramTypes \in Seq(Seq(Characters))
  /\ pc \in {"parse", "done"}
  /\ asked \in 0..ParameterCount \cup {None}
  /\ answer \in {"yes", "no", "out of bounds", None}

(* Splitting a signature undoes writing it: the parameter types come out   *)
(* one by one, in order and complete, arrays and classes included, and the *)
(* return type behind them.                                                *)
SignatureReadAsDeclared ==
  pc = "done" => paramTypes = method.types /\ ReturnValue = method.returns

(* No type is handed out before it is complete: at any moment of the loop  *)
(* the result is a prefix of the declared types.                           *)
TypesComeWhole == IsPrefix(paramTypes, method.types)

(* A parameter is a string parameter exactly if it is declared with type   *)
(* java.lang.String, and asking about `this` reads no type at all.         *)
StringParamAsDeclared ==
  asked # None =>
    answer = IF DeclaredString(asked) THEN "yes" ELSE "no"

=============================================================================
