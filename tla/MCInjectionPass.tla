-------------------------- MODULE MCInjectionPass --------------------------
(* Small methods and policies for TLC.  Signatures: "a" and "b" are called *)
(* by the app, "m" is compiled, "k" is the method of the codelibs.         *)
EXTENDS InjectionPass

MCSignatures == {"a", "b", "m", "k"}

(* An instruction of the app; the call of "b" passes a long.               *)
I(id, kind, callee, args) ==
  [id |-> id, kind |-> kind, callee |-> callee, args |-> args,
   words |-> IF callee = "b" THEN args + 1 ELSE args,
   by |-> 0, inj |-> 0, anchor |-> 0, lib |-> 0]

(* Calls in a row; two returns, a removed block and every kind of invoke;  *)
(* a method that never returns.                                            *)
InARow ==
  << <<I(1, "HGoto", "", 0)>>,
     <<I(2, "HInvokeStaticOrDirect", "a", 0), I(3, "HInvokeVirtual", "b", 2),
       I(4, "HReturnVoid", "", 0)>>,
     <<I(5, "HOther", "", 0)>> >>

Branching ==
  << <<I(1, "HOther", "", 0), I(2, "HGoto", "", 0)>>,
     <<I(3, "HInvoke", "b", 1), I(4, "HOther", "", 0)>>,
     <<I(5, "HReturn", "", 0)>>,
     <<>>,
     <<I(6, "HInvokeInterface", "a", 1), I(7, "HReturn", "", 0)>>,
     <<I(8, "HOther", "", 0)>> >>

Throwing ==
  << <<I(1, "HGoto", "", 0)>>,
     <<I(2, "HInvokeStaticOrDirect", "a", 1), I(3, "HOther", "", 0)>>,
     <<I(4, "HOther", "", 0)>> >>

T(type, generic) == [type |-> type, generic |-> generic, names |-> {"a"}]

Injections(targets, listed, parameters) ==
  {[signature |-> "k", parameters |-> parameters, targets |-> <<t>>,
    listed |-> listed, resolved |-> TRUE] : t \in targets}

Usual(targets) ==
  Injections(targets, TRUE, <<"tInteger", "tLong", "tBoolean">>)

AllTargets ==
  {T(type, g) : type \in TargetTypes \ {"NO_INJECTION"}, g \in BOOLEAN}
    \cup {T("NO_INJECTION", TRUE)}

UpTo2(S) == {<<>>} \cup {<<i>> : i \in S} \cup {<<i, j>> : i, j \in S}

First1 == UpTo2(Usual(AllTargets))
            \cup {<<i>> : i \in Injections(AllTargets, FALSE, <<>>)
                              \cup Injections(AllTargets, TRUE,
                                              <<"tChar", "tPrimitive">>)}

Second ==
  {<<>>} \cup {<<i>> : i \in Usual(AllTargets)}
         \cup {<<i>> : i \in Injections({T("METHOD_CALL_AFTER", FALSE)},
                                       FALSE, <<>>)}

(* One injection with two targets.                                         *)
Mixed ==
  {<<[signature |-> "k", parameters |-> <<"tDouble">>, targets |-> <<s, t>>,
      listed |-> TRUE, resolved |-> TRUE]>> : s, t \in AllTargets}

(* A call at the start, and at calls that include those of the pass before.*)
AtStart == Usual({T("METHOD_START", TRUE)})

StartAndCalls ==
  {<<[signature |-> "k", parameters |-> <<>>,
      targets |-> <<T("METHOD_START", g), T(type, h)>>, listed |-> TRUE,
      resolved |-> TRUE]>> :
     type \in {"METHOD_CALL_BEFORE", "METHOD_CALL_AFTER"},
     g \in BOOLEAN, h \in BOOLEAN}

(* Three passes: one leaves a call in the entry block, the second loads    *)
(* its codelib behind it, the third may put calls behind both.  And passes *)
(* that look at calls they do not name, or follow others behind a return.  *)
Named(type, names) == [type |-> type, generic |-> FALSE, names |-> names]

Calling(targets) ==
  [signature |-> "k", parameters |-> <<>>, targets |-> targets,
   listed |-> TRUE, resolved |-> TRUE]

AtA == Calling(<<Named("METHOD_CALL_BEFORE", {"a"})>>)

Later ==
  {Calling(<<T("METHOD_START", TRUE), Named("METHOD_CALL_BEFORE", n)>>) :
     n \in {{"a"}, {"k"}}}
  \cup {Calling(<<Named("METHOD_CALL_AFTER", {"b"}), T("METHOD_END", g)>>) :
          g \in BOOLEAN}

AfterAnyCall ==
  Calling(<<T("METHOD_CALL_AFTER", TRUE), T("METHOD_END", TRUE)>>)

Chains ==
  {<<<<i>>, <<AtA>>, <<j>>>> : i \in AtStart, j \in Later}
    \cup {<<<<i>>, <<j>>>> : i \in AtStart, j \in Later}
    \cup {<<<<AfterAnyCall>>,
             <<Calling(<<T("METHOD_CALL_AFTER", g)>>)>>>> : g \in BOOLEAN}

(* A module without a codelib, one whose instance field does not resolve,  *)
(* and methods that the dex file of the codelib lacks, in the first pass   *)
(* and in the second.                                                      *)
Lacking ==
  {<<[i EXCEPT !.resolved = FALSE]>> :
     i \in Injections(AllTargets, TRUE, <<"tChar">>)}

Whole(policies) == [p \in DOMAIN policies |-> "whole"]

Provided ==
  {[policies |-> p, libs |-> Whole(p)] :
     p \in (First1 \X Second) \cup {<<x>> : x \in Mixed}
             \cup ({<<i, j>> : i, j \in AtStart} \X StartAndCalls)
             \cup Chains
             \cup {<<x>> : x \in Lacking}
             \cup ({<<i>> : i \in AtStart} \X Lacking)}

Unprovided ==
  {[policies |-> <<<<i>>, <<j>>>>, libs |-> l] :
     i, j \in Usual({T("METHOD_END", FALSE), T("METHOD_CALL_AFTER", FALSE)}),
     l \in (Environments \X Environments) \ {<<"whole", "whole">>}}

MCInputs ==
  {[graph |-> g, signature |-> m, outs |-> 3, policies |-> p.policies,
    libs |-> p.libs] :
     g \in {InARow, Branching, Throwing}, m \in {"a", "m"},
     p \in Provided \cup Unprovided}

=============================================================================
