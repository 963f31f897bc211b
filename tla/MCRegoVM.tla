------------------------------ MODULE MCRegoVM ------------------------------
(***************************************************************************)
(* Small bundles for RegoVM, laid out as rego_to_bundle lays them out: the *)
(* locals of different functions are different, a function resets its      *)
(* result first and returns it last.                                       *)
(***************************************************************************)
EXTENDS RegoVMTrace, RegoEval, Statements, TLC

MCKeyText(v) == IF Tag(v) = "string" THEN v[2] ELSE Tag(v)

\* The run ends as the reference says (a run stopped by a limit is left out).
Observed == IF status = "threw" THEN <<"threw">>
            ELSE IF errors # <<>> THEN <<"errors">>
            ELSE <<"results", [i \in DOMAIN results |-> ValueOf(results[i])]>>
Limited == \E i \in DOMAIN errors : errors[i] \in {"timeout", "rego_recursion_error"}

\* Caching, the shared frame, the sharing of nodes and the explicit unwinding
\* of codes are invisible: a run ends with the outcome and the results that
\* the reference evaluation gives.
AgreesWithReference ==
    status \in {"done", "threw"} /\ ~Limited =>
        Observed = Meaning(bundle, entry[1].values[0])

-----------------------------------------------------------------------------
F == <<"g0", "p", "f">>
G == <<"g0", "p", "g">>
strict == <<"strict">>
one == <<"int", 1>>
Args == <<L(0), L(1)>>

Function(ps, r, bs) == [params |-> ps, result |-> r, blocks |-> bs,
                        arity |-> Len(ps), cacheable |-> Len(ps) = 2]
Resets(l) == <<S("ResetLocal", l)>>
Returns(l) == <<S("IsDefined", l), S("ReturnLocal", l)>>

\* The core family: a plan that uses a rule F twice, F may call a function G.
\* Blocks: 1 plan, 2-4 F, 5-7 G, 8- nested.
CallF == CallFn(F, Args, 2)
Nested == << <<CallF, S0("AssignVarOnce", 3, L(2))>>,                     \* 8
             <<S0("Equal", 0, L(6)), S0("AssignVarOnce", 3, L(5))>>,      \* 9
             <<CallFn(G, Args \o <<L(0)>>, 7)>>,                           \* 10
             <<CallFn(strict, <<L(0)>>, 10)>> >>                           \* 11
PlanPool == { CallF, S0("AssignVarOnce", 3, L(2)), SB("Not", <<8>>), SB("Not", <<11>>),
              SB("Block", <<11, 8>>), SB("Block", <<8>>), Scan(1, 5, 6, 8),
              With(0, <<>>, V(Str("b")), 8), With(1, <<Str("k")>>, BoolOp(TRUE), 8) }
FPool == { <<S0("AssignVarOnce", 4, L(0))>>,
           <<S1("Equal", 0, L(0), V(Str("a"))), S0("AssignVarOnce", 4, BoolOp(TRUE))>>,
           <<CallFn(G, Args \o <<L(0)>>, 7), S0("AssignVarOnce", 4, L(7))>>,
           <<With(0, <<>>, V(Str("b")), 10), S0("AssignVarOnce", 4, L(7))>>,
           <<S("MakeSet", 4), S0("SetAdd", 4, L(0)), S0("SetAdd", 4, L(1))>>,
           <<S0("AssignVarOnce", 4, L(0)), S0("AssignVarOnce", 4, V(Str("b")))>>,
           <<CallFn(strict, <<L(0)>>, 7), S0("AssignVarOnce", 4, L(7))>>,
           <<CallFn(F, Args, 7), S0("AssignVarOnce", 4, L(0))>> }
GPool == { <<S0("AssignVarOnce", 8, L(9))>>,
           <<S1("NotEqual", 0, L(9), V(Str("b"))), S0("AssignVarOnce", 8, L(9))>>,
           <<S("MakeArray", 8), S0("ArrayAppend", 8, L(9)), S0("ArrayAppend", 8, L(0))>> }

Core(a, b, f, g, data) ==
    [ blocks |-> << <<a, b, S("ResultSetAdd", 3)>>, Resets(4), f, Returns(4),
                    Resets(8), g, Returns(8) >> \o Nested,
      plan |-> <<1>>,
      functions |-> F :> Function(<<0, 1>>, 4, <<2, 3, 4>>)
                 @@ G :> Function(<<0, 1, 9>>, 8, <<5, 6, 7>>),
      builtins |-> strict :> Err,
      data |-> data, local_count |-> 11 ]

\* A With of a path below the data document needs an object there.
CoreChoices ==
    { c \in PlanPool \X PlanPool \X FPool \X GPool \X {<<"array", <<one, Str("a")>> >>, EmptyObject} :
      c[5] # EmptyObject => With(1, <<Str("k")>>, BoolOp(TRUE), 8) \notin {c[1], c[2]} }
CoreBundles == { Core(c[1], c[2], c[3], c[4], c[5]) : c \in CoreChoices }
CoreInputs == {Str("a"), Undef}

-----------------------------------------------------------------------------
\* The limits family: calls and blocks nested up to and over the limits, a
\* scan that appends to the array it scans or calls, empty blocks, a dynamic call.
H(i) == <<"g0", "p", <<"a", "b", "c", "d">>[i]>>
Deep(body, rest) ==
    [ blocks |-> << rest, <<SB("Block", <<3, 12>>), S("ReturnLocal", 0)>>, body,
                    <<CallFn(H(2), Args, 3), S("ReturnLocal", 0)>>,
                    <<CallFn(H(3), Args, 4), S("ReturnLocal", 0)>>,
                    <<CallFn(H(4), Args, 5), S("ReturnLocal", 0)>>,
                    <<S0("MakeNumberInt", 6, R(1)), S("ReturnLocal", 0)>>,
                    <<SB("Not", <<9>>)>>, <<SB("Block", <<10>>)>>,
                    <<SB("Block", <<11>>)>>, <<S("Nop", 0)>>, <<>>,
                    <<S0("ArrayAppend", 7, L(9))>>, <<CallFn(H(1), Args, 2)>> >>,
      plan |-> <<1, 2>>,
      functions |-> [f \in {H(i) : i \in 1..4} |->
                        LET i == CHOOSE j \in 1..4 : H(j) = f
                        IN  Function(<<0, 1>>, i + 2, <<i + 3>>)],
      builtins |-> strict :> Err,
      data |-> EmptyObject, local_count |-> 11 ]
DeepPool == { <<CallFn(H(1), Args, 2)>>, <<SB("Block", <<8>>)>>, <<SB("Not", <<8>>)>>,
              <<S("MakeArray", 7), S0("ArrayAppend", 7, L(0)), Scan(7, 8, 9, 13)>>,
              <<S("MakeArray", 7), S0("ArrayAppend", 7, L(0)), S0("ArrayAppend", 7, L(1)),
                Scan(7, 8, 9, 14)>>,
              <<S("MakeNull", 2), S("ResultSetAdd", 2)>>, <<SB("Block", <<12, 12>>)>>,
              <<Dyn(<<V(Str("p")), V(Str("b"))>>, Args, 2), SB("Not", <<8>>)>>,
              <<S("MakeNull", 2), With(0, <<>>, L(2), 8)>>,
              <<CallFn(H(2), Args, 2)>>, <<CallFn(H(4), Args, 2), CallFn(H(4), Args, 2)>> }
DeepBundles == { Deep(a, b) : a, b \in DeepPool }

\* The data family: two statements on the values of locals 2 and 3.
DataPool ==
    { S1("ObjectInsert", 2, V(Str("k")), L(0)), S1("ObjectInsertOnce", 2, V(Str("k")), L(1)),
      S1("ObjectInsertOnce", 2, V(Str("k")), BoolOp(FALSE)),
      S1("ObjectMerge", 3, L(2), L(1)), S1("ObjectMerge", 3, L(1), L(2)),
      S0("SetAdd", 2, L(3)), S0("ArrayAppend", 2, L(0)), S0("ArrayAppend", 2, L(7)),
      S1("Dot", 3, L(1), V(Str("k"))), S0("Len", 3, L(2)), S0("IsObject", 0, L(2)),
      S0("IsArray", 0, L(2)), S0("IsSet", 0, L(2)), S("IsDefined", 3), S("IsUndefined", 3),
      S0("AssignVar", 3, L(0)), S("MakeNull", 3), S1("Equal", 0, L(2), L(3)),
      S1("NotEqual", 0, L(3), BoolOp(TRUE)), S("Nop", 0), S0("AssignVarOnce", 3, L(0)),
      Dyn(<<V(Str("p")), V(Str("f"))>>, Args, 3),
      Dyn(<<V(Str("p")), V(Str("f")), V(Str("k"))>>, Args, 3),
      Dyn(<<V(Str("p")), V(Str("f")), L(0)>>, Args, 3), Dyn(<<V(Str("p")), L(0)>>, Args, 3),
      Scan(2, 5, 6, 4), With(1, <<Str("k")>>, L(0), 3), With(1, <<Str("j"), Str("k")>>, L(2), 3),
      With(2, <<Str("k"), Str("k")>>, L(0), 4), CallFn(F, Args, 3) }
DataBundle(make, a, b) ==
    [ blocks |-> << <<make, a, b, S("ResultSetAdd", 2), S("IsDefined", 3), S("ResultSetAdd", 3)>>,
                    <<S("ResetLocal", 4), S0("AssignVarOnce", 4, L(1)), S("ReturnLocal", 4)>>,
                    <<CallFn(F, Args, 3), S1("Dot", 7, L(1), V(Str("k"))), S("ResultSetAdd", 7)>>,
                    <<S0("AssignVar", 3, L(2)), S("ResultSetAdd", 6)>> >>,
      plan |-> <<1>>,
      functions |-> F :> Function(<<0, 1>>, 4, <<2>>),
      builtins |-> strict :> Err,
      data |-> <<"object", Str("k") :> <<"true">> >>, local_count |-> 8 ]
DataChoices == {S("MakeObject", 2), S("MakeSet", 2), S("MakeArray", 2), S0("AssignVarOnce", 2, L(0))}
               \X DataPool \X DataPool

\* The loaded family: bundles that BundleDef::verify accepts and that
\* rego_to_bundle does not produce.
LoadedPool ==
    { S0("Break", 0, R(0)), S0("Break", 0, R(1)), S0("Break", 0, R(2)),
      SB("Block", <<3, 4>>), SB("Block", <<4, 3>>), SB("Not", <<3>>), CallFn(H(1), Args \o <<L(1)>>, 3),
      CallFn(H(2), Args, 3), CallFn(H(3), Args, 3), CallFn(H(4), Args, 3),
      CallFn(H(1), <<L(0), L(1), R(3)>>, 3), CallFn(strict, <<R(0)>>, 3),
      S0("AssignVar", 3, R(1)), Scan(1, 2, 3, 4), Scan(3, 2, 3, 4),
      With(0, <<Str("k")>>, BoolOp(TRUE), 4),
      S1("ObjectMerge", 3, L(0), L(1)), Scan(1, 2, 3, 3),
      Dyn(<<V(Str("p")), V(Str("c"))>>, <<L(0)>>, 3) }
Loaded(a, b) ==
    [ blocks |-> << <<a, b>>, <<S("ResultSetAdd", 3)>>,
                    <<SB("Block", <<5>>), S("Nop", 0)>>, <<CallFn(H(1), Args \o <<BoolOp(TRUE)>>, 3)>>,
                    <<S0("Break", 0, R(2)), S("Nop", 0)>>,
                    <<S0("AssignVar", 3, L(4)), S("ReturnLocal", 3)>>, <<S0("Break", 0, R(1))>> >>,
      plan |-> <<1, 2>>,
      functions |-> H(1) :> Function(<<0, 1, 4>>, 3, <<6>>)
                 @@ H(2) :> Function(<<0, 1>>, 3, <<>>)
                 @@ H(3) :> Function(<<0, 1>>, 2, <<7, 6>>),
      builtins |-> strict :> one,
      data |-> <<"set", {one}>>, local_count |-> 5 ]
LoadedBundles == { Loaded(a, b) : a, b \in LoadedPool }

\* The families that share a run.
EdgeBundles == DeepBundles \cup LoadedBundles

\* A plan that opa build produced (tests/opa/bundles/expressions/plan.json):
\* every function numbers its locals from 2.
OpaRule(b) == << S("ResetLocal", 3), S0("MakeNumberInt", 4, R(b)),
                 S0("AssignVarOnce", 3, L(4)), S0("AssignVarOnce", 2, L(3)),
                 S("ReturnLocal", 2) >>
OpaBundles ==
    { [ blocks |-> << <<CallFn(H(3), Args, 2), S("ResultSetAdd", 2)>>, OpaRule(1), OpaRule(2),
                      << S("ResetLocal", 3), CallFn(H(1), Args, 4), S0("AssignVar", 5, L(4)),
                         CallFn(H(2), Args, 6), S0("AssignVar", 7, L(6)),
                         CallFn(strict, <<L(5), L(7)>>, 8), S0("AssignVar", 9, L(8)),
                         S0("AssignVarOnce", 3, L(9)), S0("AssignVarOnce", 2, L(3)),
                         S("ReturnLocal", 2) >> >>,
        plan |-> <<1>>,
        functions |-> H(1) :> Function(<<0, 1>>, 2, <<2>>) @@ H(2) :> Function(<<0, 1>>, 2, <<3>>)
                   @@ H(3) :> Function(<<0, 1>>, 2, <<4>>),
        builtins |-> strict :> <<"int", 3>>,
        data |-> EmptyObject, local_count |-> 10 ] }

\* A bundle that RegoVMLayout excludes and rego_to_bundle does not make: the
\* array that dot finds in the cached result of a rule, and in the data, is filled.
AliasBundles ==
    { [ blocks |-> << << CallFn(F, Args, 5), S1("Dot", 7, L(5), V(Str("k"))),
                         S0("ArrayAppend", 7, L(0)), S("ResultSetAdd", 7) >>,
                      << S("ResetLocal", 4), S0("AssignVarOnce", 4, L(1)), S("ReturnLocal", 4) >> >>,
        plan |-> <<1>>,
        functions |-> F :> Function(<<0, 1>>, 4, <<2>>),
        builtins |-> strict :> one,
        data |-> <<"object", Str("k") :> <<"array", <<one>> >> >>, local_count |-> 8 ] }
=============================================================================
