--------------------------------- MODULE MCXtask -------------------------------
(***************************************************************************)
(* A small catalog with every form a signature takes, two compilers of the *)
(* version the catalog is pinned to and one of another, and archives of    *)
(* two models.                                                             *)
(***************************************************************************)
EXTENDS Xtask

Name(base, suffix) == [base |-> base, suffix |-> suffix]
Line(base, suffix, text) == [name |-> Name(base, suffix), text |-> text]

Density == <<"(", "real", ",", "tuple", "(", "array", "[", ",", "]", "int", ",", "real", ")",
             ")", "=>", "real">>
Mass == <<"(", "array", "[", "]", "int", ",", "data", "array", "[", ",", "]", "real", ")",
          "=>", "real">>
Solver == <<"(", "(", "vector", ",", "data", "array", "[", "]", "real", ")", "=>", "vector", ",",
            "data", "vector", ")", "=>", "complex_matrix">>
Plain == <<"(", "real", ")", "=>", "real">>
Nullary == <<"(", ")", "=>", "void">>

MCLineOrder ==
  <<Line("a1", "", Plain), Line("a_1", "", Plain), Line("abs", "", Nullary),
    Line("abs", "", Plain), Line("n", "_lpdf", Density), Line("n", "_lpmf", Mass),
    Line("n", "_lupdf", Density), Line("n", "_lupmf", Mass), Line("s", "", Solver)>>

Compiler(version, numbers) ==
  [version |-> version, dump |-> {MCLineOrder[n] : n \in numbers}]
MCCompilers ==
  {Compiler("2.39.0", {1, 4, 5}), Compiler("2.39.0", {3, 4, 5, 6, 9}),
   Compiler("2.39.0", {1, 2, 4}), Compiler("2.40.0", {4, 6})}

MCSpecialLines ==
  <<[name |-> Name("laplace_tol", ""), fields |-> <<"display1", "real">>],
    [name |-> Name("ode_tol", ""), fields |-> <<"display2", "vector">>]>>
MCRemoved == {Name("fabs", "")}
MCAvailabilities ==
  {[valid |-> TRUE, introduced |-> (Name("abs", "") :> 0) @@ (Name("s", "") :> 40)],
   [valid |-> FALSE, introduced |-> <<>>]}

MCBehaviour ==
  (<<"smoke", "m0">> :> {"accepted"}) @@
  (<<"r1", "m1">> :> {"accepted"}) @@ (<<"r1", "m2">> :> {"formatter refuses"}) @@
  (<<"r2", "m1">> :> {"accepted", "local errors"}) @@ (<<"r2", "m2">> :> {"formatter wavers"})
MCPins == {"r1", "r2"}
MCParts == {"m1", "m2"}
MCSmoke == {<<"smoke", "m0">>}
================================================================================
