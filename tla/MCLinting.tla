------------------------------- MODULE MCLinting -------------------------------
(***************************************************************************)
(* A catalog of four functions: one with overloads of scalars and vectors  *)
(* whose second parameter is data only, an expensive one, one that belongs *)
(* in generated quantities, and the density behind the one distribution.   *)
(***************************************************************************)
EXTENDS Linting

MCSignatures ==
  ("two" :> {<<"real", "real">>, <<"vector", "vector">>}) @@ ("inverse" :> {<<"vector">>})
  @@ ("rng" :> {<<"real">>}) @@ ("nrm_lpdf" :> {<<"real", "real", "real">>})
MCDataArguments ==
  ("two" :> {2}) @@ ("inverse" :> {}) @@ ("rng" :> {}) @@ ("nrm_lpdf" :> {})
MCContexts ==
  [f \in DOMAIN MCSignatures |->
     IF f = "rng" THEN {"transformedData", "generatedQuantities"} ELSE BlockKinds]
MCDistributions == "nrm" :> "nrm_lpdf"
================================================================================
