------------------------ MODULE MCVerificationWorkflow ------------------------
(***************************************************************************)
(* Instances of VerificationWorkflow: a plan with an asynchronous primary, *)
(* its fallback and a check that depends on the primary.                   *)
(***************************************************************************)
EXTENDS VerificationWorkflow, TLC

CONSTANTS primary, fallback, dependent

PlanDependsOn == (primary :> << >>) @@ (fallback :> << >>) @@ (dependent :> <<primary>>)

PlanFallbackFor == (primary :> None) @@ (fallback :> primary) @@ (dependent :> None)

PairDependsOn == (primary :> << >>) @@ (fallback :> << >>)

PairFallbackFor == (primary :> None) @@ (fallback :> primary)

Deliveries == Permutations(Workers) \cup Permutations(Authors)
===============================================================================
