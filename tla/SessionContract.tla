---------------------------- MODULE SessionContract ----------------------------
(***************************************************************************)
(* What a verification session promises to everything that reads it, with  *)
(* the machinery left out: it moves along the lifecycle graph of           *)
(* internal/verification/lifecycle.go, every move is one version, and it   *)
(* names a decision exactly when it has completed.  SessionLifecycle (the  *)
(* durable row) and VerificationWorkflow (the handlers that drive it) are  *)
(* shown to implement this specification.                                  *)
(***************************************************************************)
EXTENDS Lifecycle

VARIABLES state,        \* the session's lifecycle state
          version,      \* the version a reader may compare
          decided       \* the session names a decision

contractVars == <<state, version, decided>>

ContractInit ==
    /\ state \in {"created", "collecting"}
    /\ version = 1
    /\ decided = FALSE

Move ==
    /\ lifecycleEdge(state, state')
    /\ version' = version + 1
    /\ decided' = (state' = "completed")

ContractSpec == ContractInit /\ [][Move]_contractVars
================================================================================
