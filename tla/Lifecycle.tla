------------------------------ MODULE Lifecycle ------------------------------
(***************************************************************************)
(* The session lifecycle of internal/verification/lifecycle.go: the state  *)
(* vocabulary, the transition graph and the pure transition function that  *)
(* every lifecycle writer goes through.  The module has no state of its    *)
(* own; SessionLifecycle and VerificationWorkflow use its operators.       *)
(***************************************************************************)
EXTENDS Common

SessionStates ==
    {"created", "collecting", "awaiting_input", "processing",
     "awaiting_external", "manual_review",
     "completed", "cancelled", "expired", "failed"}

Terminal(state) == state \in {"completed", "cancelled", "expired", "failed"}

(***************************************************************************)
(* The edges that do not stop the workflow, apart from the three edges     *)
(* every live state has (lifecycleEdge handles those first).               *)
(***************************************************************************)
WorkflowEdges ==
    { <<"created", "collecting">>,
      <<"collecting", "awaiting_input">>,
      <<"collecting", "processing">>,
      <<"awaiting_input", "collecting">>,
      <<"awaiting_input", "manual_review">>,
      <<"processing", "awaiting_external">>,
      <<"processing", "awaiting_input">>,
      <<"processing", "manual_review">>,
      <<"processing", "completed">>,
      <<"awaiting_external", "processing">>,
      <<"manual_review", "awaiting_input">>,
      <<"manual_review", "completed">> }

lifecycleEdge(from, to) ==
    \/ to \in {"cancelled", "failed"} /\ from \in SessionStates /\ ~Terminal(from)
    \/ to = "expired" /\ from \in SessionStates \ {"created"} /\ ~Terminal(from)
    \/ <<from, to>> \in WorkflowEdges

(***************************************************************************)
(* LifecycleCommand.Validate: a decision is named exactly by a completion, *)
(* a failure exactly by the failed state.                                  *)
(***************************************************************************)
ValidCommand(command) ==
    /\ command.expected >= 1
    /\ command.target \in SessionStates
    /\ (command.target = "completed") = (command.decision # None)
    /\ (command.target = "failed") = (command.failure # None)

(***************************************************************************)
(* The guard of AdvanceLifecycle.  A session is a record with the fields   *)
(* state, version, updated, decision and failure; its creation and         *)
(* expiry instants do not change and are parameters where needed.          *)
(***************************************************************************)
CanAdvance(session, command, expiresAt) ==
    /\ ValidCommand(command)
    /\ session.state \in SessionStates /\ ~Terminal(session.state)
    /\ session.failure = None /\ session.decision = None
    /\ session.version = command.expected
    /\ command.occurred >= session.updated
    /\ lifecycleEdge(session.state, command.target)
    /\ IF command.target = "expired"
         THEN command.occurred >= expiresAt
         ELSE command.occurred < expiresAt

(***************************************************************************)
(* A transition function that leaves the decision column as it was.        *)
(***************************************************************************)
AdvanceLifecycleUndecided(session, command) ==
    [state    |-> command.target,
     version  |-> session.version + 1,
     updated  |-> command.occurred,
     decision |-> session.decision,
     failure  |-> command.failure]

(***************************************************************************)
(* What AdvanceLifecycle returns when its guard holds.                     *)
(***************************************************************************)
AdvanceLifecycle(session, command) ==
    [state    |-> command.target,
     version  |-> session.version + 1,
     updated  |-> command.occurred,
     decision |-> command.decision,
     failure  |-> command.failure]
==============================================================================
