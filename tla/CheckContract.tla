----------------------------- MODULE CheckContract -----------------------------
(***************************************************************************)
(* What the checks of a session promise to everything that reads them (the *)
(* policy author, the route gate, the progress stream), with tasks,        *)
(* results, receipts and versions left out: they are planned together, one *)
(* at a time they retry or finish, a finished check never changes, and     *)
(* once the session is closed nothing changes but what the closing itself  *)
(* cancelled.  CheckExecution (one check in full detail) and               *)
(* VerificationWorkflow (all checks, each reduced to a state and a number) *)
(* are shown to implement this specification.                              *)
(***************************************************************************)
EXTENDS Naturals

CONSTANTS Checks,       \* the checks of the plan
          MaxSemantic   \* attempts of one check

VARIABLES state,        \* per check: its state, "none" before planning
          attempt,      \* per check: the number of its latest attempt
          open          \* the session still accepts work

checkContractVars == <<state, attempt, open>>

FinishedStates == {"completed", "skipped_by_policy", "timed_out", "cancelled", "failed"}

Planned == state = [c \in Checks |-> "running"] /\ attempt = [c \in Checks |-> 1]

ChecksInit ==
    /\ open = TRUE
    /\ \/ state = [c \in Checks |-> "none"] /\ attempt = [c \in Checks |-> 0]
       \/ Planned

Plan ==
    /\ state = [c \in Checks |-> "none"]
    /\ Planned'

RetryCheck(c) ==
    /\ state[c] = "running" /\ attempt[c] < MaxSemantic
    /\ attempt' = [attempt EXCEPT ![c] = @ + 1]
    /\ state' = state

FinishCheck(c) ==
    /\ state[c] = "running"
    /\ \E s \in FinishedStates : state' = [state EXCEPT ![c] = s]
    /\ attempt' = attempt

CloseSession ==
    /\ open' = FALSE /\ attempt' = attempt
    /\ \E S \in SUBSET {c \in Checks : state[c] = "running"} :
         state' = [c \in Checks |-> IF c \in S THEN "cancelled" ELSE state[c]]

ChecksNext ==
    /\ open
    /\ \/ /\ open' = open
          /\ Plan \/ \E c \in Checks : RetryCheck(c) \/ FinishCheck(c)
       \/ CloseSession

ChecksSpec == ChecksInit /\ [][ChecksNext]_checkContractVars
================================================================================
