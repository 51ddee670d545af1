--------------------------- MODULE SessionLifecycle ---------------------------
(***************************************************************************)
(* The durable lifecycle of one verification session: the session row, the *)
(* append-only transition ledger, the outbox/audit journal and the         *)
(* decision rows, written by concurrent writers through                    *)
(* internal/verification/postgres/lifecycle.go ApplyWithin.                *)
(*                                                                         *)
(* A writer (API handler, worker task, policy or review effect) builds a   *)
(* command from the version it has read and a clock of its own, and        *)
(* submits it.  ApplyWithin runs in one serializable transaction, so one   *)
(* action is one call; the reply may be lost, and the writer then submits  *)
(* the same command again, possibly long after other transitions.          *)
(***************************************************************************)
EXTENDS Lifecycle, Clock, Sequences

CONSTANTS Writers,      \* processes that submit lifecycle commands
          Events,       \* command identities (EventID)
          Decisions,    \* policy decision identities
          Failures,     \* closed operational failure reasons
          Initial,      \* state in which the session row is inserted
          ExpiresAt     \* end of the completion window

Times == 0 .. MaxTime

(***************************************************************************)
(* An immutable decision row: when it was decided, and whether it carries  *)
(* one of the outcomes verified, not_verified or inconclusive.             *)
(***************************************************************************)
DecisionRow == [at : Times, outcome : BOOLEAN]

Command ==
    [event : Events, expected : Int, target : SessionStates,
     decision : Decisions \cup {None}, failure : Failures \cup {None},
     actor : Writers, occurred : Times]

Receipt ==
    [event : Events, from : SessionStates, to : SessionStates, version : Int,
     decision : Decisions \cup {None}, occurred : Times]

Session ==
    [state : SessionStates, version : Int, updated : Times,
     decision : Decisions \cup {None}, failure : Failures \cup {None}]

(***************************************************************************)
(* A row of verification_transitions; the stored command digest is         *)
(* collision free, so the row keeps the command itself.                    *)
(***************************************************************************)
TransitionRow ==
    [command : Command, from : SessionStates, to : SessionStates, version : Int]

VARIABLES session,      \* the verification_sessions row
          transitions,  \* verification_transitions, by event
          journal,      \* outbox and audit rows in commit order
          decisions,    \* verification_decisions rows, by decision
          command,      \* per writer: the command it submits and resubmits
          answer        \* per writer: what the last call returned

vars == <<session, transitions, journal, decisions, command, answer, now>>

ASSUME LifecycleConstants ==
    /\ ExpiresAt \in Nat \ {0} /\ MaxTime \in Nat
    /\ Initial \in {"created", "collecting"}
    /\ None \notin Decisions /\ None \notin Failures
    /\ None \notin Command /\ None \notin Receipt /\ None \notin TransitionRow
    /\ None \notin DecisionRow

Init ==
    /\ session = [state |-> Initial, version |-> 1, updated |-> 0,
                  decision |-> None, failure |-> None]
    /\ transitions = [e \in Events |-> None]
    /\ journal = << >>
    /\ decisions = [d \in Decisions |-> None]
    /\ command = [w \in Writers |-> None]
    /\ answer = [w \in Writers |-> None]
    /\ now = 0

(***************************************************************************)
(* A command against the version of the session row as it is now.          *)
(***************************************************************************)
Draft(w, e, target, d, f, t) ==
    [event |-> e, expected |-> session.version, target |-> target, decision |-> d,
     failure |-> f, actor |-> w, occurred |-> t]

Submit(w, c) ==
    /\ ValidCommand(c) /\ lifecycleEdge(session.state, c.target)
    /\ command' = [command EXCEPT ![w] = c]
    /\ answer' = [answer EXCEPT ![w] = None]
    /\ UNCHANGED <<session, transitions, journal, decisions, now>>

(***************************************************************************)
(* A writer builds a command from the session row it reads now: the target *)
(* is a transition it believes possible.  Its clock is its own, so         *)
(* OccurredAt may be ahead of the store's; it is behind by the time the    *)
(* command is applied.                                                     *)
(***************************************************************************)
Issue(w) ==
    /\ command[w] = None \/ answer[w] # None
    /\ \E e \in Events, target \in SessionStates, d \in Decisions \cup {None},
          f \in Failures \cup {None}, t \in now .. MaxTime :
         Submit(w, Draft(w, e, target, d, f, t))

(***************************************************************************)
(* lifecycleReceipt: the receipt is rebuilt from the submitted command.    *)
(***************************************************************************)
lifecycleReceipt(c, from) ==
    [event |-> c.event, from |-> from, to |-> c.target,
     version |-> c.expected + 1, decision |-> c.decision, occurred |-> c.occurred]

(***************************************************************************)
(* replayLifecycle: the ledger row of this event, whoever wrote it.        *)
(***************************************************************************)
Replayed(c) == transitions[c.event] # None

(***************************************************************************)
(* The digest comparison as it would be if only the event identity and     *)
(* the target counted.                                                     *)
(***************************************************************************)
SameDigestTargetOnly(c) == transitions[c.event].command.target = c.target

SameDigest(c) == transitions[c.event].command = c

(***************************************************************************)
(* validateCompletion: the decision row exists, was decided no later than  *)
(* the completion and carries an outcome.                                  *)
(***************************************************************************)
validateCompletion(c) ==
    c.target = "completed" =>
        /\ decisions[c.decision] # None
        /\ decisions[c.decision].at <= c.occurred
        /\ decisions[c.decision].outcome

(***************************************************************************)
(* The store's clock as it would be if OccurredAt alone were trusted.      *)
(***************************************************************************)
TrustOccurredAt(c) == c.occurred <= now

(***************************************************************************)
(* The store's own clock: nothing from the future, and nothing but expiry  *)
(* once the completion window has closed.                                  *)
(***************************************************************************)
ObservedInTime(c) ==
    /\ c.occurred <= now
    /\ c.target # "expired" => now < ExpiresAt

Accepts(c) ==
    /\ ObservedInTime(c)
    /\ CanAdvance(session, c, ExpiresAt)
    /\ validateCompletion(c)

(***************************************************************************)
(* persistLifecycle as it would be if the ledger row were written from the *)
(* session's state after the update.                                       *)
(***************************************************************************)
persistLifecycleAfterUpdate(c) ==
    /\ session' = AdvanceLifecycle(session, c)
    /\ transitions' = [transitions EXCEPT ![c.event] =
                         [command |-> c, from |-> session'.state, to |-> c.target,
                          version |-> session.version + 1]]
    /\ journal' = Append(journal, c.event)

(***************************************************************************)
(* persistLifecycle: session row, ledger row, outbox and audit rows, in    *)
(* one transaction.                                                        *)
(***************************************************************************)
persistLifecycle(c) ==
    /\ session' = AdvanceLifecycle(session, c)
    /\ transitions' = [transitions EXCEPT ![c.event] =
                         [command |-> c, from |-> session.state, to |-> c.target,
                          version |-> session.version + 1]]
    /\ journal' = Append(journal, c.event)

ApplyReplay(w) ==
    LET c == command[w] IN
    /\ Replayed(c) /\ SameDigest(c)
    /\ answer' = [answer EXCEPT ![w] = lifecycleReceipt(c, transitions[c.event].from)]
    /\ UNCHANGED <<session, transitions, journal, command>>

ApplyCommit(w) ==
    LET c == command[w] IN
    /\ ~Replayed(c) /\ Accepts(c)
    /\ persistLifecycle(c)
    /\ answer' = [answer EXCEPT ![w] = lifecycleReceipt(c, session.state)]
    /\ UNCHANGED command

(***************************************************************************)
(* ErrSessionConflict: the transaction rolls back and the writer gives the *)
(* command up.                                                             *)
(***************************************************************************)
ApplyConflict(w) ==
    LET c == command[w] IN
    /\ IF Replayed(c) THEN ~SameDigest(c) ELSE ~Accepts(c)
    /\ command' = [command EXCEPT ![w] = None]
    /\ answer' = [answer EXCEPT ![w] = None]
    /\ UNCHANGED <<session, transitions, journal>>

(***************************************************************************)
(* One ApplyWithin call.  An accepted command stays with the writer, which *)
(* calls again with the whole command when it did not see the answer.      *)
(***************************************************************************)
Apply(w) ==
    /\ command[w] # None
    /\ ApplyReplay(w) \/ ApplyCommit(w) \/ ApplyConflict(w)
    /\ UNCHANGED <<decisions, now>>

(***************************************************************************)
(* The policy store appends an immutable decision row (modelled from       *)
(* outside: internal/policy/postgres/store.go persistDecision).            *)
(***************************************************************************)
AppendDecision ==
    \E d \in Decisions, o \in BOOLEAN :
        /\ decisions[d] = None
        /\ decisions' = [decisions EXCEPT ![d] = [at |-> now, outcome |-> o]]
        /\ UNCHANGED <<session, transitions, journal, command, answer, now>>

Tick ==
    /\ ClockAdvances
    /\ UNCHANGED <<session, transitions, journal, decisions, command, answer>>

Next ==
    \/ \E w \in Writers : Issue(w) \/ Apply(w)
    \/ AppendDecision
    \/ Tick

Spec == Init /\ [][Next]_vars
-------------------------------------------------------------------------------
(***************************************************************************)
(* Types of the rows and of the writers' state.                            *)
(***************************************************************************)
TypeOK ==
    /\ session \in Session
    /\ transitions \in [Events -> TransitionRow \cup {None}]
    /\ journal \in Seq(Events)
    /\ decisions \in [Decisions -> DecisionRow \cup {None}]
    /\ command \in [Writers -> Command \cup {None}]
    /\ answer \in [Writers -> Receipt \cup {None}]
    /\ now \in Times

Row(i) == transitions[journal[i]]

(***************************************************************************)
(* The receipt of the original transition, read off its ledger row.        *)
(***************************************************************************)
OriginalReceipt(row) ==
    [event |-> row.command.event, from |-> row.from, to |-> row.to,
     version |-> row.version, decision |-> row.command.decision,
     occurred |-> row.command.occurred]

(***************************************************************************)
(* The ledger is one unbroken chain from the initial state to the current  *)
(* one.  Every committed event has exactly one ledger row, row i carries   *)
(* version i + 1, starts where row i - 1 ended, does not go back in time,  *)
(* and the last row is the session row.  Lost replies, resubmissions and   *)
(* stale versions never fork it, skip a version or apply an event twice.   *)
(***************************************************************************)
LedgerIsChain ==
    /\ session.version = Len(journal) + 1
    /\ \A e \in Events : transitions[e] # None <=>
                           \E i \in 1 .. Len(journal) : journal[i] = e
    /\ \A i \in 1 .. Len(journal) :
         /\ Row(i).version = i + 1
         /\ Row(i).command.event = journal[i]
         /\ Row(i).from = IF i = 1 THEN Initial ELSE Row(i - 1).to
         /\ i > 1 => Row(i).command.occurred >= Row(i - 1).command.occurred
    /\ session.state = IF journal = << >> THEN Initial ELSE Row(Len(journal)).to

(***************************************************************************)
(* An acknowledged receipt is the original transition: whatever was        *)
(* committed since, the answer a writer holds agrees with the ledger row   *)
(* of its event in every field.  A rebuilt receipt never reports a version *)
(* or an origin the ledger does not have.                                  *)
(***************************************************************************)
ReceiptIsOriginal ==
    \A w \in Writers : answer[w] # None =>
        /\ transitions[answer[w].event] # None
        /\ answer[w] = OriginalReceipt(transitions[answer[w].event])

(***************************************************************************)
(* A completed session names a decision that exists, carries an outcome    *)
(* and was decided no later than the completion; no other state names a    *)
(* decision.                                                               *)
(***************************************************************************)
CompletionHasDecision ==
    /\ session.state = "completed" <=> session.decision # None
    /\ session.decision # None =>
         /\ decisions[session.decision] # None
         /\ decisions[session.decision].outcome
         /\ decisions[session.decision].at <= session.updated

(***************************************************************************)
(* The completion window is judged by the store's clock: a session expires *)
(* only after the window closed, and nothing else is committed then, even  *)
(* a command whose own OccurredAt lies within the window.                  *)
(***************************************************************************)
WindowIsRespected ==
    [][session'.state # session.state =>
         IF session'.state = "expired" THEN now >= ExpiresAt ELSE now < ExpiresAt]_vars

(***************************************************************************)
(* The row implements the contract that readers of a session rely on:      *)
(* moves along the graph, one version each, a decision exactly when        *)
(* completed, through replays and lost replies.                            *)
(***************************************************************************)
Contract == INSTANCE SessionContract WITH
    state <- session.state, version <- session.version,
    decided <- session.decision # None

ImplementsContract == Contract!ContractSpec
===============================================================================
