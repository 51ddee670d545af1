------------------------ MODULE LifecycleBreakerProofs ------------------------
(***************************************************************************)
(* Proofs about the session row (SessionLifecycle), for every set of       *)
(* writers, events, decisions and failures and every completion window,    *)
(* and about the circuit breaker towards providers (CircuitBreaker), for   *)
(* every set of workers and calls and every policy.  The two share only    *)
(* the clock.                                                              *)
(***************************************************************************)
EXTENDS SessionLifecycle, CircuitBreaker, FiniteSetTheorems, TLAPS

(* The session row. *)

(***************************************************************************)
(* What a ledger row records of the command that wrote it.                 *)
(***************************************************************************)
RowsMatchCommands ==
    \A e \in Events : transitions[e] # None =>
        /\ transitions[e].command.event = e
        /\ transitions[e].to = transitions[e].command.target
        /\ transitions[e].version = transitions[e].command.expected + 1

(***************************************************************************)
(* The session row carries the instant of the last ledger row.             *)
(***************************************************************************)
UpdatedByLastRow ==
    journal # << >> => session.updated = Row(Len(journal)).command.occurred

(***************************************************************************)
(* The inductive invariant: the chain alone is not inductive, because a    *)
(* rebuilt receipt is only right if a row's version comes from the version *)
(* its command expected, and the time order only if the session row keeps  *)
(* the last row's instant.                                                 *)
(***************************************************************************)
IInv ==
    /\ TypeOK
    /\ RowsMatchCommands
    /\ UpdatedByLastRow
    /\ LedgerIsChain
    /\ ReceiptIsOriginal
    /\ CompletionHasDecision

(***************************************************************************)
(* What an accepted ApplyWithin call does, with its command written out.   *)
(***************************************************************************)
Commit(w) ==
    /\ command[w] # None
    /\ ApplyCommit(w)
    /\ UNCHANGED <<decisions, now>>

(***************************************************************************)
(* The parts of the state that only ApplyCommit writes.                    *)
(***************************************************************************)
ledgerVars == <<session, transitions, journal>>

(***************************************************************************)
(* Every step but an accepted command leaves the session row and the       *)
(* ledger alone.                                                           *)
(***************************************************************************)
LEMMA OnlyCommitWrites ==
    [Next]_vars => UNCHANGED ledgerVars \/ \E w \in Writers : Commit(w)
<1> SUFFICES ASSUME [Next]_vars
             PROVE  UNCHANGED ledgerVars \/ \E w \in Writers : Commit(w)
  BY Zenon
<1>1. ASSUME NEW w \in Writers, Issue(w) PROVE UNCHANGED ledgerVars
  BY <1>1, Zenon DEF Issue, Submit, ledgerVars
<1>2. ASSUME NEW w \in Writers, Apply(w) PROVE UNCHANGED ledgerVars \/ Commit(w)
  BY <1>2, Zenon DEF Apply, ApplyReplay, ApplyConflict, Commit, ledgerVars
<1>3. AppendDecision => UNCHANGED ledgerVars
  BY Zenon DEF AppendDecision, ledgerVars
<1>4. Tick => UNCHANGED ledgerVars
  BY Zenon DEF Tick, ledgerVars
<1>5. UNCHANGED vars => UNCHANGED ledgerVars
  BY Zenon DEF vars, ledgerVars
<1> QED
  BY <1>1, <1>2, <1>3, <1>4, <1>5, Zenon DEF Next

(***************************************************************************)
(* The initial state satisfies the inductive invariant.                    *)
(***************************************************************************)
LEMMA InitIInv == Init => IInv
<1> SUFFICES ASSUME Init PROVE IInv
  BY Zenon
<1>1. TypeOK
  BY LifecycleConstants DEF Init, TypeOK, Session, SessionStates, Times
<1>2. RowsMatchCommands /\ UpdatedByLastRow
  BY Zenon DEF Init, RowsMatchCommands, UpdatedByLastRow
<1>3. LedgerIsChain
  BY DEF Init, LedgerIsChain, Row
<1>4. ReceiptIsOriginal
  BY Zenon DEF Init, ReceiptIsOriginal
<1>5. CompletionHasDecision
  BY LifecycleConstants, Zenon DEF Init, CompletionHasDecision
<1> QED
  BY <1>1, <1>2, <1>3, <1>4, <1>5, Zenon DEF IInv

(***************************************************************************)
(* The fields of a command.                                                *)
(***************************************************************************)
LEMMA CommandFields ==
    ASSUME NEW c \in Command
    PROVE  /\ c.event \in Events /\ c.expected \in Int /\ c.target \in SessionStates
           /\ c.decision \in Decisions \cup {None} /\ c.failure \in Failures \cup {None}
           /\ c.actor \in Writers /\ c.occurred \in Times
  BY Zenon DEF Command

(***************************************************************************)
(* The records built from a command have their types.                      *)
(***************************************************************************)
LEMMA ReceiptType ==
    ASSUME NEW c \in Command, NEW from \in SessionStates
    PROVE  lifecycleReceipt(c, from) \in Receipt
  BY CommandFields DEF lifecycleReceipt, Receipt

(***************************************************************************)
(* An advanced session is a session.                                       *)
(***************************************************************************)
LEMMA AdvanceType ==
    ASSUME NEW c \in Command, NEW s \in Session
    PROVE  AdvanceLifecycle(s, c) \in Session
  BY CommandFields DEF AdvanceLifecycle, Session

(***************************************************************************)
(* A row made from a command is a ledger row.                              *)
(***************************************************************************)
LEMMA RowType ==
    ASSUME NEW c \in Command, NEW from \in SessionStates, NEW v \in Int
    PROVE  [command |-> c, from |-> from, to |-> c.target, version |-> v] \in TransitionRow
  BY CommandFields, Zenon DEF TransitionRow

(***************************************************************************)
(* Every step keeps the types.                                             *)
(***************************************************************************)
LEMMA TypeStep == TypeOK /\ [Next]_vars => TypeOK'
<1> SUFFICES ASSUME TypeOK, [Next]_vars PROVE TypeOK'
  BY Zenon
<1>1. ASSUME NEW w \in Writers, Issue(w) PROVE TypeOK'
  <2>1. PICK e \in Events, target \in SessionStates, d \in Decisions \cup {None},
             f \in Failures \cup {None}, t \in now .. MaxTime :
               Submit(w, Draft(w, e, target, d, f, t))
    BY <1>1, Zenon DEF Issue
  <2>2. now .. MaxTime \subseteq Times /\ session.version \in Int
    BY DEF TypeOK, Times, Session
  <2>3. Draft(w, e, target, d, f, t) \in Command
    BY <2>2, Zenon DEF Draft, Command
  <2> QED
    BY <2>1, <2>3, Zenon DEF Submit, TypeOK
<1>2. ASSUME NEW w \in Writers, Apply(w) PROVE TypeOK'
  <2> DEFINE c == command[w]
  <2>1. c \in Command
    BY <1>2, Zenon DEF Apply, TypeOK
  <2>2. c.event \in Events
    BY <2>1, CommandFields, Zenon
  <2>3. session \in Session /\ session.state \in SessionStates /\ session.version \in Int
    BY Zenon DEF TypeOK, Session
  <2>4. UNCHANGED <<decisions, now>>
    BY <1>2, Zenon DEF Apply
  <2>5. CASE ApplyReplay(w)
    <3>1. transitions[c.event] \in TransitionRow
      BY <2>2, <2>5, Zenon DEF ApplyReplay, Replayed, TypeOK
    <3>2. lifecycleReceipt(c, transitions[c.event].from) \in Receipt
      BY <2>1, <3>1, ReceiptType, Zenon DEF TransitionRow
    <3>3. /\ answer' = [answer EXCEPT ![w] = lifecycleReceipt(c, transitions[c.event].from)]
          /\ UNCHANGED <<session, transitions, journal, command>>
      BY <2>5, Zenon DEF ApplyReplay
    <3> QED
      BY <2>4, <3>2, <3>3, Zenon DEF TypeOK
  <2>6. CASE ApplyCommit(w)
    <3> DEFINE row == [command |-> c, from |-> session.state, to |-> c.target,
                       version |-> session.version + 1]
    <3>1. row \in TransitionRow
      BY <2>1, <2>3, RowType
    <3>2. /\ session' = AdvanceLifecycle(session, c)
          /\ transitions' = [transitions EXCEPT ![c.event] = row]
          /\ journal' = Append(journal, c.event)
          /\ answer' = [answer EXCEPT ![w] = lifecycleReceipt(c, session.state)]
          /\ UNCHANGED command
      BY <2>6, Zenon DEF ApplyCommit, persistLifecycle
    <3>3. lifecycleReceipt(c, session.state) \in Receipt
      BY <2>1, <2>3, ReceiptType, Zenon
    <3>4. AdvanceLifecycle(session, c) \in Session
      BY <2>1, <2>3, AdvanceType, Zenon
    <3> HIDE DEF row
    <3> QED
      BY <2>2, <2>4, <3>1, <3>2, <3>3, <3>4 DEF TypeOK
  <2>7. CASE ApplyConflict(w)
    BY <2>4, <2>7, Zenon DEF ApplyConflict, TypeOK
  <2> QED
    BY <1>2, <2>5, <2>6, <2>7, Zenon DEF Apply
<1>3. ASSUME AppendDecision PROVE TypeOK'
  <2>1. PICK d \in Decisions, o \in BOOLEAN :
               decisions' = [decisions EXCEPT ![d] = [at |-> now, outcome |-> o]]
    BY <1>3, Zenon DEF AppendDecision
  <2>2. [at |-> now, outcome |-> o] \in DecisionRow
    BY Zenon DEF TypeOK, DecisionRow
  <2>3. UNCHANGED <<session, transitions, journal, command, answer, now>>
    BY <1>3, Zenon DEF AppendDecision
  <2> QED
    BY <2>1, <2>2, <2>3, Zenon DEF TypeOK
<1>4. ASSUME Tick PROVE TypeOK'
  BY <1>4, LifecycleConstants DEF Tick, ClockAdvances, TypeOK, Times
<1>5. ASSUME UNCHANGED vars PROVE TypeOK'
  BY <1>5, Zenon DEF vars, TypeOK
<1> QED
  BY <1>1, <1>2, <1>3, <1>4, <1>5, Zenon DEF Next

(***************************************************************************)
(* The facts of an accepted command that the invariance proofs use.        *)
(***************************************************************************)
LEMMA CommitFacts ==
    ASSUME TypeOK, NEW w \in Writers, Commit(w)
    PROVE  LET c == command[w] IN
           /\ c \in Command /\ c.event \in Events
           /\ transitions[c.event] = None
           /\ ValidCommand(c) /\ validateCompletion(c)
           /\ c.expected = session.version
           /\ c.occurred >= session.updated
           /\ session.decision = None
           /\ session' = AdvanceLifecycle(session, c)
           /\ transitions' = [transitions EXCEPT ![c.event] =
                                [command |-> c, from |-> session.state,
                                 to |-> c.target, version |-> session.version + 1]]
           /\ journal' = Append(journal, c.event)
           /\ answer' = [answer EXCEPT ![w] = lifecycleReceipt(c, session.state)]
           /\ UNCHANGED <<command, decisions, now>>
<1>1. command[w] \in Command
  BY Zenon DEF Commit, TypeOK
<1>2. command[w].event \in Events
  BY <1>1, CommandFields, Zenon
<1> QED
  BY <1>1, <1>2, Zenon
  DEF Commit, ApplyCommit, Replayed, Accepts, CanAdvance, persistLifecycle

(***************************************************************************)
(* A sequence is empty exactly when its length is zero.                    *)
(***************************************************************************)
LEMMA EmptyIsLengthZero ==
    ASSUME NEW S, NEW s \in Seq(S)
    PROVE  s = << >> <=> Len(s) = 0
  OBVIOUS

(***************************************************************************)
(* Rows keep agreeing with the commands that wrote them.                   *)
(***************************************************************************)
LEMMA RowsStep ==
    TypeOK /\ RowsMatchCommands /\ [Next]_vars => RowsMatchCommands'
<1> SUFFICES ASSUME TypeOK, RowsMatchCommands, [Next]_vars PROVE RowsMatchCommands'
  BY Zenon
<1>1. CASE UNCHANGED ledgerVars
  BY <1>1, Zenon DEF ledgerVars, RowsMatchCommands
<1>2. ASSUME NEW w \in Writers, Commit(w) PROVE RowsMatchCommands'
  <2> DEFINE c == command[w]
  <2>1. /\ c.event \in Events /\ c.expected = session.version
        /\ transitions' = [transitions EXCEPT ![c.event] =
                             [command |-> c, from |-> session.state,
                              to |-> c.target, version |-> session.version + 1]]
    BY <1>2, CommitFacts, Zenon
  <2> QED
    BY <2>1, Zenon DEF RowsMatchCommands, TypeOK
<1> QED
  BY <1>1, <1>2, OnlyCommitWrites, Zenon

(***************************************************************************)
(* An accepted command extends the chain by one row and changes no other.  *)
(***************************************************************************)
LEMMA ChainCommit ==
    ASSUME IInv, NEW w \in Writers, Commit(w)
    PROVE  LedgerIsChain' /\ UpdatedByLastRow'
<1> DEFINE c == command[w]
           n == Len(journal)
           row == [command |-> c, from |-> session.state, to |-> c.target,
                   version |-> session.version + 1]
<1>1. /\ c \in Command /\ c.event \in Events /\ transitions[c.event] = None
      /\ c.expected = session.version
      /\ c.occurred >= session.updated
      /\ session' = AdvanceLifecycle(session, c)
      /\ transitions' = [transitions EXCEPT ![c.event] = row]
      /\ journal' = Append(journal, c.event)
  BY CommitFacts, Zenon DEF IInv
<1>a. /\ journal \in Seq(Events) /\ n \in Nat
      /\ DOMAIN transitions = Events
  BY DEF IInv, TypeOK
<1>b. /\ row.command = c /\ row.from = session.state /\ row.to = c.target
      /\ row.version = session.version + 1
  BY Zenon
<1>c. session'.version = session.version + 1 /\ session'.state = c.target
      /\ session'.updated = c.occurred
  <2>1. session \in Session
    BY Zenon DEF IInv, TypeOK
  <2> QED
    BY <1>1, <2>1, Zenon DEF AdvanceLifecycle, Session
<1>d. row # None
  <2>1. session.state \in SessionStates /\ session.version + 1 \in Int
    BY DEF IInv, TypeOK, Session
  <2> QED
    BY <1>1, <2>1, RowType, LifecycleConstants
<1> HIDE DEF c, n, row
<1>2. Len(journal) = n /\ n \in Nat
  BY <1>a, Zenon DEF n
<1>3. /\ Len(journal') = n + 1 /\ journal'[n + 1] = c.event
      /\ \A i \in 1 .. n : journal'[i] = journal[i] /\ journal[i] \in Events
  BY <1>1, <1>a, <1>2
<1>4. \A i \in 1 .. n : journal[i] # c.event
  BY <1>1, <1>2, Zenon DEF IInv, LedgerIsChain
<1>5. \A i \in 1 .. n : Row(i)' = Row(i)
  <2> TAKE i \in 1 .. n
  <2>1. /\ journal'[i] = journal[i] /\ journal[i] \in Events /\ journal[i] # c.event
    BY <1>3, <1>4, Zenon
  <2>2. transitions'[journal[i]] = transitions[journal[i]]
    BY <1>1, <1>a, <2>1, Zenon
  <2> QED
    BY <2>1, <2>2, Zenon DEF Row
<1>6. transitions'[c.event] = row
  BY <1>1, <1>a, Zenon
<1>7. transitions'[journal'[n + 1]] = row
  BY <1>6, <1>3, Zenon
<1>8. session.version = n + 1
  BY <1>2, Zenon DEF IInv, LedgerIsChain
<1>9. session.state = IF n = 0 THEN Initial ELSE Row(n).to
  BY <1>2, <1>a, EmptyIsLengthZero DEF IInv, LedgerIsChain
<1>10. n > 0 => session.updated = Row(n).command.occurred
  BY <1>2, <1>a, EmptyIsLengthZero DEF IInv, UpdatedByLastRow
<1>11. session'.version = Len(journal') + 1
  BY <1>c, <1>2, <1>3, <1>8, Zenon
<1>12. ASSUME NEW e \in Events
       PROVE  (transitions[e] # None)' <=> \E i \in 1 .. Len(journal)' : journal'[i] = e
  <2>1. CASE e = c.event
    <3>1. n + 1 \in 1 .. n + 1
      BY <1>2
    <3> QED
      BY <2>1, <3>1, <1>6, <1>3, <1>d, Zenon
  <2>2. CASE e # c.event
    <3>1. transitions'[e] = transitions[e]
      BY <2>2, <1>1, <1>a, Zenon
    <3>2. transitions[e] # None <=> \E i \in 1 .. n : journal[i] = e
      BY <1>2, Zenon DEF IInv, LedgerIsChain
    <3>3. \A i : i \in 1 .. n + 1 <=> i \in 1 .. n \/ i = n + 1
      BY <1>2
    <3>4. (\E i \in 1 .. n : journal[i] = e) <=> \E i \in 1 .. n + 1 : journal'[i] = e
      BY <2>2, <3>3, <1>3, Zenon
    <3> QED
      BY <3>1, <3>2, <3>4, <1>3, Zenon
  <2> QED
    BY <2>1, <2>2, Zenon
<1>13. ASSUME NEW i \in 1 .. Len(journal)'
       PROVE  /\ Row(i)'.version = i + 1
              /\ Row(i)'.command.event = journal'[i]
              /\ Row(i)'.from = IF i = 1 THEN Initial ELSE Row(i - 1)'.to
              /\ i > 1 => Row(i)'.command.occurred >= Row(i - 1)'.command.occurred
  <2>1. CASE i \in 1 .. n
    <3>1. /\ Row(i).version = i + 1
          /\ Row(i).command.event = journal[i]
          /\ Row(i).from = IF i = 1 THEN Initial ELSE Row(i - 1).to
          /\ i > 1 => Row(i).command.occurred >= Row(i - 1).command.occurred
      BY <2>1, <1>2, Zenon DEF IInv, LedgerIsChain
    <3>2. i > 1 => i - 1 \in 1 .. n
      BY <2>1, <1>2
    <3>3. Row(i)' = Row(i) /\ journal'[i] = journal[i]
      BY <2>1, <1>3, <1>5, Zenon
    <3>4. i > 1 => Row(i - 1)' = Row(i - 1)
      BY <3>2, <1>5, Zenon
    <3>5. i \in Nat /\ i >= 1
      BY <2>1, <1>2
    <3> QED
      BY <3>1, <3>3, <3>4, <3>5
  <2>2. CASE i = n + 1
    <3>1. i > 1 => n \in 1 .. n /\ i - 1 = n /\ n > 0
      BY <2>2, <1>2
    <3>2. Row(i)' = row /\ journal'[i] = c.event
      BY <2>2, <1>7, <1>3, Zenon DEF Row
    <3>3. row.version = i + 1
      BY <2>2, <1>b, <1>8, <1>2, Zenon
    <3>4. i > 1 => Row(i - 1)' = Row(n)
      BY <3>1, <1>5, Zenon
    <3>5. i = 1 <=> n = 0
      BY <2>2, <1>2
    <3>6. i > 1 <=> ~(n = 0)
      BY <2>2, <1>2
    <3>7. row.from = IF i = 1 THEN Initial ELSE Row(i - 1)'.to
      BY <3>4, <3>5, <3>6, <1>b, <1>9, Zenon
    <3>8. i > 1 => row.command.occurred >= Row(i - 1)'.command.occurred
      BY <3>1, <3>4, <1>b, <1>1, <1>10, Zenon
    <3> QED
      BY <3>2, <3>3, <3>7, <3>8, <1>b, Zenon
  <2> QED
    BY <2>1, <2>2, <1>2, <1>3
<1>14. session'.state = Row(Len(journal))'.to /\ journal' # << >>
  <2>1. journal' # << >>
    BY <1>1, <1>a
  <2> QED
    BY <2>1, <1>b, <1>c, <1>3, <1>7, Zenon DEF Row
<1>15. session'.updated = Row(Len(journal))'.command.occurred
  BY <1>b, <1>c, <1>3, <1>7, Zenon DEF Row
<1>16. LedgerIsChain'
  BY <1>11, <1>12, <1>13, <1>14, Zenon DEF LedgerIsChain
<1> QED
  BY <1>15, <1>16, Zenon DEF UpdatedByLastRow

(***************************************************************************)
(* A receipt a writer holds keeps agreeing with the ledger: new ones are   *)
(* built from the row they answer, old rows never change.                  *)
(***************************************************************************)
LEMMA ReceiptStep == IInv /\ [Next]_vars => ReceiptIsOriginal'
<1> SUFFICES ASSUME IInv, [Next]_vars, NEW v \in Writers, answer'[v] # None
             PROVE  /\ transitions'[answer'[v].event] # None
                    /\ answer'[v] = OriginalReceipt(transitions'[answer'[v].event])
  BY Zenon DEF ReceiptIsOriginal
<1> DEFINE Goal == /\ transitions'[answer'[v].event] # None
                   /\ answer'[v] = OriginalReceipt(transitions'[answer'[v].event])
<1>1. TypeOK /\ RowsMatchCommands /\ ReceiptIsOriginal
  BY Zenon DEF IInv
<1>2. CASE answer'[v] = answer[v] /\ UNCHANGED transitions
  BY <1>1, <1>2, Zenon DEF ReceiptIsOriginal
<1>3. ASSUME NEW w \in Writers, Commit(w), v # w PROVE Goal
  <2>0. /\ command[w].event \in Events /\ transitions[command[w].event] = None
        /\ transitions' = [transitions EXCEPT ![command[w].event] =
                             [command |-> command[w], from |-> session.state,
                              to |-> command[w].target, version |-> session.version + 1]]
        /\ answer' = [answer EXCEPT ![w] = lifecycleReceipt(command[w], session.state)]
    BY <1>1, <1>3, CommitFacts, Zenon
  <2>1. answer'[v] = answer[v]
    BY <1>1, <1>3, <2>0, Zenon DEF TypeOK
  <2>2. /\ command[w].event \in Events /\ transitions[command[w].event] = None
        /\ \E row : transitions' = [transitions EXCEPT ![command[w].event] = row]
    BY <2>0, Zenon
  <2>3. answer[v] \in Receipt /\ transitions[answer[v].event] # None
    BY <1>1, <2>1, Zenon DEF TypeOK, ReceiptIsOriginal
  <2>4. transitions'[answer'[v].event] = transitions[answer[v].event]
    BY <1>1, <2>1, <2>2, <2>3, Zenon DEF TypeOK, Receipt
  <2> QED
    BY <1>1, <2>1, <2>4, Zenon DEF ReceiptIsOriginal
<1>4. ASSUME NEW w \in Writers, Commit(w), v = w PROVE Goal
  <2> DEFINE c == command[w]
             row == [command |-> c, from |-> session.state, to |-> c.target,
                     version |-> session.version + 1]
  <2>1. /\ c \in Command /\ c.event \in Events /\ c.expected = session.version
        /\ transitions' = [transitions EXCEPT ![c.event] = row]
        /\ answer' = [answer EXCEPT ![w] = lifecycleReceipt(c, session.state)]
    BY <1>1, <1>4, CommitFacts, Zenon
  <2>2. answer'[v] = lifecycleReceipt(c, session.state) /\ answer'[v].event = c.event
    BY <1>1, <1>4, <2>1, Zenon DEF TypeOK, lifecycleReceipt
  <2>3. transitions'[answer'[v].event] = row
    BY <1>1, <2>1, <2>2, Zenon DEF TypeOK
  <2>4. row # None
    <3>1. session.state \in SessionStates /\ session.version + 1 \in Int
      BY <1>1, SMTT(20) DEF TypeOK, Session
    <3> QED
      BY <2>1, <3>1, RowType, LifecycleConstants, Zenon
  <2> QED
    BY <2>1, <2>2, <2>3, <2>4 DEF lifecycleReceipt, OriginalReceipt
<1>5. ASSUME NEW w \in Writers, command[w] # None, ApplyReplay(w), v = w PROVE Goal
  <2> DEFINE c == command[w]
  <2>1. c.event \in Events
    BY <1>1, <1>5, Zenon DEF TypeOK, Command
  <2>2. answer'[v] = lifecycleReceipt(c, transitions[c.event].from) /\ UNCHANGED transitions
    BY <1>1, <1>5, Zenon DEF ApplyReplay, TypeOK
  <2>3. transitions[c.event] # None /\ transitions[c.event].command = c
    BY <1>5, Zenon DEF ApplyReplay, Replayed, SameDigest
  <2>4. /\ transitions[c.event].to = c.target
        /\ transitions[c.event].version = c.expected + 1
    BY <1>1, <2>1, <2>3, Zenon DEF RowsMatchCommands
  <2> QED
    BY <2>2, <2>3, <2>4 DEF lifecycleReceipt, OriginalReceipt
<1>6. ASSUME NEW w \in Writers, Issue(w) \/ Apply(w) PROVE Goal
  <2>1. CASE Issue(w) \/ ApplyConflict(w)
    <3>1. UNCHANGED transitions /\ answer' = [answer EXCEPT ![w] = None]
      BY <2>1, Zenon DEF Issue, Submit, ApplyConflict
    <3> QED
      BY <1>1, <1>2, <3>1, Zenon DEF TypeOK
  <2>2. CASE command[w] # None /\ ApplyReplay(w)
    <3>1. v # w => answer'[v] = answer[v] /\ UNCHANGED transitions
      BY <1>1, <2>2, Zenon DEF ApplyReplay, TypeOK
    <3> QED
      BY <1>2, <1>5, <2>2, <3>1, Zenon
  <2>3. CASE Commit(w)
    BY <1>3, <1>4, <2>3, Zenon
  <2> QED
    BY <1>6, <2>1, <2>2, <2>3, Zenon DEF Apply, Commit
<1>7. CASE AppendDecision \/ Tick \/ UNCHANGED vars
  BY <1>2, <1>7, Zenon DEF AppendDecision, Tick, vars
<1> QED
  BY <1>6, <1>7, Zenon DEF Next

(***************************************************************************)
(* A completed session keeps its decision: the rows it may refer to are    *)
(* immutable, and completion demands one.                                  *)
(***************************************************************************)
LEMMA DecisionStep ==
    TypeOK /\ CompletionHasDecision /\ [Next]_vars => CompletionHasDecision'
<1> SUFFICES ASSUME TypeOK, CompletionHasDecision, [Next]_vars
             PROVE  CompletionHasDecision'
  BY Zenon
<1>1. ASSUME NEW w \in Writers, Commit(w) PROVE CompletionHasDecision'
  <2>1. /\ command[w] \in Command
        /\ ValidCommand(command[w]) /\ validateCompletion(command[w])
        /\ session' = AdvanceLifecycle(session, command[w])
        /\ UNCHANGED decisions
    BY <1>1, CommitFacts, Zenon
  <2> QED
    BY <2>1, Zenon DEF CompletionHasDecision, AdvanceLifecycle, ValidCommand, validateCompletion
<1>2. CASE UNCHANGED ledgerVars
  <2>1. \A d \in Decisions : decisions[d] # None => decisions'[d] = decisions[d]
    <3>1. CASE AppendDecision
      BY <3>1, Zenon DEF AppendDecision, TypeOK
    <3>2. ASSUME NEW w \in Writers, Issue(w) \/ Apply(w) PROVE UNCHANGED decisions
      BY <3>2, Zenon DEF Issue, Submit, Apply
    <3>3. CASE Tick \/ UNCHANGED vars
      BY <3>3, Zenon DEF Tick, vars
    <3> QED
      BY <3>1, <3>2, <3>3, Zenon DEF Next
  <2>2. session.decision # None => session.decision \in Decisions
    BY Zenon DEF TypeOK, Session
  <2> QED
    BY <1>2, <2>1, <2>2, Zenon DEF ledgerVars, CompletionHasDecision
<1> QED
  BY <1>1, <1>2, OnlyCommitWrites, Zenon

(***************************************************************************)
(* Every step keeps the inductive invariant.                               *)
(***************************************************************************)
LEMMA NextIInv == IInv /\ [Next]_vars => IInv'
<1> SUFFICES ASSUME IInv, [Next]_vars PROVE IInv'
  BY Zenon
<1>1. TypeOK' /\ RowsMatchCommands' /\ ReceiptIsOriginal' /\ CompletionHasDecision'
  BY TypeStep, RowsStep, ReceiptStep, DecisionStep, Zenon DEF IInv
<1>2. LedgerIsChain' /\ UpdatedByLastRow'
  <2>1. CASE UNCHANGED ledgerVars
    BY <2>1, Zenon DEF IInv, ledgerVars, LedgerIsChain, UpdatedByLastRow, Row
  <2>2. CASE \E w \in Writers : Commit(w)
    BY <2>2, ChainCommit, Zenon
  <2> QED
    BY <2>1, <2>2, OnlyCommitWrites, Zenon
<1> QED
  BY <1>1, <1>2, Zenon DEF IInv

(***************************************************************************)
(* The inductive invariant holds in every reachable state.                 *)
(***************************************************************************)
THEOREM Invariance == Spec => []IInv
  BY InitIInv, NextIInv, PTL DEF Spec

(***************************************************************************)
(* The rows and the writers' state are always well typed.                  *)
(***************************************************************************)
THEOREM TypeCorrect == Spec => []TypeOK
<1>1. IInv => TypeOK
  BY Zenon DEF IInv
<1> QED
  BY <1>1, Invariance, PTL

(***************************************************************************)
(* ApplyWithin keeps one unbroken transition ledger, for any number of     *)
(* writers, resubmissions and lost replies.                                *)
(***************************************************************************)
THEOREM LedgerCorrect == Spec => []LedgerIsChain
<1>1. IInv => LedgerIsChain
  BY Zenon DEF IInv
<1> QED
  BY <1>1, Invariance, PTL

(***************************************************************************)
(* Replaying a command returns the original receipt, for ever.             *)
(***************************************************************************)
THEOREM ReceiptsCorrect == Spec => []ReceiptIsOriginal
<1>1. IInv => ReceiptIsOriginal
  BY Zenon DEF IInv
<1> QED
  BY <1>1, Invariance, PTL

(***************************************************************************)
(* No session is completed without an existing decision that carries an    *)
(* outcome and was decided in time.                                        *)
(***************************************************************************)
THEOREM CompletionCorrect == Spec => []CompletionHasDecision
<1>1. IInv => CompletionHasDecision
  BY Zenon DEF IInv
<1> QED
  BY <1>1, Invariance, PTL

(***************************************************************************)
(* The store's clock decides between expiry and every other transition.    *)
(***************************************************************************)
THEOREM WindowCorrect == Spec => WindowIsRespected
<1> DEFINE InWindow == session'.state # session.state =>
             IF session'.state = "expired" THEN now >= ExpiresAt ELSE now < ExpiresAt
<1>1. IInv /\ [Next]_vars => [InWindow]_vars
  <2> SUFFICES ASSUME IInv, [Next]_vars PROVE InWindow
    BY Zenon
  <2>1. ASSUME NEW w \in Writers, Commit(w) PROVE InWindow
    <3>1. /\ command[w] \in Command
          /\ session' = AdvanceLifecycle(session, command[w])
      BY <2>1, CommitFacts, Zenon DEF IInv
    <3>2. ObservedInTime(command[w]) /\ CanAdvance(session, command[w], ExpiresAt)
      BY <2>1, Zenon DEF Commit, ApplyCommit, Accepts
    <3>3. command[w].occurred \in Int /\ now \in Int /\ ExpiresAt \in Int
      BY <3>1, LifecycleConstants DEF Command, Times, IInv, TypeOK
    <3> QED
      BY <3>1, <3>2, <3>3 DEF ObservedInTime, CanAdvance, AdvanceLifecycle
  <2> QED
    BY <2>1, OnlyCommitWrites, Zenon DEF ledgerVars
<1> QED
  BY <1>1, Invariance, PTL DEF Spec, WindowIsRespected

(***************************************************************************)
(* The durable session row implements the contract its readers rely on:    *)
(* every accepted command is one Move of the contract, and every replay,   *)
(* conflict, decision and clock step is a stutter.                         *)
(***************************************************************************)
THEOREM Refinement == Spec => ImplementsContract
<1>1. Init => Contract!ContractInit
  BY LifecycleConstants DEF Init, Contract!ContractInit
<1>2. IInv /\ [Next]_vars => [Contract!Move]_(Contract!contractVars)
  <2> SUFFICES ASSUME IInv, [Next]_vars
               PROVE  [Contract!Move]_(Contract!contractVars)
    BY Zenon
  <2>1. ASSUME NEW w \in Writers, Commit(w) PROVE Contract!Move
    <3>1. /\ command[w] \in Command
          /\ ValidCommand(command[w])
          /\ session' = AdvanceLifecycle(session, command[w])
      BY <2>1, CommitFacts, Zenon DEF IInv
    <3>2. lifecycleEdge(session.state, command[w].target)
      BY <2>1, Zenon DEF Commit, ApplyCommit, Accepts, CanAdvance
    <3>3. /\ session'.state = command[w].target
          /\ session'.version = session.version + 1
          /\ (session'.decision # None) = (session'.state = "completed")
      BY <3>1, Zenon DEF AdvanceLifecycle, ValidCommand
    <3>4. Contract!lifecycleEdge(session.state, session'.state)
      BY <3>2, <3>3, Zenon DEF Contract!lifecycleEdge, lifecycleEdge, Contract!WorkflowEdges,
           WorkflowEdges, Contract!SessionStates, SessionStates, Contract!Terminal, Terminal
    <3> QED
      BY <3>3, <3>4, Zenon DEF Contract!Move
  <2>2. CASE UNCHANGED ledgerVars
    BY <2>2, Zenon DEF ledgerVars, Contract!contractVars
  <2> QED
    BY <2>1, <2>2, OnlyCommitWrites, Zenon
<1> QED
  BY <1>1, <1>2, Invariance, PTL DEF Spec, ImplementsContract, Contract!ContractSpec

-----------------------------------------------------------------------------
(* The circuit breaker. *)

States == {"closed", "open", "half_open"}

(***************************************************************************)
(* A circuit is a record of these four fields.                             *)
(***************************************************************************)
IsCircuit(c) ==
    /\ c = [state |-> c.state, openedAt |-> c.openedAt, inFlight |-> c.inFlight,
            outcomes |-> c.outcomes]
    /\ c.state \in States
    /\ IsFiniteSet(c.outcomes) /\ \A o \in c.outcomes : o.at \in Int

Instant == Nat \cup {Zero}

BreakerTypeOK ==
    /\ now \in Nat
    /\ circuit = [w \in Workers |-> circuit[w]]
    /\ \A w \in Workers : IsCircuit(circuit[w])
    /\ call = [c \in Calls |-> call[c]] /\ reading = [w \in Workers |-> reading[w]]
    /\ tripped \in [Workers -> Instant] /\ fresh \in [Workers -> Nat]

(***************************************************************************)
(* Until its open duration has passed, a circuit that tripped is still the *)
(* open circuit it became: no late outcome and no snapshot touched it.     *)
(***************************************************************************)
StaysOpen(w) ==
    tripped[w] # Zero =>
      /\ tripped[w] <= now
      /\ now < tripped[w] + OpenDuration =>
           circuit[w].state = "open" /\ circuit[w].openedAt = tripped[w]

Admission(c) ==
    Running(c) =>
      /\ call[c].worker \in Workers
      /\ call[c].at \in Nat /\ call[c].at <= now
      /\ LET t == tripped[call[c].worker]
         IN  t = Zero \/ call[c].at <= t \/ call[c].at >= t + OpenDuration

(***************************************************************************)
(* Whatever is persisted or about to be is a state of a circuit.           *)
(***************************************************************************)
Snapshots ==
    /\ stored # None => stored.state \in States
    /\ \A c \in Calls : call[c].step = "observing" => call[c].to \in States
    /\ \A w \in Workers : reading[w] # None /\ reading[w].step = "derived" =>
                            reading[w].state \in States

(***************************************************************************)
(* A circuit holds no more outcomes than were counted since it last        *)
(* closed: pruning only takes away, and closing takes away everything.     *)
(***************************************************************************)
Evidence(w) ==
    fresh[w] >= MinimumSamples \/ Cardinality(circuit[w].outcomes) <= fresh[w]

BreakerIInv ==
    /\ BreakerTypeOK
    /\ \A w \in Workers : Evidence(w)
    /\ \A w \in Workers : StaysOpen(w)
    /\ \A c \in Calls : Admission(c)
    /\ Snapshots

-----------------------------------------------------------------------------
(***************************************************************************)
(* Pruning takes outcomes away, and leaves those inside the window.        *)
(***************************************************************************)
LEMMA PrunedSubset ==
    ASSUME NEW S, IsFiniteSet(S)
    PROVE  /\ pruned(S) \subseteq S /\ IsFiniteSet(pruned(S))
           /\ Cardinality(pruned(S)) <= Cardinality(S)
           /\ \A o \in pruned(S) : o.at >= now - Window
  <1>1. pruned(S) \subseteq S /\ \A o \in pruned(S) : o.at >= now - Window
    BY Zenon DEF pruned
  <1> QED BY <1>1, FS_Subset, Zenon

(***************************************************************************)
(* refresh: an open circuit is left open until its duration has passed,    *)
(* and no outcome is added.                                                *)
(***************************************************************************)
LEMMA RefreshFields ==
    ASSUME NEW c, IsCircuit(c)
    PROVE  /\ IsCircuit(refresh(c))
           /\ refresh(c).openedAt = c.openedAt
           /\ refresh(c).state # c.state =>
                /\ c.state = "open" /\ refresh(c).state = "half_open"
                /\ now - c.openedAt >= OpenDuration
           /\ Cardinality(refresh(c).outcomes) <= Cardinality(c.outcomes)
  <1> DEFINE kept == pruned(c.outcomes)
  <1>1. /\ IsFiniteSet(kept) /\ \A o \in kept : o.at \in Int
        /\ Cardinality(kept) <= Cardinality(c.outcomes)
    BY PrunedSubset, Zenon DEF IsCircuit
  <1>2. CASE c.state = "open" /\ c.openedAt # Zero /\ now - c.openedAt >= OpenDuration
    <2>1. refresh(c) = [state |-> "half_open", openedAt |-> c.openedAt, inFlight |-> 0,
                        outcomes |-> kept]
      BY <1>2, Zenon DEF refresh, IsCircuit, States
    <2> HIDE DEF kept
    <2> QED BY <1>1, <1>2, <2>1 DEF IsCircuit, States
  <1>3. CASE ~(c.state = "open" /\ c.openedAt # Zero /\ now - c.openedAt >= OpenDuration)
    <2>1. refresh(c) = [state |-> c.state, openedAt |-> c.openedAt, inFlight |-> c.inFlight,
                        outcomes |-> kept]
      BY <1>3, Zenon DEF refresh, IsCircuit, States
    <2> HIDE DEF kept
    <2> QED BY <1>1, <2>1 DEF IsCircuit, States
  <1> QED BY <1>2, <1>3, Zenon

(***************************************************************************)
(* An outcome that opens a circuit stamps it with the present instant, and *)
(* an outcome that finds it open changes nothing but the outcomes.  One    *)
(* that finds it closed is one more, and opens it only over MinimumSamples *)
(* outcomes inside the window; one that closes it starts from none.        *)
(***************************************************************************)
LEMMA RecordedFields ==
    ASSUME NEW c, IsCircuit(c), NEW o, o.at \in Int
    PROVE  /\ IsCircuit(recorded(c, o))
           /\ refresh(c).state = "open" => recorded(c, o) = refresh(c)
           /\ recorded(c, o).state = "open" /\ refresh(c).state # "open" =>
                recorded(c, o).openedAt = now
           /\ refresh(c).state = "half_open" =>
                IF recorded(c, o).state = "closed" THEN recorded(c, o).outcomes = {}
                ELSE recorded(c, o).outcomes = refresh(c).outcomes
           /\ refresh(c).state = "closed" =>
                Cardinality(recorded(c, o).outcomes) <= Cardinality(refresh(c).outcomes) + 1
           /\ refresh(c).state = "closed" /\ recorded(c, o).state = "open" =>
                /\ Cardinality(recorded(c, o).outcomes) >= MinimumSamples
                /\ \A p \in recorded(c, o).outcomes : p.at >= now - Window
  <1> PICK r : r = refresh(c)
    BY Zenon
  <1> PICK after : after = recorded(c, o)
    BY Zenon
  <1>1. IsCircuit(r) /\ r.state \in States
    BY RefreshFields, Zenon DEF IsCircuit
  <1>2. CASE r.state = "open"
    <2>1. after = r
      BY <1>2, Zenon DEF recorded, States
    <2> QED BY <1>1, <1>2, <2>1, Zenon
  <1>3. CASE r.state = "half_open"
    <2>1. after = Decided(r, o.success)
      BY <1>3, Zenon DEF recorded, States
    <2>2. CASE o.success
      <3>1. PICK n : after = [state |-> "closed", openedAt |-> Zero, inFlight |-> n,
                              outcomes |-> {}]
        BY <1>1, <2>1, <2>2, Zenon DEF Decided, IsCircuit
      <3>2. IsCircuit(after) /\ after.state = "closed" /\ after.outcomes = {}
        BY <3>1, FS_EmptySet DEF IsCircuit, States
      <3> QED BY <1>3, <3>2, Zenon
    <2>3. CASE ~o.success
      <3>1. PICK n : after = [state |-> "open", openedAt |-> now, inFlight |-> n,
                              outcomes |-> r.outcomes]
        BY <1>1, <2>1, <2>3, Zenon DEF Decided, IsCircuit
      <3>2. /\ IsCircuit(after) /\ after.state = "open" /\ after.openedAt = now
            /\ after.outcomes = r.outcomes
        BY <1>1, <3>1 DEF IsCircuit, States
      <3> QED BY <1>3, <3>2, Zenon
    <2> QED BY <2>2, <2>3, Zenon
  <1>4. CASE r.state = "closed"
    <2> DEFINE more == pruned(r.outcomes \cup {o})
    <2>1. /\ IsFiniteSet(r.outcomes \cup {o})
          /\ Cardinality(r.outcomes \cup {o}) <= Cardinality(r.outcomes) + 1
      <3> PICK S : S = r.outcomes
        BY Zenon
      <3>1. IsFiniteSet(S) /\ Cardinality(S) \in Nat
        BY <1>1, FS_CardinalityType, Zenon DEF IsCircuit
      <3>2. /\ IsFiniteSet(S \cup {o})
            /\ Cardinality(S \cup {o}) = IF o \in S THEN Cardinality(S) ELSE Cardinality(S) + 1
        BY <3>1, FS_AddElement, Zenon
      <3> QED BY <3>1, <3>2
    <2>2. /\ more \subseteq r.outcomes \cup {o} /\ IsFiniteSet(more)
          /\ Cardinality(more) <= Cardinality(r.outcomes \cup {o})
          /\ \A p \in more : p.at >= now - Window
      BY <2>1, PrunedSubset, Zenon
    <2>3. Cardinality(more) <= Cardinality(r.outcomes) + 1
      BY <1>1, <2>1, <2>2, FS_CardinalityType DEF IsCircuit
    <2>4. \A p \in more : p.at \in Int
      BY <1>1, <2>2, Zenon DEF IsCircuit
    <2>5. after = IF shouldOpen(more)
            THEN [r EXCEPT !.outcomes = more, !.state = "open", !.openedAt = now]
            ELSE [r EXCEPT !.outcomes = more]
      BY <1>4, Zenon DEF recorded, Counted, States
    <2> HIDE DEF more
    <2>6. \/ /\ after = [state |-> "open", openedAt |-> now, inFlight |-> r.inFlight,
                          outcomes |-> more]
             /\ Cardinality(more) >= MinimumSamples
          \/ after = [state |-> "closed", openedAt |-> r.openedAt, inFlight |-> r.inFlight,
                      outcomes |-> more]
      BY <1>1, <1>4, <2>5, Zenon DEF IsCircuit, shouldOpen
    <2>7. /\ IsCircuit(after) /\ after.outcomes = more
          /\ after.state = "open" => after.openedAt = now /\ Cardinality(more) >= MinimumSamples
      BY <2>2, <2>4, <2>6 DEF IsCircuit, States
    <2> QED BY <1>4, <2>2, <2>3, <2>7, Zenon
  <1> QED BY <1>1, <1>2, <1>3, <1>4, Zenon DEF States

(***************************************************************************)
(* Seed adopts a snapshot in a closed circuit only, and no outcome.        *)
(***************************************************************************)
LEMMA SeededFields ==
    ASSUME NEW c, IsCircuit(c), NEW s, s.state \in States
    PROVE  /\ IsCircuit(seeded(c, s))
           /\ refresh(c).state = "open" => seeded(c, s) = refresh(c)
           /\ seeded(c, s).outcomes = refresh(c).outcomes
  <1>1. IsCircuit(refresh(c))
    BY RefreshFields, Zenon
  <1> QED BY <1>1, Zenon DEF seeded, IsCircuit, States

(***************************************************************************)
(* refresh leaves a circuit that tripped less than the open duration ago   *)
(* as it is.                                                               *)
(***************************************************************************)
LEMMA RefreshStays ==
    ASSUME BreakerIInv, NEW w \in Workers, tripped[w] # Zero, now < tripped[w] + OpenDuration
    PROVE  refresh(circuit[w]).state = "open" /\ refresh(circuit[w]).openedAt = tripped[w]
  <1>1. IsCircuit(circuit[w]) /\ circuit[w].state = "open" /\ circuit[w].openedAt = tripped[w]
    BY Zenon DEF BreakerIInv, BreakerTypeOK, StaysOpen
  <1>2. tripped[w] \in Int /\ now \in Int /\ OpenDuration \in Int
    BY BreakerConstants DEF BreakerIInv, BreakerTypeOK, Instant, Zero
  <1> QED BY <1>1, <1>2, RefreshFields

(***************************************************************************)
(* A step that only refreshes, seeds or admits: it sets a circuit to       *)
(* something that is still open if refresh leaves it open.                 *)
(***************************************************************************)
LEMMA CircuitStep ==
    ASSUME BreakerIInv, NEW w \in Workers, NEW x, IsCircuit(x),
           refresh(circuit[w]).state = "open" =>
               x.state = "open" /\ x.openedAt = refresh(circuit[w]).openedAt,
           Cardinality(x.outcomes) <= Cardinality(circuit[w].outcomes),
           circuit' = [circuit EXCEPT ![w] = x], UNCHANGED <<now, tripped, fresh>>
    PROVE  /\ circuit' = [v \in Workers |-> circuit'[v]]
           /\ \A v \in Workers : IsCircuit(circuit[v])'
           /\ \A v \in Workers : StaysOpen(v)'
           /\ \A v \in Workers : Evidence(v)'
  <1>1. circuit'[w] = x /\ \A v \in Workers \ {w} : circuit'[v] = circuit[v]
    BY Zenon DEF BreakerIInv, BreakerTypeOK
  <1>2. circuit' = [v \in Workers |-> circuit'[v]]
    BY Zenon DEF BreakerIInv, BreakerTypeOK
  <1>3. \A v \in Workers : IsCircuit(circuit[v])'
    BY <1>1, Zenon DEF BreakerIInv, BreakerTypeOK, IsCircuit, States
  <1>4. StaysOpen(w)'
    BY <1>1, RefreshStays, Zenon DEF BreakerIInv, StaysOpen
  <1>5. ASSUME NEW v \in Workers \ {w} PROVE StaysOpen(v)'
    BY <1>1, Zenon DEF BreakerIInv, StaysOpen
  <1>6. /\ Cardinality(x.outcomes) \in Nat /\ Cardinality(circuit[w].outcomes) \in Nat
        /\ fresh[w] \in Nat /\ Evidence(w)
    BY FS_CardinalityType, Zenon DEF BreakerIInv, BreakerTypeOK, IsCircuit
  <1>7. Evidence(w)'
    BY <1>1, <1>6 DEF Evidence
  <1>8. ASSUME NEW v \in Workers \ {w} PROVE Evidence(v)'
    BY <1>1, Zenon DEF BreakerIInv, Evidence
  <1> QED BY <1>2, <1>3, <1>4, <1>5, <1>7, <1>8, Zenon

(***************************************************************************)
(* Allow admits only through a circuit that refresh does not leave open,   *)
(* so not within the open duration of a trip.                              *)
(***************************************************************************)
LEMMA AllowKeeps ==
    ASSUME BreakerIInv, NEW w \in Workers, NEW c \in Calls, Allow(w, c)
    PROVE  BreakerIInv'
  <1> DEFINE r == refresh(circuit[w])
             admitted == \/ r.state = "closed"
                         \/ r.state = "half_open" /\ r.inFlight < HalfOpenProbes
             x == IF admitted /\ r.state = "half_open"
                    THEN [r EXCEPT !.inFlight = r.inFlight + 1] ELSE r
             new == [step |-> "running", worker |-> w, probe |-> r.state = "half_open",
                     at |-> now]
  <1>1. IsCircuit(r)
    BY RefreshFields, Zenon DEF BreakerIInv, BreakerTypeOK
  <1>2. /\ circuit' = [circuit EXCEPT ![w] = x]
        /\ UNCHANGED <<stored, reading, cache, restarts, now, tripped, fresh>>
        /\ call' = call \/ (admitted /\ call' = [call EXCEPT ![c] = new])
    BY Zenon DEF Allow
  <1> HIDE DEF r
  <1>3. /\ IsCircuit(x) /\ x.state = r.state /\ x.openedAt = r.openedAt
        /\ x.outcomes = r.outcomes
    BY <1>1, Zenon DEF IsCircuit, States
  <1> HIDE DEF x
  <1>10. Cardinality(x.outcomes) <= Cardinality(circuit[w].outcomes)
    BY <1>3, RefreshFields, Zenon DEF r, BreakerIInv, BreakerTypeOK
  <1>4. /\ circuit' = [v \in Workers |-> circuit'[v]]
        /\ \A v \in Workers : IsCircuit(circuit[v])'
        /\ \A v \in Workers : StaysOpen(v)'
        /\ \A v \in Workers : Evidence(v)'
    BY <1>2, <1>3, <1>10, CircuitStep, Zenon DEF r
  <1>5. admitted => \/ tripped[w] = Zero
                    \/ ~(now < tripped[w] + OpenDuration)
    BY RefreshStays, Zenon DEF r
  <1>6. now \in Nat /\ tripped[w] \in Int /\ OpenDuration \in Int
    BY BreakerConstants DEF BreakerIInv, BreakerTypeOK, Instant, Zero
  <1> HIDE DEF admitted
  <1>7. ASSUME NEW d \in Calls PROVE Admission(d)'
    <2>1. CASE call'[d] = call[d]
      BY <1>2, <2>1, Zenon DEF BreakerIInv, Admission, Running
    <2>2. CASE call'[d] # call[d]
      <3>1. admitted /\ call'[d] = new
        BY <1>2, <2>2, Zenon DEF BreakerIInv, BreakerTypeOK
      <3> QED BY <1>2, <1>5, <1>6, <3>1 DEF Admission, Running
    <2> QED BY <2>1, <2>2, Zenon
  <1>8. Snapshots'
    BY <1>2 DEF BreakerIInv, BreakerTypeOK, Snapshots
  <1>9. call' = [d \in Calls |-> call'[d]]
    BY <1>2, Zenon DEF BreakerIInv, BreakerTypeOK
  <1> QED BY <1>2, <1>4, <1>7, <1>8, <1>9, Zenon DEF BreakerIInv, BreakerTypeOK

(***************************************************************************)
(* The arithmetic of one more sample: fresh counts it as the slice does.   *)
(***************************************************************************)
LEMMA SampleCount ==
    \A m, f, k, b \in Nat :
      b <= k /\ (f >= m \/ k <= f) =>
        /\ f + 1 \in Nat
        /\ \A a \in Nat : f < m /\ a <= b + 1 => f + 1 >= m \/ a <= f + 1
        /\ ~(f < m) => f >= m
        /\ f >= m \/ b <= f
  OBVIOUS

(***************************************************************************)
(* Record counts at most one outcome more than fresh does, and a closed    *)
(* circuit it opens had its samples, all inside the window.                *)
(***************************************************************************)
LEMMA RecordEvidence ==
    ASSUME BreakerIInv, NEW c \in Calls, Record(c)
    PROVE  /\ fresh' \in [Workers -> Nat]
           /\ \A v \in Workers : Evidence(v)'
           /\ \A v \in Workers : circuit[v].state = "closed" /\ circuit'[v].state = "open" =>
                /\ fresh'[v] >= MinimumSamples
                /\ \A p \in circuit'[v].outcomes : now - p.at <= Window
  <1>1. PICK success \in BOOLEAN :
          LET w == call[c].worker
              before == refresh(circuit[w])
              after == recorded(circuit[w], [call |-> c, at |-> now, success |-> success])
          IN  /\ call[c].step = "running"
              /\ circuit' = [circuit EXCEPT ![w] = after]
              /\ fresh' = [fresh EXCEPT ![w] =
                    IF before.state = "half_open" /\ after.state = "closed" THEN 0
                    ELSE IF before.state = "closed" /\ @ < MinimumSamples THEN @ + 1 ELSE @]
    BY Zenon DEF Record
  <1> PICK w : w = call[c].worker
    BY Zenon
  <1> PICK o : o = [call |-> c, at |-> now, success |-> success]
    BY Zenon
  <1> PICK before : before = refresh(circuit[w])
    BY Zenon
  <1> PICK after : after = recorded(circuit[w], o)
    BY Zenon
  <1> PICK n : n = IF before.state = "half_open" /\ after.state = "closed" THEN 0
                   ELSE IF before.state = "closed" /\ fresh[w] < MinimumSamples
                   THEN fresh[w] + 1 ELSE fresh[w]
    BY Zenon
  <1>2. w \in Workers /\ IsCircuit(circuit[w]) /\ o.at \in Int
    <2>1. w \in Workers /\ IsCircuit(circuit[w])
      BY <1>1, Zenon DEF BreakerIInv, BreakerTypeOK, Admission, Running
    <2> QED BY <2>1 DEF BreakerIInv, BreakerTypeOK
  <1>3. /\ circuit'[w] = after /\ fresh'[w] = n
        /\ \A v \in Workers \ {w} : circuit'[v] = circuit[v] /\ fresh'[v] = fresh[v]
        /\ fresh' = [fresh EXCEPT ![w] = n]
    BY <1>1, <1>2, Zenon DEF BreakerIInv, BreakerTypeOK
  <1>4. /\ IsCircuit(before) /\ before.state \in States
        /\ circuit[w].state = "closed" => before.state = "closed"
        /\ Cardinality(before.outcomes) <= Cardinality(circuit[w].outcomes)
    BY <1>2, RefreshFields, Zenon DEF IsCircuit
  <1>5. /\ IsCircuit(after)
        /\ before.state = "open" => after = before
        /\ before.state = "half_open" =>
             IF after.state = "closed" THEN after.outcomes = {}
             ELSE after.outcomes = before.outcomes
        /\ before.state = "closed" =>
             Cardinality(after.outcomes) <= Cardinality(before.outcomes) + 1
        /\ before.state = "closed" /\ after.state = "open" =>
             /\ Cardinality(after.outcomes) >= MinimumSamples
             /\ \A p \in after.outcomes : p.at >= now - Window
    BY <1>2, RecordedFields, Zenon
  <1>A. PICK a : a = Cardinality(after.outcomes)
    BY Zenon
  <1>B. PICK b : b = Cardinality(before.outcomes)
    BY Zenon
  <1>K. PICK k : k = Cardinality(circuit[w].outcomes)
    BY Zenon
  <1>6. a \in Nat /\ b \in Nat /\ k \in Nat /\ MinimumSamples \in Nat /\ fresh[w] \in Nat
    <2>1. a \in Nat /\ b \in Nat /\ k \in Nat
      BY <1>A, <1>B, <1>K, <1>2, <1>4, <1>5, FS_CardinalityType, Zenon DEF IsCircuit
    <2>2. MinimumSamples \in Nat
      BY BreakerConstants
    <2>3. fresh[w] \in Nat
      BY <1>2, Zenon DEF BreakerIInv, BreakerTypeOK
    <2> QED BY <2>1, <2>2, <2>3, Zenon
  <1>7. b <= k /\ (fresh[w] >= MinimumSamples \/ k <= fresh[w])
    BY <1>B, <1>K, <1>2, <1>4, Zenon DEF BreakerIInv, Evidence
  <1>9. n \in Nat /\ (n >= MinimumSamples \/ a <= n)
    <2>1. CASE before.state = "closed"
      <3>1. /\ fresh[w] < MinimumSamples => n = fresh[w] + 1
            /\ ~(fresh[w] < MinimumSamples) => n = fresh[w]
        BY <2>1, Zenon
      <3>2. a <= b + 1
        BY <1>A, <1>B, <1>5, <2>1, Zenon
      <3>3. /\ fresh[w] + 1 \in Nat
            /\ fresh[w] < MinimumSamples => fresh[w] + 1 >= MinimumSamples \/ a <= fresh[w] + 1
            /\ ~(fresh[w] < MinimumSamples) => fresh[w] >= MinimumSamples
        BY <1>6, <1>7, <3>2, SampleCount, Zenon
      <3> QED BY <1>6, <3>1, <3>3, Zenon
    <2>2. CASE before.state = "half_open" /\ after.state = "closed"
      <3>1. n = 0 /\ after.outcomes = {}
        BY <1>5, <2>2, Zenon
      <3>2. a = 0
        BY <1>A, <3>1, FS_EmptySet, Zenon
      <3> QED BY <3>1, <3>2
    <2>3. CASE before.state # "closed" /\ ~(before.state = "half_open" /\ after.state = "closed")
      <3>1. n = fresh[w]
        BY <2>3, Zenon
      <3>2. before.state = "open" \/ before.state = "half_open"
        BY <1>4, <2>3, Zenon DEF States
      <3>3. a = b
        BY <1>A, <1>B, <1>5, <2>3, <3>2, Zenon
      <3>4. fresh[w] >= MinimumSamples \/ b <= fresh[w]
        BY <1>6, <1>7, SampleCount, Zenon
      <3> QED BY <1>6, <3>1, <3>3, <3>4, Zenon
    <2> QED BY <2>1, <2>2, <2>3, Zenon
  <1>10. fresh' \in [Workers -> Nat]
    BY <1>2, <1>3, <1>9, Zenon DEF BreakerIInv, BreakerTypeOK
  <1>11. \A v \in Workers : Evidence(v)'
    BY <1>A, <1>3, <1>9, Zenon DEF BreakerIInv, Evidence
  <1>12. ASSUME NEW v \in Workers, circuit[v].state = "closed", circuit'[v].state = "open"
         PROVE  /\ fresh'[v] >= MinimumSamples
                /\ \A p \in circuit'[v].outcomes : now - p.at <= Window
    <2>1. v = w /\ before.state = "closed" /\ after.state = "open"
      BY <1>3, <1>4, <1>12, Zenon DEF States
    <2>2. n >= MinimumSamples
      <3>1. a >= MinimumSamples
        BY <1>A, <1>B, <1>5, <2>1, Zenon
      <3> QED BY <1>6, <1>9, <3>1
    <2>3. ASSUME NEW p \in after.outcomes PROVE now - p.at <= Window
      <3>1. p.at \in Int /\ p.at >= now - Window
        BY <1>5, <2>1, Zenon DEF IsCircuit
      <3> QED BY <3>1, BreakerConstants DEF BreakerIInv, BreakerTypeOK
    <2> QED BY <1>3, <2>1, <2>2, <2>3, Zenon
  <1> QED BY <1>10, <1>11, <1>12, Zenon

(***************************************************************************)
(* Record trips a circuit at the present instant, which no call running    *)
(* was admitted after, and leaves an open one alone.                       *)
(***************************************************************************)
LEMMA RecordKeeps ==
    ASSUME BreakerIInv, NEW c \in Calls, Record(c)
    PROVE  BreakerIInv'
  <1>1. PICK success \in BOOLEAN :
          LET w == call[c].worker
              before == refresh(circuit[w])
              after == recorded(circuit[w], [call |-> c, at |-> now, success |-> success])
          IN  /\ call[c].step = "running"
              /\ circuit' = [circuit EXCEPT ![w] = after]
              /\ call' = [call EXCEPT ![c] =
                    IF after.state # before.state
                    THEN [step |-> "observing", worker |-> w, to |-> after.state, at |-> now]
                    ELSE [step |-> "done"]]
              /\ tripped' = [tripped EXCEPT ![w] =
                    IF after.state = "open" /\ before.state # "open" THEN now ELSE @]
              /\ fresh' = [fresh EXCEPT ![w] =
                    IF before.state = "half_open" /\ after.state = "closed" THEN 0
                    ELSE IF before.state = "closed" /\ @ < MinimumSamples THEN @ + 1 ELSE @]
              /\ UNCHANGED <<stored, reading, cache, restarts, now>>
    BY Zenon DEF Record
  <1> DEFINE w == call[c].worker
             before == refresh(circuit[w])
             o == [call |-> c, at |-> now, success |-> success]
             after == recorded(circuit[w], o)
  <1>2. w \in Workers /\ IsCircuit(circuit[w])
    BY <1>1, Zenon DEF BreakerIInv, BreakerTypeOK, Admission, Running
  <1>3. /\ IsCircuit(after)
        /\ before.state = "open" => after = before
        /\ after.state = "open" /\ before.state # "open" => after.openedAt = now
    <2>1. o.at \in Int
      BY DEF BreakerIInv, BreakerTypeOK
    <2> QED BY <1>2, <2>1, RecordedFields, Zenon
  <1>4. before.state # "open" => tripped[w] = Zero \/ ~(now < tripped[w] + OpenDuration)
    BY <1>2, RefreshStays, Zenon
  <1>5. before.state = "open" /\ tripped[w] # Zero /\ now < tripped[w] + OpenDuration =>
          before.openedAt = tripped[w]
    BY <1>2, RefreshStays, Zenon
  <1>6. now \in Nat /\ OpenDuration \in Nat \ {0} /\ \A v \in Workers : tripped[v] \in Int
    BY BreakerConstants DEF BreakerIInv, BreakerTypeOK, Instant, Zero
  <1>7. /\ circuit'[w] = after /\ \A v \in Workers \ {w} : circuit'[v] = circuit[v]
        /\ circuit' = [v \in Workers |-> circuit'[v]]
    BY <1>1, <1>2, Zenon DEF BreakerIInv, BreakerTypeOK
  <1>8. /\ tripped'[w] = IF after.state = "open" /\ before.state # "open" THEN now ELSE tripped[w]
        /\ \A v \in Workers \ {w} : tripped'[v] = tripped[v]
        /\ tripped' \in [Workers -> Instant]
    BY <1>1, <1>2, <1>6, Zenon DEF BreakerIInv, BreakerTypeOK, Instant
  <1>9. /\ call'[c].step # "running"
        /\ call'[c].step = "observing" => call'[c].to \in States
        /\ \A d \in Calls \ {c} : call'[d] = call[d]
        /\ call' = [d \in Calls |-> call'[d]]
    BY <1>1, <1>3, Zenon DEF BreakerIInv, BreakerTypeOK, IsCircuit
  <1>10. UNCHANGED <<stored, reading, now>>
    BY <1>1, Zenon
  <1>16. fresh' \in [Workers -> Nat] /\ \A v \in Workers : Evidence(v)'
    BY RecordEvidence, Zenon
  <1> HIDE DEF before, after, w
  <1>11. ASSUME NEW v \in Workers PROVE StaysOpen(v)'
    <2>1. CASE v # w
      BY <1>7, <1>8, <1>10, <2>1, Zenon DEF BreakerIInv, StaysOpen
    <2>2. CASE v = w /\ after.state = "open" /\ before.state # "open"
      BY <1>3, <1>6, <1>7, <1>8, <1>10, <2>2 DEF StaysOpen
    <2>3. CASE v = w /\ ~(after.state = "open" /\ before.state # "open")
      BY <1>3, <1>4, <1>5, <1>7, <1>8, <1>10, <2>3, Zenon DEF BreakerIInv, StaysOpen
    <2> QED BY <2>1, <2>2, <2>3, Zenon
  <1>12. ASSUME NEW d \in Calls PROVE Admission(d)'
    <2>1. CASE d = c
      BY <1>9, <2>1, Zenon DEF Admission, Running
    <2>2. CASE d # c
      <3>1. call'[d] = call[d] /\ Admission(d)
        BY <1>9, <2>2, Zenon DEF BreakerIInv
      <3>2. CASE Running(d) /\ call[d].worker = w
        BY <1>6, <1>8, <1>10, <3>1, <3>2, Zenon DEF Admission, Running
      <3>3. CASE Running(d) /\ call[d].worker # w
        BY <1>8, <1>10, <3>1, <3>3, Zenon DEF Admission, Running
      <3> QED BY <3>1, <3>2, <3>3, Zenon DEF Admission, Running
    <2> QED BY <2>1, <2>2, Zenon
  <1>13. Snapshots'
    BY <1>9, <1>10, Zenon DEF BreakerIInv, Snapshots
  <1>14. \A v \in Workers : IsCircuit(circuit[v])'
    BY <1>3, <1>7, Zenon DEF BreakerIInv, BreakerTypeOK, IsCircuit
  <1>15. BreakerTypeOK'
    BY <1>7, <1>8, <1>9, <1>10, <1>14, <1>16, Zenon DEF BreakerIInv, BreakerTypeOK
  <1> QED BY <1>11, <1>12, <1>13, <1>15, <1>16, Zenon DEF BreakerIInv

(***************************************************************************)
(* The other steps of a call change no circuit.                            *)
(***************************************************************************)
LEMMA CallKeeps ==
    ASSUME BreakerIInv, NEW c \in Calls, Abandon(c) \/ ObserveBreaker(c)
    PROVE  BreakerIInv'
  <1>1. /\ call' = [call EXCEPT ![c] = [step |-> "done"]]
        /\ UNCHANGED <<circuit, reading, now, tripped, fresh>>
        /\ stored' = stored \/ stored'.state \in States
    BY DEF Abandon, ObserveBreaker, BreakerIInv, Snapshots
  <1>2. /\ call'[c].step = "done" /\ \A d \in Calls \ {c} : call'[d] = call[d]
        /\ call' = [d \in Calls |-> call'[d]]
    BY <1>1, Zenon DEF BreakerIInv, BreakerTypeOK
  <1>3. BreakerTypeOK'
    BY <1>1, <1>2, Zenon DEF BreakerIInv, BreakerTypeOK, IsCircuit
  <1>4. ASSUME NEW v \in Workers PROVE StaysOpen(v)'
    BY <1>1, Zenon DEF BreakerIInv, StaysOpen
  <1>5. ASSUME NEW d \in Calls PROVE Admission(d)'
    BY <1>1, <1>2, Zenon DEF BreakerIInv, Admission, Running
  <1>6. Snapshots'
    BY <1>1, <1>2, Zenon DEF BreakerIInv, Snapshots
  <1>7. ASSUME NEW v \in Workers PROVE Evidence(v)'
    BY <1>1, Zenon DEF BreakerIInv, Evidence
  <1> QED BY <1>3, <1>4, <1>5, <1>6, <1>7, Zenon DEF BreakerIInv

(***************************************************************************)
(* Reading health refreshes and seeds, which opens nothing and closes      *)
(* nothing early.                                                          *)
(***************************************************************************)
LEMMA HealthKeeps ==
    ASSUME BreakerIInv, NEW w \in Workers, HealthLoad(w) \/ HealthState(w) \/ HealthApply(w)
    PROVE  BreakerIInv'
  <1>1. IsCircuit(circuit[w]) /\ IsCircuit(refresh(circuit[w]))
    BY RefreshFields, Zenon DEF BreakerIInv, BreakerTypeOK
  <1>2. ASSUME UNCHANGED <<call, now, tripped>> PROVE \A d \in Calls : Admission(d)'
    BY <1>2, Zenon DEF BreakerIInv, Admission, Running
  <1>3. CASE HealthLoad(w)
    <2> DEFINE x == IF stored = None THEN circuit[w] ELSE seeded(circuit[w], stored)
    <2>1. /\ circuit' = [circuit EXCEPT ![w] = x]
          /\ reading' = [reading EXCEPT ![w] = [step |-> "loaded", at |-> now]]
          /\ UNCHANGED <<call, stored, now, tripped, fresh>>
      BY <1>3, Zenon DEF HealthLoad
    <2>2. IsCircuit(x) /\ (refresh(circuit[w]).state = "open" =>
             x.state = "open" /\ x.openedAt = refresh(circuit[w]).openedAt)
      BY <1>1, SeededFields, RefreshFields DEF BreakerIInv, Snapshots, States
    <2>5. Cardinality(x.outcomes) <= Cardinality(circuit[w].outcomes)
      <3>1. /\ Cardinality(refresh(circuit[w]).outcomes) <= Cardinality(circuit[w].outcomes)
            /\ Cardinality(circuit[w].outcomes) <= Cardinality(circuit[w].outcomes)
        BY <1>1, RefreshFields, FS_CardinalityType DEF IsCircuit
      <3>2. \/ x = circuit[w]
            \/ x.outcomes = refresh(circuit[w]).outcomes
        BY <1>1, SeededFields, Zenon DEF BreakerIInv, Snapshots
      <3> QED BY <3>1, <3>2, Zenon
    <2> HIDE DEF x
    <2>3. /\ circuit' = [v \in Workers |-> circuit'[v]]
          /\ \A v \in Workers : IsCircuit(circuit[v])'
          /\ \A v \in Workers : StaysOpen(v)'
          /\ \A v \in Workers : Evidence(v)'
      BY <2>1, <2>2, <2>5, CircuitStep, Zenon
    <2>4. Snapshots' /\ reading' = [v \in Workers |-> reading'[v]]
      BY <2>1, Zenon DEF BreakerIInv, BreakerTypeOK, Snapshots
    <2> QED BY <1>2, <2>1, <2>3, <2>4, Zenon DEF BreakerIInv, BreakerTypeOK
  <1>4. CASE HealthState(w)
    <2> DEFINE x == refresh(circuit[w])
    <2>1. /\ circuit' = [circuit EXCEPT ![w] = x]
          /\ reading' = [reading EXCEPT ![w] =
                [step |-> "derived", at |-> reading[w].at, state |-> x.state]]
          /\ UNCHANGED <<call, stored, now, tripped, fresh>>
      BY <1>4, Zenon DEF HealthState, BreakerIInv, BreakerTypeOK
    <2>2. IsCircuit(x) /\ (refresh(circuit[w]).state = "open" =>
             x.state = "open" /\ x.openedAt = refresh(circuit[w]).openedAt)
      BY <1>1, Zenon
    <2>5. Cardinality(x.outcomes) <= Cardinality(circuit[w].outcomes)
      BY <1>1, RefreshFields, Zenon
    <2> HIDE DEF x
    <2>3. /\ circuit' = [v \in Workers |-> circuit'[v]]
          /\ \A v \in Workers : IsCircuit(circuit[v])'
          /\ \A v \in Workers : StaysOpen(v)'
          /\ \A v \in Workers : Evidence(v)'
      BY <2>1, <2>2, <2>5, CircuitStep, Zenon
    <2>4. Snapshots' /\ reading' = [v \in Workers |-> reading'[v]]
      BY <2>1, <2>2, Zenon DEF BreakerIInv, BreakerTypeOK, Snapshots, IsCircuit
    <2> QED BY <1>2, <2>1, <2>3, <2>4, Zenon DEF BreakerIInv, BreakerTypeOK
  <1>5. CASE HealthApply(w)
    <2>1. /\ UNCHANGED <<circuit, call, now, tripped, fresh>>
          /\ reading' = [reading EXCEPT ![w] = None]
          /\ stored' = stored \/ stored'.state \in States
      BY <1>5 DEF HealthApply, BreakerIInv, Snapshots
    <2>2. Snapshots' /\ reading' = [v \in Workers |-> reading'[v]]
      BY <2>1, Zenon DEF BreakerIInv, BreakerTypeOK, Snapshots
    <2>3. BreakerTypeOK'
      BY <2>1, <2>2, Zenon DEF BreakerIInv, BreakerTypeOK, IsCircuit
    <2>4. \A v \in Workers : StaysOpen(v)' /\ Evidence(v)'
      BY <2>1, Zenon DEF BreakerIInv, StaysOpen, Evidence
    <2> QED BY <1>2, <2>1, <2>2, <2>3, <2>4, Zenon DEF BreakerIInv
  <1> QED BY <1>3, <1>4, <1>5, Zenon

(***************************************************************************)
(* A new process starts with a closed circuit and no call of its own.      *)
(***************************************************************************)
LEMMA RestartKeeps ==
    ASSUME BreakerIInv, NEW w \in Workers, Restart(w)
    PROVE  BreakerIInv'
  <1>1. /\ circuit' = [circuit EXCEPT ![w] = NewCircuit]
        /\ reading' = [reading EXCEPT ![w] = None]
        /\ tripped' = [tripped EXCEPT ![w] = Zero]
        /\ fresh' = [fresh EXCEPT ![w] = 0]
        /\ UNCHANGED <<stored, now>>
    BY Zenon DEF Restart
  <1>2. \A d \in Calls : \/ call'[d] = [step |-> "done"]
                         \/ /\ call'[d] = call[d]
                            /\ ~(call[d].step \in {"running", "observing"} /\ call[d].worker = w)
    BY Zenon DEF Restart
  <1>3. call' = [d \in Calls |-> call'[d]]
    BY Zenon DEF Restart
  <1>4. IsCircuit(NewCircuit)
    BY FS_EmptySet, Zenon DEF NewCircuit, IsCircuit, States
  <1>5. /\ circuit' = [v \in Workers |-> circuit'[v]]
        /\ \A v \in Workers : IsCircuit(circuit[v])'
    BY <1>1, <1>4, Zenon DEF BreakerIInv, BreakerTypeOK, IsCircuit
  <1>10. fresh' \in [Workers -> Nat]
    BY <1>1, Zenon DEF BreakerIInv, BreakerTypeOK
  <1>11. ASSUME NEW v \in Workers PROVE Evidence(v)'
    <2>1. CASE v = w
      <3>1. circuit'[v].outcomes = {} /\ fresh'[v] = 0
        BY <1>1, <2>1, Zenon DEF BreakerIInv, BreakerTypeOK, NewCircuit
      <3> QED BY <3>1, FS_EmptySet DEF Evidence
    <2>2. CASE v # w
      BY <1>1, <2>2, Zenon DEF BreakerIInv, BreakerTypeOK, Evidence
    <2> QED BY <2>1, <2>2, Zenon
  <1>6. BreakerTypeOK'
    BY <1>1, <1>3, <1>5, <1>10, Zenon DEF BreakerIInv, BreakerTypeOK, Instant
  <1>7. ASSUME NEW v \in Workers PROVE StaysOpen(v)'
    BY <1>1, Zenon DEF BreakerIInv, BreakerTypeOK, StaysOpen
  <1>8. ASSUME NEW d \in Calls PROVE Admission(d)'
    <2>1. CASE call'[d] = [step |-> "done"]
      BY <2>1 DEF Admission, Running
    <2>2. CASE call'[d] = call[d] /\ ~(call[d].step = "running" /\ call[d].worker = w)
      BY <1>1, <2>2, Zenon DEF BreakerIInv, BreakerTypeOK, Admission, Running
    <2> QED BY <1>2, <2>1, <2>2, Zenon
  <1>9. Snapshots'
    BY <1>1, <1>2 DEF BreakerIInv, BreakerTypeOK, Snapshots
  <1> QED BY <1>6, <1>7, <1>8, <1>9, <1>11, Zenon DEF BreakerIInv

(***************************************************************************)
(* The clock; and a step that changes nothing.                             *)
(***************************************************************************)
LEMMA BreakerTickKeeps ==
    ASSUME BreakerIInv, BreakerTick \/ UNCHANGED breakerVars
    PROVE  BreakerIInv'
  <1>1. /\ now' = now + 1 \/ now' = now
        /\ UNCHANGED <<circuit, call, stored, reading, tripped, fresh>>
    BY Zenon DEF BreakerTick, ClockAdvances, breakerVars
  <1>2. now \in Nat /\ OpenDuration \in Nat /\ \A v \in Workers : tripped[v] \in Int
    BY BreakerConstants DEF BreakerIInv, BreakerTypeOK, Instant, Zero
  <1>3. BreakerTypeOK'
    BY <1>1 DEF BreakerIInv, BreakerTypeOK, IsCircuit
  <1>4. ASSUME NEW v \in Workers PROVE StaysOpen(v)'
    BY <1>1, <1>2 DEF BreakerIInv, StaysOpen
  <1>5. ASSUME NEW d \in Calls PROVE Admission(d)'
    BY <1>1, <1>2 DEF BreakerIInv, Admission, Running
  <1>6. Snapshots'
    BY <1>1, Zenon DEF BreakerIInv, Snapshots
  <1>7. ASSUME NEW v \in Workers PROVE Evidence(v)'
    BY <1>1, Zenon DEF BreakerIInv, Evidence
  <1> QED BY <1>3, <1>4, <1>5, <1>6, <1>7, Zenon DEF BreakerIInv

-----------------------------------------------------------------------------
LEMMA BreakerInvariant == BreakerSpec => []BreakerIInv
  <1>1. BreakerInit => BreakerIInv
    <2> SUFFICES ASSUME BreakerInit PROVE BreakerIInv
      BY Zenon
    <2>1. \A w \in Workers : circuit[w] = NewCircuit /\ IsCircuit(NewCircuit)
      BY FS_EmptySet, Zenon DEF BreakerInit, NewCircuit, IsCircuit, States
    <2>2. BreakerTypeOK
      BY <2>1, Zenon DEF BreakerInit, BreakerTypeOK, Instant
    <2>3. \A w \in Workers : Evidence(w)
      BY <2>1, FS_EmptySet, BreakerConstants DEF BreakerInit, Evidence, NewCircuit
    <2>4. /\ \A w \in Workers : StaysOpen(w)
          /\ \A c \in Calls : Admission(c)
          /\ Snapshots
      BY Zenon DEF BreakerInit, StaysOpen, Admission, Running, Snapshots
    <2> QED BY <2>2, <2>3, <2>4, Zenon DEF BreakerIInv
  <1>2. BreakerIInv /\ [BreakerNext]_breakerVars => BreakerIInv'
    BY AllowKeeps, RecordKeeps, CallKeeps, HealthKeeps, RestartKeeps, BreakerTickKeeps, Zenon
       DEF BreakerNext
  <1> QED BY <1>1, <1>2, PTL DEF BreakerSpec

(***************************************************************************)
(* A circuit that tripped admits no call of its process until the open     *)
(* duration has passed, whatever late outcomes and shared snapshots reach  *)
(* it in the meantime.                                                     *)
(***************************************************************************)
THEOREM OpenCorrect == BreakerSpec => []OpenHoldsOff
  <1>1. BreakerIInv => OpenHoldsOff
    BY Zenon DEF BreakerIInv, Admission, OpenHoldsOff
  <1> QED BY <1>1, BreakerInvariant, PTL

(***************************************************************************)
(* A closed circuit trips only over MinimumSamples outcomes inside the     *)
(* window, recorded since it last closed.  Only Record stamps a trip: a    *)
(* circuit whose trip is of this very instant is open already, so no other *)
(* step finds it closed.                                                   *)
(***************************************************************************)
THEOREM TripCorrect == BreakerSpec => TripIsEarned
  <1> DEFINE Trips(w) == tripped'[w] = now /\ circuit[w].state = "closed"
                           /\ circuit'[w].state = "open"
             Earned(w) == /\ fresh'[w] >= MinimumSamples
                          /\ \A o \in circuit'[w].outcomes : now - o.at <= Window
  <1>1. BreakerIInv /\ [BreakerNext]_breakerVars =>
          [\A w \in Workers : Trips(w) => Earned(w)]_breakerVars
    <2> SUFFICES ASSUME BreakerIInv, BreakerNext, NEW v \in Workers, Trips(v)
                 PROVE  Earned(v)
      BY Zenon
    <2>1. ASSUME tripped' = tripped PROVE FALSE
      <3>1. now \in Nat /\ OpenDuration \in Nat \ {0} /\ tripped[v] = now
        BY <2>1, BreakerConstants, Zenon DEF BreakerIInv, BreakerTypeOK
      <3>2. tripped[v] # Zero /\ now < tripped[v] + OpenDuration
        BY <3>1 DEF Zero
      <3> QED BY <3>2, Zenon DEF BreakerIInv, StaysOpen
    <2>2. ASSUME NEW w \in Workers, Restart(w) PROVE FALSE
      <3>1. CASE v = w
        BY <2>2, <3>1, Zenon DEF Restart, BreakerIInv, BreakerTypeOK, NewCircuit
      <3>2. CASE v # w
        BY <2>2, <3>2, Zenon DEF Restart, BreakerIInv, BreakerTypeOK
      <3> QED BY <3>1, <3>2, Zenon
    <2>3. ASSUME NEW c \in Calls, Record(c) PROVE Earned(v)
      BY <2>3, RecordEvidence, Zenon
    <2> QED BY <2>1, <2>2, <2>3, Zenon
         DEF BreakerNext, Allow, HealthLoad, HealthState, HealthApply, Abandon,
             ObserveBreaker, BreakerTick
  <1> QED BY <1>1, BreakerInvariant, PTL DEF BreakerSpec, TripIsEarned

===============================================================================
