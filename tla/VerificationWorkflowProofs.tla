---------------------- MODULE VerificationWorkflowProofs ----------------------
(***************************************************************************)
(* Proofs about VerificationWorkflow, for every plan, every number of      *)
(* workers, authors and clients: the routes of the plan, the completion of *)
(* the session, what a cancellation leaves and the session's contract.     *)
(***************************************************************************)
EXTENDS VerificationWorkflow, WellFoundedInduction, TLAPS

WorkflowTypeOK ==
    /\ session \in [state : SessionStates \ {"created"}, version : Nat]
    /\ check \in [Checks -> CheckStates]
    /\ attempt \in [Checks -> Nat]
    /\ dispatch \in [Checks -> Dispatch \cup {None}]
    /\ response \in Nat
    /\ work \in [Workers -> Delivery \cup {None}]
    /\ author \in [Authors -> Evaluation \cup {None}]

(***************************************************************************)
(* What admission found when it let c run, and when it let c be skipped.   *)
(* Both speak of finished checks only, so both last.                       *)
(***************************************************************************)
Runnable(c) ==
    /\ \A i \in DOMAIN DependsOn[c] : check[DependsOn[c][i]] = "completed"
    /\ FallbackFor[c] # None => check[FallbackFor[c]] \in {"failed", "timed_out", "cancelled"}

Skippable(c) ==
    \/ \E i \in DOMAIN DependsOn[c] :
         TerminalCheck(check[DependsOn[c][i]]) /\ check[DependsOn[c][i]] # "completed"
    \/ FallbackFor[c] # None /\ check[FallbackFor[c]] \in {"completed", "skipped_by_policy"}

RouteInv ==
    \A c \in Checks :
      /\ dispatch[c] # None \/ attempt[c] > 1 => Runnable(c)
      /\ check[c] = "skipped_by_policy" => Skippable(c)

(***************************************************************************)
(* A delivery that is not a skip was admitted; it never names an attempt   *)
(* of the future, and while its attempt is the latest one the result it is *)
(* about to save is there.                                                 *)
(***************************************************************************)
DeliveryInv(w) ==
    work[w] # None =>
      LET c == work[w].check IN
      /\ check[c] # "none" /\ work[w].attempt <= attempt[c]
      /\ work[w].step # "skip" => Runnable(c)
      /\ work[w].step = "save" /\ work[w].attempt = attempt[c] =>
           dispatch[c] # None /\ dispatch[c].outcome \in Outcomes

WorkInv == \A w \in Workers : DeliveryInv(w)

(***************************************************************************)
(* Facts are read, and a route is taken, only after the last check ended.  *)
(***************************************************************************)
AuthorInv ==
    /\ \A a \in Authors : author[a] # None => author[a].facts = check /\ Ready
    /\ routed # None => Ready
    /\ session.state \in {"processing", "awaiting_external"} => routed = None
    /\ session.state = "manual_review" => routed = "manual_review"

(***************************************************************************)
(* A check is cancelled by a cancellation that found no dispatch row, or   *)
(* by its runner.                                                          *)
(***************************************************************************)
CancelInv ==
    /\ CancelledHoldsReservations
    /\ \A c \in Checks : check[c] = "cancelled" =>
         /\ dispatch[c] = None => session.state = "cancelled"
         /\ dispatch[c] # None => dispatch[c].outcome = "cancelled"

(***************************************************************************)
(* The inductive invariant.                                                *)
(***************************************************************************)
WorkflowIInv ==
    /\ WorkflowTypeOK /\ RouteInv /\ WorkInv /\ AuthorInv
    /\ CancelInv /\ CompletionIsEarned

(***************************************************************************)
(* A finished check never changes.                                         *)
(***************************************************************************)
FinishedLasts == \A c \in Checks : TerminalCheck(check[c]) => check'[c] = check[c]
-------------------------------------------------------------------------------
(***************************************************************************)
(* Dependencies and primaries are planned checks.                          *)
(***************************************************************************)
LEMMA PlanTypes ==
    ASSUME NEW c \in Checks
    PROVE  /\ \A i \in DOMAIN DependsOn[c] : DependsOn[c][i] \in Checks
           /\ DOMAIN DependsOn[c] \subseteq Nat
           /\ FallbackFor[c] # None => FallbackFor[c] \in Checks
<1>1. DependsOn[c] \in Seq(Checks) /\ FallbackFor[c] \in Checks \cup {None}
  BY WorkflowConstants, Zenon
<1>2. \A i \in DOMAIN DependsOn[c] : DependsOn[c][i] \in Checks
  BY <1>1
<1>3. DOMAIN DependsOn[c] = 1 .. Len(DependsOn[c]) /\ Len(DependsOn[c]) \in Nat
  BY <1>1
<1> QED  BY <1>1, <1>2, <1>3

(***************************************************************************)
(* An unmet dependency has a first one: the CHOOSE of FirstUnmet, which    *)
(* stands for the loop of RouteAdmissionWithin, finds one.                 *)
(***************************************************************************)
LEMMA FirstUnmetIsUnmet ==
    ASSUME NEW c \in Checks, Unmet(c) # {}
    PROVE  FirstUnmet(c) \in Unmet(c)
<1>1. Unmet(c) \subseteq Nat
  BY PlanTypes, Zenon DEF Unmet
<1>2. PICK x \in Unmet(c) : \A y \in Unmet(c) : ~(<<y, x>> \in OpToRel(<, Nat))
  BY <1>1, WFMin, NatLessThanWellFounded, Zenon
<1>3. \A y \in Unmet(c) : ~(y < x)
  BY <1>1, <1>2, Zenon DEF OpToRel
<1>4. \A y \in Unmet(c) : x <= y
  BY <1>1, <1>3
<1> QED  BY <1>4, Zenon DEF FirstUnmet

(***************************************************************************)
(* Route admission is sound: "run" and "skip" are answered for the reasons *)
(* of RouteRespected.                                                      *)
(***************************************************************************)
LEMMA AdmissionIsSound ==
    ASSUME NEW c \in Checks
    PROVE  /\ RouteAdmission(c) \in {"run", "skip", "wait"}
           /\ RouteAdmission(c) = "run" => Runnable(c)
           /\ RouteAdmission(c) = "skip" => Skippable(c)
<1>1. CASE Unmet(c) # {}
  <2>1. FirstUnmet(c) \in DOMAIN DependsOn[c] /\ check[DependsOn[c][FirstUnmet(c)]] # "completed"
    BY <1>1, FirstUnmetIsUnmet, Zenon DEF Unmet
  <2> QED  BY <1>1, <2>1, Zenon DEF RouteAdmission, Skippable
<1>2. CASE Unmet(c) = {}
  <2>1. \A i \in DOMAIN DependsOn[c] : check[DependsOn[c][i]] = "completed"
    BY <1>2, Zenon DEF Unmet
  <2> QED  BY <1>2, <2>1, Zenon DEF RouteAdmission, Runnable, Skippable
<1> QED  BY <1>1, <1>2, Zenon

(***************************************************************************)
(* The reasons of a route last, because finished checks do.                *)
(***************************************************************************)
LEMMA RoutesLast ==
    ASSUME FinishedLasts, NEW c \in Checks
    PROVE  (Runnable(c) => Runnable(c)') /\ (Skippable(c) => Skippable(c)')
<1>1. Runnable(c) => Runnable(c)'
  BY PlanTypes, Zenon DEF FinishedLasts, Runnable, TerminalCheck, TerminalStates
<1>2. Skippable(c) => Skippable(c)'
  BY PlanTypes, Zenon DEF FinishedLasts, Skippable, TerminalCheck, TerminalStates
<1> QED  BY <1>1, <1>2, Zenon

LEMMA ReadyLasts ==
    ASSUME WorkflowTypeOK, WorkflowTypeOK', FinishedLasts, Ready
    PROVE  Ready' /\ check' = check
<1>1. \A c \in Checks : check'[c] = check[c]
  BY Zenon DEF FinishedLasts, Ready
<1>2. check' = check
  BY <1>1 DEF WorkflowTypeOK
<1> QED  BY <1>2, Zenon DEF Ready

LEMMA UnchangedFinished ==
    ASSUME UNCHANGED check
    PROVE  FinishedLasts
  BY Zenon DEF FinishedLasts
-------------------------------------------------------------------------------
(***************************************************************************)
(* The parts of the invariant that a step leaves alone when it leaves the  *)
(* variables they read alone.                                              *)
(***************************************************************************)
LEMMA RouteUnchanged ==
    ASSUME WorkflowIInv, UNCHANGED <<check, attempt, dispatch>>
    PROVE  RouteInv'
  BY DEF WorkflowIInv, RouteInv, Runnable, Skippable

LEMMA WorkUnchanged ==
    ASSUME WorkflowIInv, UNCHANGED <<check, attempt, dispatch, work>>
    PROVE  WorkInv'
  BY Zenon DEF WorkflowIInv, WorkInv, DeliveryInv, Runnable

LEMMA AuthorUnchanged ==
    ASSUME WorkflowIInv, UNCHANGED <<check, author, routed, session>>
    PROVE  AuthorInv'
  BY Zenon DEF WorkflowIInv, AuthorInv, Ready

LEMMA CancelUnchanged ==
    ASSUME WorkflowIInv, UNCHANGED <<check, dispatch, session>>
    PROVE  CancelInv'
  BY Zenon DEF WorkflowIInv, CancelInv, CancelledHoldsReservations

LEMMA CompletionUnchanged ==
    ASSUME WorkflowIInv, UNCHANGED <<check, routed, decision, session>>
    PROVE  CompletionIsEarned'
  BY Zenon DEF WorkflowIInv, CompletionIsEarned

(***************************************************************************)
(* Steps that touch nothing the invariant reads, or only the response.     *)
(***************************************************************************)
LEMMA QuietKeeps ==
    ASSUME WorkflowIInv, response' \in Nat,
           UNCHANGED <<session, check, attempt, dispatch, work, author, routed, decision>>
    PROVE  WorkflowIInv'
<1>1. WorkflowTypeOK'
  BY Zenon DEF WorkflowIInv, WorkflowTypeOK
<1> QED
  BY <1>1, RouteUnchanged, WorkUnchanged, AuthorUnchanged, CancelUnchanged, CompletionUnchanged, Zenon
     DEF WorkflowIInv

(***************************************************************************)
(* A move of the session alone: into and out of the external wait, expiry  *)
(* and resume.                                                             *)
(***************************************************************************)
MoveAlone(to) ==
    /\ ~Terminal(session.state)
    /\ session' = [state |-> to, version |-> session.version + 1]
    /\ to \in {"awaiting_external", "processing", "expired", "collecting"}
    /\ to \in {"processing", "awaiting_external"} =>
         session.state \in {"processing", "awaiting_external"}

LEMMA MoveTypes ==
    ASSUME WorkflowTypeOK, NEW to, MoveAlone(to)
    PROVE  /\ session' \in [state : SessionStates \ {"created"}, version : Nat]
           /\ session'.state = to
  BY DEF WorkflowTypeOK, MoveAlone, SessionStates

LEMMA MoveKeepsAuthor ==
    ASSUME WorkflowIInv, NEW to, MoveAlone(to), UNCHANGED <<check, author, routed>>
    PROVE  AuthorInv'
<1>1. session'.state = to
  BY MoveTypes, Zenon DEF WorkflowIInv
<1> QED  BY <1>1, Zenon DEF WorkflowIInv, AuthorInv, Ready, MoveAlone

LEMMA MoveKeepsCancel ==
    ASSUME WorkflowIInv, NEW to, MoveAlone(to), UNCHANGED <<check, dispatch>>
    PROVE  CancelInv'
<1>1. session'.state = to
  BY MoveTypes, Zenon DEF WorkflowIInv
<1> QED
  BY <1>1, Zenon DEF WorkflowIInv, CancelInv, CancelledHoldsReservations, MoveAlone, Terminal

LEMMA MoveKeepsCompletion ==
    ASSUME WorkflowIInv, NEW to, MoveAlone(to), UNCHANGED <<check, routed, decision>>
    PROVE  CompletionIsEarned'
<1>1. session'.state = to
  BY MoveTypes, Zenon DEF WorkflowIInv
<1> QED  BY <1>1, Zenon DEF WorkflowIInv, CompletionIsEarned, MoveAlone, Terminal
-------------------------------------------------------------------------------
(***************************************************************************)
(* A delivery that a step does not touch keeps its part of the invariant,  *)
(* whatever the step does to checks, attempts and dispatches lawfully.     *)
(***************************************************************************)
Lawful(c) ==
    /\ check[c] # "none" => check'[c] # "none"
    /\ attempt'[c] >= attempt[c]
    /\ attempt'[c] = attempt[c] /\ dispatch[c] # None =>
         /\ dispatch'[c] # None
         /\ dispatch[c].outcome \in Outcomes => dispatch'[c].outcome \in Outcomes

LEMMA DeliveryLasts ==
    ASSUME WorkflowIInv, WorkflowTypeOK', FinishedLasts, \A c \in Checks : Lawful(c),
           NEW v \in Workers, work'[v] = work[v]
    PROVE  DeliveryInv(v)'
<1> SUFFICES ASSUME work[v] # None  PROVE DeliveryInv(v)'
  BY Zenon DEF DeliveryInv
<1> DEFINE c == work[v].check
<1>1. work[v] \in Delivery /\ c \in Checks /\ work[v].attempt \in Nat
  BY Zenon DEF WorkflowIInv, WorkflowTypeOK, Delivery
<1>2. attempt[c] \in Nat /\ attempt'[c] \in Nat
  BY <1>1, Zenon DEF WorkflowIInv, WorkflowTypeOK
<1>3. DeliveryInv(v) /\ Lawful(c)
  BY <1>1, Zenon DEF WorkflowIInv, WorkInv
<1>4. check'[c] # "none" /\ work[v].attempt <= attempt'[c]
  BY <1>1, <1>2, <1>3 DEF DeliveryInv, Lawful
<1>5. work[v].step # "skip" => Runnable(c)'
  BY <1>1, <1>3, RoutesLast, Zenon DEF DeliveryInv
<1>6. work[v].step = "save" /\ work[v].attempt = attempt'[c] =>
        dispatch'[c] # None /\ dispatch'[c].outcome \in Outcomes
  BY <1>1, <1>2, <1>3 DEF DeliveryInv, Lawful
<1> QED  BY <1>4, <1>5, <1>6, Zenon DEF DeliveryInv

LEMMA LawfulUnchanged ==
    ASSUME WorkflowIInv, UNCHANGED <<check, attempt, dispatch>>
    PROVE  \A c \in Checks : Lawful(c)
  BY DEF WorkflowIInv, WorkflowTypeOK, Lawful

(***************************************************************************)
(* A step that ends the delivery of w, or hands it a lawful new value.     *)
(***************************************************************************)
LEMMA OthersLast ==
    ASSUME WorkflowIInv, WorkflowTypeOK', FinishedLasts, \A c \in Checks : Lawful(c),
           NEW w \in Workers, NEW job, work' = [work EXCEPT ![w] = job],
           DeliveryInv(w)'
    PROVE  WorkInv'
<1>1. \A v \in Workers \ {w} : work'[v] = work[v]
  BY Zenon DEF WorkflowIInv, WorkflowTypeOK
<1>2. \A v \in Workers \ {w} : DeliveryInv(v)'
  BY <1>1, DeliveryLasts, Zenon
<1> QED  BY <1>2, Zenon DEF WorkInv

LEMMA EndOfDelivery ==
    ASSUME WorkflowIInv, WorkflowTypeOK', FinishedLasts, \A c \in Checks : Lawful(c),
           NEW w \in Workers, work' = [work EXCEPT ![w] = None]
    PROVE  WorkInv'
<1>1. work'[w] = None
  BY Zenon DEF WorkflowIInv, WorkflowTypeOK
<1>2. DeliveryInv(w)'
  BY <1>1, Zenon DEF DeliveryInv
<1> QED  BY <1>2, OthersLast, Zenon
-------------------------------------------------------------------------------
(***************************************************************************)
(* The actions, one by one.                                                *)
(***************************************************************************)
LEMMA StartKeeps ==
    ASSUME WorkflowIInv, StartProcessing
    PROVE  WorkflowIInv'
<1>1. WorkflowTypeOK' /\ session'.state = "processing"
  BY DEF WorkflowIInv, WorkflowTypeOK, StartProcessing, Advance, policyVars, taskVars,
         worldVars, SessionStates, CheckStates
<1>2. /\ \A c \in Checks : check[c] = "none" /\ check'[c] = "running" /\ attempt'[c] = 1
      /\ UNCHANGED <<dispatch, routed, decision, work, author>>
      /\ session.state = "collecting"
  BY Zenon DEF StartProcessing, MayStart, MayProcess, policyVars, taskVars
<1>3. FinishedLasts
  BY <1>2, Zenon DEF FinishedLasts, TerminalCheck, TerminalStates
<1>4. ~Ready
  BY <1>2, WorkflowConstants, Zenon DEF Ready, TerminalCheck, TerminalStates
<1>5. \A v \in Workers : work[v] = None
  BY <1>2 DEF WorkflowIInv, WorkInv, DeliveryInv, WorkflowTypeOK, Delivery
<1>6. RouteInv'
  BY <1>2, <1>3, RoutesLast DEF WorkflowIInv, RouteInv
<1>7. WorkInv'
  BY <1>2, <1>5, Zenon DEF WorkInv, DeliveryInv
<1>8. AuthorInv'
  BY <1>1, <1>2, <1>4, Zenon DEF WorkflowIInv, AuthorInv
<1>9. CancelInv'
  BY <1>1, <1>2, Zenon DEF CancelInv, CancelledHoldsReservations
<1>10. CompletionIsEarned'
  BY <1>1, <1>2, Zenon DEF WorkflowIInv, CompletionIsEarned
<1> QED  BY <1>1, <1>6, <1>7, <1>8, <1>9, <1>10, Zenon DEF WorkflowIInv

LEMMA AdmitKeeps ==
    ASSUME WorkflowIInv, NEW w \in Workers, NEW c \in Checks, Admit(w, c)
    PROVE  WorkflowIInv'
<1>1. /\ UNCHANGED <<session, check, attempt, dispatch, author, routed, decision, response>>
      /\ work' = [work EXCEPT ![w] = Job(c, RouteAdmission(c))]
      /\ check[c] = "running" /\ RouteAdmission(c) # "wait"
  BY Zenon DEF Admit, sessionVars, checkVars, policyVars, worldVars
<1>2. Job(c, RouteAdmission(c)) \in Delivery
  BY <1>1, AdmissionIsSound, Zenon DEF Job, Delivery, WorkflowIInv, WorkflowTypeOK
<1>3. WorkflowTypeOK' /\ work'[w] = Job(c, RouteAdmission(c))
  BY <1>1, <1>2, Zenon DEF WorkflowIInv, WorkflowTypeOK
<1>4. FinishedLasts /\ \A d \in Checks : Lawful(d)
  BY <1>1, LawfulUnchanged, Zenon DEF FinishedLasts
<1>5. DeliveryInv(w)'
  <2>1. RouteAdmission(c) = "run" => Runnable(c)'
    BY <1>1, AdmissionIsSound, Zenon DEF Runnable
  <2>2. RouteAdmission(c) \in {"run", "skip"}
    BY <1>1, AdmissionIsSound, Zenon
  <2>3. attempt[c] \in Nat
    BY Zenon DEF WorkflowIInv, WorkflowTypeOK
  <2> QED  BY <1>1, <1>3, <2>1, <2>2, <2>3 DEF DeliveryInv, Job
<1>6. WorkInv'
  BY <1>1, <1>3, <1>4, <1>5, OthersLast, Zenon
<1> QED
  BY <1>1, <1>3, <1>6, RouteUnchanged, AuthorUnchanged, CancelUnchanged, CompletionUnchanged
     DEF WorkflowIInv

LEMMA CrashKeeps ==
    ASSUME WorkflowIInv, NEW w \in Workers, Crash(w)
    PROVE  WorkflowIInv'
<1>1. /\ UNCHANGED <<session, check, attempt, dispatch, author, routed, decision, response>>
      /\ work' = [work EXCEPT ![w] = None]
  BY Zenon DEF Crash, sessionVars, checkVars, policyVars, worldVars
<1>2. WorkflowTypeOK'
  BY <1>1, Zenon DEF WorkflowIInv, WorkflowTypeOK
<1>3. WorkInv'
  BY <1>1, <1>2, EndOfDelivery, UnchangedFinished, LawfulUnchanged, Zenon
<1> QED
  BY <1>1, <1>2, <1>3, RouteUnchanged, AuthorUnchanged, CancelUnchanged, CompletionUnchanged, Zenon
     DEF WorkflowIInv

(***************************************************************************)
(* A dispatch row is not None, and one that is not Pending has a result.   *)
(***************************************************************************)
LEMMA DispatchRows ==
    /\ Pending \in Dispatch /\ Pending # None
    /\ \A d \in Dispatch : d # None /\ (d # Pending => d.outcome \in Outcomes)
<1>1. Pending \in Dispatch
  BY Zenon DEF Pending, Dispatch
<1>2. \A d \in Dispatch : d # None
  BY WorkflowConstants, Zenon
<1>3. ASSUME NEW d \in [outcome : {"pending"}, seen : {0}]  PROVE d = Pending
  BY Zenon DEF Pending
<1> QED  BY <1>1, <1>2, <1>3, Zenon DEF Dispatch

(***************************************************************************)
(* A claim writes a dispatch row only for the latest attempt of an         *)
(* admitted check.                                                         *)
(***************************************************************************)
LEMMA ClaimKeeps ==
    ASSUME WorkflowIInv, NEW w \in Workers, Execute(w), MayExecute, HasRequest(work[w]),
           Current(work[w])
    PROVE  WorkflowIInv'
<1>0. work[w] \in Delivery
  BY Zenon DEF Execute, Step, WorkflowIInv, WorkflowTypeOK
<1> PICK c \in Checks : c = work[w].check
  BY <1>0, Zenon DEF Delivery
<1> DEFINE step == IF dispatch[c] \in {None, Pending} THEN "pending" ELSE "save"
<1>1. /\ UNCHANGED <<session, check, attempt, author, routed, decision, response>>
      /\ dispatch' = IF dispatch[c] = None THEN [dispatch EXCEPT ![c] = Pending] ELSE dispatch
      /\ work' = [work EXCEPT ![w].step = step]
      /\ work[w] # None /\ work[w].step = "run"
      /\ check[c] = "running" /\ attempt[c] = work[w].attempt
  BY Zenon DEF Execute, sessionVars, policyVars, worldVars, Step, Current
<1>2. work[w] \in Delivery /\ c \in Checks /\ Runnable(c)
  BY <1>0, <1>1, Zenon DEF WorkflowIInv, WorkflowTypeOK, Delivery, WorkInv, DeliveryInv
<1>3. [work[w] EXCEPT !.step = step] \in Delivery
  <2>1. step \in {"run", "skip", "pending", "save"}
    BY Zenon
  <2> QED  BY <1>2, <2>1, Zenon DEF Delivery
<1>4. work' = [work EXCEPT ![w] = [work[w] EXCEPT !.step = step]]
  BY <1>1, Zenon
<1>5. WorkflowTypeOK'
  BY <1>1, <1>2, <1>3, <1>4, DispatchRows DEF WorkflowIInv, WorkflowTypeOK
<1>6. /\ \A d \in Checks : dispatch[d] # None => dispatch'[d] = dispatch[d]
      /\ \A d \in Checks \ {c} : dispatch'[d] = dispatch[d]
      /\ dispatch'[c] # None
  BY <1>1, <1>2, DispatchRows DEF WorkflowIInv, WorkflowTypeOK
<1>7. FinishedLasts /\ \A d \in Checks : Lawful(d)
  BY <1>1, <1>6 DEF FinishedLasts, Lawful, WorkflowIInv, WorkflowTypeOK
<1>8. DeliveryInv(w)'
  <2>1. work'[w] = [work[w] EXCEPT !.step = step]
    BY <1>4, Zenon DEF WorkflowIInv, WorkflowTypeOK
  <2>2. /\ work'[w].check = c /\ work'[w].attempt = work[w].attempt
        /\ work'[w].step = step
    BY <1>2, <2>1, Zenon DEF Delivery
  <2>3. Runnable(c)'
    BY <1>2, <1>7, RoutesLast, Zenon
  <2>4. step = "save" => dispatch'[c] # None /\ dispatch'[c].outcome \in Outcomes
    BY <1>1, <1>2, DispatchRows, Zenon DEF WorkflowIInv, WorkflowTypeOK
  <2>5. work[w].attempt <= attempt'[c] /\ check'[c] # "none"
    BY <1>1, <1>2 DEF WorkflowIInv, WorkflowTypeOK
  <2> QED  BY <2>2, <2>3, <2>4, <2>5, Zenon DEF DeliveryInv
<1>9. WorkInv'
  BY <1>4, <1>5, <1>7, <1>8, OthersLast, Zenon
<1>10. RouteInv'
  <2>1. Runnable(c)'
    BY <1>2, <1>7, RoutesLast, Zenon
  <2> QED  BY <1>1, <1>6, <1>7, <2>1, RoutesLast DEF WorkflowIInv, RouteInv
<1>11. CancelInv'
  BY <1>1, <1>6, Zenon
     DEF WorkflowIInv, CancelInv, CancelledHoldsReservations, MayExecute, MayProcess
<1> QED
  BY <1>1, <1>5, <1>9, <1>10, <1>11, AuthorUnchanged, CompletionUnchanged DEF WorkflowIInv

LEMMA ExecuteKeeps ==
    ASSUME WorkflowIInv, NEW w \in Workers, Execute(w)
    PROVE  WorkflowIInv'
<1>1. CASE MayExecute /\ HasRequest(work[w]) /\ Current(work[w])
  BY <1>1, ClaimKeeps, Zenon
<1>2. CASE ~(MayExecute /\ HasRequest(work[w]) /\ Current(work[w]))
  <2>1. /\ UNCHANGED <<session, check, attempt, dispatch, author, routed, decision, response>>
        /\ work' = [work EXCEPT ![w] = None]
    BY <1>2, Zenon DEF Execute, sessionVars, policyVars, worldVars
  <2>2. WorkflowTypeOK'
    BY <2>1, Zenon DEF WorkflowIInv, WorkflowTypeOK
  <2>3. WorkInv'
    BY <2>1, <2>2, EndOfDelivery, UnchangedFinished, LawfulUnchanged, Zenon
  <2> QED
    BY <2>1, <2>2, <2>3, RouteUnchanged, AuthorUnchanged, CancelUnchanged, CompletionUnchanged, Zenon
       DEF WorkflowIInv
<1> QED  BY <1>1, <1>2, Zenon

LEMMA AnswerKeeps ==
    ASSUME WorkflowIInv, Answer
    PROVE  WorkflowIInv'
<1> PICK c \in Checks, o \in Outcomes :
      /\ dispatch[c] = Pending
      /\ dispatch' = [dispatch EXCEPT ![c] = [outcome |-> o, seen |-> response]]
      /\ UNCHANGED <<sessionVars, check, attempt, observed, policyVars, taskVars, worldVars>>
  BY Zenon DEF Answer
<1>1. UNCHANGED <<session, check, attempt, work, author, routed, decision, response>>
  BY Zenon DEF sessionVars, policyVars, taskVars, worldVars
<1>2. [outcome |-> o, seen |-> response] \in Dispatch
  BY Zenon DEF WorkflowIInv, WorkflowTypeOK, Dispatch
<1>3. WorkflowTypeOK'
  BY <1>1, <1>2, Zenon DEF WorkflowIInv, WorkflowTypeOK
<1>4. /\ dispatch'[c] = [outcome |-> o, seen |-> response]
      /\ \A d \in Checks \ {c} : dispatch'[d] = dispatch[d]
  BY Zenon DEF WorkflowIInv, WorkflowTypeOK
<1>5. dispatch[c] # None /\ dispatch'[c] # None /\ dispatch'[c].outcome \in Outcomes
  BY <1>2, <1>4, DispatchRows
<1>6. FinishedLasts /\ \A d \in Checks : Lawful(d)
  BY <1>1, <1>4, <1>5 DEF FinishedLasts, Lawful, WorkflowIInv, WorkflowTypeOK
<1>7. WorkInv'
  BY <1>1, <1>3, <1>6, DeliveryLasts, Zenon DEF WorkInv
<1>8. RouteInv'
  BY <1>1, <1>4, <1>5, <1>6, RoutesLast, Zenon DEF WorkflowIInv, RouteInv
<1>9. CancelInv'
  <2>1. Pending.outcome # "cancelled"
    BY DEF Pending
  <2>2. check[c] # "cancelled"
    BY <1>5, <2>1, Zenon DEF WorkflowIInv, CancelInv
  <2> QED
    BY <1>1, <1>4, <1>5, <2>2, Zenon DEF WorkflowIInv, CancelInv, CancelledHoldsReservations
<1> QED
  BY <1>1, <1>3, <1>7, <1>8, <1>9, AuthorUnchanged, CompletionUnchanged, Zenon DEF WorkflowIInv

LEMMA EnterKeeps ==
    ASSUME WorkflowIInv, NEW w \in Workers, Enter(w)
    PROVE  WorkflowIInv'
<1>1. /\ UNCHANGED <<check, attempt, dispatch, author, routed, decision, response>>
      /\ work' = [work EXCEPT ![w] = None]
      /\ UNCHANGED session \/ MoveAlone("awaiting_external")
  BY Zenon DEF Enter, Advance, MoveAlone, Terminal, checkVars, policyVars, worldVars
<1>2. WorkflowTypeOK'
  BY <1>1, MoveTypes, Zenon DEF WorkflowIInv, WorkflowTypeOK
<1>3. WorkInv'
  BY <1>1, <1>2, EndOfDelivery, UnchangedFinished, LawfulUnchanged, Zenon
<1>4. AuthorInv' /\ CancelInv' /\ CompletionIsEarned'
  BY <1>1, AuthorUnchanged, CancelUnchanged, CompletionUnchanged, MoveKeepsAuthor,
     MoveKeepsCancel, MoveKeepsCompletion, Zenon
<1> QED  BY <1>1, <1>2, <1>3, <1>4, RouteUnchanged, Zenon DEF WorkflowIInv

(***************************************************************************)
(* While a check is still running nothing has been authored: a step of an  *)
(* executing session that stays executing keeps what was decided.          *)
(***************************************************************************)
LEMMA ExecutingKeeps ==
    ASSUME WorkflowIInv, MayExecute, ~Ready, UNCHANGED <<author, routed, decision>>,
           session'.state \in {"processing", "awaiting_external"},
           \A d \in Checks : check'[d] = "cancelled" =>
             dispatch'[d] # None /\ dispatch'[d].outcome = "cancelled"
    PROVE  AuthorInv' /\ CancelInv' /\ CompletionIsEarned'
<1>1. session.state \in {"processing", "awaiting_external"}
  BY Zenon DEF MayExecute, MayProcess
<1>2. AuthorInv'
  BY <1>1, Zenon DEF WorkflowIInv, AuthorInv
<1>3. CancelInv'
  BY <1>1, Zenon DEF WorkflowIInv, CancelInv, CancelledHoldsReservations
<1>4. CompletionIsEarned'
  BY <1>1, Zenon DEF WorkflowIInv, CompletionIsEarned
<1> QED  BY <1>2, <1>3, <1>4, Zenon

LEMMA SkipKeeps ==
    ASSUME WorkflowIInv, NEW w \in Workers, Skip(w)
    PROVE  WorkflowIInv'
<1>0. work[w] \in Delivery
  BY Zenon DEF Skip, Step, WorkflowIInv, WorkflowTypeOK
<1> PICK c \in Checks : c = work[w].check
  BY <1>0, Zenon DEF Delivery
<1>1. /\ UNCHANGED <<session, attempt, dispatch, author, routed, decision, response>>
      /\ work' = [work EXCEPT ![w] = None]
  BY Zenon DEF Skip, sessionVars, policyVars, worldVars
<1>2. CASE MayExecute /\ RouteAdmission(c) = "skip" /\ check[c] = "running"
  <2>1. check' = [check EXCEPT ![c] = "skipped_by_policy"]
    BY <1>2, Zenon DEF Skip
  <2>2. WorkflowTypeOK'
    BY <1>1, <2>1, Zenon DEF WorkflowIInv, WorkflowTypeOK, CheckStates, TerminalStates
  <2>3. /\ check'[c] = "skipped_by_policy"
        /\ \A d \in Checks \ {c} : check'[d] = check[d]
    BY <2>1, Zenon DEF WorkflowIInv, WorkflowTypeOK
  <2>4. FinishedLasts /\ \A d \in Checks : Lawful(d)
    BY <1>1, <1>2, <2>3
       DEF FinishedLasts, Lawful, TerminalCheck, TerminalStates, WorkflowIInv, WorkflowTypeOK
  <2>5. WorkInv'
    BY <1>1, <2>2, <2>4, EndOfDelivery, Zenon
  <2>6. RouteInv'
    <3>1. Skippable(c)'
      BY <1>2, <2>4, AdmissionIsSound, RoutesLast, Zenon
    <3> QED  BY <1>1, <2>3, <2>4, <3>1, RoutesLast, Zenon DEF WorkflowIInv, RouteInv
  <2>7. ~Ready /\ session'.state \in {"processing", "awaiting_external"}
    BY <1>1, <1>2, Zenon DEF Ready, TerminalCheck, TerminalStates, MayExecute, MayProcess
  <2>8. \A d \in Checks : check'[d] = "cancelled" =>
          dispatch'[d] # None /\ dispatch'[d].outcome = "cancelled"
    BY <1>1, <2>3, <2>7, Zenon DEF WorkflowIInv, CancelInv
  <2> QED  BY <1>1, <1>2, <2>2, <2>5, <2>6, <2>7, <2>8, ExecutingKeeps, Zenon DEF WorkflowIInv
<1>3. CASE ~(MayExecute /\ RouteAdmission(c) = "skip" /\ check[c] = "running")
  <2>1. UNCHANGED check
    BY <1>3, Zenon DEF Skip
  <2>2. WorkflowTypeOK'
    BY <1>1, <2>1, Zenon DEF WorkflowIInv, WorkflowTypeOK
  <2>3. WorkInv'
    BY <1>1, <2>1, <2>2, EndOfDelivery, UnchangedFinished, LawfulUnchanged, Zenon
  <2> QED
    BY <1>1, <2>1, <2>2, <2>3, RouteUnchanged, AuthorUnchanged, CancelUnchanged,
       CompletionUnchanged, Zenon DEF WorkflowIInv
<1> QED  BY <1>2, <1>3, Zenon

(***************************************************************************)
(* An accepted result ends the check or begins the successor attempt.      *)
(***************************************************************************)
Ends(c) ==
    /\ \E o \in {"completed", "failed", "timed_out", "cancelled"} :
         /\ check' = [check EXCEPT ![c] = o]
         /\ o = "cancelled" => dispatch[c].outcome = "cancelled"
    /\ UNCHANGED <<attempt, dispatch>>

Retries(c) ==
    /\ attempt' = [attempt EXCEPT ![c] = @ + 1]
    /\ dispatch' = [dispatch EXCEPT ![c] = None]
    /\ UNCHANGED check

LEMMA ApplyKeeps ==
    ASSUME WorkflowIInv, NEW c \in Checks, check[c] = "running", Runnable(c),
           Ends(c) \/ Retries(c), WorkflowTypeOK'
    PROVE  /\ FinishedLasts /\ (\A d \in Checks : Lawful(d)) /\ RouteInv'
           /\ \A d \in Checks : check'[d] = "cancelled" =>
                \/ check[d] = "cancelled" /\ dispatch'[d] = dispatch[d]
                \/ d = c /\ dispatch'[c] = dispatch[c] /\ dispatch[c].outcome = "cancelled"
<1>1. CASE Ends(c)
  <2>1. /\ check'[c] \in {"completed", "failed", "timed_out", "cancelled"}
        /\ check'[c] = "cancelled" => dispatch[c].outcome = "cancelled"
        /\ \A d \in Checks \ {c} : check'[d] = check[d]
        /\ UNCHANGED <<attempt, dispatch>>
    BY <1>1 DEF Ends, WorkflowIInv, WorkflowTypeOK
  <2>2. FinishedLasts /\ \A d \in Checks : Lawful(d)
    BY <2>1
       DEF FinishedLasts, Lawful, TerminalCheck, TerminalStates, WorkflowIInv, WorkflowTypeOK
  <2>3. RouteInv'
    BY <2>1, <2>2, RoutesLast, Zenon DEF WorkflowIInv, RouteInv
  <2> QED  BY <2>1, <2>2, <2>3, Zenon
<1>2. CASE Retries(c)
  <2>1. /\ attempt'[c] = attempt[c] + 1 /\ dispatch'[c] = None /\ UNCHANGED check
        /\ \A d \in Checks \ {c} : attempt'[d] = attempt[d] /\ dispatch'[d] = dispatch[d]
    BY <1>2 DEF Retries, WorkflowIInv, WorkflowTypeOK
  <2>2. FinishedLasts /\ \A d \in Checks : Lawful(d)
    BY <2>1 DEF FinishedLasts, Lawful, WorkflowIInv, WorkflowTypeOK
  <2>3. RouteInv'
    BY <2>1, <2>2, RoutesLast, Zenon DEF WorkflowIInv, RouteInv
  <2> QED  BY <2>1, <2>2, <2>3, Zenon
<1> QED  BY <1>1, <1>2

LEMMA CommitKeeps ==
    ASSUME WorkflowIInv, NEW w \in Workers, Commit(w)
    PROVE  WorkflowIInv'
<1>0. work[w] \in Delivery /\ work[w] # None /\ work[w].step = "save"
  BY Zenon DEF Commit, Step, WorkflowIInv, WorkflowTypeOK
<1> PICK c \in Checks : c = work[w].check
  BY <1>0, Zenon DEF Delivery
<1>1. /\ UNCHANGED <<author, routed, decision, response>>
      /\ work' = [work EXCEPT ![w] = None]
  BY Zenon DEF Commit, policyVars, worldVars
<1>2. CASE /\ MayExecute /\ Current(work[w]) /\ dispatch[c].seen = response
           /\ ~UNCHANGED <<checkVars, session>>
  <2>1. check[c] = "running" /\ attempt[c] = work[w].attempt
    BY <1>2, Zenon DEF Current
  <2>2. Runnable(c) /\ dispatch[c].outcome \in Outcomes /\ dispatch[c] # None
    BY <1>0, <2>1, Zenon DEF WorkflowIInv, WorkInv, DeliveryInv
  <2>3. Apply(c, dispatch[c].outcome) /\ Leave
    BY <1>2, Zenon DEF Commit
  <2>4. Ends(c) \/ Retries(c)
    <3>1. dispatch[c].outcome \in {"completed", "failed", "timed_out", "cancelled", "retryable"}
      BY <2>2, WorkflowConstants, Zenon
    <3> QED  BY <2>3, <3>1, Zenon DEF Apply, Ends, Retries
  <2>5. session.state \in {"processing", "awaiting_external"}
    BY <1>2, Zenon DEF MayExecute, MayProcess
  <2>6. UNCHANGED session \/ MoveAlone("processing")
    BY <2>3, <2>5, Zenon DEF Leave, Advance, MoveAlone, Terminal
  <2>7. /\ session' \in [state : SessionStates \ {"created"}, version : Nat]
        /\ session'.state \in {"processing", "awaiting_external"}
    BY <2>5, <2>6, MoveTypes, Zenon DEF WorkflowIInv, WorkflowTypeOK
  <2>8. check' \in [Checks -> CheckStates]
    BY <2>4, Zenon DEF Ends, Retries, WorkflowIInv, WorkflowTypeOK, CheckStates, TerminalStates
  <2>9. attempt' \in [Checks -> Nat] /\ dispatch' \in [Checks -> Dispatch \cup {None}]
    BY <2>4 DEF Ends, Retries, WorkflowIInv, WorkflowTypeOK
  <2>10. WorkflowTypeOK'
    BY <1>1, <2>7, <2>8, <2>9, Zenon DEF WorkflowIInv, WorkflowTypeOK
  <2>11. /\ FinishedLasts /\ (\A d \in Checks : Lawful(d)) /\ RouteInv'
         /\ \A d \in Checks : check'[d] = "cancelled" =>
              dispatch'[d] # None /\ dispatch'[d].outcome = "cancelled"
    <3>1. /\ FinishedLasts /\ (\A d \in Checks : Lawful(d)) /\ RouteInv'
          /\ \A d \in Checks : check'[d] = "cancelled" =>
               \/ check[d] = "cancelled" /\ dispatch'[d] = dispatch[d]
               \/ d = c /\ dispatch'[c] = dispatch[c] /\ dispatch[c].outcome = "cancelled"
      BY <2>1, <2>2, <2>4, <2>10, ApplyKeeps, Zenon
    <3>2. \A d \in Checks : check[d] = "cancelled" =>
            dispatch[d] # None /\ dispatch[d].outcome = "cancelled"
      BY <2>5, Zenon DEF WorkflowIInv, CancelInv
    <3> QED  BY <2>2, <3>1, <3>2, Zenon
  <2>12. WorkInv'
    BY <1>1, <2>10, <2>11, EndOfDelivery, Zenon
  <2>13. ~Ready
    BY <2>1 DEF Ready, TerminalCheck, TerminalStates
  <2> QED  BY <1>1, <1>2, <2>7, <2>10, <2>11, <2>12, <2>13, ExecutingKeeps, Zenon DEF WorkflowIInv
<1>3. CASE UNCHANGED <<checkVars, session>>
  <2>1. UNCHANGED <<session, check, attempt, dispatch>>
    BY <1>3, Zenon DEF checkVars
  <2>2. WorkflowTypeOK'
    BY <1>1, <2>1, Zenon DEF WorkflowIInv, WorkflowTypeOK
  <2>3. WorkInv'
    BY <1>1, <2>1, <2>2, EndOfDelivery, UnchangedFinished, LawfulUnchanged, Zenon
  <2> QED
    BY <1>1, <2>1, <2>2, <2>3, RouteUnchanged, AuthorUnchanged, CancelUnchanged,
       CompletionUnchanged, Zenon DEF WorkflowIInv
<1> QED  BY <1>2, <1>3, Zenon DEF Commit

LEMMA EvaluateKeeps ==
    ASSUME WorkflowIInv, NEW a \in Authors, Evaluate(a)
    PROVE  WorkflowIInv'
<1> PICK v \in Verdicts :
      /\ Ready
      /\ author' = [author EXCEPT ![a] = [facts |-> check, seen |-> response, verdict |-> v]]
      /\ UNCHANGED <<sessionVars, checkVars, policyVars, work, client, worldVars>>
  BY Zenon DEF Evaluate
<1>1. UNCHANGED <<session, check, attempt, dispatch, work, routed, decision, response>>
  BY Zenon DEF sessionVars, checkVars, policyVars, worldVars
<1>2. [facts |-> check, seen |-> response, verdict |-> v] \in Evaluation
  BY Zenon DEF WorkflowIInv, WorkflowTypeOK, Evaluation
<1>3. WorkflowTypeOK'
  BY <1>1, <1>2, Zenon DEF WorkflowIInv, WorkflowTypeOK
<1>4. \A b \in Authors : author'[b] # None => author'[b].facts = check
  BY Zenon DEF WorkflowIInv, WorkflowTypeOK, AuthorInv
<1>5. AuthorInv'
  BY <1>1, <1>4, Zenon DEF WorkflowIInv, AuthorInv, Ready
<1> QED
  BY <1>1, <1>3, <1>5, RouteUnchanged, WorkUnchanged, CancelUnchanged, CompletionUnchanged
     DEF WorkflowIInv

(***************************************************************************)
(* A decision or a route, written from facts that are final.               *)
(***************************************************************************)
LEMMA CompleteKeeps ==
    ASSUME WorkflowIInv, NEW facts, facts = check, Ready, AppendAndComplete(facts),
           session.state \in {"processing", "manual_review"},
           UNCHANGED <<check, attempt, dispatch, work, response>>,
           author' \in [Authors -> Evaluation \cup {None}],
           \A a \in Authors : author'[a] \in {None, author[a]}
    PROVE  WorkflowIInv'
<1>1. /\ session' = [state |-> "completed", version |-> session.version + 1]
      /\ decision' = check /\ UNCHANGED routed
  BY Zenon DEF AppendAndComplete, Advance
<1>2. WorkflowTypeOK' /\ session'.state = "completed"
  BY <1>1 DEF WorkflowIInv, WorkflowTypeOK, SessionStates
<1>3. decision' # None /\ routed \in {None, "manual_review"}
  BY <1>1, WorkflowConstants DEF WorkflowIInv, WorkflowTypeOK, AuthorInv
<1>4. AuthorInv'
  BY <1>1, <1>2, Zenon DEF WorkflowIInv, AuthorInv, Ready
<1>5. CancelInv'
  BY <1>2, Zenon DEF WorkflowIInv, CancelInv, CancelledHoldsReservations
<1>6. CompletionIsEarned'
  BY <1>1, <1>2, <1>3, Zenon DEF CompletionIsEarned, Ready
<1> QED  BY <1>2, <1>4, <1>5, <1>6, RouteUnchanged, WorkUnchanged DEF WorkflowIInv

LEMMA RouteKeeps ==
    ASSUME WorkflowIInv, NEW target \in Verdicts, target # "completed", Ready,
           RouteWithin(target), session.state = "processing",
           UNCHANGED <<check, attempt, dispatch, work, response>>,
           author' \in [Authors -> Evaluation \cup {None}],
           \A a \in Authors : author'[a] \in {None, author[a]}
    PROVE  WorkflowIInv'
<1>1. /\ session' = [state |-> target, version |-> session.version + 1]
      /\ routed' = target /\ UNCHANGED decision
      /\ target \in {"awaiting_input", "manual_review", "failed"}
  BY WorkflowConstants DEF RouteWithin, Advance
<1>2. WorkflowTypeOK' /\ session'.state = target
  BY <1>1 DEF WorkflowIInv, WorkflowTypeOK, SessionStates
<1>3. AuthorInv'
  BY <1>1, <1>2, Zenon DEF WorkflowIInv, AuthorInv, Ready
<1>4. CancelInv'
  BY <1>1, <1>2, Zenon DEF WorkflowIInv, CancelInv, CancelledHoldsReservations
<1>5. CompletionIsEarned'
  BY <1>1, <1>2, Zenon DEF WorkflowIInv, CompletionIsEarned
<1> QED  BY <1>2, <1>3, <1>4, <1>5, RouteUnchanged, WorkUnchanged, Zenon DEF WorkflowIInv

LEMMA DropKeeps ==
    ASSUME WorkflowIInv,
           UNCHANGED <<session, check, attempt, dispatch, work, routed, decision, response>>,
           author' \in [Authors -> Evaluation \cup {None}],
           \A a \in Authors : author'[a] \in {None, author[a]}
    PROVE  WorkflowIInv'
<1>1. WorkflowTypeOK'
  BY DEF WorkflowIInv, WorkflowTypeOK
<1>2. AuthorInv'
  BY Zenon DEF WorkflowIInv, AuthorInv, Ready
<1> QED
  BY <1>1, <1>2, RouteUnchanged, WorkUnchanged, CancelUnchanged, CompletionUnchanged, Zenon
     DEF WorkflowIInv

LEMMA AuthorKeeps ==
    ASSUME WorkflowIInv, NEW a \in Authors, Author(a) \/ AuthorCrash(a)
    PROVE  WorkflowIInv'
<1>1. /\ UNCHANGED <<check, attempt, dispatch, work, response>> /\ author[a] # None
      /\ author' = [author EXCEPT ![a] = None]
  BY Zenon DEF Author, AuthorCrash, checkVars, worldVars
<1>2. /\ author' \in [Authors -> Evaluation \cup {None}]
      /\ \A b \in Authors : author'[b] \in {None, author[b]}
  BY <1>1, Zenon DEF WorkflowIInv, WorkflowTypeOK
<1>3. author[a] \in Evaluation /\ author[a].verdict \in Verdicts
  BY <1>1, Zenon DEF WorkflowIInv, WorkflowTypeOK, Evaluation
<1>4. author[a].facts = check /\ Ready
  BY <1>1, Zenon DEF WorkflowIInv, AuthorInv
<1>5. CASE UNCHANGED <<session, routed, decision>>
  BY <1>1, <1>2, <1>5, DropKeeps, Zenon
<1>6. CASE /\ MayTakeEffect(author[a]) /\ author[a].verdict = "completed"
           /\ AppendAndComplete(author[a].facts)
  <2>1. session.state = "processing"
    BY <1>6, Zenon DEF MayTakeEffect, MayComplete, MayProcess
  <2> QED  BY <1>1, <1>2, <1>4, <1>6, <2>1, CompleteKeeps, Zenon
<1>7. CASE /\ MayTakeEffect(author[a]) /\ author[a].verdict # "completed"
           /\ RouteWithin(author[a].verdict)
  <2>1. session.state = "processing"
    BY <1>7, Zenon DEF MayTakeEffect, MayProcess
  <2> PICK target \in Verdicts : target = author[a].verdict
    BY <1>3, Zenon
  <2>2. target # "completed" /\ RouteWithin(target)
    BY <1>7, Zenon
  <2> QED  BY <1>1, <1>2, <1>4, <2>1, <2>2, RouteKeeps
<1>8. AuthorCrash(a) => UNCHANGED <<session, routed, decision>>
  BY Zenon DEF AuthorCrash, sessionVars, policyVars
<1>9. Author(a) /\ ~MayTakeEffect(author[a]) => UNCHANGED <<session, routed, decision>>
  BY Zenon DEF Author, policyVars
<1>10. Author(a) /\ MayTakeEffect(author[a]) =>
         IF author[a].verdict = "completed" THEN AppendAndComplete(author[a].facts)
                                            ELSE RouteWithin(author[a].verdict)
  BY Zenon DEF Author
<1> QED  BY <1>5, <1>6, <1>7, <1>8, <1>9, <1>10, Zenon

LEMMA ReviewKeeps ==
    ASSUME WorkflowIInv, Review
    PROVE  WorkflowIInv'
<1>1. /\ UNCHANGED <<check, attempt, dispatch, work, author, response>>
      /\ AppendAndComplete(check) /\ session.state = "manual_review" /\ Ready
  BY Zenon DEF Review, MayComplete, MayProcess, checkVars, taskVars, worldVars
<1>2. /\ author' \in [Authors -> Evaluation \cup {None}]
      /\ \A b \in Authors : author'[b] \in {None, author[b]}
  BY <1>1, Zenon DEF WorkflowIInv, WorkflowTypeOK
<1> QED  BY <1>1, <1>2, CompleteKeeps, Zenon

(***************************************************************************)
(* A cancellation closes exactly the checks without a dispatch row.        *)
(***************************************************************************)
LEMMA CancelKeeps ==
    ASSUME WorkflowIInv, CancelUndispatched, Advance("cancelled"), ~Terminal(session.state),
           UNCHANGED <<attempt, dispatch, work, author, routed, decision, response>>
    PROVE  WorkflowIInv'
<1>1. session' = [state |-> "cancelled", version |-> session.version + 1]
  BY Zenon DEF Advance
<1>2. \A c \in Checks : check'[c] = IF check[c] = "running" /\ dispatch[c] = None
                                      THEN "cancelled" ELSE check[c]
  BY Zenon DEF CancelUndispatched
<1>3. check' \in [Checks -> CheckStates]
  BY Zenon DEF CancelUndispatched, WorkflowIInv, WorkflowTypeOK, CheckStates, TerminalStates
<1>4. WorkflowTypeOK' /\ session'.state = "cancelled"
  BY <1>1, <1>3 DEF WorkflowIInv, WorkflowTypeOK, SessionStates
<1>5. FinishedLasts /\ \A d \in Checks : Lawful(d)
  BY <1>2 DEF FinishedLasts, Lawful, TerminalCheck, TerminalStates, WorkflowIInv, WorkflowTypeOK
<1>6. RouteInv'
  BY <1>2, <1>5, RoutesLast, Zenon DEF WorkflowIInv, RouteInv
<1>7. WorkInv'
  BY <1>4, <1>5, DeliveryLasts DEF WorkInv
<1>8. AuthorInv'
  <2>1. Ready => Ready' /\ check' = check
    BY <1>4, <1>5, ReadyLasts, Zenon DEF WorkflowIInv
  <2> QED  BY <1>4, <2>1, Zenon DEF WorkflowIInv, AuthorInv
<1>9. CancelInv'
  <2>1. \A c \in Checks : check[c] = "cancelled" =>
          dispatch[c] # None /\ dispatch[c].outcome = "cancelled"
    BY Zenon DEF WorkflowIInv, CancelInv, Terminal
  <2> QED  BY <1>2, <1>4, <2>1, Zenon DEF CancelInv, CancelledHoldsReservations
<1>10. CompletionIsEarned'
  BY <1>4, Zenon DEF WorkflowIInv, CompletionIsEarned, Terminal
<1> QED  BY <1>4, <1>6, <1>7, <1>8, <1>9, <1>10, Zenon DEF WorkflowIInv

LEMMA MoveAloneKeeps ==
    ASSUME WorkflowIInv, NEW to, MoveAlone(to),
           UNCHANGED <<check, attempt, dispatch, work, author, routed, decision, response>>
    PROVE  WorkflowIInv'
<1>1. WorkflowTypeOK'
  BY MoveTypes, Zenon DEF WorkflowIInv, WorkflowTypeOK
<1> QED
  BY <1>1, RouteUnchanged, WorkUnchanged, MoveKeepsAuthor, MoveKeepsCancel,
     MoveKeepsCompletion, Zenon DEF WorkflowIInv

LEMMA ClientKeeps ==
    ASSUME WorkflowIInv, NEW u \in Clients, Read(u) \/ Cancel(u) \/ Resume(u)
    PROVE  WorkflowIInv'
<1>1. CASE Read(u)
  <2>1. UNCHANGED <<session, check, attempt, dispatch, work, author, routed, decision, response>>
    BY <1>1, Zenon DEF Read, sessionVars, checkVars, policyVars, worldVars
  <2> QED  BY <2>1, QuietKeeps, Zenon DEF WorkflowIInv, WorkflowTypeOK
<1>2. CASE Cancel(u)
  <2>1. UNCHANGED <<attempt, dispatch, work, author, routed, decision, response>>
    BY <1>2, Zenon DEF Cancel, policyVars, worldVars
  <2> QED  BY <1>2, <2>1, CancelKeeps, Zenon DEF Cancel
<1>3. CASE Resume(u)
  <2>1. UNCHANGED <<check, attempt, dispatch, work, author, routed, decision, response>>
    BY <1>3, Zenon DEF Resume, checkVars, policyVars, worldVars
  <2>2. MoveAlone("collecting")
    BY <1>3, Zenon DEF Resume, MayProcess, Advance, MoveAlone, Terminal
  <2> QED  BY <2>1, <2>2, MoveAloneKeeps, Zenon
<1> QED  BY <1>1, <1>2, <1>3, Zenon

LEMMA WorldKeeps ==
    ASSUME WorkflowIInv, CompleteCapture \/ Respond \/ Withdraw \/ Deadline \/ UNCHANGED vars
    PROVE  WorkflowIInv'
<1>1. UNCHANGED <<session, check, attempt, dispatch, work, author, routed, decision>>
  BY Zenon DEF CompleteCapture, Respond, Withdraw, Deadline, vars, sessionVars, checkVars,
         policyVars, taskVars
<1>2. response' \in Nat
  BY DEF CompleteCapture, Respond, Withdraw, Deadline, vars, worldVars, WorkflowIInv,
         WorkflowTypeOK
<1> QED  BY <1>1, <1>2, QuietKeeps, Zenon

LEMMA StopKeeps ==
    ASSUME WorkflowIInv, CancelForDeletion \/ Expire
    PROVE  WorkflowIInv'
<1>1. /\ UNCHANGED <<attempt, dispatch, work, author, routed, decision, response>>
      /\ ~Terminal(session.state)
      /\ \/ Advance("expired") /\ UNCHANGED check
         \/ Advance("cancelled") /\ CancelUndispatched
  BY Zenon DEF CancelForDeletion, Expire, checkVars, policyVars, taskVars, worldVars
<1>2. CASE Advance("expired") /\ UNCHANGED check
  <2>1. MoveAlone("expired")
    BY <1>1, <1>2, Zenon DEF Advance, MoveAlone
  <2> QED  BY <1>1, <1>2, <2>1, MoveAloneKeeps, Zenon
<1>3. CASE Advance("cancelled") /\ CancelUndispatched
  BY <1>1, <1>3, CancelKeeps, Zenon
<1> QED  BY <1>1, <1>2, <1>3, Zenon

LEMMA InitHolds == Init => WorkflowIInv
<1> SUFFICES ASSUME Init  PROVE WorkflowIInv
  BY Zenon
<1>1. session.state = "collecting"
  BY Zenon DEF Init
<1>2. WorkflowTypeOK
  BY Zenon DEF Init, WorkflowTypeOK, SessionStates, CheckStates
<1>3. RouteInv /\ WorkInv
  BY DEF Init, RouteInv, WorkInv, DeliveryInv
<1>4. AuthorInv /\ CancelInv /\ CompletionIsEarned
  BY <1>1, Zenon DEF Init, AuthorInv, CancelInv, CancelledHoldsReservations, CompletionIsEarned
<1> QED  BY <1>2, <1>3, <1>4, Zenon DEF WorkflowIInv

LEMMA NextKeeps == WorkflowIInv /\ [Next]_vars => WorkflowIInv'
<1> SUFFICES ASSUME WorkflowIInv, [Next]_vars  PROVE WorkflowIInv'
  OBVIOUS
<1>1. ASSUME NEW w \in Workers, Deliver(w) \/ Crash(w)  PROVE WorkflowIInv'
  BY <1>1, AdmitKeeps, ExecuteKeeps, EnterKeeps, CommitKeeps, SkipKeeps, CrashKeeps, Zenon
     DEF Deliver
<1>2. ASSUME NEW a \in Authors, Evaluate(a) \/ Author(a) \/ AuthorCrash(a)
      PROVE  WorkflowIInv'
  BY <1>2, EvaluateKeeps, AuthorKeeps, Zenon
<1> QED
  BY <1>1, <1>2, StartKeeps, AnswerKeeps, ReviewKeeps, ClientKeeps, StopKeeps, WorldKeeps, Zenon
     DEF Next

LEMMA Invariance == Spec => []WorkflowIInv
  BY InitHolds, NextKeeps, PTL DEF Spec
-------------------------------------------------------------------------------
(***************************************************************************)
(* The routes of any plan hold under any interleaving of deliveries: a     *)
(* check is dispatched, or gets a second attempt, only with its            *)
(* dependencies completed and its primary come to nothing, and is skipped  *)
(* only for a reason that RouteAdmissionWithin gives.                      *)
(***************************************************************************)
THEOREM RouteCorrect == Spec => []RouteRespected
<1>1. WorkflowIInv => RouteRespected
  BY Zenon DEF WorkflowIInv, RouteInv, RouteRespected, Runnable, Skippable
<1> QED  BY <1>1, Invariance, PTL

(***************************************************************************)
(* A session is completed exactly when its decision exists, the decision   *)
(* rests on the final state of every check, and a session that was routed  *)
(* elsewhere than to review is never completed.                            *)
(***************************************************************************)
THEOREM CompletionCorrect == Spec => []CompletionIsEarned
<1>1. WorkflowIInv => CompletionIsEarned
  BY Zenon DEF WorkflowIInv
<1> QED  BY <1>1, Invariance, PTL

(***************************************************************************)
(* In a cancelled session a check still runs only if it holds a dispatch   *)
(* row, and a cancelled check has none or a runner that reported so,       *)
(* however claims, results and cancellations race.                         *)
(***************************************************************************)
THEOREM CancelledCorrect == Spec => []CancelledHoldsReservations
<1>1. WorkflowIInv => CancelledHoldsReservations
  BY Zenon DEF WorkflowIInv, CancelInv
<1> QED  BY <1>1, Invariance, PTL

Stopped ==
    /\ UNCHANGED <<session, check, attempt, policyVars>>
    /\ \A c \in Checks : dispatch[c] = None => dispatch'[c] = None

LEMMA StoppedStep ==
    ASSUME WorkflowIInv, [Next]_vars, Terminal(session.state)
    PROVE  Stopped
<1>1. session.state \in {"completed", "cancelled", "expired", "failed"}
  BY Zenon DEF Terminal
<1>2. ~MayExecute
  BY <1>1, Zenon DEF MayExecute, MayProcess
<1>3. ASSUME UNCHANGED <<session, check, attempt, dispatch, policyVars>>  PROVE Stopped
  BY <1>3, Zenon DEF Stopped
<1>4. ASSUME NEW w \in Workers, Deliver(w) \/ Crash(w)  PROVE Stopped
  <2>1. UNCHANGED <<session, check, attempt, dispatch, policyVars>>
    BY <1>1, <1>2, <1>4, Zenon
       DEF Deliver, Admit, Execute, Enter, Commit, Skip, Crash, sessionVars, checkVars
  <2> QED  BY <1>3, <2>1, Zenon
<1>5. ASSUME NEW a \in Authors, Evaluate(a) \/ Author(a) \/ AuthorCrash(a)  PROVE Stopped
  <2>1. ~MayTakeEffect(author[a])
    BY <1>1, Zenon DEF MayTakeEffect, MayComplete, MayProcess
  <2>2. UNCHANGED <<session, check, attempt, dispatch, policyVars>>
    BY <1>5, <2>1, Zenon DEF Evaluate, Author, AuthorCrash, sessionVars, checkVars
  <2> QED  BY <1>3, <2>2, Zenon
<1>6. ASSUME NEW u \in Clients, Read(u) \/ Cancel(u) \/ Resume(u)  PROVE Stopped
  <2>1. Read(u)
    BY <1>1, <1>6, Zenon DEF Cancel, Resume, MayProcess, Terminal
  <2>2. UNCHANGED <<session, check, attempt, dispatch, policyVars>>
    BY <2>1, Zenon DEF Read, sessionVars, checkVars
  <2> QED  BY <1>3, <2>2, Zenon
<1>7. ASSUME Answer  PROVE Stopped
  <2>1. PICK c \in Checks, o \in Outcomes :
          /\ dispatch[c] = Pending
          /\ dispatch' = [dispatch EXCEPT ![c] = [outcome |-> o, seen |-> response]]
          /\ UNCHANGED <<sessionVars, check, attempt, observed, policyVars, taskVars, worldVars>>
    BY <1>7, Zenon DEF Answer
  <2>2. \A d \in Checks \ {c} : dispatch'[d] = dispatch[d]
    BY <2>1, Zenon DEF WorkflowIInv, WorkflowTypeOK
  <2>3. dispatch[c] # None
    BY <2>1, DispatchRows, Zenon
  <2>4. UNCHANGED <<session, check, attempt, policyVars>>
    BY <2>1, Zenon DEF sessionVars
  <2> QED  BY <2>2, <2>3, <2>4, Zenon DEF Stopped
<1>8. ASSUME CompleteCapture \/ Respond \/ Withdraw \/ Deadline \/ UNCHANGED vars  PROVE Stopped
  <2>1. UNCHANGED <<session, check, attempt, dispatch, policyVars>>
    BY <1>8, Zenon DEF CompleteCapture, Respond, Withdraw, Deadline, vars, sessionVars, checkVars
  <2> QED  BY <1>3, <2>1, Zenon
<1>9. ~StartProcessing /\ ~Review /\ ~CancelForDeletion /\ ~Expire
  BY <1>1, Zenon
     DEF StartProcessing, MayStart, Review, MayComplete, MayProcess, CancelForDeletion,
              Expire, Terminal
<1> QED  BY <1>4, <1>5, <1>6, <1>7, <1>8, <1>9, Zenon DEF Next

(***************************************************************************)
(* Once a session is terminal no late delivery, author, review, resume or  *)
(* cancellation changes it, its checks or what was decided, and no new     *)
(* dispatch row appears.                                                   *)
(***************************************************************************)
THEOREM StoppedCorrect == Spec => StoppedAcceptsNothing
<1>1. WorkflowIInv /\ [Next]_vars =>
        [Terminal(session.state) =>
           /\ UNCHANGED <<session, check, attempt, policyVars>>
           /\ \A c \in Checks : dispatch[c] = None => dispatch'[c] = None]_vars
  BY StoppedStep, Zenon DEF Stopped
<1> QED  BY <1>1, Invariance, PTL DEF Spec, StoppedAcceptsNothing

(***************************************************************************)
(* Every change of the session row follows an edge of the lifecycle graph  *)
(* and raises the version by one.                                          *)
(***************************************************************************)
Moves ==
    \E to \in SessionStates :
        /\ session' = [state |-> to, version |-> session.version + 1]
        /\ lifecycleEdge(session.state, to)

LEMMA OnlyMoves ==
    ASSUME WorkflowIInv, [Next]_vars
    PROVE  Moves \/ UNCHANGED <<session, decision>>
<1> DEFINE Quiet == UNCHANGED <<session, decision>>
<1>0. session.state \in SessionStates \ {"created"}
  BY Zenon DEF WorkflowIInv, WorkflowTypeOK
<1>1. ASSUME NEW to \in SessionStates, Advance(to), lifecycleEdge(session.state, to)
      PROVE  Moves
  BY <1>1, Zenon DEF Moves, Advance
<1>2. /\ session.state = "collecting" => lifecycleEdge(session.state, "processing")
      /\ session.state = "processing" =>
           \A to \in {"awaiting_external", "awaiting_input", "manual_review", "failed", "completed"} :
             lifecycleEdge(session.state, to)
      /\ session.state = "awaiting_external" => lifecycleEdge(session.state, "processing")
      /\ session.state = "awaiting_input" => lifecycleEdge(session.state, "collecting")
      /\ session.state = "manual_review" => lifecycleEdge(session.state, "completed")
      /\ ~Terminal(session.state) =>
           lifecycleEdge(session.state, "cancelled") /\ lifecycleEdge(session.state, "expired")
  BY <1>0, Zenon DEF lifecycleEdge, WorkflowEdges, Terminal, SessionStates
<1>3. {"collecting", "processing", "awaiting_external", "awaiting_input", "manual_review",
       "failed", "completed", "cancelled", "expired"} \subseteq SessionStates
  BY Zenon DEF SessionStates
<1>4. ASSUME NEW w \in Workers, Deliver(w) \/ Crash(w)  PROVE Moves \/ Quiet
  <2>1. CASE Enter(w)
    BY <1>1, <1>2, <1>3, <2>1, Zenon DEF Enter, policyVars
  <2>2. CASE Commit(w)
    BY <1>1, <1>2, <1>3, <2>2, Zenon DEF Commit, Leave, policyVars
  <2>3. CASE Execute(w) \/ Skip(w) \/ Crash(w) \/ \E c \in Checks : Admit(w, c)
    BY <2>3, Zenon DEF Execute, Skip, Crash, Admit, sessionVars, policyVars
  <2> QED  BY <1>4, <2>1, <2>2, <2>3, Zenon DEF Deliver
<1>5. ASSUME NEW a \in Authors, Evaluate(a) \/ Author(a) \/ AuthorCrash(a)
      PROVE  Moves \/ Quiet
  <2>1. CASE Author(a) /\ MayTakeEffect(author[a])
    <3>1. author[a].verdict \in Verdicts
      BY <2>1, Zenon DEF Author, WorkflowIInv, WorkflowTypeOK, Evaluation
    <3>2. author[a].verdict \in {"completed", "awaiting_input", "manual_review", "failed"}
      BY <3>1, WorkflowConstants, Zenon
    <3>3. session.state = "processing"
      BY <2>1, Zenon DEF MayTakeEffect, MayComplete, MayProcess
    <3>4. Advance(author[a].verdict)
      BY <2>1, Zenon DEF Author, AppendAndComplete, RouteWithin
    <3> QED  BY <1>1, <1>2, <1>3, <3>2, <3>3, <3>4, Zenon
  <2>2. CASE Author(a) /\ ~MayTakeEffect(author[a])
    BY <2>2, Zenon DEF Author, policyVars
  <2>3. CASE Evaluate(a) \/ AuthorCrash(a)
    BY <2>3, Zenon DEF Evaluate, AuthorCrash, sessionVars, policyVars
  <2> QED  BY <1>5, <2>1, <2>2, <2>3, Zenon
<1>6. ASSUME NEW u \in Clients, Read(u) \/ Cancel(u) \/ Resume(u)  PROVE Moves \/ Quiet
  BY <1>1, <1>2, <1>3, <1>6, Zenon DEF Read, Cancel, Resume, MayProcess, sessionVars, policyVars
<1>7. ASSUME CancelForDeletion \/ Expire  PROVE Moves \/ Quiet
  BY <1>1, <1>2, <1>3, <1>7, Zenon DEF CancelForDeletion, Expire
<1>8. ASSUME StartProcessing \/ Review  PROVE Moves \/ Quiet
  BY <1>1, <1>2, <1>3, <1>8, Zenon
     DEF StartProcessing, MayStart, Review, MayComplete, AppendAndComplete, MayProcess
<1>9. ASSUME CompleteCapture \/ Respond \/ Withdraw \/ Deadline \/ Answer \/ UNCHANGED vars
      PROVE  Moves \/ Quiet
  BY <1>9, Zenon
     DEF CompleteCapture, Respond, Withdraw, Deadline, Answer, vars, sessionVars, policyVars
<1> QED  BY <1>4, <1>5, <1>6, <1>7, <1>8, <1>9, Zenon DEF Next

(***************************************************************************)
(* The handlers together implement SessionContract: the row moves along    *)
(* the lifecycle graph, one version at a time, and names a decision        *)
(* exactly when it is completed.                                           *)
(***************************************************************************)
THEOREM WorkflowRefinement == Spec => ImplementsContract
<1>1. Init => Contract!ContractInit
  BY DEF Init, Contract!ContractInit
<1>2. WorkflowIInv /\ WorkflowIInv' /\ [Next]_vars => [Contract!Move]_(Contract!contractVars)
  <2> SUFFICES ASSUME WorkflowIInv, WorkflowIInv', [Next]_vars
               PROVE  [Contract!Move]_(Contract!contractVars)
    BY Zenon
  <2>1. CASE Moves
    <3>1. /\ session'.version = session.version + 1
          /\ lifecycleEdge(session.state, session'.state)
      BY <2>1 DEF Moves
    <3>2. (decision' # None) = (session'.state = "completed")
      BY Zenon DEF WorkflowIInv, CompletionIsEarned
    <3>3. Contract!lifecycleEdge(session.state, session'.state)
      BY <3>1, Zenon DEF Contract!lifecycleEdge, lifecycleEdge, Contract!WorkflowEdges,
           WorkflowEdges, Contract!SessionStates, SessionStates, Contract!Terminal, Terminal
    <3> QED  BY <3>1, <3>2, <3>3, Zenon DEF Contract!Move
  <2>2. CASE UNCHANGED <<session, decision>>
    BY <2>2, Zenon DEF Contract!contractVars
  <2> QED  BY <2>1, <2>2, OnlyMoves, Zenon
<1> QED
  BY <1>1, <1>2, Invariance, PTL DEF Spec, ImplementsContract, Contract!ContractSpec

-------------------------------------------------------------------------------
(***************************************************************************)
(* The handlers implement the contract of the session's checks.  A step    *)
(* that leaves the checks alone may close the session.                     *)
(***************************************************************************)
LEMMA ChecksAlone ==
    ASSUME WorkflowIInv, ~Terminal(session.state), UNCHANGED <<check, attempt>>
    PROVE  [CheckPromise!ChecksNext]_(CheckPromise!checkContractVars)
<1>1. CASE Terminal(session'.state)
  <2>1. check' = [c \in Checks |-> IF c \in {} THEN "cancelled" ELSE check[c]]
    BY DEF WorkflowIInv, WorkflowTypeOK
  <2>2. {} \in SUBSET {c \in Checks : check[c] = "running"}
    BY Zenon
  <2>3. (~Terminal(session.state))' = FALSE
    BY <1>1, Zenon DEF Terminal
  <2> QED  BY <2>1, <2>2, <2>3, Zenon DEF CheckPromise!CloseSession, CheckPromise!ChecksNext
<1>2. CASE ~Terminal(session'.state)
  <2>1. (~Terminal(session.state))' = (~Terminal(session.state))
    BY <1>2, Zenon DEF Terminal
  <2> QED  BY <2>1, Zenon DEF CheckPromise!checkContractVars
<1> QED  BY <1>1, <1>2, Zenon

(***************************************************************************)
(* startWithin plans all checks at once.                                   *)
(***************************************************************************)
LEMMA StartImplements ==
    ASSUME WorkflowIInv, StartProcessing
    PROVE  CheckPromise!ChecksNext
<1>1. session.state = "collecting" /\ session' = [state |-> "processing", version |-> session.version + 1]
  BY Zenon DEF StartProcessing, MayStart, MayProcess, Advance
<1>2. ~Terminal(session.state) /\ (~Terminal(session.state))' = (~Terminal(session.state))
  BY <1>1, Zenon DEF Terminal
<1>3. check = [c \in Checks |-> "none"]
  BY DEF StartProcessing, MayStart, WorkflowIInv, WorkflowTypeOK
<1>4. CheckPromise!Plan
  BY <1>3, Zenon DEF StartProcessing, CheckPromise!Plan, CheckPromise!Planned
<1> QED  BY <1>2, <1>4, Zenon DEF CheckPromise!ChecksNext

(***************************************************************************)
(* An executing session stays open when a check ends or is tried again.    *)
(***************************************************************************)
LEMMA FinishImplements ==
    ASSUME MayExecute, session'.state \in {"processing", "awaiting_external"},
           NEW c \in Checks, check[c] = "running",
           \/ /\ \E o \in CheckPromise!FinishedStates : check' = [check EXCEPT ![c] = o]
              /\ UNCHANGED attempt
           \/ /\ attempt[c] < MaxSemantic /\ attempt' = [attempt EXCEPT ![c] = @ + 1]
              /\ UNCHANGED check
    PROVE  CheckPromise!ChecksNext
<1>1. ~Terminal(session.state) /\ (~Terminal(session.state))' = (~Terminal(session.state))
  BY Zenon DEF Terminal, MayExecute, MayProcess
<1>2. CheckPromise!FinishCheck(c) \/ CheckPromise!RetryCheck(c)
  BY Zenon DEF CheckPromise!FinishCheck, CheckPromise!RetryCheck
<1> QED  BY <1>1, <1>2, Zenon DEF CheckPromise!ChecksNext

(***************************************************************************)
(* The commit of a result retries or finishes one check.                   *)
(***************************************************************************)
LEMMA CommitImplements ==
    ASSUME WorkflowIInv, NEW w \in Workers, Commit(w) \/ Skip(w)
    PROVE  UNCHANGED <<check, attempt>> \/ CheckPromise!ChecksNext
<1>1. work[w] \in Delivery
  BY Zenon DEF Commit, Skip, Step, WorkflowIInv, WorkflowTypeOK
<1>2. PICK c \in Checks : c = work[w].check
  BY <1>1, Zenon DEF Delivery
<1>3. CASE Commit(w) /\ ~UNCHANGED <<check, attempt>>
  <2>1. /\ MayExecute /\ Current(work[w]) /\ Apply(c, dispatch[c].outcome) /\ Leave
        /\ work[w].step = "save"
    BY <1>2, <1>3, Zenon DEF Commit, Step, checkVars
  <2>2. check[c] = "running" /\ attempt[c] = work[w].attempt
    BY <1>2, <2>1, Zenon DEF Current
  <2>3. dispatch[c].outcome \in {"completed", "failed", "timed_out", "cancelled", "retryable"}
    <3>1. dispatch[c].outcome \in Outcomes
      BY <1>2, <1>3, <2>1, <2>2, Zenon DEF Commit, Step, WorkflowIInv, WorkInv, DeliveryInv
    <3> QED  BY <3>1, WorkflowConstants, Zenon
  <2>4. \/ /\ \E o \in CheckPromise!FinishedStates : check' = [check EXCEPT ![c] = o]
           /\ UNCHANGED attempt
        \/ /\ attempt[c] < MaxSemantic /\ attempt' = [attempt EXCEPT ![c] = @ + 1]
           /\ UNCHANGED check
    BY <2>1, <2>3, Zenon DEF Apply, CheckPromise!FinishedStates
  <2>5. session'.state \in {"processing", "awaiting_external"}
    BY <2>1 DEF Leave, Advance, MayExecute, MayProcess
  <2> QED  BY <2>1, <2>2, <2>4, <2>5, FinishImplements, Zenon
<1>4. CASE Skip(w) /\ ~UNCHANGED <<check, attempt>>
  <2>1. /\ MayExecute /\ check[c] = "running" /\ UNCHANGED <<session, attempt>>
        /\ check' = [check EXCEPT ![c] = "skipped_by_policy"]
    BY <1>2, <1>4, Zenon DEF Skip, sessionVars
  <2>2. session'.state \in {"processing", "awaiting_external"}
    BY <2>1, Zenon DEF MayExecute, MayProcess
  <2> QED  BY <2>1, <2>2, FinishImplements, Zenon DEF CheckPromise!FinishedStates
<1> QED  BY <1>3, <1>4, Zenon

(***************************************************************************)
(* A cancellation closes the session and cancels what was not dispatched.  *)
(***************************************************************************)
LEMMA CancelImplements ==
    ASSUME WorkflowIInv, ~Terminal(session.state), CancelUndispatched, Advance("cancelled"),
           UNCHANGED attempt
    PROVE  CheckPromise!ChecksNext
<1> DEFINE S == {c \in Checks : check[c] = "running" /\ dispatch[c] = None}
<1>1. S \in SUBSET {c \in Checks : check[c] = "running"}
  BY Zenon
<1>2. check' = [c \in Checks |-> IF c \in S THEN "cancelled" ELSE check[c]]
  BY DEF CancelUndispatched
<1>3. (~Terminal(session.state))' = FALSE
  BY DEF Advance, Terminal
<1> QED  BY <1>1, <1>2, <1>3, Zenon DEF CheckPromise!CloseSession, CheckPromise!ChecksNext

(***************************************************************************)
(* Every step of the workflow is a step of the contract or leaves its      *)
(* state alone.                                                            *)
(***************************************************************************)
LEMMA ChecksStep ==
    ASSUME WorkflowIInv, [Next]_vars
    PROVE  [CheckPromise!ChecksNext]_(CheckPromise!checkContractVars)
<1>1. CASE Terminal(session.state)
  BY <1>1, StoppedStep, Zenon DEF Stopped, CheckPromise!checkContractVars, Terminal
<1>2. CASE ~Terminal(session.state)
  <2>1. CASE StartProcessing
    BY <2>1, StartImplements, Zenon
  <2>2. CASE \E w \in Workers : Commit(w) \/ Skip(w)
    BY <1>2, <2>2, CommitImplements, ChecksAlone, Zenon
  <2>3. CASE CancelForDeletion \/ \E u \in Clients : Cancel(u)
    <3>1. UNCHANGED <<check, attempt>> \/ (CancelUndispatched /\ Advance("cancelled") /\ UNCHANGED attempt)
      BY <2>3, Zenon DEF CancelForDeletion, Cancel
    <3> QED  BY <1>2, <3>1, CancelImplements, ChecksAlone, Zenon
  <2>4. CASE \/ CompleteCapture \/ Answer \/ Review \/ Expire \/ Respond \/ Withdraw \/ Deadline
             \/ \E w \in Workers : Execute(w) \/ Enter(w) \/ Crash(w) \/ \E c \in Checks : Admit(w, c)
             \/ \E a \in Authors : Evaluate(a) \/ Author(a) \/ AuthorCrash(a)
             \/ \E u \in Clients : Read(u) \/ Resume(u)
             \/ UNCHANGED vars
    <3>1. UNCHANGED <<check, attempt>>
      BY <2>4, Zenon
         DEF CompleteCapture, Answer, Review, Expire, Respond, Withdraw, Deadline, Execute, Enter,
             Crash, Admit, Evaluate, Author, AuthorCrash, Read, Resume, checkVars, vars
    <3> QED  BY <1>2, <3>1, ChecksAlone, Zenon
  <2> QED  BY <2>1, <2>2, <2>3, <2>4, Zenon DEF Next, Deliver
<1> QED  BY <1>1, <1>2, Zenon

(***************************************************************************)
(* For any plan, any workers and any outcomes: the planner, the execution  *)
(* deliveries, skipRouteWork and the cancellations do to a session's       *)
(* checks what CheckContract allows, the promise CheckExecution keeps for  *)
(* one check in full detail.  They are planned together, each is retried   *)
(* up to the limit or finished once, and a closed session leaves them.     *)
(***************************************************************************)
THEOREM ChecksRefinement == Spec => ImplementsChecks
<1>1. Init => CheckPromise!ChecksInit
  <2> SUFFICES ASSUME Init PROVE CheckPromise!ChecksInit
    BY Zenon
  <2>1. session.state = "collecting"
    BY DEF Init
  <2>2. (~Terminal(session.state)) = TRUE
    BY <2>1, Zenon DEF Terminal
  <2> QED  BY <2>2, Zenon DEF Init, CheckPromise!ChecksInit
<1>2. WorkflowIInv /\ [Next]_vars
        => [CheckPromise!ChecksNext]_(CheckPromise!checkContractVars)
  BY ChecksStep, Zenon
<1> QED
  BY <1>1, <1>2, Invariance, PTL DEF Spec, ImplementsChecks, CheckPromise!ChecksSpec
===============================================================================
