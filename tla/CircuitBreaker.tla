---------------------------- MODULE CircuitBreaker ----------------------------
(***************************************************************************)
(* The circuit breaker of one provider key, as every worker process keeps  *)
(* its own (internal/platform/breaker), fed by the provider calls that     *)
(* BreakerExecutor admits (internal/provider/breaker.go), and the health   *)
(* snapshot the workers share (internal/provider/health.go), which carries *)
(* an open circuit from one process to another.                            *)
(*                                                                         *)
(* A call is admitted, runs outside the circuit's mutex, and only then     *)
(* records its outcome; the transition it causes is persisted by a further *)
(* step.  Reading health is three steps: load and seed, read the local     *)
(* state, persist what was derived.  The breaker registry holds this one   *)
(* key; it is full at 4096 keys, which no instance here reaches.  A        *)
(* circuit only counts its outcomes, so their slice is a set here, each    *)
(* outcome named by its call.                                              *)
(***************************************************************************)
EXTENDS Clock, FiniteSets

CONSTANTS Workers,
          Calls,          \* provider calls; each runs once
          Window,         \* Policy.Window
          MinimumSamples, \* Policy.MinimumSamples
          FailurePercent, \* Policy.FailureRatio, in percent
          OpenDuration,   \* Policy.OpenDuration
          HalfOpenProbes, \* Policy.HalfOpenProbes
          CacheTTL,       \* HealthPolicy.CacheTTL
          MaxRestarts     \* bound on process restarts

VARIABLES circuit,   \* per worker: its Circuit
          call,      \* per call: where it stands
          stored,    \* the shared health snapshot's breaker columns
          reading,   \* per worker: the Health call in progress
          cache,     \* per worker: when the cached snapshot was put
          restarts,
          tripped,   \* history: per worker, when its circuit last tripped
          fresh      \* history: per worker, outcomes counted since it last closed

breakerVars == <<circuit, call, stored, reading, cache, restarts, now, tripped, fresh>>

ASSUME BreakerConstants ==
    /\ Window \in Nat \ {0} /\ OpenDuration \in Nat \ {0}
    /\ MinimumSamples \in Nat \ {0} /\ FailurePercent \in 1..100
    /\ HalfOpenProbes \in Nat \ {0} /\ CacheTTL \in Nat \ {0}
    /\ MaxTime \in Nat /\ MaxRestarts \in Nat

(* The zero time.Time of a circuit that never opened.                      *)
Zero == -1

NewCircuit == [state |-> "closed", openedAt |-> Zero, inFlight |-> 0, outcomes |-> {}]

BreakerInit ==
    /\ circuit = [w \in Workers |-> NewCircuit]
    /\ call = [c \in Calls |-> [step |-> "new"]]
    /\ stored = None
    /\ reading = [w \in Workers |-> None]
    /\ cache = [w \in Workers |-> None]
    /\ restarts = 0
    /\ now = 0
    /\ tripped = [w \in Workers |-> Zero]
    /\ fresh = [w \in Workers |-> 0]

-----------------------------------------------------------------------------
pruned(outcomes) == {o \in outcomes : o.at >= now - Window}

(***************************************************************************)
(* refresh prunes, and turns an open circuit whose time is up half-open.   *)
(***************************************************************************)
refresh(c) ==
    IF c.state = "open" /\ c.openedAt # Zero /\ now - c.openedAt >= OpenDuration
    THEN [c EXCEPT !.outcomes = pruned(@), !.state = "half_open", !.inFlight = 0]
    ELSE [c EXCEPT !.outcomes = pruned(@)]

FailedCalls(outcomes) == Cardinality({o \in outcomes : ~o.success})

shouldOpen(outcomes) ==
    /\ Cardinality(outcomes) >= MinimumSamples
    /\ FailedCalls(outcomes) * 100 >= Cardinality(outcomes) * FailurePercent

(***************************************************************************)
(* An outcome counted in a circuit that is closed after refresh.           *)
(***************************************************************************)
Counted(c, o) ==
    LET outcomes == pruned(c.outcomes \cup {o})
    IN  IF shouldOpen(outcomes)
        THEN [c EXCEPT !.outcomes = outcomes, !.state = "open", !.openedAt = now]
        ELSE [c EXCEPT !.outcomes = outcomes]

(***************************************************************************)
(* The outcomes of the outage survive the closing.                         *)
(***************************************************************************)
DecidedKeeping(c, success) ==
    IF success THEN [c EXCEPT !.state = "closed", !.openedAt = Zero, !.inFlight = 0]
               ELSE [c EXCEPT !.state = "open", !.openedAt = now]

(***************************************************************************)
(* An outcome that reaches a half-open circuit decides it, whichever call  *)
(* it belongs to.                                                          *)
(***************************************************************************)
Decided(c, success) ==
    LET landed == [c EXCEPT !.inFlight = IF @ > 0 THEN @ - 1 ELSE 0]
    IN  IF success
        THEN [landed EXCEPT !.state = "closed", !.openedAt = Zero, !.outcomes = {}]
        ELSE [landed EXCEPT !.state = "open", !.openedAt = now]

(***************************************************************************)
(* A late outcome decides an open circuit as it decides a half-open one.   *)
(***************************************************************************)
recordedLate(c, o) ==
    LET r == refresh(c)
    IN  IF r.state = "closed" THEN Counted(r, o) ELSE Decided(r, o.success)

recorded(c, o) ==
    LET r == refresh(c)
    IN  CASE r.state = "open" -> r
          [] r.state = "half_open" -> Decided(r, o.success)
          [] r.state = "closed" -> Counted(r, o)

(***************************************************************************)
(* Seed adopts a persisted open or half-open state in a closed circuit.    *)
(***************************************************************************)
seeded(c, snapshot) ==
    LET r == refresh(c)
    IN  IF snapshot.state # "closed" /\ r.state = "closed"
        THEN [r EXCEPT !.state = snapshot.state, !.openedAt = snapshot.since]
        ELSE r

-----------------------------------------------------------------------------
(***************************************************************************)
(* Execute up to the provider call: Allow refuses (the caller gets the     *)
(* fast-fail result and may ask again) or admits, a half-open circuit as   *)
(* one of its probes.                                                      *)
(***************************************************************************)
Allow(w, c) ==
    LET r == refresh(circuit[w])
        admitted == \/ r.state = "closed"
                    \/ r.state = "half_open" /\ r.inFlight < HalfOpenProbes
    IN  /\ call[c].step = "new"
        /\ IF admitted
           THEN /\ circuit' = [circuit EXCEPT ![w] =
                      IF r.state = "half_open" THEN [r EXCEPT !.inFlight = @ + 1] ELSE r]
                /\ call' = [call EXCEPT ![c] =
                      [step |-> "running", worker |-> w,
                       probe |-> r.state = "half_open", at |-> now]]
           ELSE /\ circuit' = [circuit EXCEPT ![w] = r]
                /\ UNCHANGED call
        /\ UNCHANGED <<stored, reading, cache, restarts, now, tripped, fresh>>

(***************************************************************************)
(* The provider answered with an outcome that counts: Record, and when the *)
(* circuit changed state the transition waits to be observed.              *)
(***************************************************************************)
Record(c) ==
    \E success \in BOOLEAN :
        LET w == call[c].worker
            before == refresh(circuit[w])
            after == recorded(circuit[w], [call |-> c, at |-> now, success |-> success])
        IN  /\ call[c].step = "running"
            /\ circuit' = [circuit EXCEPT ![w] = after]
            /\ call' = [call EXCEPT ![c] =
                  IF after.state # before.state
                  THEN [step |-> "observing", worker |-> w, to |-> after.state, at |-> now]
                  ELSE [step |-> "done"]]
            /\ tripped' = [tripped EXCEPT ![w] =
                  IF after.state = "open" /\ before.state # "open" THEN now ELSE @]
            /\ fresh' = [fresh EXCEPT ![w] =
                  IF before.state = "half_open" /\ after.state = "closed" THEN 0
                  ELSE IF before.state = "closed" /\ @ < MinimumSamples THEN @ + 1 ELSE @]
            /\ UNCHANGED <<stored, reading, cache, restarts, now>>

(***************************************************************************)
(* The call returned an error, or a failure that does not count against    *)
(* availability: Execute returns and nothing is recorded.                  *)
(***************************************************************************)
Abandon(c) ==
    /\ call[c].step = "running"
    /\ call' = [call EXCEPT ![c] = [step |-> "done"]]
    /\ UNCHANGED <<circuit, stored, reading, cache, restarts, now, tripped, fresh>>

(***************************************************************************)
(* ObserveBreaker: persist the transition and cache it; best effort, so a  *)
(* failure leaves both as they were.                                       *)
(***************************************************************************)
ObserveBreaker(c) ==
    /\ call[c].step = "observing"
    /\ \/ /\ stored' = [state |-> call[c].to,
                        since |-> IF call[c].to = "closed" THEN None ELSE call[c].at]
          /\ cache' = [cache EXCEPT ![call[c].worker] = now]
       \/ UNCHANGED <<stored, cache>>
    /\ call' = [call EXCEPT ![c] = [step |-> "done"]]
    /\ UNCHANGED <<circuit, reading, restarts, now, tripped, fresh>>

-----------------------------------------------------------------------------
Cached(w) == cache[w] # None /\ now - cache[w] < CacheTTL

(***************************************************************************)
(* Health without a usable cache entry: load the snapshot, seed.           *)
(***************************************************************************)
HealthLoad(w) ==
    /\ reading[w] = None
    /\ ~Cached(w)
    /\ cache' = [cache EXCEPT ![w] = None]
    /\ circuit' = [circuit EXCEPT ![w] = IF stored = None THEN @ ELSE seeded(@, stored)]
    /\ reading' = [reading EXCEPT ![w] = [step |-> "loaded", at |-> now]]
    /\ UNCHANGED <<call, stored, restarts, now, tripped, fresh>>

(* Read the local circuit's state (the evidence query runs before it).     *)
HealthState(w) ==
    /\ reading[w] # None /\ reading[w].step = "loaded"
    /\ circuit' = [circuit EXCEPT ![w] = refresh(@)]
    /\ reading' = [reading EXCEPT ![w] =
          [step |-> "derived", at |-> reading[w].at, state |-> refresh(circuit[w]).state]]
    /\ UNCHANGED <<call, stored, cache, restarts, now, tripped, fresh>>

(***************************************************************************)
(* Persist the derived snapshot and cache it.  Health knows no opening     *)
(* instant, so Apply stores the instant at which this reading began.       *)
(***************************************************************************)
HealthApply(w) ==
    /\ reading[w] # None /\ reading[w].step = "derived"
    /\ \/ /\ stored' = [state |-> reading[w].state,
                        since |-> IF reading[w].state = "closed" THEN None ELSE reading[w].at]
          /\ cache' = [cache EXCEPT ![w] = now]
       \/ UNCHANGED <<stored, cache>>
    /\ reading' = [reading EXCEPT ![w] = None]
    /\ UNCHANGED <<circuit, call, restarts, now, tripped, fresh>>

(* The process dies with its circuit, its cache and its calls, and starts. *)
Restart(w) ==
    /\ restarts < MaxRestarts
    /\ restarts' = restarts + 1
    /\ circuit' = [circuit EXCEPT ![w] = NewCircuit]
    /\ call' = [c \in Calls |->
          IF call[c].step \in {"running", "observing"} /\ call[c].worker = w
          THEN [step |-> "done"] ELSE call[c]]
    /\ reading' = [reading EXCEPT ![w] = None]
    /\ cache' = [cache EXCEPT ![w] = None]
    /\ tripped' = [tripped EXCEPT ![w] = Zero]
    /\ fresh' = [fresh EXCEPT ![w] = 0]
    /\ UNCHANGED <<stored, now>>

BreakerTick ==
    /\ ClockAdvances
    /\ UNCHANGED <<circuit, call, stored, reading, cache, restarts, tripped, fresh>>

BreakerNext ==
    \/ \E w \in Workers : \/ \E c \in Calls : Allow(w, c)
                          \/ HealthLoad(w) \/ HealthState(w) \/ HealthApply(w)
                          \/ Restart(w)
    \/ \E c \in Calls : Record(c) \/ Abandon(c) \/ ObserveBreaker(c)
    \/ BreakerTick

BreakerSpec == BreakerInit /\ [][BreakerNext]_breakerVars

-----------------------------------------------------------------------------
Running(c) == call[c].step = "running"

(***************************************************************************)
(* A circuit that tripped admits no call of its process until the open     *)
(* duration has passed: neither a success that was already under way, nor  *)
(* a snapshot another worker stored, reopens the way early.                *)
(***************************************************************************)
OpenHoldsOff ==
    \A c \in Calls : Running(c) =>
        LET t == tripped[call[c].worker]
        IN  t = Zero \/ call[c].at <= t \/ call[c].at >= t + OpenDuration

(***************************************************************************)
(* A closed circuit trips only on evidence: MinimumSamples outcomes, all   *)
(* inside the window and all recorded after it last closed, so the outage  *)
(* it recovered from is never counted twice.                               *)
(***************************************************************************)
TripIsEarned ==
    [][\A w \in Workers :
        tripped'[w] = now /\ circuit[w].state = "closed" /\ circuit'[w].state = "open"
        => /\ fresh'[w] >= MinimumSamples
           /\ \A o \in circuit'[w].outcomes : now - o.at <= Window]_breakerVars

===============================================================================
