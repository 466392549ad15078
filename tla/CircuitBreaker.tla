---------------------------- MODULE CircuitBreaker ----------------------------
(***************************************************************************)
(* The circuit breaker of harness/circuit_breaker.py as the concurrent      *)
(* model calls of harness/ollama_client.py use it: a call enters, awaits    *)
(* the model and exits, and other calls enter and exit in between.  The     *)
(* bodies of __aenter__ and __aexit__ do not await under their lock, so     *)
(* each is one action.                                                      *)
(*                                                                         *)
(* The counters are compared with their thresholds only, so they saturate   *)
(* there.  Time is what _should_transition_to_half_open tests: whether      *)
(* timeout_seconds have passed since the last state change.                 *)
(***************************************************************************)
EXTENDS Integers, Sequences, FiniteSets

CONSTANTS
    Calls,             \* slots of concurrent calls
    FailureThreshold, SuccessThreshold, HalfOpenMax,
    WindowSize,        \* 0: the failure-rate rule is off
    RateTrip,          \* failures in a full window that reach failure_rate_threshold
    MaxInterventions   \* bound of the model: resets, forced openings and scopes

ASSUME BreakerAssumption ==
    /\ IsFiniteSet(Calls)
    /\ FailureThreshold \in Nat \ {0} /\ SuccessThreshold \in Nat \ {0} /\ HalfOpenMax \in Nat \ {0}
    /\ WindowSize \in Nat /\ RateTrip \in Nat \ {0}
    /\ MaxInterventions \in Nat

VARIABLES
    state,          \* _state
    fails,          \* _consecutive_failures, up to FailureThreshold
    succs,          \* _consecutive_successes, up to SuccessThreshold
    slots,          \* _half_open_requests
    window,         \* _window, TRUE for a failure
    cooled,         \* timeout_seconds passed since _last_state_change
    inFlight,       \* calls between __aenter__ and __aexit__
    saved,          \* what an open scoped_ollama_breaker restores: at most one snapshot
    mayFail,        \* calls in flight that started before the service recovered
    up,             \* the service has recovered for good
    strays,         \* history: calls in flight admitted before this half-open period
    gone,           \* history: such calls that ended since it began
    restored,       \* history: a scope has put its snapshot back
    interventions

counters == <<fails, succs, slots, window>>
trialLog == <<strays, gone>>
vars == <<state, fails, succs, slots, window, cooled, inFlight, saved, mayFail, up,
          strays, gone, restored, interventions>>

States == {"CLOSED", "OPEN", "HALF_OPEN"}

-----------------------------------------------------------------------------

UpTo(limit, n) == IF n < limit THEN n ELSE limit
MinusOne(n) == IF n > 0 THEN n - 1 ELSE 0

\* _push_outcome: the most recent WindowSize outcomes.
Pushed(failed) ==
    IF WindowSize = 0 THEN window
    ELSE IF Len(window) < WindowSize THEN Append(window, failed)
    ELSE Append(Tail(window), failed)

\* _window_failure_rate_exceeded of window w.
RateExceeded(w) ==
    /\ WindowSize > 0
    /\ Len(w) >= WindowSize
    /\ Cardinality({i \in DOMAIN w : w[i]}) >= RateTrip

\* _change_state: the clock restarts only when the state really changes.
ChangeState(s) ==
    /\ state' = s
    /\ cooled' = (cooled /\ s = state)

Init ==
    /\ state = "CLOSED"
    /\ fails = 0 /\ succs = 0 /\ slots = 0 /\ window = <<>>
    /\ cooled = FALSE
    /\ inFlight = {}
    /\ saved = {}
    /\ mayFail = {} /\ up = FALSE
    /\ strays = {} /\ gone = 0
    /\ restored = FALSE
    /\ interventions = 0

Start(c) ==
    /\ inFlight' = inFlight \union {c}
    /\ mayFail' = IF up THEN mayFail ELSE mayFail \union {c}
    /\ UNCHANGED <<fails, succs, window, saved, up, restored, interventions>>

\* __aenter__ of a call the breaker lets through.  A refused call changes nothing:
\* an OPEN breaker turns HALF_OPEN only together with its first trial.
EnterClosed(c) ==
    /\ c \notin inFlight
    /\ state = "CLOSED"
    /\ Start(c)
    /\ UNCHANGED <<state, cooled, slots>>

EnterOpen(c) ==
    /\ c \notin inFlight
    /\ state = "OPEN" /\ cooled
    /\ ChangeState("HALF_OPEN")
    /\ slots' = 1
    /\ Start(c)

\* Mutant of EnterHalfOpen: the trial does not take its slot.
EnterHalfOpenUncounted(c) ==
    /\ c \notin inFlight
    /\ state = "HALF_OPEN"
    /\ slots < HalfOpenMax
    /\ Start(c)
    /\ UNCHANGED <<state, cooled, slots>>

EnterHalfOpen(c) ==
    /\ c \notin inFlight
    /\ state = "HALF_OPEN"
    /\ slots < HalfOpenMax
    /\ slots' = slots + 1
    /\ Start(c)
    /\ UNCHANGED <<state, cooled>>

\* What every exit does first: give back a half-open slot, if one is taken.
Leave(c) ==
    /\ c \in inFlight
    /\ inFlight' = inFlight \ {c}
    /\ mayFail' = mayFail \ {c}
    /\ UNCHANGED <<saved, up, restored, interventions>>

\* Mutant of GiveBack: a trial keeps its slot.
GiveBackNever == UNCHANGED slots

GiveBack == slots' = MinusOne(slots)

\* The decision after a failure: consecutive failures first, then the rate over
\* the window, then a failed trial.
AfterFailure(f, w) ==
    \/ /\ f >= FailureThreshold
       /\ ChangeState("OPEN") /\ window' = w
    \/ /\ f < FailureThreshold /\ RateExceeded(w)
       /\ ChangeState("OPEN") /\ window' = <<>>
    \/ /\ f < FailureThreshold /\ ~RateExceeded(w)
       /\ ChangeState(IF WindowSize > 0 /\ state = "HALF_OPEN" THEN "OPEN" ELSE state)
       /\ window' = w

\* __aexit__ with an exception that is not excluded.
ExitFailure(c) ==
    /\ c \in mayFail
    /\ Leave(c)
    /\ GiveBack
    /\ fails' = UpTo(FailureThreshold, fails + 1)
    /\ succs' = 0
    /\ AfterFailure(UpTo(FailureThreshold, fails + 1), Pushed(TRUE))

\* Mutants of AfterSuccess: only the window decides; enough successes close the
\* breaker from any state.
AfterSuccessWindowOnly(s, w) ==
    IF RateExceeded(w)
    THEN ChangeState("OPEN") /\ window' = <<>>
    ELSE ChangeState(state) /\ window' = w
AfterSuccessAnyState(s, w) ==
    \/ /\ s >= SuccessThreshold
       /\ ChangeState("CLOSED") /\ window' = w
    \/ /\ s < SuccessThreshold
       /\ ChangeState(state) /\ window' = w

\* The decision after a success: it may close a HALF_OPEN breaker, and may be the
\* call that fills the window of a CLOSED one.
AfterSuccess(s, w) ==
    \/ /\ s >= SuccessThreshold /\ state = "HALF_OPEN"
       /\ ChangeState("CLOSED") /\ window' = w
    \/ /\ state = "CLOSED" /\ RateExceeded(w)
       /\ ChangeState("OPEN") /\ window' = <<>>
    \/ /\ ~(s >= SuccessThreshold /\ state = "HALF_OPEN")
       /\ ~(state = "CLOSED" /\ RateExceeded(w))
       /\ ChangeState(state) /\ window' = w

\* __aexit__ without an exception, or with an excluded one.
ExitSuccess(c) ==
    /\ Leave(c)
    /\ GiveBack
    /\ fails' = 0
    /\ succs' = UpTo(SuccessThreshold, succs + 1)
    /\ AfterSuccess(UpTo(SuccessThreshold, succs + 1), Pushed(FALSE))

\* timeout_seconds pass after a state change.
Cool ==
    /\ ~cooled /\ state = "OPEN"
    /\ cooled' = TRUE
    /\ UNCHANGED <<state, counters, inFlight, saved, mayFail, up, trialLog, restored, interventions>>

\* The service recovers: calls started from now on succeed.
Recover ==
    /\ ~up
    /\ up' = TRUE
    /\ UNCHANGED <<state, counters, cooled, inFlight, saved, mayFail, trialLog, restored, interventions>>

Intervene ==
    /\ interventions < MaxInterventions
    /\ interventions' = interventions + 1
    /\ UNCHANGED <<inFlight, mayFail, up, restored>>

ClearCounters == fails' = 0 /\ succs' = 0 /\ slots' = 0 /\ window' = <<>>

\* reset: back to CLOSED whatever is in flight.
Reset ==
    /\ Intervene
    /\ ChangeState("CLOSED")
    /\ ClearCounters
    /\ UNCHANGED saved

\* force_open: the state alone.
ForceOpen ==
    /\ Intervene
    /\ ChangeState("OPEN")
    /\ UNCHANGED <<counters, saved>>

\* scoped_ollama_breaker.__enter__: snapshot, then a fresh CLOSED breaker.
ScopeEnter ==
    /\ saved = {}
    /\ Intervene
    /\ saved' = {[state |-> state, fails |-> fails, succs |-> succs,
                  slots |-> slots, window |-> window]}
    /\ state' = "CLOSED" /\ cooled' = FALSE
    /\ ClearCounters

\* scoped_ollama_breaker.__exit__: the snapshot back, whatever ended meanwhile.
ScopeExit ==
    /\ \E old \in saved :
        /\ state' = old.state /\ fails' = old.fails /\ succs' = old.succs
        /\ slots' = old.slots /\ window' = old.window
    /\ saved' = {} /\ cooled' = FALSE
    /\ strays' = inFlight /\ gone' = 0
    /\ restored' = TRUE
    /\ UNCHANGED <<inFlight, mayFail, up, interventions>>

\* The history of a half-open period: who was in flight before it and has ended since.
Follow ==
    /\ strays' = IF state' # "HALF_OPEN" THEN {}
                 ELSE inFlight' \intersect (IF state = "HALF_OPEN" THEN strays ELSE inFlight)
    /\ gone' = IF state = "HALF_OPEN" /\ state' = "HALF_OPEN"
               THEN gone + Cardinality(strays \ inFlight') ELSE 0

Enter(c) == (EnterClosed(c) \/ EnterOpen(c) \/ EnterHalfOpen(c)) /\ Follow
Exit(c) == (ExitFailure(c) \/ ExitSuccess(c)) /\ Follow

Traffic == (\E c \in Calls : Enter(c) \/ Exit(c)) \/ Cool \/ Recover
Interventions == ((Reset \/ ForceOpen \/ ScopeEnter) /\ Follow) \/ ScopeExit

Next == Traffic \/ Interventions

\* Callers keep calling, a call ends (every request has a timeout), a scope ends
\* with its block and the clock runs.
Fairness ==
    /\ WF_vars(\E c \in Calls : Enter(c))
    /\ \A c \in Calls : WF_vars(Exit(c))
    /\ WF_vars(ScopeExit)
    /\ WF_vars(Cool)

Spec == Init /\ [][Next]_vars
FairSpec == Spec /\ Fairness

-----------------------------------------------------------------------------
(***************************************************************************)
(* Properties                                                              *)
(***************************************************************************)

\* The counters stay within their thresholds, the half-open slots within their limit.
TypeOK ==
    /\ state \in States
    /\ fails \in 0..FailureThreshold
    /\ succs \in 0..SuccessThreshold
    /\ slots \in 0..HalfOpenMax
    /\ window \in Seq(BOOLEAN) /\ Len(window) <= WindowSize
    /\ cooled \in BOOLEAN /\ up \in BOOLEAN
    /\ inFlight \subseteq Calls
    /\ mayFail \subseteq inFlight
    /\ strays \subseteq inFlight /\ gone \in Nat
    /\ restored \in BOOLEAN
    /\ interventions \in 0..MaxInterventions

\* Every half-open slot taken belongs to a call that will give it back, whatever
\* is reset, forced open or scoped meanwhile, until a scope puts old slots back:
\* a slot that outlives its call would refuse every trial for ever.
NoSlotLeak == ~restored => slots <= Cardinality(inFlight)

\* The trials that run at once are bounded although any exit gives back a slot,
\* whoever took it: there is at most one trial over the limit for each call from
\* before that ended since the breaker turned HALF_OPEN.
OverloadBounded ==
    state = "HALF_OPEN" => Cardinality(inFlight \ strays) <= HalfOpenMax + gone

\* "half_open_max_requests gates *concurrent* trial requests"
\* (circuit_breaker.py:271) is not so: a breaker that admitted calls from before runs more.
TrialsGated ==
    state = "HALF_OPEN" => Cardinality(inFlight \ strays) <= HalfOpenMax

\* A late answer of a call admitted before the trip does not end the cooling-off:
\* an OPEN breaker is left only after its timeout, and by a trial.
OpenHolds ==
    [][state = "OPEN" /\ state' # "OPEN" /\ interventions' = interventions /\ saved' = saved =>
          cooled /\ state' = "HALF_OPEN" /\ inFlight # inFlight']_vars

\* "Self-healing: Automatically recover when the service becomes available"
\* (circuit_breaker.py:10): once calls succeed the breaker is CLOSED and stays so, as
\* long as no scope puts a snapshot back, through resets and forced openings, and with
\* the calls of the outage ending late.
HealsUnscoped == <>up => <>[](state = "CLOSED") \/ <>restored

=============================================================================
