--------------------------- MODULE SharedGuardsProofs ---------------------------
(***************************************************************************)
(* The guards that concurrent calls share, whatever component they come from: *)
(* the breaker of the model's calls, the throttle of the target's requests    *)
(* and the registry of the checks.  Each is proved for any number of callers  *)
(* and every value of its settings, and alone: none reads another's state.    *)
(***************************************************************************)
EXTENDS CircuitBreaker, GlobalThrottle, ExecutionRegistry, FiniteSetTheorems, TLAPS

-----------------------------------------------------------------------------
(***************************************************************************)
(* The circuit breaker                                                     *)
(*                                                                         *)
(* An entry adds at most one slot and one call in flight, an exit takes one*)
(* of each away, and everything else that sets the slots sets them to 0,   *)
(* until a scope puts old ones back.                                       *)
(***************************************************************************)

Windows == {w \in Seq(BOOLEAN) : Len(w) <= WindowSize}

Snapshot == [state : States, fails : 0..FailureThreshold, succs : 0..SuccessThreshold,
             slots : 0..HalfOpenMax, window : Windows]

\* What a scope saved was a breaker's state.
SavedOK == saved \in SUBSET Snapshot

Typed == TypeOK /\ SavedOK

\* The counters' arithmetic.
LEMMA CounterTypes ==
    ASSUME BreakerAssumption
    PROVE  /\ \A n \in 0..FailureThreshold : UpTo(FailureThreshold, n + 1) \in 0..FailureThreshold
           /\ \A n \in 0..SuccessThreshold : UpTo(SuccessThreshold, n + 1) \in 0..SuccessThreshold
           /\ \A n \in 0..HalfOpenMax : MinusOne(n) \in 0..HalfOpenMax
           /\ 0 \in 0..FailureThreshold /\ 0 \in 0..SuccessThreshold /\ 0 \in 0..HalfOpenMax
           /\ 1 \in 0..HalfOpenMax
           /\ \A n \in 0..HalfOpenMax : n < HalfOpenMax => n + 1 \in 0..HalfOpenMax
BY DEF BreakerAssumption, UpTo, MinusOne

\* The rolling window keeps at most WindowSize outcomes.
LEMMA PushedType ==
    ASSUME BreakerAssumption, TypeOK, NEW b \in BOOLEAN
    PROVE  Pushed(b) \in Windows
<1>1. window \in Seq(BOOLEAN) /\ Len(window) \in Nat /\ Len(window) <= WindowSize /\ WindowSize \in Nat
    BY DEF TypeOK, BreakerAssumption
<1>2. CASE WindowSize = 0
    BY <1>1, <1>2 DEF Pushed, Windows
<1>3. CASE WindowSize # 0 /\ Len(window) < WindowSize
  <2>1. Append(window, b) \in Seq(BOOLEAN) /\ Len(Append(window, b)) = Len(window) + 1
      BY <1>1
  <2> QED BY <1>1, <1>3, <2>1 DEF Pushed, Windows
<1>4. CASE WindowSize # 0 /\ ~(Len(window) < WindowSize)
  <2>1. window # <<>> /\ Len(window) = WindowSize
      BY <1>1, <1>4
  <2>2. Tail(window) \in Seq(BOOLEAN) /\ Len(Tail(window)) = WindowSize - 1
      BY <1>1, <2>1
  <2>3. Append(Tail(window), b) \in Seq(BOOLEAN) /\ Len(Append(Tail(window), b)) = WindowSize
      BY <1>1, <2>2
  <2> QED BY <1>1, <1>4, <2>3 DEF Pushed, Windows
<1> QED BY <1>2, <1>3, <1>4

LEMMA EmptyWindow == ASSUME BreakerAssumption PROVE <<>> \in Windows
BY DEF BreakerAssumption, Windows

LEMMA InitTyped == ASSUME BreakerAssumption, Init PROVE Typed
<1>1. /\ 0 \in 0..FailureThreshold /\ 0 \in 0..SuccessThreshold /\ 0 \in 0..HalfOpenMax
      /\ 0 \in 0..MaxInterventions
    BY DEF BreakerAssumption
<1>2. window \in Seq(BOOLEAN) /\ Len(window) <= WindowSize
    BY EmptyWindow DEF Init, Windows
<1>3. TypeOK
    BY <1>1, <1>2 DEF Init, TypeOK, States
<1> QED BY <1>3 DEF Init, Typed, SavedOK

\* The parts of TypeOK that one action changes, in one place.
LEMMA TypedFrom ==
    ASSUME state' \in States, cooled' \in BOOLEAN,
           fails' \in 0..FailureThreshold, succs' \in 0..SuccessThreshold,
           slots' \in 0..HalfOpenMax, window' \in Windows,
           inFlight' \subseteq Calls, mayFail' \subseteq inFlight', up' \in BOOLEAN, restored' \in BOOLEAN,
           strays' \subseteq inFlight', gone' \in Nat,
           interventions' \in 0..MaxInterventions, SavedOK'
    PROVE  Typed'
<1>1. window' \in Seq(BOOLEAN) /\ Len(window') <= WindowSize
    BY DEF Windows
<1>2. TypeOK'
    BY <1>1, Zenon DEF TypeOK, States
<1> QED BY <1>2 DEF Typed

\* What Follow counts is a number of calls.
LEMMA FollowTyped ==
    ASSUME BreakerAssumption, inFlight \subseteq Calls, strays \subseteq inFlight, gone \in Nat, Follow
    PROVE  strays' \subseteq inFlight' /\ gone' \in Nat
<1>1. IsFiniteSet(strays \ inFlight')
    BY FS_Subset DEF BreakerAssumption
<1>2. Cardinality(strays \ inFlight') \in Nat
    BY <1>1, FS_CardinalityType
<1> QED BY <1>2 DEF Follow

LEMMA NextTyped == ASSUME BreakerAssumption, Typed, [Next]_vars PROVE Typed'
<1>1. /\ state \in States /\ cooled \in BOOLEAN /\ up \in BOOLEAN
      /\ fails \in 0..FailureThreshold /\ succs \in 0..SuccessThreshold
      /\ slots \in 0..HalfOpenMax /\ window \in Windows
      /\ inFlight \subseteq Calls /\ mayFail \subseteq inFlight
      /\ strays \subseteq inFlight /\ gone \in Nat
      /\ restored \in BOOLEAN /\ interventions \in 0..MaxInterventions
      /\ MaxInterventions \in Nat /\ SavedOK
    BY DEF Typed, TypeOK, Windows, BreakerAssumption
<1>2. ASSUME NEW s \in States, ChangeState(s) PROVE state' \in States /\ cooled' \in BOOLEAN
    BY <1>1, <1>2 DEF ChangeState
<1>3. "CLOSED" \in States /\ "OPEN" \in States /\ "HALF_OPEN" \in States
    BY DEF States
<1>4. ASSUME NEW c \in Calls, Enter(c) PROVE Typed'
  <2>1. /\ inFlight' \subseteq Calls /\ mayFail' \subseteq inFlight'
        /\ restored' = restored /\ fails' = fails /\ succs' = succs /\ window' = window /\ saved' = saved /\ up' = up
        /\ interventions' = interventions
      BY <1>1, <1>4 DEF Enter, EnterClosed, EnterOpen, EnterHalfOpen, Start
  <2>2. state' \in States /\ cooled' \in BOOLEAN
      BY <1>1, <1>2, <1>3, <1>4 DEF Enter, EnterClosed, EnterOpen, EnterHalfOpen
  <2>3. slots' \in 0..HalfOpenMax
      BY <1>1, <1>4, CounterTypes DEF Enter, EnterClosed, EnterOpen, EnterHalfOpen
  <2>4. SavedOK'
      BY <1>1, <2>1 DEF SavedOK, Snapshot
  <2>5. strays' \subseteq inFlight' /\ gone' \in Nat
      BY <1>1, <1>4, FollowTyped DEF Enter
  <2> QED BY <1>1, <2>1, <2>2, <2>3, <2>4, <2>5, TypedFrom
<1>5. ASSUME NEW c \in Calls, Exit(c) PROVE Typed'
  <2>1. /\ inFlight' \subseteq Calls /\ mayFail' \subseteq inFlight'
        /\ restored' = restored /\ saved' = saved /\ up' = up /\ interventions' = interventions
      BY <1>1, <1>5 DEF Exit, ExitFailure, ExitSuccess, Leave
  <2>2. slots' \in 0..HalfOpenMax
      BY <1>1, <1>5, CounterTypes DEF Exit, ExitFailure, ExitSuccess, GiveBack
  <2>3. SavedOK'
      BY <1>1, <2>1 DEF SavedOK, Snapshot
  <2>6. strays' \subseteq inFlight' /\ gone' \in Nat
      BY <1>1, <1>5, FollowTyped DEF Exit
  <2>4. CASE ExitFailure(c)
    <3>1. Pushed(TRUE) \in Windows
        BY PushedType DEF Typed
    <3>2. fails' \in 0..FailureThreshold /\ succs' \in 0..SuccessThreshold
        BY <1>1, <2>4, CounterTypes DEF ExitFailure
    <3>3. state' \in States /\ cooled' \in BOOLEAN /\ window' \in Windows
        BY <1>1, <1>2, <1>3, <2>4, <3>1, EmptyWindow DEF ExitFailure, AfterFailure
    <3> QED BY <1>1, <2>1, <2>2, <2>3, <2>6, <3>2, <3>3, TypedFrom
  <2>5. CASE ExitSuccess(c)
    <3>1. Pushed(FALSE) \in Windows
        BY PushedType DEF Typed
    <3>2. fails' \in 0..FailureThreshold /\ succs' \in 0..SuccessThreshold
        BY <1>1, <2>5, CounterTypes DEF ExitSuccess
    <3>3. state' \in States /\ cooled' \in BOOLEAN /\ window' \in Windows
        BY <1>1, <1>2, <1>3, <2>5, <3>1, EmptyWindow DEF ExitSuccess, AfterSuccess
    <3> QED BY <1>1, <2>1, <2>2, <2>3, <2>6, <3>2, <3>3, TypedFrom
  <2> QED BY <1>5, <2>4, <2>5 DEF Exit
<1>6. ASSUME Cool \/ Recover PROVE Typed'
    BY <1>6 DEF Cool, Recover, counters, trialLog, Typed, TypeOK, SavedOK, Snapshot
<1>7. ASSUME Intervene PROVE /\ inFlight' = inFlight /\ mayFail' = mayFail /\ up' = up
                             /\ restored' = restored
                             /\ interventions' \in 0..MaxInterventions
    BY <1>1, <1>7 DEF Intervene
<1>8. ASSUME Reset, Follow PROVE Typed'
  <2>1. Intervene /\ ChangeState("CLOSED") /\ ClearCounters /\ saved' = saved
      BY <1>8 DEF Reset
  <2>2. SavedOK'
      BY <1>1, <2>1 DEF SavedOK, Snapshot
  <2>3. strays' \subseteq inFlight' /\ gone' \in Nat
      BY <1>1, <1>8, FollowTyped
  <2> QED BY <1>1, <1>2, <1>3, <1>7, <2>1, <2>2, <2>3, CounterTypes, EmptyWindow, TypedFrom DEF ClearCounters
<1>9. ASSUME ForceOpen, Follow PROVE Typed'
  <2>1. Intervene /\ ChangeState("OPEN") /\ UNCHANGED <<counters, saved>>
      BY <1>9 DEF ForceOpen
  <2>2. SavedOK'
      BY <1>1, <2>1 DEF SavedOK, Snapshot
  <2>3. strays' \subseteq inFlight' /\ gone' \in Nat
      BY <1>1, <1>9, FollowTyped
  <2> QED BY <1>1, <1>2, <1>3, <1>7, <2>1, <2>2, <2>3, CounterTypes, TypedFrom DEF counters
<1>10. ASSUME ScopeEnter, Follow PROVE Typed'
  <2>1. /\ Intervene /\ ClearCounters /\ state' = "CLOSED" /\ cooled' = FALSE
        /\ saved' = {[state |-> state, fails |-> fails, succs |-> succs,
                      slots |-> slots, window |-> window]}
      BY <1>10 DEF ScopeEnter
  <2>2. SavedOK'
      BY <1>1, <2>1 DEF SavedOK, Snapshot
  <2>3. strays' \subseteq inFlight' /\ gone' \in Nat
      BY <1>1, <1>10, FollowTyped
  <2> QED BY <1>1, <1>3, <1>7, <2>1, <2>2, <2>3, CounterTypes, EmptyWindow, TypedFrom DEF ClearCounters
<1>11. ASSUME ScopeExit PROVE Typed'
  <2>1. PICK old \in saved : /\ state' = old.state /\ fails' = old.fails /\ succs' = old.succs
                             /\ slots' = old.slots /\ window' = old.window
      BY <1>11 DEF ScopeExit
  <2>2. old \in Snapshot
      BY <1>1 DEF SavedOK
  <2>3. /\ state' \in States /\ fails' \in 0..FailureThreshold /\ succs' \in 0..SuccessThreshold
        /\ slots' \in 0..HalfOpenMax /\ window' \in Windows
      BY <2>1, <2>2 DEF Snapshot
  <2>4. /\ saved' = {} /\ cooled' = FALSE /\ restored' = TRUE
        /\ strays' = inFlight /\ gone' = 0
        /\ UNCHANGED <<inFlight, mayFail, up, interventions>>
      BY <1>11 DEF ScopeExit
  <2>5. SavedOK'
      BY <2>4 DEF SavedOK
  <2> QED BY <1>1, <2>3, <2>4, <2>5, CounterTypes, TypedFrom
<1>12. CASE UNCHANGED vars
    BY <1>12 DEF vars, trialLog, Typed, TypeOK, SavedOK, Snapshot
<1> QED BY <1>4, <1>5, <1>6, <1>8, <1>9, <1>10, <1>11, <1>12 DEF Next, Traffic, Interventions

LEMMA BreakerTyped == Spec => []Typed
<1>1. Init => Typed
    BY InitTyped, BreakerAssumption
<1>2. Typed /\ [Next]_vars => Typed'
    BY NextTyped, BreakerAssumption
<1> QED BY <1>1, <1>2, PTL DEF Spec

-----------------------------------------------------------------------------

\* The counters, the window and the half-open slots stay within their limits
\* whatever order calls enter and end in, and whatever an operator does.
THEOREM BreakerTypeOK == Spec => []TypeOK
BY BreakerTyped, PTL DEF Typed

\* An OPEN breaker is left only by a trial, after its timeout: no late answer of
\* a call admitted earlier ends the cooling-off.
THEOREM OpenHoldsForItsTimeout == Spec => OpenHolds
<1>1. ASSUME [Next]_vars, state = "OPEN", state' # "OPEN",
             interventions' = interventions, saved' = saved, Typed
      PROVE  cooled /\ state' = "HALF_OPEN" /\ inFlight # inFlight'
  <2>1. CASE \E c \in Calls : Enter(c)
      BY <1>1, <2>1 DEF Enter, EnterClosed, EnterOpen, EnterHalfOpen, ChangeState, Start
  <2>2. CASE \E c \in Calls : Exit(c)
      BY <1>1, <2>2 DEF Exit, ExitFailure, ExitSuccess, AfterFailure, AfterSuccess, ChangeState
  <2>3. CASE Cool \/ Recover \/ UNCHANGED vars
      BY <1>1, <2>3 DEF Cool, Recover, vars
  <2>4. CASE Reset \/ ForceOpen \/ ScopeEnter
    <3>1. interventions' = interventions + 1 /\ interventions \in Nat
        BY <1>1, <2>4 DEF Reset, ForceOpen, ScopeEnter, Intervene, Typed, TypeOK
    <3> QED BY <1>1, <3>1
  <2>5. CASE ScopeExit
      BY <1>1, <2>5 DEF ScopeExit
  <2> QED BY <1>1, <2>1, <2>2, <2>3, <2>4, <2>5 DEF Next, Traffic, Interventions
<1> QED BY <1>1, BreakerTyped, PTL DEF Spec, OpenHolds

-----------------------------------------------------------------------------

SlotsInv == Typed /\ NoSlotLeak

LEMMA NextNoSlotLeak == ASSUME BreakerAssumption, SlotsInv, [Next]_vars PROVE NoSlotLeak'
<1>1. /\ slots \in Nat /\ inFlight \in SUBSET Calls
      /\ ~restored => slots <= Cardinality(inFlight)
    BY DEF SlotsInv, Typed, TypeOK, NoSlotLeak
<1>2. IsFiniteSet(inFlight) /\ Cardinality(inFlight) \in Nat
    BY <1>1, FS_Subset, FS_CardinalityType DEF BreakerAssumption
<1>3. ASSUME NEW c \in Calls, Enter(c) PROVE NoSlotLeak'
  <2>1. c \notin inFlight /\ inFlight' = inFlight \union {c} /\ restored' = restored
      BY <1>3 DEF Enter, EnterClosed, EnterOpen, EnterHalfOpen, Start
  <2>2. Cardinality(inFlight') = Cardinality(inFlight) + 1
    <3>1. Cardinality(inFlight \union {c}) = Cardinality(inFlight) + 1
        BY <1>2, <2>1, FS_AddElement
    <3> QED BY <2>1, <3>1
  <2>3. slots' \in {slots, slots + 1, 1}
      BY <1>3 DEF Enter, EnterClosed, EnterOpen, EnterHalfOpen
  <2>4. \A s, n \in Nat : 1 <= n + 1 /\ (s <= n => s <= n + 1 /\ s + 1 <= n + 1)
      OBVIOUS
  <2>5. ~restored => slots' <= Cardinality(inFlight) + 1
      BY <1>1, <1>2, <2>3, <2>4
  <2> QED BY <2>1, <2>2, <2>5 DEF NoSlotLeak
<1>4. ASSUME NEW c \in Calls, Exit(c) PROVE NoSlotLeak'
  <2>1. /\ c \in inFlight /\ inFlight' = inFlight \ {c} /\ restored' = restored
        /\ slots' = MinusOne(slots)
      BY <1>4 DEF Exit, ExitFailure, ExitSuccess, Leave, GiveBack
  <2>2. Cardinality(inFlight') = Cardinality(inFlight) - 1 /\ Cardinality(inFlight) # 0
    <3>1. Cardinality(inFlight \ {c}) = Cardinality(inFlight) - 1
        BY <1>2, <2>1, FS_RemoveElement
    <3>2. Cardinality(inFlight) # 0
        BY <1>2, <2>1, FS_EmptySet
    <3> QED BY <2>1, <3>1, <3>2
  <2>3. \A s, n \in Nat : s <= n /\ n # 0 => MinusOne(s) <= n - 1
      BY DEF MinusOne
  <2> QED BY <1>1, <1>2, <2>1, <2>2, <2>3 DEF NoSlotLeak
<1>5. ASSUME UNCHANGED <<slots, inFlight, restored>> PROVE NoSlotLeak'
    BY <1>1, <1>5 DEF NoSlotLeak
<1>6. ASSUME Reset \/ ScopeEnter PROVE NoSlotLeak'
  <2>1. slots' = 0 /\ inFlight' = inFlight
      BY <1>6 DEF Reset, ScopeEnter, ClearCounters, Intervene
  <2> QED BY <1>2, <2>1 DEF NoSlotLeak
<1>7. ASSUME ScopeExit PROVE NoSlotLeak'
    BY <1>7 DEF ScopeExit, NoSlotLeak
<1>8. CASE Cool \/ Recover \/ ForceOpen \/ UNCHANGED vars
    BY <1>5, <1>8 DEF Cool, Recover, ForceOpen, Intervene, counters, vars
<1> QED BY <1>3, <1>4, <1>6, <1>7, <1>8 DEF Next, Traffic, Interventions

\* Every half-open slot belongs to a call in flight, so it is always given back,
\* through resets, forced openings and late calls, until a scope ends.
THEOREM SlotsAreReturned == Spec => []NoSlotLeak
<1>1. Init => SlotsInv
  <2>1. Init => slots = 0 /\ inFlight = {}
      BY DEF Init
  <2>2. Cardinality({}) = 0
      BY FS_EmptySet
  <2> QED BY <2>1, <2>2, InitTyped, BreakerAssumption DEF SlotsInv, NoSlotLeak
<1>2. SlotsInv /\ [Next]_vars => SlotsInv'
    BY NextTyped, NextNoSlotLeak, BreakerAssumption DEF SlotsInv
<1> QED BY <1>1, <1>2, PTL DEF Spec, SlotsInv

-----------------------------------------------------------------------------

\* The trials in flight are the slots they took, but for those a stray gave back.
TrialsInv == Typed /\ (state = "HALF_OPEN" => Cardinality(inFlight \ strays) <= slots + gone)

LEMMA NextTrials ==
    ASSUME BreakerAssumption, TrialsInv, [Next]_vars
    PROVE  state' = "HALF_OPEN" => Cardinality(inFlight' \ strays') <= slots' + gone'
<1> DEFINE trials == inFlight \ strays
<1> DEFINE Bounded == Cardinality(inFlight' \ strays') <= slots' + gone'
<1>1. /\ slots \in Nat /\ gone \in Nat /\ inFlight \in SUBSET Calls /\ strays \subseteq inFlight
      /\ state = "HALF_OPEN" => Cardinality(trials) <= slots + gone
    BY DEF TrialsInv, Typed, TypeOK
<1>2. /\ IsFiniteSet(inFlight) /\ IsFiniteSet(trials) /\ IsFiniteSet(strays)
      /\ Cardinality(trials) \in Nat
    BY <1>1, FS_Subset, FS_CardinalityType DEF BreakerAssumption
<1>3. Cardinality({}) = 0
    BY FS_EmptySet
<1>4. ASSUME NEW c \in Calls, Enter(c), state' = "HALF_OPEN" PROVE Bounded
  <2>1. c \notin inFlight /\ inFlight' = inFlight \union {c} /\ Follow
      BY <1>4 DEF Enter, EnterClosed, EnterOpen, EnterHalfOpen, Start
  <2>2. CASE state = "HALF_OPEN"
    <3>1. slots' = slots + 1
        BY <1>4, <2>2 DEF Enter, EnterClosed, EnterOpen, EnterHalfOpen
    <3>2. strays' = strays /\ strays \ inFlight' = {}
        BY <1>1, <1>4, <2>1, <2>2 DEF Follow
    <3>3. gone' = gone
        BY <1>1, <1>3, <1>4, <2>1, <2>2, <3>2 DEF Follow
    <3>4. inFlight' \ strays' = trials \union {c} /\ c \notin trials
        BY <1>1, <2>1, <3>2
    <3>5. Cardinality(inFlight' \ strays') = Cardinality(trials) + 1
        BY <1>2, <3>4, FS_AddElement
    <3> HIDE DEF trials
    <3> QED BY <1>1, <1>2, <2>2, <3>1, <3>3, <3>5
  <2>3. CASE state # "HALF_OPEN"
    <3>1. slots' = 1
        BY <1>4, <2>3 DEF Enter, EnterClosed, EnterOpen, EnterHalfOpen
    <3>2. strays' = inFlight /\ gone' = 0
        BY <1>4, <2>1, <2>3 DEF Follow
    <3>3. inFlight' \ strays' = {c}
        BY <2>1, <3>2
    <3>4. Cardinality(inFlight' \ strays') = 1
        BY <3>3, FS_Singleton
    <3> QED BY <3>1, <3>2, <3>4
  <2> QED BY <2>2, <2>3
<1>5. ASSUME NEW c \in Calls, Exit(c), state' = "HALF_OPEN" PROVE Bounded
  <2>1. /\ c \in inFlight /\ inFlight' = inFlight \ {c} /\ Follow /\ slots' = MinusOne(slots)
      BY <1>5 DEF Exit, ExitFailure, ExitSuccess, Leave, GiveBack
  <2>2. state = "HALF_OPEN"
      BY <1>5 DEF Exit, ExitFailure, ExitSuccess, AfterFailure, AfterSuccess, ChangeState
  <2>3. strays' = strays \ {c} /\ inFlight' \ strays' = trials \ {c}
      BY <1>1, <1>5, <2>1, <2>2 DEF Follow
  <2>4. gone' = gone + Cardinality(strays \ inFlight')
      BY <1>5, <2>1, <2>2 DEF Follow
  <2>5. \A s \in Nat : MinusOne(s) \in Nat /\ s <= MinusOne(s) + 1
      BY DEF MinusOne
  <2>6. CASE c \in strays
    <3>1. strays \ inFlight' = {c} /\ trials \ {c} = trials
        BY <1>1, <2>1, <2>6
    <3>2. gone' = gone + 1
        BY <2>4, <3>1, FS_Singleton
    <3>3. Cardinality(inFlight' \ strays') = Cardinality(trials)
        BY <2>3, <3>1
    <3> HIDE DEF trials
    <3> QED BY <1>1, <1>2, <2>1, <2>2, <2>5, <3>2, <3>3
  <2>7. CASE c \notin strays
    <3>1. strays \ inFlight' = {} /\ c \in trials
        BY <1>1, <2>1, <2>7
    <3>2. gone' = gone
        BY <1>1, <1>3, <2>4, <3>1
    <3>3. Cardinality(inFlight' \ strays') = Cardinality(trials \ {c})
        BY <2>3
    <3> HIDE DEF trials
    <3>5. Cardinality(trials \ {c}) = Cardinality(trials) - 1
        BY <1>2, <3>1, FS_RemoveElement
    <3>4. \A m, s, g \in Nat : m <= s + g => m - 1 <= MinusOne(s) + g
        BY DEF MinusOne
    <3> QED BY <1>1, <1>2, <2>1, <2>2, <3>2, <3>3, <3>4, <3>5
  <2> QED BY <2>6, <2>7
<1>6. ASSUME Reset \/ ForceOpen \/ ScopeEnter PROVE state' # "HALF_OPEN"
    BY <1>6 DEF Reset, ForceOpen, ScopeEnter, ChangeState
<1>7. ASSUME ScopeExit, Typed' PROVE Bounded
  <2>1. inFlight' \ strays' = {} /\ gone' = 0 /\ slots' \in Nat
      BY <1>7 DEF ScopeExit, Typed, TypeOK
  <2> QED BY <1>3, <2>1
<1>8. ASSUME Cool \/ Recover \/ UNCHANGED vars
      PROVE  UNCHANGED <<inFlight, strays, slots, gone, state>>
    BY <1>8 DEF Cool, Recover, counters, trialLog, vars
<1>9. Typed'
    BY NextTyped DEF TrialsInv
<1> QED BY <1>1, <1>4, <1>5, <1>6, <1>7, <1>8, <1>9 DEF Next, Traffic, Interventions

\* Any exit gives back a half-open slot, whoever took it, and still the trials
\* that run at once exceed the limit by at most one for each call from before the
\* half-open period that ended in it.
THEOREM TrialsOverloadBounded == Spec => []OverloadBounded
<1>1. Init => TrialsInv
    BY InitTyped, BreakerAssumption DEF Init, TrialsInv
<1>2. TrialsInv /\ [Next]_vars => TrialsInv'
    BY NextTyped, NextTrials, BreakerAssumption DEF TrialsInv
<1>3. TrialsInv => OverloadBounded
  <2>1. ASSUME TrialsInv, state = "HALF_OPEN"
        PROVE  Cardinality(inFlight \ strays) <= HalfOpenMax + gone
    <3>1. /\ slots \in Nat /\ HalfOpenMax \in Nat /\ slots <= HalfOpenMax /\ gone \in Nat
          /\ inFlight \ strays \subseteq Calls
        BY <2>1, BreakerAssumption DEF TrialsInv, Typed, TypeOK, BreakerAssumption
    <3>2. Cardinality(inFlight \ strays) \in Nat
        BY <3>1, FS_Subset, FS_CardinalityType, BreakerAssumption DEF BreakerAssumption
    <3> QED BY <2>1, <3>1, <3>2 DEF TrialsInv
  <2> QED BY <2>1 DEF OverloadBounded
<1> QED BY <1>1, <1>2, <1>3, PTL DEF Spec

-----------------------------------------------------------------------------
(***************************************************************************)
(* The global throttle                                                     *)
(***************************************************************************)

\* The arithmetic of rates and units.
LEMMA Products ==
    /\ \A a, b \in Nat : a * b \in Nat
    /\ \A a, b \in Nat : a * (b + 1) = a * b + a
    /\ \A a, b \in Nat : (a + 1) * b = a * b + b
    /\ \A a \in Nat : a * 0 = 0 /\ 0 * a = 0
    /\ \A a, b \in Nat : b > 0 => a * (b - 1) = a * b - a
  OBVIOUS

\* The capacity of the bucket is a number, and holds a request while the throttle is on.
LEMMA BurstHoldsARequest ==
    ASSUME NEW r \in Nat
    PROVE  Burst(r) \in Nat /\ (r > 0 => Burst(r) >= Unit)
  <1>1. r * TicksPerSecond \in Nat
    BY Products, ThrottleAssumption
  <1>. DEFINE p == r * TicksPerSecond
  <1>2. Burst(r) = IF r = 0 THEN 0 ELSE IF p < Unit THEN Unit ELSE p
    BY DEF Burst
  <1>3. p \in Nat
    BY <1>1
  <1>. HIDE DEF p
  <1>. QED
    BY <1>2, <1>3, ThrottleAssumption

\* One pass of the loop keeps the types, for a caller and a queue behind it.
LEMMA PassTypes ==
    ASSUME ThrottleTypeOK, NEW c \in Senders, NEW q \in Seq(Senders), Pass(c, q)
    PROVE  /\ tokens' \in 0..Burst(rate)
           /\ queue' \in Seq(Senders)
           /\ sleep' \in 0..Unit
           /\ raised' \subseteq Senders
           /\ sent' \in Nat
  <1>. USE ThrottleAssumption DEF ThrottleTypeOK
  <1>1. rate \in Nat
    OBVIOUS
  <1>2. Burst(rate) \in Nat
    BY <1>1, BurstHoldsARequest
  <1>3. CASE Consume(q)
    BY <1>2, <1>3 DEF Consume
  <1>4. CASE FallAsleep(c, q)
    <2>1. <<c>> \o q \in Seq(Senders)
      OBVIOUS
    <2>. QED
      BY <1>4, <2>1 DEF FallAsleep
  <1>5. CASE DivideByZero(c, q)
    BY <1>5 DEF DivideByZero
  <1>. QED
    BY <1>3, <1>4, <1>5 DEF Pass

\* Types: the bucket never exceeds its capacity and never owes a token, at any rate
\* an operator sets and in the middle of any sleep.
THEOREM ThrottleTyped == ThrottleSpec => []ThrottleTypeOK
  <1>. USE ThrottleAssumption
  <1>1. ThrottleInit => ThrottleTypeOK
    <2>. SUFFICES ASSUME ThrottleInit PROVE ThrottleTypeOK
      OBVIOUS
    <2>1. rate \in Nat
      BY DEF ThrottleInit
    <2>2. Burst(rate) \in Nat
      BY <2>1, BurstHoldsARequest
    <2>. QED
      BY <2>2 DEF ThrottleInit, ThrottleTypeOK
  <1>2. ThrottleTypeOK /\ [ThrottleNext]_throttleVars => ThrottleTypeOK'
    <2>. SUFFICES ASSUME ThrottleTypeOK, [ThrottleNext]_throttleVars PROVE ThrottleTypeOK'
      OBVIOUS
    <2>1. rate \in Nat /\ Burst(rate) \in Nat
      BY BurstHoldsARequest DEF ThrottleTypeOK
    <2>2. ASSUME NEW c \in Senders, Acquire(c) PROVE ThrottleTypeOK'
      <3>1. Pass(c, <<>>) /\ <<>> \in Seq(Senders)
        BY <2>2 DEF Acquire
      <3>. QED
        BY <2>2, <3>1, PassTypes DEF Acquire, ThrottleTypeOK
    <2>3. ASSUME NEW c \in Senders, Enqueue(c) PROVE ThrottleTypeOK'
      BY <2>3 DEF Enqueue, ThrottleTypeOK
    <2>4. CASE Resume
      <3>1. Head(queue) \in Senders /\ Tail(queue) \in Seq(Senders)
        BY <2>4 DEF Resume, ThrottleTypeOK
      <3>2. Pass(Head(queue), Tail(queue))
        BY <2>4 DEF Resume
      <3>. QED
        BY <2>4, <3>1, <3>2, PassTypes DEF Resume, ThrottleTypeOK
    <2>5. ASSUME NEW i \in 1..Len(queue), CancelAcquire(i) PROVE ThrottleTypeOK'
      <3>1. SubSeq(queue, 1, i - 1) \in Seq(Senders)
        BY DEF ThrottleTypeOK
      <3>2. SubSeq(queue, i + 1, Len(queue)) \in Seq(Senders)
        BY DEF ThrottleTypeOK
      <3>3. queue' \in Seq(Senders)
        BY <2>5, <3>1, <3>2 DEF CancelAcquire
      <3>. QED
        BY <2>5, <3>3 DEF CancelAcquire, ThrottleTypeOK
    <2>6. ASSUME NEW r \in Rates, Configure(r) PROVE ThrottleTypeOK'
      <3>1. r \in Nat /\ Burst(r) \in Nat
        BY BurstHoldsARequest
      <3>. QED
        BY <2>6, <3>1 DEF Configure, ThrottleTypeOK
    <2>7. CASE Tick
      <3>1. Refilled \in 0..Burst(rate)
        BY <2>1 DEF Refilled, ThrottleTypeOK
      <3>2. since' \in 0..Horizon /\ sent' \in Nat
        BY <2>7 DEF Tick, ThrottleTypeOK
      <3>. QED
        BY <2>7, <3>1, <3>2 DEF Tick, ThrottleTypeOK
    <2>8. CASE UNCHANGED throttleVars
      BY <2>8 DEF throttleVars, ThrottleTypeOK
    <2>. QED
      BY <2>2, <2>3, <2>4, <2>5, <2>6, <2>7, <2>8 DEF ThrottleNext
  <1>. QED
    BY <1>1, <1>2, PTL DEF ThrottleSpec

-----------------------------------------------------------------------------

\* A pass spends from the bucket what it sends.
LEMMA PassKeepsCeiling ==
    ASSUME ThrottleTypeOK, Ceiling, NEW c, NEW q, Pass(c, q)
    PROVE  sent' * Unit + tokens' <= Burst(rate) + rate * since
  <1>. DEFINE b == Burst(rate) + rate * since
  <1>1. sent * Unit + tokens <= b
    BY DEF Ceiling
  <1>2. sent \in Nat /\ Unit \in Nat /\ rate \in Nat /\ since \in Nat
    BY ThrottleAssumption DEF ThrottleTypeOK
  <1>3. Burst(rate) \in Nat /\ rate * since \in Nat
    BY <1>2, BurstHoldsARequest, Products
  <1>4. b \in Nat /\ tokens \in Nat
    BY <1>3 DEF ThrottleTypeOK
  <1>. HIDE DEF b
  <1>5. CASE Consume(q)
    <2>1. (sent + 1) * Unit = sent * Unit + Unit /\ sent * Unit \in Nat
      BY <1>2, Products
    <2>2. sent' = sent + 1 /\ tokens' = tokens - Unit
      BY <1>5 DEF Consume
    <2>3. (sent + 1) * Unit + (tokens - Unit) <= b
      BY <1>1, <1>2, <1>4, <2>1
    <2>. QED
      BY <2>2, <2>3 DEF b
  <1>6. CASE FallAsleep(c, q) \/ DivideByZero(c, q)
    BY <1>1, <1>6 DEF FallAsleep, DivideByZero, b
  <1>. QED
    BY <1>5, <1>6 DEF Pass

\* The ceiling on target traffic: over any stretch of time without a settings
\* request, at most a burst and the rate times the stretch, whatever callers do.
THEOREM TrafficUnderCeiling == ThrottleSpec => []Ceiling
  <1>1. ThrottleInit => Ceiling
    <2>. SUFFICES ASSUME ThrottleInit PROVE Ceiling
      OBVIOUS
    <2>1. rate \in Nat
      BY ThrottleAssumption DEF ThrottleInit
    <2>2. Burst(rate) \in Nat /\ 0 * Unit = 0 /\ rate * 0 = 0
      BY <2>1, BurstHoldsARequest, Products, ThrottleAssumption
    <2>. QED
      BY <2>2 DEF ThrottleInit, Ceiling
  <1>2. ThrottleTypeOK /\ Ceiling /\ [ThrottleNext]_throttleVars => Ceiling'
    <2>. SUFFICES ASSUME ThrottleTypeOK, Ceiling, [ThrottleNext]_throttleVars PROVE Ceiling'
      OBVIOUS
    <2>1. /\ sent \in Nat /\ Unit \in Nat /\ rate \in Nat /\ since \in Nat
          /\ tokens \in Nat /\ Burst(rate) \in Nat
      BY ThrottleAssumption, BurstHoldsARequest DEF ThrottleTypeOK
    <2>2. ASSUME NEW c \in Senders, Acquire(c) PROVE Ceiling'
      <3>1. sent' * Unit + tokens' <= Burst(rate) + rate * since
        BY <2>2, PassKeepsCeiling DEF Acquire
      <3>. QED
        BY <2>2, <3>1 DEF Acquire, Ceiling, Burst
    <2>3. CASE Resume
      <3>1. sent' * Unit + tokens' <= Burst(rate) + rate * since
        BY <2>3, PassKeepsCeiling DEF Resume
      <3>. QED
        BY <2>3, <3>1 DEF Resume, Ceiling, Burst
    <2>4. ASSUME NEW c \in Senders, Enqueue(c) PROVE Ceiling'
      BY <2>4 DEF Enqueue, Ceiling, Burst
    <2>5. ASSUME NEW i \in 1..Len(queue), CancelAcquire(i) PROVE Ceiling'
      BY <2>5 DEF CancelAcquire, Ceiling, Burst
    <2>6. ASSUME NEW r \in Rates, Configure(r) PROVE Ceiling'
      <3>1. Burst(r) \in Nat /\ 0 * Unit = 0 /\ r * 0 = 0
        BY <2>1, BurstHoldsARequest, Products, ThrottleAssumption
      <3>2. 0 * Unit + Burst(r) <= Burst(r) + r * 0
        BY <3>1
      <3>3. rate' = r /\ tokens' = Burst(r) /\ sent' = 0 /\ since' = 0
        BY <2>6 DEF Configure
      <3>4. Burst(rate)' = Burst(r)
        BY <3>3 DEF Burst
      <3>. QED
        BY <3>2, <3>3, <3>4 DEF Ceiling
    <2>7. CASE Tick
      <3>1. tokens' <= tokens + rate /\ tokens' <= Burst(rate) /\ tokens' \in Nat
        BY <2>1, <2>7 DEF Tick, Refilled
      <3>2. rate' = rate /\ Burst(rate)' = Burst(rate)
        BY <2>7 DEF Tick, Burst
      <3>3. CASE since < Horizon
        <4>1. since' = since + 1 /\ sent' = sent
          BY <2>7, <3>3 DEF Tick
        <4>2. rate * (since + 1) = rate * since + rate /\ rate * since \in Nat /\ sent * Unit \in Nat
          BY <2>1, Products
        <4>3. \A u, t, v, b, r, p \in Nat :
                 u + t <= b + p /\ v <= t + r => u + v <= b + (p + r)
          OBVIOUS
        <4>4. sent * Unit + tokens' <= Burst(rate) + (rate * since + rate)
          BY <2>1, <3>1, <4>2, <4>3 DEF Ceiling
        <4>. QED
          BY <3>2, <4>1, <4>2, <4>4 DEF Ceiling
      <3>4. CASE ~(since < Horizon)
        <4>1. since' = 0 /\ sent' = 0
          BY <2>7, <3>4 DEF Tick
        <4>2. rate * 0 = 0 /\ 0 * Unit = 0
          BY <2>1, Products
        <4>3. 0 * Unit + tokens' <= Burst(rate) + rate * 0
          BY <2>1, <3>1, <4>2
        <4>. QED
          BY <3>2, <4>1, <4>3 DEF Ceiling
      <3>. QED
        BY <3>3, <3>4
    <2>8. CASE UNCHANGED throttleVars
      BY <2>8 DEF throttleVars, Ceiling, Burst
    <2>. QED
      BY <2>2, <2>3, <2>4, <2>5, <2>6, <2>7, <2>8 DEF ThrottleNext
  <1>. QED
    BY <1>1, <1>2, ThrottleTyped, PTL DEF ThrottleSpec

-----------------------------------------------------------------------------

\* Nobody takes what a sleeper waits for, at any rate and through any change of it.
THEOREM OneSleepIsEnough == ThrottleSpec => [](WakesToAToken /\ (sleep > 0 => queue # <<>>))
  <1>. DEFINE Inv == WakesToAToken /\ (sleep > 0 => queue # <<>>)
  <1>1. ThrottleInit => Inv
    BY DEF ThrottleInit, WakesToAToken
  <1>2. ThrottleTypeOK /\ Inv /\ [ThrottleNext]_throttleVars => Inv'
    <2>. SUFFICES ASSUME ThrottleTypeOK, Inv, [ThrottleNext]_throttleVars PROVE Inv'
      OBVIOUS
    <2>1. rate \in Nat /\ tokens \in Nat /\ sleep \in Nat /\ Burst(rate) \in Nat
          /\ queue \in Seq(Senders)
      BY ThrottleAssumption, BurstHoldsARequest DEF ThrottleTypeOK
    <2>2. ASSUME NEW c, NEW q \in Seq(Senders), Pass(c, q), sleep = 0, rate' = rate PROVE Inv'
      <3>1. CASE FallAsleep(c, q)
        <4>1. PICK k \in 0..Unit : Nap(k) /\ sleep' = k
          BY <3>1 DEF FallAsleep
        <4>2. tokens' = tokens /\ tokens + rate * k >= Unit
          BY <3>1, <4>1 DEF FallAsleep, Nap
        <4>3. queue' # <<>>
          BY <3>1 DEF FallAsleep
        <4>4. tokens' + rate' * sleep' >= Unit
          BY <2>2, <4>1, <4>2
        <4>. QED
          BY <4>3, <4>4 DEF WakesToAToken
      <3>2. CASE Consume(q) \/ DivideByZero(c, q)
        BY <2>2, <3>2 DEF Consume, DivideByZero, WakesToAToken
      <3>. QED
        BY <2>2, <3>1, <3>2 DEF Pass
    <2>3. ASSUME NEW c \in Senders, Acquire(c) PROVE Inv'
      <3>1. sleep = 0
        BY <2>1, <2>3 DEF Acquire
      <3>2. Pass(c, <<>>) /\ <<>> \in Seq(Senders) /\ rate' = rate
        BY <2>3 DEF Acquire
      <3>. HIDE DEF Inv
      <3>. QED
        BY <2>2, <3>1, <3>2, Zenon
    <2>4. CASE Resume
      <3>1. Pass(Head(queue), Tail(queue)) /\ sleep = 0 /\ rate' = rate
        BY <2>4 DEF Resume
      <3>2. Tail(queue) \in Seq(Senders)
        BY <2>1, <2>4 DEF Resume
      <3>. HIDE DEF Inv
      <3>. QED
        BY <2>2, <3>1, <3>2, Zenon
    <2>5. ASSUME NEW c \in Senders, Enqueue(c) PROVE Inv'
      BY <2>1, <2>5 DEF Enqueue, WakesToAToken
    <2>6. ASSUME NEW i \in 1..Len(queue), CancelAcquire(i) PROVE Inv'
      <3>1. CASE i = 1
        BY <2>6, <3>1 DEF CancelAcquire, WakesToAToken
      <3>2. CASE i # 1
        <4>1. Len(SubSeq(queue, 1, i - 1)) = i - 1 /\ SubSeq(queue, 1, i - 1) \in Seq(Senders)
          BY <2>1
        <4>2. SubSeq(queue, i + 1, Len(queue)) \in Seq(Senders)
          BY <2>1
        <4>. DEFINE ahead == SubSeq(queue, 1, i - 1)
                    behind == SubSeq(queue, i + 1, Len(queue))
        <4>3. queue' = ahead \o behind
          BY <2>6 DEF CancelAcquire
        <4>4. Len(ahead) >= 1 /\ ahead \in Seq(Senders) /\ behind \in Seq(Senders)
          BY <2>1, <2>6, <3>2, <4>1, <4>2
        <4>. HIDE DEF ahead, behind
        <4>5. ahead \o behind # <<>>
          BY <4>4
        <4>. QED
          BY <2>6, <3>2, <4>3, <4>5 DEF CancelAcquire, WakesToAToken
      <3>. QED
        BY <3>1, <3>2
    <2>7. ASSUME NEW r \in Rates, Configure(r) PROVE Inv'
      <3>1. r \in Nat /\ Burst(r) \in Nat /\ (r > 0 => Burst(r) >= Unit)
        BY BurstHoldsARequest, ThrottleAssumption
      <3>2. r * sleep \in Nat
        BY <2>1, <3>1, Products
      <3>3. rate' = r /\ tokens' = Burst(r) /\ sleep' = sleep /\ queue' = queue
        BY <2>7 DEF Configure
      <3>4. r > 0 => Burst(r) + r * sleep >= Unit
        BY <3>1, <3>2, ThrottleAssumption
      <3>. QED
        BY <3>3, <3>4 DEF WakesToAToken
    <2>8. CASE Tick
      <3>1. /\ tokens' = Refilled /\ rate' = rate /\ queue' = queue
            /\ sleep' = IF sleep > 0 THEN sleep - 1 ELSE 0
        BY <2>8 DEF Tick
      <3>2. sleep' > 0 => queue' # <<>>
        BY <2>1, <3>1
      <3>3. ASSUME sleep' > 0, rate > 0 PROVE tokens' + rate * sleep' >= Unit
        <4>1. sleep > 0 /\ sleep' = sleep - 1 /\ sleep - 1 \in Nat
          BY <2>1, <3>1, <3>3
        <4>2. rate * (sleep - 1) = rate * sleep - rate /\ rate * sleep \in Nat
              /\ rate * (sleep - 1) \in Nat
          BY <2>1, <4>1, Products
        <4>3. tokens + rate * sleep >= Unit
          BY <3>3, <4>1 DEF WakesToAToken
        <4>4. Burst(rate) >= Unit
          BY <2>1, <3>3, BurstHoldsARequest
        <4>5. Refilled + rate * (sleep - 1) >= Unit
          BY <2>1, <4>2, <4>3, <4>4, ThrottleAssumption DEF Refilled
        <4>. QED
          BY <3>1, <4>1, <4>5
      <3>. QED
        BY <3>1, <3>2, <3>3 DEF WakesToAToken
    <2>9. CASE UNCHANGED throttleVars
      BY <2>9 DEF throttleVars, WakesToAToken
    <2>. QED
      BY <2>3, <2>4, <2>5, <2>6, <2>7, <2>8, <2>9 DEF ThrottleNext
  <1>. QED
    BY <1>1, <1>2, ThrottleTyped, PTL DEF ThrottleSpec

-----------------------------------------------------------------------------
(***************************************************************************)
(* The execution registry                                                  *)
(*                                                                         *)
(* A running call holds the flight of each of its keys (FlightsHeld), so no*)
(* two running calls share one.  Two that run at once are both marked      *)
(* (BothMarked), so the budget's delta of a call that is not marked is its *)
(* own (DeltaIsOwn).  And a run call runs only while its key has retries   *)
(* left, which nobody else can use up meanwhile (RetriesLeft).  What counts*)
(* as an attempt is over, so no late answer adds to it (TriedAreOver).     *)
(***************************************************************************)

FlightsHeld == \A c \in Callers : pc[c] = "running" => \A k \in KeysOf[c] : flying[k] = c
BothMarked == \A c, d \in Callers : pc[c] = "running" /\ pc[d] = "running" /\ c # d => c \in overlapped
DeltaIsOwn == \A c \in Callers : pc[c] = "running" /\ c \notin overlapped => used = before[c] + sends[c]
NothingSentYet == \A c \in Callers : pc[c] \in {"queued", "asking", "waiting"} => sends[c] = 0
RepliesAreSent == \A c \in Callers : replies[c] <= sends[c]
TriedAreOver == \A k \in Keys : \A c \in tries[k] : pc[c] = "answered"

RunInv ==
    FlightsHeld /\ BothMarked /\ DeltaIsOwn /\ NothingSentYet /\ RepliesAreSent /\ TriedAreOver

Counted(k) == {c \in tries[k] \intersect Observed : replies[c] > 0}
RetriesLeft ==
    \A c \in Limited : pc[c] = "running" =>
        \A k \in KeysOf[c] : stored[k] = None /\ incomplete[k] < RetryLimit
CountedOnce == \A k \in Keys : stored[k] = None => Cardinality(Counted(k)) <= incomplete[k]
RetriesInv == RetriesLeft /\ CountedOnce /\ ObservedRetriesAreBounded

-----------------------------------------------------------------------------
LEMMA SpentIsReal ==
    ASSUME RegistryTypeOK, RunInv, RegistryAssumption, NEW c \in Callers, pc[c] = "running"
    PROVE  Spent(c) \in Nat /\ Spent(c) <= sends[c]
<1>1. sends[c] \in Nat /\ replies[c] \in Nat /\ before[c] \in Nat /\ used \in Nat
    BY DEF RegistryTypeOK
<1>2. CASE c \in Declared
    BY <1>1, <1>2 DEF Spent, RunInv, RepliesAreSent
<1>3. CASE c \notin Declared /\ c \in overlapped
    BY <1>1, <1>3 DEF Spent
<1>4. CASE c \notin Declared /\ c \notin overlapped
  <2>1. used = before[c] + sends[c]
      BY <1>4 DEF RunInv, DeltaIsOwn
  <2> QED BY <1>1, <1>4, <2>1 DEF Spent
<1> QED BY <1>2, <1>3, <1>4

\* A flight that lands leaves the flights of the other running calls alone.
LEMMA LandKeepsFlights ==
    ASSUME RegistryTypeOK, RunInv, RegistryAssumption, NEW c \in Callers, pc[c] = "running",
           NEW where \in {"asking", "answered"}, Land(c, where)
    PROVE  /\ pc' \in [Callers -> Positions] /\ on' \in [Callers -> Callers \union {None}]
           /\ flying' \in [Keys -> Callers \union {None}]
           /\ pc'[c] = "answered"
           /\ \A d \in Callers : pc'[d] = "running" <=> (pc[d] = "running" /\ d # c)
           /\ \A d \in Callers : pc'[d] \in {"queued", "asking", "waiting"}
                                    => pc[d] \in {"queued", "asking", "waiting"}
           /\ \A d \in Callers : pc[d] = "answered" => pc'[d] = "answered"
           /\ FlightsHeld'
<1>1. /\ pc' \in [Callers -> Positions] /\ on' \in [Callers -> Callers \union {None}]
      /\ flying' \in [Keys -> Callers \union {None}]
      /\ pc'[c] = "answered"
      /\ \A d \in Callers : pc'[d] = "running" <=> (pc[d] = "running" /\ d # c)
      /\ \A d \in Callers : pc'[d] \in {"queued", "asking", "waiting"}
                                => pc[d] \in {"queued", "asking", "waiting"}
      /\ \A d \in Callers : pc[d] = "answered" => pc'[d] = "answered"
    BY DEF Land, RegistryTypeOK, Positions
<1>2. ASSUME NEW d \in Callers, pc'[d] = "running", NEW k \in KeysOf[d]
      PROVE  flying'[k] = d
  <2>1. pc[d] = "running" /\ d # c
      BY <1>1, <1>2
  <2>2. k \in Keys /\ flying[k] = d
      BY <1>2, <2>1 DEF RunInv, FlightsHeld, RegistryAssumption
  <2>3. k \notin KeysOf[c]
      BY <2>1, <2>2 DEF RunInv, FlightsHeld
  <2> QED BY <2>2, <2>3 DEF Land
<1> QED BY <1>1, <1>2 DEF FlightsHeld

\* A step that takes a call from one position to another, neither of them running.
Moved(c, from, to) ==
    /\ pc[c] = from /\ from \in {"queued", "asking", "waiting"}
    /\ to \in Positions \ {"running"}
    /\ pc' = [pc EXCEPT ![c] = to] /\ on' \in [Callers -> Callers \union {None}]
    /\ UNCHANGED record
    /\ UNCHANGED <<used, before, sends, replies>>
    /\ overlapped' = overlapped \/ overlapped' = overlapped \ {c}

LEMMA MoveKeeps ==
    ASSUME RegistryTypeOK, RunInv, RetriesInv, SavingsAreReal, RegistryAssumption,
           NEW c \in Callers, NEW from, NEW to, Moved(c, from, to)
    PROVE  RegistryTypeOK' /\ RunInv' /\ RetriesInv' /\ SavingsAreReal'
<1>1. /\ \A d \in Callers : pc'[d] = "running" <=> pc[d] = "running"
      /\ \A d \in Callers : pc'[d] \in {"queued", "asking", "waiting"}
                                => pc[d] \in {"queued", "asking", "waiting"}
      /\ \A d \in Callers : pc[d] = "answered" => pc'[d] = "answered"
      /\ pc' \in [Callers -> Positions]
    BY DEF Moved, RegistryTypeOK, Positions
<1>2. flying' = flying /\ stored' = stored /\ incomplete' = incomplete /\ tries' = tries
    BY DEF Moved, record
<1>3. used' = used /\ before' = before /\ sends' = sends /\ replies' = replies
    BY DEF Moved
<1>4. \A d \in Callers : pc[d] = "running" => (d \in overlapped' <=> d \in overlapped)
    BY DEF Moved
<1>5. overlapped' \in SUBSET Callers /\ on' \in [Callers -> Callers \union {None}]
    BY DEF Moved, RegistryTypeOK
<1>6. RegistryTypeOK'
    BY <1>1, <1>2, <1>3, <1>5 DEF RegistryTypeOK
<1>7. FlightsHeld' /\ BothMarked' /\ DeltaIsOwn' /\ NothingSentYet'
    BY <1>1, <1>2, <1>3, <1>4 DEF RunInv, FlightsHeld, BothMarked, DeltaIsOwn, NothingSentYet
<1>8. RetriesInv'
  <2>1. \A k \in Keys : Counted(k)' = Counted(k)
      BY <1>2, <1>3 DEF Counted
  <2> QED BY <1>1, <1>2, <2>1 DEF RetriesInv, RetriesLeft, CountedOnce, ObservedRetriesAreBounded, Counted,
             RegistryAssumption
<1>9. SavingsAreReal'
    BY <1>2 DEF SavingsAreReal
<1>10. RepliesAreSent' /\ TriedAreOver'
    BY <1>1, <1>2, <1>3 DEF RunInv, RepliesAreSent, TriedAreOver, RegistryTypeOK
<1> QED BY <1>6, <1>7, <1>8, <1>9, <1>10 DEF RunInv

LEMMA MovesOf ==
    ASSUME RegistryTypeOK, RegistryAssumption, NEW c \in Callers
    PROVE  /\ TakeSlot(c) => Moved(c, "queued", "asking")
           /\ Hit(c) => Moved(c, "asking", "answered")
           /\ Wait(c) => Moved(c, "asking", "waiting")
           /\ Refer(c) => Moved(c, "asking", "answered")
           /\ Cancel(c) /\ pc[c] # "running" => Moved(c, "waiting", "answered")
<1>1. Flights(c) \subseteq Callers
    BY DEF Flights, RegistryTypeOK, RegistryAssumption
<1> QED BY <1>1 DEF TakeSlot, Hit, Wait, Refer, Cancel, Moved, record, account, Positions, RegistryTypeOK

-----------------------------------------------------------------------------
LEMMA MissKeeps ==
    ASSUME RegistryTypeOK, RunInv, RetriesInv, SavingsAreReal, RegistryAssumption,
           NEW c \in Callers, Miss(c)
    PROVE  RegistryTypeOK' /\ RunInv' /\ RetriesInv' /\ SavingsAreReal'
<1>1. /\ pc[c] = "asking" /\ pc'[c] = "running" /\ pc' \in [Callers -> Positions]
      /\ \A d \in Callers : d # c => pc'[d] = pc[d]
    BY DEF Miss, RegistryTypeOK, Positions
<1>2. stored' = stored /\ incomplete' = incomplete /\ tries' = tries /\ used' = used
      /\ sends' = sends /\ replies' = replies
    BY DEF Miss
<1>3. /\ before' \in [Callers -> Nat] /\ before'[c] = used
      /\ \A d \in Callers : d # c => before'[d] = before[d]
    BY DEF Miss, RegistryTypeOK
<1>4. overlapped' \in SUBSET Callers /\ overlapped \subseteq overlapped'
    BY DEF Miss, Overlap, Running, RegistryTypeOK
<1>5. RegistryTypeOK'
  <2>1. flying' \in [Keys -> Callers \union {None}]
      BY DEF Miss, RegistryTypeOK
  <2>2. on' = on
      BY DEF Miss
  <2> QED BY <1>1, <1>2, <1>3, <1>4, <2>1, <2>2 DEF RegistryTypeOK
<1>6. FlightsHeld'
  <2> SUFFICES ASSUME NEW d \in Callers, pc'[d] = "running", NEW k \in KeysOf[d]
               PROVE  flying'[k] = d
      BY DEF FlightsHeld
  <2>1. k \in Keys
      BY DEF RegistryAssumption
  <2>2. CASE d = c
      BY <2>1, <2>2 DEF Miss
  <2>3. CASE d # c
    <3>1. flying[k] = d
        BY <1>1, <2>3 DEF RunInv, FlightsHeld
    <3>2. flying[k] # None
        BY <3>1 DEF RegistryAssumption
    <3>3. k \notin KeysOf[c]
        BY <3>2 DEF Miss, Flights
    <3> QED BY <2>1, <3>1, <3>3 DEF Miss
  <2> QED BY <2>2, <2>3
<1>7. BothMarked'
  <2> SUFFICES ASSUME NEW d \in Callers, NEW e \in Callers, pc'[d] = "running", pc'[e] = "running", d # e
               PROVE  d \in overlapped'
      BY DEF BothMarked
  <2>1. CASE d # c /\ e # c
      BY <1>1, <1>4, <2>1 DEF RunInv, BothMarked
  <2>2. CASE d = c \/ e = c
    <3>1. Running # {} /\ d \in Running \union {c}
        BY <1>1, <2>2 DEF Running
    <3> QED BY <3>1 DEF Miss, Overlap
  <2> QED BY <2>1, <2>2
<1>8. DeltaIsOwn'
  <2> SUFFICES ASSUME NEW d \in Callers, pc'[d] = "running", d \notin overlapped'
               PROVE  used = before'[d] + sends[d]
      BY <1>2 DEF DeltaIsOwn
  <2>1. CASE d = c
    <3>1. sends[c] = 0
        BY <1>1 DEF RunInv, NothingSentYet
    <3>2. used \in Nat
        BY DEF RegistryTypeOK
    <3> QED BY <1>3, <2>1, <3>1, <3>2
  <2>2. CASE d # c
      BY <1>1, <1>3, <1>4, <2>2 DEF RunInv, DeltaIsOwn
  <2> QED BY <2>1, <2>2
<1>9. NothingSentYet' /\ RepliesAreSent' /\ TriedAreOver'
    BY <1>1, <1>2 DEF RunInv, NothingSentYet, RepliesAreSent, TriedAreOver, RegistryTypeOK
<1>10. RetriesLeft'
  <2> SUFFICES ASSUME NEW d \in Limited, pc'[d] = "running", NEW k \in KeysOf[d]
               PROVE  stored[k] = None /\ incomplete[k] < RetryLimit
      BY <1>2 DEF RetriesLeft
  <2>1. CASE d = c
    <3>1. KeysOf[c] = {k} /\ k \in Keys
        BY <2>1 DEF RegistryAssumption
    <3>2. stored[k] = None /\ ~(incomplete[k] >= RetryLimit)
        BY <2>1, <3>1 DEF Miss, Stored, RetryLimited
    <3>3. incomplete[k] \in Nat /\ RetryLimit \in Nat
        BY <3>1 DEF RegistryTypeOK, RegistryAssumption
    <3> QED BY <3>2, <3>3
  <2>2. CASE d # c
      BY <1>1, <2>2 DEF RetriesInv, RetriesLeft, RegistryAssumption
  <2> QED BY <2>1, <2>2
<1>11. CountedOnce' /\ ObservedRetriesAreBounded' /\ SavingsAreReal'
    BY <1>2 DEF RetriesInv, CountedOnce, ObservedRetriesAreBounded, SavingsAreReal, Counted
<1> QED BY <1>5, <1>6, <1>7, <1>8, <1>9, <1>10, <1>11 DEF RunInv, RetriesInv

LEMMA SendKeeps ==
    ASSUME RegistryTypeOK, RunInv, RetriesInv, SavingsAreReal, RegistryAssumption,
           NEW c \in Callers, Send(c)
    PROVE  RegistryTypeOK' /\ RunInv' /\ RetriesInv' /\ SavingsAreReal'
<1>1. pc[c] = "running" /\ pc' = pc /\ overlapped' = overlapped /\ before' = before
    BY DEF Send
<1>2. flying' = flying /\ stored' = stored /\ incomplete' = incomplete /\ tries' = tries /\ on' = on
    BY DEF Send, record
<1>3. sends[c] \in Nat /\ replies[c] \in Nat /\ used \in Nat /\ before[c] \in Nat
    BY DEF RegistryTypeOK
<1>4. /\ used' = used + 1 /\ sends'[c] = sends[c] + 1 /\ sends' \in [Callers -> Nat]
      /\ \A d \in Callers : d # c => sends'[d] = sends[d]
    BY <1>3 DEF Send, RegistryTypeOK
<1>5. /\ replies'[c] \in {replies[c], replies[c] + 1} /\ replies' \in [Callers -> Nat]
      /\ \A d \in Callers : d # c => replies'[d] = replies[d]
    BY <1>3 DEF Send, RegistryTypeOK
<1>6. RegistryTypeOK'
    BY <1>1, <1>2, <1>3, <1>4, <1>5 DEF RegistryTypeOK
<1>7. DeltaIsOwn'
  <2> SUFFICES ASSUME NEW d \in Callers, pc[d] = "running", d \notin overlapped
               PROVE  used' = before[d] + sends'[d]
      BY <1>1 DEF DeltaIsOwn
  <2>1. d = c
      BY <1>1 DEF RunInv, BothMarked
  <2>2. used = before[c] + sends[c]
      BY <1>1, <2>1 DEF RunInv, DeltaIsOwn
  <2> QED BY <1>3, <1>4, <2>1, <2>2
<1>8. FlightsHeld' /\ BothMarked' /\ NothingSentYet'
    BY <1>1, <1>2, <1>4 DEF RunInv, FlightsHeld, BothMarked, NothingSentYet
<1>9. RepliesAreSent' /\ TriedAreOver'
    BY <1>1, <1>2, <1>3, <1>4, <1>5 DEF RunInv, RepliesAreSent, TriedAreOver
<1>10. RetriesInv' /\ SavingsAreReal'
  <2>1. \A k \in Keys : Counted(k)' = Counted(k)
    <3>1. \A k \in Keys : c \notin tries[k] /\ tries[k] \subseteq Callers
        BY <1>1 DEF RunInv, TriedAreOver, RegistryTypeOK
    <3> QED BY <1>2, <1>5, <3>1 DEF Counted
  <2> QED BY <1>1, <1>2, <2>1 DEF RetriesInv, RetriesLeft, CountedOnce, ObservedRetriesAreBounded,
                                  SavingsAreReal, Counted
<1> QED BY <1>6, <1>7, <1>8, <1>9, <1>10 DEF RunInv

\* What the end of a run does to the other calls, whatever it was.
LEMMA EndKeepsRuns ==
    ASSUME RegistryTypeOK, RunInv, RegistryAssumption, NEW c \in Callers, pc[c] = "running",
           NEW where \in {"asking", "answered"}, Land(c, where),
           overlapped' = overlapped \ {c}, used' = used, before' = before, sends' = sends,
           replies' = replies, \A k \in Keys : tries'[k] \subseteq tries[k] \union {c}
    PROVE  RunInv'
<1>1. /\ \A d \in Callers : pc'[d] = "running" <=> (pc[d] = "running" /\ d # c)
      /\ \A d \in Callers : pc'[d] \in {"queued", "asking", "waiting"}
                                => pc[d] \in {"queued", "asking", "waiting"}
      /\ \A d \in Callers : d = c \/ pc[d] = "answered" => pc'[d] = "answered"
      /\ FlightsHeld'
    BY LandKeepsFlights
<1>2. BothMarked' /\ DeltaIsOwn' /\ NothingSentYet' /\ RepliesAreSent'
    BY <1>1 DEF RunInv, BothMarked, DeltaIsOwn, NothingSentYet, RepliesAreSent
<1>3. TriedAreOver'
    BY <1>1 DEF RunInv, TriedAreOver, RegistryTypeOK
<1> QED BY <1>1, <1>2, <1>3 DEF RunInv

LEMMA EndWithoutResult ==
    ASSUME RegistryTypeOK, RunInv, RetriesInv, SavingsAreReal, RegistryAssumption,
           NEW c \in Callers, pc[c] = "running",
           NEW where \in {"asking", "answered"}, Land(c, where),
           overlapped' = overlapped \ {c}, used' = used, before' = before, sends' = sends,
           replies' = replies, stored' = stored, incomplete' = incomplete, tries' = tries
    PROVE  RegistryTypeOK' /\ RunInv' /\ RetriesInv' /\ SavingsAreReal'
<1>1. /\ pc' \in [Callers -> Positions] /\ on' \in [Callers -> Callers \union {None}]
      /\ flying' \in [Keys -> Callers \union {None}]
      /\ \A d \in Callers : pc'[d] = "running" <=> (pc[d] = "running" /\ d # c)
    BY LandKeepsFlights
<1>2. RegistryTypeOK'
    BY <1>1 DEF RegistryTypeOK
<1>3. RunInv'
    BY EndKeepsRuns
<1>4. RetriesInv' /\ SavingsAreReal'
  <2>1. \A k \in Keys : Counted(k)' = Counted(k)
      BY DEF Counted
  <2> QED BY <1>1, <2>1 DEF RetriesInv, RetriesLeft, CountedOnce, ObservedRetriesAreBounded,
                            SavingsAreReal, Counted, RegistryAssumption
<1> QED BY <1>2, <1>3, <1>4

-----------------------------------------------------------------------------
LEMMA ReturnType ==
    ASSUME RegistryTypeOK, RunInv, RegistryAssumption, NEW c \in Callers,
           NEW done, NEW part, Return(c, done, part)
    PROVE  RegistryTypeOK'
<1>1. /\ pc' \in [Callers -> Positions] /\ on' \in [Callers -> Callers \union {None}]
      /\ flying' \in [Keys -> Callers \union {None}]
    BY LandKeepsFlights DEF Return
<1>2. Entry(c) \in Entries
    BY SpentIsReal DEF Return, Entry, Entries, RegistryAssumption, RegistryTypeOK
<1>3. stored' \in [Keys -> Entries \union {None}]
    BY <1>2 DEF Return, RegistryTypeOK
<1>4. incomplete' \in [Keys -> Nat]
    BY DEF Return, RegistryTypeOK
<1>5. tries' \in [Keys -> SUBSET Callers]
    BY DEF Return, RegistryTypeOK
<1> QED BY <1>1, <1>3, <1>4, <1>5 DEF Return, RegistryTypeOK

\* A concluded or uncounted attempt adds nothing to what is counted; a counted
\* one of a run call is recorded as an attempt.
LEMMA ReturnCounts ==
    ASSUME RegistryTypeOK, RunInv, RetriesInv, RegistryAssumption, NEW c \in Callers,
           NEW done, NEW part, Return(c, done, part), NEW k \in Keys
    PROVE  /\ Cardinality(Counted(k)') <= RetryLimit
           /\ stored'[k] = None => Cardinality(Counted(k)') <= incomplete'[k]
<1>1. /\ incomplete[k] \in Nat /\ incomplete'[k] \in Nat /\ RetryLimit \in Nat
      /\ tries[k] \in SUBSET Callers
    BY ReturnType DEF RegistryTypeOK, RegistryAssumption
<1>2. IsFiniteSet(Counted(k)) /\ Cardinality(Counted(k)) \in Nat
    BY <1>1, FS_Subset, FS_CardinalityType DEF Counted, RegistryAssumption
<1>3. Cardinality(Counted(k)) <= RetryLimit
    BY DEF RetriesInv, ObservedRetriesAreBounded, Counted
<1>4. stored[k] = None => Cardinality(Counted(k)) <= incomplete[k]
    BY DEF RetriesInv, CountedOnce
<1>5. stored'[k] = None => k \notin done /\ stored[k] = None
  <2>1. Entry(c) # None
      BY SpentIsReal DEF Return, Entry, Entries, RegistryAssumption, RegistryTypeOK
  <2> QED BY <2>1 DEF Return
<1>6. CASE Counted(k)' = Counted(k)
  <2>1. k \notin done => incomplete'[k] >= incomplete[k]
      BY <1>1 DEF Return, RegistryTypeOK
  <2> QED BY <1>1, <1>2, <1>3, <1>4, <1>5, <1>6, <2>1
<1>7. CASE Counted(k)' # Counted(k)
  <2>1. /\ k \in part /\ c \in Limited /\ replies[c] > 0 /\ c \in Observed
        /\ tries'[k] = tries[k] \union {c} /\ replies' = replies
      BY <1>7 DEF Return, Counted, RegistryTypeOK
  <2>2. k \in KeysOf[c] /\ k \notin done
      BY <2>1 DEF Return
  <2>3. stored[k] = None /\ incomplete[k] < RetryLimit
      BY <2>1, <2>2 DEF Return, RetriesInv, RetriesLeft
  <2>4. incomplete'[k] = incomplete[k] + 1
      BY <2>1, <2>2 DEF Return, Attempted
  <2>5. Counted(k)' = Counted(k) \union {c}
      BY <2>1 DEF Counted
  <2>6. Cardinality(Counted(k)') <= Cardinality(Counted(k)) + 1
    <3>1. Cardinality(Counted(k) \union {c})
            = IF c \in Counted(k) THEN Cardinality(Counted(k)) ELSE Cardinality(Counted(k)) + 1
        BY <1>2, FS_AddElement
    <3> QED BY <1>2, <2>5, <3>1
  <2>7. Cardinality(Counted(k)') \in Nat
      BY <1>2, <2>5, FS_AddElement, FS_CardinalityType
  <2> QED BY <1>1, <1>2, <1>4, <2>3, <2>4, <2>6, <2>7
<1> QED BY <1>6, <1>7

LEMMA ReturnKeeps ==
    ASSUME RegistryTypeOK, RunInv, RetriesInv, SavingsAreReal, RegistryAssumption,
           NEW c \in Callers, NEW done, NEW part, Return(c, done, part)
    PROVE  RegistryTypeOK' /\ RunInv' /\ RetriesInv' /\ SavingsAreReal'
<1>1. pc[c] = "running" /\ Land(c, "asking") /\ UNCHANGED <<used, before, sends, replies>>
      /\ overlapped' = overlapped \ {c}
    BY DEF Return
<1>2. \A d \in Callers : pc'[d] = "running" <=> (pc[d] = "running" /\ d # c)
    BY <1>1, LandKeepsFlights
<1>3. RunInv'
  <2>1. \A k \in Keys : tries'[k] \subseteq tries[k] \union {c}
      BY DEF Return
  <2> QED BY <1>1, <2>1, EndKeepsRuns
<1>4. RetriesLeft'
  <2> SUFFICES ASSUME NEW d \in Limited, pc'[d] = "running", NEW k \in KeysOf[d]
               PROVE  stored'[k] = None /\ incomplete'[k] < RetryLimit
      BY DEF RetriesLeft
  <2>1. d \in Callers /\ k \in Keys /\ pc[d] = "running" /\ d # c
      BY <1>2 DEF RegistryAssumption
  <2>2. k \notin KeysOf[c]
      BY <1>1, <2>1 DEF RunInv, FlightsHeld
  <2>3. stored'[k] = stored[k] /\ incomplete'[k] = incomplete[k]
      BY <2>1, <2>2 DEF Return
  <2> QED BY <2>1, <2>3 DEF RetriesInv, RetriesLeft
<1>5. CountedOnce' /\ ObservedRetriesAreBounded'
    BY ReturnCounts DEF CountedOnce, ObservedRetriesAreBounded, Counted
<1>6. SavingsAreReal'
  <2> SUFFICES ASSUME NEW k \in Keys, stored'[k] # None
               PROVE  stored'[k].sent <= stored'[k].real
      BY DEF SavingsAreReal
  <2>1. CASE k \in done
    <3>1. stored'[k] = [case |-> CaseOf[c], sent |-> Spent(c), real |-> sends[c]]
        BY <2>1 DEF Return, Entry
    <3> QED BY <1>1, <3>1, SpentIsReal
  <2>2. CASE k \notin done
      BY <2>2 DEF Return, SavingsAreReal
  <2> QED BY <2>1, <2>2
<1> QED BY <1>3, <1>4, <1>5, <1>6, ReturnType DEF RetriesInv

-----------------------------------------------------------------------------
RegistryInv == RegistryTypeOK /\ RunInv /\ RetriesInv /\ SavingsAreReal

LEMMA RegistryInitInv == ASSUME RegistryAssumption, RegistryInit PROVE RegistryInv
<1>1. RegistryTypeOK /\ RunInv /\ SavingsAreReal
    BY DEF RegistryInit, RegistryTypeOK, RunInv, FlightsHeld, BothMarked, DeltaIsOwn, NothingSentYet,
           RepliesAreSent, TriedAreOver, SavingsAreReal, RegistryAssumption, Positions
<1>2. RetriesLeft
    BY DEF RegistryInit, RetriesLeft, RegistryAssumption
<1>3. \A k \in Keys : Cardinality(Counted(k)) = 0 /\ incomplete[k] = 0
    BY FS_EmptySet DEF RegistryInit, Counted
<1> QED BY <1>1, <1>2, <1>3 DEF RegistryInv, RetriesInv, CountedOnce, ObservedRetriesAreBounded, Counted,
           RegistryAssumption

LEMMA RegistryNextInv == ASSUME RegistryAssumption, RegistryInv, [RegistryNext]_registryVars PROVE RegistryInv'
<1> USE DEF RegistryInv
<1>1. ASSUME NEW c \in Callers, TakeSlot(c) \/ Hit(c) \/ Wait(c) \/ Refer(c)
      PROVE  RegistryInv'
    BY <1>1, MovesOf, MoveKeeps
<1>2. ASSUME NEW c \in Callers, Miss(c)
      PROVE  RegistryInv'
    BY <1>2, MissKeeps
<1>3. ASSUME NEW c \in Callers, Send(c)
      PROVE  RegistryInv'
    BY <1>3, SendKeeps
<1>4. ASSUME NEW c \in Callers, Returns(c)
      PROVE  RegistryInv'
    BY <1>4, ReturnKeeps DEF Returns
<1>5. ASSUME NEW c \in Callers, Raise(c)
      PROVE  RegistryInv'
    BY <1>5, EndWithoutResult DEF Raise
<1>6. ASSUME NEW c \in Callers, Cancel(c)
      PROVE  RegistryInv'
  <2>1. CASE pc[c] = "running"
      BY <1>6, <2>1, EndWithoutResult DEF Cancel, HandBack
  <2>2. CASE pc[c] # "running"
      BY <1>6, <2>2, MovesOf, MoveKeeps
  <2> QED BY <2>1, <2>2
<1>7. CASE UNCHANGED registryVars
    BY <1>7 DEF registryVars, RegistryTypeOK, RunInv, FlightsHeld, BothMarked, DeltaIsOwn, NothingSentYet,
                RepliesAreSent, TriedAreOver, RetriesInv, RetriesLeft, CountedOnce,
                ObservedRetriesAreBounded, SavingsAreReal, Counted
<1> QED BY <1>1, <1>2, <1>3, <1>4, <1>5, <1>6, <1>7 DEF RegistryNext

LEMMA RegistryInvHolds == ASSUME RegistryAssumption PROVE RegistrySpec => []RegistryInv
BY RegistryInitInv, RegistryNextInv, PTL DEF RegistrySpec

\* The registry's record keeps its types.
THEOREM RegistryTyped == ASSUME RegistryAssumption PROVE RegistrySpec => []RegistryTypeOK
<1>1. RegistryInv => RegistryTypeOK
    BY DEF RegistryInv
<1> QED BY <1>1, RegistryInvHolds, PTL

\* However runs and audits interleave, no check runs twice at once.
THEOREM RunsAreExclusive == ASSUME RegistryAssumption PROVE RegistrySpec => []OneRunPerKey
<1>1. RegistryInv => OneRunPerKey
    BY DEF RegistryInv, RunInv, FlightsHeld, OneRunPerKey, Running
<1> QED BY <1>1, RegistryInvHolds, PTL

\* No stored result claims more requests than its own run spent.
THEOREM NoSavingIsOverclaimed == ASSUME RegistryAssumption PROVE RegistrySpec => []SavingsAreReal
<1>1. RegistryInv => SavingsAreReal
    BY DEF RegistryInv
<1> QED BY <1>1, RegistryInvHolds, PTL

\* Where answered sends are counted, RetryLimit attempts that had an answer are the most
\* a run makes.
THEOREM RetriesEnd == ASSUME RegistryAssumption PROVE RegistrySpec => []ObservedRetriesAreBounded
<1>1. RegistryInv => ObservedRetriesAreBounded
    BY DEF RegistryInv, RetriesInv
<1> QED BY <1>1, RegistryInvHolds, PTL

=============================================================================
