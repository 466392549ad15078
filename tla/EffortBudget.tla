----------------------------- MODULE EffortBudget -----------------------------
(***************************************************************************)
(* The aggregate token budget of harness/effort.py and the per-run views of *)
(* harness/run_inference.py, under concurrent model calls.  A metered call  *)
(* (passive_inference, provider_trace) reserves an estimate, awaits the     *)
(* provider and settles; a checked call (triage, re-spin, rediscovery, the  *)
(* iterative agent) asks allow(), awaits the provider and records.          *)
(*                                                                         *)
(* A view forwards each call to the aggregate and repeats it on its own     *)
(* ledger with no await in between, so both happen in one action.           *)
(***************************************************************************)
EXTENDS Integers, FiniteSets, Tally

CONSTANTS
    Runs,               \* run views over the one aggregate budget
    Calls,              \* slots of concurrent model calls
    RunOf,              \* the run a slot's calls belong to
    Cap,                \* total_tokens
    MaxTokens,          \* bound of the model: tokens one call may use or reserve
    SpentBound          \* bound of the model: no call starts once this much is spent

ASSUME BudgetAssumption ==
    /\ IsFiniteSet(Runs) /\ IsFiniteSet(Calls)
    /\ RunOf \in [Calls -> Runs]
    /\ Cap \in Nat /\ MaxTokens \in Nat /\ SpentBound \in Nat

VARIABLES
    metered,        \* the call sites that reserve; the others only check
    hard,           \* mode = HARD
    spent,          \* ledger.total_tokens: the known tokens of every record
    reserved,       \* _reserved
    unmeasured,     \* _unmeasured_admission
    runSpent, runReserved, runUnmeasured,   \* the same three on each view's own ledger
    confirmed,      \* _overspend_confirmed
    expired,        \* the clock passed _deadline
    underestimated, \* history: some call used more than it had reserved
    inFlight,       \* calls awaiting the provider
    estimate        \* what each metered call in flight reserved, 0 for the others

totals == <<spent, reserved, unmeasured>>
views == <<runSpent, runReserved, runUnmeasured>>
setup == <<metered, hard>>
vars == <<metered, hard, spent, reserved, unmeasured, runSpent, runReserved, runUnmeasured,
          confirmed, expired, underestimated, inFlight, estimate>>

Checked == Calls \ metered
Tokens == 0..MaxTokens

-----------------------------------------------------------------------------

\* max(0, n): every subtraction of the ledger is clamped.
Clamp(n) == IF n > 0 THEN n ELSE 0

Exhausted == spent + unmeasured >= Cap

\* Mutant of TokenFull: the requested amount is left out.
TokenFullWithoutRequest(n) == spent + unmeasured + reserved >= Cap

TokenFull(n) ==
    \/ spent + unmeasured + reserved >= Cap
    \/ spent + unmeasured + reserved + n > Cap

\* What a limit that was reached still lets through.
MayOverspend == ~hard /\ confirmed

Init ==
    /\ metered \in SUBSET Calls /\ hard \in BOOLEAN
    /\ spent = 0 /\ reserved = 0 /\ unmeasured = 0
    /\ runSpent = [r \in Runs |-> 0]
    /\ runReserved = [r \in Runs |-> 0]
    /\ runUnmeasured = [r \in Runs |-> 0]
    /\ confirmed = FALSE
    /\ expired = FALSE
    /\ underestimated = FALSE
    /\ inFlight = {}
    /\ estimate = [c \in Calls |-> 0]

\* reserve(n): admission over committed, in-flight and requested tokens.
Reserve(c, n) ==
    /\ c \in metered \ inFlight
    /\ spent + unmeasured <= SpentBound
    /\ (~expired /\ ~TokenFull(n)) \/ MayOverspend
    /\ reserved' = reserved + n
    /\ runReserved' = [runReserved EXCEPT ![RunOf[c]] = @ + n]
    /\ estimate' = [estimate EXCEPT ![c] = n]
    /\ inFlight' = inFlight \union {c}
    /\ UNCHANGED <<spent, unmeasured, runSpent, runUnmeasured, confirmed, expired, underestimated>>

\* A completed call whose provider gave no full count debits what its estimate
\* leaves over the known part.
Unmeasured(c, known, completed, counted) ==
    IF completed /\ ~counted THEN Clamp(estimate[c] - known) ELSE 0

\* Mutant of Settle: the view's ledger is settled without its reservation.
SettleAggregateOnly(c) ==
    /\ c \in metered \intersect inFlight
    /\ \E known \in Tokens, completed, counted \in BOOLEAN :
        /\ underestimated' = (underestimated \/ known > estimate[c])
        /\ reserved' = Clamp(reserved - estimate[c])
        /\ spent' = spent + known
        /\ unmeasured' = unmeasured + Unmeasured(c, known, completed, counted)
        /\ runSpent' = [runSpent EXCEPT ![RunOf[c]] = @ + known]
        /\ runUnmeasured' = [runUnmeasured EXCEPT
                                ![RunOf[c]] = @ + Unmeasured(c, known, completed, counted)]
    /\ inFlight' = inFlight \ {c}
    /\ estimate' = [estimate EXCEPT ![c] = 0]
    /\ UNCHANGED <<runReserved, confirmed, expired>>

\* commit, as settle_call reports the provider's receipt: the call ended well,
\* failed or was cancelled, with token counts that are full or only a lower bound.
Settle(c) ==
    /\ c \in metered \intersect inFlight
    /\ \E known \in Tokens, completed, counted \in BOOLEAN :
        /\ underestimated' = (underestimated \/ known > estimate[c])
        /\ reserved' = Clamp(reserved - estimate[c])
        /\ runReserved' = [runReserved EXCEPT ![RunOf[c]] = Clamp(@ - estimate[c])]
        /\ spent' = spent + known
        /\ runSpent' = [runSpent EXCEPT ![RunOf[c]] = @ + known]
        /\ unmeasured' = unmeasured + Unmeasured(c, known, completed, counted)
        /\ runUnmeasured' = [runUnmeasured EXCEPT
                                ![RunOf[c]] = @ + Unmeasured(c, known, completed, counted)]
    /\ inFlight' = inFlight \ {c}
    /\ estimate' = [estimate EXCEPT ![c] = 0]
    /\ UNCHANGED <<confirmed, expired>>

\* release: a full refund of a call that recorded nothing.
Release(c) ==
    /\ c \in metered \intersect inFlight
    /\ reserved' = Clamp(reserved - estimate[c])
    /\ runReserved' = [runReserved EXCEPT ![RunOf[c]] = Clamp(@ - estimate[c])]
    /\ inFlight' = inFlight \ {c}
    /\ estimate' = [estimate EXCEPT ![c] = 0]
    /\ UNCHANGED <<spent, unmeasured, runSpent, runUnmeasured, confirmed, expired, underestimated>>

\* Mutant of Check: the call goes ahead whatever allow() answers.
CheckIgnored(c) ==
    /\ c \in Checked \ inFlight
    /\ spent + unmeasured <= SpentBound
    /\ inFlight' = inFlight \union {c}
    /\ UNCHANGED <<totals, views, confirmed, expired, estimate, underestimated>>

\* allow(): looks at committed spend and the deadline, not at reservations.
Check(c) ==
    /\ c \in Checked \ inFlight
    /\ spent + unmeasured <= SpentBound
    /\ (~Exhausted /\ ~expired) \/ MayOverspend
    /\ inFlight' = inFlight \union {c}
    /\ UNCHANGED <<totals, views, confirmed, expired, estimate, underestimated>>

\* Mutant of Record: only the run's own ledger sees the usage.
RecordOnView(c) ==
    /\ c \in Checked \intersect inFlight
    /\ \E n \in Tokens : runSpent' = [runSpent EXCEPT ![RunOf[c]] = @ + n]
    /\ inFlight' = inFlight \ {c}
    /\ UNCHANGED <<totals, runReserved, runUnmeasured, confirmed, expired, estimate, underestimated>>

\* record: what the provider counted, or nothing when the call failed.
Record(c) ==
    /\ c \in Checked \intersect inFlight
    /\ \E n \in Tokens :
        /\ spent' = spent + n
        /\ runSpent' = [runSpent EXCEPT ![RunOf[c]] = @ + n]
    /\ inFlight' = inFlight \ {c}
    /\ UNCHANGED <<reserved, unmeasured, runReserved, runUnmeasured, confirmed, expired, estimate, underestimated>>

\* confirm_overspend: the operator's answer; the flag is never cleared.
ConfirmOverspend ==
    /\ ~confirmed
    /\ confirmed' = TRUE
    /\ UNCHANGED <<totals, views, expired, inFlight, estimate, underestimated>>

\* The clock passes the deadline set at construction.
Expire ==
    /\ ~expired
    /\ expired' = TRUE
    /\ UNCHANGED <<totals, views, confirmed, inFlight, estimate, underestimated>>

\* The mode and the kind of a call site never change.
Next ==
    /\ \/ \E c \in Calls :
            \/ \E n \in Tokens : Reserve(c, n)
            \/ Settle(c) \/ Release(c) \/ Check(c) \/ Record(c)
       \/ ConfirmOverspend \/ Expire
    /\ UNCHANGED setup

Spec == Init /\ [][Next]_vars

-----------------------------------------------------------------------------
(***************************************************************************)
(* Properties                                                              *)
(***************************************************************************)

\* The ledger, its views and the calls in flight have the types the code gives them.
TypeOK ==
    /\ metered \subseteq Calls /\ hard \in BOOLEAN
    /\ spent \in Nat /\ reserved \in Nat /\ unmeasured \in Nat
    /\ runSpent \in [Runs -> Nat]
    /\ runReserved \in [Runs -> Nat]
    /\ runUnmeasured \in [Runs -> Nat]
    /\ confirmed \in BOOLEAN /\ expired \in BOOLEAN /\ underestimated \in BOOLEAN
    /\ inFlight \subseteq Calls
    /\ estimate \in [Calls -> Tokens]

CallsOf(r) == {c \in Calls : RunOf[c] = r}

\* What is reserved, in the aggregate and on each view, is exactly what the calls
\* in flight reserved: no reservation leaks or is refunded twice, and no
\* clamp of commit or release ever hides one.
ReservedByInFlight ==
    /\ \A c \in Calls : estimate[c] > 0 => c \in metered \intersect inFlight
    /\ reserved = Tally(estimate, Calls)
    /\ \A r \in Runs : runReserved[r] = Tally(estimate, CallsOf(r))

\* Every token is charged to one run and to the operator's budget: the runs'
\* receipts add up to the aggregate.
RunsAddUp ==
    /\ spent = Tally(runSpent, Runs)
    /\ unmeasured = Tally(runUnmeasured, Runs)

\* With only metered callers, and until one uses more than it reserved, concurrent
\* calls never take a hard budget (or a soft one nobody overrode) past its cap,
\* with in-flight and unmeasured consumption counted.
CapHolds ==
    ~underestimated /\ Checked = {} /\ ~MayOverspend =>
        spent + unmeasured + reserved <= Cap

\* The tokens that calls of S may still use.
Room(S) == MaxTokens * Cardinality(S)

\* Checked callers do not see reservations, so they can overshoot: by at most
\* one more cap's worth of reservations and one call each.
OvershootBounded ==
    ~underestimated /\ ~MayOverspend =>
        spent + unmeasured + reserved + Room(Checked \intersect inFlight) <= 2 * Cap + Room(Checked)

=============================================================================
