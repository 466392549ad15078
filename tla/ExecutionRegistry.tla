--------------------------- MODULE ExecutionRegistry ---------------------------
(***************************************************************************)
(* harness/execution_registry.py: one run's record of the checks it ran,   *)
(* asked first by every path that dispatches a validator.  A caller finds  *)
(* its key stored, waits for the run in flight, is referred to the last    *)
(* incomplete attempt, or runs the check itself.                           *)
(*                                                                         *)
(* Callers are asyncio tasks: they interleave at awaits, at most Slots at  *)
(* a time (bounded_gather), and any of them may be cancelled while it      *)
(* waits or runs.  run is called with one key; run_audit with one for each *)
(* class it decides from one fetch, and memo, which has one key too, knows *)
(* no retry limit.                                                         *)
(***************************************************************************)
EXTENDS Integers, FiniteSets

CONSTANTS
    Callers, Keys, Cases,
    KeysOf,           \* the keys a call asks for
    CaseOf,           \* the case it is made for
    Limited,          \* the calls of run; the others are audits and memos
    Observed,         \* calls whose answered sends are counted (_ConfirmationCache)
    Declared,         \* calls whose result carries a sent_count of its own
    RetryLimit, Slots,
    MaxSends,         \* bound: requests of one call
    None

Entries == [case : Cases, sent : Nat, real : Nat]     \* real: what the run did spend

ASSUME RegistryAssumption ==
    /\ KeysOf \in [Callers -> (SUBSET Keys) \ {{}}] /\ CaseOf \in [Callers -> Cases]
    /\ Limited \in SUBSET Callers /\ Observed \in SUBSET Callers /\ Declared \in SUBSET Limited
    /\ \A c \in Limited : \E k \in Keys : KeysOf[c] = {k}
    /\ IsFiniteSet(Callers)
    /\ RetryLimit \in Nat \ {0} /\ Slots \in Nat \ {0} /\ MaxSends \in Nat
    /\ None \notin Callers /\ None \notin Entries

VARIABLES
    pc, on,           \* where a call stands, and whose run it waits for
    flying,           \* _flying: the call that runs a key
    stored,           \* _stored
    incomplete,       \* _incomplete: attempts of a key
    overlapped,       \* calls whose run another one overlapped
    used,             \* RequestBudget.used
    before,           \* used when a run began
    sends,            \* requests a call reserved, each before it left
    replies,          \* ... and those that were answered
    tries             \* history: run calls that sent and ended incomplete, by key

registryVars == <<pc, on, flying, stored, incomplete, overlapped, used, before, sends, replies, tries>>
record == <<flying, stored, incomplete, tries>>
account == <<overlapped, used, before, sends, replies>>

Positions == {"queued", "asking", "waiting", "running", "answered"}

\* The record, the calls and their accounts have the types the code gives them.
RegistryTypeOK ==
    /\ pc \in [Callers -> Positions] /\ on \in [Callers -> Callers \union {None}]
    /\ flying \in [Keys -> Callers \union {None}]
    /\ stored \in [Keys -> Entries \union {None}]
    /\ incomplete \in [Keys -> Nat] /\ overlapped \in SUBSET Callers
    /\ used \in Nat /\ before \in [Callers -> Nat]
    /\ sends \in [Callers -> Nat] /\ replies \in [Callers -> Nat]
    /\ tries \in [Keys -> SUBSET Callers]

RegistryInit ==
    /\ pc = [c \in Callers |-> "queued"] /\ on = [c \in Callers |-> None]
    /\ flying = [k \in Keys |-> None]
    /\ stored = [k \in Keys |-> None]
    /\ incomplete = [k \in Keys |-> 0] /\ overlapped = {}
    /\ used = 0
    /\ before = [c \in Callers |-> 0]
    /\ sends = [c \in Callers |-> 0] /\ replies = [c \in Callers |-> 0]
    /\ tries = [k \in Keys |-> {}]

Running == {c \in Callers : pc[c] = "running"}
Inside == {c \in Callers : pc[c] \in {"asking", "waiting", "running"}}
Stored(c) == \A k \in KeysOf[c] : stored[k] # None

-----------------------------------------------------------------------------
(***************************************************************************)
(* Asking: no await between the look at the record and what follows it.    *)
(***************************************************************************)

TakeSlot(c) ==
    /\ pc[c] = "queued" /\ Cardinality(Inside) < Slots
    /\ pc' = [pc EXCEPT ![c] = "asking"]
    /\ UNCHANGED <<on, record, account>>

\* A hit; for another case a copy that is not confirmed and names no exchange.
Hit(c) ==
    /\ pc[c] = "asking" /\ Stored(c)
    /\ pc' = [pc EXCEPT ![c] = "answered"]
    /\ UNCHANGED <<on, record, account>>

\* Mutant of Flights: an audit looks at one of its classes only.
FlightsOfOne(c) == {flying[CHOOSE k \in KeysOf[c] : TRUE]} \ {None}

Flights(c) == {flying[k] : k \in KeysOf[c]} \ {None}

Wait(c) ==
    /\ pc[c] = "asking" /\ ~Stored(c)
    /\ \E o \in Flights(c) : on' = [on EXCEPT ![c] = o]
    /\ pc' = [pc EXCEPT ![c] = "waiting"]
    /\ UNCHANGED <<record, account>>

RetryLimited(c) == c \in Limited /\ \E k \in KeysOf[c] : incomplete[k] >= RetryLimit

\* A reference to the last incomplete attempt; nothing is sent.
Refer(c) ==
    /\ pc[c] = "asking" /\ ~Stored(c) /\ Flights(c) = {}
    /\ RetryLimited(c)
    /\ pc' = [pc EXCEPT ![c] = "answered"]
    /\ UNCHANGED <<on, record, account>>

\* Mutant of Overlap: only the newcomer is marked.
OverlapOfNewcomer(c) == IF Running = {} THEN overlapped ELSE overlapped \union {c}

Overlap(c) == IF Running = {} THEN overlapped ELSE overlapped \union Running \union {c}

Miss(c) ==
    /\ pc[c] = "asking" /\ ~Stored(c) /\ Flights(c) = {}
    /\ ~RetryLimited(c)
    /\ pc' = [pc EXCEPT ![c] = "running"]
    /\ flying' = [k \in Keys |-> IF k \in KeysOf[c] THEN c ELSE flying[k]]
    /\ overlapped' = Overlap(c)
    /\ before' = [before EXCEPT ![c] = used]
    /\ UNCHANGED <<on, stored, incomplete, tries, used, sends, replies>>

-----------------------------------------------------------------------------
(***************************************************************************)
(* Running.                                                                *)
(***************************************************************************)

\* The budget counts a request when it is reserved, count_sends when it is answered:
\* one that times out, or that the connect refuses, is never answered.
Send(c) ==
    /\ pc[c] = "running" /\ sends[c] < MaxSends
    /\ sends' = [sends EXCEPT ![c] = sends[c] + 1] /\ used' = used + 1
    /\ \E n \in {0, 1} : replies' = [replies EXCEPT ![c] = replies[c] + n]
    /\ UNCHANGED <<pc, on, record, overlapped, before>>

\* What the run spent: the result's own count, or else the budget's delta, when no
\* other call overlapped.
Spent(c) ==
    IF c \in Declared THEN replies[c]
    ELSE IF c \in overlapped THEN 0 ELSE used - before[c]

\* Mutant of Attempted: by the budget's delta alone.
AttemptedByDelta(c) == Spent(c) > 0

\* An incomplete result is an attempt if it spent something or had an answer.
Attempted(c) == Spent(c) > 0 \/ (c \in Observed /\ replies[c] > 0)

\* The flight is taken down; its waiters go on to where.
Land(c, where) ==
    /\ flying' = [k \in Keys |-> IF k \in KeysOf[c] THEN None ELSE flying[k]]
    /\ pc' = [d \in Callers |-> IF d = c THEN "answered"
                                ELSE IF pc[d] = "waiting" /\ on[d] = c THEN where ELSE pc[d]]
    /\ on' = [d \in Callers |-> IF on[d] = c THEN None ELSE on[d]]

Entry(c) == [case |-> CaseOf[c], sent |-> Spent(c), real |-> sends[c]]

\* The keys in done are concluded, those in part incomplete, the others
\* declined (blocked, skipped) or absent from the audit's result.
Return(c, done, part) ==
    /\ pc[c] = "running"
    /\ done \subseteq KeysOf[c] /\ part \subseteq KeysOf[c] \ done
    /\ stored' = [k \in Keys |-> IF k \in done THEN Entry(c) ELSE stored[k]]
    /\ incomplete' = [k \in Keys |-> IF k \in done THEN 0
                                     ELSE IF k \in part /\ Attempted(c) THEN incomplete[k] + 1
                                     ELSE incomplete[k]]
    /\ tries' = [k \in Keys |-> IF k \in part /\ c \in Limited /\ sends[c] > 0
                                THEN tries[k] \union {c} ELSE tries[k]]
    /\ overlapped' = overlapped \ {c}
    /\ Land(c, "asking")
    /\ UNCHANGED <<used, before, sends, replies>>

\* The check raised: so do its waiters.
Raise(c) ==
    /\ pc[c] = "running"
    /\ overlapped' = overlapped \ {c}
    /\ Land(c, "answered")
    /\ UNCHANGED <<stored, incomplete, tries, used, before, sends, replies>>

\* Mutant of HandBack: only an Exception is caught, and CancelledError is none.
KeepKey(c) == pc' = [pc EXCEPT ![c] = "answered"] /\ UNCHANGED <<on, flying>>

\* The cancelled run hands its keys back: waiters run the check themselves.
HandBack(c) == Land(c, "asking")

Cancel(c) ==
    /\ \/ pc[c] = "running" /\ HandBack(c)
       \/ /\ pc[c] = "waiting"            \* shield: the run goes on
          /\ pc' = [pc EXCEPT ![c] = "answered"] /\ on' = [on EXCEPT ![c] = None]
          /\ UNCHANGED flying
    /\ overlapped' = overlapped \ {c}
    /\ UNCHANGED <<stored, incomplete, tries, used, before, sends, replies>>

Ask(c) == Hit(c) \/ Wait(c) \/ Refer(c) \/ Miss(c)
Returns(c) == \E done, part \in SUBSET KeysOf[c] : Return(c, done, part)

RegistryNext ==
    \E c \in Callers :
        \/ TakeSlot(c) \/ Hit(c) \/ Wait(c) \/ Refer(c) \/ Miss(c)
        \/ Send(c) \/ Returns(c) \/ Raise(c) \/ Cancel(c)

RegistrySpec == RegistryInit /\ [][RegistryNext]_registryVars

\* The event loop runs what is ready, and a check ends: its requests, its browser
\* and its tools have timeouts.
RegistryFairness == \A c \in Callers : WF_registryVars(TakeSlot(c)) /\ WF_registryVars(Ask(c)) /\ WF_registryVars(Returns(c))

RegistryFairSpec == RegistrySpec /\ RegistryFairness

-----------------------------------------------------------------------------
\* No check runs twice at once, whatever mix of runs and audits asks for it.
OneRunPerKey ==
    \A c, d \in Running : c # d => KeysOf[c] \intersect KeysOf[d] = {}

\* "The saving is an under-estimate, never an over-claim": what a stored result
\* says it spent is no more than its own run spent, however runs overlapped.
SavingsAreReal ==
    \A k \in Keys : stored[k] # None => stored[k].sent <= stored[k].real

\* A check whose answered sends are counted is not tried again once RetryLimit
\* attempts of it had an answer and stayed incomplete, overlapped or not.
ObservedRetriesAreBounded ==
    \A k \in Keys : Cardinality({c \in tries[k] \intersect Observed : replies[c] > 0}) <= RetryLimit

\* "The same unchanged key is retried at most retry_limit times", whoever counts
\* the sends: a first attempt and RetryLimit more.
RetriesAreBounded == \A k \in Keys : Cardinality(tries[k]) <= RetryLimit + 1

\* Every call is answered: none is left waiting for a run that was cancelled,
\* that raised, or whose result was no conclusion.
EveryCallIsAnswered == \A c \in Callers : (pc[c] = "queued") ~> (pc[c] = "answered")
=============================================================================
