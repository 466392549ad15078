----------------------------- MODULE RunTransport -----------------------------
(***************************************************************************)
(* The one send path of a run: TargetTransport.execute of                  *)
(* harness/run_context.py, with the run's RequestBudget and the driver's   *)
(* share of it, the cancel token, the scope, the SafetyGate, the route     *)
(* circuit and the address pins, shared by concurrent calls.               *)
(*                                                                         *)
(* From the start of a hop to client.request nothing is awaited, so the    *)
(* decision about a hop is one action; other calls run while a call waits  *)
(* to connect, resolves a name in a thread, waits for the answer, or for   *)
(* the session feedback of a redirect.  The session's health is the        *)
(* subject of SessionHealth and is left out here.                          *)
(***************************************************************************)
EXTENDS Integers, FiniteSets, Tally

CONSTANTS
    Calls,            \* calls of execute
    Urls, Hosts, HostOf,
    Addresses,        \* what a resolver may answer
    Findings, FindingOf,   \* the case_ref the gate counts a call's writes under
    Filed,            \* calls that give one; the gate does not count the others'
    CeilingOf,        \* the mutating ceiling of the call's capability
    TargetOf,         \* the url a call asks for
    Writing,          \* calls with a mutating method
    Driven,           \* calls made inside _driver_scope
    Authed,           \* calls with a session
    Cleanup,          \* calls with allow_cancelled_cleanup
    SessionHosts,     \* allowed_origins of the session
    ScopeHosts,       \* hosts in scope, of the run and of its gate
    Excluded,         \* urls target_policy refuses
    Special,          \* special-purpose addresses
    MaxRequests, DriverMax, Reserve,   \* run budget, driver's share, coverage reserve
    Replay,           \* active_enabled and allow_mutating_replay, of the run's gate
    MaxRedirects, Threshold,           \* max_redirects, route_5xx_threshold
    NoAddress

ASSUME TransportAssumption ==
    /\ IsFiniteSet(Calls)
    /\ HostOf \in [Urls -> Hosts]
    /\ FindingOf \in [Calls -> Findings]
    /\ Filed \in SUBSET Calls
    /\ CeilingOf \in [Calls -> Nat]
    /\ Replay \in BOOLEAN
    /\ TargetOf \in [Calls -> Urls]
    /\ Writing \subseteq Calls /\ Driven \in SUBSET Calls
    /\ Authed \subseteq Calls /\ Cleanup \subseteq Calls
    /\ SessionHosts \subseteq Hosts /\ ScopeHosts \subseteq Hosts
    /\ Excluded \subseteq Urls /\ Special \subseteq Addresses
    /\ MaxRequests \in Nat /\ DriverMax \in Nat /\ Reserve \in Nat
    /\ MaxRedirects \in Nat /\ Threshold \in Nat \ {0}
    /\ NoAddress \notin Addresses

VARIABLES
    pc,          \* where each call is
    at,          \* url of the hop it is on
    writes,      \* whether the method of that hop is mutating
    hop,
    used, held,  \* RequestBudget._used, _held
    spent,       \* _DriverBudget.spent
    cancelled,
    counted,     \* SafetyGate._mutating_counts
    pin,         \* AddressPins._pins
    errors, answered, open, cooled,    \* _RouteState; cooled: the cooldown has passed
    contacts,    \* history: every connection opened, to which address, as whom
    sent,        \* history: requests of a call that reached a connection
    wrote,       \* history: the mutating ones among them
    late,        \* history: those sent after the run was cancelled
    replies      \* history: what each route answered

budgets == <<used, held, spent, cancelled, counted>>
routes == <<errors, answered, open, cooled>>
history == <<contacts, sent, wrote, late, replies>>
vars == <<pc, at, writes, hop, budgets, pin, routes, history>>

-----------------------------------------------------------------------------

\* What execute returned with, of a call that is over.
Refused == {"cancelled", "out_of_scope", "blocked", "route_unavailable", "budget_exhausted",
            "destination_blocked"}
Outcomes == Refused \union {"ok", "error", "unresolved"}
Busy == {"connecting", "resolving", "sending", "redirected"}

Route == [url : Urls, writes : BOOLEAN, authed : BOOLEAN]
Contact == [url : Urls, address : Addresses, authed : BOOLEAN]

\* Mutant of CarriesSession: decided once, for the url the call asked for.
CarriesSessionThroughout(c, u) == c \in Authed

\* A hop carries the session's credentials on the session's own origins only.
CarriesSession(c, u) == c \in Authed /\ HostOf[u] \in SessionHosts

\* route_key_for: method, origin, template and the calling principal.
RouteOf(c, u, w) == [url |-> u, writes |-> w, authed |-> CarriesSession(c, u)]

Init ==
    /\ pc = [c \in Calls |-> "ready"]
    /\ at = TargetOf
    /\ writes = [c \in Calls |-> c \in Writing]
    /\ hop = [c \in Calls |-> 0]
    /\ used = 0 /\ held = 0 /\ spent = 0
    /\ cancelled = FALSE
    /\ counted = [f \in Findings |-> 0]
    /\ pin = [h \in Hosts |-> NoAddress]
    /\ errors = [r \in Route |-> 0]
    /\ answered = [r \in Route |-> FALSE]
    /\ open = [r \in Route |-> FALSE]
    /\ cooled = [r \in Route |-> FALSE]
    /\ contacts = {}
    /\ sent = [c \in Calls |-> 0]
    /\ wrote = [c \in Calls |-> 0]
    /\ late = [c \in Calls |-> 0]
    /\ replies = [r \in Route |-> {}]

-----------------------------------------------------------------------------
(***************************************************************************)
(* The decision about one hop.                                             *)
(***************************************************************************)

\* Mutant of Stopped: the token is read when the call starts only.
StoppedAtStart(c) == cancelled /\ c \notin Cleanup /\ hop[c] = 0

Stopped(c) == cancelled /\ c \notin Cleanup

Permitted(c) == HostOf[at[c]] \in ScopeHosts /\ at[c] \notin Excluded

\* A session is refused on the first hop of a call that is not to its origins.
Unbound(c) == hop[c] = 0 /\ c \in Authed /\ HostOf[at[c]] \notin SessionHosts

\* route_blocked: an open route lets one send through per cooldown, and the
\* cooldown starts again whatever the later checks say of that send.
RouteLets(r) == open[r] => cooled[r]
StartCooldown(r) == cooled' = [cooled EXCEPT ![r] = FALSE]

\* Mutant of GateLets: the hop of a redirect is not counted again.
GateLetsRedirects(c) ==
    writes[c] => /\ Replay /\ c \notin Driven
                 /\ c \in Filed /\ hop[c] = 0 => counted[FindingOf[c]] < CeilingOf[c]

\* SafetyGate.authorize: a mutating hop counts against its finding, and the
\* driver's gate allows none.
GateLets(c) ==
    writes[c] => /\ Replay /\ c \notin Driven
                 /\ c \in Filed => counted[FindingOf[c]] + 1 <= CeilingOf[c]
CountWrite(c) ==
    counted' = IF writes[c] /\ c \in Filed
               THEN [counted EXCEPT ![FindingOf[c]] = @ + 1] ELSE counted

\* Mutant of BudgetLets: what is held back is not looked at.
BudgetLetsReserve(c) == used + 1 <= MaxRequests /\ (c \in Driven => spent + 1 <= DriverMax)

\* RequestBudget.reserve, and _DriverBudget.reserve around it.
BudgetLets(c) ==
    /\ used + 1 <= MaxRequests - held
    /\ c \in Driven => spent + 1 <= DriverMax

Refuse(c, outcome) == pc' = [pc EXCEPT ![c] = outcome]

Decide(c) ==
    LET r == RouteOf(c, at[c], writes[c])
    IN  /\ pc[c] \in {"ready", "redirected"}
        /\ \/ /\ Unbound(c)
              /\ Refuse(c, "blocked")
              /\ UNCHANGED <<budgets, cooled>>
           \/ /\ ~Unbound(c) /\ Stopped(c)
              /\ Refuse(c, "cancelled")
              /\ UNCHANGED <<budgets, cooled>>
           \/ /\ ~Unbound(c) /\ ~Stopped(c) /\ ~Permitted(c)
              /\ Refuse(c, IF HostOf[at[c]] \in ScopeHosts THEN "blocked" ELSE "out_of_scope")
              /\ UNCHANGED <<budgets, cooled>>
           \/ /\ ~Unbound(c) /\ ~Stopped(c) /\ Permitted(c) /\ ~RouteLets(r)
              /\ Refuse(c, "route_unavailable")
              /\ UNCHANGED <<budgets, cooled>>
           \/ /\ ~Unbound(c) /\ ~Stopped(c) /\ Permitted(c) /\ RouteLets(r) /\ ~GateLets(c)
              /\ Refuse(c, "blocked")
              /\ StartCooldown(r)
              /\ UNCHANGED budgets
           \/ /\ ~Unbound(c) /\ ~Stopped(c) /\ Permitted(c) /\ RouteLets(r) /\ GateLets(c)
              /\ StartCooldown(r)
              /\ CountWrite(c)
              /\ IF BudgetLets(c)
                 THEN /\ used' = used + 1
                      /\ spent' = IF c \in Driven THEN spent + 1 ELSE spent
                      /\ pc' = [pc EXCEPT ![c] = "connecting"]
                 ELSE Refuse(c, "budget_exhausted") /\ UNCHANGED <<used, spent>>
              /\ UNCHANGED <<held, cancelled>>
        /\ UNCHANGED <<at, writes, hop, pin, errors, answered, open, history>>

-----------------------------------------------------------------------------
(***************************************************************************)
(* The connection, through the run's address pins.                         *)
(***************************************************************************)

\* The pin of c's host is a: connect to it, unless the address is special.
Open(c, a) ==
    /\ IF a \in Special
       THEN Refuse(c, "destination_blocked") /\ UNCHANGED <<contacts, sent, wrote, late>>
       ELSE /\ pc' = [pc EXCEPT ![c] = "sending"]
            /\ contacts' = contacts \union
                  {[url |-> at[c], address |-> a, authed |-> CarriesSession(c, at[c])]}
            /\ sent' = [sent EXCEPT ![c] = @ + 1]
            /\ wrote' = [wrote EXCEPT ![c] = IF writes[c] THEN @ + 1 ELSE @]
            /\ late' = [late EXCEPT ![c] = IF cancelled THEN @ + 1 ELSE @]
    /\ UNCHANGED <<at, writes, hop, budgets, routes, replies>>

Connect(c) ==
    LET a == pin[HostOf[at[c]]]
    IN  /\ pc[c] = "connecting"
        /\ IF a = NoAddress
           THEN /\ pc' = [pc EXCEPT ![c] = "resolving"]
                /\ UNCHANGED <<at, writes, hop, budgets, routes, history>>
           ELSE Open(c, a)
        /\ UNCHANGED pin

\* Mutant of Pinned: the answer is written over a pin set meanwhile.
PinnedAnew(h, a) == a

\* setdefault: a racing first answer wins.
Pinned(h, a) == IF pin[h] = NoAddress THEN a ELSE pin[h]

Resolve(c) ==
    /\ pc[c] = "resolving"
    /\ \E a \in Addresses :
          LET kept == Pinned(HostOf[at[c]], a)
          IN  /\ pin' = [pin EXCEPT ![HostOf[at[c]]] = kept]
              /\ Open(c, kept)

\* The resolver raises: an honest error, and nothing was sent.
FailToResolve(c) ==
    /\ pc[c] = "resolving"
    /\ Refuse(c, "unresolved")
    /\ UNCHANGED <<at, writes, hop, budgets, pin, routes, history>>

-----------------------------------------------------------------------------
(***************************************************************************)
(* The answer.                                                             *)
(***************************************************************************)

\* Mutant of Trips: errors alone pause a route.
TripsOnErrors(r) == errors[r] + 1 >= Threshold

Trips(r) == ~answered[r] /\ ~open[r] /\ errors[r] + 1 >= Threshold

\* route_observed, with the status class of the answer.
Observe(r, fault) ==
    /\ replies' = [replies EXCEPT ![r] = @ \union {IF fault THEN "5xx" ELSE "other"}]
    /\ IF fault
       THEN /\ errors' = [errors EXCEPT ![r] = IF @ < Threshold THEN @ + 1 ELSE @]
            /\ open' = [open EXCEPT ![r] = @ \/ Trips(r)]
            /\ cooled' = [cooled EXCEPT ![r] = @ /\ ~Trips(r)]
            /\ UNCHANGED answered
       ELSE /\ answered' = [answered EXCEPT ![r] = TRUE]
            /\ open' = [open EXCEPT ![r] = FALSE]
            /\ cooled' = [cooled EXCEPT ![r] = FALSE]
            /\ UNCHANGED errors

\* A final answer: execute returns ok with it, whatever its status.
Answer(c, fault) ==
    /\ pc[c] = "sending"
    /\ Observe(RouteOf(c, at[c], writes[c]), fault)
    /\ pc' = [pc EXCEPT ![c] = "ok"]
    /\ UNCHANGED <<at, writes, hop, budgets, pin, contacts, sent, wrote, late>>

\* A redirect with hops left: 301 to 303 turn the method into GET, 307 and 308
\* keep it; the next hop is decided like the first.
Redirect(c, u, keep) ==
    /\ pc[c] = "sending"
    /\ hop[c] < MaxRedirects
    /\ Observe(RouteOf(c, at[c], writes[c]), FALSE)
    /\ pc' = [pc EXCEPT ![c] = "redirected"]
    /\ at' = [at EXCEPT ![c] = u]
    /\ writes' = [writes EXCEPT ![c] = @ /\ keep]
    /\ hop' = [hop EXCEPT ![c] = @ + 1]
    /\ UNCHANGED <<budgets, pin, contacts, sent, wrote, late>>

\* The connection fails or times out; the route circuit is not told.
Drop(c) ==
    /\ pc[c] = "sending"
    /\ pc' = [pc EXCEPT ![c] = "error"]
    /\ UNCHANGED <<at, writes, hop, budgets, pin, routes, history>>

-----------------------------------------------------------------------------

Cancel ==
    /\ ~cancelled
    /\ cancelled' = TRUE
    /\ UNCHANGED <<pc, at, writes, hop, used, held, spent, counted, pin, routes, history>>

\* RequestBudget.hold and release_hold: investigate_engagement keeps a share of
\* the budget for the coverage stage while the stages before it run.
Hold ==
    /\ held' = IF held + Reserve < MaxRequests - used THEN held + Reserve ELSE MaxRequests - used
    /\ held = 0
    /\ UNCHANGED <<pc, at, writes, hop, used, spent, cancelled, counted, pin, routes, history>>

ReleaseHold ==
    /\ held > 0
    /\ held' = 0
    /\ UNCHANGED <<pc, at, writes, hop, used, spent, cancelled, counted, pin, routes, history>>

\* The cooldown of a paused route passes.
Cool(r) ==
    /\ open[r] /\ ~cooled[r]
    /\ cooled' = [cooled EXCEPT ![r] = TRUE]
    /\ UNCHANGED <<pc, at, writes, hop, budgets, pin, errors, answered, open, history>>

Next ==
    \/ \E c \in Calls : Decide(c) \/ Connect(c) \/ Resolve(c) \/ FailToResolve(c) \/ Drop(c)
    \/ \E c \in Calls, fault \in BOOLEAN : Answer(c, fault)
    \/ \E c \in Calls, u \in Urls, keep \in BOOLEAN : Redirect(c, u, keep)
    \/ \E r \in Route : Cool(r)
    \/ Cancel \/ Hold \/ ReleaseHold

Spec == Init /\ [][Next]_vars

-----------------------------------------------------------------------------
(***************************************************************************)
(* Properties                                                              *)
(***************************************************************************)

\* The state of the run and of every call has the type the code gives it.
TypeOK ==
    /\ pc \in [Calls -> {"ready"} \union Busy \union Outcomes]
    /\ at \in [Calls -> Urls]
    /\ writes \in [Calls -> BOOLEAN]
    /\ hop \in [Calls -> 0..MaxRedirects]
    /\ used \in Nat /\ held \in Nat /\ spent \in Nat
    /\ cancelled \in BOOLEAN
    /\ counted \in [Findings -> Nat]
    /\ pin \in [Hosts -> Addresses \union {NoAddress}]
    /\ errors \in [Route -> 0..Threshold]
    /\ answered \in [Route -> BOOLEAN]
    /\ open \in [Route -> BOOLEAN]
    /\ cooled \in [Route -> BOOLEAN]
    /\ contacts \in SUBSET Contact
    /\ sent \in [Calls -> Nat]
    /\ wrote \in [Calls -> Nat]
    /\ late \in [Calls -> Nat]
    /\ replies \in [Route -> SUBSET {"5xx", "other"}]

\* What a call has paid: what it sent, and a request that has not reached a
\* connection, or never will.
Paid == [c \in Calls |-> sent[c] +
            IF pc[c] \in {"connecting", "resolving", "destination_blocked", "unresolved"} THEN 1 ELSE 0]

\* The run budget is "a per-run ceiling on real network sends": every request
\* that reached a connection, redirect hops and the driver's included, was paid
\* once, from the run's budget and the driver's share of it, and what is held
\* back for the coverage stage stays unspent, however the calls interleave.
SendsArePaid ==
    /\ used = Tally(Paid, Calls)
    /\ spent = Tally(Paid, Driven)
    /\ used + held <= MaxRequests
    /\ spent <= DriverMax

\* "One address per name for the whole run": calls that resolve one name at the
\* same time, or after its DNS answer changed, connect to one address, and never
\* to a special-purpose one.
OneAddressPerHost ==
    /\ \A x, y \in contacts : HostOf[x.url] = HostOf[y.url] => x.address = y.address
    /\ \A x \in contacts : x.address \notin Special

\* No redirect leads a call out of scope, to an excluded endpoint, or with the
\* session's credentials to another origin.
NothingLeaks ==
    \A x \in contacts :
        /\ HostOf[x.url] \in ScopeHosts
        /\ x.url \notin Excluded
        /\ x.authed => HostOf[x.url] \in SessionHosts

FiledUnder(f) == {c \in Filed : FindingOf[c] = f}

\* The mutating requests that reach the target for one finding stay within the
\* largest ceiling of its calls, over all of them and their redirects, and a
\* driver sends none.
WritesWithinCeiling ==
    /\ \A f \in Findings :
          Tally(wrote, FiledUnder(f)) > 0
              => \E c \in FiledUnder(f) : Tally(wrote, FiledUnder(f)) <= CeilingOf[c]
    /\ \A c \in Driven : wrote[c] = 0

\* A route is paused only while it never answered anything but 5xx, even when
\* errors of requests under way arrive after its first good answer.
OnlySilentRoutesPause == \A r \in Route : open[r] => replies[r] = {"5xx"}

\* After the run is cancelled a call sends at most the request it was already
\* connecting for; no redirect is followed, cleanup calls apart.
CancelStops == \A c \in Calls \ Cleanup : late[c] <= 1

\* ExecutionOutcome.executed: "A denied/blocked/out-of-scope attempt did NOT
\* execute (and did not consume budget)".
RefusedMeansUnsent == \A c \in Calls : pc[c] \in Refused => sent[c] = 0

=============================================================================
