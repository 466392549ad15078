---------------------------- MODULE SessionHealth ----------------------------
(***************************************************************************)
(* One principal's session in a run, under concurrent sends that carry its  *)
(* credentials: the feedback of harness/run_context.py (a 401 makes it ask  *)
(* a health probe, under the session's lock) and of                         *)
(* harness/session_freshness.py (denials on routes once served), both of    *)
(* which may refresh the credentials or stop the session's sends.           *)
(*                                                                         *)
(* A handler runs without interruption up to its next await: the answer of  *)
(* a send, the lock when others are before it, the answer of the probe and  *)
(* of the refresh.  asyncio.Lock is first come first served.                *)
(***************************************************************************)
EXTENDS Integers, Sequences, FiniteSets

CONSTANTS
    Sends,              \* slots of concurrent sends
    Private,            \* route keys with objects the target serves to this principal
    Refused,            \* route keys with objects it denies this principal: access control
    MaxRefreshes,       \* max_session_refreshes
    Window, MinDenials, MinRoutes, RateOf, RateTo,  \* FreshnessConfig, the rate as RateOf / RateTo
    MaxHops,            \* max_redirects
    MaxRevocations      \* bound of the model: times the target drops the credentials

ASSUME SessionAssumption ==
    /\ IsFiniteSet(Sends) /\ IsFiniteSet(Private)
    /\ {MaxRefreshes, MaxHops, MaxRevocations, RateOf} \subseteq Nat
    /\ {Window, MinDenials, MinRoutes, RateTo} \subseteq Nat \ {0}

VARIABLES
    hasProbe, canRefresh, tracking, \* a probe is configured, a refresh is set, freshness is on
    health, refreshes, generation,
    checked,        \* probed less than _SESSION_RECHECK_SECONDS ago
    accepted,       \* the target accepts the session's present credentials
    good, recent,   \* the freshness track of the present generation
    queue,          \* sends at the health lock: the head holds it
    send,           \* where each send is, its route, its credentials and its answer
    revocations

setup == <<hasProbe, canRefresh, tracking>>
session == <<health, refreshes, generation, checked>>
track == <<good, recent>>
vars == <<setup, session, accepted, track, queue, send, revocations>>

\* route_key folds the objects of a path into one key: a key can be in both.
Routes == Private \union Refused
Mixed == Private \intersect Refused
Down == {"expired", "stale"}
Places == {"idle", "sent", "recheck", "probing", "refreshing", "stale", "refreshing stale"}
Codes == {"none", "2xx", "3xx", "401", "403", "other"}

Idle == [at |-> "idle", route |-> "none", hop |-> 0, generation |-> 0, live |-> FALSE,
         code |-> "none"]

\* A send, or the hop of one, with the session's present credentials.
Sent(r, hop) == [at |-> "sent", route |-> r, hop |-> hop, generation |-> generation,
                 live |-> accepted, code |-> "none"]

-----------------------------------------------------------------------------
(***************************************************************************)
(* session_freshness                                                       *)
(***************************************************************************)

Last(seq, n) == IF Len(seq) <= n THEN seq ELSE SubSeq(seq, Len(seq) - n + 1, Len(seq))

\* Mutant of Kept: a route that never served this principal counts too.
KeptAnyDenial(r, code) == code \in {"2xx", "401", "403"}

\* observe keeps what was served, and what was denied of what was served before.
Kept(r, code) == code = "2xx" \/ (code \in {"401", "403"} /\ r \in good)
WindowAfter(w, r, code) ==
    IF Kept(r, code) THEN Last(Append(w, [route |-> r, denied |-> code # "2xx"]), Window)
    ELSE w

\* _is_stale, of the window w.
IsStale(w) ==
    LET denied == {i \in DOMAIN w : w[i].denied}
    IN  /\ Cardinality(denied) >= MinDenials
        /\ Cardinality({w[i].route : i \in denied}) >= MinRoutes
        /\ Cardinality(denied) * RateTo >= RateOf * Len(w)

\* What observe returns.
LooksStale(w, r, code) == Kept(r, code) /\ IsStale(WindowAfter(w, r, code))

-----------------------------------------------------------------------------
(***************************************************************************)
(* The end of a send's feedback.  Each operator is the code from there to   *)
(* the next await, for a session whose health is h, a window w, and the     *)
(* sends q that hold or wait for the lock.                                  *)
(***************************************************************************)

CanRefresh == canRefresh /\ refreshes < MaxRefreshes

\* The send waits; its credentials no longer matter.
Await(s, place, code, h, q) ==
    /\ health' = h
    /\ send' = [send EXCEPT ![s] = [Idle EXCEPT !.at = place, !.code = code,
                                             !.route = send[s].route, !.hop = send[s].hop]]
    /\ queue' = q

\* The send ends, or its redirect is followed: the next hop attaches the session's
\* credentials without a look at its health.
Leave(s, code, h, q) ==
    /\ health' = h
    /\ \/ send' = [send EXCEPT ![s] = Idle]
       \/ /\ code = "3xx" /\ send[s].hop < MaxHops
          /\ \E r \in Routes : send' = [send EXCEPT ![s] = Sent(r, send[s].hop + 1)]
    /\ queue' = q

\* _session_stale once s has the lock, up to the refresh.
GoStale(s, h, q, code) ==
    IF h \notin Down /\ CanRefresh
    THEN /\ refreshes' = refreshes + 1
         /\ Await(s, "refreshing stale", code, h, <<s>> \o q)
    ELSE /\ Leave(s, code, IF h \in Down THEN h ELSE "stale", q)
         /\ UNCHANGED refreshes

\* _freshness_feedback of the send s answered code.
Freshness(s, h, w, q, code) ==
    LET r == send[s].route
    IN  IF ~tracking \/ h \in Down
        THEN Leave(s, code, h, q) /\ recent' = w /\ UNCHANGED <<good, refreshes>>
        ELSE /\ good' = IF code = "2xx" THEN good \union {r} ELSE good
             /\ recent' = WindowAfter(w, r, code)
             /\ IF ~LooksStale(w, r, code)
                THEN Leave(s, code, h, q) /\ UNCHANGED refreshes
                ELSE IF q = <<>>
                THEN GoStale(s, h, q, code)
                ELSE Await(s, "stale", code, h, Append(q, s)) /\ UNCHANGED refreshes

\* _recheck_session once s has the lock.  The probe of a stale session is refused
\* unsent, which is inconclusive.
Recheck(s, q, code) ==
    IF health = "expired" \/ checked
    THEN Freshness(s, health, recent, q, code) /\ UNCHANGED checked
    ELSE /\ checked' = TRUE
         /\ IF health = "stale"
            THEN Freshness(s, "suspect", recent, q, code)
            ELSE /\ Await(s, "probing", code, health, <<s>> \o q)
                 /\ UNCHANGED <<refreshes, track>>

-----------------------------------------------------------------------------

Init ==
    /\ hasProbe \in BOOLEAN /\ canRefresh \in BOOLEAN /\ tracking \in BOOLEAN
    /\ health = "unverified" /\ refreshes = 0 /\ generation = 0 /\ checked = FALSE
    /\ accepted = TRUE
    /\ good = {} /\ recent = <<>>
    /\ queue = <<>>
    /\ send = [s \in Sends |-> Idle]
    /\ revocations = 0

\* execute attaches the session's credentials, unless the session is down.
Send(s, r) ==
    /\ send[s].at = "idle"
    /\ health \notin Down
    /\ send' = [send EXCEPT ![s] = Sent(r, 0)]
    /\ UNCHANGED <<setup, session, accepted, track, queue, revocations>>

\* What the target may answer to s, whichever object of the route it asks for: its
\* credentials may have been dropped, and replaced, while it was under way.
Answers(s) ==
    LET m == send[s]
    IN  {"3xx", "other"}
        \union (IF m.route \in Private /\ m.live THEN {"2xx"} ELSE {})
        \union (IF m.route \in Refused \/ ~m.live \/ ~accepted \/ m.generation # generation
                THEN {"401", "403"} ELSE {})

\* The health _session_feedback leaves, when it asks nobody.
HealthAfter(code) ==
    IF code \in {"2xx", "3xx"} /\ health \in {"unverified", "suspect"} THEN "healthy"
    ELSE IF code = "401" /\ health # "expired" THEN "suspect"
    ELSE health

\* _session_feedback and _freshness_feedback.
Answer(s) ==
    /\ send[s].at = "sent"
    /\ \E code \in Answers(s) :
        \/ /\ code # "401" \/ ~hasProbe
           /\ Freshness(s, HealthAfter(code), recent, queue, code)
           /\ UNCHANGED checked
        \/ /\ code = "401" /\ hasProbe /\ queue = <<>>
           /\ Recheck(s, queue, code)
        \/ /\ code = "401" /\ hasProbe /\ queue # <<>>
           /\ Await(s, "recheck", code, health, Append(queue, s))
           /\ UNCHANGED <<refreshes, checked, track>>
    /\ UNCHANGED <<setup, generation, accepted, revocations>>

At(s, place) == queue # <<>> /\ Head(queue) = s /\ send[s].at = place

\* The lock is passed to the next send that waits for it.
Resume(s) ==
    /\ \/ At(s, "recheck") /\ Recheck(s, Tail(queue), send[s].code)
       \/ /\ At(s, "stale") /\ GoStale(s, health, Tail(queue), send[s].code)
          /\ UNCHANGED <<checked, track>>
    /\ UNCHANGED <<setup, generation, accepted, revocations>>

\* Mutant of Verdicts: a probe that got no answer counts as a rejection.
VerdictsOnAGuess == {"rejected"} \union (IF accepted THEN {"ok"} ELSE {})

\* _run_health_probe: what the probe's answer means.
Verdicts == {"inconclusive"} \union (IF accepted THEN {"ok"} ELSE {"rejected"})

\* The probe answers: the rest of _recheck_session, up to the refresh.
Probed(s) ==
    /\ At(s, "probing")
    /\ \E verdict \in Verdicts :
        \/ /\ verdict # "rejected"
           /\ Freshness(s, IF verdict = "ok" THEN "healthy" ELSE "suspect", recent,
                        Tail(queue), send[s].code)
        \/ /\ verdict = "rejected" /\ CanRefresh
           /\ refreshes' = refreshes + 1
           /\ Await(s, "refreshing", send[s].code, health, queue)
           /\ UNCHANGED track
        \/ /\ verdict = "rejected" /\ ~CanRefresh
           /\ Freshness(s, "expired", recent, Tail(queue), send[s].code)
    /\ UNCHANGED <<setup, generation, checked, accepted, revocations>>

\* _track of a new generation: an empty window.  The known-good routes still hold.
FreshWindow == <<>>

\* replace_headers.
Replace == accepted' = TRUE /\ generation' = generation + 1

\* The refresh _recheck_session waits for returns credentials, or none.
Refreshed(s) ==
    /\ At(s, "refreshing")
    /\ \/ /\ Replace
          /\ checked' = TRUE
          /\ Freshness(s, "healthy", FreshWindow, Tail(queue), send[s].code)
       \/ /\ refreshes < MaxRefreshes
          /\ checked' = FALSE
          /\ Freshness(s, "suspect", recent, Tail(queue), send[s].code)
          /\ UNCHANGED <<accepted, generation>>
       \/ /\ refreshes >= MaxRefreshes
          /\ Freshness(s, "expired", recent, Tail(queue), send[s].code)
          /\ UNCHANGED <<accepted, generation, checked>>
    /\ UNCHANGED <<setup, revocations>>

\* The refresh _session_stale waits for returns.
StaleRefreshed(s) ==
    /\ At(s, "refreshing stale")
    /\ recent' = <<>>
    /\ \/ Replace /\ Leave(s, send[s].code, "healthy", Tail(queue))
       \/ /\ Leave(s, send[s].code, IF refreshes < MaxRefreshes THEN health ELSE "stale",
                   Tail(queue))
          /\ UNCHANGED <<accepted, generation>>
    /\ UNCHANGED <<setup, refreshes, checked, good, revocations>>

\* The queue without s, which is in it at most once.
Without(q, s) ==
    LET at == CHOOSE i \in DOMAIN q : q[i] = s
    IN  IF \E i \in DOMAIN q : q[i] = s
        THEN SubSeq(q, 1, at - 1) \o SubSeq(q, at + 1, Len(q))
        ELSE q

\* Mutant of Cancel: the lock is not released.
CancelKeepsLock(s) ==
    /\ send[s].at # "idle"
    /\ send' = [send EXCEPT ![s] = Idle]
    /\ UNCHANGED <<setup, session, accepted, track, queue, revocations>>

\* The task of s is cancelled where it waits; the lock is released.
Cancel(s) ==
    /\ send[s].at # "idle"
    /\ send' = [send EXCEPT ![s] = Idle]
    /\ queue' = Without(queue, s)
    /\ UNCHANGED <<setup, session, accepted, track, revocations>>

\* The target drops the session.
Revoke ==
    /\ accepted /\ revocations < MaxRevocations
    /\ accepted' = FALSE
    /\ revocations' = revocations + 1
    /\ UNCHANGED <<setup, session, track, queue, send>>

\* _SESSION_RECHECK_SECONDS pass.
Lapse ==
    /\ checked
    /\ checked' = FALSE
    /\ UNCHANGED <<setup, health, refreshes, generation, accepted, track, queue, send, revocations>>

Step(s) == Answer(s) \/ Resume(s) \/ Probed(s) \/ Refreshed(s) \/ StaleRefreshed(s)

Next ==
    \/ \E s \in Sends : (\E r \in Routes : Send(s, r)) \/ Step(s) \/ Cancel(s)
    \/ Revoke \/ Lapse

\* Every wait of a send ends: requests, probes and logins have a timeout, and the loop
\* runs what is ready.
Fairness == \A s \in Sends : WF_vars(Step(s))

Spec == Init /\ [][Next]_vars
FairSpec == Spec /\ Fairness

-----------------------------------------------------------------------------
(***************************************************************************)
(* Properties                                                              *)
(***************************************************************************)

\* Every variable has its type: the health is one of the five, the refreshes stay
\* within max_session_refreshes, the window within its length, and a send that waits
\* for the lock or holds it is in the lock's queue once.
TypeOK ==
    /\ {hasProbe, canRefresh, tracking, checked, accepted} \subseteq BOOLEAN
    /\ health \in {"unverified", "healthy", "suspect"} \union Down
    /\ refreshes \in 0..MaxRefreshes /\ generation \in 0..refreshes
    /\ good \subseteq Routes
    /\ recent \in Seq([route : Routes, denied : BOOLEAN]) /\ Len(recent) <= Window
    /\ \A s \in Sends :
        /\ send[s].at \in Places /\ send[s].code \in Codes
        /\ send[s].generation \in 0..generation /\ send[s].hop \in 0..MaxHops
        /\ Cardinality({i \in DOMAIN queue : queue[i] = s})
              = IF send[s].at \in {"idle", "sent"} THEN 0 ELSE 1
    /\ revocations \in 0..MaxRevocations

\* A session is expired only while the target rejects its credentials, whatever 401s
\* arrived late and however the refreshes of two feedbacks interleave.
NoFalseExpiry == health = "expired" => ~accepted

\* A session the target never dropped is neither refreshed nor stopped, whatever it
\* denies the principal on the routes it never served it, and on the other objects of
\* fewer than min_routes routes it did: that is access control.
LiveSessionIsKept ==
    revocations = 0 /\ Cardinality(Mixed) < MinRoutes => refreshes = 0 /\ health \notin Down

\* An expired session stays expired: no send still under way, no feedback that waited
\* for the lock, revives it with the credentials the probe saw rejected.
ExpiredIsFinal == [][health = "expired" => health' = "expired"]_vars

\* Every send ends: the feedback holds the lock across the probe and the refresh, which
\* are sends themselves and never wait for it.
FeedbackEnds == \A s \in Sends : send[s].at # "idle" ~> send[s].at = "idle"

\* "The session is STALE: the target refuses what it served this principal before", also
\* when it was only asked for other objects of the routes it served.
StaleMeansDropped == health = "stale" => revocations > 0

\* What the comment in execute says of a stale session: it is refused like an expired
\* one until a refresh replaces its credentials.  A 401 that was under way makes it
\* suspect, and its sends go out again.
StaleStaysRefused ==
    [][health = "stale" => health' = "stale" \/ generation' # generation]_vars

=============================================================================
