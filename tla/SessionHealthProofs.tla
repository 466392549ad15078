------------------------- MODULE SessionHealthProofs --------------------------
(***************************************************************************)
(* For any number of sends and every limit: a session is expired only while   *)
(* the target rejects it, stays expired, and one the target never dropped is  *)
(* never stopped.                                                             *)
(***************************************************************************)
EXTENDS SessionHealth, FiniteSetTheorems, TLAPS

Holding == {"probing", "refreshing", "refreshing stale"}

Message == [at : Places, route : Routes \union {"none"}, hop : Nat, generation : Nat,
            live : BOOLEAN, code : Codes]

\* The types the proofs need.
Typed ==
    /\ accepted \in BOOLEAN /\ generation \in Nat
    /\ send \in [Sends -> Message]
    /\ queue \in Seq(Sends)

\* Who is in the middle of a probe or a refresh is the head of the lock's queue.
HeadOf(t, q) == q # <<>> /\ Head(q) = t
LockHeld == \A t \in Sends : send[t].at \in Holding => HeadOf(t, queue)

\* Nobody asks about an expired session, and a refresh after a rejection finds the
\* credentials still rejected: who else could replace them would hold the lock too.
HoldersSeeTheTruth ==
    \A t \in Sends :
        /\ send[t].at \in Holding => health # "expired"
        /\ send[t].at = "refreshing" => ~accepted

ExpiryInv == Typed /\ LockHeld /\ HoldersSeeTheTruth /\ NoFalseExpiry

\* Queues.
LEMMA Queues ==
    ASSUME NEW q \in Seq(Sends), NEW s \in Sends
    PROVE  /\ Append(q, s) \in Seq(Sends) /\ <<s>> \o q \in Seq(Sends)
           /\ HeadOf(s, <<s>> \o q)
           /\ q # <<>> => HeadOf(Head(q), Append(q, s)) /\ Tail(q) \in Seq(Sends)
  BY DEF HeadOf

\* A queue without one of its sends is a queue.
LEMMA WithoutIsAQueue ==
    ASSUME NEW q \in Seq(Sends), NEW s \in Sends
    PROVE  Without(q, s) \in Seq(Sends)
  <1>. DEFINE at == CHOOSE i \in DOMAIN q : q[i] = s
  <1>1. CASE ~\E i \in DOMAIN q : q[i] = s
    BY <1>1 DEF Without
  <1>2. CASE \E i \in DOMAIN q : q[i] = s
    <2>1. at \in 1..Len(q)
      BY <1>2
    <2>2. Without(q, s) = SubSeq(q, 1, at - 1) \o SubSeq(q, at + 1, Len(q))
      BY <1>2 DEF Without
    <2>. HIDE DEF at
    <2>. QED
      BY <2>1, <2>2
  <1>. QED
    BY <1>1, <1>2

\* Leaving the queue keeps its head, unless it is the head that leaves.
LEMMA WithoutKeepsHead ==
    ASSUME NEW q \in Seq(Sends), NEW s \in Sends, NEW t \in Sends, t # s
    PROVE  /\ Without(q, s) \in Seq(Sends)
           /\ HeadOf(t, q) => HeadOf(t, Without(q, s))
  <1>. DEFINE at == CHOOSE i \in DOMAIN q : q[i] = s
              a == SubSeq(q, 1, at - 1)
              b == SubSeq(q, at + 1, Len(q))
  <1>1. CASE ~\E i \in DOMAIN q : q[i] = s
    BY <1>1 DEF Without
  <1>2. CASE \E i \in DOMAIN q : q[i] = s
    <2>1. at \in 1..Len(q) /\ q[at] = s
      BY <1>2
    <2>2. Without(q, s) = a \o b
      BY <1>2 DEF Without
    <2>. HIDE DEF at
    <2>3. a \in Seq(Sends) /\ b \in Seq(Sends)
      BY <2>1
    <2>4. ASSUME HeadOf(t, q)
          PROVE  HeadOf(t, a \o b)
      <3>1. q[1] = t /\ at > 1
        BY <2>1, <2>4 DEF HeadOf
      <3>2. Len(a) >= 1 /\ a[1] = t
        BY <3>1, <2>1
      <3>3. Len(a \o b) >= 1 /\ (a \o b)[1] = t
        <4>. HIDE DEF a, b
        <4>. QED
          BY <3>2, <2>3
      <3>. QED
        <4>. HIDE DEF a, b
        <4>. QED
          BY <3>3, <2>3 DEF HeadOf
    <2>5. a \o b \in Seq(Sends)
      BY <2>3
    <2>. QED
      BY <2>2, <2>4, <2>5
  <1>. QED
    BY <1>1, <1>2

\* What is left alone when a send waits.
LEMMA AwaitEffect ==
    ASSUME Typed, NEW s \in Sends, NEW place \in Places, NEW code \in Codes, NEW h, NEW q,
           Await(s, place, code, h, q)
    PROVE  /\ health' = h /\ queue' = q
           /\ send' \in [Sends -> Message]
           /\ send'[s].at = place
           /\ \A t \in Sends : t # s => send'[t] = send[t]
  BY DEF Await, Typed, Message, Idle

\* What is left alone when a send ends or follows a redirect.
LEMMA LeaveEffect ==
    ASSUME Typed, NEW s \in Sends, NEW code, NEW h, NEW q, Leave(s, code, h, q)
    PROVE  /\ health' = h /\ queue' = q
           /\ send' \in [Sends -> Message]
           /\ send'[s].at \in {"idle", "sent"}
           /\ \A t \in Sends : t # s => send'[t] = send[t]
  <1>1. CASE send' = [send EXCEPT ![s] = Idle]
    BY <1>1 DEF Leave, Typed, Message, Idle, Places, Codes
  <1>2. ASSUME NEW r \in Routes, send' = [send EXCEPT ![s] = Sent(r, send[s].hop + 1)]
        PROVE  /\ send' \in [Sends -> Message]
               /\ send'[s].at \in {"idle", "sent"}
               /\ \A t \in Sends : t # s => send'[t] = send[t]
    <2>. DEFINE m == Sent(r, send[s].hop + 1)
    <2>1. send[s] \in Message
      BY DEF Typed
    <2>2. send[s].hop + 1 \in Nat
      BY <2>1 DEF Message
    <2>3. m \in Message /\ m.at = "sent"
      BY <2>2 DEF Typed, Message, Sent, Places, Codes
    <2>. HIDE DEF m
    <2>. QED
      BY <1>2, <2>3 DEF Typed, m
  <1>3. \/ send' = [send EXCEPT ![s] = Idle]
        \/ \E r \in Routes : send' = [send EXCEPT ![s] = Sent(r, send[s].hop + 1)]
    BY DEF Leave
  <1>4. health' = h /\ queue' = q
    BY DEF Leave
  <1>. QED
    BY <1>1, <1>2, <1>3, <1>4

\* What _session_stale does to a send that has the lock, up to the refresh.
LEMMA GoStaleEffect ==
    ASSUME Typed, NEW s \in Sends, NEW h, NEW q \in Seq(Sends), NEW code \in Codes,
           GoStale(s, h, q, code)
    PROVE  /\ health' = h \/ (h \notin Down /\ health' = "stale")
           /\ send' \in [Sends -> Message]
           /\ \A t \in Sends : t # s => send'[t] = send[t]
           /\ \/ send'[s].at \in {"idle", "sent"} /\ queue' = q
              \/ /\ send'[s].at = "refreshing stale" /\ queue' = <<s>> \o q
                 /\ health' \notin Down
  <1>1. CASE h \notin Down /\ CanRefresh
    <2>1. Await(s, "refreshing stale", code, h, <<s>> \o q)
      BY <1>1 DEF GoStale
    <2>. QED
      BY <1>1, <2>1, AwaitEffect DEF Places
  <1>2. CASE ~(h \notin Down /\ CanRefresh)
    <2>1. Leave(s, code, IF h \in Down THEN h ELSE "stale", q)
      BY <1>2 DEF GoStale
    <2>. QED
      BY <2>1, LeaveEffect
  <1>. QED
    BY <1>1, <1>2

\* What _freshness_feedback does to a send, the lock free or held by the head of q.
LEMMA FreshnessEffect ==
    ASSUME Typed, NEW s \in Sends, NEW h, NEW w, NEW q \in Seq(Sends), NEW code \in Codes,
           Freshness(s, h, w, q, code)
    PROVE  /\ health' = h \/ (h \notin Down /\ health' = "stale")
           /\ send' \in [Sends -> Message]
           /\ queue' \in Seq(Sends)
           /\ \A t \in Sends : t # s => send'[t] = send[t]
           /\ send'[s].at # "refreshing" /\ send'[s].at # "probing"
           /\ send'[s].at = "refreshing stale" => HeadOf(s, queue') /\ health' \notin Down
           /\ \A t \in Sends : HeadOf(t, q) => HeadOf(t, queue')
  <1>1. \/ Leave(s, code, h, q)
        \/ q = <<>> /\ GoStale(s, h, q, code)
        \/ Await(s, "stale", code, h, Append(q, s)) /\ q # <<>>
    BY DEF Freshness
  <1>2. CASE Leave(s, code, h, q)
    BY <1>2, LeaveEffect
  <1>3. CASE q = <<>> /\ GoStale(s, h, q, code)
    <2>1. <<s>> \o q \in Seq(Sends) /\ HeadOf(s, <<s>> \o q)
      BY Queues
    <2>2. \A t \in Sends : ~HeadOf(t, q)
      BY <1>3 DEF HeadOf
    <2>3. /\ health' = h \/ (h \notin Down /\ health' = "stale")
          /\ send' \in [Sends -> Message]
          /\ queue' \in Seq(Sends)
          /\ \A t \in Sends : t # s => send'[t] = send[t]
          /\ send'[s].at # "refreshing" /\ send'[s].at # "probing"
          /\ send'[s].at = "refreshing stale" => HeadOf(s, queue') /\ health' \notin Down
      BY <1>3, <2>1, GoStaleEffect
    <2>. QED
      BY <2>2, <2>3
  <1>4. CASE Await(s, "stale", code, h, Append(q, s)) /\ q # <<>>
    <2>1. Append(q, s) \in Seq(Sends) /\ HeadOf(Head(q), Append(q, s))
      BY <1>4, Queues
    <2>2. \A t \in Sends : HeadOf(t, q) => t = Head(q)
      BY DEF HeadOf
    <2>. QED
      <3>1. /\ health' = h /\ queue' = Append(q, s)
            /\ send' \in [Sends -> Message]
            /\ send'[s].at = "stale"
            /\ \A t \in Sends : t # s => send'[t] = send[t]
        <4>1. "stale" \in Places
          BY DEF Places
        <4>. QED
          BY <1>4, <4>1, AwaitEffect
      <3>. QED
        BY <2>1, <2>2, <3>1
  <1>. QED
    BY <1>1, <1>2, <1>3, <1>4

\* What _recheck_session does up to the probe.
LEMMA RecheckEffect ==
    ASSUME Typed, NEW s \in Sends, NEW q \in Seq(Sends), NEW code \in Codes,
           Recheck(s, q, code), \A t \in Sends \ {s} : send[t].at \notin Holding
    PROVE  /\ send' \in [Sends -> Message]
           /\ queue' \in Seq(Sends)
           /\ \A t \in Sends : t # s => send'[t] = send[t]
           /\ send'[s].at # "refreshing"
           /\ send'[s].at \in Holding => HeadOf(s, queue') /\ health' # "expired"
           /\ health' = "expired" <=> health = "expired"
  <1>1. CASE health = "expired" \/ checked
    <2>1. Freshness(s, health, recent, q, code)
      BY <1>1 DEF Recheck
    <2>2. health' = health \/ (health \notin Down /\ health' = "stale")
      BY <2>1, FreshnessEffect
    <2>3. health' = "expired" <=> health = "expired"
      BY <2>2 DEF Down
    <2>4. send'[s].at \in Holding => HeadOf(s, queue') /\ health' # "expired"
      BY <2>1, FreshnessEffect DEF Holding, Down
    <2>5. /\ send' \in [Sends -> Message]
          /\ queue' \in Seq(Sends)
          /\ \A t \in Sends : t # s => send'[t] = send[t]
          /\ send'[s].at # "refreshing"
      BY <2>1, FreshnessEffect
    <2>. QED
      BY <2>3, <2>4, <2>5
  <1>2. CASE ~(health = "expired" \/ checked) /\ health = "stale"
    <2>1. Freshness(s, "suspect", recent, q, code)
      BY <1>2 DEF Recheck
    <2>2. health' # "expired" /\ health # "expired"
      <3>1. health' = "suspect" \/ health' = "stale"
        BY <2>1, FreshnessEffect
      <3>. QED
        BY <1>2, <3>1
    <2>3. send'[s].at \in Holding => HeadOf(s, queue')
      BY <2>1, FreshnessEffect DEF Holding
    <2>4. /\ send' \in [Sends -> Message]
          /\ queue' \in Seq(Sends)
          /\ \A t \in Sends : t # s => send'[t] = send[t]
          /\ send'[s].at # "refreshing"
      BY <2>1, FreshnessEffect
    <2>. QED
      BY <2>2, <2>3, <2>4
  <1>3. CASE ~(health = "expired" \/ checked) /\ health # "stale"
    <2>1. Await(s, "probing", code, health, <<s>> \o q)
      BY <1>3 DEF Recheck
    <2>2. <<s>> \o q \in Seq(Sends) /\ HeadOf(s, <<s>> \o q)
      BY Queues
    <2>. QED
      BY <1>3, <2>1, <2>2, AwaitEffect DEF Places
  <1>. QED
    BY <1>1, <1>2, <1>3

-----------------------------------------------------------------------------

\* A step of s that leaves the other sends alone keeps the invariant.
LEMMA StepOfOne ==
    ASSUME ExpiryInv, NEW s \in Sends,
           accepted' \in BOOLEAN, generation' \in Nat,
           send' \in [Sends -> Message], queue' \in Seq(Sends),
           \A t \in Sends : t # s => send'[t] = send[t],
           \A t \in Sends : t # s /\ send[t].at \in Holding =>
                HeadOf(t, queue') /\ health' # "expired" /\ (accepted' = accepted),
           send'[s].at \in Holding => HeadOf(s, queue') /\ health' # "expired",
           send'[s].at = "refreshing" => ~accepted',
           health' = "expired" => ~accepted'
    PROVE  ExpiryInv'
  <1>1. Typed'
    BY DEF Typed
  <1>2. LockHeld'
    <2>1. ASSUME NEW t \in Sends, send'[t].at \in Holding
          PROVE  HeadOf(t, queue')
      <3>1. CASE t = s
        BY <2>1, <3>1
      <3>2. CASE t # s
        BY <2>1, <3>2
      <3>. QED
        BY <3>1, <3>2
    <2>. QED
      BY <2>1 DEF LockHeld, HeadOf
  <1>3. HoldersSeeTheTruth'
    <2>1. ASSUME NEW t \in Sends, send'[t].at \in Holding
          PROVE  health' # "expired"
      <3>1. CASE t = s
        BY <2>1, <3>1
      <3>2. CASE t # s
        BY <2>1, <3>2
      <3>. QED
        BY <3>1, <3>2
    <2>2. ASSUME NEW t \in Sends, send'[t].at = "refreshing"
          PROVE  ~accepted'
      <3>1. CASE t = s
        BY <2>2, <3>1
      <3>2. CASE t # s
        <4>1. send[t].at = "refreshing"
          BY <2>2, <3>2
        <4>2. send[t].at \in Holding
          BY <4>1 DEF Holding
        <4>. QED
          BY <3>2, <4>1, <4>2 DEF ExpiryInv, HoldersSeeTheTruth
      <3>. QED
        BY <3>1, <3>2
    <2>. QED
      BY <2>1, <2>2 DEF HoldersSeeTheTruth
  <1>4. NoFalseExpiry'
    BY DEF NoFalseExpiry
  <1>. QED
    BY <1>1, <1>2, <1>3, <1>4 DEF ExpiryInv

\* Only one send holds the lock.
LEMMA OneHolder ==
    ASSUME ExpiryInv, NEW s \in Sends, queue = <<>> \/ Head(queue) = s
    PROVE  \A t \in Sends : t # s => send[t].at \notin Holding
  BY DEF ExpiryInv, LockHeld, HeadOf

\* An answer keeps the invariant, and an expired session.
LEMMA ExpiryAnswer ==
    ASSUME ExpiryInv, NEW s \in Sends, Answer(s)
    PROVE  ExpiryInv' /\ (health = "expired" => health' = "expired")
  <1>. USE DEF ExpiryInv
  <1>1. accepted' = accepted /\ generation' = generation
    BY DEF Answer
  <1>2. PICK code \in Answers(s) :
            \/ Freshness(s, HealthAfter(code), recent, queue, code)
            \/ queue = <<>> /\ Recheck(s, queue, code)
            \/ queue # <<>> /\ Await(s, "recheck", code, health, Append(queue, s))
    BY DEF Answer
  <1>3. code \in Codes /\ queue \in Seq(Sends) /\ Typed
    BY DEF Answers, Codes, Typed
  <1>4. accepted' \in BOOLEAN /\ generation' \in Nat
    BY <1>1 DEF Typed
  <1>5. \A t \in Sends : send[t].at \in Holding => HeadOf(t, queue) /\ health # "expired"
    BY DEF LockHeld, HoldersSeeTheTruth
  <1>6. CASE Freshness(s, HealthAfter(code), recent, queue, code)
    <2>1. HealthAfter(code) = "expired" <=> health = "expired"
      BY DEF HealthAfter
    <2>. DEFINE h == HealthAfter(code)
    <2>2. Freshness(s, h, recent, queue, code)
      BY <1>6
    <2>3. h = "expired" <=> health = "expired"
      BY <2>1
    <2>. HIDE DEF h
    <2>4. health' = h \/ (h \notin Down /\ health' = "stale")
      BY <1>3, <2>2, FreshnessEffect
    <2>5. health' = "expired" <=> health = "expired"
      BY <2>3, <2>4 DEF Down
    <2>6. /\ send' \in [Sends -> Message]
          /\ queue' \in Seq(Sends)
          /\ \A t \in Sends : t # s => send'[t] = send[t]
          /\ \A t \in Sends : HeadOf(t, queue) => HeadOf(t, queue')
      BY <1>3, <2>2, FreshnessEffect
    <2>7. send'[s].at \in Holding => HeadOf(s, queue') /\ health' # "expired"
      BY <1>3, <2>2, FreshnessEffect DEF Holding, Down
    <2>8. send'[s].at # "refreshing"
      BY <1>3, <2>2, FreshnessEffect
    <2>9. health' = "expired" => ~accepted'
      BY <1>1, <2>5 DEF NoFalseExpiry
    <2>10. ExpiryInv'
      BY <1>1, <1>4, <1>5, <2>5, <2>6, <2>7, <2>8, <2>9, StepOfOne
    <2>. QED
      BY <2>5, <2>10
  <1>7. CASE queue = <<>> /\ Recheck(s, queue, code)
    <2>1. \A t \in Sends : t # s => send[t].at \notin Holding
      BY <1>7, OneHolder
    <2>2. /\ send' \in [Sends -> Message]
          /\ queue' \in Seq(Sends)
          /\ \A t \in Sends : t # s => send'[t] = send[t]
          /\ send'[s].at # "refreshing"
          /\ send'[s].at \in Holding => HeadOf(s, queue') /\ health' # "expired"
          /\ health' = "expired" <=> health = "expired"
      BY <1>3, <1>7, <2>1, RecheckEffect
    <2>3. health' = "expired" => ~accepted'
      BY <1>1, <2>2 DEF NoFalseExpiry
    <2>4. ExpiryInv'
      BY <1>4, <2>1, <2>2, <2>3, StepOfOne
    <2>. QED
      BY <2>2, <2>4
  <1>8. CASE queue # <<>> /\ Await(s, "recheck", code, health, Append(queue, s))
    <2>1. Append(queue, s) \in Seq(Sends) /\ HeadOf(Head(queue), Append(queue, s))
      BY <1>3, <1>8, Queues
    <2>2. \A t \in Sends : HeadOf(t, queue) => t = Head(queue)
      BY DEF HeadOf
    <2>3. /\ health' = health /\ queue' = Append(queue, s)
          /\ send' \in [Sends -> Message]
          /\ send'[s].at = "recheck"
          /\ \A t \in Sends : t # s => send'[t] = send[t]
      BY <1>3, <1>8, AwaitEffect DEF Places
    <2>4. \A t \in Sends : HeadOf(t, queue) => HeadOf(t, queue')
      BY <2>1, <2>2, <2>3
    <2>5. send'[s].at \notin Holding /\ send'[s].at # "refreshing"
      BY <2>3 DEF Holding
    <2>6. health' = "expired" => ~accepted'
      BY <1>1, <2>3 DEF NoFalseExpiry
    <2>7. ExpiryInv'
      BY <1>1, <1>4, <1>5, <2>1, <2>3, <2>4, <2>5, <2>6, StepOfOne
    <2>. QED
      BY <2>3, <2>7
  <1>. QED
    BY <1>2, <1>6, <1>7, <1>8

\* The feedback of a send that has the lock to itself.
LEMMA FreshnessOfOne ==
    ASSUME ExpiryInv, NEW s \in Sends, NEW h, NEW w, NEW q \in Seq(Sends), NEW code \in Codes,
           Freshness(s, h, w, q, code),
           \A t \in Sends : t # s => send[t].at \notin Holding,
           accepted' \in BOOLEAN, generation' \in Nat,
           h = "expired" => ~accepted'
    PROVE  ExpiryInv' /\ (h = "expired" => health' = "expired")
  <1>1. Typed
    BY DEF ExpiryInv
  <1>2. health' = h \/ (h \notin Down /\ health' = "stale")
    BY <1>1, FreshnessEffect
  <1>3. health' = "expired" <=> h = "expired"
    BY <1>2 DEF Down
  <1>4. /\ send' \in [Sends -> Message]
        /\ queue' \in Seq(Sends)
        /\ \A t \in Sends : t # s => send'[t] = send[t]
        /\ send'[s].at # "refreshing"
    BY <1>1, FreshnessEffect
  <1>5. send'[s].at \in Holding => HeadOf(s, queue') /\ health' # "expired"
    BY <1>1, FreshnessEffect DEF Holding, Down
  <1>6. ExpiryInv'
    BY <1>3, <1>4, <1>5, StepOfOne
  <1>. QED
    BY <1>3, <1>6

\* The send that is passed the lock keeps the invariant, and an expired session.
LEMMA ExpiryResume ==
    ASSUME ExpiryInv, NEW s \in Sends, Resume(s)
    PROVE  ExpiryInv' /\ (health = "expired" => health' = "expired")
  <1>. DEFINE q == Tail(queue)
              code == send[s].code
  <1>1. queue # <<>> /\ Head(queue) = s /\ accepted' = accepted /\ generation' = generation
    BY DEF Resume, At
  <1>2. Typed /\ q \in Seq(Sends) /\ code \in Codes
    BY <1>1, Queues DEF ExpiryInv, Typed, Message
  <1>3. \A t \in Sends : t # s => send[t].at \notin Holding
    BY <1>1, OneHolder
  <1>4. accepted' \in BOOLEAN /\ generation' \in Nat
    BY <1>1, <1>2 DEF Typed
  <1>5. health = "expired" => ~accepted'
    BY <1>1 DEF ExpiryInv, NoFalseExpiry
  <1>6. Recheck(s, q, code) \/ GoStale(s, health, q, code)
    BY DEF Resume
  <1>. HIDE DEF q, code
  <1>7. CASE Recheck(s, q, code)
    <2>1. /\ send' \in [Sends -> Message]
          /\ queue' \in Seq(Sends)
          /\ \A t \in Sends : t # s => send'[t] = send[t]
          /\ send'[s].at # "refreshing"
          /\ send'[s].at \in Holding => HeadOf(s, queue') /\ health' # "expired"
          /\ health' = "expired" <=> health = "expired"
      BY <1>2, <1>3, <1>7, RecheckEffect
    <2>2. ExpiryInv'
      BY <1>3, <1>4, <1>5, <2>1, StepOfOne
    <2>. QED
      BY <2>1, <2>2
  <1>8. CASE GoStale(s, health, q, code)
    <2>1. /\ health' = health \/ (health \notin Down /\ health' = "stale")
          /\ send' \in [Sends -> Message]
          /\ \A t \in Sends : t # s => send'[t] = send[t]
          /\ \/ send'[s].at \in {"idle", "sent"} /\ queue' = q
             \/ /\ send'[s].at = "refreshing stale" /\ queue' = <<s>> \o q
                /\ health' \notin Down
      BY <1>2, <1>8, GoStaleEffect
    <2>2. health' = "expired" <=> health = "expired"
      BY <2>1 DEF Down
    <2>3. <<s>> \o q \in Seq(Sends) /\ HeadOf(s, <<s>> \o q)
      BY <1>2, Queues
    <2>4. queue' \in Seq(Sends)
      BY <1>2, <2>1, <2>3
    <2>5. send'[s].at \in Holding => HeadOf(s, queue') /\ health' # "expired"
      BY <2>1, <2>3 DEF Holding, Down
    <2>6. send'[s].at # "refreshing"
      BY <2>1
    <2>7. ExpiryInv'
      BY <1>3, <1>4, <1>5, <2>1, <2>2, <2>4, <2>5, <2>6, StepOfOne
    <2>. QED
      BY <2>2, <2>7
  <1>. QED
    BY <1>6, <1>7, <1>8

\* What the send that holds the lock knows.
LEMMA HolderFacts ==
    ASSUME ExpiryInv, NEW s \in Sends, NEW place \in Holding, At(s, place)
    PROVE  /\ Typed /\ Tail(queue) \in Seq(Sends) /\ send[s].code \in Codes
           /\ \A t \in Sends : t # s => send[t].at \notin Holding
           /\ health # "expired"
           /\ place = "refreshing" => ~accepted
           /\ queue \in Seq(Sends) /\ HeadOf(s, queue)
  <1>1. queue # <<>> /\ Head(queue) = s /\ send[s].at = place
    BY DEF At
  <1>2. Typed /\ queue \in Seq(Sends) /\ send[s] \in Message
    BY DEF ExpiryInv, Typed
  <1>3. Tail(queue) \in Seq(Sends)
    BY <1>1, <1>2, Queues
  <1>4. send[s].code \in Codes
    BY <1>2 DEF Message
  <1>5. \A t \in Sends : t # s => send[t].at \notin Holding
    BY <1>1, OneHolder
  <1>6. health # "expired" /\ (place = "refreshing" => ~accepted)
    BY <1>1 DEF ExpiryInv, HoldersSeeTheTruth
  <1>. QED
    BY <1>1, <1>2, <1>3, <1>4, <1>5, <1>6 DEF HeadOf

\* The probe's answer keeps the invariant: it rejects what the target rejects.
LEMMA ExpiryProbed ==
    ASSUME ExpiryInv, NEW s \in Sends, Probed(s)
    PROVE  ExpiryInv' /\ health # "expired"
  <1>. DEFINE q == Tail(queue)
              code == send[s].code
  <1>1. At(s, "probing") /\ accepted' = accepted /\ generation' = generation
    BY DEF Probed
  <1>2. /\ Typed /\ q \in Seq(Sends) /\ code \in Codes
        /\ \A t \in Sends : t # s => send[t].at \notin Holding
        /\ health # "expired"
        /\ queue \in Seq(Sends) /\ HeadOf(s, queue)
    BY <1>1, HolderFacts DEF Holding
  <1>3. accepted' \in BOOLEAN /\ generation' \in Nat
    BY <1>1, <1>2 DEF Typed
  <1>4. \/ Freshness(s, "healthy", recent, q, code)
        \/ Freshness(s, "suspect", recent, q, code)
        \/ ~accepted /\ Await(s, "refreshing", code, health, queue)
        \/ ~accepted /\ Freshness(s, "expired", recent, q, code)
    BY DEF Probed, Verdicts
  <1>. HIDE DEF q, code
  <1>5. CASE Freshness(s, "healthy", recent, q, code)
    BY <1>2, <1>3, <1>5, FreshnessOfOne
  <1>6. CASE Freshness(s, "suspect", recent, q, code)
    BY <1>2, <1>3, <1>6, FreshnessOfOne
  <1>7. CASE ~accepted /\ Await(s, "refreshing", code, health, queue)
    <2>1. /\ health' = health /\ queue' = queue
          /\ send' \in [Sends -> Message]
          /\ send'[s].at = "refreshing"
          /\ \A t \in Sends : t # s => send'[t] = send[t]
      BY <1>2, <1>7, AwaitEffect DEF Places
    <2>2. health' # "expired"
      BY <1>2, <2>1
    <2>3. ~accepted' /\ HeadOf(s, queue') /\ queue' \in Seq(Sends)
      BY <1>1, <1>2, <1>7, <2>1
    <2>. QED
      BY <1>2, <1>3, <2>1, <2>2, <2>3, StepOfOne
  <1>8. CASE ~accepted /\ Freshness(s, "expired", recent, q, code)
    <2>1. ~accepted'
      BY <1>1, <1>8
    <2>. QED
      BY <1>2, <1>3, <1>8, <2>1, FreshnessOfOne
  <1>. QED
    BY <1>4, <1>5, <1>6, <1>7, <1>8

\* The refresh after a rejection keeps the invariant: a failed one finds the
\* credentials rejected still.
LEMMA ExpiryRefreshed ==
    ASSUME ExpiryInv, NEW s \in Sends, Refreshed(s)
    PROVE  ExpiryInv' /\ health # "expired"
  <1>. DEFINE q == Tail(queue)
              code == send[s].code
  <1>1. At(s, "refreshing")
    BY DEF Refreshed
  <1>2. /\ Typed /\ q \in Seq(Sends) /\ code \in Codes
        /\ \A t \in Sends : t # s => send[t].at \notin Holding
        /\ health # "expired" /\ ~accepted
    BY <1>1, HolderFacts DEF Holding
  <1>3. \/ Replace /\ Freshness(s, "healthy", FreshWindow, q, code)
        \/ /\ accepted' = accepted /\ generation' = generation
           /\ Freshness(s, "suspect", recent, q, code)
        \/ /\ accepted' = accepted /\ generation' = generation
           /\ Freshness(s, "expired", recent, q, code)
    BY DEF Refreshed
  <1>4. accepted' \in BOOLEAN /\ generation' \in Nat
    <2>1. accepted' = TRUE \/ accepted' = accepted
      BY <1>3 DEF Replace
    <2>2. generation' = generation + 1 \/ generation' = generation
      BY <1>3 DEF Replace
    <2>3. accepted' \in BOOLEAN
      BY <1>2, <2>1 DEF Typed
    <2>4. generation' \in Nat
      BY <1>2, <2>2 DEF Typed
    <2>. QED
      BY <2>3, <2>4
  <1>. HIDE DEF q, code
  <1>5. CASE Replace /\ Freshness(s, "healthy", FreshWindow, q, code)
    BY <1>2, <1>4, <1>5, FreshnessOfOne
  <1>6. CASE accepted' = accepted /\ Freshness(s, "suspect", recent, q, code)
    BY <1>2, <1>4, <1>6, FreshnessOfOne
  <1>7. CASE accepted' = accepted /\ Freshness(s, "expired", recent, q, code)
    <2>1. ~accepted'
      BY <1>2, <1>7
    <2>. QED
      BY <1>2, <1>4, <1>7, <2>1, FreshnessOfOne
  <1>. QED
    BY <1>3, <1>5, <1>6, <1>7

\* The refresh of a stale session keeps the invariant.
LEMMA ExpiryStaleRefreshed ==
    ASSUME ExpiryInv, NEW s \in Sends, StaleRefreshed(s)
    PROVE  ExpiryInv' /\ health # "expired"
  <1>. DEFINE q == Tail(queue)
              code == send[s].code
              h == IF refreshes < MaxRefreshes THEN health ELSE "stale"
  <1>1. At(s, "refreshing stale")
    BY DEF StaleRefreshed
  <1>2. /\ Typed /\ q \in Seq(Sends)
        /\ \A t \in Sends : t # s => send[t].at \notin Holding
        /\ health # "expired"
    BY <1>1, HolderFacts DEF Holding
  <1>3. \/ Replace /\ Leave(s, code, "healthy", q)
        \/ accepted' = accepted /\ generation' = generation /\ Leave(s, code, h, q)
    BY DEF StaleRefreshed
  <1>4. accepted' \in BOOLEAN /\ generation' \in Nat
    <2>1. accepted' = TRUE \/ accepted' = accepted
      BY <1>3 DEF Replace
    <2>2. generation' = generation + 1 \/ generation' = generation
      BY <1>3 DEF Replace
    <2>3. accepted' \in BOOLEAN
      BY <1>2, <2>1 DEF Typed
    <2>4. generation' \in Nat
      BY <1>2, <2>2 DEF Typed
    <2>. QED
      BY <2>3, <2>4
  <1>5. h # "expired"
    BY <1>2
  <1>. HIDE DEF q, code, h
  <1>6. /\ health' = "healthy" \/ health' = h
        /\ queue' = q
        /\ send' \in [Sends -> Message]
        /\ send'[s].at \in {"idle", "sent"}
        /\ \A t \in Sends : t # s => send'[t] = send[t]
    BY <1>2, <1>3, LeaveEffect
  <1>7. health' # "expired"
    BY <1>5, <1>6
  <1>8. send'[s].at \notin Holding /\ send'[s].at # "refreshing"
    BY <1>6 DEF Holding
  <1>9. queue' \in Seq(Sends)
    BY <1>2, <1>6
  <1>. QED
    BY <1>2, <1>4, <1>6, <1>7, <1>8, <1>9, StepOfOne

\* A new send keeps the invariant.
LEMMA ExpirySend ==
    ASSUME ExpiryInv, NEW s \in Sends, NEW r \in Routes, Send(s, r)
    PROVE  ExpiryInv' /\ health' = health
  <1>1. /\ UNCHANGED <<health, generation, accepted, queue>>
        /\ send' = [send EXCEPT ![s] = Sent(r, 0)]
    BY DEF Send, session
  <1>2. Typed
    BY DEF ExpiryInv
  <1>. DEFINE m == Sent(r, 0)
  <1>3. m \in Message /\ m.at = "sent"
    BY <1>2 DEF Typed, Message, Sent, Places, Codes
  <1>. HIDE DEF m
  <1>4. /\ send' \in [Sends -> Message]
        /\ send'[s].at = "sent"
        /\ \A t \in Sends : t # s => send'[t] = send[t]
    BY <1>1, <1>2, <1>3 DEF Typed, m
  <1>5. \A t \in Sends : send[t].at \in Holding => HeadOf(t, queue') /\ health' # "expired"
    BY <1>1 DEF ExpiryInv, LockHeld, HoldersSeeTheTruth
  <1>6. send'[s].at \notin Holding /\ send'[s].at # "refreshing"
    BY <1>4 DEF Holding
  <1>7. health' = "expired" => ~accepted'
    BY <1>1 DEF ExpiryInv, NoFalseExpiry
  <1>8. accepted' \in BOOLEAN /\ generation' \in Nat /\ queue' \in Seq(Sends)
    BY <1>1, <1>2 DEF Typed
  <1>. QED
    BY <1>1, <1>4, <1>5, <1>6, <1>7, <1>8, StepOfOne

\* A cancelled send keeps the invariant: the lock goes to the next.
LEMMA ExpiryCancel ==
    ASSUME ExpiryInv, NEW s \in Sends, Cancel(s)
    PROVE  ExpiryInv' /\ health' = health
  <1>1. /\ UNCHANGED <<health, generation, accepted>>
        /\ send' = [send EXCEPT ![s] = Idle]
        /\ queue' = Without(queue, s)
    BY DEF Cancel, session
  <1>2. Typed /\ queue \in Seq(Sends)
    BY DEF ExpiryInv, Typed
  <1>3. Idle \in Message /\ Idle.at = "idle"
    BY DEF Message, Idle, Places, Codes
  <1>4. /\ send' \in [Sends -> Message]
        /\ send'[s].at = "idle"
        /\ \A t \in Sends : t # s => send'[t] = send[t]
    BY <1>1, <1>2, <1>3 DEF Typed
  <1>5. ASSUME NEW t \in Sends, t # s, send[t].at \in Holding
        PROVE  HeadOf(t, queue') /\ health' # "expired"
    <2>1. HeadOf(t, queue) /\ health # "expired"
      BY <1>5 DEF ExpiryInv, LockHeld, HoldersSeeTheTruth
    <2>. QED
      BY <1>1, <1>2, <1>5, <2>1, WithoutKeepsHead
  <1>6. queue' \in Seq(Sends)
    BY <1>1, <1>2, WithoutIsAQueue
  <1>7. send'[s].at \notin Holding /\ send'[s].at # "refreshing"
    BY <1>4 DEF Holding
  <1>8. health' = "expired" => ~accepted'
    BY <1>1 DEF ExpiryInv, NoFalseExpiry
  <1>9. accepted' \in BOOLEAN /\ generation' \in Nat
    BY <1>1, <1>2 DEF Typed
  <1>. QED
    BY <1>1, <1>4, <1>5, <1>6, <1>7, <1>8, <1>9, StepOfOne

\* What the target and the clock do keeps the invariant.
LEMMA ExpiryElsewhere ==
    ASSUME ExpiryInv, Revoke \/ Lapse \/ UNCHANGED vars
    PROVE  ExpiryInv' /\ health' = health
  <1>1. /\ UNCHANGED <<health, generation, queue, send>>
        /\ accepted' = FALSE \/ accepted' = accepted
    BY DEF Revoke, Lapse, vars, session
  <1>2. Typed'
    BY <1>1 DEF ExpiryInv, Typed
  <1>3. LockHeld'
    BY <1>1 DEF ExpiryInv, LockHeld, HeadOf
  <1>4. HoldersSeeTheTruth'
    BY <1>1 DEF ExpiryInv, HoldersSeeTheTruth
  <1>5. NoFalseExpiry'
    BY <1>1 DEF ExpiryInv, NoFalseExpiry
  <1>. QED
    BY <1>1, <1>2, <1>3, <1>4, <1>5 DEF ExpiryInv

\* Initially.
LEMMA ExpiryInit == Init => ExpiryInv
  <1>. SUFFICES ASSUME Init PROVE ExpiryInv
    OBVIOUS
  <1>1. Idle \in Message /\ Idle.at = "idle"
    BY DEF Message, Idle, Places, Codes
  <1>2. \A t \in Sends : send[t] = Idle
    BY DEF Init
  <1>3. Typed
    BY <1>1 DEF Init, Typed
  <1>4. LockHeld /\ HoldersSeeTheTruth
    BY <1>1, <1>2 DEF LockHeld, HoldersSeeTheTruth, Holding
  <1>5. NoFalseExpiry
    BY DEF Init, NoFalseExpiry
  <1>. QED
    BY <1>3, <1>4, <1>5 DEF ExpiryInv

\* Every step keeps the invariant and leaves an expired session expired.
LEMMA ExpiryNext ==
    ASSUME ExpiryInv, [Next]_vars
    PROVE  ExpiryInv' /\ (health = "expired" => health' = "expired")
  <1>1. CASE \E s \in Sends, r \in Routes : Send(s, r)
    BY <1>1, ExpirySend
  <1>2. CASE \E s \in Sends : Answer(s)
    BY <1>2, ExpiryAnswer
  <1>3. CASE \E s \in Sends : Resume(s)
    BY <1>3, ExpiryResume
  <1>4. CASE \E s \in Sends : Probed(s)
    BY <1>4, ExpiryProbed
  <1>5. CASE \E s \in Sends : Refreshed(s)
    BY <1>5, ExpiryRefreshed
  <1>6. CASE \E s \in Sends : StaleRefreshed(s)
    BY <1>6, ExpiryStaleRefreshed
  <1>7. CASE \E s \in Sends : Cancel(s)
    BY <1>7, ExpiryCancel
  <1>8. CASE Revoke \/ Lapse \/ UNCHANGED vars
    BY <1>8, ExpiryElsewhere
  <1>. QED
    BY <1>1, <1>2, <1>3, <1>4, <1>5, <1>6, <1>7, <1>8 DEF Next, Step

\* A session is expired only while the target rejects its credentials: whatever is
\* under way, whoever refreshes, wherever a task is cancelled.
THEOREM ExpiryIsTrue == Spec => []NoFalseExpiry
  <1>1. ExpiryInv /\ [Next]_vars => ExpiryInv'
    BY ExpiryNext
  <1>2. ExpiryInv => NoFalseExpiry
    BY DEF ExpiryInv
  <1>. QED
    BY <1>1, <1>2, ExpiryInit, PTL DEF Spec

\* No late answer and no waiting feedback revives an expired session.
THEOREM ExpiryStays == Spec => ExpiredIsFinal
  <1>1. ExpiryInv /\ [Next]_vars => ExpiryInv'
    BY ExpiryNext
  <1>2. ExpiryInv /\ [Next]_vars => [health = "expired" => health' = "expired"]_vars
    BY ExpiryNext
  <1>. QED
    BY <1>1, <1>2, ExpiryInit, PTL DEF Spec, ExpiredIsFinal

-----------------------------------------------------------------------------

\* An entry of the window, and a window in which nothing was denied but on mixed routes.
Entry == [route : Routes, denied : BOOLEAN]
Spared(e) == e.denied => e.route \in Mixed
Clean(w) == w \in Seq(Entry) /\ \A i \in DOMAIN w : Spared(w[i])

\* A send the target answers as it answers a principal it never dropped.
Welcome(m) ==
    /\ m.at \in {"idle", "sent", "recheck", "probing"}
    /\ m.at = "sent" => m.live /\ m.generation = 0
    /\ m.at \in {"recheck", "probing"} => m.code = "401" /\ m.route \in Refused

\* While the target drops nothing, the window holds no denial but on the few mixed
\* routes, and no probe a rejection.
Live ==
    /\ Cardinality(Mixed) < MinRoutes
    /\ accepted /\ generation = 0 /\ refreshes = 0 /\ health \notin Down
    /\ good \subseteq Private
    /\ Clean(recent)
    /\ \A t \in Sends : Welcome(send[t])

LiveInv == ExpiryInv /\ revocations \in Nat /\ (revocations = 0 /\ Cardinality(Mixed) < MinRoutes => Live)

\* A clean window stays clean when something served, or a denial on a mixed route, is
\* added to it.
LEMMA CleanWindow ==
    ASSUME NEW w, Clean(w), NEW e \in Entry, Spared(e)
    PROVE  Clean(Last(Append(w, e), Window))
  <1>. DEFINE v == Append(w, e)
              n == Len(v) - Window + 1
  <1>1. w \in Seq(Entry) /\ \A i \in 1..Len(w) : Spared(w[i])
    BY DEF Clean
  <1>2. v \in Seq(Entry) /\ Len(v) = Len(w) + 1 /\ Len(w) \in Nat
    BY <1>1
  <1>3. \A i \in 1..Len(v) : v[i] = IF i <= Len(w) THEN w[i] ELSE e
    BY <1>1
  <1>4. \A i \in 1..Len(v) : Spared(v[i])
    BY <1>1, <1>2, <1>3
  <1>. HIDE DEF v
  <1>5. CASE Len(v) <= Window
    BY <1>2, <1>4, <1>5 DEF Last, Clean, v
  <1>6. CASE ~(Len(v) <= Window)
    <2>1. Window \in Nat \ {0}
      BY SessionAssumption
    <2>2. n \in 1..Len(v)
      BY <1>2, <1>6, <2>1
    <2>3. Last(v, Window) = SubSeq(v, n, Len(v))
      BY <1>6 DEF Last
    <2>. HIDE DEF n
    <2>4. SubSeq(v, n, Len(v)) \in Seq(Entry) /\ Len(SubSeq(v, n, Len(v))) = Len(v) - n + 1
      BY <1>2, <2>2
    <2>5. \A i \in 1..(Len(v) - n + 1) : SubSeq(v, n, Len(v))[i] = v[n + i - 1]
      BY <1>2, <2>2
    <2>6. \A i \in 1..(Len(v) - n + 1) : n + i - 1 \in 1..Len(v)
      BY <1>2, <2>2
    <2>7. \A i \in 1..(Len(v) - n + 1) : Spared(SubSeq(v, n, Len(v))[i])
      BY <1>4, <2>5, <2>6
    <2>. DEFINE u == SubSeq(v, n, Len(v))
    <2>8. u \in Seq(Entry) /\ \A i \in 1..Len(u) : Spared(u[i])
      BY <2>4, <2>7
    <2>9. Last(Append(w, e), Window) = u
      BY <2>3 DEF v
    <2>. HIDE DEF u
    <2>. QED
      BY <2>8, <2>9 DEF Clean
  <1>. QED
    BY <1>5, <1>6

\* A clean window is not stale: the routes denied in it are too few.
LEMMA CleanIsNotStale ==
    ASSUME NEW w, Clean(w), Cardinality(Mixed) < MinRoutes
    PROVE  ~IsStale(w)
  <1>. DEFINE D == {i \in DOMAIN w : w[i].denied}
              R == {w[i].route : i \in D}
  <1>1. R \subseteq Mixed
    BY DEF Clean, Spared
  <1>2. IsFiniteSet(Mixed)
    BY SessionAssumption, FS_Subset DEF Mixed
  <1>. HIDE DEF R
  <1>3. Cardinality(R) <= Cardinality(Mixed)
    BY <1>1, <1>2, FS_Subset
  <1>4. Cardinality(R) \in Nat /\ Cardinality(Mixed) \in Nat /\ MinRoutes \in Nat
    BY <1>1, <1>2, FS_Subset, FS_CardinalityType, SessionAssumption
  <1>5. ~(Cardinality(R) >= MinRoutes)
    BY <1>3, <1>4
  <1>. QED
    BY <1>5 DEF IsStale, R

\* The feedback of a send that was served, or denied where the target denies it, leaves
\* the session as it is.
LEMMA FreshnessOfTheLive ==
    ASSUME Typed, Live, NEW s \in Sends, NEW h, NEW w, NEW q, NEW code,
           Freshness(s, h, w, q, code), h \notin Down, Clean(w),
           code = "2xx" => send[s].route \in Private,
           code \in {"401", "403"} => send[s].route \in Refused
    PROVE  /\ Leave(s, code, h, q)
           /\ refreshes' = 0 /\ good' \subseteq Private /\ Clean(recent')
  <1>. DEFINE r == send[s].route
  <1>1. CASE ~tracking
    BY <1>1 DEF Freshness, Live
  <1>2. CASE tracking
    <2>1. /\ good' = IF code = "2xx" THEN good \union {r} ELSE good
          /\ recent' = WindowAfter(w, r, code)
          /\ ~LooksStale(w, r, code) => Leave(s, code, h, q) /\ UNCHANGED refreshes
      BY <1>2 DEF Freshness
    <2>2. good' \subseteq Private
      BY <2>1 DEF Live
    <2>3. CASE code = "2xx"
      <3>. DEFINE e == [route |-> r, denied |-> FALSE]
      <3>1. e \in Entry /\ Spared(e)
        BY <2>3 DEF Routes, Entry, Spared
      <3>2. WindowAfter(w, r, code) = Last(Append(w, e), Window)
        BY <2>3 DEF WindowAfter, Kept
      <3>. HIDE DEF e
      <3>3. Clean(WindowAfter(w, r, code))
        BY <3>1, <3>2, CleanWindow
      <3>4. ~LooksStale(w, r, code)
        BY <3>3, CleanIsNotStale DEF LooksStale, Live
      <3>. QED
        BY <2>1, <2>2, <3>3, <3>4 DEF Live
    <2>4. CASE code # "2xx" /\ ~Kept(r, code)
      <3>1. WindowAfter(w, r, code) = w /\ ~LooksStale(w, r, code)
        BY <2>4 DEF WindowAfter, LooksStale
      <3>. QED
        BY <2>1, <2>2, <3>1 DEF Live
    <2>5. CASE code # "2xx" /\ Kept(r, code)
      <3>. DEFINE e == [route |-> r, denied |-> TRUE]
      <3>1. r \in Mixed
        BY <2>5 DEF Kept, Live, Mixed
      <3>2. e \in Entry /\ Spared(e)
        BY <3>1 DEF Mixed, Routes, Entry, Spared
      <3>3. WindowAfter(w, r, code) = Last(Append(w, e), Window)
        BY <2>5 DEF WindowAfter
      <3>. HIDE DEF e
      <3>4. Clean(WindowAfter(w, r, code))
        BY <3>2, <3>3, CleanWindow
      <3>5. ~LooksStale(w, r, code)
        BY <3>4, CleanIsNotStale DEF LooksStale, Live
      <3>. QED
        BY <2>1, <2>2, <3>4, <3>5 DEF Live
    <2>. QED
      BY <2>3, <2>4, <2>5
  <1>. QED
    BY <1>1, <1>2

\* A send that ends, or follows a redirect, is still welcome.
LEMMA LeaveOfTheLive ==
    ASSUME Typed, Live, NEW s \in Sends, NEW code, NEW h, NEW q, Leave(s, code, h, q),
           h \notin Down, UNCHANGED <<accepted, generation>>,
           refreshes' = 0, good' \subseteq Private, Clean(recent')
    PROVE  Live'
  <1>1. \/ send' = [send EXCEPT ![s] = Idle]
        \/ \E r \in Routes : send' = [send EXCEPT ![s] = Sent(r, send[s].hop + 1)]
    BY DEF Leave
  <1>2. send'[s] = Idle \/ \E r \in Routes : send'[s] = Sent(r, send[s].hop + 1)
    BY <1>1 DEF Typed
  <1>3. Welcome(send'[s])
    <2>1. CASE send'[s] = Idle
      BY <2>1 DEF Welcome, Idle
    <2>2. ASSUME NEW r \in Routes, NEW hop, send'[s] = Sent(r, hop)
          PROVE  Welcome(send'[s])
      <3>1. send'[s].at = "sent" /\ send'[s].live = accepted /\ send'[s].generation = generation
        BY <2>2 DEF Sent
      <3>. QED
        BY <3>1 DEF Welcome, Live
    <2>. QED
      BY <1>2, <2>1, <2>2
  <1>4. \A t \in Sends : Welcome(send'[t])
    BY <1>1, <1>3 DEF Live, Typed
  <1>5. health' = h
    BY DEF Leave
  <1>. QED
    BY <1>4, <1>5 DEF Live, Clean

\* A send that waits with a denial the target gives this principal is still welcome.
LEMMA AwaitOfTheLive ==
    ASSUME Typed, Live, NEW s \in Sends, NEW place \in {"recheck", "probing"}, NEW q,
           Await(s, place, "401", health, q), send[s].route \in Refused,
           UNCHANGED <<accepted, generation, refreshes, track>>
    PROVE  Live'
  <1>1. send' = [send EXCEPT ![s] = [Idle EXCEPT !.at = place, !.code = "401",
                                         !.route = send[s].route, !.hop = send[s].hop]]
    BY DEF Await
  <1>2. send'[s].at = place /\ send'[s].code = "401" /\ send'[s].route = send[s].route
    BY <1>1 DEF Typed, Idle
  <1>3. Welcome(send'[s])
    BY <1>2 DEF Welcome
  <1>4. \A t \in Sends : Welcome(send'[t])
    BY <1>1, <1>3 DEF Live, Typed
  <1>5. health' = health /\ good' = good /\ recent' = recent
    BY DEF Await, track
  <1>. QED
    BY <1>4, <1>5 DEF Live, Clean

\* _recheck_session of a session the target keeps.
LEMMA RecheckOfTheLive ==
    ASSUME Typed, Live, NEW s \in Sends, NEW q, Recheck(s, q, "401"),
           send[s].route \in Refused, UNCHANGED <<accepted, generation>>
    PROVE  Live'
  <1>1. health \notin Down /\ Clean(recent)
    BY DEF Live
  <1>2. CASE checked
    <2>1. Freshness(s, health, recent, q, "401")
      BY <1>2 DEF Recheck
    <2>2. /\ Leave(s, "401", health, q)
          /\ refreshes' = 0 /\ good' \subseteq Private /\ Clean(recent')
      BY <1>1, <2>1, FreshnessOfTheLive
    <2>. QED
      BY <1>1, <2>2, LeaveOfTheLive
  <1>3. CASE ~checked
    <2>1. /\ Await(s, "probing", "401", health, <<s>> \o q)
          /\ UNCHANGED <<refreshes, track>>
      BY <1>1, <1>3 DEF Recheck, Down
    <2>. QED
      BY <2>1, AwaitOfTheLive
  <1>. QED
    BY <1>2, <1>3

\* An answer leaves a session the target keeps alive.
LEMMA LiveAnswer ==
    ASSUME Typed, Live, NEW s \in Sends, Answer(s)
    PROVE  Live'
  <1>1. send[s].at = "sent" /\ UNCHANGED <<accepted, generation>>
    BY DEF Answer
  <1>2. send[s].live /\ send[s].generation = generation /\ accepted
    BY <1>1 DEF Live, Welcome
  <1>3. PICK code \in Answers(s) :
            \/ Freshness(s, HealthAfter(code), recent, queue, code)
            \/ code = "401" /\ Recheck(s, queue, code)
            \/ /\ code = "401" /\ Await(s, "recheck", code, health, Append(queue, s))
               /\ UNCHANGED <<refreshes, track>>
    BY DEF Answer
  <1>4. /\ code = "2xx" => send[s].route \in Private
        /\ code \in {"401", "403"} => send[s].route \in Refused
    BY <1>2 DEF Answers
  <1>5. CASE Freshness(s, HealthAfter(code), recent, queue, code)
    <2>. DEFINE h == HealthAfter(code)
    <2>1. h \notin Down /\ Clean(recent)
      BY DEF HealthAfter, Live, Down
    <2>2. Freshness(s, h, recent, queue, code)
      BY <1>5
    <2>. HIDE DEF h
    <2>3. /\ Leave(s, code, h, queue)
          /\ refreshes' = 0 /\ good' \subseteq Private /\ Clean(recent')
      BY <1>4, <2>1, <2>2, FreshnessOfTheLive
    <2>. QED
      BY <1>1, <2>1, <2>3, LeaveOfTheLive
  <1>6. CASE code = "401" /\ Recheck(s, queue, code)
    BY <1>1, <1>4, <1>6, RecheckOfTheLive
  <1>7. CASE /\ code = "401" /\ Await(s, "recheck", code, health, Append(queue, s))
             /\ UNCHANGED <<refreshes, track>>
    BY <1>1, <1>4, <1>7, AwaitOfTheLive
  <1>. QED
    BY <1>3, <1>5, <1>6, <1>7

\* So does the feedback of a send that is passed the lock.
LEMMA LiveResume ==
    ASSUME Typed, Live, NEW s \in Sends, Resume(s)
    PROVE  Live'
  <1>1. UNCHANGED <<accepted, generation>>
    BY DEF Resume
  <1>2. send[s].at # "stale"
    BY DEF Live, Welcome
  <1>3. send[s].at = "recheck" /\ Recheck(s, Tail(queue), send[s].code)
    BY <1>2 DEF Resume, At
  <1>4. send[s].code = "401" /\ send[s].route \in Refused
    BY <1>3 DEF Live, Welcome
  <1>5. Recheck(s, Tail(queue), "401")
    BY <1>3, <1>4
  <1>. QED
    BY <1>1, <1>4, <1>5, RecheckOfTheLive

\* The probe of a session the target keeps rejects nothing.
LEMMA LiveProbed ==
    ASSUME Typed, Live, NEW s \in Sends, Probed(s)
    PROVE  Live'
  <1>1. send[s].at = "probing" /\ UNCHANGED <<accepted, generation>>
    BY DEF Probed, At
  <1>2. send[s].code = "401" /\ send[s].route \in Refused
    BY <1>1 DEF Live, Welcome
  <1>3. "rejected" \notin Verdicts
    BY DEF Verdicts, Live
  <1>4. PICK h \in {"healthy", "suspect"} :
            Freshness(s, h, recent, Tail(queue), send[s].code)
    BY <1>3 DEF Probed
  <1>5. h \notin Down /\ Clean(recent) /\ Freshness(s, h, recent, Tail(queue), "401")
    BY <1>2, <1>4 DEF Down, Live
  <1>6. /\ Leave(s, "401", h, Tail(queue))
        /\ refreshes' = 0 /\ good' \subseteq Private /\ Clean(recent')
    BY <1>2, <1>5, FreshnessOfTheLive
  <1>. QED
    BY <1>1, <1>5, <1>6, LeaveOfTheLive

\* Every step of a session the target has not dropped, and does not drop.
LEMMA LiveNext ==
    ASSUME Typed, Live, [Next]_vars, ~Revoke
    PROVE  Live'
  <1>1. ASSUME NEW s \in Sends, NEW r \in Routes, Send(s, r)
        PROVE  Live'
    <2>1. /\ UNCHANGED <<health, refreshes, generation, accepted, good, recent>>
          /\ send' = [send EXCEPT ![s] = Sent(r, 0)]
      BY <1>1 DEF Send, session, track
    <2>2. Welcome(Sent(r, 0))
      BY DEF Sent, Welcome, Live
    <2>3. \A t \in Sends : Welcome(send'[t])
      BY <2>1, <2>2 DEF Live, Typed
    <2>. QED
      BY <2>1, <2>3 DEF Live, Clean
  <1>2. ASSUME NEW s \in Sends, Refreshed(s) \/ StaleRefreshed(s)
        PROVE  FALSE
    <2>1. send[s].at \in {"refreshing", "refreshing stale"}
      BY <1>2 DEF Refreshed, StaleRefreshed, At
    <2>. QED
      BY <2>1 DEF Live, Welcome
  <1>3. ASSUME NEW s \in Sends, Cancel(s)
        PROVE  Live'
    <2>1. /\ UNCHANGED <<health, refreshes, generation, accepted, good, recent>>
          /\ send' = [send EXCEPT ![s] = Idle]
      BY <1>3 DEF Cancel, session, track
    <2>2. Welcome(Idle)
      BY DEF Idle, Welcome
    <2>3. \A t \in Sends : Welcome(send'[t])
      BY <2>1, <2>2 DEF Live, Typed
    <2>. QED
      BY <2>1, <2>3 DEF Live, Clean
  <1>4. CASE Lapse \/ UNCHANGED vars
    <2>1. UNCHANGED <<health, refreshes, generation, accepted, good, recent, send>>
      BY <1>4 DEF Lapse, vars, session, track
    <2>. QED
      BY <2>1 DEF Live, Clean
  <1>. QED
    BY <1>1, <1>2, <1>3, <1>4, LiveAnswer, LiveResume, LiveProbed DEF Next, Step

\* Only the target's own doing counts as a revocation.
LEMMA Revocations ==
    ASSUME revocations \in Nat, [Next]_vars
    PROVE  /\ revocations' \in Nat
           /\ revocations' = 0 => revocations = 0 /\ ~Revoke
  <1>1. CASE Revoke
    BY <1>1 DEF Revoke
  <1>2. CASE ~Revoke
    <2>1. revocations' = revocations
      BY <1>2 DEF Next, Step, Send, Answer, Resume, Probed, Refreshed, StaleRefreshed, Cancel,
                  Lapse, vars
    <2>. QED
      BY <1>2, <2>1
  <1>. QED
    BY <1>1, <1>2

\* A session the target never dropped is neither refreshed nor stopped, whatever it
\* denies the principal on routes it never served it and on fewer than min_routes routes
\* it served in part, and however the feedbacks of those denials interleave.
THEOREM LiveSessionStays == Spec => []LiveSessionIsKept
  <1>1. Init => LiveInv
    <2>. SUFFICES ASSUME Init PROVE LiveInv
      OBVIOUS
    <2>1. \A t \in Sends : Welcome(send[t])
      BY DEF Init, Idle, Welcome
    <2>2. Clean(<<>>)
      BY DEF Clean
    <2>3. Cardinality(Mixed) < MinRoutes => Live
      BY <2>1, <2>2 DEF Init, Live, Down
    <2>. QED
      BY <2>3, ExpiryInit DEF LiveInv, Init
  <1>2. LiveInv /\ [Next]_vars => LiveInv'
    <2>. SUFFICES ASSUME LiveInv, [Next]_vars PROVE LiveInv'
      OBVIOUS
    <2>1. ExpiryInv'
      BY ExpiryNext DEF LiveInv
    <2>2. revocations' \in Nat /\ (revocations' = 0 => revocations = 0 /\ ~Revoke)
      BY Revocations DEF LiveInv
    <2>3. revocations' = 0 /\ Cardinality(Mixed) < MinRoutes => Live'
      BY <2>2, LiveNext DEF LiveInv, ExpiryInv
    <2>. QED
      BY <2>1, <2>2, <2>3 DEF LiveInv
  <1>3. LiveInv => LiveSessionIsKept
    BY DEF LiveInv, Live, LiveSessionIsKept
  <1>. QED
    BY <1>1, <1>2, <1>3, PTL DEF Spec

-----------------------------------------------------------------------------
(***************************************************************************)
(* The type invariant: the lock's line                                     *)
(***************************************************************************)

\* The health of a session, and what a window records of an answer.
Healths == {"unverified", "healthy", "suspect"} \union Down
Track == [route : Routes, denied : BOOLEAN]

\* q is a line of the sends W, each of them in it once.
Lined(q, W) ==
    /\ q \in Seq(Sends)
    /\ \A i, j \in DOMAIN q : q[i] = q[j] => i = j
    /\ W = {q[i] : i \in DOMAIN q}

\* The sends that wait for the lock or hold it.
Waiting(f) == {t \in Sends : f[t].at \notin {"idle", "sent"}}

\* A line without its head is a line.
LEMMA LineWithoutHead ==
    ASSUME NEW q, NEW W, Lined(q, W), q # <<>>
    PROVE  Lined(Tail(q), W \ {Head(q)})
  <1>. DEFINE r == Tail(q)
  <1>1. q \in Seq(Sends) /\ Len(q) \in Nat /\ Len(q) >= 1 /\ DOMAIN q = 1..Len(q)
    BY DEF Lined
  <1>2. r \in Seq(Sends) /\ DOMAIN r = 1..(Len(q) - 1) /\ \A i \in 1..(Len(q) - 1) : r[i] = q[i + 1]
    BY <1>1
  <1>3. Head(q) = q[1]
    BY <1>1
  <1>4. \A i, j \in DOMAIN q : q[i] = q[j] => i = j
    BY DEF Lined
  <1>. HIDE DEF r
  <1>5. \A i, j \in DOMAIN r : r[i] = r[j] => i = j
    <2>1. SUFFICES ASSUME NEW i \in DOMAIN r, NEW j \in DOMAIN r, r[i] = r[j]
                   PROVE  i = j
      OBVIOUS
    <2>2. i + 1 \in DOMAIN q /\ j + 1 \in DOMAIN q /\ i \in Int /\ j \in Int
      BY <1>1, <1>2
    <2>3. q[i + 1] = q[j + 1]
      BY <1>2, <2>1
    <2>4. i + 1 = j + 1
      BY <1>4, <2>2, <2>3
    <2>. QED
      BY <2>2, <2>4
  <1>6. {r[i] : i \in DOMAIN r} = {q[i] : i \in DOMAIN q} \ {q[1]}
    <2>1. ASSUME NEW i \in DOMAIN r PROVE r[i] \in {q[j] : j \in DOMAIN q} \ {q[1]}
      <3>1. i + 1 \in DOMAIN q /\ i + 1 # 1 /\ 1 \in DOMAIN q /\ r[i] = q[i + 1]
        BY <1>1, <1>2
      <3>. QED
        BY <1>4, <3>1
    <2>2. ASSUME NEW j \in DOMAIN q, q[j] # q[1] PROVE q[j] \in {r[i] : i \in DOMAIN r}
      <3>1. j - 1 \in DOMAIN r /\ r[j - 1] = q[j]
        BY <1>1, <1>2, <2>2
      <3>. QED
        BY <3>1
    <2>. QED
      BY <2>1, <2>2
  <1>. QED
    BY <1>2, <1>3, <1>5, <1>6 DEF Lined, r

\* A line with one more send at its end.
LEMMA LineWithLast ==
    ASSUME NEW q, NEW W, Lined(q, W), NEW s \in Sends, s \notin W
    PROVE  Lined(Append(q, s), W \union {s})
  <1>. DEFINE r == Append(q, s)
  <1>1. q \in Seq(Sends) /\ Len(q) \in Nat /\ DOMAIN q = 1..Len(q) /\ Len(q) + 1 \notin DOMAIN q
    BY DEF Lined
  <1>2. /\ r \in Seq(Sends) /\ DOMAIN r = DOMAIN q \union {Len(q) + 1} /\ r[Len(q) + 1] = s
        /\ \A i \in DOMAIN q : r[i] = q[i]
    BY <1>1
  <1>3. /\ \A i, j \in DOMAIN q : q[i] = q[j] => i = j
        /\ W = {q[i] : i \in DOMAIN q}
    BY DEF Lined
  <1>. HIDE DEF r
  <1>4. \A i, j \in DOMAIN r : r[i] = r[j] => i = j
    BY <1>2, <1>3
  <1>5. {r[i] : i \in DOMAIN r} = W \union {s}
    BY <1>2, <1>3
  <1>. QED
    BY <1>2, <1>4, <1>5 DEF Lined, r

\* A line with one more send at its front.
LEMMA LineWithFirst ==
    ASSUME NEW q, NEW W, Lined(q, W), NEW s \in Sends, s \notin W
    PROVE  Lined(<<s>> \o q, W \union {s})
  <1>. DEFINE r == <<s>> \o q
  <1>1. q \in Seq(Sends) /\ Len(q) \in Nat /\ DOMAIN q = 1..Len(q)
    BY DEF Lined
  <1>2. /\ r \in Seq(Sends) /\ DOMAIN r = 1..(Len(q) + 1) /\ r[1] = s
        /\ \A i \in 1..Len(q) : r[i + 1] = q[i]
    BY <1>1
  <1>3. /\ \A i, j \in DOMAIN q : q[i] = q[j] => i = j
        /\ W = {q[i] : i \in DOMAIN q}
    BY DEF Lined
  <1>. HIDE DEF r
  <1>4. \A i \in DOMAIN r : i = 1 \/ (i - 1 \in DOMAIN q /\ r[i] = q[i - 1])
    BY <1>1, <1>2
  <1>5. \A i \in DOMAIN q : i + 1 \in DOMAIN r /\ r[i + 1] = q[i]
    BY <1>1, <1>2
  <1>6. \A i, j \in DOMAIN r : r[i] = r[j] => i = j
    <2>. SUFFICES ASSUME NEW i \in DOMAIN r, NEW j \in DOMAIN r, r[i] = r[j] PROVE i = j
      OBVIOUS
    <2>1. i \in Int /\ j \in Int
      BY <1>1, <1>2
    <2>2. CASE i = 1 /\ j = 1
      BY <2>2
    <2>3. CASE i = 1 /\ j # 1
      BY <1>2, <1>3, <1>4, <2>3
    <2>4. CASE i # 1 /\ j = 1
      BY <1>2, <1>3, <1>4, <2>4
    <2>5. CASE i # 1 /\ j # 1
      <3>1. i - 1 = j - 1
        BY <1>3, <1>4, <2>5
      <3>. QED
        BY <2>1, <3>1
    <2>. QED
      BY <2>2, <2>3, <2>4, <2>5
  <1>7. {r[i] : i \in DOMAIN r} = W \union {s}
    <2>1. 1 \in DOMAIN r
      BY <1>1, <1>2
    <2>2. ASSUME NEW i \in DOMAIN r PROVE r[i] \in W \union {s}
      <3>1. CASE i = 1
        BY <1>2, <3>1
      <3>2. CASE i # 1
        <4>1. i - 1 \in DOMAIN q /\ r[i] = q[i - 1]
          BY <1>4, <3>2
        <4>. QED
          BY <1>3, <4>1, Zenon
      <3>. QED
        BY <3>1, <3>2
    <2>3. ASSUME NEW x \in W \union {s} PROVE \E i \in DOMAIN r : x = r[i]
      <3>1. CASE x = s
        BY <1>2, <2>1, <3>1, Zenon
      <3>2. CASE x \in W
        <4>1. PICK i \in DOMAIN q : x = q[i]
          BY <1>3, <3>2, Zenon
        <4>. QED
          BY <1>5, <4>1, Zenon
      <3>. QED
        BY <2>3, <3>1, <3>2
    <2>. QED
      BY <2>2, <2>3
  <1>. QED
    BY <1>2, <1>6, <1>7 DEF Lined, r

\* A line that a send has left.
LEMMA LineWithout ==
    ASSUME NEW q, NEW W, Lined(q, W), NEW s \in Sends
    PROVE  Lined(Without(q, s), W \ {s})
  <1>. DEFINE at == CHOOSE i \in DOMAIN q : q[i] = s
  <1>1. /\ q \in Seq(Sends) /\ Len(q) \in Nat /\ DOMAIN q = 1..Len(q)
        /\ W = {q[i] : i \in DOMAIN q}
        /\ \A i, j \in DOMAIN q : q[i] = q[j] => i = j
    BY DEF Lined
  <1>2. CASE ~\E i \in DOMAIN q : q[i] = s
    <2>1. Without(q, s) = q
      BY <1>2 DEF Without
    <2>2. W \ {s} = W
      BY <1>1, <1>2
    <2>. QED
      BY <2>1, <2>2
  <1>3. CASE \E i \in DOMAIN q : q[i] = s
    <2>1. at \in 1..Len(q) /\ q[at] = s
      BY <1>1, <1>3
    <2>2. Without(q, s) = SubSeq(q, 1, at - 1) \o SubSeq(q, at + 1, Len(q))
      BY <1>3 DEF Without
    <2>. HIDE DEF at
    <2>. DEFINE a == SubSeq(q, 1, at - 1)
                b == SubSeq(q, at + 1, Len(q))
                r == a \o b
    <2>3. /\ a \in Seq(Sends) /\ Len(a) = at - 1 /\ \A i \in 1..(at - 1) : a[i] = q[i]
          /\ b \in Seq(Sends) /\ Len(b) = Len(q) - at
          /\ \A i \in 1..(Len(q) - at) : b[i] = q[at + i]
      <3>1. a \in Seq(Sends) /\ Len(a) = at - 1 /\ \A i \in 1..(at - 1) : a[i] = q[i]
        BY <1>1, <2>1
      <3>2. b \in Seq(Sends) /\ Len(b) = Len(q) - at
        <4>1. \A i \in (at + 1)..Len(q) : q[i] \in Sends
          BY <1>1, <2>1
        <4>2. b = [i \in 1..(Len(q) - at) |-> q[i + (at + 1) - 1]]
          BY <1>1, <2>1
        <4>3. b \in Seq(Sends)
          BY <1>1, <2>1, <4>1
        <4>4. DOMAIN b = 1..(Len(q) - at) /\ Len(q) - at \in Nat
          BY <1>1, <2>1, <4>2
        <4>. QED
          <5>. HIDE DEF b
          <5>. QED
            BY <4>3, <4>4
      <3>3. \A i \in 1..(Len(q) - at) : b[i] = q[at + i]
        <4>. SUFFICES ASSUME NEW i \in 1..(Len(q) - at) PROVE b[i] = q[at + i]
          OBVIOUS
        <4>1. b[i] = q[(at + 1) + i - 1] /\ (at + 1) + i - 1 = at + i
          BY <1>1, <2>1
        <4>. QED
          BY <4>1
      <3>. QED
        BY <3>1, <3>2, <3>3
    <2>4. /\ r \in Seq(Sends) /\ Len(r) = Len(q) - 1 /\ DOMAIN r = 1..(Len(q) - 1)
          /\ \A i \in 1..Len(a) : r[i] = a[i]
          /\ \A i \in (Len(a) + 1)..(Len(a) + Len(b)) : r[i] = b[i - Len(a)]
      <3>. HIDE DEF a, b
      <3>1. Len(a) \in Nat /\ Len(b) \in Nat /\ Len(a) + Len(b) = Len(q) - 1
        BY <1>1, <2>1, <2>3
      <3>. QED
        BY <2>3, <3>1
    <2>. HIDE DEF a, b
    <2>5. \A i \in 1..(Len(q) - 1) : r[i] = q[IF i < at THEN i ELSE i + 1]
      <3>. SUFFICES ASSUME NEW i \in 1..(Len(q) - 1) PROVE r[i] = q[IF i < at THEN i ELSE i + 1]
        OBVIOUS
      <3>. HIDE DEF r
      <3>1. CASE i < at
        BY <2>1, <2>3, <2>4, <3>1
      <3>2. CASE ~(i < at)
        <4>1. i \in (Len(a) + 1)..(Len(a) + Len(b)) /\ i - Len(a) = i - at + 1 /\ i - at + 1 \in 1..(Len(q) - at)
          BY <1>1, <2>1, <2>3, <3>2
        <4>2. r[i] = q[at + (i - at + 1)] /\ at + (i - at + 1) = i + 1
          BY <2>1, <2>3, <2>4, <4>1
        <4>. QED
          BY <3>2, <4>2
      <3>. QED
        BY <3>1, <3>2
    <2>. HIDE DEF r
    <2>6. \A i, j \in DOMAIN r : r[i] = r[j] => i = j
      <3>. SUFFICES ASSUME NEW i \in DOMAIN r, NEW j \in DOMAIN r, r[i] = r[j] PROVE i = j
        OBVIOUS
      <3>1. /\ (IF i < at THEN i ELSE i + 1) \in DOMAIN q
            /\ (IF j < at THEN j ELSE j + 1) \in DOMAIN q
            /\ i \in Int /\ j \in Int /\ at \in Int
        BY <1>1, <2>1, <2>4
      <3>2. (IF i < at THEN i ELSE i + 1) = (IF j < at THEN j ELSE j + 1)
        BY <1>1, <2>4, <2>5, <3>1
      <3>. QED
        BY <3>1, <3>2
    <2>7. ASSUME NEW i \in DOMAIN r PROVE r[i] \in W \ {s}
      <3>. DEFINE k == IF i < at THEN i ELSE i + 1
      <3>1. k \in DOMAIN q /\ k # at /\ r[i] = q[k] /\ at \in DOMAIN q
        BY <1>1, <2>1, <2>4, <2>5
      <3>. QED
        BY <1>1, <2>1, <3>1
    <2>8. ASSUME NEW k \in DOMAIN q, q[k] # s PROVE q[k] \in {r[i] : i \in DOMAIN r}
      <3>1. CASE k < at
        <4>1. k \in DOMAIN r /\ r[k] = q[k]
          BY <1>1, <2>1, <2>4, <2>5, <3>1
        <4>. QED
          BY <4>1
      <3>2. CASE ~(k < at)
        <4>1. k # at
          BY <2>1, <2>8
        <4>2. k - 1 \in DOMAIN r /\ ~(k - 1 < at) /\ (k - 1) + 1 = k
          BY <1>1, <2>1, <2>4, <3>2, <4>1
        <4>3. r[k - 1] = q[k]
          BY <2>4, <2>5, <4>2
        <4>. QED
          BY <4>2, <4>3
      <3>. QED
        BY <3>1, <3>2
    <2>9. W \ {s} = {r[i] : i \in DOMAIN r}
      BY <1>1, <2>7, <2>8
    <2>10. Without(q, s) = r
      BY <2>2 DEF r, a, b
    <2>11. Lined(r, W \ {s})
      BY <2>4, <2>6, <2>9 DEF Lined
    <2>. QED
      BY <2>10, <2>11
  <1>. QED
    BY <1>2, <1>3

\* In a line each send that waits has one place, and no other has any.
LEMMA OnePlaceInLine ==
    ASSUME NEW q, NEW W, Lined(q, W), NEW s \in Sends
    PROVE  Cardinality({i \in DOMAIN q : q[i] = s}) = IF s \in W THEN 1 ELSE 0
  <1>. DEFINE P == {i \in DOMAIN q : q[i] = s}
  <1>1. CASE s \in W
    <2>1. PICK i \in DOMAIN q : q[i] = s
      BY <1>1 DEF Lined
    <2>2. P = {i}
      BY <2>1 DEF Lined
    <2>3. Cardinality({i}) = 1
      BY FS_Singleton
    <2>. QED
      BY <1>1, <2>2, <2>3
  <1>2. CASE s \notin W
    <2>1. P = {}
      BY <1>2 DEF Lined
    <2>. QED
      BY <1>2, <2>1, FS_EmptySet
  <1>. QED
    BY <1>1, <1>2

\* A window of denials and successes within its length.
Windowed(w) == w \in Seq(Track) /\ Len(w) <= Window

\* A send carries credentials there have been, within the redirects, and knows its route.
Fits(m) ==
    /\ m.generation \in 0..generation /\ m.hop \in 0..MaxHops
    /\ m.at # "idle" => m.route \in Routes

Refreshing == {"refreshing", "refreshing stale"}

\* The refreshes paid for: each generation after the first, and the one under way.
Paid ==
    /\ refreshes \in 0..MaxRefreshes /\ generation \in 0..refreshes
    /\ \A t \in Sends : send[t].at \in Refreshing => generation < refreshes

SessionInv ==
    /\ ExpiryInv
    /\ {hasProbe, canRefresh, tracking, checked} \subseteq BOOLEAN
    /\ health \in Healths /\ good \subseteq Routes /\ Windowed(recent)
    /\ \A t \in Sends : Fits(send[t])
    /\ Paid
    /\ Lined(queue, Waiting(send))
    /\ revocations \in 0..MaxRevocations

\* What the feedback of s leaves, up to its next await.
Outcome(s) ==
    /\ health' \in Healths /\ good' \subseteq Routes /\ Windowed(recent')
    /\ Fits(send'[s]) /\ \A t \in Sends : t # s => send'[t] = send[t]
    /\ Lined(queue', Waiting(send'))
    /\ \/ refreshes' = refreshes /\ send'[s].at \notin Refreshing
       \/ refreshes' = refreshes + 1 /\ refreshes < MaxRefreshes

\* The last entries of a window and one more are a window.
LEMMA WindowStays ==
    ASSUME NEW w, Windowed(w), NEW r \in Routes, NEW code
    PROVE  Windowed(WindowAfter(w, r, code))
  <1>. DEFINE e == [route |-> r, denied |-> code # "2xx"]
              v == Append(w, e)
              n == Len(v) - Window + 1
  <1>1. e \in Track
    BY DEF Track
  <1>2. w \in Seq(Track) /\ Len(w) \in Nat /\ Len(w) <= Window /\ Window \in Nat \ {0}
    BY SessionAssumption DEF Windowed
  <1>. HIDE DEF e
  <1>3. v \in Seq(Track) /\ Len(v) = Len(w) + 1
    BY <1>1, <1>2
  <1>. HIDE DEF v
  <1>4. Windowed(Last(v, Window))
    <2>1. CASE Len(v) <= Window
      BY <1>3, <2>1 DEF Last, Windowed
    <2>2. CASE ~(Len(v) <= Window)
      <3>1. n \in 1..Len(v) /\ Len(v) - n + 1 = Window
        BY <1>2, <1>3, <2>2
      <3>2. Last(v, Window) = SubSeq(v, n, Len(v))
        BY <2>2 DEF Last
      <3>. HIDE DEF n
      <3>3. SubSeq(v, n, Len(v)) \in Seq(Track) /\ Len(SubSeq(v, n, Len(v))) = Len(v) - n + 1
        BY <1>3, <3>1
      <3>. QED
        BY <1>2, <3>1, <3>2, <3>3 DEF Windowed
    <2>. QED
      BY <2>1, <2>2
  <1>. QED
    BY <1>4 DEF WindowAfter, v, e

\* A send that ends, or follows its redirect, is out of the line.
LEMMA LeaveOutcome ==
    ASSUME Typed, NEW s \in Sends, NEW code, NEW h, NEW q,
           Lined(q, Waiting(send) \ {s}), Fits(send[s]), Leave(s, code, h, q)
    PROVE  /\ Fits(send'[s]) /\ \A t \in Sends : t # s => send'[t] = send[t]
           /\ Lined(queue', Waiting(send')) /\ health' = h
           /\ send'[s].at \notin Refreshing
  <1>1. /\ health' = h /\ queue' = q /\ send'[s].at \in {"idle", "sent"}
        /\ \A t \in Sends : t # s => send'[t] = send[t]
    BY LeaveEffect
  <1>2. Waiting(send') = Waiting(send) \ {s}
    BY <1>1 DEF Waiting
  <1>3. send'[s] = Idle \/ \E r \in Routes : send'[s] = Sent(r, send[s].hop + 1) /\ send[s].hop < MaxHops
    BY DEF Leave, Typed
  <1>4. generation \in Nat /\ MaxHops \in Nat /\ send[s].hop \in 0..MaxHops
    BY SessionAssumption DEF Typed, Fits
  <1>5. Fits(send'[s])
    <2>1. Fits(Idle)
      BY <1>4 DEF Fits, Idle
    <2>2. ASSUME NEW r \in Routes, send[s].hop < MaxHops PROVE Fits(Sent(r, send[s].hop + 1))
      BY <1>4, <2>2 DEF Fits, Sent
    <2>. QED
      BY <1>3, <2>1, <2>2
  <1>. QED
    BY <1>1, <1>2, <1>5 DEF Refreshing

\* A send that waits is in the line.
LEMMA AwaitOutcome ==
    ASSUME Typed, NEW s \in Sends, NEW place \in Places \ {"idle", "sent"}, NEW code \in Codes, NEW h, NEW q,
           Lined(q, Waiting(send) \union {s}), Fits(send[s]), send[s].route \in Routes,
           Await(s, place, code, h, q)
    PROVE  /\ Fits(send'[s]) /\ \A t \in Sends : t # s => send'[t] = send[t]
           /\ Lined(queue', Waiting(send')) /\ health' = h
           /\ send'[s].at = place
  <1>1. /\ health' = h /\ queue' = q /\ send'[s].at = place
        /\ \A t \in Sends : t # s => send'[t] = send[t]
    BY AwaitEffect
  <1>2. Waiting(send') = Waiting(send) \union {s}
    BY <1>1 DEF Waiting
  <1>3. send'[s].generation = 0 /\ send'[s].hop = send[s].hop /\ send'[s].route = send[s].route
    BY DEF Await, Typed, Idle
  <1>4. generation \in Nat
    BY DEF Typed
  <1>5. Fits(send'[s])
    BY <1>3, <1>4 DEF Fits
  <1>. QED
    BY <1>1, <1>2, <1>5

\* _session_stale, the lock held.
LEMMA GoStaleOutcome ==
    ASSUME Typed, refreshes \in Nat, NEW s \in Sends, NEW h \in Healths, NEW q, NEW code \in Codes,
           Lined(q, Waiting(send) \ {s}), Fits(send[s]), send[s].route \in Routes,
           GoStale(s, h, q, code)
    PROVE  /\ Fits(send'[s]) /\ \A t \in Sends : t # s => send'[t] = send[t]
           /\ Lined(queue', Waiting(send')) /\ health' \in Healths
           /\ \/ refreshes' = refreshes /\ send'[s].at \notin Refreshing
              \/ refreshes' = refreshes + 1 /\ refreshes < MaxRefreshes
  <1>1. CASE h \notin Down /\ CanRefresh
    <2>1. /\ Await(s, "refreshing stale", code, h, <<s>> \o q)
          /\ refreshes' = refreshes + 1 /\ refreshes < MaxRefreshes
      BY <1>1 DEF GoStale, CanRefresh
    <2>2. Lined(<<s>> \o q, Waiting(send) \union {s})
      <3>1. Lined(<<s>> \o q, (Waiting(send) \ {s}) \union {s})
        BY LineWithFirst
      <3>2. (Waiting(send) \ {s}) \union {s} = Waiting(send) \union {s}
        OBVIOUS
      <3>. QED
        BY <3>1, <3>2
    <2>3. "refreshing stale" \in Places \ {"idle", "sent"}
      BY DEF Places
    <2>4. /\ Fits(send'[s]) /\ \A t \in Sends : t # s => send'[t] = send[t]
          /\ Lined(queue', Waiting(send')) /\ health' = h
      BY <2>1, <2>2, <2>3, AwaitOutcome
    <2>. QED
      BY <2>1, <2>4
  <1>2. CASE ~(h \notin Down /\ CanRefresh)
    <2>. DEFINE k == IF h \in Down THEN h ELSE "stale"
    <2>1. Leave(s, code, k, q) /\ refreshes' = refreshes
      BY <1>2 DEF GoStale
    <2>2. k \in Healths
      BY DEF Healths, Down
    <2>. HIDE DEF k
    <2>. QED
      BY <2>1, <2>2, LeaveOutcome
  <1>. QED
    BY <1>1, <1>2

\* _freshness_feedback, the lock free or held by another.
LEMMA FreshnessOutcome ==
    ASSUME Typed, refreshes \in Nat, good \subseteq Routes,
           NEW s \in Sends, NEW h \in Healths, NEW w, Windowed(w), NEW q, NEW code \in Codes,
           Lined(q, Waiting(send) \ {s}), Fits(send[s]), send[s].route \in Routes,
           Freshness(s, h, w, q, code)
    PROVE  Outcome(s)
  <1>. DEFINE r == send[s].route
  <1>1. good' \subseteq Routes /\ Windowed(recent')
    <2>1. good' = good \/ good' = good \union {r}
      BY DEF Freshness
    <2>2. recent' = w \/ recent' = WindowAfter(w, r, code)
      BY DEF Freshness
    <2>. QED
      BY <2>1, <2>2, WindowStays
  <1>2. \/ Leave(s, code, h, q) /\ refreshes' = refreshes
        \/ GoStale(s, h, q, code)
        \/ Await(s, "stale", code, h, Append(q, s)) /\ refreshes' = refreshes
    BY DEF Freshness
  <1>3. CASE Leave(s, code, h, q) /\ refreshes' = refreshes
    BY <1>1, <1>3, LeaveOutcome DEF Outcome
  <1>4. CASE GoStale(s, h, q, code)
    BY <1>1, <1>4, GoStaleOutcome DEF Outcome
  <1>5. CASE Await(s, "stale", code, h, Append(q, s)) /\ refreshes' = refreshes
    <2>1. Lined(Append(q, s), Waiting(send) \union {s})
      <3>1. Lined(Append(q, s), (Waiting(send) \ {s}) \union {s})
        BY LineWithLast
      <3>2. (Waiting(send) \ {s}) \union {s} = Waiting(send) \union {s}
        OBVIOUS
      <3>. QED
        BY <3>1, <3>2
    <2>2. "stale" \in Places \ {"idle", "sent"} /\ "stale" \notin Refreshing
      BY DEF Places, Refreshing
    <2>3. /\ Fits(send'[s]) /\ \A t \in Sends : t # s => send'[t] = send[t]
          /\ Lined(queue', Waiting(send')) /\ health' = h /\ send'[s].at = "stale"
      BY <1>5, <2>1, <2>2, AwaitOutcome
    <2>. QED
      BY <1>1, <1>5, <2>2, <2>3 DEF Outcome
  <1>. QED
    BY <1>2, <1>3, <1>4, <1>5

\* _recheck_session, up to the probe.
LEMMA RecheckOutcome ==
    ASSUME Typed, refreshes \in Nat, good \subseteq Routes, health \in Healths, Windowed(recent),
           checked \in BOOLEAN,
           NEW s \in Sends, NEW q, NEW code \in Codes,
           Lined(q, Waiting(send) \ {s}), Fits(send[s]), send[s].route \in Routes,
           Recheck(s, q, code)
    PROVE  Outcome(s) /\ checked' \in BOOLEAN
  <1>1. checked' \in BOOLEAN
    BY DEF Recheck
  <1>2. "suspect" \in Healths
    BY DEF Healths
  <1>3. CASE Freshness(s, health, recent, q, code) \/ Freshness(s, "suspect", recent, q, code)
    BY <1>1, <1>2, <1>3, FreshnessOutcome
  <1>4. CASE Await(s, "probing", code, health, <<s>> \o q) /\ UNCHANGED <<refreshes, track>>
    <2>1. Lined(<<s>> \o q, Waiting(send) \union {s})
      <3>1. Lined(<<s>> \o q, (Waiting(send) \ {s}) \union {s})
        BY LineWithFirst
      <3>2. (Waiting(send) \ {s}) \union {s} = Waiting(send) \union {s}
        OBVIOUS
      <3>. QED
        BY <3>1, <3>2
    <2>2. "probing" \in Places \ {"idle", "sent"} /\ "probing" \notin Refreshing
      BY DEF Places, Refreshing
    <2>3. /\ Fits(send'[s]) /\ \A t \in Sends : t # s => send'[t] = send[t]
          /\ Lined(queue', Waiting(send')) /\ health' = health /\ send'[s].at = "probing"
      BY <1>4, <2>1, <2>2, AwaitOutcome
    <2>4. good' = good /\ recent' = recent /\ refreshes' = refreshes
      BY <1>4 DEF track
    <2>. QED
      BY <1>1, <2>2, <2>3, <2>4 DEF Outcome
  <1>. QED
    BY <1>3, <1>4 DEF Recheck

\* What one send's feedback, and at most one replacement of the credentials by the send
\* that was refreshing them, leave of the invariant.
LEMMA OutcomeKeeps ==
    ASSUME SessionInv, NEW s \in Sends, Outcome(s), ExpiryInv',
           UNCHANGED <<setup, revocations>>, checked' \in BOOLEAN,
           \/ generation' = generation
           \/ /\ generation' = generation + 1 /\ send[s].at \in Refreshing
              /\ \A t \in Sends : t # s => send[t].at \notin Holding
    PROVE  SessionInv'
  <1>1. /\ refreshes \in 0..MaxRefreshes /\ generation \in 0..refreshes /\ MaxRefreshes \in Nat
        /\ \A t \in Sends : send[t].at \in Refreshing => generation < refreshes
    BY SessionAssumption DEF SessionInv, Paid
  <1>2. \/ refreshes' = refreshes /\ send'[s].at \notin Refreshing
        \/ refreshes' = refreshes + 1 /\ refreshes < MaxRefreshes
    BY DEF Outcome
  <1>3. \A t \in Sends : t # s => send'[t] = send[t]
    BY DEF Outcome
  <1>4. refreshes' \in 0..MaxRefreshes /\ generation' \in 0..refreshes' /\ generation' >= generation
    BY <1>1, <1>2
  <1>5. ASSUME NEW t \in Sends, send'[t].at \in Refreshing PROVE generation' < refreshes'
    <2>1. CASE refreshes' = refreshes + 1
      BY <1>1, <2>1
    <2>2. CASE refreshes' = refreshes /\ t # s
      <3>1. send[t].at \in Refreshing /\ Refreshing \subseteq Holding
        BY <1>3, <1>5, <2>2 DEF Refreshing, Holding
      <3>. QED
        BY <1>1, <2>2, <3>1
    <2>3. CASE t = s /\ send'[s].at \notin Refreshing
      BY <1>5, <2>3
    <2>. QED
      BY <1>2, <2>1, <2>2, <2>3
  <1>6. Paid'
    BY <1>4, <1>5 DEF Paid
  <1>7. ASSUME NEW t \in Sends PROVE Fits(send[t])'
    <2>1. Fits(send'[t])
      BY <1>3 DEF Outcome, SessionInv
    <2>2. generation \in Nat /\ generation' \in Nat
      BY <1>1, <1>4
    <2>. QED
      BY <1>4, <2>1, <2>2 DEF Fits
  <1>8. health' \in Healths /\ good' \subseteq Routes /\ Windowed(recent') /\ Lined(queue', Waiting(send'))
    BY DEF Outcome
  <1>9. {hasProbe', canRefresh', tracking', checked'} \subseteq BOOLEAN /\ revocations' \in 0..MaxRevocations
    BY DEF SessionInv, setup
  <1>. QED
    BY <1>6, <1>7, <1>8, <1>9 DEF SessionInv, Windowed, Lined, Waiting

\* What is known of a send at work, and of the line without it.
LEMMA AtWork ==
    ASSUME SessionInv, NEW s \in Sends, send[s].at # "idle"
    PROVE  /\ Typed /\ Fits(send[s]) /\ send[s].route \in Routes /\ send[s].code \in Codes
           /\ refreshes \in Nat /\ good \subseteq Routes /\ Windowed(recent) /\ health \in Healths
           /\ Lined(queue, Waiting(send))
           /\ send[s].at = "sent" => Waiting(send) \ {s} = Waiting(send) /\ s \notin Waiting(send)
           /\ send[s].at # "sent" => Waiting(send) \union {s} = Waiting(send)
           /\ queue # <<>> /\ Head(queue) = s => Lined(Tail(queue), Waiting(send) \ {s})
  <1>1. Typed /\ send[s] \in Message
    BY DEF SessionInv, ExpiryInv, Typed
  <1>2. Fits(send[s]) /\ Lined(queue, Waiting(send))
    BY DEF SessionInv
  <1>3. queue # <<>> /\ Head(queue) = s => Lined(Tail(queue), Waiting(send) \ {s})
    BY <1>2, LineWithoutHead
  <1>4. send[s].code \in Codes /\ send[s].route \in Routes
    BY <1>1, <1>2 DEF Message, Fits
  <1>5. refreshes \in Nat
    BY SessionAssumption DEF SessionInv, Paid
  <1>6. /\ send[s].at = "sent" => Waiting(send) \ {s} = Waiting(send) /\ s \notin Waiting(send)
        /\ send[s].at # "sent" => Waiting(send) \union {s} = Waiting(send)
    BY DEF Waiting
  <1>7. good \subseteq Routes /\ Windowed(recent) /\ health \in Healths
    BY DEF SessionInv
  <1>. QED
    BY <1>1, <1>2, <1>3, <1>4, <1>5, <1>6, <1>7

\* An answer.
LEMMA SessionAnswer ==
    ASSUME SessionInv, NEW s \in Sends, Answer(s), ExpiryInv'
    PROVE  SessionInv'
  <1>1. send[s].at = "sent" /\ UNCHANGED <<setup, generation, revocations>>
    BY DEF Answer
  <1>2. /\ Typed /\ Fits(send[s]) /\ send[s].route \in Routes
        /\ refreshes \in Nat /\ good \subseteq Routes /\ Windowed(recent) /\ health \in Healths
        /\ Lined(queue, Waiting(send)) /\ Lined(queue, Waiting(send) \ {s})
        /\ s \notin Waiting(send) /\ checked \in BOOLEAN
    BY <1>1, AtWork DEF SessionInv
  <1>3. PICK code \in Answers(s) :
            \/ Freshness(s, HealthAfter(code), recent, queue, code) /\ UNCHANGED checked
            \/ Recheck(s, queue, code)
            \/ /\ Await(s, "recheck", code, health, Append(queue, s))
               /\ UNCHANGED <<refreshes, checked, track>>
    BY DEF Answer
  <1>4. code \in Codes /\ HealthAfter(code) \in Healths
    BY <1>2 DEF Answers, Codes, HealthAfter, Healths
  <1>5. CASE Freshness(s, HealthAfter(code), recent, queue, code) /\ UNCHANGED checked
    <2>1. Outcome(s) /\ checked' \in BOOLEAN
      BY <1>2, <1>4, <1>5, FreshnessOutcome
    <2>. QED
      BY <1>1, <2>1, OutcomeKeeps
  <1>6. CASE Recheck(s, queue, code)
    <2>1. Outcome(s) /\ checked' \in BOOLEAN
      BY <1>2, <1>4, <1>6, RecheckOutcome
    <2>. QED
      BY <1>1, <2>1, OutcomeKeeps
  <1>7. CASE /\ Await(s, "recheck", code, health, Append(queue, s))
             /\ UNCHANGED <<refreshes, checked, track>>
    <2>1. Lined(Append(queue, s), Waiting(send) \union {s})
      BY <1>2, LineWithLast
    <2>2. "recheck" \in Places \ {"idle", "sent"} /\ "recheck" \notin Refreshing
      BY DEF Places, Refreshing
    <2>3. /\ Fits(send'[s]) /\ \A t \in Sends : t # s => send'[t] = send[t]
          /\ Lined(queue', Waiting(send')) /\ health' = health /\ send'[s].at = "recheck"
      BY <1>2, <1>4, <1>7, <2>1, <2>2, AwaitOutcome
    <2>4. good' = good /\ recent' = recent /\ refreshes' = refreshes /\ checked' = checked
      BY <1>7 DEF track
    <2>5. Outcome(s) /\ checked' \in BOOLEAN
      BY <1>2, <2>2, <2>3, <2>4 DEF Outcome
    <2>. QED
      BY <1>1, <2>5, OutcomeKeeps
  <1>. QED
    BY <1>3, <1>5, <1>6, <1>7

\* A send that is passed the lock.
LEMMA SessionResume ==
    ASSUME SessionInv, NEW s \in Sends, Resume(s), ExpiryInv'
    PROVE  SessionInv'
  <1>. DEFINE q == Tail(queue)
              code == send[s].code
  <1>1. /\ queue # <<>> /\ Head(queue) = s /\ send[s].at # "idle"
        /\ UNCHANGED <<setup, generation, revocations>>
    BY DEF Resume, At
  <1>2. /\ Typed /\ Fits(send[s]) /\ send[s].route \in Routes /\ code \in Codes
        /\ refreshes \in Nat /\ good \subseteq Routes /\ Windowed(recent) /\ health \in Healths
        /\ Lined(q, Waiting(send) \ {s}) /\ checked \in BOOLEAN
    BY <1>1, AtWork DEF SessionInv
  <1>3. Recheck(s, q, code) \/ (GoStale(s, health, q, code) /\ UNCHANGED <<checked, track>>)
    BY DEF Resume
  <1>. HIDE DEF q, code
  <1>4. CASE Recheck(s, q, code)
    <2>1. Outcome(s) /\ checked' \in BOOLEAN
      BY <1>2, <1>4, RecheckOutcome
    <2>. QED
      BY <1>1, <2>1, OutcomeKeeps
  <1>5. CASE GoStale(s, health, q, code) /\ UNCHANGED <<checked, track>>
    <2>1. good' = good /\ recent' = recent /\ checked' = checked
      BY <1>5 DEF track
    <2>2. /\ Fits(send'[s]) /\ \A t \in Sends : t # s => send'[t] = send[t]
          /\ Lined(queue', Waiting(send')) /\ health' \in Healths
          /\ \/ refreshes' = refreshes /\ send'[s].at \notin Refreshing
             \/ refreshes' = refreshes + 1 /\ refreshes < MaxRefreshes
      BY <1>2, <1>5, GoStaleOutcome
    <2>3. Outcome(s) /\ checked' \in BOOLEAN
      BY <1>2, <2>1, <2>2 DEF Outcome
    <2>. QED
      BY <1>1, <2>3, OutcomeKeeps
  <1>. QED
    BY <1>3, <1>4, <1>5

\* The probe's answer.
LEMMA SessionProbed ==
    ASSUME SessionInv, NEW s \in Sends, Probed(s), ExpiryInv'
    PROVE  SessionInv'
  <1>. DEFINE q == Tail(queue)
              code == send[s].code
  <1>1. /\ queue # <<>> /\ Head(queue) = s /\ send[s].at = "probing"
        /\ UNCHANGED <<setup, generation, checked, revocations>>
    BY DEF Probed, At
  <1>2. /\ Typed /\ Fits(send[s]) /\ send[s].route \in Routes /\ code \in Codes
        /\ refreshes \in Nat /\ good \subseteq Routes /\ Windowed(recent) /\ health \in Healths
        /\ Lined(q, Waiting(send) \ {s}) /\ Lined(queue, Waiting(send) \union {s}) /\ checked' \in BOOLEAN
    BY <1>1, AtWork DEF SessionInv
  <1>3. \/ \E h \in {"healthy", "suspect", "expired"} : Freshness(s, h, recent, q, code)
        \/ /\ Await(s, "refreshing", code, health, queue) /\ UNCHANGED track
           /\ refreshes' = refreshes + 1 /\ refreshes < MaxRefreshes
    BY DEF Probed, CanRefresh
  <1>. HIDE DEF q, code
  <1>4. CASE \E h \in {"healthy", "suspect", "expired"} : Freshness(s, h, recent, q, code)
    <2>1. \A h \in {"healthy", "suspect", "expired"} : h \in Healths
      BY DEF Healths, Down
    <2>2. Outcome(s)
      BY <1>2, <1>4, <2>1, FreshnessOutcome
    <2>. QED
      BY <1>1, <1>2, <2>2, OutcomeKeeps
  <1>5. CASE /\ Await(s, "refreshing", code, health, queue) /\ UNCHANGED track
             /\ refreshes' = refreshes + 1 /\ refreshes < MaxRefreshes
    <2>1. "refreshing" \in Places \ {"idle", "sent"}
      BY DEF Places
    <2>2. /\ Fits(send'[s]) /\ \A t \in Sends : t # s => send'[t] = send[t]
          /\ Lined(queue', Waiting(send')) /\ health' = health
      BY <1>2, <1>5, <2>1, AwaitOutcome
    <2>3. good' = good /\ recent' = recent
      BY <1>5 DEF track
    <2>4. Outcome(s)
      BY <1>2, <1>5, <2>2, <2>3 DEF Outcome
    <2>. QED
      BY <1>1, <1>2, <2>4, OutcomeKeeps
  <1>. QED
    BY <1>3, <1>4, <1>5

\* The return of a refresh.
LEMMA SessionRefreshed ==
    ASSUME SessionInv, NEW s \in Sends, Refreshed(s) \/ StaleRefreshed(s), ExpiryInv'
    PROVE  SessionInv'
  <1>. DEFINE q == Tail(queue)
              code == send[s].code
              k == IF refreshes < MaxRefreshes THEN health ELSE "stale"
  <1>1. /\ queue # <<>> /\ Head(queue) = s /\ send[s].at \in Refreshing
        /\ UNCHANGED <<setup, revocations>>
    BY DEF Refreshed, StaleRefreshed, At, Refreshing
  <1>2. /\ Typed /\ Fits(send[s]) /\ send[s].route \in Routes /\ code \in Codes
        /\ refreshes \in Nat /\ good \subseteq Routes /\ Windowed(recent) /\ health \in Healths
        /\ Lined(q, Waiting(send) \ {s})
    BY <1>1, AtWork DEF SessionInv, Refreshing
  <1>3. \A t \in Sends : t # s => send[t].at \notin Holding
    BY <1>1, OneHolder DEF SessionInv
  <1>4. Windowed(<<>>) /\ k \in Healths /\ \A h \in {"healthy", "suspect", "expired"} : h \in Healths
    BY <1>2, SessionAssumption DEF Windowed, Healths, Down
  <1>5. checked' \in BOOLEAN
    BY DEF Refreshed, StaleRefreshed, SessionInv
  <1>6. \/ \E h \in {"healthy", "suspect", "expired"}, w \in {recent, <<>>} : Freshness(s, h, w, q, code)
        \/ /\ Leave(s, code, "healthy", q) \/ Leave(s, code, k, q)
           /\ recent' = <<>> /\ UNCHANGED <<refreshes, good>>
    BY DEF Refreshed, StaleRefreshed, FreshWindow
  <1>7. generation' = generation \/ generation' = generation + 1
    BY DEF Refreshed, StaleRefreshed, Replace
  <1>. HIDE DEF q, code, k
  <1>8. Outcome(s)
    <2>1. CASE \E h \in {"healthy", "suspect", "expired"}, w \in {recent, <<>>} : Freshness(s, h, w, q, code)
      BY <1>2, <1>4, <2>1, FreshnessOutcome
    <2>2. CASE /\ Leave(s, code, "healthy", q) \/ Leave(s, code, k, q)
               /\ recent' = <<>> /\ UNCHANGED <<refreshes, good>>
      <3>1. /\ Fits(send'[s]) /\ \A t \in Sends : t # s => send'[t] = send[t]
            /\ Lined(queue', Waiting(send')) /\ health' \in Healths
            /\ send'[s].at \notin Refreshing
        BY <1>2, <1>4, <2>2, LeaveOutcome
      <3>. QED
        BY <1>2, <1>4, <2>2, <3>1 DEF Outcome
    <2>. QED
      BY <1>6, <2>1, <2>2
  <1>. QED
    BY <1>1, <1>3, <1>5, <1>7, <1>8, OutcomeKeeps

\* A new send.
LEMMA SessionSend ==
    ASSUME SessionInv, NEW s \in Sends, NEW r \in Routes, Send(s, r), ExpiryInv'
    PROVE  SessionInv'
  <1>1. /\ UNCHANGED <<setup, session, track, queue, revocations>> /\ send[s].at = "idle"
        /\ send' = [send EXCEPT ![s] = Sent(r, 0)]
    BY DEF Send
  <1>2. /\ health' = health /\ refreshes' = refreshes /\ generation' = generation /\ checked' = checked
        /\ good' = good /\ recent' = recent /\ queue' = queue
    BY <1>1 DEF session, track
  <1>3. generation \in Nat /\ MaxHops \in Nat
    BY SessionAssumption DEF SessionInv, ExpiryInv, Typed
  <1>4. Fits(Sent(r, 0)) /\ Sent(r, 0).at = "sent"
    BY <1>3 DEF Fits, Sent
  <1>5. send'[s] = Sent(r, 0) /\ \A t \in Sends : t # s => send'[t] = send[t]
    BY <1>1 DEF SessionInv, ExpiryInv, Typed
  <1>6. Waiting(send') = Waiting(send)
    BY <1>1, <1>4, <1>5 DEF Waiting
  <1>7. Fits(send'[s]) /\ send'[s].at \notin Refreshing
    BY <1>4, <1>5 DEF Refreshing
  <1>8. Outcome(s) /\ checked' \in BOOLEAN
    BY <1>2, <1>5, <1>6, <1>7 DEF Outcome, SessionInv
  <1>. QED
    BY <1>1, <1>2, <1>8, OutcomeKeeps

\* A cancelled send leaves the line.
LEMMA SessionCancel ==
    ASSUME SessionInv, NEW s \in Sends, Cancel(s), ExpiryInv'
    PROVE  SessionInv'
  <1>1. /\ UNCHANGED <<setup, session, track, revocations>>
        /\ send' = [send EXCEPT ![s] = Idle] /\ queue' = Without(queue, s)
    BY DEF Cancel
  <1>2. /\ health' = health /\ refreshes' = refreshes /\ generation' = generation /\ checked' = checked
        /\ good' = good /\ recent' = recent
    BY <1>1 DEF session, track
  <1>3. generation \in Nat /\ MaxHops \in Nat
    BY SessionAssumption DEF SessionInv, ExpiryInv, Typed
  <1>4. Fits(Idle) /\ Idle.at = "idle"
    BY <1>3 DEF Fits, Idle
  <1>5. send'[s] = Idle /\ \A t \in Sends : t # s => send'[t] = send[t]
    BY <1>1 DEF SessionInv, ExpiryInv, Typed
  <1>6. Waiting(send') = Waiting(send) \ {s}
    BY <1>4, <1>5 DEF Waiting
  <1>7. Lined(queue', Waiting(send'))
    <2>1. Lined(queue, Waiting(send))
      BY DEF SessionInv
    <2>2. Lined(Without(queue, s), Waiting(send) \ {s})
      BY <2>1, LineWithout
    <2>. QED
      BY <1>1, <1>6, <2>2
  <1>8. Fits(send'[s]) /\ send'[s].at \notin Refreshing
    BY <1>4, <1>5 DEF Refreshing
  <1>9. Outcome(s) /\ checked' \in BOOLEAN
    BY <1>2, <1>5, <1>7, <1>8 DEF Outcome, SessionInv
  <1>. QED
    BY <1>1, <1>2, <1>9, OutcomeKeeps

\* What the target and the clock do.
LEMMA SessionElsewhere ==
    ASSUME SessionInv, Revoke \/ Lapse \/ UNCHANGED vars, ExpiryInv'
    PROVE  SessionInv'
  <1>1. UNCHANGED <<hasProbe, canRefresh, tracking, health, refreshes, generation, good, recent, queue, send>>
    BY DEF Revoke, Lapse, vars, setup, session, track
  <1>2. revocations' \in 0..MaxRevocations
    <2>1. revocations \in 0..MaxRevocations /\ MaxRevocations \in Nat
      BY SessionAssumption DEF SessionInv
    <2>2. revocations' = revocations \/ (revocations < MaxRevocations /\ revocations' = revocations + 1)
      BY DEF Revoke, Lapse, vars
    <2>. QED
      BY <2>1, <2>2
  <1>3. checked' \in BOOLEAN
    BY DEF Revoke, Lapse, vars, session, SessionInv
  <1>. QED
    BY <1>1, <1>2, <1>3 DEF SessionInv, Paid, Fits, Windowed, Lined, Waiting

\* Initially.
LEMMA SessionInit == Init => SessionInv
  <1>. SUFFICES ASSUME Init PROVE SessionInv
    OBVIOUS
  <1>1. /\ MaxRefreshes \in Nat /\ MaxHops \in Nat /\ MaxRevocations \in Nat /\ Window \in Nat
    BY SessionAssumption
  <1>2. /\ queue = <<>> /\ recent = <<>> /\ \A t \in Sends : send[t] = Idle
        /\ refreshes = 0 /\ generation = 0 /\ revocations = 0
    BY DEF Init
  <1>3. Lined(queue, Waiting(send))
    <2>1. Waiting(send) = {}
      BY <1>2 DEF Waiting, Idle
    <2>. QED
      BY <1>2, <2>1 DEF Lined
  <1>4. \A t \in Sends : Fits(send[t])
    BY <1>1, <1>2 DEF Fits, Idle
  <1>5. Windowed(recent)
    BY <1>1, <1>2 DEF Windowed
  <1>6. Paid /\ revocations \in 0..MaxRevocations
    <2>1. \A t \in Sends : send[t].at \notin Refreshing
      <3>1. Idle.at \notin Refreshing
        BY DEF Idle, Refreshing
      <3>. QED
        BY <1>2, <3>1
    <2>. QED
      BY <1>1, <1>2, <2>1 DEF Paid
  <1>7. health \in Healths /\ good \subseteq Routes /\ {hasProbe, canRefresh, tracking, checked} \subseteq BOOLEAN
    BY DEF Init, Healths
  <1>. QED
    BY <1>3, <1>4, <1>5, <1>6, <1>7, ExpiryInit DEF SessionInv

\* The session's state has its types: above all, a send that waits for the session's
\* lock or holds it is in the lock's line exactly once, wherever tasks are cancelled, and
\* every generation of credentials after the first was paid for with a refresh.
THEOREM SessionTypeOK == Spec => []TypeOK
  <1>1. SessionInv /\ [Next]_vars => SessionInv'
    <2>. SUFFICES ASSUME SessionInv, [Next]_vars PROVE SessionInv'
      OBVIOUS
    <2>1. ExpiryInv'
      BY ExpiryNext DEF SessionInv
    <2>. QED
      BY <2>1, SessionAnswer, SessionResume, SessionProbed, SessionRefreshed, SessionSend,
         SessionCancel, SessionElsewhere DEF Next, Step
  <1>2. SessionInv => TypeOK
    <2>. SUFFICES ASSUME SessionInv PROVE TypeOK
      OBVIOUS
    <2>1. ASSUME NEW s \in Sends
          PROVE  /\ send[s].at \in Places /\ send[s].code \in Codes
                 /\ send[s].generation \in 0..generation /\ send[s].hop \in 0..MaxHops
      BY DEF SessionInv, ExpiryInv, Typed, Message, Fits
    <2>2. ASSUME NEW s \in Sends
          PROVE  Cardinality({i \in DOMAIN queue : queue[i] = s})
                     = IF send[s].at \in {"idle", "sent"} THEN 0 ELSE 1
      <3>1. Cardinality({i \in DOMAIN queue : queue[i] = s}) = IF s \in Waiting(send) THEN 1 ELSE 0
        BY OnePlaceInLine DEF SessionInv
      <3>2. s \in Waiting(send) <=> send[s].at \notin {"idle", "sent"}
        BY DEF Waiting
      <3>. QED
        BY <3>1, <3>2
    <2>. QED
      BY <2>1, <2>2 DEF SessionInv, ExpiryInv, Typed, TypeOK, Paid, Windowed, Track, Healths
  <1>. QED
    BY <1>1, <1>2, SessionInit, PTL DEF Spec

=============================================================================
