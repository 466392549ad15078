---------------------------- MODULE GlobalThrottle ----------------------------
(***************************************************************************)
(* The process-wide ceiling on target requests of harness/global_throttle.py: *)
(* a token bucket that makes callers wait, reconfigured at run time by the    *)
(* settings route.  asyncio.Lock is first come first served, so its owner is  *)
(* the head of a queue.  The bucket is refilled at every tick here and lazily *)
(* in the code: with the same cap and rate the two agree whenever it is read. *)
(***************************************************************************)
EXTENDS Integers, Sequences

CONSTANTS
    Senders,        \* tasks about to send a request
    Rates,          \* tokens per tick an operator may set; 0 turns the throttle off
    Unit,           \* tokens one request takes
    TicksPerSecond,
    Horizon,        \* bound of the model: ticks an observation lasts
    MaxReconfigs    \* bound of the model: settings requests

ASSUME ThrottleAssumption ==
    /\ Rates \subseteq Nat
    /\ Unit \in Nat \ {0} /\ TicksPerSecond \in Nat \ {0}
    /\ Horizon \in Nat \ {0} /\ MaxReconfigs \in Nat

VARIABLES
    rate,           \* _rate
    tokens,         \* _tokens
    queue,          \* callers inside acquire: the head holds _lock
    sleep,          \* ticks the head has still to sleep
    raised,         \* callers whose acquire raised
    sent, since,    \* history: requests let through, and ticks, of the current observation
    reconfigs

throttleVars == <<rate, tokens, queue, sleep, raised, sent, since, reconfigs>>

Waiting == {queue[i] : i \in 1..Len(queue)}

\* Mutant of Burst: one second's worth of requests, however little that is.
BurstOfOneSecond(r) == r * TicksPerSecond

\* _burst as configure sets it: one second's worth, at least one request.
Burst(r) == IF r = 0 THEN 0 ELSE IF r * TicksPerSecond < Unit THEN Unit ELSE r * TicksPerSecond

\* _refill over one tick.
Refilled == IF tokens + rate < Burst(rate) THEN tokens + rate ELSE Burst(rate)

ThrottleInit ==
    /\ rate \in Rates
    /\ tokens = Burst(rate)
    /\ queue = <<>>
    /\ sleep = 0
    /\ raised = {}
    /\ sent = 0 /\ since = 0
    /\ reconfigs = 0

-----------------------------------------------------------------------------

\* Mutant of Consume: a token is taken as soon as the sleep is over, due or not.
ConsumeUnchecked(q) ==
    /\ tokens' = IF tokens >= Unit THEN tokens - Unit ELSE 0
    /\ sent' = sent + 1
    /\ queue' = q
    /\ UNCHANGED <<sleep, raised>>

\* One pass of the loop of acquire, for the caller that holds the lock and the
\* callers q behind it: take a token and leave, ...
Consume(q) ==
    /\ tokens >= Unit
    /\ tokens' = tokens - Unit
    /\ sent' = sent + 1
    /\ queue' = q
    /\ UNCHANGED <<sleep, raised>>

\* k ticks are what the deficit takes to accrue.
Nap(k) == tokens + rate * k >= Unit /\ tokens + rate * (k - 1) < Unit

\* ... or sleep for as long as the deficit takes, keeping the lock, ...
FallAsleep(c, q) ==
    /\ tokens < Unit /\ rate > 0
    /\ \E k \in 0..Unit : Nap(k) /\ sleep' = k
    /\ queue' = <<c>> \o q
    /\ UNCHANGED <<tokens, raised, sent>>

\* ... or divide by the rate that was set to 0 meanwhile.
DivideByZero(c, q) ==
    /\ tokens < Unit /\ rate = 0
    /\ raised' = raised \union {c}
    /\ queue' = q
    /\ UNCHANGED <<tokens, sleep, sent>>

Pass(c, q) == Consume(q) \/ FallAsleep(c, q) \/ DivideByZero(c, q)

\* A caller finds the lock free: its first pass runs at once.  With the throttle
\* off, acquire returns before the lock and nothing changes.
Acquire(c) ==
    /\ rate > 0
    /\ queue = <<>> /\ c \notin raised
    /\ Pass(c, <<>>)
    /\ UNCHANGED <<rate, since, reconfigs>>

\* A caller finds the lock held, or promised to a caller before it.
Enqueue(c) ==
    /\ rate > 0
    /\ queue # <<>> /\ c \notin Waiting \union raised
    /\ queue' = Append(queue, c)
    /\ UNCHANGED <<rate, tokens, sleep, raised, sent, since, reconfigs>>

\* The holder wakes up, or the next caller gets the lock.
Resume ==
    /\ queue # <<>> /\ sleep = 0
    /\ Pass(Head(queue), Tail(queue))
    /\ UNCHANGED <<rate, since, reconfigs>>

\* The task of a waiting caller is cancelled; a sleeping holder releases the lock.
CancelAcquire(i) ==
    /\ i \in 1..Len(queue)
    /\ queue' = SubSeq(queue, 1, i - 1) \o SubSeq(queue, i + 1, Len(queue))
    /\ sleep' = IF i = 1 THEN 0 ELSE sleep
    /\ UNCHANGED <<rate, tokens, raised, sent, since, reconfigs>>

\* configure, from update_settings: takes effect at once, with a full bucket; no
\* sleeper is woken.  The observation starts again.
Configure(r) ==
    /\ reconfigs < MaxReconfigs
    /\ reconfigs' = reconfigs + 1
    /\ rate' = r
    /\ tokens' = Burst(r)
    /\ sent' = 0 /\ since' = 0
    /\ UNCHANGED <<queue, sleep, raised>>

\* Time passes; at its horizon, the observation starts again.
Tick ==
    /\ tokens' = Refilled
    /\ sleep' = IF sleep > 0 THEN sleep - 1 ELSE 0
    /\ IF since < Horizon THEN since' = since + 1 /\ UNCHANGED sent
                          ELSE since' = 0 /\ sent' = 0
    /\ UNCHANGED <<rate, queue, raised, reconfigs>>

ThrottleNext ==
    \/ \E c \in Senders : Acquire(c) \/ Enqueue(c)
    \/ Resume \/ Tick
    \/ \E i \in 1..Len(queue) : CancelAcquire(i)
    \/ \E r \in Rates : Configure(r)

\* Time passes, and a task that is ready runs.
ThrottleFairness == WF_throttleVars(Tick) /\ WF_throttleVars(Resume)

ThrottleSpec == ThrottleInit /\ [][ThrottleNext]_throttleVars
ThrottleFairSpec == ThrottleSpec /\ ThrottleFairness

-----------------------------------------------------------------------------
(***************************************************************************)
(* Properties                                                              *)
(***************************************************************************)

\* The bucket holds at most a burst, and a sleep is bounded.
ThrottleTypeOK ==
    /\ rate \in Rates
    /\ tokens \in 0..Burst(rate)
    /\ queue \in Seq(Senders)
    /\ sleep \in 0..Unit
    /\ raised \subseteq Senders
    /\ sent \in Nat /\ since \in 0..Horizon
    /\ reconfigs \in 0..MaxReconfigs

\* The ceiling: over any stretch of time, whoever sends and however callers queue,
\* sleep and are cancelled, the target sees at most a burst more than the rate.
\* What is left in the bucket has not been spent twice.
Ceiling == sent * Unit + tokens <= Burst(rate) + rate * since

\* A sleeper wakes to a whole token: the lock it keeps meanwhile lets nobody take
\* what it waits for, so one sleep is enough.
WakesToAToken == sleep > 0 /\ rate > 0 => tokens + rate * sleep >= Unit

\* A throttled caller waits its turn and gets it.
EveryCallerGetsItsTurn ==
    \A c \in Senders : (c \in Waiting) ~> (c \notin Waiting)

\* "The limiter BLOCKS (awaits) rather than rejecting"; "A rate of 0 (or None) means
\* unlimited -- the throttle is off and acquire() returns immediately".
NobodyRefused == raised = {}

=============================================================================
