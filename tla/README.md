# A TLA+ verification of the investigation harness

This directory models the parts of AgenticBurp that decide what an investigation
may spend, when it may send, what it may repeat and what survives a crash. The
program under `src/harness/` is an asyncio service: one process serves HTTP
routes, each investigation is a task, each investigation runs many model calls
and many target requests concurrently, and what must outlive the process is kept
in SQLite. Its hard behaviour is the interleaving of those tasks at their awaits,
the crash of the process between two transactions, and the bookkeeping of
budgets that many tasks share. That is what the modules here are about.

Two things run side by side. TLC checks every property on a small instance;
TLAPS proves the ones listed under "What is proved" for every value of the
constants. `PROJECT.json` holds the machine-readable index: which run checks
which property, which source lines each definition stands for, which mutation of
which definition each property catches, and the list of hazards.

To reproduce, in this directory:

    tlc -workers 2 -config WorkQueue_queue.cfg MCWorkQueue
    tlapm WorkQueueProofs.tla

## 1. The system

### How a run goes

`server.py` admits a job (`POST /engagement/investigate`), inserts its durable
row and creates a task. The task builds an orchestrator, which runs the
engagement's phases: discovery, the analysis pipeline over captured exchanges,
the worklist sweeps, the capture reviews, chaining, and then, while time is left,
retry rounds that go over the unfinished work with larger budgets. Every model
call goes through a circuit breaker and a token budget; every target request goes
through one send path, with the scope, the safety gate, the run's request budget and
the process-wide throttle; a check is first looked up in the run's execution
registry. Finished units are journaled, so that a killed run can be resumed. What
the run finds is ranked, gated by confirmation, stored and reported.

### Components

| Component | State it keeps | Operations | Interacts with | Hard behaviour | What makes it correct |
|---|---|---|---|---|---|
| Work queue (`work_queue.py`, `store.py`) | the `work_items` table; the item in each worker's hand | enqueue, lease, complete, fail, reclaim | the store | worker crashes, leases that lapse, late settlements, a shared cap | no double dispatch, no lost item, bounded attempts, cap respected |
| Effort budget (`effort.py`, `run_inference.py`) | ledger, reservations, unmeasured debits, one view per run | reserve, commit, release, allow, record, confirm_overspend | every model call site | concurrent calls, cancelled calls, providers that do not count | reservations pair up, receipts add up, the cap holds |
| Circuit breaker (`circuit_breaker.py`) | state, counters, half-open slots, outcome window | enter, exit, reset, force_open, snapshot scope | every model call | a call admitted in one state that ends in another | open holds for its timeout, slots return, self-healing |
| Investigation jobs (`job_status.py`, `server.py`) | in-memory registry and tasks per process; durable rows | submit, poll, cancel, end, recover, prune | other server processes, through the rows | process death, pid reuse, failed saves, cancellation before the first step | cap on live work, no false interruption, dead jobs recovered |
| Request throttle (`global_throttle.py`) | token bucket, waiting callers | configure, acquire | settings route, every target request | reconfiguration under sleepers, cancellation while holding the lock | ceiling on traffic, no starvation |
| Retry rounds and sweeps (`retry_rounds.py`, `worklist_investigator.py`) | ledger of outcomes, legs done, reviews seen, round counters | sweep, review, round loop | breaker, deadline, cancellation | growing budgets, model errors, deadline in mid-sweep | no repeated legs, verdicts stand, termination, no early stop |
| Session health (`run_context.py`, `session_freshness.py`) | health, generation, refreshes, denial window, lock of one principal's session | send, 401 feedback, probe, refresh, denial feedback | every send with credentials | late answers, feedback queued at a lock, cancellation under it | expiry is true and final, access control never stops a session |
| Target transport and run context (`run_context.py`) | request budget and hold, cancel token, address pins, route circuits | send, redirect, resolve, hold, cancel | every validator and agent, safety gate, session | calls that await between hops, racing resolutions, late 5xx answers | budget, scope, credentials and cancellation hold at every hop |
| Run journal (`run_journal.py`) | finished units under a root job and context key | put, read, has_any, resume a finding | phases, proofs | crash between unit and row, damaged rows, proofs that are gone | a readable unit is not run again, nothing unproved is resumed |
| Confirmation gate and evidence ledger (`confirmation_gate.py`, `issues.py`, `evidence_ledger.py`) | verdict and proofs of a finding | promote, demote, append | pipeline, validators | verdict order, stale proof | no confirmation without its proof |
| Analysis pipeline (`analysis_pipeline.py`, `orchestrator*.py`) | stage results | analyze | agents, breaker, budget | concurrent agents, early return, partial failure | a degraded stage is reported, never silent |
| Engagement phases (`phase_schedule.py`, `orchestrator_chain.py`, `chaining.py`) | phase, its deadline, the state of the attempt | run phase, resume | journal, coverage, sweeps, reviews | units that overrun the deadline, crash and resume | no phase starves a later one |
| Engagement state (`engagement.py`) | access cells, findings, worklist rank | fold | sweeps, reports | folds in any order | the fold does not depend on order |
| Safety gate (`safety_gate.py`) | configuration, mutating requests per finding | authorize | transport | writes of several calls and their redirects under one count | writes of a finding stay under its ceiling |
| Execution registry (`execution_registry.py`) | results, flights and incomplete attempts by key | run, run_audit, memo | validators, request budget | callers that join, raise or are cancelled, overlapping accounts | one run per key at a time, retries bounded, savings real |
| Exchange cache (`cache.py`) | LRU with TTL, in-flight map | get, put, get-or-compute | pipeline | two computations of one key, eviction | one computation, fresh results |
| Durable store (`store.py`) | tables beyond `work_items` | engagement compare-and-swap, blobs, suppression | jobs, engagement | concurrent writers | no lost update |
| Rate limiter, resource governor (`rate_limiter.py`, `resource_governor.py`) | token and request buckets, slots | acquire | agents | tokens consumed by a rejected call | rate bound |
| Model client (`ollama_client.py`, `*_provider.py`, `prompt_budget.py`, `retry_policy.py`) | none of its own | chat | breaker, budget | retries | modelled where it uses breaker and budget |
| Iterative agent, planner, memories | steps of one agent | step loop | model client | stop reasons, duplicates | bounded steps |
| Agents, manager (`agents/`, `agent_manager.py`) | none | dispatch | model client | bounded concurrency | every agent answers or is reported |
| Validators (`validators/`) | none beyond a send count | check | transport | protocol detail | out of the models: HTTP content |
| Coverage (`coverage_*.py`) | cells, checkpoint | drive, checkpoint, restore | journal, transport | crash inside a drive | a bounded loss |
| Discovery (crawlers, OpenAPI, ffuf, browser) | frontier | visit | transport | I/O | not modelled: content of pages |
| Workflow engine, task graph | step states | run | tools | dependency failure, compensation | order respected |
| Tool runner, tool proxy, collaborator | subprocess slots | run, poll | agents | timeouts | slots return |
| Coordinator, fast path | fail-open counters | classify | pipeline | none | data |
| HTTP server (other routes) | settings | read, configure | everything | none beyond jobs and throttle | modelled where it changes their state |
| Audit, telemetry, evidence, reports, security scanning, supply-chain lookups, experiments, Burp extension, offline scoring | write-only output or none | | | | not modelled: formatting, text and offline tools |

Of these, the first nine, the engagement phases, the execution registry and parts of
the engagement state, the safety gate and coverage are modelled. Section 6 says why
each of the others is not.

### The hazards

`PROJECT.json` lists every hazard with its line. The ones that shaped the models:

- a worker outlives its lease and settles an item another worker now holds
  (`complete` and `fail` test the status only, not the owner or the attempt);
- two enqueues or two reservations that each fit a cap and together do not;
- a model call cancelled between its reservation and its receipt;
- `allow()` looks at committed spend and not at reservations, so checked callers
  overshoot concurrently;
- a call admitted by a CLOSED breaker that fails, or succeeds, once the breaker
  is OPEN or HALF_OPEN; a scope that puts a stale snapshot back;
- a job cancelled before its first step runs no `finally`;
- recovery that decides by process id, with process ids that are reused;
- a save that fails and is swallowed, so the registry and the row disagree;
- a throttle switched off while callers sleep in it;
- a 401 that was under way when the session was stopped or refreshed, and feedback
  that waited for the session's lock while another refreshed it;
- a retry round that stops for want of work too early, or never stops;
- a redirect that arrives after the scope, the credentials, the write count or the
  cancellation of its call were decided;
- two resolutions of one name that race, and 5xx answers that arrive after a route's
  first good one;
- a process killed between a unit of work and its row, or between two checkpoints;
- an audit of several classes and a check of one of them, started at the same time;
- what a check spent, read off a budget that other checks spend from meanwhile.

## 2. The modules

Each module begins with a comment that names its sources and its abstractions;
each definition that has a mutant is preceded by that mutant, an operator with
the change a plausible bug would make.

| Module | Code | What it is |
|---|---|---|
| `WorkQueue` | `work_queue.py`, `store.py` | the queue, its workers and their crashes |
| `EffortBudget` | `effort.py`, `run_inference.py`, the call sites | the aggregate budget and the run views |
| `CircuitBreaker` | `circuit_breaker.py`, its use in `ollama_client.py` | the breaker under concurrent calls |
| `JobLifecycle` | `server.py`, `job_status.py` | jobs over several server processes |
| `GlobalThrottle` | `global_throttle.py`, the settings route | the target-request token bucket |
| `RetryRounds` | `retry_rounds.py`, `worklist_investigator.py`, `orchestrator_helpers.py` | sweeps, reviews and rounds |
| `SessionHealth` | `run_context.py`, `session_freshness.py` | one session under concurrent sends, its probe, refresh and denial window |
| `RunTransport` | `run_context.py`, `safety_gate.py`, `target_request_policy.py` | concurrent calls on the run's send path |
| `EngagementRun` | `orchestrator_chain.py`, `run_journal.py`, `phase_schedule.py`, `coverage_tracker.py` | an engagement, killed and resumed |
| `ExecutionRegistry` | `execution_registry.py` | concurrent checks that share runs |
| `DurableWork` | what `work_queue.py` promises | the abstract queue that `WorkQueue` implements |
| `Tally` | sums in the code (`SUM(budget_reservation)`, the ledger's totals) | a sum over a finite set, defined by cardinality |
| `TallyLemmas` | | what a sum does when its set or its function changes |
| `*Proofs` | | the theorems of a component; `SharedGuardsProofs` has those of the breaker, the throttle and the registry, `EngagementJobsProofs` those of the jobs and the engagement a job runs |
| `MC*` | | the instance a component is checked on |

`Tally` exists because a sum folded over a set cannot be proved about without
induction; the number of unit coins of a set can. It has the value of the
community modules' `MapThenSumSet`.

### WorkQueue

Every operation of the queue is one `BEGIN IMMEDIATE` transaction, hence one
action: `Enqueue`, `Lease`, `Reclaim`, `Complete`, `Fail`. `status`, `attempt`,
`createdAt` and `resultOf` are columns of `work_items`; `lapsed` is the test
`lease_expiry <= now`; `held` is the `WorkItem` in a worker's memory, which a
`Crash` loses and the rows survive. `Lapse` is the clock passing an expiry, under
a dead worker or a slow one. A `lease` call first takes back lapsed leases of its
engagement and then claims the best runnable row, in one action because it is one
transaction; a `lease` that finds nothing runnable leaves what `Reclaim` leaves.
`failures`, `reclaims` and `outlived` are history. The queue is a substrate of
the store: nothing in the default pipeline dispatches through it yet
(`work_queue.py:29-31`).

`DurableWork` says what the queue promises, with no rows, leases, owners or clocks:
accepted work fits a cap, is taken over done dependencies, comes back or is settled
once, and is given up only after all its tries. The mapping (`Promised`) reads the
phase of an item off its row (`Phase`); a lapse, a crash and a late settlement that
the row refuses are stutters. One lease is one `Take` that may bring back lost work of
the same engagement in the same step, as the transaction does. The promise is weaker
than the docstrings on one point: the try whose outcome is recorded is *one of* the
tries, since a stale worker may settle a later attempt.

### EffortBudget

A metered call (`Reserve`, then `Settle` or `Release`) and a checked call
(`Check`, then `Record`) await the provider in between, and that await is where
the calls interleave. A view forwards to the aggregate and repeats on its own
ledger with no await in between, so one action changes both. Which call sites
meter, and whether the mode is hard, is chosen in `Init`. Calls may be cancelled,
fail, return full counts or none; the unmeasured debit of a call whose provider
did not count is `Unmeasured`.

### CircuitBreaker

`__aenter__` and `__aexit__` do not await while they hold the breaker's lock, so
each is one action (`EnterClosed`, `EnterOpen`, `EnterHalfOpen`; `ExitFailure`,
`ExitSuccess`); the model call is between them. `AfterFailure` and `AfterSuccess`
are the decisions in the order the code takes them. The counters are compared
with their thresholds only and saturate there. `Reset`, `ForceOpen`, `ScopeEnter`
and `ScopeExit` are the interventions. `Recover` says that the service is well
from now on, which the liveness properties start from. `strays` and `gone` are
history, set by `Follow`: the calls in flight that were admitted before the current
half-open period, and how many of them have ended in it.

### JobLifecycle

Several server processes share one database. A handler does not await from its
transaction on, so each route is one action that begins as every route begins:
evict the registry, recover the rows of dead processes, prune. `Save` may fail:
the code swallows the exception and leaves a note in memory. Process ids are
chosen in `Init` and may be reused by a process started after another died, and
`process_alive` is what `os.kill(pid, 0)` says: some process has that id.

### GlobalThrottle

`asyncio.Lock` is fair, so the lock's owner is the head of `queue` and a pass of
`acquire`'s loop is `Consume`, `FallAsleep` or `DivideByZero`. A caller sleeps with the
lock held. Time is counted in ticks and tokens in integer units, `Unit` of them
to a request. The bucket is refilled at each tick; the code refills lazily, and
with the same cap and rate the two agree at every read.

### RetryRounds

One ledger, one `seen` and one set of failed reviews are written by every sweep and
review of a run, and `pass` says whose turn it is. *Main*: the worklist sweep.
*Recrawl*: routes seen meanwhile are swept in a state of their own, which is merged
afterwards; then all captures are reviewed. *Chain*: what leaked credentials reach is
swept, in a state of its own too, and the captures made with them are reviewed, which no
other review looks at. *Retry*: the rounds, whose sweeps and reviews alone resume what is
settled and reopen what failed. Each sweep and review of round 0 has a slice of the time
for its deadline (`Slice`, `SliceEnds`), and the rounds have the engagement's (`late`).

`Visit` is one node of a sweep: over budget, resumed, late, or probed with its
legs and its agent. `Review` is one capture review. `EndSweep`, `Recrawl`, `ReviewAll`,
`ChainRound`, `EndReview` and `BeginRetries` are the way through round 0; `EndRound`,
`Stop`, `GoRound`, `Wait` and `EndWait` are the round loop. There are two breakers,
the process-wide one the loop asks and the run's own one the model calls go
through. A sweep's worklist is any set of nodes, since it is built from the state anew.
A node is its key: a review that records a node's first capture changes the key, and
what the ledger says of the old one is then not found (`worklist_investigator.py:34`), so
the properties are about keys. Left out: junk and unreachable nodes, `stop_on_confirm`,
the seeding of outcomes from a journal, and the phases of round 0 that write neither the
ledger nor the seen captures; what those confirmed is there in `BeginRetries`.

### SessionHealth

One session, several sends that carry its credentials, and a target that serves
some objects to it, denies others and may drop it (`Revoke`). A route is a route key of
`session_freshness.py:42`, which folds the ids of a path into one: a key of `Private`
has objects that are served, one of `Refused` has objects that are denied, and a key of
both (`Mixed`) answers 200 for one object and 403 for the next. `Send` is the check
at the top of `execute`; `Answer` is the answer of a send with the feedback code
up to its next await; the awaits are the session's lock (`queue`, whose head holds
it: `asyncio.Lock` is fair), the probe (`Probed`) and the refresh (`Refreshed`,
`StaleRefreshed`). `Freshness`, `GoStale` and `Recheck` are the stretches of code
those actions share, each from where it is entered to the next await. A send
keeps the generation of its credentials and whether the target accepted them when
it left, which decides what the target may still answer. A redirect is followed
without another look at the session's health, as in the code. `Cancel` ends a
task at any await. Whether there is a probe, a refresh, the denial window is
chosen in `Init`. Assumed of the environment: the probe's expected status tells
accepted credentials from rejected ones (a probe answered 429 would be a
rejection too).

### RunTransport

One run's calls of `TargetTransport.execute`. From the top of a hop to
`client.request` nothing is awaited, so `Decide` is one action with the checks in the
code's order: session origin, cancellation, scope, policy, route circuit, gate,
budget. The route circuit's cooldown restarts and the gate counts a write *before* a
later check refuses the hop, as in the code. `Connect` looks the pin up at the socket,
`Resolve` is the answer of the resolver's thread (`setdefault`: the first one stays),
`Answer`, `Redirect` and `Drop` end the wait for the target. The run's budget has a
hold for the coverage stage (`Hold`, `ReleaseHold`); calls of the driver reserve from
a share of it too. `contacts`, `sent`, `wrote`, `late` and `replies` are history. The
session's health is left to `SessionHealth`: the two meet in the first check of
`execute` only, which refuses a call unsent.

### EngagementRun

`investigate_engagement` from start to result. Everything but the journal (`journal`,
`checkpoint`) and the proof records (`proofs`) is memory, which `Die` empties at any
step. An attempt asks once whether there is anything to resume (`Start`), restores or
repeats discovery, takes the finished units (`TakeUnits`), sweeps the worklist,
reviews captures, runs chain rounds (whose crawl leads to another sweep and review
under the derived identity) and drives the coverage legs with their checkpoints. Rows
carry the context key they were written under; a row of another key, or one that no
longer matches its checksum (`Damage`), is a miss. Reads and writes of the journal may
fail, which the code logs and forgets (`Fault`, at most `MaxFaults`). A unit of work
takes 1 to `Slow` ticks and starts before its phase's deadline only. `Unit` is where a
chain round's node shares the key of the main sweep's: when its key names no derived
identity.

### ExecutionRegistry

Callers are tasks. Between the look at the record and the flight's entry there is no
await, so `Hit`, `Wait`, `Refer` and `Miss` are the four ways out of one look, and a
waiter looks again when the flight lands. `Return` settles each key of the run on its
own: concluded, incomplete or declined. `Raise` and `Cancel` are the two exits of the
`except BaseException` branch. A `Send` is a request reserved from the budget, which is
answered or not: one that times out was spent all the same. `Observed` are the calls
whose *answered* sends someone counts (`count_sends`, asked by `_ConfirmationCache`).
`Declared` are the calls whose result names its own `sent_count`, which wins over every
measurement (`execution_registry.py:299`); no validator of the repository does, only
tests do, and the model takes the number to be the answered sends. For the others only
the budget's delta is known, and only when nothing overlapped (`Spent`). `real` and
`tries` are history.

## 3. What is checked

| Run | Shows |
|---|---|
| `workqueue` | budgets, dependencies, attempts and hands stay consistent under crashes and lapsed leases, the queue implements `DurableWork`, and no work is lost |
| `effort_budget` | reservations pair up, receipts add up, the cap holds for metered callers and is overshot by a known amount with checked ones |
| `breaker` | an OPEN breaker is left only by a trial after its timeout, no half-open slot leaks, trials over the limit are bounded by the earlier calls that ended, and the breaker heals, until a scope ends |
| `jobs` | the admission cap bounds live work across processes, no live job is marked interrupted, what was reported over stays over, dead servers' jobs are interrupted |
| `throttle` | the traffic ceiling, every caller gets its turn |
| `throttle_switched_off` | *violated:* callers that were waiting when the throttle is switched off raise |
| `rounds` | from the first round on verdicts stand, legs are sent once over all sweeps, the rounds stop for want of work only when what they look at is done, and they end |
| `session` | a session is expired only while the target rejects it, one never dropped is never refreshed or stopped as long as fewer than `min_routes` route keys mix objects it may and may not see, every feedback ends |
| `transport` | every send is paid once, one address per host, redirects leak nothing, writes stay under their ceiling, only silent routes pause, a cancelled run stops |
| `engagement` | a resumed attempt does not repeat what it can read, phases get their share of the time, a killed coverage drive loses at most what a checkpoint allows |
| `registry` | a key runs once at a time, savings are real, retries that someone saw answered are bounded, every call is answered |
| `registry_retries` | *violated:* a check whose sends nobody counts is retried beyond the limit |

Each module also states a type invariant. It is proved for all of them (section 4)
and is in no run, so that a run asks only what could be wrong.

### What the violated runs show

- **`throttle_switched_off`.** Documented to block and never to reject, and to let
  everything through at rate 0. A caller asleep in `acquire` when the rate becomes
  0 wakes and divides by it; the callers queued behind it do the same.
- **`registry_retries`.** "The same unchanged key is retried at most `retry_limit`
  times". An incomplete result is an attempt if it sent something; what it sent is
  known from `observed_sends`, which only `_ConfirmationCache` sets, or from the run
  budget's delta, which is taken as 0 when another run overlapped. The model-review
  path (`orchestrator_confirm.py:622`) dispatches many checks at once and counts
  nothing, so its incomplete attempts are no attempts. `ObservedRetriesAreBounded`
  is what does hold: attempts with an answered request, where someone counts. With all
  calls in `Observed` the statement is violated as well, by an overlapped check whose
  requests all time out: nothing was observed, the delta is 0, and it is no attempt.

A reader who adds one of these to the configuration of its module's run (an INVARIANT,
or a PROPERTY where it is an action property) sees it violated too: `StaleWorkerRefused`
in `WorkQueue`, `WaitsForBreaker`, `VerdictsAreFinal` and `FailedReviewsAreRetried` in
`RetryRounds`, `StaleStaysRefused` in `SessionHealth`, `ConfirmationsAreKept` in
`EngagementRun`, `RefusedMeansUnsent` in `RunTransport`, `TrialsGated` in
`CircuitBreaker`; and `StaleMeansDropped` in `SessionHealth` when `RefusedRoutes` of
`MCSessionHealth` is {"own", "mixed"}, which makes two route keys mixed. Section 5 says
what they show.

### Bounds, and why they are enough

- *WorkQueue*: four items of two engagements, three workers, two attempts, one
  disruption (a crash or an overrun lease). A stale worker needs two workers, one
  disruption and one further lease; a dead item needs two attempts; the budget
  contest needs two items that do not both fit; a blocked chain needs one
  dependency. Two disruptions were also checked, without error; they take four
  minutes.
- *EffortBudget*: cap 3, calls of up to 2 tokens, three call slots over two runs,
  no new call once 5 tokens are spent. Two calls fit, the third contends, and the
  overshoot bound (twice the cap and one call per checked slot) is reached.
- *CircuitBreaker*: every threshold at the smallest value that tells it apart
  (two failures, two successes, one slot, a window of three that trips at two),
  three concurrent calls, two interventions. A run's breaker has thresholds 3 and
  2, one slot and no window; the smaller thresholds only shorten the way to each
  state.
- *JobLifecycle*: two jobs on two servers, a third server that starts between or
  after them, two process ids, cap 1, one retained row, one failed save: two crashes,
  a server that recovers the rows of both, an id given twice and a contended cap.
- *GlobalThrottle*: two rates (below and above one request per second) and off,
  three callers, an observation of up to seven ticks, three reconfigurations: long
  enough for the slow rate to fill the bucket and start again.
- *RetryRounds*: a node with a hypothesis and legs, one with a hypothesis only, two
  captures of discovery and one of a chain round, one re-crawl and one chain round, base
  budgets of one, a growth of 2 up to 4, one idle round. A verdict recorded by one sweep
  of round 0 meets each of the others and the rounds; a failed review of each kind meets
  a round that could review it again. Rounds are told apart up to the second, where the
  factor reaches its cap; later rounds behave alike.
- *SessionHealth*: two sends, a route served only, one denied only and one mixed, a
  window of two that asks for two routes, two refreshes, one redirect, one revocation:
  a late answer of old credentials needs two sends, a stale session two denials, and
  the one mixed route is one less than `min_routes` of them.
- *RunTransport*: three calls (two that write for one finding under different
  ceilings, one of them a cleanup call; one of the driver, with a session), four
  urls on two hosts in scope and one outside, one of them excluded, a resolver with
  three answers of which one is special, budget 3, share 1, hold 1, two redirects, a
  threshold of one 5xx. Two calls race for each shared thing and the third contends
  with both; a longer redirect chain repeats the second hop.
- *EngagementRun*: two nodes, of which one keeps its key in a chain round, one capture
  and one that a chain round adds, one chain round, three legs with a checkpoint due
  after two, two attempts under two context keys, one fault, five ticks of which a
  unit takes up to two; six ticks were checked too, without error (5.4 million states).
  A second crash starts from a journal of the same shape; two
  faults in one attempt were not explored.
- *ExecutionRegistry*: two checks of one key and one of another, which declares what it
  sent, an audit of both, three slots, a retry limit of one, one request each, answered
  or not: a joiner, an overlapping run and a second joiner of the audit's other key at
  the same time. A third check of the first key was checked too, for the invariants and
  without error; `registry_retries` needs it.

### Deadlock

Deadlock is checked where the system cannot stop. The configurations of
`WorkQueue` (all work settled), `EffortBudget` (exhausted), `CircuitBreaker` (a
leaked slot after a scope, which really refuses everything), `JobLifecycle` (all
servers dead), `RetryRounds` (stopped), `SessionHealth` (an expired session sends
nothing), `RunTransport` and `ExecutionRegistry` (all calls answered) and
`EngagementRun` (done) turn it off.

### Fairness

- *WorkQueue*: workers keep asking for work and settle what they hold, and the
  clock passes every expiry. A worker that crashes is not obliged to settle.
- *CircuitBreaker*: callers keep calling; every request has a timeout, so a call
  ends, with either outcome; the timeout of an OPEN breaker passes; a `with` block
  ends. No fairness on a particular outcome, on `Recover`, or on a reset.
- *JobLifecycle*: a living server is polled (the UI polls) and its tasks run to an
  end (an engagement has a deadline). No fairness on crashes or boots.
- *GlobalThrottle*: time passes, and asyncio runs a ready task.
- *RetryRounds*: model calls and waits are bounded in time; the deadline comes. In
  the checked case there is no round limit and one idle round ends the rounds; rounds
  that keep making progress, or that idle with `max_idle_rounds` 0, end *because of*
  the deadline, without which `RoundsEnd` fails. Nothing obliges a slice
  of round 0 to pass, a re-crawl to find routes or a finding to leak credentials.
- *SessionHealth*: requests, probes and logins have timeouts and the loop runs a
  ready task, so every step of a send that has begun is taken. Nothing obliges a
  caller to send, a probe to be conclusive or a refresh to succeed.
- *ExecutionRegistry*: the event loop runs what is ready, and a check ends: its
  requests, its browser and its tools have timeouts. No fairness on which way it ends,
  nor on cancellation.
- `RunTransport` and `EngagementRun` have safety properties only.

## 4. What is proved

All theorems are of the form `Spec => []Inv` or `Spec => [][A]_vars`, from the
named assumption of the component, which only types the constants and asks for
finite sets and non-zero thresholds. None needs a bound of the instances.

| Theorem | Property | Module |
|---|---|---|
| `QueueTypeOK` | `TypeOK` | `WorkQueueProofs` |
| `ReservationsWithinCap` | `BudgetWithinCap` | |
| `DispatchOverDoneDependencies` | `DependenciesDone` | |
| `AttemptsAreAccounted` | `AttemptAccounting` | |
| `GivenUpAfterAllAttempts` | `DeadMeansExhausted` | |
| `LeasesExclude` | `HeldIsCurrent` | |
| `SettledRowsAreFinal` | `SettledIsFinal` | |
| `QueueImplementsDurableWork` | `ImplementsDurableWork` | |
| `BudgetTypeOK` | `TypeOK` | `EffortBudgetProofs` |
| `ReservationsPairUp` | `ReservedByInFlight` | |
| `ReceiptsAddUp` | `RunsAddUp` | |
| `HardCap` | `CapHolds` | |
| `BoundedOvershoot` | `OvershootBounded` | |
| `BreakerTypeOK` | `TypeOK` | `SharedGuardsProofs` |
| `OpenHoldsForItsTimeout` | `OpenHolds` | |
| `SlotsAreReturned` | `NoSlotLeak` | |
| `TrialsOverloadBounded` | `OverloadBounded` | |
| `ThrottleTyped` | `ThrottleTypeOK` | |
| `TrafficUnderCeiling` | `Ceiling` | |
| `OneSleepIsEnough` | `WakesToAToken` | |
| `RegistryTyped` | `RegistryTypeOK` | |
| `RunsAreExclusive` | `OneRunPerKey` | |
| `NoSavingIsOverclaimed` | `SavingsAreReal` | |
| `RetriesEnd` | `ObservedRetriesAreBounded` | |
| `SessionTypeOK` | `TypeOK` | `SessionHealthProofs` |
| `ExpiryIsTrue` | `NoFalseExpiry` | |
| `ExpiryStays` | `ExpiredIsFinal` | |
| `LiveSessionStays` | `LiveSessionIsKept` | |
| `TransportTypeOK` | `TypeOK` | `RunTransportProofs` |
| `EverySendIsPaid` | `SendsArePaid` | |
| `OneAddress` | `OneAddressPerHost` | |
| `RedirectsLeakNothing` | `NothingLeaks` | |
| `WritesAreCapped` | `WritesWithinCeiling` | |
| `PausesAreEarned` | `OnlySilentRoutesPause` | |
| `CancellationStops` | `CancelStops` | |
| `JobTypeOK` | `TypeOK` | `EngagementJobsProofs` |
| `JobInvariance` | `JobInv`, the inductive invariant | |
| `CapBoundsLiveWork` | `LiveWorkWithinCap` | |
| `RecoveryTakesOnlyTheDead` | `NoFalseInterruption` | |
| `ReportedOverStaysOver` | `OverStaysOver` | |
| `EngagementTyped` | `EngagementTypeOK` | |
| `EngagementInvariance` | `EngagementInv`, the inductive invariant | |
| `FinishedUnitsStand` | `NoFinishedUnitRunsAgain` | |
| `KilledDrivesLoseLittle` | `LossBounded` | |
| `LaterPhasesAreNotStarved` | `PhasesGetTheirShare` | |
| `RetryTypeOK` | `TypeOK` | `RetryRoundsProofs` |
| `RetryInvariance` | `RetryInv`, the inductive invariant | |
| `LegsAreSentOnce` | `LegsSentOnce` | |
| `RoundsStopWithNothingLeft` | `NothingLeftToDo` | |
| `SettledNodesStand` | `VerdictsStand` | |

**Work queue.** The inductive invariant is the conjunction of the six state
invariants. A row enters "leased" through `Lease` alone and leaves it through one
of `Complete`, `Fail` and the reclaim, so its attempts are its leases; `Lease`
picks runnable rows, whose dependencies are done, and `DoneIsStable` says nothing
undoes them. The budget needs one lemma: only `Enqueue` adds to what is reserved
(`OnlyEnqueueReserves`), and it compared the sum first; the rest is `TallyUpdate`
and `TallySubset`. `HeldIsCurrent` is inductive by itself: as long as no lease of
an item lapsed under its worker, `Lease` cannot pick a row some hand holds. The
refinement is one case per transaction, each naming the step of `DurableWork` it is
or why the phases do not change; it needs the invariant where a late settlement is one
of the tries.

**Effort budget.** The clamps of `commit` and `release` are what makes this
harder than it looks: `max(0, r - e)` is only a subtraction when `e <= r`, which
is what `ReservedByInFlight` gives (`EstimateIsReserved`). The limits need the
strengthening `ReservedWithinCap` (reservations alone stay within the cap unless
the operator overrides) so that a checked call's spending, which ignores
reservations, overshoots by no more than the cap again and one call per slot.

**Circuit breaker.** Type correctness carries the saved snapshot along
(`SavedOK`), since a scope puts it back. `OpenHolds` is one case per action.
`NoSlotLeak` is inductive until a snapshot returns: entering takes a slot and adds
a call, leaving gives back at most one. `OverloadBounded` needs `TrialsInv`: in HALF_OPEN the
trials in flight are at most the slots taken and the strays gone. An entry adds one to
both sides; a trial's exit takes a trial and at most a slot; a stray's exit takes at
most a slot, no trial, and counts itself; a snapshot that is put back makes everybody
a stray.

**Throttle.** `Ceiling` bounds requests let through plus tokens left by burst plus
rate times time. A refill adds at most the rate per tick and a request moves one
unit from the bucket to the count. `WakesToAToken`, which is proved and in no run, holds with the fact that a
sleeper is in the queue.

**Session health.** What a probe rejected must still be rejected when the refresh
that follows fails. That holds because the lock is held throughout:
`ExpiryInv` says that whoever probes or refreshes is the head of the lock's queue
(`LockHeld`), hence alone (`OneHolder`), and that it does so for a session not yet
expired, with the credentials still rejected after a rejection
(`HoldersSeeTheTruth`). `StepOfOne` reduces every action to what one send changes.
`LiveSessionStays` adds `Live`: before any revocation the denials in the window are of
mixed routes (`CleanWindow`), since a key is only watched once it was served, and these
are fewer than the `min_routes` that a stale window must have denied (`CleanIsNotStale`).
`SessionTypeOK` says more than types: whoever waits for the lock or holds it is in its
line exactly once, wherever tasks are cancelled. `Lined` relates the line to the places
of the sends, and each stretch of feedback code is handed a line that its send has left
(`Outcome`). A generation of credentials costs a refresh (`Paid`), so a refresh under
way means that one is paid for and not yet used.

**Run transport.** The inductive invariant `IInv` adds to the properties what makes
them survive a step: `Placed` (a call that connects was permitted to), `PinsHold`
(every contact's address is its host's pin, which is set once), `RoutesTell` (a route
that answered is never open, and an open one has seen a 5xx), `LateOnce` (a call that
sent once after the cancellation is not connecting again) and `WritesCounted` (writes
are counted before they are sent), from which `CountedIsEnough` bounds them by the
largest ceiling that let one through. The budget is a sum over calls, which each action
changes for one call: `TallyUpdate` again.

**Execution registry.** `RunInv` says that a running call owns the flights of exactly
its keys, hence runs of common keys exclude each other. `SavingsAreReal` needs that
the budget moved by a call's own sends as long as the call is not marked as
overlapped, and that every second run marks both; what a result declares or someone
observed is less than what was reserved (`RepliesAreSent`). `RetriesInv` bounds the counted
tries of a key by its `incomplete` count until the key is stored, after which it is never
run again; a try is over when it is counted (`TriedAreOver`), so its answers stay as many.

**Investigation jobs.** The cap and the absence of false interruptions are one
argument. A live task's server is up (`OwnersLive`), its row is running or cancelling
(`LiveWorkWithinCap`) and so is its registry entry (`NoFalseInterruption`). Hence recovery, which takes the rows of
processes that are not up, passes it by, and eviction, which removes terminal entries,
does too (`SweepSparesLiveTasks`: whatever the sweep at the head of a route leaves, it
leaves live tasks as they were and adds no running row). The cap is checked on the rows
after that sweep, so every live task is counted by it. `OverStaysOver` compares what a
server answers before and after a step; an answer comes from its memory or else from the
row, so it needs `RowsFollowRegistries`: while every save commits, what is over in
memory is over in the row, and a crash uncovers nothing that was running.

**Retry rounds.** `NothingLeftToDo` is about the end of the rounds, and its reason is
spread over a whole sweep and the review behind it: `PassedNodesAreSettled` says that a
sweep with time to spare that ran nothing and found nothing over budget leaves no node
with a hypothesis behind that is neither settled nor proven. A node is only run, and a
capture only reviewed, once it is passed (`CountsAreTrue`), so that a budget of at least
one is never used up by nothing; `ReviewsStartClean` says the same of failed captures.
`RoundsComeLast` keeps the sweeps of round 0, which settle and overwrite as they like,
before all that; what they leave, reopened or not, a round's sweep and review look at
again. `AttemptsAreRemembered` gives `LegsSentOnce`, over every sweep. The growth of the
budgets is a function defined by recursion on the round; that its values are positive
and that the function exists at all (`FactorType`) is proved by taking the least round
that fails.

**Engagement.** *What is finished stays finished* (`Inherited`): what an attempt can
read of an earlier one it resumes, having found it when it started, and once it has read
the journal it has taken it. Every action changes a row in one of three ways
(`RowStep`): not at all, by damage, or by writing it as this attempt's, none of which
makes a row of an earlier attempt readable that was not. *A killed drive loses little*
(`SinceCheckpoint`): the number sent is a multiple of CHECKPOINT_EVERY_LEGS plus r, and
the legs concluded since the checkpoint and the one under way are at most r. r reaches
CHECKPOINT_EVERY_LEGS only when a checkpoint is due, and then the next leg writes it
first. *No phase starves a later one* (`DeadlinesLeave`): a slice is rounded down, so
what it leaves of R is at least R times the later shares over the shares from this phase
on (`ShareLeft`); such fractions multiply (`SharesCompose`); and a phase passes its
deadline by at most one unit of work, which costs the next phases `Slow - 1` each
(`WorkLeaves`).

**What remains model-checked.** Liveness and what depends on fairness (`NoWorkIsLost`,
`HealsUnscoped`, `DeadJobsAreInterrupted`, `EveryCallerGetsItsTurn`, `RoundsEnd`,
`FeedbackEnds`, `EveryCallIsAnswered`): the prover has no rule for ENABLED. Every
invariant and every action property of the passing runs is proved. Induction is
available as the least element of a set of numbers (`LeastElement`), not as a rule with
a predicate for a parameter.

## 5. Where code and text disagree

The runs that end in a violation are listed in section 3. Met while reading, and
kept here because no run is devoted to them (where a module states the text's claim,
its name is given):

- *Work queue* (`StaleWorkerRefused`). The docstring of `complete_work_item` says it
  returns False for an item "reclaimed back to pending under a stale worker"
  (`store.py:3042`). The statement is `WHERE item_id = ? AND status = 'leased'`: when
  the item was reclaimed *and leased again*, the stale worker's call settles it and
  the current worker's is refused.
- *Retry rounds* (`WaitsForBreaker`). A round is said to wait for an open breaker
  (`retry_rounds.py:25`). `_breaker_retry_after` asks the shared breaker (line 163);
  a run's calls go through the run's own (`run_context.py:1516`).
- *Retry rounds* (`FailedReviewsAreRetried`). A round "reviews again each capture whose
  model review failed", and the rounds stop "when a round has nothing left to run"
  (`retry_rounds.py:22`, 31). `reopen_reviews` takes the failed captures of every review
  out of `seen`, a chain round's too, but `_retry_review` looks for them in
  `_all_captured` only (`orchestrator_chain.py:2713`). A chain round's capture whose
  review failed, or that its review limit left, is never reviewed again, and the rounds
  may report `nothing_left`.
  `NothingLeftToDo` therefore speaks of `Captures`.
- *Retry rounds* (`VerdictsAreFinal`). A verdict "is final for the run"
  (`retry_rounds.py:56`). In round 0 it is not: the sweeps of the re-crawls and chain
  rounds are given no completed outcomes, probe a settled node again, and record an
  error over its verdict. `VerdictsStand` is the part that holds, from the first retry
  round on.
- *Session freshness* (`StaleMeansDropped`). STALE is said to mean that "the target
  refuses what it served this principal before", and "a route that has only ever refused
  a principal" to be access control (`session_freshness.py:15`). A route
  is a key with its ids folded: when `min_routes` of them have objects the principal may
  see and objects it may not, asking for the latter after the former fills the window,
  and a live session is refreshed and then stopped. `LiveSessionIsKept` is what holds
  below that number.
- *Session health* (`StaleStaysRefused`). A stale session is said to be refused like
  an expired one (`run_context.py:795`). `_recheck_session` protects only "expired"
  (line 1029): without a probe it sets "suspect", and with one the probe of a stale
  session is refused unsent, which it takes for inconclusive, hence "suspect" too. One
  401 that was under way is enough, and the denials that follow are read as access
  control.
- *Run transport* (`RefusedMeansUnsent`). "A denied/blocked/out-of-scope attempt did
  NOT execute (and did not consume budget)" (`run_context.py:521`). A call refused on
  the hop of a redirect has sent the hops before and paid for them; one whose address
  is special was paid for and counted as a write, and sends nothing.
- *Safety gate and route circuit.* A write refused for want of budget stays counted
  against its finding, and a send refused by the gate or the budget uses up a paused
  route's one send per cooldown: both are taken before the check that refuses.
- *Engagement* (`ConfirmationsAreKept`). "A CONFIRMED finding is proof. It is never
  overwritten or downgraded by a later UNCONFIRMED hypothesis" (`engagement.py:517`)
  holds in memory. In the journal, a chain round's sweep writes
  `worklist:<key>` again for a node whose key names no derived identity (INSERT OR
  REPLACE), so a resumed run starts from the later, unconfirmed outcome.
- *Coverage.* `drive_coverage_cases` calls `_checkpoint_after` with a count that may
  grow by more than one between calls and so jump over the multiples of 25
  (`coverage_tracker.py:222`). The model has the drive that counts one at a time.
  A cell restored as conclusive is not compared with the proofs any more, while a
  finding restored from the journal is.
- *Execution registry.* `run_audit` and `memo` know no retry limit. A limit depends on
  an answer: a request that timed out was reserved (`run_context.py:853`) but is not
  counted by `count_sends` (line 895), so an overlapped check that is never answered is
  no attempt and is repeated for as long as it is asked for (`execution_registry.py:320`).

- *Work queue.* An item whose dependency is dead stays pending for ever and keeps
  its reservation; nothing reports it. `NoWorkIsLost` says it with its exception.
- *Effort budget.* `allow()` ignores reservations; `OvershootBounded` states the
  consequence. A confirmed overspend is never withdrawn (`effort.py:276`).
- *Circuit breaker.* `scoped_ollama_breaker` restores `_half_open_requests` as it was
  when the scope began (`circuit_breaker.py:645`), although those calls may have
  ended since: the slot is never given back and HALF_OPEN refuses every call. Only
  tests use the scope; `HealsUnscoped` excludes it.
  "Release the half-open trial slot this request occupied, so half_open_max_requests
  gates *concurrent* trial requests" (line 270) is not so (`TrialsGated`): every exit
  gives back a slot (278). Three calls enter a CLOSED breaker, two fail and trip it,
  the timeout passes, a trial enters, the third call ends: the trial's slot is free
  and another trial enters beside it. `OverloadBounded` is what does hold.
  `_consecutive_successes` is not reset on the way into HALF_OPEN (247), so late
  successes of the outage count towards closing. The window is cleared on a trip by
  rate and kept on a trip by consecutive failures (299 against 208).
- *Jobs.* A failed save is swallowed (`server.py:1446`, 1459): the registry says
  done, the row says running until the process dies, and then interrupted.
  Recovery by pid misses a job whose dead process's id was reused
  (`job_status.py:171`), which `DeadJobsAreInterrupted` excludes.
- *Session health.* Feedback that waited for the lock in `_session_stale` does not look
  at the window again (`run_context.py:971`): after another send refreshed the
  session it refreshes again, or, with no refresh left, makes the fresh session
  stale with no denial in its window. A denial of the old credentials that arrives
  after a refresh counts in the new generation's window (`session_freshness.py:102`).
  A redirect is followed with the credentials of a session that went down meanwhile
  (`run_context.py:865`).
- *Retry rounds.* A verdict settles a node whose legs raised or were over budget
  (`worklist_investigator.py:607` against 520), so these legs are not retried. A
  round that only skipped nodes because the deadline passed reports
  `nothing_left` (`retry_rounds.py:239` against 29), which `NothingLeftToDo`
  excludes by its `~late`. A leg budget of 0 leaves `exhausted` set with nothing a
  larger budget could do, and rounds run empty until the deadline.

## 6. What is not modelled, and why

Each component of the inventory that has no module is in `PROJECT.json` with its
reason. They are of three kinds. *Planned*: the confirmation gate, the pipeline,
exchange cache, rest of the store, rate limiter, iterative agent and workflow engine
keep state across awaits and belong in the project. *Data*:
validators, agents' prompts and parsers, discovery, scanning and reports; their
substance is the content of HTTP messages and text. *Offline*: benchmarks,
experiments and scoring. Inside a modelled component, what is left out is what no
property tells apart: statistics and display counters, projections of a job for
the UI, result blobs, wording.

Of the components that are modelled in part, the following changes state and is left
out. *Transport*: connection reuse and close, TLS policy, evidence artifacts.
*Engagement*: recrawl, feature crawl, experiments, second-order probes, the linking of
chains and `stop_on_confirm`, each of which repeats a phase that is modelled or only
adds work to it (the sweeps of a re-crawl are in `RetryRounds`). *Safety gate*: bursts,
and how a request's body decides whether it is mutating (`Writing` is a constant).
*Coverage*: the transitions of one cell. *Rounds*: junk and unreachable nodes, the
journal's seeding of outcomes.

The models stand for a small share of the source lines. Much of the rest is the
content of requests, prompts and reports, where a state machine has nothing to say;
the planned components are where it does.

## 7. Plan

In order, the most important behaviour first:

1. *Done:* `WorkQueue` with its abstract `DurableWork`, `EffortBudget`,
   `CircuitBreaker`, `JobLifecycle`, `GlobalThrottle`, `RetryRounds`, `SessionHealth`,
   `RunTransport`, `EngagementRun`, `ExecutionRegistry`.
2. `ConfirmationGate`: verdict transitions against proofs and the ledger.
3. `AnalysisPipeline`: concurrent agents over breaker and budget, degraded results.
4. `ExchangeCache`, `Store` (engagement compare-and-swap), `RateLimiter`, in one module
   each.
5. The composition of `RunTransport` with `GlobalThrottle` and `SessionHealth`: a send
   that sleeps in the throttle while its session goes down and its run is cancelled.
6. Proofs: every safety property of the runs is proved; the next are those of the
   modules above, each with its run.

Runs of violated statements give way to runs of new components where the number
of runs would grow beyond what is quick to repeat.
