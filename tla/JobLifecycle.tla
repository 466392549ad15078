----------------------------- MODULE JobLifecycle -----------------------------
(***************************************************************************)
(* Investigation jobs: the in-memory registry of harness/server.py and the  *)
(* durable rows of harness/job_status.py, shared by server processes that   *)
(* crash and are started again.  Every route first evicts, recovers and     *)
(* prunes; every transaction on the rows is BEGIN IMMEDIATE, and from that   *)
(* transaction on a handler does not await, so each handler is one action.   *)
(* (A submission may await before it, for a resume or the run journal: the   *)
(* admission that counts is the one inside create's transaction.)            *)
(***************************************************************************)
EXTENDS Integers, FiniteSets

CONSTANTS
    Jobs,           \* job ids: fresh random ids, so each belongs to one server
    Servers,        \* server processes, by their owner id: each is started once
    Pids,
    OwnerOf,        \* the server that creates a job id
    MaxRunning,     \* _MAX_RUNNING_JOBS
    MaxTerminal,    \* _MAX_RETAINED_TERMINAL_JOBS
    MaxFailedSaves  \* bound of the model: updates of a row that fail

ASSUME JobAssumption ==
    /\ IsFiniteSet(Jobs) /\ IsFiniteSet(Servers)
    /\ OwnerOf \in [Jobs -> Servers]
    /\ MaxRunning \in Nat /\ MaxTerminal \in Nat /\ MaxFailedSaves \in Nat

VARIABLES
    life, pid,      \* each server's process and its process id
    row,            \* status column; "none" while there is no row
    mem,            \* the job's status in the _INVESTIGATE_JOBS of its server
    task,           \* its asyncio task
    cancelAsked,    \* jobs whose task.cancel() was called
    finished,       \* order of finished_at, 0 before
    old,            \* jobs finished more than _JOB_RETENTION_SECONDS ago
    failedSaves

vars == <<life, pid, row, mem, task, cancelAsked, finished, old, failedSaves>>

Running == {"running", "cancelling"}
Terminal == {"done", "error", "cancelled", "interrupted"}
Statuses == Running \union Terminal \union {"none"}

-----------------------------------------------------------------------------

Up(s) == life[s] = "up"
JobsOf(s) == {j \in Jobs : OwnerOf[j] = s}
RunningIn(table) == {j \in Jobs : table[j] \in Running}
TerminalIn(table) == {j \in Jobs : table[j] \in Terminal}

\* The next finished_at.
Stamp == 1 + Cardinality({finished[j] : j \in Jobs})

\* process_alive: some process has the pid, which need not be the job's own.
Alive(p) == \E s \in Servers : Up(s) /\ pid[s] = p

\* Mutant of Lost: every other owner's job is taken for lost.
LostAllForeign(s) == {j \in RunningIn(row) : OwnerOf[j] # s}

\* Mutant of Lost: recovery looks at the rows of its own process.
LostOfOwnProcess(s) == {j \in RunningIn(row) : OwnerOf[j] = s /\ ~Alive(pid[OwnerOf[j]])}

\* recover_interrupted: running rows of other owners whose pid is not alive.
Lost(s) == {j \in RunningIn(row) : OwnerOf[j] # s /\ ~Alive(pid[OwnerOf[j]])}

RecoveredRow(s) == [j \in Jobs |-> IF j \in Lost(s) THEN "interrupted" ELSE row[j]]
RecoveredFinish(s) == [j \in Jobs |-> IF j \in Lost(s) THEN Stamp ELSE finished[j]]

\* The newest MaxTerminal of S by finish; jobs that finished together in any order.
Newest(S, finish) ==
    {K \in SUBSET S :
        /\ Cardinality(K) = IF Cardinality(S) < MaxTerminal THEN Cardinality(S) ELSE MaxTerminal
        /\ \A k \in K, d \in S \ K : finish[k] >= finish[d]}

\* The tables an eviction can leave: terminal entries past retention go, then the
\* oldest ones over the cap; what is running stays.
Evicted(table, finish) ==
    {[j \in Jobs |-> IF j \in TerminalIn(table) \ keep THEN "none" ELSE table[j]] :
        keep \in Newest(TerminalIn(table) \ old, finish)}

\* What recover_interrupted and prune leave of the rows.
EvictedRows(s) == Evicted(RecoveredRow(s), RecoveredFinish(s))

\* What _evict_expired_jobs leaves of the registry of s.
EvictedMem(s) ==
    {[j \in Jobs |-> IF OwnerOf[j] = s THEN m[j] ELSE mem[j]] :
        m \in Evicted([j \in Jobs |-> IF OwnerOf[j] = s THEN mem[j] ELSE "none"], finished)}

Init ==
    /\ life = [s \in Servers |-> "new"]
    /\ pid \in [Servers -> Pids]
    /\ row = [j \in Jobs |-> "none"]
    /\ mem = [j \in Jobs |-> "none"]
    /\ task = [j \in Jobs |-> "none"]
    /\ cancelAsked = {}
    /\ finished = [j \in Jobs |-> 0]
    /\ old = {}
    /\ failedSaves = 0

-----------------------------------------------------------------------------

\* _save_job_status over the rows r: the update commits, or fails and the job
\* only gets a persistence_error.
Save(j, status, r) ==
    \/ row' = [r EXCEPT ![j] = status] /\ UNCHANGED failedSaves
    \/ /\ failedSaves < MaxFailedSaves
       /\ row' = r
       /\ failedSaves' = failedSaves + 1

\* A status or list request: eviction and recovery only.
Poll(s) ==
    /\ Up(s)
    /\ \E r \in EvictedRows(s), m \in EvictedMem(s) : row' = r /\ mem' = m
    /\ finished' = RecoveredFinish(s)
    /\ UNCHANGED <<life, pid, task, cancelAsked, old, failedSaves>>

\* Mutant of Admissible: the cap is checked on the registry of this process.
AdmissibleInMemory(s, r, m) == Cardinality(RunningIn(m) \intersect JobsOf(s)) < MaxRunning

\* The admission checks: the registry's, then the one of create's transaction.
Admissible(s, r, m) ==
    /\ Cardinality(RunningIn(m) \intersect JobsOf(s)) < MaxRunning
    /\ Cardinality(RunningIn(r)) < MaxRunning

\* engagement_investigate: the row is inserted and the task is created.
Submit(s, j) ==
    /\ Up(s) /\ OwnerOf[j] = s
    /\ task[j] = "none"
    /\ \E r \in EvictedRows(s), m \in EvictedMem(s) :
        /\ Admissible(s, r, m)
        /\ row' = [r EXCEPT ![j] = "running"]
        /\ mem' = [m EXCEPT ![j] = "running"]
    /\ task' = [task EXCEPT ![j] = "scheduled"]
    /\ finished' = RecoveredFinish(s)
    /\ UNCHANGED <<life, pid, cancelAsked, old, failedSaves>>

\* The same request when the manifest cannot be started: the admitted row is
\* settled as an error, no task is created and the job never enters the registry.
SubmitWithoutManifest(s, j) ==
    /\ Up(s) /\ OwnerOf[j] = s
    /\ task[j] = "none"
    /\ \E r \in EvictedRows(s), m \in EvictedMem(s) :
        /\ Admissible(s, r, m)
        /\ Save(j, "error", [r EXCEPT ![j] = "running"])
        /\ mem' = m
    /\ task' = [task EXCEPT ![j] = "ended"]
    /\ finished' = [RecoveredFinish(s) EXCEPT ![j] = Stamp + 1]
    /\ UNCHANGED <<life, pid, cancelAsked, old>>

\* The task runs its first step.
Begin(j) ==
    /\ Up(OwnerOf[j])
    /\ task[j] = "scheduled" /\ j \notin cancelAsked
    /\ task' = [task EXCEPT ![j] = "running"]
    /\ UNCHANGED <<life, pid, row, mem, cancelAsked, finished, old, failedSaves>>

\* engagement_investigate_cancel, for a job of this process.
Cancel(s, j) ==
    /\ Up(s) /\ OwnerOf[j] = s
    /\ task[j] \in {"scheduled", "running"}
    /\ cancelAsked' = cancelAsked \union {j}
    /\ \E r \in EvictedRows(s), m \in EvictedMem(s) :
        /\ mem' = [m EXCEPT ![j] = "cancelling"]
        /\ Save(j, "cancelling", r)
    /\ finished' = RecoveredFinish(s)
    /\ UNCHANGED <<life, pid, task, old>>

\* The end of _run: the terminal status, its time and the durable row.
End(j, status) ==
    /\ task' = [task EXCEPT ![j] = "ended"]
    /\ mem' = [mem EXCEPT ![j] = status]
    /\ finished' = [finished EXCEPT ![j] = Stamp]
    /\ Save(j, status, row)
    /\ UNCHANGED <<life, pid, cancelAsked, old>>

\* Mutant of Finish: the end of the run is not saved to the row.
FinishUnsaved(j) ==
    /\ Up(OwnerOf[j])
    /\ task[j] = "running"
    /\ task' = [task EXCEPT ![j] = "ended"]
    /\ mem' = [mem EXCEPT ![j] = "done"]
    /\ finished' = [finished EXCEPT ![j] = Stamp]
    /\ UNCHANGED <<life, pid, row, cancelAsked, old, failedSaves>>

\* The run returns or raises; a task asked to cancel ends cancelled, or with the
\* error that its cleanup raised.
Finish(j) ==
    /\ Up(OwnerOf[j])
    /\ task[j] = "running"
    /\ \E status \in IF j \in cancelAsked THEN {"cancelled", "error"} ELSE {"done", "error"} :
          End(j, status)

\* _ensure_cancelled: a task cancelled before its first step runs no finally.
EndUnstarted(j) ==
    /\ Up(OwnerOf[j])
    /\ task[j] = "scheduled" /\ j \in cancelAsked
    /\ End(j, "cancelled")

\* A server starts, under a pid no living process has: it may be a dead one's.
Boot(s) ==
    /\ life[s] = "new"
    /\ ~Alive(pid[s])
    /\ life' = [life EXCEPT ![s] = "up"]
    /\ UNCHANGED <<pid, row, mem, task, cancelAsked, finished, old, failedSaves>>

\* A server process ends: its registry and its tasks are gone, its rows are not.
Crash(s) ==
    /\ Up(s)
    /\ life' = [life EXCEPT ![s] = "dead"]
    /\ mem' = [j \in Jobs |-> IF OwnerOf[j] = s THEN "none" ELSE mem[j]]
    /\ task' = [j \in Jobs |-> IF OwnerOf[j] = s /\ task[j] # "none" THEN "ended" ELSE task[j]]
    /\ UNCHANGED <<pid, row, cancelAsked, finished, old, failedSaves>>

\* The retention window of a finished job passes.
Age(j) ==
    /\ finished[j] > 0 /\ j \notin old
    /\ old' = old \union {j}
    /\ UNCHANGED <<life, pid, row, mem, task, cancelAsked, finished, failedSaves>>

Next ==
    \/ \E s \in Servers : Poll(s) \/ Boot(s) \/ Crash(s)
    \/ \E s \in Servers, j \in Jobs : Submit(s, j) \/ SubmitWithoutManifest(s, j) \/ Cancel(s, j)
    \/ \E j \in Jobs : Begin(j) \/ Finish(j) \/ EndUnstarted(j) \/ Age(j)

\* A living server is polled and its tasks run to an end.
Fairness ==
    /\ \A s \in Servers : WF_vars(Poll(s))
    /\ \A j \in Jobs : WF_vars(Begin(j)) /\ WF_vars(Finish(j)) /\ WF_vars(EndUnstarted(j))

Spec == Init /\ [][Next]_vars
FairSpec == Spec /\ Fairness

-----------------------------------------------------------------------------
(***************************************************************************)
(* Properties                                                              *)
(***************************************************************************)

\* Rows, registries, tasks and processes have the types the code gives them.
TypeOK ==
    /\ life \in [Servers -> {"new", "up", "dead"}]
    /\ pid \in [Servers -> Pids]
    /\ row \in [Jobs -> Statuses]
    /\ mem \in [Jobs -> Statuses]
    /\ task \in [Jobs -> {"none", "scheduled", "running", "ended"}]
    /\ cancelAsked \subseteq Jobs /\ old \subseteq Jobs
    /\ finished \in [Jobs -> Nat]
    /\ failedSaves \in 0..MaxFailedSaves

Active == {j \in Jobs : task[j] \in {"scheduled", "running"}}

\* The admission bound holds across processes: never more live investigations
\* than the cap, because each of them has a running row for as long as it lives.
LiveWorkWithinCap ==
    /\ \A j \in Active : row[j] \in Running
    /\ Cardinality(RunningIn(row)) <= MaxRunning

\* Recovery never marks a job interrupted while its process still works on it,
\* and the registry entry of a live task is never evicted.
NoFalseInterruption ==
    \A j \in Jobs :
        /\ row[j] = "interrupted" => life[OwnerOf[j]] = "dead"
        /\ j \in Active => mem[j] \in Running

\* What a poll of server s answers: its registry first, then the rows.
Answer(s, j) == IF OwnerOf[j] = s /\ mem[j] # "none" THEN mem[j] ELSE row[j]

\* As long as every save commits, a job reported as over is never reported as
\* running again, from the registry or, once evicted there, from its row: "After
\* eviction, GET status/cancel for that job_id returns 404" (_evict_expired_jobs).
OverStaysOver ==
    [][\A s \in Servers, j \in Jobs :
          failedSaves' = 0 /\ Up(s) /\ Up(s)' /\ Answer(s, j) \in Terminal =>
              Answer(s, j)' \in Terminal \union {"none"}]_vars

\* Once a server stays up, a dead server's job does not stay running and hold
\* capacity ("dead process becomes interrupted"), unless another server was given
\* the dead one's process id.
DeadJobsAreInterrupted ==
    (\E s \in Servers : <>[]Up(s)) =>
        \A j \in Jobs :
            /\ row[j] \in Running /\ life[OwnerOf[j]] = "dead"
            /\ \A t \in Servers \ {OwnerOf[j]} : pid[t] # pid[OwnerOf[j]]
            ~> row[j] \notin Running

=============================================================================
