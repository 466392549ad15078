------------------------- MODULE EngagementJobsProofs --------------------------
(***************************************************************************)
(* What the investigation jobs of a server, and the engagement that such a  *)
(* job runs, promise for any jobs, servers, caps, worklists, coverage       *)
(* drives, budgets and phase shares, however often a process is killed.     *)
(***************************************************************************)
EXTENDS JobLifecycle, EngagementRun, FiniteSetTheorems, TLAPS

-----------------------------------------------------------------------------
(***************************************************************************)
(* JobLifecycle.  The admission cap and the absence of false interruptions  *)
(* rest on one chain: a live task has a living owner, so recovery passes    *)
(* its row by; its row and its registry entry are running, so eviction      *)
(* passes them by; and the cap, checked on the rows, therefore counts every *)
(* live task.                                                               *)
(***************************************************************************)

\* What an eviction leaves of an entry: itself, or nothing if it was terminal.
Kept(before, after) == after = before \/ (before \in Terminal /\ after = "none")

\* An eviction removes terminal entries and changes no other.
LEMMA EvictionKeeps ==
    ASSUME NEW table \in [Jobs -> Statuses], NEW finish, NEW t \in Evicted(table, finish)
    PROVE  t \in [Jobs -> Statuses] /\ \A j \in Jobs : Kept(table[j], t[j])
BY DEF Evicted, TerminalIn, Kept, Statuses

\* What a sweep of the registry of s leaves of the registries.
LEMMA MemAfterSweep ==
    ASSUME mem \in [Jobs -> Statuses], NEW s, NEW m \in EvictedMem(s)
    PROVE  m \in [Jobs -> Statuses] /\ \A j \in Jobs : Kept(mem[j], m[j])
<1> DEFINE own == [j \in Jobs |-> IF OwnerOf[j] = s THEN mem[j] ELSE "none"]
<1>1. own \in [Jobs -> Statuses]
    BY DEF Statuses
<1>2. PICK t \in Evicted(own, finished) :
          m = [j \in Jobs |-> IF OwnerOf[j] = s THEN t[j] ELSE mem[j]]
    BY DEF EvictedMem
<1>3. t \in [Jobs -> Statuses] /\ \A j \in Jobs : Kept(own[j], t[j])
    BY <1>1, <1>2, EvictionKeeps
<1> QED BY <1>2, <1>3 DEF Kept

\* What recovery and pruning by s leave of a row: what an eviction leaves, unless its
\* job was lost.
RowKept(s, j, after) ==
    \/ Kept(row[j], after)
    \/ j \in Lost(s) /\ after \in {"interrupted", "none"}

LEMMA RowsAfterSweep ==
    ASSUME row \in [Jobs -> Statuses], NEW s, NEW r \in EvictedRows(s)
    PROVE  r \in [Jobs -> Statuses] /\ \A j \in Jobs : RowKept(s, j, r[j])
<1>1. RecoveredRow(s) \in [Jobs -> Statuses]
    BY DEF RecoveredRow, Statuses, Terminal
<1>2. r \in [Jobs -> Statuses] /\ \A j \in Jobs : Kept(RecoveredRow(s)[j], r[j])
    BY <1>1, EvictionKeeps DEF EvictedRows
<1> QED BY <1>2 DEF RecoveredRow, Kept, RowKept, Terminal

\* The next finish time is a number.
LEMMA StampType ==
    ASSUME JobAssumption, finished \in [Jobs -> Nat]
    PROVE  Stamp \in Nat \ {0}
<1> DEFINE times == {finished[j] : j \in Jobs}
<1>1. finished \in Surjection(Jobs, times)
    BY DEF Surjection
<1> HIDE DEF times
<1>2. IsFiniteSet(times)
    BY <1>1, FS_Surjection DEF JobAssumption
<1>3. Cardinality(times) \in Nat
    BY <1>2, FS_CardinalityType
<1> QED BY <1>3 DEF Stamp, times

-----------------------------------------------------------------------------
(***************************************************************************)
(* Type correctness                                                        *)
(***************************************************************************)

\* A save leaves rows that are well typed, and counts its failures.
LEMMA SaveType ==
    ASSUME TypeOK, JobAssumption, NEW j \in Jobs, NEW status \in Statuses,
           NEW r \in [Jobs -> Statuses], Save(j, status, r)
    PROVE  /\ row' \in [Jobs -> Statuses]
           /\ failedSaves' \in 0..MaxFailedSaves
           /\ row' = [r EXCEPT ![j] = status] \/ (row' = r /\ failedSaves' > 0)
           /\ failedSaves' = 0 => failedSaves = 0
BY DEF Save, TypeOK, JobAssumption

\* The finish times that recovery sets are numbers.
LEMMA RecoveredFinishType ==
    ASSUME TypeOK, JobAssumption, NEW s
    PROVE  RecoveredFinish(s) \in [Jobs -> Nat]
BY StampType DEF RecoveredFinish, TypeOK

\* The type invariant: whatever starts, crashes, ends and is evicted, rows, registries,
\* tasks and processes have the types the code gives them.
THEOREM JobTypeOK == Spec => []TypeOK
<1>1. Init => TypeOK
    BY JobAssumption DEF Init, TypeOK, JobAssumption, Statuses
<1>2. TypeOK /\ [Next]_vars => TypeOK'
  <2> SUFFICES ASSUME TypeOK, [Next]_vars PROVE TypeOK'
      OBVIOUS
  <2> USE JobAssumption
  <2>0. Stamp \in Nat \ {0} /\ {"running", "cancelling", "error", "cancelled", "done"} \subseteq Statuses
      BY StampType DEF TypeOK, Statuses, Running, Terminal
  <2>1. ASSUME NEW s \in Servers, Poll(s) PROVE TypeOK'
    <3>1. PICK r \in EvictedRows(s), m \in EvictedMem(s) : row' = r /\ mem' = m
        BY <2>1 DEF Poll
    <3>2. row' \in [Jobs -> Statuses] /\ mem' \in [Jobs -> Statuses]
        BY <3>1, RowsAfterSweep, MemAfterSweep DEF TypeOK
    <3> QED BY <2>1, <3>2, RecoveredFinishType DEF Poll, TypeOK
  <2>2. ASSUME NEW s \in Servers, Boot(s) PROVE TypeOK'
      BY <2>2 DEF Boot, TypeOK
  <2>3. ASSUME NEW s \in Servers, Crash(s) PROVE TypeOK'
      BY <2>3 DEF Crash, TypeOK, Statuses
  <2>4. ASSUME NEW s \in Servers, NEW j \in Jobs, Submit(s, j) PROVE TypeOK'
    <3>1. PICK r \in EvictedRows(s), m \in EvictedMem(s) :
              row' = [r EXCEPT ![j] = "running"] /\ mem' = [m EXCEPT ![j] = "running"]
        BY <2>4 DEF Submit
    <3>2. r \in [Jobs -> Statuses] /\ m \in [Jobs -> Statuses]
        BY RowsAfterSweep, MemAfterSweep DEF TypeOK
    <3>3. row' \in [Jobs -> Statuses] /\ mem' \in [Jobs -> Statuses]
        BY <2>0, <3>1, <3>2
    <3> QED BY <2>4, <3>3, RecoveredFinishType DEF Submit, TypeOK
  <2>5. ASSUME NEW s \in Servers, NEW j \in Jobs, SubmitWithoutManifest(s, j) PROVE TypeOK'
    <3>1. PICK r \in EvictedRows(s), m \in EvictedMem(s) :
              Save(j, "error", [r EXCEPT ![j] = "running"]) /\ mem' = m
        BY <2>5 DEF SubmitWithoutManifest
    <3> DEFINE admitted == [r EXCEPT ![j] = "running"]
    <3>2. admitted \in [Jobs -> Statuses] /\ m \in [Jobs -> Statuses]
        BY <2>0, RowsAfterSweep, MemAfterSweep DEF TypeOK
    <3>3. \/ row' = [admitted EXCEPT ![j] = "error"] /\ UNCHANGED failedSaves
          \/ /\ failedSaves < MaxFailedSaves
             /\ row' = admitted /\ failedSaves' = failedSaves + 1
        BY <3>1 DEF Save
    <3> HIDE DEF admitted
    <3>4. row' \in [Jobs -> Statuses] /\ failedSaves' \in 0..MaxFailedSaves
        BY <2>0, <3>2, <3>3 DEF TypeOK, JobAssumption
    <3>5. finished' \in [Jobs -> Nat]
        BY <2>0, <2>5, RecoveredFinishType DEF SubmitWithoutManifest
    <3> QED BY <2>5, <3>1, <3>2, <3>4, <3>5 DEF SubmitWithoutManifest, TypeOK
  <2>6. ASSUME NEW s \in Servers, NEW j \in Jobs, Cancel(s, j) PROVE TypeOK'
    <3>1. PICK r \in EvictedRows(s), m \in EvictedMem(s) :
              mem' = [m EXCEPT ![j] = "cancelling"] /\ Save(j, "cancelling", r)
        BY <2>6 DEF Cancel
    <3>2. r \in [Jobs -> Statuses] /\ m \in [Jobs -> Statuses]
        BY RowsAfterSweep, MemAfterSweep DEF TypeOK
    <3>3. row' \in [Jobs -> Statuses] /\ failedSaves' \in 0..MaxFailedSaves
        BY <2>0, <3>1, <3>2, SaveType
    <3> QED BY <2>0, <2>6, <3>1, <3>2, <3>3, RecoveredFinishType DEF Cancel, TypeOK
  <2>7. ASSUME NEW j \in Jobs, NEW status \in Statuses, End(j, status) PROVE TypeOK'
    <3>1. row' \in [Jobs -> Statuses] /\ failedSaves' \in 0..MaxFailedSaves
        BY <2>7, SaveType DEF End, TypeOK
    <3> QED BY <2>0, <2>7, <3>1 DEF End, TypeOK
  <2>8. ASSUME NEW j \in Jobs, Begin(j) \/ Finish(j) \/ EndUnstarted(j) \/ Age(j) PROVE TypeOK'
    <3>1. CASE Begin(j)
        BY <3>1 DEF Begin, TypeOK
    <3>2. CASE Finish(j)
        BY <2>0, <2>7, <3>2 DEF Finish
    <3>3. CASE EndUnstarted(j)
        BY <2>0, <2>7, <3>3 DEF EndUnstarted
    <3>4. CASE Age(j)
        BY <3>4 DEF Age, TypeOK
    <3> QED BY <2>8, <3>1, <3>2, <3>3, <3>4
  <2>9. CASE UNCHANGED vars
      BY <2>9 DEF vars, TypeOK
  <2> QED BY <2>1, <2>2, <2>3, <2>4, <2>5, <2>6, <2>8, <2>9 DEF Next
<1> QED BY <1>1, <1>2, PTL DEF Spec

-----------------------------------------------------------------------------
(***************************************************************************)
(* The admission cap and recovery                                          *)
(***************************************************************************)

\* Only a living server works on a job, and only a server that has started has rows.
OwnersLive ==
    /\ \A j \in Active : Up(OwnerOf[j])
    /\ \A j \in Jobs : row[j] # "none" => life[OwnerOf[j]] # "new"

\* Before a job's task exists there is nothing of it anywhere.
NothingBeforeTheTask == \A j \in Jobs : task[j] = "none" => row[j] = "none" /\ mem[j] = "none"

\* As long as every save commits, a job that is over in its registry is over in its row.
RowsFollowRegistries ==
    failedSaves = 0 => \A j \in Jobs : mem[j] \in Terminal => row[j] \in Terminal \union {"none"}

JobInv ==
    /\ TypeOK
    /\ OwnersLive /\ NothingBeforeTheTask /\ RowsFollowRegistries
    /\ LiveWorkWithinCap /\ NoFalseInterruption

\* What the handlers find after eviction, recovery and pruning: rows r and registries m
\* in which every live task is as it was.
Swept(r, m) ==
    /\ r \in [Jobs -> Statuses] /\ m \in [Jobs -> Statuses]
    /\ \A j \in Active : r[j] = row[j] /\ m[j] = mem[j]
    /\ \A j \in Jobs : r[j] = "none" \/ row[j] # "none"
    /\ \A j \in Jobs : m[j] = "none" \/ m[j] = mem[j]
    /\ \A j \in Jobs : r[j] = "interrupted" => life[OwnerOf[j]] = "dead"
    /\ \A j \in Jobs : row[j] \in Terminal \union {"none"} => r[j] \in Terminal \union {"none"}
    /\ RunningIn(r) \subseteq RunningIn(row)

\* Recovery cannot take a live task's row, nor eviction its entry.
LEMMA SweepSparesLiveTasks ==
    ASSUME JobAssumption, JobInv, NEW s \in Servers,
           NEW r \in EvictedRows(s), NEW m \in EvictedMem(s)
    PROVE  Swept(r, m)
<1>1. r \in [Jobs -> Statuses] /\ \A j \in Jobs : RowKept(s, j, r[j])
    BY RowsAfterSweep DEF JobInv, TypeOK
<1>2. m \in [Jobs -> Statuses] /\ \A j \in Jobs : Kept(mem[j], m[j])
    BY MemAfterSweep DEF JobInv, TypeOK
<1>3. \A j \in Lost(s) : row[j] \in Running /\ ~Up(OwnerOf[j])
    BY DEF Lost, RunningIn, Alive, JobAssumption
<1>4. \A j \in Lost(s) : life[OwnerOf[j]] = "dead"
  <2>1. \A j \in Lost(s) : j \in Jobs /\ row[j] # "none"
      BY <1>3 DEF Lost, RunningIn, Running
  <2> QED BY <1>3, <2>1 DEF JobInv, OwnersLive, TypeOK, Up, JobAssumption
<1>5. \A j \in Active : j \in Jobs /\ j \notin Lost(s) /\ row[j] \in Running /\ mem[j] \in Running
    BY <1>3 DEF JobInv, OwnersLive, LiveWorkWithinCap, NoFalseInterruption, Active
<1>6. Running \cap (Terminal \union {"none"}) = {} /\ "interrupted" \in Terminal
    BY DEF Running, Terminal
<1>7. \A j \in Active : r[j] = row[j] /\ m[j] = mem[j]
    BY <1>1, <1>2, <1>5, <1>6 DEF RowKept, Kept
<1>8. \A j \in Jobs : /\ r[j] = "none" \/ row[j] # "none"
                      /\ r[j] = "interrupted" => life[OwnerOf[j]] = "dead"
                      /\ row[j] \in Terminal \union {"none"} => r[j] \in Terminal \union {"none"}
                      /\ r[j] \in Running => row[j] \in Running
  <2> TAKE j \in Jobs
  <2>1. RowKept(s, j, r[j])
      BY <1>1
  <2>2. row[j] = "interrupted" => life[OwnerOf[j]] = "dead"
      BY DEF JobInv, NoFalseInterruption
  <2> QED BY <1>3, <1>4, <1>6, <2>1, <2>2 DEF RowKept, Kept, Running, Terminal
<1>9. \A j \in Jobs : m[j] = "none" \/ m[j] = mem[j]
    BY <1>2 DEF Kept
<1> QED BY <1>1, <1>2, <1>7, <1>8, <1>9 DEF Swept, RunningIn

\* A set of jobs within another, or within it and one job more, is no larger, or
\* larger by one at most.
LEMMA JobsCounted ==
    ASSUME JobAssumption, NEW S \in SUBSET Jobs, NEW T \in SUBSET Jobs
    PROVE  /\ Cardinality(S) \in Nat
           /\ T \subseteq S => Cardinality(T) <= Cardinality(S)
           /\ \A j \in Jobs : T \subseteq S \union {j} => Cardinality(T) <= Cardinality(S) + 1
<1>1. IsFiniteSet(S) /\ Cardinality(S) \in Nat
    BY FS_Subset, FS_CardinalityType DEF JobAssumption
<1>2. T \subseteq S => Cardinality(T) <= Cardinality(S)
    BY <1>1, FS_Subset
<1>3. ASSUME NEW j \in Jobs, T \subseteq S \union {j} PROVE Cardinality(T) <= Cardinality(S) + 1
  <2>1. IsFiniteSet(S \union {j}) /\ Cardinality(S \union {j}) <= Cardinality(S) + 1
    <3>1. IsFiniteSet(S \union {j})
        BY <1>1, FS_AddElement
    <3>2. Cardinality(S \union {j}) = IF j \in S THEN Cardinality(S) ELSE Cardinality(S) + 1
        BY <1>1, FS_AddElement, Zenon
    <3> QED BY <1>1, <3>1, <3>2
  <2>2. Cardinality(T) \in Nat /\ Cardinality(T) <= Cardinality(S \union {j})
      BY <1>3, <2>1, FS_Subset, FS_CardinalityType
  <2>3. Cardinality(S \union {j}) \in Nat
      BY <2>1, FS_CardinalityType
  <2> QED BY <1>1, <2>1, <2>2, <2>3
<1> QED BY <1>1, <1>2, <1>3

\* A task that starts working again, or a new job's, is the only reason for a running
\* row that was none before.
LEMMA CapSurvives ==
    ASSUME JobAssumption, JobInv, NEW r, RunningIn(r) \subseteq RunningIn(row), NEW j \in Jobs,
           \A i \in Jobs : row'[i] \in Running => r[i] \in Running \/ i = j,
           \/ r[j] \in Running
           \/ row'[j] \notin Running
           \/ Cardinality(RunningIn(r)) < MaxRunning
    PROVE  Cardinality(RunningIn(row')) <= MaxRunning
<1> DEFINE S == RunningIn(r)
           T == RunningIn(row')
<1>1. S \in SUBSET Jobs /\ T \in SUBSET Jobs /\ T \subseteq S \union {j}
    BY DEF RunningIn
<1>2. r[j] \in Running \/ row'[j] \notin Running => T \subseteq S
    BY DEF RunningIn
<1>3. RunningIn(row) \in SUBSET Jobs /\ S \subseteq RunningIn(row)
    BY DEF RunningIn
<1>4. Cardinality(RunningIn(row)) <= MaxRunning
    BY DEF JobInv, LiveWorkWithinCap
<1>5. Cardinality(S) < MaxRunning \/ T \subseteq S
    BY <1>2
<1> HIDE DEF S, T
<1>6. Cardinality(S) <= MaxRunning /\ Cardinality(S) \in Nat /\ Cardinality(T) \in Nat
    BY <1>1, <1>3, <1>4, JobsCounted DEF JobAssumption
<1>7. Cardinality(T) <= Cardinality(S) + 1 /\ (T \subseteq S => Cardinality(T) <= Cardinality(S))
    BY <1>1, JobsCounted
<1>8. Cardinality(T) <= MaxRunning
    BY <1>5, <1>6, <1>7 DEF JobAssumption
<1> QED BY <1>8 DEF T

\* No step of the program breaks the invariant.
LEMMA JobNext == ASSUME JobAssumption, JobInv, TypeOK', [Next]_vars PROVE JobInv'
<1> USE JobAssumption
<1> DEFINE Rest == OwnersLive /\ NothingBeforeTheTask /\ RowsFollowRegistries
                     /\ LiveWorkWithinCap /\ NoFalseInterruption
<1>0. /\ "running" \in Running /\ "cancelling" \in Running
      /\ {"done", "error", "cancelled", "interrupted"} \subseteq Terminal
      /\ \A x \in Running : x \notin Terminal
      /\ "none" \notin Running /\ "none" \notin Terminal
    BY DEF Running, Terminal
<1>i. /\ OwnersLive /\ NothingBeforeTheTask /\ RowsFollowRegistries
      /\ LiveWorkWithinCap /\ NoFalseInterruption /\ Active \subseteq Jobs
    BY DEF JobInv, Active
<1>1. ASSUME NEW s \in Servers, Poll(s) PROVE Rest'
  <2>1. PICK r \in EvictedRows(s), m \in EvictedMem(s) : row' = r /\ mem' = m
      BY <1>1 DEF Poll
  <2>2. Swept(r, m)
      BY SweepSparesLiveTasks
  <2>3. Active' = Active /\ UNCHANGED <<life, task, failedSaves>>
      BY <1>1 DEF Poll, Active
  <2>4. Cardinality(RunningIn(row')) <= MaxRunning
    <3>1. RunningIn(r) \in SUBSET Jobs /\ RunningIn(row) \in SUBSET Jobs
        BY DEF RunningIn
    <3> QED BY <2>1, <2>2, <3>1, JobsCounted DEF Swept, JobInv, LiveWorkWithinCap, JobAssumption
  <2>5. OwnersLive'
      BY <1>i, <2>1, <2>2, <2>3 DEF Swept, OwnersLive, Up
  <2>6. NothingBeforeTheTask'
      BY <1>i, <2>1, <2>2, <2>3 DEF Swept, NothingBeforeTheTask
  <2>7. RowsFollowRegistries'
      BY <1>0, <1>i, <2>1, <2>2, <2>3 DEF Swept, RowsFollowRegistries
  <2>8. LiveWorkWithinCap'
      BY <1>0, <1>i, <2>1, <2>2, <2>3, <2>4 DEF Swept, LiveWorkWithinCap
  <2>9. NoFalseInterruption'
      BY <1>0, <1>i, <2>1, <2>2, <2>3 DEF Swept, NoFalseInterruption
  <2> QED BY <2>5, <2>6, <2>7, <2>8, <2>9
<1>2. ASSUME NEW s \in Servers, Boot(s) PROVE Rest'
    BY <1>2 DEF Boot, JobInv, TypeOK, OwnersLive, NothingBeforeTheTask, RowsFollowRegistries,
                LiveWorkWithinCap, NoFalseInterruption, Active, Up
<1>3. ASSUME NEW s \in Servers, Crash(s) PROVE Rest'
  <2>1. \A j \in Active' : j \in Active /\ OwnerOf[j] # s /\ mem'[j] = mem[j]
      BY <1>3 DEF Crash, Active, JobInv, TypeOK
  <2>2. row' = row /\ failedSaves' = failedSaves
      BY <1>3 DEF Crash
  <2>3. \A j \in Jobs : mem'[j] = mem[j] \/ mem'[j] = "none"
      BY <1>3 DEF Crash, JobInv, TypeOK
  <2>4. \A j \in Jobs : task'[j] = "none" => task[j] = "none"
      BY <1>3 DEF Crash, JobInv, TypeOK
  <2>5. \A t \in Servers : life'[t] = IF t = s THEN "dead" ELSE life[t]
      BY <1>3 DEF Crash, JobInv, TypeOK
  <2>6. OwnersLive'
      BY <1>i, <2>1, <2>2, <2>5 DEF OwnersLive, Up, JobAssumption, Active
  <2>7. NothingBeforeTheTask'
      BY <1>i, <2>2, <2>3, <2>4 DEF NothingBeforeTheTask
  <2>8. RowsFollowRegistries'
      BY <1>0, <1>i, <2>2, <2>3 DEF RowsFollowRegistries
  <2>9. LiveWorkWithinCap'
      BY <1>i, <2>1, <2>2 DEF LiveWorkWithinCap, RunningIn
  <2>10. NoFalseInterruption'
      BY <1>i, <2>1, <2>2, <2>5 DEF NoFalseInterruption, JobAssumption
  <2> QED BY <2>6, <2>7, <2>8, <2>9, <2>10
<1>4. ASSUME NEW s \in Servers, NEW j \in Jobs, Submit(s, j) PROVE Rest'
  <2>1. PICK r \in EvictedRows(s), m \in EvictedMem(s) :
            /\ Admissible(s, r, m)
            /\ row' = [r EXCEPT ![j] = "running"] /\ mem' = [m EXCEPT ![j] = "running"]
      BY <1>4 DEF Submit
  <2>2. Swept(r, m)
      BY SweepSparesLiveTasks
  <2>3. /\ task' = [task EXCEPT ![j] = "scheduled"] /\ task[j] = "none"
        /\ UNCHANGED <<life, failedSaves>> /\ Up(s) /\ OwnerOf[j] = s
      BY <1>4 DEF Submit
  <2>4. Active' = Active \union {j} /\ j \notin Active
      BY <2>3 DEF Active, JobInv, TypeOK
  <2>5. /\ row'[j] = "running" /\ mem'[j] = "running" /\ task'[j] = "scheduled"
        /\ \A i \in Jobs \ {j} : row'[i] = r[i] /\ mem'[i] = m[i] /\ task'[i] = task[i]
      BY <2>1, <2>2, <2>3 DEF Swept, JobInv, TypeOK
  <2>6. Cardinality(RunningIn(row')) <= MaxRunning
    <3>1. Cardinality(RunningIn(r)) < MaxRunning
        BY <2>1 DEF Admissible
    <3>2. RunningIn(r) \subseteq RunningIn(row) /\ \A i \in Jobs : row'[i] \in Running => r[i] \in Running \/ i = j
        BY <2>2, <2>5 DEF Swept
    <3> QED BY <3>1, <3>2, CapSurvives
  <2>7. OwnersLive'
      BY <1>i, <2>2, <2>3, <2>4, <2>5 DEF Swept, OwnersLive, Up
  <2>8. NothingBeforeTheTask'
      BY <1>i, <2>2, <2>3, <2>4, <2>5 DEF Swept, NothingBeforeTheTask
  <2>9. RowsFollowRegistries'
      BY <1>0, <1>i, <2>2, <2>3, <2>4, <2>5 DEF Swept, RowsFollowRegistries
  <2>10. LiveWorkWithinCap'
      BY <1>0, <1>i, <2>2, <2>3, <2>4, <2>5, <2>6 DEF Swept, LiveWorkWithinCap
  <2>11. NoFalseInterruption'
      BY <1>0, <1>i, <2>2, <2>3, <2>4, <2>5 DEF Swept, NoFalseInterruption
  <2> QED BY <2>7, <2>8, <2>9, <2>10, <2>11
<1>5. ASSUME NEW s \in Servers, NEW j \in Jobs, SubmitWithoutManifest(s, j) PROVE Rest'
  <2>1. PICK r \in EvictedRows(s), m \in EvictedMem(s) :
            Admissible(s, r, m) /\ Save(j, "error", [r EXCEPT ![j] = "running"]) /\ mem' = m
      BY <1>5 DEF SubmitWithoutManifest
  <2>2. Swept(r, m)
      BY SweepSparesLiveTasks
  <2>3. /\ task' = [task EXCEPT ![j] = "ended"] /\ task[j] = "none"
        /\ UNCHANGED life /\ Up(s) /\ OwnerOf[j] = s
      BY <1>5 DEF SubmitWithoutManifest
  <2>4. Active' = Active /\ j \notin Active
      BY <2>3 DEF Active, JobInv, TypeOK
  <2>5. /\ row'[j] \in {"running", "error"}
        /\ failedSaves' = 0 => failedSaves = 0
        /\ \A i \in Jobs \ {j} : row'[i] = r[i] /\ task'[i] = task[i]
      BY <2>1, <2>2, <2>3 DEF Swept, Save, JobInv, TypeOK, JobAssumption
  <2>6. Cardinality(RunningIn(row')) <= MaxRunning
      BY <2>1, <2>2, <2>5, CapSurvives DEF Swept, Admissible
  <2>7. mem'[j] = "none" /\ task'[j] = "ended"
      BY <2>1, <2>2, <2>3 DEF Swept, JobInv, TypeOK, NothingBeforeTheTask
  <2>8. OwnersLive'
      BY <1>i, <2>1, <2>2, <2>3, <2>4, <2>5, <2>7 DEF Swept, OwnersLive, Up
  <2>9. NothingBeforeTheTask'
      BY <1>i, <2>1, <2>2, <2>3, <2>4, <2>5, <2>7 DEF Swept, NothingBeforeTheTask
  <2>10. RowsFollowRegistries'
      BY <1>0, <1>i, <2>1, <2>2, <2>3, <2>4, <2>5, <2>7 DEF Swept, RowsFollowRegistries
  <2>11. LiveWorkWithinCap'
      BY <1>0, <1>i, <2>1, <2>2, <2>3, <2>4, <2>5, <2>7, <2>6 DEF Swept, LiveWorkWithinCap
  <2>12. NoFalseInterruption'
      BY <1>0, <1>i, <2>1, <2>2, <2>3, <2>4, <2>5, <2>7 DEF Swept, NoFalseInterruption
  <2> QED BY <2>8, <2>9, <2>10, <2>11, <2>12
<1>6. ASSUME NEW s \in Servers, NEW j \in Jobs, Cancel(s, j) PROVE Rest'
  <2>1. PICK r \in EvictedRows(s), m \in EvictedMem(s) :
            mem' = [m EXCEPT ![j] = "cancelling"] /\ Save(j, "cancelling", r)
      BY <1>6 DEF Cancel
  <2>2. Swept(r, m)
      BY SweepSparesLiveTasks
  <2>3. UNCHANGED <<life, task>> /\ Active' = Active /\ j \in Active /\ task[j] # "none"
      BY <1>6 DEF Cancel, Active
  <2>4. r[j] = row[j] /\ row[j] \in Running
      BY <2>2, <2>3 DEF Swept, JobInv, LiveWorkWithinCap
  <2>5. /\ row'[j] \in Running /\ mem'[j] = "cancelling"
        /\ failedSaves' = 0 => failedSaves = 0
        /\ \A i \in Jobs \ {j} : row'[i] = r[i] /\ mem'[i] = m[i]
      BY <1>0, <2>1, <2>2, <2>4 DEF Swept, Save, JobInv, TypeOK, JobAssumption
  <2>6. Cardinality(RunningIn(row')) <= MaxRunning
      BY <2>2, <2>4, <2>5, CapSurvives DEF Swept
  <2>7. OwnersLive'
      BY <1>i, <2>2, <2>3, <2>4, <2>5 DEF Swept, OwnersLive, Up
  <2>8. NothingBeforeTheTask'
      BY <1>i, <2>2, <2>3, <2>4, <2>5 DEF Swept, NothingBeforeTheTask
  <2>9. RowsFollowRegistries'
      BY <1>0, <1>i, <2>2, <2>3, <2>4, <2>5 DEF Swept, RowsFollowRegistries
  <2>10. LiveWorkWithinCap'
      BY <1>0, <1>i, <2>2, <2>3, <2>4, <2>5, <2>6 DEF Swept, LiveWorkWithinCap
  <2>11. NoFalseInterruption'
      BY <1>0, <1>i, <2>2, <2>3, <2>4, <2>5 DEF Swept, NoFalseInterruption
  <2> QED BY <2>7, <2>8, <2>9, <2>10, <2>11
<1>7. ASSUME NEW j \in Jobs, NEW status \in Terminal \ {"interrupted"}, j \in Active, End(j, status)
      PROVE  Rest'
  <2>1. /\ task' = [task EXCEPT ![j] = "ended"] /\ mem' = [mem EXCEPT ![j] = status]
        /\ UNCHANGED life /\ Active' = Active \ {j}
      BY <1>7 DEF End, Active, JobInv, TypeOK
  <2>2. /\ row'[j] = status \/ (row'[j] = row[j] /\ failedSaves' # 0)
        /\ failedSaves' = 0 => failedSaves = 0
        /\ \A i \in Jobs \ {j} : row'[i] = row[i] /\ mem'[i] = mem[i] /\ task'[i] = task[i]
      BY <1>7, <2>1 DEF End, Save, JobInv, TypeOK, JobAssumption
  <2>3. row[j] \in Running /\ mem'[j] = status
      BY <1>7, <2>1 DEF JobInv, LiveWorkWithinCap, TypeOK
  <2>4. Cardinality(RunningIn(row')) <= MaxRunning
      BY <2>2, <2>3, CapSurvives
  <2> QED BY <1>0, <1>7, <2>1, <2>2, <2>3, <2>4
          DEF JobInv, TypeOK, OwnersLive, NothingBeforeTheTask, RowsFollowRegistries,
              LiveWorkWithinCap, NoFalseInterruption, Up, Active
<1>8. ASSUME NEW j \in Jobs, Begin(j) \/ Finish(j) \/ EndUnstarted(j) \/ Age(j) PROVE Rest'
  <2>1. CASE Begin(j)
    <3>1. Active' = Active
        BY <2>1 DEF Begin, Active, JobInv, TypeOK
    <3> QED BY <2>1, <3>1
            DEF Begin, JobInv, TypeOK, OwnersLive, NothingBeforeTheTask, RowsFollowRegistries,
                LiveWorkWithinCap, NoFalseInterruption, Up
  <2>2. CASE Finish(j)
      BY <1>0, <1>7, <2>2 DEF Finish, Active
  <2>3. CASE EndUnstarted(j)
      BY <1>0, <1>7, <2>3 DEF EndUnstarted, Active
  <2>4. CASE Age(j)
      BY <2>4 DEF Age, JobInv, TypeOK, OwnersLive, NothingBeforeTheTask, RowsFollowRegistries,
                  LiveWorkWithinCap, NoFalseInterruption, Up, Active
  <2> QED BY <1>8, <2>1, <2>2, <2>3, <2>4
<1>9. CASE UNCHANGED vars
    BY <1>9 DEF vars, JobInv, TypeOK, OwnersLive, NothingBeforeTheTask, RowsFollowRegistries,
                LiveWorkWithinCap, NoFalseInterruption, Up, Active
<1> QED BY <1>1, <1>2, <1>3, <1>4, <1>5, <1>6, <1>8, <1>9 DEF Next, JobInv

\* The invariant holds of every reachable state.
THEOREM JobInvariance == Spec => []JobInv
<1> USE JobAssumption
<1>1. Init => JobInv
  <2> SUFFICES ASSUME Init PROVE JobInv
      OBVIOUS
  <2>1. Active = {} /\ RunningIn(row) = {}
      BY DEF Init, Active, RunningIn, Running
  <2>2. Cardinality(RunningIn(row)) <= MaxRunning
      BY <2>1, FS_EmptySet DEF JobAssumption
  <2>3. TypeOK
      BY DEF Init, TypeOK, JobAssumption, Statuses
  <2> QED BY <2>1, <2>2, <2>3
          DEF Init, JobInv, OwnersLive, NothingBeforeTheTask, RowsFollowRegistries,
              LiveWorkWithinCap, NoFalseInterruption, Terminal
<1>2. JobInv /\ TypeOK' /\ [Next]_vars => JobInv'
    BY JobNext
<1> QED BY <1>1, <1>2, JobTypeOK, PTL DEF Spec

\* The admission cap bounds the live investigations of all server processes together
\* (admit_job's transaction counts the rows, and a live task always has a running one).
THEOREM CapBoundsLiveWork == Spec => []LiveWorkWithinCap
BY JobInvariance, PTL DEF JobInv

\* Neither recovery nor eviction ever takes a job away from a process that works on it.
THEOREM RecoveryTakesOnlyTheDead == Spec => []NoFalseInterruption
BY JobInvariance, PTL DEF JobInv

-----------------------------------------------------------------------------
(***************************************************************************)
(* What a client is told                                                   *)
(***************************************************************************)

\* A step that leaves an entry alone or evicts it, and does not set a settled row
\* running, does not revive a job reported as over.
LEMMA StaysOver ==
    ASSUME JobInv, NEW s \in Servers, NEW j \in Jobs, failedSaves = 0,
           Answer(s, j) \in Terminal,
           OwnerOf[j] = s => mem'[j] = "none" \/ mem'[j] = mem[j],
           row[j] \in Terminal \union {"none"} => row'[j] \in Terminal \union {"none"}
    PROVE  Answer(s, j)' \in Terminal \union {"none"}
<1>1. mem[j] \in Terminal => row[j] \in Terminal \union {"none"}
    BY DEF JobInv, RowsFollowRegistries
<1>2. CASE OwnerOf[j] = s /\ mem[j] # "none"
    BY <1>1, <1>2 DEF Answer
<1>3. CASE ~(OwnerOf[j] = s /\ mem[j] # "none")
    BY <1>3 DEF Answer
<1> QED BY <1>2, <1>3

\* A job with a live task, or with none yet, is not reported as over.
LEMMA BusyIsNotOver ==
    ASSUME JobInv, NEW s \in Servers, NEW j \in Jobs, j \in Active \/ task[j] = "none"
    PROVE  Answer(s, j) \notin Terminal
<1>1. \A x \in Running : x \notin Terminal
    BY DEF Running, Terminal
<1>2. "none" \notin Terminal
    BY DEF Terminal
<1> QED BY <1>1, <1>2
        DEF JobInv, NothingBeforeTheTask, LiveWorkWithinCap, NoFalseInterruption, Answer

\* As long as every save commits, a job reported as over is never reported as running
\* again, by any server that is asked.
THEOREM ReportedOverStaysOver == Spec => OverStaysOver
<1> USE JobAssumption
<1> DEFINE Told == \A s \in Servers, j \in Jobs :
                      failedSaves' = 0 /\ Up(s) /\ Up(s)' /\ Answer(s, j) \in Terminal =>
                          Answer(s, j)' \in Terminal \union {"none"}
<1>1. JobInv /\ TypeOK' /\ [Next]_vars => Told
  <2> SUFFICES ASSUME JobInv, TypeOK', [Next]_vars,
                      NEW s \in Servers, NEW j \in Jobs,
                      failedSaves' = 0, Up(s), Up(s)', Answer(s, j) \in Terminal
               PROVE  Answer(s, j)' \in Terminal \union {"none"}
      OBVIOUS
  <2>1. j \notin Active /\ task[j] # "none"
      BY BusyIsNotOver
  <2>2. ASSUME NEW t \in Servers, NEW i \in Jobs, i # j,
               NEW r \in EvictedRows(t), NEW m \in EvictedMem(t), failedSaves = 0,
               row'[j] = r[j], mem'[j] = m[j]
        PROVE  Answer(s, j)' \in Terminal \union {"none"}
    <3>1. Swept(r, m)
        BY SweepSparesLiveTasks
    <3> QED BY <2>2, <3>1, StaysOver DEF Swept
  <2>3. ASSUME NEW t \in Servers, Poll(t) PROVE Answer(s, j)' \in Terminal \union {"none"}
    <3>1. PICK r \in EvictedRows(t), m \in EvictedMem(t) : row' = r /\ mem' = m
        BY <2>3 DEF Poll
    <3>2. Swept(r, m) /\ failedSaves = 0
        BY <2>3, SweepSparesLiveTasks DEF Poll
    <3> QED BY <3>1, <3>2, StaysOver DEF Swept
  <2>4. ASSUME NEW t \in Servers, NEW i \in Jobs, Submit(t, i)
        PROVE  Answer(s, j)' \in Terminal \union {"none"}
    <3>1. PICK r \in EvictedRows(t), m \in EvictedMem(t) :
              row' = [r EXCEPT ![i] = "running"] /\ mem' = [m EXCEPT ![i] = "running"]
        BY <2>4 DEF Submit
    <3>2. i # j /\ failedSaves = 0
        BY <2>1, <2>4 DEF Submit
    <3>3. r \in [Jobs -> Statuses] /\ m \in [Jobs -> Statuses]
        BY RowsAfterSweep, MemAfterSweep DEF JobInv, TypeOK
    <3> QED BY <2>2, <3>1, <3>2, <3>3
  <2>5. ASSUME NEW t \in Servers, NEW i \in Jobs, SubmitWithoutManifest(t, i)
        PROVE  Answer(s, j)' \in Terminal \union {"none"}
    <3>1. PICK r \in EvictedRows(t), m \in EvictedMem(t) :
              Save(i, "error", [r EXCEPT ![i] = "running"]) /\ mem' = m
        BY <2>5 DEF SubmitWithoutManifest
    <3>2. i # j
        BY <2>1, <2>5 DEF SubmitWithoutManifest
    <3>3. r \in [Jobs -> Statuses] /\ m \in [Jobs -> Statuses]
        BY RowsAfterSweep, MemAfterSweep DEF JobInv, TypeOK
    <3>4. row'[j] = r[j] /\ failedSaves = 0
        BY <3>1, <3>2, <3>3 DEF Save, JobInv, TypeOK, JobAssumption
    <3> QED BY <2>2, <3>1, <3>2, <3>4
  <2>6. ASSUME NEW t \in Servers, NEW i \in Jobs, Cancel(t, i)
        PROVE  Answer(s, j)' \in Terminal \union {"none"}
    <3>1. PICK r \in EvictedRows(t), m \in EvictedMem(t) :
              mem' = [m EXCEPT ![i] = "cancelling"] /\ Save(i, "cancelling", r)
        BY <2>6 DEF Cancel
    <3>2. i # j
        BY <2>1, <2>6 DEF Cancel, Active
    <3>3. r \in [Jobs -> Statuses] /\ m \in [Jobs -> Statuses]
        BY RowsAfterSweep, MemAfterSweep DEF JobInv, TypeOK
    <3>4. row'[j] = r[j] /\ mem'[j] = m[j] /\ failedSaves = 0
        BY <3>1, <3>2, <3>3 DEF Save, JobInv, TypeOK, JobAssumption
    <3> QED BY <2>2, <3>2, <3>4
  <2>7. ASSUME NEW i \in Jobs, Finish(i) \/ EndUnstarted(i)
        PROVE  Answer(s, j)' \in Terminal \union {"none"}
    <3>1. PICK status \in Statuses : End(i, status) /\ i \in Active
        BY <2>7 DEF Finish, EndUnstarted, Active, Statuses, Terminal
    <3>2. i # j /\ row'[j] = row[j] /\ mem'[j] = mem[j] /\ failedSaves = 0
        BY <2>1, <3>1 DEF End, Save, JobInv, TypeOK, JobAssumption
    <3> QED BY <3>2, StaysOver
  <2>8. ASSUME NEW t \in Servers, Crash(t) PROVE Answer(s, j)' \in Terminal \union {"none"}
    <3>1. t # s /\ row' = row /\ failedSaves = 0
        BY <2>8 DEF Crash, Up, JobInv, TypeOK
    <3>2. mem'[j] = mem[j] \/ mem'[j] = "none"
        BY <2>8 DEF Crash
    <3> QED BY <3>1, <3>2, StaysOver
  <2>9. ASSUME UNCHANGED <<row, mem, failedSaves>>
        PROVE  Answer(s, j)' \in Terminal \union {"none"}
      BY <2>9 DEF Answer
  <2>10. (\E t \in Servers : Boot(t)) \/ (\E i \in Jobs : Begin(i) \/ Age(i)) \/ UNCHANGED vars
            => UNCHANGED <<row, mem, failedSaves>>
      BY DEF Boot, Begin, Age, vars
  <2> QED BY <2>3, <2>4, <2>5, <2>6, <2>7, <2>8, <2>9, <2>10 DEF Next
<1>2. Told => [Told]_vars
    OBVIOUS
<1>3. JobInv /\ JobInv' /\ [Next]_vars => [Told]_vars
    BY <1>1, <1>2 DEF JobInv
<1> QED BY <1>3, JobInvariance, PTL DEF Spec, OverStaysOver

-----------------------------------------------------------------------------
(***************************************************************************)
(* EngagementRun: the invariant                                            *)
(***************************************************************************)

\* An attempt that lives has a context key and a number.
AttemptLives == stage # "idle" => context \in Contexts /\ starts \in 1..MaxStarts

\* A sweep has a place in its worklist; a chain round's is not the first.
SweepPosition == pos >= 1 /\ (stage \in {"derived", "derived_review"} => rounds > 0)

\* Only the coverage drive has a leg under way, the one it stands at.
LegUnderWay == flying => stage = "coverage_drive" /\ pos \in DOMAIN Drive

Typed == EngagementTypeOK /\ AttemptLives /\ SweepPosition /\ LegUnderWay

\* No leg was sent before the coverage drive.
DriveBegins == stage \notin {"coverage_drive", "done"} => dispatched = 0

\* The legs a resumed drive would find in the checkpoint, and those it would not.
Saved == IF Readable(checkpoint) /\ checkpoint.state = found THEN checkpoint.legs ELSE {}
Unsaved == legs \ Saved

\* r legs were sent since the last checkpoint that was due, and no more than these are unsaved.
Since(q, r) ==
    /\ dispatched = q * Every + r
    /\ Cardinality(Unsaved) + (IF flying THEN 1 ELSE 0) <= r
SinceCheckpoint ==
    stage = "coverage_drive" /\ ~lossy => \E q \in Nat, r \in 0..Every : Since(q, r)

\* Row u is of an earlier attempt, and this one can read it.
EarlierRow(u) == Readable(journal[u]) /\ journal[u].attempt < starts

\* Rows are of attempts there have been; what this attempt can read of an earlier one
\* it resumes, and has taken once it has read the journal.
RowsOfAttempts == \A u \in Units : journal[u] # None => journal[u].attempt <= starts
Inherited ==
    \A u \in Units : ~blind /\ stage # "idle" /\ EarlierRow(u) =>
        resuming /\ (stage \notin {"discovery", "resume"} => completed[u] # None)

\* The deadlines of the worklist and of capture review leave the later phases their
\* share, but for the overruns so far.
DeadlinesLeave ==
    /\ stage = "worklist" =>
         /\ limit <= Investigation
         /\ (Investigation - limit) * SharesFrom(1) >= begun * SharesFrom(3)
         /\ LeftFor(3, 1)
    /\ stage = "capture_review" =>
         /\ reviewLimit <= Investigation
         /\ (Investigation - reviewLimit + (Slow - 1)) * SharesFrom(1) >= begun * SharesFrom(4)
         /\ LeftFor(4, 2)

-----------------------------------------------------------------------------
(***************************************************************************)
(* Types                                                                   *)
(***************************************************************************)

\* The element of a worklist at a place in it, and its unit.
LEMMA RankingType ==
    ASSUME Typed, Sweeping
    PROVE  Ranking[pos] \in Nodes /\ Unit(Ranking[pos]) \in Units
<1>1. Ranking \in Seq(Nodes)
    BY EngagementAssumption
<1>2. pos \in 1..Len(Ranking) /\ DOMAIN Ranking = 1..Len(Ranking)
    BY <1>1 DEF Sweeping, Typed, SweepPosition, EngagementTypeOK
<1>3. Ranking[pos] \in Nodes
    BY <1>1, <1>2
<1> QED BY <1>3, Zenon DEF Unit, Units

\* Work takes time.
LEMMA WorkType ==
    ASSUME now \in Nat, Work
    PROVE  now' \in Nat
<1>1. Slow \in Nat
    BY EngagementAssumption
<1> QED BY <1>1 DEF Work

\* A row written by this attempt has the type of a row.
LEMMA WriteType ==
    ASSUME Typed, stage # "idle", NEW u \in Units, NEW finding \in Findings, Write(u, finding)
    PROVE  journal' \in [Units -> Rows \union {None}]
<1>1. [context |-> context, intact |-> TRUE, finding |-> finding, attempt |-> starts] \in Rows
    BY DEF Typed, AttemptLives, Rows
<1> QED BY <1>1 DEF Write, Typed, EngagementTypeOK

\* A fault is one more of the faults there may be.
LEMMA FaultType == ASSUME Typed, Fault PROVE faults' \in 0..MaxFaults
    BY EngagementAssumption DEF Fault, Typed, EngagementTypeOK

LEMMA PutType ==
    ASSUME Typed, stage # "idle",
           NEW u \in Units, NEW finding \in Findings, Put(u, finding)
    PROVE  journal' \in [Units -> Rows \union {None}] /\ faults' \in 0..MaxFaults
<1>1. CASE Write(u, finding) /\ UNCHANGED faults
    BY <1>1, WriteType DEF Typed, EngagementTypeOK
<1>2. CASE Fault /\ UNCHANGED journal
    BY <1>2, FaultType DEF Typed, EngagementTypeOK
<1> QED BY <1>1, <1>2 DEF Put

\* A folded finding is a finding.
LEMMA FoldType ==
    ASSUME Typed, NEW i, NEW finding \in Findings, Fold(i, finding)
    PROVE  found' \in [Items -> Findings]
BY DEF Fold, Typed, EngagementTypeOK

\* The shares of the phases from each on.
LEMMA ShareSums ==
    /\ SharesFrom(4) = Shares[4]
    /\ SharesFrom(3) = Shares[3] + SharesFrom(4)
    /\ SharesFrom(2) = Shares[2] + SharesFrom(3)
    /\ SharesFrom(1) = Shares[1] + SharesFrom(2)
    /\ SharesFrom(5) = 0
    /\ \A i \in 1..4 : Shares[i] \in Nat \ {0} /\ SharesFrom(i) \in Nat \ {0}
    /\ \A i \in 1..4 : SharesFrom(i) = Shares[i] + SharesFrom(i + 1)
<1> DEFINE Sums(s) == s = [j \in 1..5 |-> IF j = 5 THEN 0 ELSE Shares[j] + s[j + 1]]
           t == [j \in 1..5 |-> CASE j = 5 -> 0
                                  [] j = 4 -> Shares[4]
                                  [] j = 3 -> Shares[3] + Shares[4]
                                  [] j = 2 -> Shares[2] + (Shares[3] + Shares[4])
                                  [] j = 1 -> Shares[1] + (Shares[2] + (Shares[3] + Shares[4]))]
<1>1. \A i \in 1..4 : Shares[i] \in Nat \ {0}
    BY EngagementAssumption
<1>2. \A j \in 1..5 : t[j] = IF j = 5 THEN 0 ELSE Shares[j] + t[j + 1]
  <2>1. t[5] = 0 /\ t[4] = Shares[4] + t[5] /\ t[3] = Shares[3] + t[4] /\ t[2] = Shares[2] + t[3]
        /\ t[1] = Shares[1] + t[2]
      BY <1>1
  <2> HIDE DEF t
  <2> QED BY <2>1
<1>3. Sums(t)
  <2>1. t = [j \in 1..5 |-> t[j]]
      OBVIOUS
  <2> HIDE DEF t
  <2> QED BY <1>2, <2>1
<1> DEFINE s == CHOOSE s : Sums(s)
<1>4. Sums(s)
  <2> HIDE DEF Sums, t
  <2> QED BY <1>3
<1>5. \A i \in 1..5 : SharesFrom(i) = s[i]
    BY DEF SharesFrom
<1>6. s[5] = 0 /\ s[4] = Shares[4] + s[5] /\ s[3] = Shares[3] + s[4] /\ s[2] = Shares[2] + s[3]
      /\ s[1] = Shares[1] + s[2]
  <2> HIDE DEF s
  <2> QED BY <1>4
<1> HIDE DEF s, t
<1>7. /\ SharesFrom(5) = 0 /\ SharesFrom(4) = Shares[4] + SharesFrom(5)
      /\ SharesFrom(3) = Shares[3] + SharesFrom(4)
      /\ SharesFrom(2) = Shares[2] + SharesFrom(3)
      /\ SharesFrom(1) = Shares[1] + SharesFrom(2)
    BY <1>5, <1>6
<1>8. /\ SharesFrom(4) \in Nat \ {0} /\ SharesFrom(3) \in Nat \ {0}
      /\ SharesFrom(2) \in Nat \ {0} /\ SharesFrom(1) \in Nat \ {0}
    BY <1>1, <1>7
<1>9. ASSUME NEW i \in 1..4
      PROVE  SharesFrom(i) \in Nat \ {0} /\ SharesFrom(i) = Shares[i] + SharesFrom(i + 1)
  <2>1. CASE i = 1
      BY <1>7, <1>8, <2>1
  <2>2. CASE i = 2
      BY <1>7, <1>8, <2>2
  <2>3. CASE i = 3
      BY <1>7, <1>8, <2>3
  <2>4. CASE i = 4
      BY <1>7, <1>8, <2>4
  <2> QED BY <2>1, <2>2, <2>3, <2>4
<1>10. SharesFrom(4) = Shares[4]
    BY <1>1, <1>7
<1> QED BY <1>1, <1>7, <1>9, <1>10

\* Division rounds down.
LEMMA Quotient ==
    ASSUME NEW p \in Nat, NEW k \in Nat \ {0}
    PROVE  p \div k \in Nat /\ k * (p \div k) <= p
<1>1. p \div k \in Nat
    OBVIOUS
<1>2. k * (p \div k) <= p
    OBVIOUS
<1> QED BY <1>1, <1>2

\* What a deadline leaves: it is within the investigation, and the phases after phase i
\* keep their shares of what was left when it began.
LEMMA ShareLeft ==
    ASSUME NEW i \in 1..4, NEW t \in Nat
    PROVE  /\ DeadlineFor(i, t) \in Nat /\ DeadlineFor(i, t) <= Investigation
           /\ (Investigation - DeadlineFor(i, t)) * SharesFrom(i) >= Remaining(t) * SharesFrom(i + 1)
<1> DEFINE d == DeadlineFor(i, t)
           R == Remaining(t)
           S == SharesFrom(i)
           N == SharesFrom(i + 1)
           x == (R * Shares[i]) \div S
<1>1. S \in Nat \ {0} /\ Shares[i] \in Nat \ {0} /\ S = Shares[i] + N /\ N \in Nat
  <2>1. S \in Nat \ {0} /\ Shares[i] \in Nat \ {0} /\ S = Shares[i] + N
      BY ShareSums
  <2>2. CASE i = 4
      BY <2>2, ShareSums
  <2>3. CASE i # 4
    <3>1. i + 1 \in 1..4
        BY <2>3
    <3> QED BY <3>1, ShareSums
  <2> QED BY <2>1, <2>2, <2>3
<1>2. R \in Nat /\ Investigation \in Nat /\ (t < Investigation => R = Investigation - t)
      /\ (t >= Investigation => R = 0)
    BY EngagementAssumption DEF Remaining
<1>3. R * Shares[i] \in Nat
    BY <1>1, <1>2
<1>4. x \in Nat /\ S * x <= R * Shares[i]
  <2> DEFINE p == R * Shares[i]
  <2>1. p \in Nat /\ S \in Nat \ {0}
      BY <1>1, <1>3
  <2> HIDE DEF p, S
  <2>2. p \div S \in Nat /\ S * (p \div S) <= p
      BY <2>1, Quotient
  <2> QED BY <2>2 DEF p
<1>5. d \in Nat /\ d <= Investigation /\ d <= t + x
    BY <1>2, <1>4 DEF DeadlineFor, Slice, Earlier
<1> HIDE DEF d, R, S, N, x
<1>6. CASE t >= Investigation
  <2>1. R * N = 0
      BY <1>1, <1>2, <1>6
  <2>2. (Investigation - d) * S >= 0
      BY <1>1, <1>2, <1>5
  <2> QED BY <1>5, <2>1, <2>2 DEF d, R, S, N
<1>7. CASE t < Investigation
  <2>1. Investigation - d \in Int /\ R - x \in Int /\ Investigation - d >= R - x
      BY <1>2, <1>4, <1>5, <1>7
  <2>2. (Investigation - d) * S >= (R - x) * S
      BY <1>1, <2>1
  <2>3. (R - x) * S = R * S - S * x
      BY <1>1, <1>2, <1>4
  <2>4. R * S = R * Shares[i] + R * N
      BY <1>1, <1>2
  <2>5. /\ R * S \in Int /\ S * x \in Int /\ R * N \in Int /\ (R - x) * S \in Int
        /\ (Investigation - d) * S \in Int
    <3>1. R \in Int /\ S \in Int /\ N \in Int /\ x \in Int /\ R - x \in Int /\ Investigation - d \in Int
        BY <1>1, <1>2, <1>4, <1>5
    <3>2. \A a, b \in Int : a * b \in Int
        OBVIOUS
    <3> QED BY <3>1, <3>2
  <2>6. (Investigation - d) * S >= R * N
    <3> DEFINE a == (R - x) * S   b == R * S   c == S * x   e == R * Shares[i]   f == R * N
               g == (Investigation - d) * S
    <3>1. g >= a /\ a = b - c /\ b = e + f /\ c <= e /\ {a, b, c, e, f, g} \subseteq Int
        BY <1>3, <1>4, <2>2, <2>3, <2>4, <2>5
    <3> HIDE DEF a, b, c, e, f, g
    <3>2. g >= f
        BY <3>1
    <3> QED BY <3>2 DEF f, g
  <2> QED BY <1>5, <2>6 DEF d, R, S, N
<1> QED BY <1>2, <1>6, <1>7

\* An attempt starts.
LEMMA StartTyped ==
    ASSUME Typed, NEW k \in Contexts, Start(k)
    PROVE  Typed'
<1>1. /\ stage' = "discovery" /\ starts' \in 1..MaxStarts /\ context' \in Contexts
      /\ UNCHANGED <<pos, rounds>>
    BY EngagementAssumption DEF Start, Typed, EngagementTypeOK, sweep
<1>2. resuming' \in BOOLEAN /\ blind' \in BOOLEAN
    BY DEF Start, Typed, EngagementTypeOK, HasAny
<1>3. faults' \in 0..MaxFaults
    BY FaultType DEF Start, Typed, EngagementTypeOK
<1>4. UNCHANGED <<pos, completed, clock, sweep, found, drive, journal, checkpoint, proofs>>
    BY DEF Start
<1>5. EngagementTypeOK'
    BY <1>1, <1>2, <1>3, <1>4 DEF Typed, EngagementTypeOK, Stages, clock, sweep, drive
<1> QED BY <1>1, <1>4, <1>5 DEF Start, Typed, AttemptLives, SweepPosition, LegUnderWay, drive

LEMMA DiscoverTyped ==
    ASSUME Typed, Discover
    PROVE  Typed'
<1>1. /\ stage = "discovery" /\ stage' = "resume"
      /\ UNCHANGED <<pos, starts, context, resuming, completed, limit, reviewLimit, begun,
                     sweep, found, drive, checkpoint, proofs>>
    BY DEF Discover
<1>2. now' \in Nat
  <2>1. now' = now \/ Work
      BY DEF Discover
  <2> QED BY <2>1, WorkType DEF Typed, EngagementTypeOK
<1>3. blind' \in BOOLEAN
    BY DEF Discover, Typed, EngagementTypeOK
<1>4. journal' \in [Units -> Rows \union {None}] /\ faults' \in 0..MaxFaults
  <2>1. <<"discovery">> \in Units /\ "none" \in Findings
      BY DEF Units, Findings
  <2> QED BY <1>1, <2>1, WriteType, PutType, FaultType DEF Discover, Typed, EngagementTypeOK
<1>5. EngagementTypeOK'
    BY <1>1, <1>2, <1>3, <1>4 DEF Typed, EngagementTypeOK, Stages, sweep, drive
<1> QED BY <1>1, <1>5 DEF Typed, AttemptLives, SweepPosition, LegUnderWay, sweep, drive

LEMMA TakeUnitsTyped ==
    ASSUME Typed, TakeUnits
    PROVE  Typed'
<1>1. /\ stage = "resume" /\ stage' = "worklist"
      /\ UNCHANGED <<pos, starts, context, resuming, now, reviewLimit, sweep, found, drive,
                     journal, checkpoint, proofs>>
    BY DEF TakeUnits
<1>2. limit' \in Nat /\ begun' \in 0..Investigation
  <2>1. now \in Nat /\ 1 \in 1..4
      BY DEF Typed, EngagementTypeOK
  <2>2. DeadlineFor(1, now) \in Nat
      BY <2>1, ShareLeft
  <2>3. Remaining(now) \in 0..Investigation
      BY <2>1, EngagementAssumption DEF Remaining
  <2> QED BY <2>2, <2>3 DEF TakeUnits
<1>3. blind' \in BOOLEAN
    BY DEF TakeUnits, Typed, EngagementTypeOK
<1>4. faults' \in 0..MaxFaults
    BY FaultType DEF TakeUnits, Typed, EngagementTypeOK
<1>5. completed' \in [Units -> Findings \union {None}]
  <2>1. ASSUME NEW u \in Units PROVE Resumed(u) \in Findings \union {None}
    <3>1. journal[u] \in Rows \union {None}
        BY DEF Typed, EngagementTypeOK
    <3>2. CASE ~(resuming /\ Readable(journal[u]))
        BY <3>2 DEF Resumed
    <3>3. CASE resuming /\ Readable(journal[u])
      <4>1. journal[u].finding \in Findings
          BY <3>1, <3>3 DEF Readable, Rows
      <4> QED BY <3>3, <4>1 DEF Resumed, Findings
    <3> QED BY <3>2, <3>3
  <2> QED BY <2>1 DEF TakeUnits, Typed, EngagementTypeOK
<1>6. EngagementTypeOK'
    BY <1>1, <1>2, <1>3, <1>4, <1>5 DEF Typed, EngagementTypeOK, Stages, sweep, drive
<1> QED BY <1>1, <1>6 DEF Typed, AttemptLives, SweepPosition, LegUnderWay, sweep, drive

\* One node of a worklist: skipped, resumed or investigated.
LEMMA NodeTyped ==
    ASSUME Typed, SkipNode \/ ResumeNode \/ InvestigateNode
    PROVE  Typed'
<1>1. Sweeping /\ stage \in {"worklist", "derived"}
    BY DEF SkipNode, ResumeNode, InvestigateNode, Sweeping
<1>2. Unit(Ranking[pos]) \in Units
    BY <1>1, RankingType
<1>3. /\ UNCHANGED <<stage, starts, context, resuming, completed, blind, limit, reviewLimit, begun,
                     rounds, seen, legs, dispatched, flying, lossy, checkpoint>>
    BY DEF SkipNode, ResumeNode, InvestigateNode, attempt, clock, sweep, drive, durable
<1>4. pos' = pos + 1 /\ count' \in Nat /\ pos' \in Nat
  <2>1. pos' = pos + 1 /\ (count' = count \/ count' = count + 1)
      BY DEF SkipNode, ResumeNode, InvestigateNode, sweep
  <2> QED BY <2>1 DEF Typed, EngagementTypeOK
<1>5. now' \in Nat
  <2>1. now' = now \/ Work
      BY DEF SkipNode, ResumeNode, InvestigateNode, clock
  <2> QED BY <2>1, WorkType DEF Typed, EngagementTypeOK
<1>6. found' \in [Items -> Findings]
  <2>1. CASE SkipNode
      BY <2>1 DEF SkipNode, Typed, EngagementTypeOK
  <2>2. CASE ResumeNode
    <3>1. Taken(Unit(Ranking[pos])) \in Findings
        BY <1>2, <2>2 DEF ResumeNode, Taken, Typed, EngagementTypeOK
    <3> QED BY <2>2, <3>1, FoldType DEF ResumeNode
  <2>3. CASE InvestigateNode
    <3>1. Outcomes \subseteq Findings
        BY EngagementAssumption
    <3> QED BY <2>3, <3>1, FoldType DEF InvestigateNode
  <2> QED BY <2>1, <2>2, <2>3
<1>7. /\ journal' \in [Units -> Rows \union {None}] /\ faults' \in 0..MaxFaults
      /\ proofs' \in SUBSET Units
  <2>1. CASE SkipNode \/ ResumeNode
      BY <2>1 DEF SkipNode, ResumeNode, durable, Typed, EngagementTypeOK
  <2>2. CASE InvestigateNode
    <3>1. PICK finding \in Outcomes :
            /\ Proving(Unit(Ranking[pos]), finding)
            /\ Put(Unit(Ranking[pos]), finding) \/ UNCHANGED <<journal, faults>>
        BY <2>2 DEF InvestigateNode
    <3>2. finding \in Findings
        BY EngagementAssumption
    <3>3. journal' \in [Units -> Rows \union {None}] /\ faults' \in 0..MaxFaults
        BY <1>1, <1>2, <3>1, <3>2, PutType DEF Typed, EngagementTypeOK
    <3>4. proofs' \in SUBSET Units
        BY <1>2, <3>1 DEF Proving, Typed, EngagementTypeOK
    <3> QED BY <3>3, <3>4
  <2> QED BY <2>1, <2>2
<1>8. EngagementTypeOK'
    BY <1>3, <1>4, <1>5, <1>6, <1>7 DEF Typed, EngagementTypeOK
<1> QED BY <1>1, <1>3, <1>4, <1>8 DEF Typed, AttemptLives, SweepPosition, LegUnderWay, EngagementTypeOK

\* One capture of a review: resumed, reviewed or seen before.
LEMMA CaptureTyped ==
    ASSUME Typed, NEW c \in Captures,
           ResumeCapture(c) \/ ReviewCapture(c) \/ PassSeenCapture
    PROVE  Typed'
<1>1. Reviewing /\ stage # "idle" /\ <<"review", c>> \in Units
    BY DEF ResumeCapture, ReviewCapture, PassSeenCapture, TakeCapture, Reviewing, Units
<1>2. /\ UNCHANGED <<stage, starts, context, resuming, completed, blind, limit, reviewLimit, begun,
                     rounds, legs, dispatched, flying, lossy, checkpoint>>
    BY DEF ResumeCapture, ReviewCapture, PassSeenCapture, attempt, clock, sweep, drive, durable
<1>3. pos' = pos + 1 /\ count' \in Nat /\ pos' \in Nat /\ seen' \in SUBSET Captures
  <2>1. /\ pos' = pos + 1 /\ (count' = count \/ count' = count + 1)
        /\ seen' = seen \/ seen' = seen \union {c}
      BY DEF ResumeCapture, ReviewCapture, PassSeenCapture, TakeCapture, sweep
  <2> QED BY <2>1 DEF Typed, EngagementTypeOK
<1>4. now' \in Nat
  <2>1. now' = now \/ Work
      BY DEF ResumeCapture, ReviewCapture, PassSeenCapture, clock
  <2> QED BY <2>1, WorkType DEF Typed, EngagementTypeOK
<1>5. /\ found' \in [Items -> Findings] /\ proofs' \in SUBSET Units
      /\ journal' \in [Units -> Rows \union {None}] /\ faults' \in 0..MaxFaults
  <2>1. CASE ResumeCapture(c)
    <3>1. Taken(<<"review", c>>) \in Findings
        BY <1>1, <2>1 DEF ResumeCapture, Taken, Typed, EngagementTypeOK
    <3>2. found' \in [Items -> Findings]
        BY <2>1, <3>1, FoldType DEF ResumeCapture
    <3> QED BY <2>1, <3>2 DEF ResumeCapture, durable, Typed, EngagementTypeOK
  <2>2. CASE ReviewCapture(c)
    <3>1. CASE UNCHANGED <<journal, faults, found, proofs>>
        BY <3>1 DEF Typed, EngagementTypeOK
    <3>2. CASE ~UNCHANGED <<journal, faults, found, proofs>>
      <4>1. PICK finding \in Outcomes :
              /\ Put(<<"review", c>>, finding)
              /\ Fold(c, finding) /\ Proving(<<"review", c>>, finding)
          BY <2>2, <3>2 DEF ReviewCapture
      <4>2. finding \in Findings
          BY EngagementAssumption
      <4>3. journal' \in [Units -> Rows \union {None}] /\ faults' \in 0..MaxFaults
          BY <1>1, <4>1, <4>2, PutType
      <4>4. proofs' \in SUBSET Units
          BY <1>1, <4>1 DEF Proving, Typed, EngagementTypeOK
      <4> QED BY <4>1, <4>2, <4>3, <4>4, FoldType
    <3> QED BY <3>1, <3>2
  <2>3. CASE PassSeenCapture
      BY <2>3 DEF PassSeenCapture, durable, Typed, EngagementTypeOK
  <2> QED BY <2>1, <2>2, <2>3
<1>6. EngagementTypeOK'
    BY <1>2, <1>3, <1>4, <1>5 DEF Typed, EngagementTypeOK
<1> QED BY <1>1, <1>2, <1>3, <1>6 DEF Typed, AttemptLives, SweepPosition, LegUnderWay, EngagementTypeOK, Reviewing

\* The ends of sweeps and reviews, and a chain round.
LEMMA PhaseTyped ==
    ASSUME Typed, EndSweep \/ EndReview \/ ChainRound
    PROVE  Typed'
<1>1. /\ stage \notin {"idle", "coverage_drive"}
      /\ stage' \in {"capture_review", "derived_review", "chain_rounds", "derived"}
      /\ UNCHANGED <<starts, context, resuming, completed, blind, begun, seen, found,
                     legs, dispatched, flying, lossy, journal, checkpoint, proofs, faults>>
    BY DEF EndSweep, EndReview, ChainRound, Reviewing, attempt, drive, durable
<1>2. pos' \in Nat /\ pos' >= 1 /\ count' \in Nat
    BY DEF EndSweep, EndReview, ChainRound, Typed, EngagementTypeOK, SweepPosition
<1>3. now' \in Nat
  <2>1. now' = now \/ Work
      BY DEF EndSweep, EndReview, ChainRound
  <2> QED BY <2>1, WorkType DEF Typed, EngagementTypeOK
<1>4. DeadlineFor(3, now) \in Nat /\ DeadlineFor(4, now) \in Nat
  <2>1. now \in Nat /\ 3 \in 1..4 /\ 4 \in 1..4
      BY DEF Typed, EngagementTypeOK
  <2> QED BY <2>1, ShareLeft
<1>5. limit' \in Nat
    BY <1>4 DEF EndSweep, EndReview, ChainRound, Typed, EngagementTypeOK
<1>6. reviewLimit' \in Nat
  <2>1. \/ reviewLimit' = reviewLimit
        \/ \E x \in {now + ReviewSeconds, Investigation} : reviewLimit' = Earlier(x, DeadlineFor(3, now))
      BY DEF EndSweep, EndReview, ChainRound
  <2>2. now + ReviewSeconds \in Nat /\ Investigation \in Nat /\ reviewLimit \in Nat
      BY EngagementAssumption DEF Typed, EngagementTypeOK
  <2> QED BY <1>4, <2>1, <2>2 DEF Earlier
<1>7. /\ rounds' \in 0..MaxChainRounds
      /\ stage' \in {"derived", "derived_review"} => rounds' > 0
  <2>1. MaxChainRounds \in Nat
      BY EngagementAssumption
  <2>2. CASE EndSweep \/ EndReview
      BY <2>2 DEF EndSweep, EndReview, Typed, EngagementTypeOK, SweepPosition
  <2>3. CASE ChainRound
      BY <2>1, <2>3 DEF ChainRound, Typed, EngagementTypeOK
  <2> QED BY <2>2, <2>3
<1>8. EngagementTypeOK'
    BY <1>1, <1>2, <1>3, <1>5, <1>6, <1>7 DEF Typed, EngagementTypeOK, Stages
<1> QED BY <1>1, <1>2, <1>7, <1>8 DEF Typed, AttemptLives, SweepPosition, LegUnderWay

\* The coverage drive begins, from a checkpoint or from nothing.
LEMMA BeginDriveTyped ==
    ASSUME Typed, BeginDrive
    PROVE  Typed'
<1>1. /\ stage = "chain_rounds" /\ stage' = "coverage_drive"
      /\ now' = 0 /\ limit' = 0 /\ reviewLimit' = 0 /\ begun' = 0 /\ rounds' = 0 /\ seen' = {}
      /\ UNCHANGED <<pos, starts, context, resuming, completed, count, found,
                     dispatched, flying, lossy, journal, checkpoint, proofs>>
    BY DEF BeginDrive
<1>2. legs' \in SUBSET Legs
  <2>1. Restored \in SUBSET Legs
      BY DEF Restored, Readable, Checkpoints, Typed, EngagementTypeOK
  <2> QED BY <2>1 DEF BeginDrive
<1>3. blind' \in BOOLEAN
    BY DEF BeginDrive, Typed, EngagementTypeOK
<1>4. faults' \in 0..MaxFaults
    BY FaultType DEF BeginDrive, Typed, EngagementTypeOK
<1>5. 0 \in 0..Investigation /\ 0 \in 0..MaxChainRounds
    BY EngagementAssumption
<1>6. EngagementTypeOK'
    BY <1>1, <1>2, <1>3, <1>4, <1>5 DEF Typed, EngagementTypeOK, Stages
<1> QED BY <1>1, <1>6 DEF Typed, AttemptLives, SweepPosition, LegUnderWay

\* A checkpoint is written, or the attempt has lost one.
LEMMA CheckpointType ==
    ASSUME Typed, stage # "idle", PutCheckpoint
    PROVE  checkpoint' \in Checkpoints \union {None} /\ faults' \in 0..MaxFaults /\ lossy' \in BOOLEAN
<1>1. [context |-> context, intact |-> TRUE, state |-> found, legs |-> legs] \in Checkpoints
    BY DEF Typed, AttemptLives, EngagementTypeOK, Checkpoints
<1>2. checkpoint' \in Checkpoints \union {None}
    BY <1>1 DEF PutCheckpoint, Typed, EngagementTypeOK
<1>3. faults' \in 0..MaxFaults
    BY FaultType DEF PutCheckpoint, Typed, EngagementTypeOK
<1>4. lossy' \in BOOLEAN
    BY Zenon DEF PutCheckpoint, Typed, EngagementTypeOK
<1> QED BY <1>2, <1>3, <1>4

\* A leg is sent and answered; the drive ends.
LEMMA DriveTyped ==
    ASSUME Typed,
           (\E i \in DOMAIN Drive : Dispatch(i)) \/ LegAnswers \/ EndDrive
    PROVE  Typed'
<1>1. /\ stage = "coverage_drive" /\ stage' \in {"coverage_drive", "done"}
      /\ UNCHANGED <<attempt, clock, sweep, found, journal, proofs>>
    BY DEF Dispatch, LegAnswers, EndDrive, durable, Typed, LegUnderWay
<1>2. pos \in Nat /\ DOMAIN Drive = 1..Len(Drive) /\ Len(Drive) \in Nat
    BY EngagementAssumption DEF Typed, EngagementTypeOK
<1>3. CASE \E i \in DOMAIN Drive : Dispatch(i)
  <2>1. PICK i \in DOMAIN Drive : Dispatch(i)
      BY <1>3
  <2>2. /\ flying' = TRUE /\ dispatched' = dispatched + 1 /\ pos' = i /\ UNCHANGED <<stage, legs>>
      BY <2>1 DEF Dispatch
  <2>3. checkpoint' \in Checkpoints \union {None} /\ faults' \in 0..MaxFaults /\ lossy' \in BOOLEAN
      BY <1>1, <2>1, CheckpointType DEF Dispatch, Typed, EngagementTypeOK
  <2>4. pos' \in Nat /\ pos' >= 1 /\ dispatched' \in Nat /\ flying' \in BOOLEAN
      BY <1>2, <2>2 DEF Typed, EngagementTypeOK
  <2>5. EngagementTypeOK'
      BY <1>1, <2>2, <2>3, <2>4 DEF Typed, EngagementTypeOK, attempt, clock, sweep
  <2> QED BY <1>1, <2>2, <2>4, <2>5 DEF Typed, AttemptLives, SweepPosition, LegUnderWay, attempt, clock, sweep
<1>4. CASE LegAnswers
  <2>1. /\ legs' \in {legs, legs \union {Drive[pos]}} /\ flying' = FALSE /\ pos' = pos + 1
        /\ UNCHANGED <<stage, dispatched, lossy, durable>>
      BY <1>4 DEF LegAnswers
  <2>2. legs' \in SUBSET Legs
      BY <1>4, <2>1 DEF LegAnswers, Legs, Typed, LegUnderWay, EngagementTypeOK
  <2>3. EngagementTypeOK'
    <3>1. pos' \in Nat
        BY <1>2, <2>1
    <3>2. flying' \in BOOLEAN
        BY <2>1, Zenon
    <3> QED BY <1>1, <2>1, <2>2, <3>1, <3>2 DEF Typed, EngagementTypeOK, attempt, clock, sweep, durable
  <2> QED BY <1>1, <1>2, <2>1, <2>3 DEF Typed, AttemptLives, SweepPosition, LegUnderWay, attempt, clock, sweep
<1>5. CASE EndDrive
  <2>1. /\ ~flying /\ stage' = "done" /\ UNCHANGED <<pos, legs, dispatched, flying>>
      BY <1>5 DEF EndDrive
  <2>2. checkpoint' \in Checkpoints \union {None} /\ faults' \in 0..MaxFaults /\ lossy' \in BOOLEAN
      BY <1>1, <1>5, CheckpointType DEF EndDrive
  <2>3. EngagementTypeOK'
      BY <1>1, <2>1, <2>2 DEF Typed, EngagementTypeOK, Stages, attempt, clock, sweep
  <2> QED BY <1>1, <2>1, <2>3 DEF Typed, AttemptLives, SweepPosition, LegUnderWay, attempt, clock, sweep
<1> QED BY <1>3, <1>4, <1>5

\* The process dies; a row or a checkpoint is damaged, a proof is lost.
LEMMA EnvironmentTyped ==
    ASSUME Typed, Die \/ Damage \/ LoseProof
    PROVE  Typed'
<1>1. CASE Die
  <2>1. 0 \in 0..Investigation /\ 0 \in 0..MaxChainRounds /\ Nothing \in [Items -> Findings]
      BY EngagementAssumption DEF Nothing, Findings
  <2>2. /\ stage' \in Stages /\ pos' = 1 /\ context' = None /\ resuming' \in BOOLEAN /\ blind' \in BOOLEAN
        /\ flying' = FALSE /\ lossy' \in BOOLEAN /\ stage' = "idle"
      BY <1>1, Zenon DEF Die, Stages
  <2>3. UNCHANGED <<starts, journal, checkpoint, proofs, faults>>
      BY <1>1 DEF Die, durable
  <2>4. /\ now' = 0 /\ limit' = 0 /\ reviewLimit' = 0 /\ begun' = 0 /\ rounds' = 0 /\ count' = 0
        /\ seen' = {} /\ found' = Nothing /\ legs' = {} /\ dispatched' = 0
        /\ completed' = [u \in Units |-> None]
      BY <1>1 DEF Die
  <2>5. EngagementTypeOK'
      BY <2>1, <2>2, <2>3, <2>4 DEF Typed, EngagementTypeOK
  <2> QED BY <2>2, <2>5 DEF AttemptLives, SweepPosition, LegUnderWay, Typed
<1>2. CASE Damage
  <2>1. faults' \in 0..MaxFaults
      BY <1>2, FaultType DEF Damage
  <2>2. /\ journal' \in [Units -> Rows \union {None}]
        /\ checkpoint' \in Checkpoints \union {None}
    <3>1. CASE journal' = journal
        BY <1>2, <3>1 DEF Damage, Checkpoints, Typed, EngagementTypeOK
    <3>2. CASE journal' # journal
      <4>1. PICK u \in Units : journal[u] # None /\ journal' = [journal EXCEPT ![u].intact = FALSE]
                               /\ UNCHANGED <<checkpoint, lossy>>
          BY <1>2, <3>2 DEF Damage
      <4>2. journal[u] \in Rows
          BY <4>1 DEF Typed, EngagementTypeOK
      <4>3. [journal[u] EXCEPT !.intact = FALSE] \in Rows
          BY <4>2 DEF Rows
      <4> QED BY <4>1, <4>3 DEF Typed, EngagementTypeOK
    <3> QED BY <3>1, <3>2
  <2>3. lossy' \in BOOLEAN
      BY <1>2, Zenon DEF Damage, Typed, EngagementTypeOK
  <2>4. UNCHANGED <<stage, pos, attempt, clock, sweep, found, legs, dispatched, flying, proofs>>
      BY <1>2 DEF Damage
  <2>5. EngagementTypeOK'
      BY <2>1, <2>2, <2>3, <2>4 DEF Typed, EngagementTypeOK, attempt, clock, sweep
  <2> QED BY <2>4, <2>5 DEF AttemptLives, SweepPosition, LegUnderWay, Typed, attempt, clock, sweep
<1>3. CASE LoseProof
  <2>1. faults' \in 0..MaxFaults /\ proofs' \in SUBSET Units
      BY <1>3, FaultType DEF LoseProof, Typed, EngagementTypeOK
  <2>2. UNCHANGED <<stage, pos, attempt, clock, sweep, found, drive, journal, checkpoint>>
      BY <1>3 DEF LoseProof
  <2>3. EngagementTypeOK'
      BY <2>1, <2>2 DEF Typed, EngagementTypeOK, attempt, clock, sweep, drive
  <2> QED BY <2>2, <2>3 DEF AttemptLives, SweepPosition, LegUnderWay, Typed, attempt, clock, sweep, drive
<1> QED BY <1>1, <1>2, <1>3

\* Every step keeps the types.
LEMMA NextTyped == ASSUME Typed, [EngagementNext]_engagementVars PROVE Typed'
<1>1. CASE UNCHANGED engagementVars
    BY <1>1 DEF engagementVars, attempt, clock, sweep, drive, durable, Typed, EngagementTypeOK,
                AttemptLives, SweepPosition, LegUnderWay
<1>2. CASE PassSeenCapture
  <2>1. Queue[pos] \in Captures
    <3>1. pos \in 1..Len(Queue)
        BY <1>2, EngagementAssumption DEF PassSeenCapture, Typed, SweepPosition, EngagementTypeOK,
           Queue
    <3> QED BY <3>1, EngagementAssumption DEF Queue, Captures
  <2> QED BY <1>2, <2>1, CaptureTyped
<1>3. CASE ~PassSeenCapture /\ EngagementNext
    BY <1>3, StartTyped, DiscoverTyped, TakeUnitsTyped, NodeTyped, CaptureTyped, PhaseTyped,
       BeginDriveTyped, DriveTyped, EnvironmentTyped DEF EngagementNext
<1> QED BY <1>1, <1>2, <1>3

-----------------------------------------------------------------------------
(***************************************************************************)
(* A resumed attempt                                                       *)
(***************************************************************************)

\* A row is well typed.
LEMMA RowType ==
    ASSUME Typed, NEW u \in Units, journal[u] # None
    PROVE  journal[u] \in Rows /\ journal[u].attempt \in Nat
<1>1. journal[u] \in Rows
    BY DEF Typed, EngagementTypeOK
<1>2. journal[u].attempt \in 1..MaxStarts
    BY <1>1 DEF Rows
<1> QED BY <1>1, <1>2

\* A start finds what there is to resume: it resumes, or is blind.
LEMMA StartInherits ==
    ASSUME Typed, RowsOfAttempts, NEW k \in Contexts, Start(k)
    PROVE  (RowsOfAttempts /\ Inherited)'
<1>1. /\ starts \in Nat /\ starts' = starts + 1 /\ stage' = "discovery" /\ context' = k /\ journal' = journal
      /\ ~blind' => resuming' = HasAny(k)
    BY DEF Start, Typed, EngagementTypeOK
<1>2. \A u \in Units : journal[u] # None => journal[u].attempt \in Nat
    BY RowType
<1>3. RowsOfAttempts'
    BY <1>1, <1>2 DEF RowsOfAttempts
<1>4. Inherited'
    BY <1>1, Zenon DEF Inherited, EarlierRow, Readable, HasAny
<1> QED BY <1>3, <1>4

\* What a step does to the rows, as far as resuming depends on it: a row is as before,
\* or damaged, or written by this attempt.
RowStep(u) ==
    \/ journal'[u] = journal[u]
    \/ journal[u] # None /\ journal'[u] = [journal[u] EXCEPT !.intact = FALSE]
    \/ journal'[u] = [context |-> context, intact |-> TRUE, finding |-> journal'[u].finding,
                      attempt |-> starts]

\* After such a step, a row there is was there before, or is of this attempt.
LEMMA RowStepKeeps ==
    ASSUME Typed, NEW u \in Units, RowStep(u), journal'[u] # None
    PROVE  \/ journal'[u].attempt = starts
           \/ /\ journal[u] # None
              /\ journal'[u].attempt = journal[u].attempt /\ journal'[u].context = journal[u].context
              /\ journal'[u].intact => journal[u].intact
<1>1. CASE journal'[u] = journal[u]
    BY <1>1
<1>2. CASE journal[u] # None /\ journal'[u] = [journal[u] EXCEPT !.intact = FALSE]
  <2>1. journal[u] \in Rows
      BY <1>2, RowType
  <2> QED BY <1>2, <2>1 DEF Rows
<1>3. CASE journal'[u] = [context |-> context, intact |-> TRUE, finding |-> journal'[u].finding,
                          attempt |-> starts]
    BY <1>3
<1> QED BY <1>1, <1>2, <1>3 DEF RowStep

\* Then what is inherited stays so, while the attempt goes on.
LEMMA InheritedFrom ==
    ASSUME Typed, RowsOfAttempts, Inherited,
           \A u \in Units : RowStep(u),
           UNCHANGED <<starts, context, resuming, completed>>, blind => blind',
           stage # "idle",
           stage' \in {"discovery", "resume"} \/ stage \notin {"discovery", "resume"}
    PROVE  (RowsOfAttempts /\ Inherited)'
<1>1. starts \in Nat
    BY DEF Typed, EngagementTypeOK
<1>3. ASSUME NEW u \in Units, journal'[u] # None PROVE journal'[u].attempt <= starts'
  <2>1. starts' = starts /\ RowStep(u)
      OBVIOUS
  <2>2. journal'[u].attempt = starts \/ journal'[u].attempt <= starts
      BY <1>3, <2>1, RowStepKeeps DEF RowsOfAttempts
  <2> QED BY <1>1, <2>1, <2>2
<1>4. ASSUME NEW u \in Units, EarlierRow(u)' PROVE EarlierRow(u)
  <2>1. journal'[u] # None /\ journal'[u].context = context /\ journal'[u].intact /\ journal'[u].attempt < starts
      BY <1>4 DEF EarlierRow, Readable
  <2>2. /\ journal[u] # None
        /\ journal'[u].attempt = journal[u].attempt /\ journal'[u].context = journal[u].context
        /\ journal'[u].intact => journal[u].intact
      BY <1>1, <2>1, RowStepKeeps
  <2> QED BY <2>1, <2>2 DEF EarlierRow, Readable
<1>5. RowsOfAttempts'
    BY <1>3 DEF RowsOfAttempts
<1>6. Inherited'
    BY <1>4, Zenon DEF Inherited
<1> QED BY <1>5, <1>6

\* The journal is read: what can be resumed is taken.
LEMMA TakeInherits ==
    ASSUME Typed, RowsOfAttempts, Inherited, TakeUnits
    PROVE  (RowsOfAttempts /\ Inherited)'
<1>1. /\ stage = "resume" /\ stage' = "worklist"
      /\ UNCHANGED <<starts, context, resuming, journal>>
      /\ blind' \/ (completed' = [u \in Units |-> Resumed(u)] /\ blind' = blind)
    BY DEF TakeUnits
<1>2. ASSUME NEW u \in Units, resuming, Readable(journal[u]) PROVE Resumed(u) # None
  <2>1. journal[u] \in Rows
      BY <1>2 DEF Typed, EngagementTypeOK, Readable
  <2>2. journal[u].finding \in Findings /\ None \notin Findings
      BY <2>1, EngagementAssumption DEF Rows
  <2> QED BY <1>2, <2>2 DEF Resumed, Findings
<1>3. RowsOfAttempts'
    BY <1>1 DEF RowsOfAttempts
<1>4. Inherited'
  <2> SUFFICES ASSUME NEW u \in Units, ~blind', EarlierRow(u)'
               PROVE  resuming' /\ completed'[u] # None
      BY Zenon DEF Inherited
  <2>1. EarlierRow(u) /\ Readable(journal[u]) /\ ~blind
      BY <1>1 DEF EarlierRow, Readable
  <2>2. resuming
      BY <1>1, <2>1 DEF Inherited
  <2> QED BY <1>1, <1>2, <2>1, <2>2
<1> QED BY <1>3, <1>4

\* A write of this attempt.
LEMMA PutRows ==
    ASSUME Typed, NEW v \in Units, NEW finding,
           Write(v, finding) \/ Put(v, finding) \/ UNCHANGED journal
    PROVE  \A u \in Units : RowStep(u)
<1> SUFFICES ASSUME NEW u \in Units PROVE RowStep(u)
    OBVIOUS
<1>1. CASE UNCHANGED journal
    BY <1>1 DEF RowStep
<1>2. CASE Write(v, finding)
  <2>1. CASE u = v
      BY <1>2, <2>1 DEF Write, RowStep, Typed, EngagementTypeOK
  <2>2. CASE u # v
      BY <1>2, <2>2 DEF Write, RowStep, Typed, EngagementTypeOK
  <2> QED BY <2>1, <2>2
<1> QED BY <1>1, <1>2 DEF Put

\* Every step keeps what an attempt inherits.
LEMMA NextInherits ==
    ASSUME Typed, RowsOfAttempts, Inherited, [EngagementNext]_engagementVars
    PROVE  (RowsOfAttempts /\ Inherited)'
<1>1. ASSUME NEW k \in Contexts, Start(k) PROVE (RowsOfAttempts /\ Inherited)'
    BY <1>1, StartInherits
<1>2. ASSUME Discover PROVE (RowsOfAttempts /\ Inherited)'
  <2>1. \A u \in Units : RowStep(u)
    <3>1. <<"discovery">> \in Units
        BY DEF Units
    <3>2. Write(<<"discovery">>, "none") \/ Put(<<"discovery">>, "none") \/ UNCHANGED journal
        BY <1>2 DEF Discover
    <3> QED BY <3>1, <3>2, PutRows
  <2>2. blind => blind'
      BY <1>2 DEF Discover
  <2>3. stage = "discovery" /\ stage' = "resume" /\ UNCHANGED <<starts, context, resuming, completed>>
      BY <1>2 DEF Discover
  <2> QED BY <2>1, <2>2, <2>3, InheritedFrom
<1>3. ASSUME TakeUnits PROVE (RowsOfAttempts /\ Inherited)'
    BY <1>3, TakeInherits
<1>4. ASSUME SkipNode \/ ResumeNode \/ InvestigateNode PROVE (RowsOfAttempts /\ Inherited)'
  <2>1. Sweeping /\ Unit(Ranking[pos]) \in Units
      BY <1>4, RankingType DEF SkipNode, ResumeNode, InvestigateNode, Sweeping
  <2>2. UNCHANGED journal \/ \E finding \in Outcomes : Put(Unit(Ranking[pos]), finding)
      BY <1>4 DEF SkipNode, ResumeNode, InvestigateNode, durable
  <2>3. \A u \in Units : RowStep(u)
      BY <2>1, <2>2, PutRows
  <2>4. UNCHANGED <<stage, starts, context, resuming, completed, blind>>
      BY <1>4 DEF SkipNode, ResumeNode, InvestigateNode, attempt
  <2> QED BY <2>1, <2>3, <2>4, InheritedFrom DEF Sweeping
<1>5. ASSUME NEW c \in Captures, ResumeCapture(c) \/ ReviewCapture(c)
      PROVE  (RowsOfAttempts /\ Inherited)'
  <2>1. Reviewing /\ <<"review", c>> \in Units
      BY <1>5 DEF ResumeCapture, ReviewCapture, TakeCapture, Units
  <2>2. UNCHANGED journal \/ \E finding \in Outcomes : Put(<<"review", c>>, finding)
      BY <1>5 DEF ResumeCapture, ReviewCapture, durable
  <2>3. \A u \in Units : RowStep(u)
      BY <2>1, <2>2, PutRows
  <2>4. UNCHANGED <<stage, starts, context, resuming, completed, blind>>
      BY <1>5 DEF ResumeCapture, ReviewCapture, attempt
  <2> QED BY <2>1, <2>3, <2>4, InheritedFrom DEF Reviewing
<1>6. ASSUME PassSeenCapture \/ EndSweep \/ EndReview \/ ChainRound \/ BeginDrive
             \/ (\E i \in DOMAIN Drive : Dispatch(i)) \/ LegAnswers \/ EndDrive \/ LoseProof
      PROVE  (RowsOfAttempts /\ Inherited)'
  <2>1. UNCHANGED <<starts, context, resuming, completed, journal>>
      BY <1>6 DEF PassSeenCapture, EndSweep, EndReview, ChainRound, BeginDrive, Dispatch, LegAnswers,
                  EndDrive, LoseProof, attempt, durable
  <2>2. blind => blind'
      BY <1>6 DEF PassSeenCapture, EndSweep, EndReview, ChainRound, BeginDrive, Dispatch, LegAnswers,
                  EndDrive, LoseProof, attempt
  <2>3. \/ stage' = stage
        \/ stage' \notin {"idle", "discovery", "resume"} /\ stage \notin {"idle", "discovery", "resume"}
      BY <1>6 DEF PassSeenCapture, EndSweep, EndReview, ChainRound, BeginDrive, Dispatch, LegAnswers,
                  EndDrive, LoseProof, Reviewing
  <2>4. RowsOfAttempts'
      BY <2>1 DEF RowsOfAttempts
  <2>5. Inherited'
      BY <2>1, <2>2, <2>3 DEF Inherited, EarlierRow, Readable
  <2> QED BY <2>4, <2>5
<1>7. ASSUME Die PROVE (RowsOfAttempts /\ Inherited)'
  <2>1. stage' = "idle" /\ UNCHANGED <<starts, journal>>
      BY <1>7 DEF Die, durable
  <2> QED BY <2>1 DEF RowsOfAttempts, Inherited
<1>8. ASSUME Damage PROVE (RowsOfAttempts /\ Inherited)'
  <2>1. UNCHANGED <<stage, starts, context, resuming, completed, blind>>
      BY <1>8 DEF Damage, attempt
  <2>2. \A u \in Units : RowStep(u)
    <3>1. CASE journal' = journal
        BY <3>1 DEF RowStep
    <3>2. CASE journal' # journal
      <4>1. PICK v \in Units : journal[v] # None /\ journal' = [journal EXCEPT ![v].intact = FALSE]
          BY <1>8, <3>2 DEF Damage
      <4> QED BY <4>1 DEF RowStep, Typed, EngagementTypeOK
    <3> QED BY <3>1, <3>2
  <2>3. CASE stage # "idle"
      BY <2>1, <2>2, <2>3, InheritedFrom
  <2>4. CASE stage = "idle"
    <3>1. Inherited'
        BY <2>1, <2>4 DEF Inherited
    <3>2. starts \in Nat
        BY DEF Typed, EngagementTypeOK
    <3>3. RowsOfAttempts'
      <4>1. ASSUME NEW u \in Units, journal'[u] # None PROVE journal'[u].attempt <= starts'
          BY <2>1, <2>2, <3>2, <4>1, RowStepKeeps DEF RowsOfAttempts
      <4> QED BY <4>1 DEF RowsOfAttempts
    <3> QED BY <3>1, <3>3
  <2> QED BY <2>3, <2>4
<1>9. CASE UNCHANGED engagementVars
    BY <1>9 DEF engagementVars, attempt, durable, RowsOfAttempts, Inherited, EarlierRow, Readable
<1> QED BY <1>1, <1>2, <1>3, <1>4, <1>5, <1>6, <1>7, <1>8, <1>9 DEF EngagementNext

\* A unit that this attempt inherited is not written by it.
LEMMA StepRunsNothingAgain ==
    ASSUME Typed, Inherited, [EngagementNext]_engagementVars,
           NEW u \in Units, ~blind', EarlierRow(u)
    PROVE  journal'[u] = journal[u] \/ ~journal'[u].intact
<1>1. Readable(journal[u])
    BY DEF EarlierRow
<1>2. CASE Discover
  <2>1. CASE u = <<"discovery">>
    <3>1. stage = "discovery" /\ (blind => blind')
        BY <1>2 DEF Discover
    <3>2. resuming
        BY <3>1 DEF Inherited
    <3> QED BY <1>1, <1>2, <2>1, <3>2 DEF Discover
  <2>2. CASE u # <<"discovery">>
      BY <1>2, <2>2 DEF Discover, Put, Write, Typed, EngagementTypeOK
  <2> QED BY <2>1, <2>2
<1>3. CASE InvestigateNode
  <2> DEFINE v == Unit(Ranking[pos])
  <2>1. /\ Sweeping /\ completed[v] = None /\ blind' = blind
        /\ (\E finding \in Outcomes : Put(v, finding)) \/ UNCHANGED journal
      BY <1>3 DEF InvestigateNode, Taken, attempt
  <2>2. completed[u] # None
      BY <2>1 DEF Inherited, Sweeping
  <2>3. u # v
      BY <2>1, <2>2
  <2> HIDE DEF v
  <2> QED BY <2>1, <2>3 DEF Put, Write, Typed, EngagementTypeOK
<1>4. CASE \E c \in Captures : ReviewCapture(c)
  <2>1. PICK c \in Captures : ReviewCapture(c)
      BY <1>4
  <2>2. /\ Reviewing /\ completed[<<"review", c>>] = None /\ blind' = blind
        /\ (\E finding \in Outcomes : Put(<<"review", c>>, finding)) \/ UNCHANGED journal
      BY <2>1 DEF ReviewCapture, TakeCapture, Taken, attempt
  <2>3. completed[u] # None
      BY <2>2 DEF Inherited, Reviewing
  <2>4. u # <<"review", c>>
      BY <2>2, <2>3
  <2> QED BY <2>2, <2>4 DEF Put, Write, Typed, EngagementTypeOK
<1>5. CASE Damage
  <2>1. CASE journal' = journal
      BY <2>1
  <2>2. CASE journal' # journal
    <3>1. PICK v \in Units : journal[v] # None /\ journal' = [journal EXCEPT ![v].intact = FALSE]
        BY <1>5, <2>2 DEF Damage
    <3>2. CASE u = v
      <4>1. journal[u] \in Rows
          BY <3>1, <3>2, RowType
      <4>2. journal'[u] = [journal[u] EXCEPT !.intact = FALSE]
          BY <3>1, <3>2 DEF Typed, EngagementTypeOK
      <4> QED BY <4>1, <4>2 DEF Rows
    <3>3. CASE u # v
        BY <3>1, <3>3 DEF Typed, EngagementTypeOK
    <3> QED BY <3>2, <3>3
  <2> QED BY <2>1, <2>2
<1>6. CASE ~(Discover \/ InvestigateNode \/ (\E c \in Captures : ReviewCapture(c)) \/ Damage)
  <2>1. UNCHANGED journal
      BY <1>6 DEF EngagementNext, engagementVars, Start, TakeUnits, SkipNode, ResumeNode, EndSweep,
                  ResumeCapture, PassSeenCapture, EndReview, ChainRound, BeginDrive, Dispatch,
                  LegAnswers, EndDrive, Die, LoseProof, durable
  <2> QED BY <2>1
<1> QED BY <1>2, <1>3, <1>4, <1>5, <1>6

-----------------------------------------------------------------------------
(***************************************************************************)
(* Checkpoints                                                             *)
(***************************************************************************)

\* Of a drive's legs, one more is at most one more unsaved.
LEMMA UnsavedCount ==
    ASSUME NEW A \in SUBSET Legs, NEW B \in SUBSET Legs, NEW x,
           B \subseteq A \union {x}
    PROVE  /\ Cardinality(A) \in Nat /\ Cardinality(B) \in Nat
           /\ Cardinality(B) <= Cardinality(A) + 1
           /\ B \subseteq A => Cardinality(B) <= Cardinality(A)
<1>1. IsFiniteSet(Legs)
  <2>1. Drive \in Seq(Legs)
      BY EngagementAssumption
  <2>2. Drive \in [DOMAIN Drive -> Legs] /\ DOMAIN Drive = 1..Len(Drive) /\ Len(Drive) \in Nat
      BY <2>1
  <2>3. Drive \in Surjection(DOMAIN Drive, Legs)
      BY <2>2 DEF Surjection, Legs
  <2>4. IsFiniteSet(DOMAIN Drive)
      BY <2>2, FS_Interval
  <2> QED BY <2>3, <2>4, FS_Surjection
<1>2. IsFiniteSet(A) /\ IsFiniteSet(B) /\ IsFiniteSet(A \union {x})
    BY <1>1, FS_Subset, FS_AddElement
<1>3. Cardinality(A) \in Nat /\ Cardinality(B) \in Nat /\ Cardinality(A \union {x}) <= Cardinality(A) + 1
  <2>1. CASE x \in A
    <3>1. A \union {x} = A
        BY <2>1
    <3>2. Cardinality(A) \in Nat /\ Cardinality(B) \in Nat
        BY <1>2, FS_CardinalityType
    <3>3. Cardinality(A \union {x}) = Cardinality(A)
        BY <3>1
    <3> QED BY <3>2, <3>3
  <2>2. CASE x \notin A
    <3>1. Cardinality(A \union {x}) = Cardinality(A) + 1
        BY <1>2, <2>2, FS_AddElement
    <3> QED BY <1>2, <3>1, FS_CardinalityType
  <2> QED BY <2>1, <2>2
<1>4. Cardinality(B) <= Cardinality(A \union {x}) /\ Cardinality(A \union {x}) \in Nat
    BY <1>2, FS_Subset, FS_CardinalityType
<1>5. B \subseteq A => Cardinality(B) <= Cardinality(A)
    BY <1>2, FS_Subset
<1> QED BY <1>3, <1>4, <1>5

\* A multiple leaves no remainder.
LEMMA Remainder == ASSUME NEW k \in Nat, NEW n \in Nat \ {0} PROVE (k * n) % n = 0
    OBVIOUS

\* When k * Every legs were sent, a checkpoint is due; when one is due, it is so.
LEMMA DueAtMultiples ==
    ASSUME dispatched \in Nat
    PROVE  /\ \A k \in Nat : dispatched = k * Every /\ dispatched > 0 => Due
           /\ Due => \E k \in Nat : dispatched = k * Every
<1>1. \A k \in Nat, n \in Nat \ {0} : (k * n) % n = 0
    BY Remainder
<1>2. ASSUME NEW d \in Nat, NEW n \in Nat \ {0}, d % n = 0 PROVE \E k \in Nat : d = k * n
  <2>1. d \div n \in Nat
      BY Quotient
  <2>2. d = n * (d \div n)
      BY <1>2
  <2>3. n * (d \div n) = (d \div n) * n
      BY <2>1
  <2> QED BY <2>1, <2>2, <2>3
<1>3. Every \in Nat \ {0}
    BY EngagementAssumption
<1> QED BY <1>1, <1>2, <1>3 DEF Due

\* A checkpoint that was written saves all there is.
LEMMA WrittenSavesAll ==
    ASSUME Typed, stage # "idle", PutCheckpoint, ~lossy',
           UNCHANGED <<context, found, legs>>
    PROVE  Unsaved' = {}
<1>1. CASE checkpoint' = [context |-> context, intact |-> TRUE, state |-> found, legs |-> legs]
  <2>1. checkpoint' \in Checkpoints
      BY <1>1 DEF Typed, AttemptLives, EngagementTypeOK, Checkpoints
  <2>2. checkpoint' # None
      BY <2>1, EngagementAssumption
  <2> QED BY <1>1, <2>2 DEF Unsaved, Saved, Readable
<1>2. CASE lossy' = TRUE
    BY <1>2
<1> QED BY <1>1, <1>2 DEF PutCheckpoint

\* The legs unsaved are legs.
LEMMA UnsavedType == ASSUME Typed PROVE Unsaved \in SUBSET Legs
    BY DEF Unsaved, Typed, EngagementTypeOK

\* The drive begins with nothing unsaved.
LEMMA BeginDriveSaves ==
    ASSUME Typed, DriveBegins, BeginDrive
    PROVE  SinceCheckpoint'
<1>1. /\ stage = "chain_rounds"
      /\ legs' = Restored \/ legs' = {}
      /\ UNCHANGED <<context, found, dispatched, flying, checkpoint>>
    BY DEF BeginDrive
<1>2. Unsaved' = {}
    BY <1>1 DEF Unsaved, Saved, Restored, Readable
<1>3. dispatched' = 0 /\ ~flying'
    BY <1>1 DEF DriveBegins, Typed, LegUnderWay
<1>4. Cardinality(Unsaved') = 0 /\ Every \in Nat
    BY <1>2, FS_EmptySet, EngagementAssumption
<1>5. Since(0, 0)' /\ 0 \in 0..Every
    BY <1>3, <1>4 DEF Since
<1> QED BY <1>5 DEF SinceCheckpoint

\* A leg is sent: one more since the checkpoint, or the first since the one that was due.
LEMMA DispatchSaves ==
    ASSUME Typed, SinceCheckpoint, NEW i \in DOMAIN Drive, Dispatch(i)
    PROVE  SinceCheckpoint'
<1> SUFFICES ASSUME ~lossy' PROVE \E q \in Nat, r \in 0..Every : Since(q, r)'
    BY DEF SinceCheckpoint
<1>1. /\ stage = "coverage_drive" /\ ~flying /\ flying' = TRUE /\ dispatched' = dispatched + 1
      /\ UNCHANGED <<context, found, legs>>
    BY DEF Dispatch, attempt
<1>2. Every \in Nat \ {0} /\ dispatched \in Nat
    BY EngagementAssumption DEF Typed, EngagementTypeOK
<1>3. CASE Due
  <2>1. Cardinality(Unsaved') = 0
    <3>1. Unsaved' = {}
        BY <1>1, <1>3, WrittenSavesAll DEF Dispatch
    <3> QED BY <3>1, FS_EmptySet
  <2>2. PICK k \in Nat : dispatched = k * Every
      BY <1>2, <1>3, DueAtMultiples
  <2>3. Since(k, 1)' /\ 1 \in 0..Every
      BY <1>1, <1>2, <2>1, <2>2 DEF Since
  <2> QED BY <2>3
<1>4. CASE ~Due
  <2>1. ~lossy /\ UNCHANGED checkpoint
      BY <1>4 DEF Dispatch
  <2>2. PICK q \in Nat, r \in 0..Every : Since(q, r)
      BY <1>1, <2>1 DEF SinceCheckpoint
  <2>3. q * Every \in Nat /\ (q + 1) * Every = q * Every + Every
      BY <1>2
  <2>4. r # Every
    <3> SUFFICES ASSUME r = Every PROVE FALSE
        OBVIOUS
    <3>1. dispatched = (q + 1) * Every /\ dispatched > 0 /\ q + 1 \in Nat
        BY <1>2, <2>2, <2>3 DEF Since
    <3> QED BY <1>2, <1>4, <3>1, DueAtMultiples
  <2>5. Cardinality(Unsaved') = Cardinality(Unsaved) /\ Cardinality(Unsaved) \in Nat
    <3>1. Unsaved' = Unsaved
        BY <1>1, <2>1 DEF Unsaved, Saved, Readable
    <3> QED BY <3>1, UnsavedType, UnsavedCount
  <2>6. Since(q, r + 1)' /\ r + 1 \in 0..Every
    <3>1. Cardinality(Unsaved) <= r /\ dispatched = q * Every + r
        BY <1>1, <2>2, <2>5 DEF Since
    <3> QED BY <1>1, <1>2, <2>3, <2>4, <2>5, <3>1 DEF Since
  <2> QED BY <2>6
<1> QED BY <1>3, <1>4

\* A leg is answered: it may be one more unsaved, and is no longer under way.
LEMMA AnswerSaves ==
    ASSUME Typed, SinceCheckpoint, LegAnswers
    PROVE  SinceCheckpoint'
<1> SUFFICES ASSUME ~lossy' PROVE \E q \in Nat, r \in 0..Every : Since(q, r)'
    BY DEF SinceCheckpoint
<1>1. /\ stage = "coverage_drive" /\ flying /\ flying' = FALSE
      /\ legs' \in {legs, legs \union {Drive[pos]}}
      /\ UNCHANGED <<lossy, context, found, dispatched, checkpoint>>
    BY DEF LegAnswers, attempt, durable, Typed, LegUnderWay
<1>2. PICK q \in Nat, r \in 0..Every : Since(q, r)
    BY <1>1 DEF SinceCheckpoint
<1>3. Unsaved' \subseteq Unsaved \union {Drive[pos]}
    BY <1>1 DEF Unsaved, Saved, Readable
<1>4. Unsaved \in SUBSET Legs /\ Unsaved' \in SUBSET Legs
  <2>1. Drive[pos] \in Legs
      BY <1>1 DEF Typed, LegUnderWay, Legs
  <2> QED BY <1>3, <2>1, UnsavedType
<1>5. /\ Cardinality(Unsaved) \in Nat /\ Cardinality(Unsaved') \in Nat
      /\ Cardinality(Unsaved') <= Cardinality(Unsaved) + 1
    BY <1>3, <1>4, UnsavedCount
<1>6. Since(q, r)'
    BY <1>1, <1>2, <1>5 DEF Since
<1> QED BY <1>6

\* Every step keeps what is unsaved within what was sent since the last checkpoint.
LEMMA NextSaves ==
    ASSUME Typed, DriveBegins, SinceCheckpoint,
           [EngagementNext]_engagementVars
    PROVE  (DriveBegins /\ SinceCheckpoint)'
<1>1. DriveBegins'
  <2>1. CASE \E i \in DOMAIN Drive : Dispatch(i)
      BY <2>1 DEF Dispatch, DriveBegins
  <2>2. CASE LegAnswers
      BY <2>2 DEF LegAnswers, DriveBegins
  <2>3. CASE ~(LegAnswers \/ \E i \in DOMAIN Drive : Dispatch(i))
    <3>1. dispatched' = dispatched \/ dispatched' = 0
        BY <2>3 DEF EngagementNext, engagementVars, Start, Discover, TakeUnits, SkipNode, ResumeNode,
              InvestigateNode, EndSweep, ResumeCapture, ReviewCapture, PassSeenCapture, EndReview,
              ChainRound, BeginDrive, EndDrive, Die, Damage, LoseProof, drive
    <3>2. stage \in {"coverage_drive", "done"} => stage' \in {"coverage_drive", "done"} \/ dispatched' = 0
        BY <2>3 DEF EngagementNext, engagementVars, Start, Discover, TakeUnits, SkipNode, ResumeNode,
              InvestigateNode, Sweeping, EndSweep, ResumeCapture, ReviewCapture, PassSeenCapture, EndReview,
              TakeCapture, Reviewing, ChainRound, BeginDrive, EndDrive, Die, Damage, LoseProof
    <3> QED BY <3>1, <3>2 DEF DriveBegins
  <2> QED BY <2>1, <2>2, <2>3
<1>2. SinceCheckpoint'
  <2>1. CASE BeginDrive
      BY <2>1, BeginDriveSaves
  <2>2. CASE (\E i \in DOMAIN Drive : Dispatch(i)) \/ LegAnswers
      BY <2>2, DispatchSaves, AnswerSaves
  <2>3. CASE ~(BeginDrive \/ LegAnswers \/ \E i \in DOMAIN Drive : Dispatch(i))
    <3>1. CASE stage' = "coverage_drive"
      <4>1. LoseProof \/ Damage \/ UNCHANGED engagementVars
          BY <2>3, <3>1 DEF EngagementNext, Start, Discover, TakeUnits, SkipNode, ResumeNode,
              InvestigateNode, Sweeping, EndSweep, ResumeCapture, ReviewCapture, PassSeenCapture, EndReview,
              TakeCapture, Reviewing, ChainRound, EndDrive, Die
      <4>2. UNCHANGED <<stage, context, found, legs, dispatched, flying>>
          BY <4>1 DEF LoseProof, Damage, engagementVars, attempt, drive
      <4>3. lossy' = TRUE \/ UNCHANGED <<lossy, checkpoint>>
          BY <4>1 DEF LoseProof, Damage, engagementVars, drive, durable
      <4> QED BY <4>2, <4>3 DEF SinceCheckpoint, Since, Unsaved, Saved, Readable
    <3>2. CASE stage' # "coverage_drive"
        BY <3>2 DEF SinceCheckpoint
    <3> QED BY <3>1, <3>2
  <2> QED BY <2>1, <2>2, <2>3
<1> QED BY <1>1, <1>2

-----------------------------------------------------------------------------
(***************************************************************************)
(* The shares of the phases                                                *)
(***************************************************************************)

\* Products of numbers: types and order.
LEMMA Products ==
    /\ \A a, b \in Int : a * b \in Int
    /\ \A a, b \in Int, k \in Nat : a >= b => a * k >= b * k
    /\ \A a, b \in Int, k \in Nat : a >= b => k * a >= k * b
<1>1. \A a, b \in Int : a * b \in Int
    OBVIOUS
<1>2. \A a, b \in Int, k \in Nat : a >= b => a * k >= b * k
    OBVIOUS
<1>3. \A a, b \in Int, k \in Nat : a >= b => k * a >= k * b
    OBVIOUS
<1> QED BY <1>1, <1>2, <1>3

\* Shares compose: what is left of R, of which s4 in s3 is kept, and of b, of which s3
\* in s1 was kept with an overrun o, is s4 in s1 of b with the same overrun.
LEMMA SharesCompose ==
    ASSUME NEW a \in Nat, NEW R \in Nat, NEW o \in Nat, NEW b \in Nat,
           NEW s1 \in Nat \ {0}, NEW s3 \in Nat \ {0}, NEW s4 \in Nat, s4 <= s3,
           a * s3 >= R * s4, (R + o) * s1 >= b * s3
    PROVE  (a + o) * s1 >= b * s4
<1> DEFINE x == (a + o) * s1
           y == b * s4
<1>1. x \in Int /\ y \in Int
    BY Products
<1>2. (a + o) * s3 >= (R + o) * s4
  <2>1. (a + o) * s3 = a * s3 + o * s3 /\ (R + o) * s4 = R * s4 + o * s4
      OBVIOUS
  <2>2. o * s3 >= o * s4
      BY Products
  <2>3. {a * s3, o * s3, R * s4, o * s4} \subseteq Int
      BY Products
  <2> QED BY <2>1, <2>2, <2>3
<1>3. ((a + o) * s3) * s1 >= ((R + o) * s4) * s1
  <2>1. (a + o) * s3 \in Int /\ (R + o) * s4 \in Int
      BY Products
  <2> QED BY <1>2, <2>1, Products
<1>4. ((R + o) * s1) * s4 >= (b * s3) * s4
  <2>1. (R + o) * s1 \in Int /\ b * s3 \in Int
      BY Products
  <2> QED BY <2>1, Products
<1>5. ((a + o) * s3) * s1 = x * s3 /\ ((R + o) * s4) * s1 = ((R + o) * s1) * s4 /\ (b * s3) * s4 = y * s3
    OBVIOUS
<1>6. x * s3 >= y * s3
  <2>1. x * s3 \in Int /\ y * s3 \in Int /\ ((R + o) * s1) * s4 \in Int
      BY <1>1, Products
  <2> HIDE DEF x, y
  <2> QED BY <1>3, <1>4, <1>5, <2>1
<1> HIDE DEF x, y
<1>7. ~(x < y)
  <2> SUFFICES ASSUME x < y PROVE FALSE
      OBVIOUS
  <2>1. y >= x + 1 /\ x + 1 \in Int
      BY <1>1
  <2>2. y * s3 >= (x + 1) * s3
      BY <1>1, <2>1, Products
  <2>3. (x + 1) * s3 = x * s3 + s3
      BY <1>1
  <2>4. x * s3 \in Int /\ y * s3 \in Int
      BY <1>1, Products
  <2> QED BY <1>6, <2>2, <2>3, <2>4
<1> QED BY <1>1, <1>7 DEF x, y

\* The later a phase, the smaller the share of it and those behind it.
LEMMA SharesShrink ==
    /\ SharesFrom(2) \in Nat \ {0} /\ SharesFrom(2) <= SharesFrom(1) /\ SharesFrom(3) <= SharesFrom(2)
    /\ SharesFrom(1) \in Nat \ {0} /\ SharesFrom(3) \in Nat \ {0} /\ SharesFrom(4) \in Nat \ {0}
    /\ SharesFrom(3) <= SharesFrom(1) /\ SharesFrom(4) <= SharesFrom(3)
<1>1. /\ Shares[1] \in Nat /\ Shares[2] \in Nat /\ Shares[3] \in Nat
      /\ SharesFrom(1) \in Nat \ {0} /\ SharesFrom(2) \in Nat \ {0}
      /\ SharesFrom(3) \in Nat \ {0} /\ SharesFrom(4) \in Nat \ {0}
  <2>1. \A i \in 1..4 : Shares[i] \in Nat \ {0} /\ SharesFrom(i) \in Nat \ {0}
      BY ShareSums
  <2> QED BY <2>1
<1>2. /\ SharesFrom(3) = Shares[3] + SharesFrom(4) /\ SharesFrom(2) = Shares[2] + SharesFrom(3)
      /\ SharesFrom(1) = Shares[1] + SharesFrom(2)
    BY ShareSums
<1> QED BY <1>1, <1>2

\* The time left is a number, and what is left after a unit of work that was started
\* before deadline l.
LEMMA RemainingType ==
    ASSUME NEW t \in Nat
    PROVE  Remaining(t) \in Nat /\ Remaining(t) >= Investigation - t
BY EngagementAssumption DEF Remaining

LEMMA WorkLeaves ==
    ASSUME now \in Nat, NEW l \in Nat, ~OutOfTime(l), Work
    PROVE  /\ now' \in Nat /\ Remaining(now') \in Nat
           /\ Remaining(now') + (Slow - 1) >= Investigation - l
<1>1. now < l /\ now' \in Nat /\ now' <= now + Slow /\ Slow \in Nat \ {0} /\ Investigation \in Nat
    BY EngagementAssumption DEF OutOfTime, Work
<1>2. Remaining(now') \in Nat /\ Remaining(now') >= Investigation - now'
    BY <1>1, RemainingType
<1> QED BY <1>1, <1>2

\* The worklist begins: its deadline leaves the others their share.
LEMMA WorklistBegins ==
    ASSUME Typed, TakeUnits
    PROVE  DeadlinesLeave'
<1>1. stage' = "worklist" /\ limit' = DeadlineFor(1, now) /\ begun' = Remaining(now) /\ now' = now
    BY DEF TakeUnits
<1> DEFINE R == Remaining(now)
           o == Slow - 1
           g == Investigation - limit'
           s1 == SharesFrom(1)
           s2 == SharesFrom(2)
           s3 == SharesFrom(3)
<1>2. now \in Nat /\ o \in Nat /\ 1 \in 1..4 /\ Investigation \in Nat
    BY EngagementAssumption DEF Typed, EngagementTypeOK
<1>3. R \in Nat
    BY <1>2, RemainingType
<1>4. limit' \in Nat /\ limit' <= Investigation /\ g * s1 >= R * s2
  <2>1. (Investigation - DeadlineFor(1, now)) * SharesFrom(1) >= Remaining(now) * SharesFrom(1 + 1)
      BY <1>2, ShareLeft
  <2>2. DeadlineFor(1, now) \in Nat /\ DeadlineFor(1, now) <= Investigation
      BY <1>2, ShareLeft
  <2> QED BY <1>1, <2>1, <2>2
<1>5. s1 \in Nat /\ s2 \in Nat /\ s3 \in Nat /\ s3 <= s2 /\ s3 <= s1
    BY SharesShrink
<1>6. g \in Int /\ R + o \in Int /\ R + o >= R
    BY <1>2, <1>3, <1>4
<1> HIDE DEF R, o, g, s1, s2, s3
<1>7. g * s1 >= R * s3
  <2>1. R * s2 >= R * s3
      BY <1>3, <1>5, Products
  <2>2. g * s1 \in Int /\ R * s2 \in Int /\ R * s3 \in Int
      BY <1>3, <1>5, <1>6, Products
  <2> QED BY <1>4, <2>1, <2>2
<1>8. (R + o) * s1 >= R * s3
  <2>1. (R + o) * s1 >= R * s1
    <3>1. R + o \in Int /\ R \in Int /\ s1 \in Nat
        BY <1>3, <1>5, <1>6
    <3> QED BY <1>6, <3>1, Products
  <2>2. R * s1 >= R * s3
      BY <1>3, <1>5, Products
  <2>3. (R + o) * s1 \in Int /\ R * s1 \in Int /\ R * s3 \in Int
      BY <1>3, <1>5, <1>6, Products
  <2> QED BY <2>1, <2>2, <2>3
<1>9. LeftFor(3, 1)'
  <2>1. R + 1 * o = R + o
      BY <1>2, <1>3
  <2> QED BY <1>1, <1>8, <2>1 DEF LeftFor, R, o, s1, s3
<1> QED BY <1>1, <1>4, <1>7, <1>9 DEF DeadlinesLeave, g, R, s1, s3

\* A node of the worklist: its deadline was ahead, so one unit of work beyond it at most.
LEMMA WorklistLeaves ==
    ASSUME Typed, DeadlinesLeave, SkipNode \/ ResumeNode \/ InvestigateNode
    PROVE  DeadlinesLeave'
<1>1. /\ UNCHANGED <<stage, limit, reviewLimit, begun>> /\ stage \in {"worklist", "derived"}
    BY DEF SkipNode, ResumeNode, InvestigateNode, attempt, clock, Sweeping
<1>2. CASE stage = "derived"
    BY <1>1, <1>2 DEF DeadlinesLeave
<1>3. CASE stage = "worklist" /\ now' = now
    BY <1>1, <1>3 DEF DeadlinesLeave, LeftFor
<1>4. CASE stage = "worklist" /\ now' # now
  <2>1. Work /\ ~OutOfTime(limit)
      BY <1>4 DEF SkipNode, ResumeNode, InvestigateNode, clock
  <2>2. /\ now \in Nat /\ limit \in Nat /\ begun \in Nat /\ Investigation \in Nat /\ Slow - 1 \in Nat
      BY EngagementAssumption DEF Typed, EngagementTypeOK
  <2>3. limit <= Investigation /\ (Investigation - limit) * SharesFrom(1) >= begun * SharesFrom(3)
      BY <1>4 DEF DeadlinesLeave
  <2>4. Remaining(now') \in Nat /\ Remaining(now') + (Slow - 1) >= Investigation - limit
      BY <2>1, <2>2, WorkLeaves
  <2> DEFINE m == Remaining(now') + 1 * (Slow - 1)
             g == Investigation - limit
  <2>5. m \in Int /\ g \in Int /\ m >= g
      BY <2>2, <2>3, <2>4
  <2>6. m * SharesFrom(1) >= g * SharesFrom(1)
    <3> HIDE DEF m, g
    <3>1. SharesFrom(1) \in Nat
        BY SharesShrink
    <3> QED BY <2>5, <3>1, Products
  <2>7. m * SharesFrom(1) \in Int /\ g * SharesFrom(1) \in Int /\ begun * SharesFrom(3) \in Int
    <3> HIDE DEF m, g
    <3> QED BY <2>2, <2>5, SharesShrink, Products
  <2>8. m * SharesFrom(1) >= begun * SharesFrom(3)
      BY <2>3, <2>6, <2>7
  <2>9. LeftFor(3, 1)'
      BY <1>1, <2>8 DEF LeftFor
  <2> QED BY <1>1, <1>4, <2>3, <2>9 DEF DeadlinesLeave
<1> QED BY <1>1, <1>2, <1>3, <1>4

\* Capture review begins: its deadline leaves the chain rounds their share of what the
\* worklist left.
LEMMA ReviewBegins ==
    ASSUME Typed, DeadlinesLeave, EndSweep
    PROVE  DeadlinesLeave'
<1>1. CASE stage = "derived"
    BY <1>1 DEF EndSweep, DeadlinesLeave
<1>2. CASE stage = "worklist"
  <2>1. /\ stage' = "capture_review" /\ now' = now /\ begun' = begun
        /\ \E x \in {now + ReviewSeconds, Investigation} : reviewLimit' = Earlier(x, DeadlineFor(3, now))
      BY <1>2 DEF EndSweep
  <2>2. /\ now \in Nat /\ begun \in Nat /\ Investigation \in Nat /\ Slow - 1 \in Nat
        /\ now + ReviewSeconds \in Nat /\ 3 \in 1..4
      BY EngagementAssumption DEF Typed, EngagementTypeOK
  <2> DEFINE R == Remaining(now)
             d == DeadlineFor(3, now)
             o == Slow - 1
             a == Investigation - d
             s1 == SharesFrom(1)
             s3 == SharesFrom(3)
             s4 == SharesFrom(4)
  <2>3. R \in Nat /\ o \in Nat
      BY <2>2, RemainingType
  <2>4. d \in Nat /\ d <= Investigation /\ a * s3 >= R * s4
    <3>1. /\ DeadlineFor(3, now) \in Nat /\ DeadlineFor(3, now) <= Investigation
          /\ (Investigation - DeadlineFor(3, now)) * SharesFrom(3) >= Remaining(now) * SharesFrom(3 + 1)
        BY <2>2, ShareLeft
    <3> QED BY <3>1
  <2>5. s1 \in Nat \ {0} /\ s3 \in Nat \ {0} /\ s4 \in Nat /\ s4 <= s3
      BY SharesShrink
  <2>6. (R + o) * s1 >= begun * s3
    <3>1. (R + 1 * o) * s1 >= begun * s3
        BY <1>2 DEF DeadlinesLeave, LeftFor
    <3>2. R + 1 * o = R + o
        BY <2>3
    <3> QED BY <3>1, <3>2
  <2>7. a \in Nat
      BY <2>2, <2>4
  <2>8. reviewLimit' \in Nat /\ reviewLimit' <= d
      BY <2>1, <2>2, <2>4 DEF Earlier
  <2>9. reviewLimit' <= Investigation /\ Investigation - reviewLimit' + o >= a + o
      BY <2>2, <2>3, <2>4, <2>8
  <2> HIDE DEF R, d, o, a, s1, s3, s4
  <2>10. (a + o) * s1 >= begun * s4
      BY <2>2, <2>3, <2>4, <2>5, <2>6, <2>7, SharesCompose
  <2>11. (Investigation - reviewLimit' + o) * s1 >= begun * s4
    <3>1. (Investigation - reviewLimit' + o) * s1 >= (a + o) * s1
      <4>1. Investigation - reviewLimit' + o \in Int /\ a + o \in Int /\ s1 \in Nat
          BY <2>2, <2>3, <2>5, <2>7, <2>8
      <4> QED BY <2>9, <4>1, Products
    <3>2. /\ (Investigation - reviewLimit' + o) * s1 \in Int /\ (a + o) * s1 \in Int /\ begun * s4 \in Int
        BY <2>2, <2>3, <2>5, <2>7, <2>8, Products
    <3> QED BY <2>10, <3>1, <3>2
  <2>12. (R + 2 * o) * s1 >= begun * s4
    <3>1. R + 2 * o >= R + o /\ R + 2 * o \in Int
        BY <2>3
    <3>2. (R + 2 * o) * s1 >= (R + o) * s1
        BY <2>3, <2>5, <3>1, Products
    <3>3. begun * s3 >= begun * s4
        BY <2>2, <2>5, Products
    <3>4. {(R + 2 * o) * s1, (R + o) * s1, begun * s3, begun * s4} \subseteq Int
        BY <2>2, <2>3, <2>5, <3>1, Products
    <3> QED BY <2>6, <3>2, <3>3, <3>4
  <2>13. LeftFor(4, 2)'
      BY <2>1, <2>12 DEF LeftFor, R, o, s1, s4
  <2> QED BY <2>1, <2>9, <2>11, <2>13 DEF DeadlinesLeave, o, s1, s4
<1> QED BY <1>1, <1>2 DEF EndSweep

\* A capture of the review: the same for its deadline, the worklist's overrun included.
LEMMA ReviewLeaves ==
    ASSUME Typed, DeadlinesLeave,
           (\E c \in Captures : ResumeCapture(c) \/ ReviewCapture(c)) \/ PassSeenCapture
    PROVE  DeadlinesLeave'
<1>1. UNCHANGED <<stage, limit, reviewLimit, begun>> /\ Reviewing /\ ~Bounded
    BY DEF ResumeCapture, ReviewCapture, PassSeenCapture, TakeCapture, attempt, clock
<1>2. CASE stage = "derived_review"
    BY <1>1, <1>2 DEF DeadlinesLeave
<1>3. CASE stage = "capture_review" /\ now' = now
    BY <1>1, <1>3 DEF DeadlinesLeave, LeftFor
<1>4. CASE stage = "capture_review" /\ now' # now
  <2>1. Work /\ ~OutOfTime(reviewLimit)
      BY <1>1, <1>4 DEF ResumeCapture, ReviewCapture, PassSeenCapture, clock, Bounded
  <2>2. /\ now \in Nat /\ reviewLimit \in Nat /\ begun \in Nat /\ Investigation \in Nat /\ Slow - 1 \in Nat
      BY EngagementAssumption DEF Typed, EngagementTypeOK
  <2>3. /\ reviewLimit <= Investigation
        /\ (Investigation - reviewLimit + (Slow - 1)) * SharesFrom(1) >= begun * SharesFrom(4)
      BY <1>4 DEF DeadlinesLeave
  <2>4. Remaining(now') \in Nat /\ Remaining(now') + (Slow - 1) >= Investigation - reviewLimit
      BY <2>1, <2>2, WorkLeaves
  <2> DEFINE m == Remaining(now') + 2 * (Slow - 1)
             g == Investigation - reviewLimit + (Slow - 1)
             s1 == SharesFrom(1)
             s4 == SharesFrom(4)
  <2>5. m \in Int /\ g \in Int /\ m >= g /\ s1 \in Nat /\ s4 \in Nat
    <3>1. m \in Int /\ g \in Int /\ m >= g
        BY <2>2, <2>3, <2>4
    <3> QED BY <3>1, SharesShrink
  <2>6. g * s1 >= begun * s4
      BY <2>3
  <2> HIDE DEF m, g, s1, s4
  <2>7. m * s1 >= g * s1
      BY <2>5, Products
  <2>8. m * s1 \in Int /\ g * s1 \in Int /\ begun * s4 \in Int
      BY <2>2, <2>5, Products
  <2>9. m * s1 >= begun * s4
      BY <2>6, <2>7, <2>8
  <2>10. LeftFor(4, 2)'
      BY <1>1, <2>9 DEF LeftFor, m, s1, s4
  <2> QED BY <1>1, <1>4, <2>3, <2>10 DEF DeadlinesLeave
<1> QED BY <1>1, <1>2, <1>3, <1>4 DEF Reviewing

\* Every step keeps what the deadlines leave.
LEMMA NextLeaves ==
    ASSUME Typed, DeadlinesLeave, [EngagementNext]_engagementVars
    PROVE  DeadlinesLeave'
<1>1. CASE TakeUnits
    BY <1>1, WorklistBegins
<1>2. CASE SkipNode \/ ResumeNode \/ InvestigateNode
    BY <1>2, WorklistLeaves
<1>3. CASE EndSweep
    BY <1>3, ReviewBegins
<1>4. CASE (\E c \in Captures : ResumeCapture(c) \/ ReviewCapture(c)) \/ PassSeenCapture
    BY <1>4, ReviewLeaves
<1>5. CASE \/ \E k \in Contexts : Start(k)
           \/ Discover \/ EndReview \/ ChainRound \/ BeginDrive
           \/ (\E i \in DOMAIN Drive : Dispatch(i)) \/ LegAnswers \/ EndDrive \/ Die
  <2>1. stage' \notin {"worklist", "capture_review"}
      BY <1>5 DEF Start, Discover, EndReview, ChainRound, BeginDrive, Dispatch, LegAnswers, EndDrive, Die,
                  Typed, LegUnderWay
  <2> QED BY <2>1 DEF DeadlinesLeave
<1>6. CASE Damage \/ LoseProof \/ UNCHANGED engagementVars
  <2>1. UNCHANGED <<stage, now, limit, reviewLimit, begun>>
      BY <1>6 DEF Damage, LoseProof, engagementVars, clock
  <2> QED BY <2>1 DEF DeadlinesLeave, LeftFor
<1> QED BY <1>1, <1>2, <1>3, <1>4, <1>5, <1>6 DEF EngagementNext

\* A phase begins with what the phases before it left.
LEMMA NextShares ==
    ASSUME Typed, DeadlinesLeave, PhasesGetTheirShare,
           [EngagementNext]_engagementVars
    PROVE  PhasesGetTheirShare'
<1>1. CASE EndSweep
  <2>1. UNCHANGED <<now, begun>> /\ stage' # "chain_rounds"
      BY <1>1 DEF EndSweep
  <2>2. stage' = "capture_review" => stage = "worklist"
      BY <1>1 DEF EndSweep
  <2>3. stage' = "capture_review" => LeftFor(3, 1)
      BY <2>2 DEF DeadlinesLeave
  <2> QED BY <2>1, <2>3 DEF PhasesGetTheirShare, LeftFor
<1>2. CASE EndReview
  <2>1. UNCHANGED <<now, begun, rounds>> /\ stage' = "chain_rounds" /\ Reviewing
      BY <1>2 DEF EndReview
  <2>2. rounds = 0 => stage = "capture_review"
      BY <2>1 DEF Reviewing, Typed, SweepPosition, EngagementTypeOK
  <2>3. rounds = 0 => LeftFor(4, 2)
      BY <2>2 DEF DeadlinesLeave
  <2> QED BY <2>1, <2>3 DEF PhasesGetTheirShare, LeftFor
<1>3. CASE (\E c \in Captures : ResumeCapture(c) \/ ReviewCapture(c)) \/ PassSeenCapture
  <2>1. stage' = stage /\ Reviewing /\ pos' = pos + 1
      BY <1>3 DEF ResumeCapture, ReviewCapture, PassSeenCapture, TakeCapture
  <2>2. pos' # 1
      BY <2>1 DEF Typed, SweepPosition, EngagementTypeOK
  <2> QED BY <2>1, <2>2 DEF PhasesGetTheirShare, Reviewing
<1>4. CASE \/ \E k \in Contexts : Start(k)
           \/ Discover \/ TakeUnits \/ SkipNode \/ ResumeNode \/ InvestigateNode
           \/ ChainRound \/ BeginDrive
           \/ (\E i \in DOMAIN Drive : Dispatch(i)) \/ LegAnswers \/ EndDrive \/ Die
  <2>1. stage' \notin {"capture_review", "chain_rounds"}
      BY <1>4 DEF Start, Discover, TakeUnits, SkipNode, ResumeNode, InvestigateNode, Sweeping, ChainRound,
                  BeginDrive, Dispatch, LegAnswers, EndDrive, Die, Typed, LegUnderWay
  <2> QED BY <2>1 DEF PhasesGetTheirShare
<1>5. CASE Damage \/ LoseProof \/ UNCHANGED engagementVars
  <2>1. UNCHANGED <<stage, pos, now, begun, rounds>>
      BY <1>5 DEF Damage, LoseProof, engagementVars, clock, sweep
  <2> QED BY <2>1 DEF PhasesGetTheirShare, LeftFor
<1> QED BY <1>1, <1>2, <1>3, <1>4, <1>5 DEF EngagementNext

-----------------------------------------------------------------------------
(***************************************************************************)
(* The theorems                                                            *)
(***************************************************************************)

EngagementInv ==
    /\ Typed /\ RowsOfAttempts /\ Inherited
    /\ DriveBegins /\ SinceCheckpoint
    /\ DeadlinesLeave /\ PhasesGetTheirShare

\* It holds of a run not yet started.
LEMMA InitHolds == ASSUME EngagementInit PROVE EngagementInv
<1>1. EngagementTypeOK
  <2>1. "none" \in Findings
      BY Zenon DEF Findings
  <2>2. found \in [Items -> Findings]
      BY <2>1 DEF EngagementInit, Nothing
  <2>3. stage \in Stages
      BY DEF EngagementInit, Stages
  <2>4. completed \in [Units -> Findings \union {None}] /\ journal \in [Units -> Rows \union {None}]
      BY DEF EngagementInit
  <2>5. starts \in 0..MaxStarts /\ faults \in 0..MaxFaults /\ begun \in 0..Investigation /\ rounds \in 0..MaxChainRounds
      BY EngagementAssumption DEF EngagementInit
  <2>6. /\ pos \in Nat /\ now \in Nat /\ limit \in Nat /\ reviewLimit \in Nat /\ count \in Nat /\ dispatched \in Nat
        /\ resuming \in BOOLEAN /\ blind \in BOOLEAN /\ flying \in BOOLEAN /\ lossy \in BOOLEAN
      BY DEF EngagementInit
  <2>7. /\ context \in Contexts \union {None} /\ checkpoint \in Checkpoints \union {None}
        /\ seen \in SUBSET Captures /\ legs \in SUBSET Legs /\ proofs \in SUBSET Units
      BY DEF EngagementInit
  <2> QED BY <2>2, <2>3, <2>4, <2>5, <2>6, <2>7 DEF EngagementTypeOK
<1>2. Typed
    BY <1>1 DEF EngagementInit, Typed, AttemptLives, SweepPosition, LegUnderWay
<1>3. RowsOfAttempts /\ Inherited
    BY DEF EngagementInit, RowsOfAttempts, Inherited
<1>4. DriveBegins /\ SinceCheckpoint /\ DeadlinesLeave /\ PhasesGetTheirShare
    BY DEF EngagementInit, DriveBegins, SinceCheckpoint, DeadlinesLeave, PhasesGetTheirShare
<1> QED BY <1>2, <1>3, <1>4 DEF EngagementInv

\* The invariant of an engagement: what an attempt inherited it has taken, its
\* unsaved legs are no more than it sent since the checkpoint that was last due, and
\* its deadlines leave the later phases their share.
THEOREM EngagementInvariance == EngagementSpec => []EngagementInv
<1>1. EngagementInit => EngagementInv
    BY InitHolds
<1>2. EngagementInv /\ [EngagementNext]_engagementVars => EngagementInv'
  <2> SUFFICES ASSUME EngagementInv, [EngagementNext]_engagementVars PROVE EngagementInv'
      OBVIOUS
  <2>1. Typed' /\ (RowsOfAttempts /\ Inherited)'
      BY NextTyped, NextInherits DEF EngagementInv
  <2>2. (DriveBegins /\ SinceCheckpoint)' /\ DeadlinesLeave' /\ PhasesGetTheirShare'
      BY NextSaves, NextLeaves, NextShares DEF EngagementInv
  <2> QED BY <2>1, <2>2 DEF EngagementInv
<1> QED BY <1>1, <1>2, PTL DEF EngagementSpec

\* Every variable keeps the type the code gives it.
THEOREM EngagementTyped == EngagementSpec => []EngagementTypeOK
<1>1. EngagementInv => EngagementTypeOK
    BY DEF EngagementInv, Typed
<1> QED BY <1>1, EngagementInvariance, PTL

\* Capture review and the chain rounds begin with their share of the time there was
\* when the worklist began, but for one unit's overrun in each phase before
\* (PhaseSchedule.deadline_for), whatever the shares and the budget are.
THEOREM LaterPhasesAreNotStarved == EngagementSpec => []PhasesGetTheirShare
<1>1. EngagementInv => PhasesGetTheirShare
    BY DEF EngagementInv
<1> QED BY <1>1, EngagementInvariance, PTL

\* A killed coverage drive loses at most CHECKPOINT_EVERY_LEGS concluded legs, while
\* its checkpoints are written (drive_coverage_legs, restore_checkpoint).
THEOREM KilledDrivesLoseLittle == EngagementSpec => []LossBounded
<1>1. ASSUME EngagementInv PROVE LossBounded
  <2> SUFFICES ASSUME stage = "coverage_drive", ~lossy PROVE Cardinality(Unsaved) <= Every
      BY DEF LossBounded, Unsaved, Saved
  <2>1. PICK q \in Nat, r \in 0..Every : Since(q, r)
      BY <1>1 DEF EngagementInv, SinceCheckpoint
  <2>2. Unsaved \in SUBSET Legs
      BY <1>1, UnsavedType DEF EngagementInv
  <2>3. Cardinality(Unsaved) \in Nat
      BY <2>2, UnsavedCount
  <2>4. Every \in Nat
      BY EngagementAssumption
  <2> QED BY <2>1, <2>3, <2>4 DEF Since
<1> QED BY <1>1, EngagementInvariance, PTL

\* No unit that an earlier attempt finished, and this one can read, is written again
\* (RunJournal.completed_units, and the sweeps that consult them).
THEOREM FinishedUnitsStand == EngagementSpec => NoFinishedUnitRunsAgain
<1> DEFINE Stands == \A u \in Units :
              ~blind' /\ Readable(journal[u]) /\ journal[u].attempt < starts
                 => journal'[u] = journal[u] \/ ~journal'[u].intact
<1>1. EngagementInv /\ [EngagementNext]_engagementVars => Stands
  <2> SUFFICES ASSUME EngagementInv, [EngagementNext]_engagementVars,
                      NEW u \in Units, ~blind', EarlierRow(u)
               PROVE  journal'[u] = journal[u] \/ ~journal'[u].intact
      BY DEF EarlierRow
  <2> QED BY StepRunsNothingAgain DEF EngagementInv
<1>2. Stands => [Stands]_engagementVars
    OBVIOUS
<1>3. EngagementInv /\ [EngagementNext]_engagementVars => [Stands]_engagementVars
    BY <1>1, <1>2
<1> QED BY <1>3, EngagementInvariance, PTL DEF EngagementSpec, NoFinishedUnitRunsAgain

================================================================================
