------------------------- MODULE CoordinatorProofs -------------------------
(***************************************************************************)
(* Theorems about the specification of module Coordinator, for every value *)
(* of its constants.                                                       *)
(***************************************************************************)
EXTENDS Coordinator, CompletionProofs, FiniteSetTheorems

-----------------------------------------------------------------------------
(* The registry: what each operator of the loop and of the recovery makes  *)
(* of a task record.                                                       *)

LEMMA UpdateKeeps ==
  ASSUME NEW r \in Task, NEW u \in Update
  PROVE  ApplyUpdate(r, u) \in Task /\ SameCounters(r, ApplyUpdate(r, u))
<1> DEFINE rt  == IF u.st = "none" THEN r.rt ELSE u.st
           pid == IF u.st \in {"phase_done", "failed"} THEN 0 ELSE r.pid
           hb  == IF u.beat THEN "fresh" ELSE r.hb
           s   == ApplyUpdate(r, u)
<1>1. /\ rt \in RuntimeStatuses /\ pid \in Procs \cup {0}
      /\ hb \in {"none", "fresh", "old"}
  BY DEF Task, Update, RuntimeStatuses
<1>2. s = [r EXCEPT !.rt = rt, !.pid = pid, !.hb = hb]
  BY DEF ApplyUpdate
<1> HIDE DEF rt, pid, hb, s
<1>3. s \in Task /\ SameCounters(r, s)
  BY <1>1, <1>2 DEF Task, SameCounters
<1> QED
  BY <1>3 DEF s

LEMMA ExorcisedKeeps ==
  ASSUME NEW r \in Task
  PROVE  Exorcised(r) \in Task /\ SameCounters(r, Exorcised(r))
<1> DEFINE requeue == r.wf = "claimed" /\ ~Unmerged(r)
           wf == IF requeue THEN "todo" ELSE "blocked"
           wt == IF requeue THEN 0 ELSE r.wt
           s  == Exorcised(r)
<1>1. wf \in WorkflowStates /\ wt \in Branches \cup {0}
  BY DEF Task, WorkflowStates
<1>2. \/ s = r
      \/ s = [r EXCEPT !.pid = 0, !.rt = "stale", !.err = "other", !.wf = wf, !.wt = wt]
  BY DEF Exorcised
<1>3. "stale" \in RuntimeStatuses /\ "other" \in ErrorClasses
  BY DEF RuntimeStatuses, ErrorClasses
<1> SUFFICES s \in Task /\ SameCounters(r, s)
  OBVIOUS
<1> HIDE DEF wf, wt, s
<1>4. CASE s = r
  BY <1>4 DEF SameCounters
<1>5. CASE s = [r EXCEPT !.pid = 0, !.rt = "stale", !.err = "other", !.wf = wf, !.wt = wt]
  BY <1>1, <1>3, <1>5 DEF Task, SameCounters
<1> QED
  BY <1>2, <1>4, <1>5

\* The stale policy counts a retry only when it is told to.
LEMMA StalePolicyKeeps ==
  ASSUME NEW t, NEW r \in Task
  PROVE  LET s == StalePolicy(t, r)
         IN /\ s \in Task /\ s.reviews = r.reviews
            /\ StaleAction # "retry" => SameCounters(r, s)
<1> DEFINE s == StalePolicy(t, r)
           n == IF StaleAction = "retry" THEN r.retries + 1 ELSE r.retries
<1>1. n \in Nat /\ (StaleAction # "retry" => n = r.retries)
  BY DEF Task
<1>2. /\ "stale" \in RuntimeStatuses /\ "idle" \in RuntimeStatuses
      /\ "blocked" \in WorkflowStates /\ "todo" \in WorkflowStates
  BY DEF RuntimeStatuses, WorkflowStates
<1>3. \/ s = r
      \/ s = [r EXCEPT !.rt = "stale", !.pid = 0, !.wf = "blocked"]
      \/ s = [r EXCEPT !.rt = "idle", !.pid = 0, !.wf = "todo", !.wt = 0, !.retries = n]
  BY DEF StalePolicy
<1> SUFFICES /\ s \in Task /\ s.reviews = r.reviews
             /\ StaleAction # "retry" => SameCounters(r, s)
  OBVIOUS
<1> HIDE DEF s, n
<1>4. CASE s = r
  BY <1>4 DEF SameCounters
<1>5. CASE s = [r EXCEPT !.rt = "stale", !.pid = 0, !.wf = "blocked"]
  BY <1>2, <1>5 DEF Task, SameCounters
<1>6. CASE s = [r EXCEPT !.rt = "idle", !.pid = 0, !.wf = "todo", !.wt = 0, !.retries = n]
  BY <1>1, <1>2, <1>6 DEF Task, SameCounters
<1> QED
  BY <1>3, <1>4, <1>5, <1>6

LEMMA ReconcileKeeps ==
  ASSUME NEW reg \in [Tasks -> Task]
  PROVE  LET new == ReconcileTaskBlocks(reg)
         IN /\ new \in [Tasks -> Task]
            /\ \A t \in Tasks : SameCounters(reg[t], new[t])
<1> DEFINE new == ReconcileTaskBlocks(reg)
<1>1. ASSUME NEW t \in Tasks
      PROVE  new[t] \in Task /\ SameCounters(reg[t], new[t])
  <2> DEFINE r == reg[t]
             s == new[t]
  <2>1. r \in Task
    OBVIOUS
  <2>2. \/ s = r
        \/ s = [r EXCEPT !.wf = "blocked", !.rt = "failed", !.err = "dep"]
        \/ s = [r EXCEPT !.wf = "todo", !.rt = "idle", !.err = "none"]
    BY DEF ReconcileTaskBlocks
  <2>3. /\ "failed" \in RuntimeStatuses /\ "idle" \in RuntimeStatuses
        /\ "blocked" \in WorkflowStates /\ "todo" \in WorkflowStates
        /\ "dep" \in ErrorClasses /\ "none" \in ErrorClasses
    BY DEF RuntimeStatuses, WorkflowStates, ErrorClasses
  <2> HIDE DEF r, s
  <2>4. s \in Task /\ SameCounters(r, s)
    <3>1. CASE s = r
      BY <2>1, <3>1 DEF SameCounters
    <3>2. CASE s = [r EXCEPT !.wf = "blocked", !.rt = "failed", !.err = "dep"]
      BY <2>1, <2>3, <3>2 DEF Task, SameCounters
    <3>3. CASE s = [r EXCEPT !.wf = "todo", !.rt = "idle", !.err = "none"]
      BY <2>1, <2>3, <3>3 DEF Task, SameCounters
    <3> QED
      BY <2>2, <3>1, <3>2, <3>3
  <2> QED
    BY <2>4 DEF r, s
<1>2. DOMAIN new = Tasks /\ new = [t \in Tasks |-> new[t]]
  BY DEF ReconcileTaskBlocks
<1> HIDE DEF new
<1>3. new \in [Tasks -> Task]
  BY <1>1, <1>2
<1> QED
  BY <1>1, <1>3 DEF new

\* What a step makes of one task and then of the blocks of all.
LEMMA CompletedKeeps ==
  ASSUME NEW t \in Tasks, NEW r \in Task, task \in [Tasks -> Task], Within(task[t], r)
  PROVE  /\ Completed(t, r) \in [Tasks -> Task]
         /\ \A u \in Tasks : Within(task[u], Completed(t, r)[u])
<1> DEFINE reg == [task EXCEPT ![t] = r]
<1>1. reg \in [Tasks -> Task]
  OBVIOUS
<1>2. \A u \in Tasks : Within(task[u], reg[u])
  BY DEF Within
<1>3. /\ Completed(t, r) \in [Tasks -> Task]
      /\ \A u \in Tasks : SameCounters(reg[u], Completed(t, r)[u])
  BY <1>1, ReconcileKeeps DEF Completed
<1> HIDE DEF reg
<1> QED
  BY <1>2, <1>3 DEF Within, SameCounters

LEMMA SyncedKeeps ==
  ASSUME NEW t, NEW r \in Task
  PROVE  Synced(t, r) \in Task /\ SameCounters(r, Synced(t, r))
<1>1. CASE Synced(t, r) = r
  BY <1>1 DEF SameCounters
<1>2. CASE Synced(t, r) = [r EXCEPT !.wf = "merged", !.rt = "idle", !.pid = 0, !.wt = 0]
  BY <1>2 DEF Task, SameCounters, WorkflowStates, RuntimeStatuses
<1> QED
  BY <1>1, <1>2 DEF Synced

LEMMA SweptKeeps ==
  ASSUME NEW r \in Task
  PROVE  Swept(r) \in Task /\ SameCounters(r, Swept(r))
<1> DEFINE s == Swept(r)
<1>1. /\ "idle" \in RuntimeStatuses /\ "stale" \in RuntimeStatuses
      /\ "phase_done" \in RuntimeStatuses /\ "blocked" \in WorkflowStates
      /\ "todo" \in WorkflowStates /\ "other" \in ErrorClasses
  BY DEF RuntimeStatuses, WorkflowStates, ErrorClasses
<1>2. Requeued(r) \in Task /\ SameCounters(r, Requeued(r))
  BY <1>1 DEF Requeued, Task, SameCounters
<1>3. \/ s \in {r, Requeued(r)}
      \/ s = [r EXCEPT !.wf = "blocked", !.err = "other"]
      \/ s = [r EXCEPT !.rt = "stale", !.err = "other"]
      \/ s = [r EXCEPT !.rt = "phase_done"]
      \/ s = [Requeued(r) EXCEPT !.err = "other"]
  BY DEF Swept, SweepParked
<1> HIDE DEF s
<1>4. s \in Task /\ SameCounters(r, s)
  <2>1. CASE s \in {r, Requeued(r)}
    BY <1>2, <2>1 DEF SameCounters
  <2>2. CASE s = [r EXCEPT !.wf = "blocked", !.err = "other"]
    BY <1>1, <2>2 DEF Task, SameCounters
  <2>3. CASE s = [r EXCEPT !.rt = "stale", !.err = "other"]
    BY <1>1, <2>3 DEF Task, SameCounters
  <2>5. CASE s = [r EXCEPT !.rt = "phase_done"]
    BY <1>1, <2>5 DEF Task, SameCounters
  <2>4. CASE s = [Requeued(r) EXCEPT !.err = "other"]
    <3> DEFINE q == Requeued(r)
    <3>1. q \in Task /\ SameCounters(r, q) /\ s = [q EXCEPT !.err = "other"]
      BY <1>2, <2>4
    <3> HIDE DEF q
    <3> QED
      BY <1>1, <3>1 DEF Task, SameCounters
  <2> QED
    BY <1>3, <2>1, <2>2, <2>3, <2>4, <2>5
<1> QED
  BY <1>4 DEF s

LEMMA StartupKeeps ==
  ASSUME NEW t \in Tasks, task \in [Tasks -> Task], rows[t] \in Update
  PROVE  Startup(t) \in Task /\ SameCounters(task[t], Startup(t))
<1> DEFINE r == SyncedRegistry[t]
<1>1. r \in Task /\ SameCounters(task[t], r)
  BY ReconcileKeeps DEF SyncedRegistry
<1>2. Startup(t) = Swept(ApplyUpdate(Exorcised(Synced(t, r)), rows[t]))
  BY DEF Startup
<1> HIDE DEF r
<1> QED
  BY <1>1, <1>2, SyncedKeeps, ExorcisedKeeps, UpdateKeeps, SweptKeeps DEF SameCounters

-----------------------------------------------------------------------------
(* What the actions of each actor leave alone.                             *)

LEMMA PerformerFrame ==
  ASSUME NEW p, Performer(p)
  PROVE  UNCHANGED <<task, delivered, nproc, nclaim, jobs, mergeVars, loopVars, envVars>>
BY DEF Performer, StartTool, ToolChanges, ToolNoChanges, ToolSilent, ToolFails, FailExit,
       Commit, CommitFails, SendExit, performerUnchanged, envVars, gitVars

LEMMA MergeWorkerFrame ==
  ASSUME MergeWorker
  PROVE  UNCHANGED <<task, dirty, procVars, nclaim, jobs, exits, busVars, mjobs,
                     failedMerge, loopVars, envVars>>
BY DEF MergeWorker, FinishMerge, MergeTimeout, gitVars

\* The steps that may change the registry; every other step leaves it alone.
RegistryStep ==
  \/ CleanupGhosts \/ ApplyBus \/ TakeMergeResult \/ MergesDone \/ PauseOnConflict
  \/ OperatorResumes \/ Advance \/ Start
  \/ \E t \in Tasks, p \in Procs :
       TakeExit(t, p) \/ PauseOnExit(t, p) \/ Salvage(t, p) \/ Respawn(t, p)
  \/ \E t \in Tasks : Claim(t) \/ Launch(t) \/ HeartbeatAges(t)

LEMMA RegistryFrame ==
  ASSUME Next
  PROVE  RegistryStep \/ UNCHANGED task
<1>1. CASE Start
  BY <1>1 DEF RegistryStep
<1>2. CASE Loop
  <2>1. CASE Monitor
    BY <2>1 DEF Monitor, RegistryStep, ConsumeRows, DropExit, ExitsDone
  <2>2. CASE MergesDone \/ DispatchDone \/ EndCycle
    BY <2>2 DEF RegistryStep, DispatchDone, EndCycle
  <2> QED
    BY <1>2, <2>1, <2>2 DEF Loop, RegistryStep
<1>3. CASE \E p \in Procs : Performer(p)
  BY <1>3, PerformerFrame
<1>4. CASE MergeWorker
  BY <1>4, MergeWorkerFrame
<1>5. CASE Operator
  BY <1>5 DEF Operator, RegistryStep, OperatorReviews
<1>6. CASE Environment
  <2>1. CASE \E p \in Procs : Heartbeat(p) \/ PhaseTimeout(p) \/ Die(p)
    BY <2>1 DEF Heartbeat, PhaseTimeout, Die, performerUnchanged
  <2>2. CASE \E t \in Tasks : HeartbeatAges(t) \/ LaunchLost(t)
    BY <2>2 DEF RegistryStep, LaunchLost
  <2>3. CASE ThrottleExpires \/ DispatchFails \/ StorageFails \/ Crash
    BY <2>3 DEF ThrottleExpires, DispatchFails, StorageFails, Crash
  <2> QED
    BY <1>6, <2>1, <2>2, <2>3 DEF Environment
<1> QED
  BY <1>1, <1>2, <1>3, <1>4, <1>5, <1>6 DEF Next

-----------------------------------------------------------------------------
(* A step keeps every record well formed, and its counters in budget.      *)

LEMMA DecisionsAffordable ==
  ASSUME TypeOK, NEW t \in Tasks, NEW p \in Procs, NEW s \in Decisions(t, p)
  PROVE  Affordable(task[t], s)
<1>1. PICK expl \in Explanations, healthy \in BOOLEAN :
        s = Decision(t, p, expl, healthy)
  BY DEF Decisions
<1> DEFINE e == ExitOf(p, expl)
           commits == task[t].wt \in ahead
<1>2. e \in Exits
  <2>1. proc[p] \in Process
    BY DEF TypeOK, ProcOK
  <2> QED
    BY <2>1 DEF ExitOf, Process, Exits
<1>3. jobs[t].attempt \in Nat
  BY AttemptsAssumption DEF TypeOK, ProcOK, Job
<1>4. commits \in BOOLEAN
  OBVIOUS
<1>5. task[t] \in Task
  BY DEF TypeOK
<1> HIDE DEF e, commits
<1>6. Affordable(task[t], ResolveRetryStrategy(task[t], e, jobs[t].attempt, commits, healthy))
  BY <1>2, <1>3, <1>4, <1>5, StrategyAffordable
<1> QED
  BY <1>1, <1>6 DEF e, commits, Decision

Attempted(t, p) == ApplyStrategy(task[t], Strategy("attempt", TRUE, "none"), proc[p].code)

LEMMA AttemptedKeeps ==
  ASSUME TypeOK, NEW t \in Tasks, NEW p
  PROVE  Attempted(t, p) \in Task /\ Within(task[t], Attempted(t, p))
<1>1. task[t] \in Task
  BY DEF TypeOK
<1>2. Affordable(task[t], Strategy("attempt", TRUE, "none"))
  BY DEF Affordable, Strategy, Strategies, Kinds
<1> QED
  BY <1>1, <1>2, StrategyKeeps DEF Attempted

\* Every record stays a record of a task, and its counters stay within their budgets.
\* Only the "retry" stale action counts a retry whatever the budget.
Kept ==
  /\ task' \in [Tasks -> Task]
  /\ \A t \in Tasks :
       \/ Within(task[t], task'[t])
       \/ StaleAction = "retry" /\ task'[t].reviews = task[t].reviews

LEMMA RegistryKept ==
  ASSUME TypeOK, Next
  PROVE  Kept
<1> USE DEF Kept
<1>0. task \in [Tasks -> Task] /\ \A t \in Tasks : task[t] \in Task
  BY DEF TypeOK
<1>u. CASE UNCHANGED task
  BY <1>0, <1>u DEF Within
<1>1. CASE CleanupGhosts
  <2>1. task' = [t \in Tasks |-> Exorcised(SyncedRegistry[t])]
    BY <1>1 DEF CleanupGhosts
  <2>2. /\ SyncedRegistry \in [Tasks -> Task]
        /\ \A t \in Tasks : SameCounters(task[t], SyncedRegistry[t])
    BY <1>0, ReconcileKeeps DEF SyncedRegistry
  <2>3. \A t \in Tasks : task'[t] \in Task /\ SameCounters(task[t], task'[t])
    BY <2>1, <2>2, ExorcisedKeeps DEF SameCounters
  <2> QED
    BY <1>0, <2>1, <2>3, SameIsWithin
<1>2. CASE ApplyBus
  <2>1. task' = [t \in Tasks |-> StalePolicy(t, ApplyUpdate(task[t], bus[t]))]
    BY <1>2 DEF ApplyBus
  <2>2. \A t \in Tasks : bus[t] \in Update
    BY DEF TypeOK, BusOK
  <2>3. ASSUME NEW t \in Tasks
        PROVE  /\ task'[t] \in Task
               /\ task'[t].reviews = task[t].reviews
               /\ StaleAction # "retry" => SameCounters(task[t], task'[t])
    <3>1. /\ ApplyUpdate(task[t], bus[t]) \in Task
          /\ SameCounters(task[t], ApplyUpdate(task[t], bus[t]))
      BY <1>0, <2>2, UpdateKeeps
    <3> QED
      BY <2>1, <3>1, StalePolicyKeeps DEF SameCounters
  <2> QED
    BY <2>1, <2>3, SameIsWithin
<1>3. CASE TakeMergeResult
  <2>1. CASE UNCHANGED task
    BY <1>u, <2>1
  <2>2. CASE ~UNCHANGED task
    <3> DEFINE m  == Head(merges)
               ok == m.how = "ok"
               r  == ApplyMergeResult(task[m.task], ok)
    <3>1. task' = Completed(m.task, r)
      BY <1>3, <2>2 DEF TakeMergeResult
    <3>2. m \in MergeResult
      BY <1>3 DEF TakeMergeResult, TypeOK, MergeOK
    <3>3. m.task \in Tasks /\ ok \in BOOLEAN
      BY <3>2 DEF MergeResult
    <3> HIDE DEF m, ok
    <3>4. r \in Task /\ Within(task[m.task], r)
      BY <1>0, <3>3, MergeResultKeeps, SameIsWithin
    <3> HIDE DEF r
    <3> QED
      BY <1>0, <3>1, <3>3, <3>4, CompletedKeeps
  <2> QED
    BY <2>1, <2>2
<1>4. CASE MergesDone \/ OperatorResumes
  <2>1. task' = [t \in Tasks |-> IF t \in {m.task : m \in failedMerge}
                                 THEN ResumeMerge(task[t]) ELSE task[t]]
    BY <1>4 DEF MergesDone, OperatorResumes
  <2>2. ASSUME NEW t \in Tasks
        PROVE  task'[t] \in Task /\ SameCounters(task[t], task'[t])
    BY <1>0, <2>1, ResumeMergeKeeps DEF SameCounters
  <2> QED
    BY <2>1, <2>2, SameIsWithin
<1>5. CASE PauseOnConflict
  <2>1. PICK m \in failedMerge : task' = [task EXCEPT ![m.task].rt = "paused"]
    BY <1>5 DEF PauseOnConflict
  <2>2. m.task \in Tasks
    BY DEF TypeOK, MergeOK, MergeResult
  <2>3. /\ [task[m.task] EXCEPT !.rt = "paused"] \in Task
        /\ SameCounters(task[m.task], [task[m.task] EXCEPT !.rt = "paused"])
    BY <1>0, <2>2 DEF Task, SameCounters, RuntimeStatuses
  <2> QED
    BY <1>0, <2>1, <2>2, <2>3, SameIsWithin DEF SameCounters
<1>6. CASE Advance
  <2>1. PICK outcome \in [Planned("phase") -> PhaseOutcomes \cup {"failed"}] :
          task' = [t \in Tasks |->
            CASE Plan(t).kind = "phase"     -> AfterPhase(t, outcome[t])
              [] Plan(t).kind = "exhausted" -> ApplyPhaseOutcome(task[t], FixPhase, "failed")
              [] Plan(t).kind = "merge" /\ task[t].wt = 0 /\ t \notin mjobs ->
                   ApplyMergeResult(task[t], FALSE)
              [] OTHER -> task[t]]
    BY <1>6 DEF Advance
  <2>2. ASSUME NEW t \in Tasks
        PROVE  task'[t] \in Task /\ Within(task[t], task'[t])
    <3>1. task[t] \in Task
      BY <1>0
    <3>2. CASE Plan(t).kind = "phase"
      <4>1. task'[t] = AfterPhase(t, outcome[t])
        BY <2>1, <3>2
      <4>2. Plan(t) = PlanAdvance(task[t])
        BY <3>2 DEF Plan
      <4> QED
        BY <3>1, <3>2, <4>1, <4>2, PhaseOutcomeKeeps, ToolUnavailableKeeps, SameIsWithin
           DEF AfterPhase
    <3>3. CASE Plan(t).kind = "exhausted"
      BY <2>1, <3>1, <3>3, FixFailureKeeps, SameIsWithin DEF FixPhase
    <3>4. CASE Plan(t).kind \notin {"phase", "exhausted"}
      <4>1. task'[t] \in {task[t], ApplyMergeResult(task[t], FALSE)}
        BY <2>1, <3>4
      <4> QED
        BY <3>1, <4>1, MergeResultKeeps, SameIsWithin DEF Within
    <3> QED
      BY <3>2, <3>3, <3>4
  <2> QED
    BY <2>1, <2>2
<1>7. CASE Start
  <2>1. task' = [t \in Tasks |-> Startup(t)]
    BY <1>7 DEF Start
  <2>2. \A t \in Tasks : rows[t] \in Update
    BY DEF TypeOK, BusOK
  <2> QED
    BY <1>0, <2>1, <2>2, StartupKeeps, SameIsWithin
<1>8. ASSUME NEW t \in Tasks, NEW p \in Procs, TakeExit(t, p) \/ PauseOnExit(t, p)
      PROVE  Kept
  <2>1. PICK s \in Decisions(t, p) :
          task' = Completed(t, ApplyStrategy(task[t], s, proc[p].code))
    BY <1>8 DEF TakeExit, PauseOnExit
  <2>2. /\ ApplyStrategy(task[t], s, proc[p].code) \in Task
        /\ Within(task[t], ApplyStrategy(task[t], s, proc[p].code))
    BY <1>0, DecisionsAffordable, StrategyKeeps
  <2> QED
    BY <1>0, <2>1, <2>2, CompletedKeeps
<1>9. ASSUME NEW t \in Tasks, NEW p \in Procs, Respawn(t, p)
      PROVE  Kept
  <2>1. task' = Completed(t, Attempted(t, p))
    BY <1>9 DEF Respawn, Attempted
  <2> QED
    BY <1>0, <2>1, AttemptedKeeps, CompletedKeeps
<1>10. ASSUME NEW t \in Tasks, NEW p \in Procs, Salvage(t, p)
       PROVE  Kept
  <2> DEFINE reg == Completed(t, Attempted(t, p))
  <2>1. task' = [reg EXCEPT ![t].wf = "merged", ![t].rt = "idle", ![t].pid = 0]
    BY <1>10 DEF Salvage, Attempted
  <2>2. reg \in [Tasks -> Task] /\ \A u \in Tasks : Within(task[u], reg[u])
    BY <1>0, AttemptedKeeps, CompletedKeeps
  <2> HIDE DEF reg
  <2> DEFINE s == [reg[t] EXCEPT !.wf = "merged", !.rt = "idle", !.pid = 0]
  <2>3. s \in Task /\ SameCounters(reg[t], s)
    <3>1. "merged" \in WorkflowStates /\ "idle" \in RuntimeStatuses
      BY DEF WorkflowStates, RuntimeStatuses
    <3>2. reg[t] \in Task
      BY <2>2
    <3> QED
      BY <3>1, <3>2 DEF Task, SameCounters
  <2>4. task' = [reg EXCEPT ![t] = s]
    BY <2>1, <2>2
  <2> HIDE DEF s
  <2> QED
    BY <2>2, <2>3, <2>4 DEF Within, SameCounters
<1>11. ASSUME NEW t \in Tasks, Claim(t)
       PROVE  Kept
  <2> DEFINE c  == nclaim + 1
             wt == WorktreeForClaim(t, c)
             s  == ApplyDispatchClaim(task[t], c, wt)
  <2>1. task' = [task EXCEPT ![t] = s] /\ c \in Branches
    BY <1>0, <1>11 DEF Claim
  <2>2. wt \in Branches
    BY <1>0, <2>1 DEF WorktreeForClaim, Attached, Task
  <2> HIDE DEF c, wt
  <2>3. s \in Task /\ SameCounters(task[t], s)
    BY <1>0, <2>1, <2>2, ClaimKeeps
  <2> HIDE DEF s
  <2> QED
    BY <1>0, <2>1, <2>3 DEF Within, SameCounters
<1>12. ASSUME NEW t \in Tasks, Launch(t)
       PROVE  Kept
  <2> DEFINE s == ApplyDispatchPid(task[t], nproc + 1)
  <2>1. task' = [task EXCEPT ![t] = s] /\ nproc + 1 \in Procs
    BY <1>0, <1>12 DEF Launch
  <2>2. s \in Task /\ SameCounters(task[t], s)
    BY <1>0, <2>1, PidKeeps
  <2> HIDE DEF s
  <2> QED
    BY <1>0, <2>1, <2>2 DEF Within, SameCounters
<1>13. ASSUME NEW t \in Tasks, HeartbeatAges(t)
       PROVE  Kept
  <2> DEFINE s == [task[t] EXCEPT !.hb = "old"]
  <2>1. task' = [task EXCEPT ![t] = s]
    BY <1>0, <1>13 DEF HeartbeatAges
  <2>2. s \in Task /\ SameCounters(task[t], s)
    BY <1>0 DEF Task, SameCounters
  <2> HIDE DEF s
  <2> QED
    BY <1>0, <2>1, <2>2 DEF Within, SameCounters
<1> QED
  BY <1>u, <1>1, <1>2, <1>3, <1>4, <1>5, <1>6, <1>7, <1>8, <1>9, <1>10, <1>11, <1>12,
     <1>13, RegistryFrame DEF RegistryStep

-----------------------------------------------------------------------------
(* Processes and the jobs that wait for them.                              *)

IInv == TypeOK /\ WorkAssigned

\* A process goes on in its own worktree, and does not start again.
Continues(old, new) ==
  new \in Process /\ new.branch = old.branch /\ (Busy(new) => Busy(old))

\* The processes go on, and what is new has a branch.
ProcsKept ==
  /\ proc' \in [Procs -> Process]
  /\ \A p \in Procs :
       /\ Busy(proc'[p]) => proc'[p].branch \in Branches
       /\ proc[p].branch \in Branches => proc'[p].branch \in Branches

LEMMA InitialProcess ==
  ASSUME NEW t \in Tasks, NEW claim \in Branches \cup {0}, NEW branch \in Branches \cup {0},
         NEW epoch \in 0..MaxRestarts
  PROVE  LET q == NewProcess(t, claim, branch, epoch)
         IN q \in Process /\ q.branch = branch
<1>1. 1 \in 1..InnerAttempts
  BY LimitsAssumption
<1>2. "none" \in Kinds /\ "fatal" \in Codes /\ {} \in Logs
  BY DEF Kinds, Codes, Logs
<1> QED
  BY <1>1, <1>2 DEF NewProcess, Process

LEMMA ForgottenContinues ==
  ASSUME NEW p \in Procs, proc[p] \in Process
  PROVE  Continues(proc[p], Forgotten(p))
<1> DEFINE q == NewProcess(proc[p].task, proc[p].claim, proc[p].branch, proc[p].epoch)
<1>1. q \in Process /\ q.branch = proc[p].branch
  <2>1. /\ proc[p].task \in Tasks /\ proc[p].claim \in Branches \cup {0}
        /\ proc[p].branch \in Branches \cup {0} /\ proc[p].epoch \in 0..MaxRestarts
    BY DEF Process
  <2> QED
    BY <2>1, InitialProcess
<1>2. Forgotten(p) = [q EXCEPT !.st = "done", !.rep = proc[p].rep]
  BY DEF Forgotten
<1>3. proc[p].rep \in BOOLEAN
  BY DEF Process
<1> HIDE DEF q
<1>4. Forgotten(p) \in Process
  BY <1>1, <1>2, <1>3 DEF Process
<1>5. Forgotten(p).st = "done" /\ Forgotten(p).branch = proc[p].branch
  BY <1>1, <1>2 DEF Process
<1> QED
  BY <1>4, <1>5 DEF Continues, Busy

LEMMA TerminatedContinues ==
  ASSUME NEW p \in Procs, proc[p] \in Process
  PROVE  Continues(proc[p], Terminated[p])
<1>1. Terminated[p] \in {proc[p], [proc[p] EXCEPT !.st = "failing"]}
  BY DEF Terminated
<1>2. Terminated[p] # proc[p] => Busy(proc[p])
  BY DEF Terminated, Alive, Busy
<1> QED
  BY <1>1, <1>2 DEF Process, Continues

LEMMA BusyHasBranch ==
  ASSUME IInv
  PROVE  /\ proc \in [Procs -> Process]
         /\ \A p \in Procs : Busy(proc[p]) => proc[p].branch \in Branches
BY DEF IInv, WorkAssigned, TypeOK, ProcOK

\* What continues every process keeps the processes.
LEMMA ContinuedAreKept ==
  ASSUME IInv, NEW f, f = [p \in Procs |-> f[p]], proc' = f,
         \A p \in Procs : Continues(proc[p], f[p])
  PROVE  ProcsKept
<1>1. ASSUME NEW p \in Procs
      PROVE  /\ f[p] \in Process
             /\ Busy(f[p]) => f[p].branch \in Branches
             /\ proc[p].branch \in Branches => f[p].branch \in Branches
  BY BusyHasBranch DEF Continues
<1> QED
  BY <1>1 DEF ProcsKept

LEMMA OneContinuedIsKept ==
  ASSUME IInv, NEW p \in Procs, NEW q, proc' = [proc EXCEPT ![p] = q],
         Continues(proc[p], q)
  PROVE  ProcsKept
<1>1. ASSUME NEW r \in Procs
      PROVE  /\ Busy(proc'[r]) => proc'[r].branch \in Branches
             /\ proc[r].branch \in Branches => proc'[r].branch \in Branches
  BY BusyHasBranch DEF Continues
<1> QED
  BY <1>1, BusyHasBranch DEF ProcsKept, Continues

LEMMA UnchangedProcsKept ==
  ASSUME IInv, UNCHANGED proc
  PROVE  ProcsKept
BY BusyHasBranch DEF ProcsKept

LEMMA TerminatedAreKept ==
  ASSUME IInv, proc' = Terminated
  PROVE  ProcsKept
<1>1. \A p \in Procs : proc[p] \in Process
  BY DEF IInv, TypeOK, ProcOK
<1>2. Terminated = [p \in Procs |-> Terminated[p]]
  BY DEF Terminated
<1> QED
  BY <1>1, <1>2, TerminatedContinues, ContinuedAreKept

LEMMA NewProcessKept ==
  ASSUME IInv, NEW p \in Procs, NEW t \in Tasks, NEW claim \in Branches \cup {0},
         NEW branch \in Branches, NEW epoch \in 0..MaxRestarts, NEW f,
         f \in [Procs -> Process], \A q \in Procs : Continues(proc[q], f[q]),
         proc' = [f EXCEPT ![p] = NewProcess(t, claim, branch, epoch)]
  PROVE  ProcsKept
<1>1. /\ NewProcess(t, claim, branch, epoch) \in Process
      /\ NewProcess(t, claim, branch, epoch).branch = branch
  BY InitialProcess
<1>2. ASSUME NEW q \in Procs
      PROVE  /\ Busy(proc'[q]) => proc'[q].branch \in Branches
             /\ proc[q].branch \in Branches => proc'[q].branch \in Branches
  BY <1>1, BusyHasBranch DEF Continues
<1> QED
  BY <1>1, <1>2 DEF ProcsKept

-----------------------------------------------------------------------------
(* A step of a performer.                                                  *)

LEMMA FailureType ==
  ASSUME NEW o \in ToolOutcomes \ {"changes", "nochanges", "silent"}
  PROVE  FailureOf(o).kind \in Kinds /\ FailureOf(o).code \in Codes /\ FailureOf(o).log \in Logs
BY DEF FailureOf, Failure, ToolOutcomes, Kinds, ErrorKinds, Codes, Logs

LEMMA PerformerContinues ==
  ASSUME IInv, NEW p \in Procs, Performer(p)
  PROVE  ProcsKept
<1>1. proc[p] \in Process /\ proc \in [Procs -> Process]
  BY DEF IInv, TypeOK, ProcOK
<1>2. CASE StartTool(p) \/ FailExit(p) \/ ToolSilent(p) \/ Commit(p) \/ CommitFails(p)
  <2>1. \/ proc' = [proc EXCEPT ![p] = [proc[p] EXCEPT !.st = "tool"]]
        \/ proc' = [proc EXCEPT ![p] = [proc[p] EXCEPT !.st = "exited"]]
        \/ proc' = [proc EXCEPT ![p] = [proc[p] EXCEPT !.st = "commit"]]
        \/ proc' = [proc EXCEPT ![p] = [proc[p] EXCEPT !.st = "exited", !.ok = TRUE]]
        \/ proc' = [proc EXCEPT ![p] = [proc[p] EXCEPT !.st = "failing", !.code = "fatal"]]
    BY <1>1, <1>2 DEF StartTool, FailExit, ToolSilent, Commit, CommitFails
  <2>2. \A st \in {"tool", "exited", "commit", "failing"} :
          Busy(proc[p]) => Continues(proc[p], [proc[p] EXCEPT !.st = st])
    BY <1>1 DEF Process, Continues
  <2>3. Continues(proc[p], [proc[p] EXCEPT !.st = "exited", !.ok = TRUE])
    BY <1>1 DEF Process, Continues, Busy
  <2>4. Busy(proc[p]) =>
          Continues(proc[p], [proc[p] EXCEPT !.st = "failing", !.code = "fatal"])
    BY <1>1 DEF Process, Continues, Codes
  <2>5. Busy(proc[p])
    BY <1>2 DEF StartTool, FailExit, ToolSilent, Commit, CommitFails, Busy
  <2> QED
    BY <2>1, <2>2, <2>3, <2>4, <2>5, OneContinuedIsKept
<1>3. ASSUME NEW kind \in Kinds, ReportDone(p, kind), Busy(proc[p])
      PROVE  ProcsKept
  <2> DEFINE acc == Accepted(p)
             st  == IF acc THEN "commit" ELSE "failing"
             rep == proc[p].rep \/ acc
             knd == IF acc THEN kind ELSE proc[p].kind
             log == proc[p].log \cup {"done"}
             q   == [proc[p] EXCEPT !.st = st, !.rep = rep, !.kind = knd, !.log = log]
  <2>1. proc' = [proc EXCEPT ![p] = q]
    BY <1>1, <1>3 DEF ReportDone
  <2>2. st \in {"commit", "failing"} /\ rep \in BOOLEAN /\ knd \in Kinds /\ log \in Logs
    BY <1>1, <1>3 DEF Process, Logs
  <2> HIDE DEF st, rep, knd, log
  <2>3. Continues(proc[p], q)
    BY <1>1, <1>3, <2>2 DEF Process, Continues
  <2> QED
    BY <2>1, <2>3, OneContinuedIsKept
<1>4. CASE ToolChanges(p)
  BY <1>3, <1>4 DEF ToolChanges, Kinds, Busy
<1>5. CASE ToolNoChanges(p)
  <2>1. Busy(proc[p]) /\ \E kind \in {"changes", "nochanges"} : ReportDone(p, kind)
    BY <1>5 DEF ToolNoChanges, Busy
  <2> QED
    BY <1>3, <2>1 DEF Kinds
<1>6. CASE ToolFails(p)
  <2>1. PICK o \in Outcomes \ {"changes", "nochanges", "silent"} :
          LET f == FailureOf(o)
              again == f.code \notin {"rate", "quota"} /\ proc[p].inner < InnerAttempts
          IN proc' = [proc EXCEPT
               ![p].st    = IF again THEN "starting" ELSE "failing",
               ![p].inner = IF again THEN @ + 1 ELSE @,
               ![p].rep   = @ \/ Accepted(p),
               ![p].kind  = IF Accepted(p) THEN f.kind ELSE @,
               ![p].code  = f.code,
               ![p].log   = @ \cup f.log]
    BY <1>6 DEF ToolFails
  <2> DEFINE f   == FailureOf(o)
             again == f.code \notin {"rate", "quota"} /\ proc[p].inner < InnerAttempts
             acc == Accepted(p)
             st  == IF again THEN "starting" ELSE "failing"
             inner == IF again THEN proc[p].inner + 1 ELSE proc[p].inner
             rep == proc[p].rep \/ acc
             knd == IF acc THEN f.kind ELSE proc[p].kind
             log == proc[p].log \cup f.log
             q   == [proc[p] EXCEPT !.st = st, !.inner = inner, !.rep = rep, !.kind = knd,
                                    !.code = f.code, !.log = log]
  <2>2. proc' = [proc EXCEPT ![p] = q]
    BY ZenonT(40), <1>1, <2>1
  <2>3. f.kind \in Kinds /\ f.code \in Codes /\ f.log \in Logs
    BY FailureType, ScopeAssumption
  <2> HIDE DEF f
  <2>4. /\ st \in {"starting", "failing"} /\ inner \in 1..InnerAttempts
        /\ rep \in BOOLEAN /\ knd \in Kinds /\ log \in Logs
    BY <1>1, <2>3, LimitsAssumption DEF Process, Logs
  <2> HIDE DEF st, inner, rep, knd, log
  <2>5. Busy(proc[p])
    BY <1>6 DEF ToolFails, Busy
  <2>6. q \in Process
    BY <1>1, <2>3, <2>4 DEF Process
  <2>7. q.branch = proc[p].branch
    BY <1>1 DEF Process
  <2>8. Continues(proc[p], q)
    BY <2>5, <2>6, <2>7 DEF Continues
  <2> QED
    BY <2>2, <2>8, OneContinuedIsKept
<1>7. CASE SendExit(p)
  <2> DEFINE verdict == Authority(proc[p].kind, proc[p].branch \in ahead, proc[p].ok)
             code == IF proc[p].ok /\ ~verdict.success /\ ~proc[p].rep
                     THEN "E901" ELSE proc[p].code
             q == [proc[p] EXCEPT !.st = "sent", !.ok = verdict.success,
                                  !.kind = verdict.kind, !.code = code]
  <2>1. proc' = [proc EXCEPT ![p] = q]
    BY <1>1, <1>7 DEF SendExit
  <2>2. verdict.success \in BOOLEAN /\ verdict.kind \in Kinds /\ code \in Codes
    BY <1>1 DEF Authority, Process, Kinds, Codes
  <2> HIDE DEF verdict, code
  <2>3. Continues(proc[p], q)
    BY <1>1, <2>2 DEF Process, Continues, Busy
  <2> QED
    BY <2>1, <2>3, OneContinuedIsKept
<1> QED
  BY <1>2, <1>4, <1>5, <1>6, <1>7 DEF Performer

-----------------------------------------------------------------------------
(* Every step keeps the processes.                                         *)

LEMMA StatusContinues ==
  ASSUME NEW q \in Process, Busy(q), NEW st \in {"failing", "exited"}
  PROVE  Continues(q, [q EXCEPT !.st = st])
BY DEF Process, Continues

LEMMA SpawnedKept ==
  ASSUME IInv, NEW t \in Tasks, t \in launching, nproc + 1 \in Procs, proc' = Spawned(t)
  PROVE  ProcsKept
<1>1. /\ task[t].claim \in Branches \cup {0} /\ task[t].wt \in Branches
      /\ restarts \in 0..MaxRestarts
  BY DEF IInv, TypeOK, WorkAssigned, EnvOK, Task
<1>2. \A q \in Procs : Continues(proc[q], proc[q])
  BY DEF IInv, TypeOK, ProcOK, Continues
<1>3. proc \in [Procs -> Process]
  BY BusyHasBranch
<1> QED
  BY <1>1, <1>2, <1>3, NewProcessKept DEF Spawned

LEMMA ForgottenKept ==
  ASSUME IInv, NEW p \in Procs, proc' = [proc EXCEPT ![p] = Forgotten(p)]
  PROVE  ProcsKept
<1>1. proc[p] \in Process
  BY BusyHasBranch
<1> QED
  BY <1>1, ForgottenContinues, OneContinuedIsKept

\* The head of the queue of exits is a process.
LEMMA HeadIsProc ==
  ASSUME TypeOK, exits # <<>>
  PROVE  /\ Head(exits) \in Procs /\ Tail(exits) \in Seq(Procs)
         /\ proc[Head(exits)] \in Process
BY DEF TypeOK, ProcOK

LEMMA RespawnKept ==
  ASSUME IInv, NEW t \in Tasks, NEW p \in Procs, Respawn(t, p)
  PROVE  ProcsKept
<1> DEFINE f == [proc EXCEPT ![p] = Forgotten(p)]
           claim  == Attempted(t, p).claim
           branch == proc[jobs[t].proc].branch
<1>1. claim \in Branches \cup {0}
  BY AttemptedKeeps DEF IInv, Task
<1>2. branch \in Branches
  BY DEF IInv, WorkAssigned, Respawn, ExitTaken
<1>3. restarts \in 0..MaxRestarts /\ nproc + 1 \in Procs
  BY DEF IInv, TypeOK, EnvOK, Respawn
<1>4. f \in [Procs -> Process] /\ \A q \in Procs : Continues(proc[q], f[q])
  <2>1. \A q \in Procs : proc[q] \in Process /\ Continues(proc[q], proc[q])
    BY BusyHasBranch DEF Continues
  <2>2. Forgotten(p) \in Process /\ Continues(proc[p], Forgotten(p))
    BY <2>1, ForgottenContinues DEF Continues
  <2> QED
    BY <2>1, <2>2, BusyHasBranch
<1>5. proc' = [f EXCEPT ![nproc + 1] = NewProcess(t, claim, branch, restarts)]
  BY DEF Respawn, Attempted
<1> HIDE DEF f, claim, branch
<1> QED
  BY <1>1, <1>2, <1>3, <1>4, <1>5, NewProcessKept

LEMMA ProcessesKept ==
  ASSUME IInv, Next
  PROVE  ProcsKept
<1>u. CASE UNCHANGED proc
  BY <1>u, UnchangedProcsKept
<1>t. CASE proc' = Terminated
  BY <1>t, TerminatedAreKept
<1>0. \A p \in Procs : proc[p] \in Process
  BY BusyHasBranch
<1>1. CASE Start
  <2> DEFINE f == [p \in Procs |-> IF proc[p].st \in {"exited", "sent"} THEN Forgotten(p)
                                   ELSE proc[p]]
  <2>1. proc' = f /\ f = [p \in Procs |-> f[p]]
    BY <1>1 DEF Start
  <2>2. \A p \in Procs : Continues(proc[p], f[p])
    BY <1>0, ForgottenContinues DEF Continues
  <2> HIDE DEF f
  <2> QED
    BY <2>1, <2>2, ContinuedAreKept
<1>2. CASE ApplyBus
  <2>1. PICK late \in SUBSET {t \in Tasks : HasJob(t) /\ jobs[t].signaled} :
          proc' = [p \in Procs |->
                     IF Alive(p) /\ p \in {jobs[t].proc : t \in late}
                     THEN [proc[p] EXCEPT !.st = "exited"] ELSE proc[p]]
    BY <1>2 DEF ApplyBus
  <2> DEFINE f == [p \in Procs |->
                     IF Alive(p) /\ p \in {jobs[t].proc : t \in late}
                     THEN [proc[p] EXCEPT !.st = "exited"] ELSE proc[p]]
  <2>2. \A p \in Procs : Continues(proc[p], f[p])
    BY <1>0, StatusContinues DEF Continues, Alive, Busy
  <2>3. f = [p \in Procs |-> f[p]]
    OBVIOUS
  <2> HIDE DEF f
  <2> QED
    BY <2>1, <2>2, <2>3, ContinuedAreKept DEF f
<1>3. CASE DropExit
  BY <1>3, HeadIsProc, ForgottenKept DEF DropExit, IInv
<1>4. ASSUME NEW t \in Tasks, NEW p \in Procs,
             TakeExit(t, p) \/ PauseOnExit(t, p) \/ Salvage(t, p)
      PROVE  ProcsKept
  BY <1>4, ForgottenKept DEF TakeExit, PauseOnExit, Salvage
<1>5. ASSUME NEW t \in Tasks, Launch(t) \/ LaunchLost(t)
      PROVE  ProcsKept
  BY <1>5, SpawnedKept DEF Launch, LaunchLost
<1>6. ASSUME NEW p \in Procs, PhaseTimeout(p) \/ Die(p)
      PROVE  ProcsKept
  <2>1. PICK st \in {"failing", "exited"} :
          proc' = [proc EXCEPT ![p] = [proc[p] EXCEPT !.st = st]]
    BY <1>6, BusyHasBranch DEF PhaseTimeout, Die
  <2>2. Busy(proc[p])
    BY <1>6 DEF PhaseTimeout, Die, Alive, Busy
  <2> QED
    BY <1>0, <2>1, <2>2, StatusContinues, OneContinuedIsKept
<1>7. CASE Monitor
  BY <1>u, <1>2, <1>3, <1>4, <1>7, RespawnKept DEF Monitor, CleanupGhosts, ConsumeRows,
     ExitsDone, procVars
<1>8. CASE Loop
  <2>1. CASE TakeMergeResult \/ PauseOnConflict \/ EndCycle
    BY <1>u, <1>t, <2>1 DEF TakeMergeResult, PauseOnConflict, EndCycle
  <2>2. CASE MergesDone \/ Advance \/ DispatchDone \/ \E t \in Tasks : Claim(t)
    BY <1>u, <2>2 DEF MergesDone, Advance, DispatchDone, Claim, procVars
  <2> QED
    BY <1>5, <1>7, <1>8, <2>1, <2>2 DEF Loop
<1>9. CASE MergeWorker \/ Operator
  BY <1>u, <1>9, MergeWorkerFrame DEF Operator, OperatorReviews, OperatorResumes, procVars
<1>10. CASE Environment
  <2>1. CASE DispatchFails \/ StorageFails
    BY <1>u, <1>t, <2>1 DEF DispatchFails, StorageFails
  <2>2. CASE ThrottleExpires \/ Crash \/ (\E t \in Tasks : HeartbeatAges(t))
             \/ \E p \in Procs : Heartbeat(p)
    BY <1>u, <2>2 DEF ThrottleExpires, Crash, HeartbeatAges, Heartbeat, procVars
  <2> QED
    BY <1>5, <1>6, <1>10, <2>1, <2>2 DEF Environment
<1> QED
  BY <1>1, <1>8, <1>9, <1>10, PerformerContinues DEF Next

\* The jobs wait for processes with a branch.
JobsKept ==
  /\ jobs' \in [Tasks -> Job]
  /\ \A t \in Tasks : jobs'[t] # NoJob =>
       jobs'[t].proc \in Procs /\ proc'[jobs'[t].proc].branch \in Branches

QueueKept ==
  exits' \in Seq(Procs) /\ nproc' \in 0..MaxSpawns /\ nclaim' \in 0..MaxClaims

LEMMA NoJobType == NoJob \in Job
BY AttemptsAssumption DEF NoJob, Job

\* Jobs that are among the old ones, or none.
LEMMA FewerJobsKept ==
  ASSUME IInv, ProcsKept, jobs' \in [Tasks -> Job],
         \A t \in Tasks : jobs'[t] # NoJob => HasJob(t) /\ jobs'[t].proc = jobs[t].proc
  PROVE  JobsKept
BY DEF IInv, WorkAssigned, ProcsKept, JobsKept

LEMMA UnchangedJobsKept ==
  ASSUME IInv, ProcsKept, UNCHANGED jobs
  PROVE  JobsKept
BY FewerJobsKept DEF IInv, TypeOK, ProcOK, HasJob

LEMMA NewJobKept ==
  ASSUME IInv, ProcsKept, NEW t \in Tasks, NEW p \in Procs, NEW n \in 0..MaxAttempts,
         jobs' = [jobs EXCEPT ![t] = NewJob(p, n)], proc'[p].st = "starting"
  PROVE  JobsKept
<1>1. NewJob(p, n) \in Job /\ NewJob(p, n).proc = p
  BY DEF NewJob, Job
<1>2. jobs \in [Tasks -> Job]
  BY DEF IInv, TypeOK, ProcOK
<1>3. proc'[p].branch \in Branches
  BY DEF ProcsKept, Busy
<1>4. ASSUME NEW u \in Tasks, jobs'[u] # NoJob
      PROVE  jobs'[u].proc \in Procs /\ proc'[jobs'[u].proc].branch \in Branches
  <2>1. CASE u = t
    BY <1>1, <1>2, <1>3, <2>1
  <2>2. CASE u # t
    BY <1>2, <1>4, <2>2 DEF IInv, WorkAssigned, ProcsKept, HasJob
  <2> QED
    BY <2>1, <2>2
<1> QED
  BY <1>1, <1>2, <1>4 DEF JobsKept

\* Another attempt is decided on only while the claim has attempts left.
LEMMA AttemptsLeft ==
  ASSUME TypeOK, NEW t, NEW p \in Procs, NEW s \in Decisions(t, p), s.do = "attempt"
  PROVE  jobs[t].attempt < MaxAttempts
<1>1. PICK expl \in Explanations, healthy \in BOOLEAN :
        s = Decision(t, p, expl, healthy)
  BY DEF Decisions
<1> DEFINE e == ExitOf(p, expl)
           commits == task[t].wt \in ahead
<1>2. e.kind \in Kinds
  BY DEF TypeOK, ProcOK, Process, ExitOf
<1>3. s = ResolveRetryStrategy(task[t], e, jobs[t].attempt, commits, healthy)
  BY <1>1 DEF Decision
<1> HIDE DEF e, commits
<1>4. \A kind : ReportedError(task[t], kind, commits, healthy).do # "attempt"
  BY DEF ReportedError, Strategy
<1>5. s = FailureStrategy(task[t], e, jobs[t].attempt, commits, healthy)
  BY <1>2, <1>3, <1>4 DEF ResolveRetryStrategy, Strategy, Kinds
<1> QED
  BY <1>4, <1>5 DEF FailureStrategy, Strategy

LEMMA JobsAreKept ==
  ASSUME IInv, Next
  PROVE  JobsKept
<1>p. ProcsKept
  BY ProcessesKept
<1>u. CASE UNCHANGED jobs
  BY <1>p, <1>u, UnchangedJobsKept
<1>0. jobs \in [Tasks -> Job] /\ NoJob \in Job
  BY NoJobType DEF IInv, TypeOK, ProcOK
<1>1. CASE Start
  BY <1>0, <1>1, <1>p, FewerJobsKept DEF Start
<1>2. CASE ApplyBus
  <2> DEFINE waiting  == {t \in Tasks : HasJob(t) /\ jobs[t].signaled}
             signaled == waiting \cup {t \in Tasks : HasJob(t) /\ bus[t].fail}
  <2>1. PICK late \in SUBSET waiting :
          jobs' = [t \in Tasks |->
                     IF t \in signaled THEN [jobs[t] EXCEPT !.signaled = t \notin late]
                                       ELSE jobs[t]]
    BY <1>2 DEF ApplyBus
  <2>2. ASSUME NEW t \in Tasks
        PROVE  /\ jobs'[t] \in Job
               /\ jobs'[t] # NoJob => HasJob(t) /\ jobs'[t].proc = jobs[t].proc
    <3> DEFINE x == t \notin late
    <3>1. x \in BOOLEAN /\ jobs[t] \in Job
      BY <1>0
    <3>2. CASE t \notin signaled
      BY <2>1, <3>1, <3>2 DEF HasJob
    <3>3. CASE t \in signaled
      <4>1. jobs'[t] = [jobs[t] EXCEPT !.signaled = x]
        BY <2>1, <3>3
      <4>2. HasJob(t)
        BY <3>3
      <4> HIDE DEF x
      <4> QED
        BY <3>1, <4>1, <4>2 DEF Job
    <3> QED
      BY <3>2, <3>3
  <2>3. jobs' = [t \in Tasks |-> jobs'[t]]
    BY <2>1
  <2>4. jobs' \in [Tasks -> Job]
    BY <2>2, <2>3
  <2> QED
    BY <1>p, <2>2, <2>4, FewerJobsKept
<1>3. ASSUME NEW t \in Tasks, NEW p \in Procs,
             TakeExit(t, p) \/ PauseOnExit(t, p) \/ Salvage(t, p)
      PROVE  JobsKept
  <2>1. jobs' = [jobs EXCEPT ![t] = NoJob]
    BY <1>3 DEF TakeExit, PauseOnExit, Salvage
  <2> QED
    BY <1>0, <1>p, <2>1, FewerJobsKept DEF HasJob
<1>4. ASSUME NEW t \in Tasks, NEW p \in Procs, Respawn(t, p)
      PROVE  JobsKept
  <2>1. jobs' = [jobs EXCEPT ![t] = NewJob(nproc + 1, jobs[t].attempt + 1)]
    BY <1>0, <1>4 DEF Respawn
  <2>2. jobs[t].attempt < MaxAttempts
    BY <1>4, AttemptsLeft DEF IInv, Respawn
  <2>3. jobs[t].attempt + 1 \in 0..MaxAttempts
    BY <1>0, <2>2, AttemptsAssumption DEF Job
  <2>4. nproc + 1 \in Procs /\ proc'[nproc + 1].st = "starting"
    BY <1>4, BusyHasBranch DEF Respawn, NewProcess
  <2> QED
    BY <1>p, <2>1, <2>3, <2>4, NewJobKept
<1>5. ASSUME NEW t \in Tasks, Launch(t)
      PROVE  JobsKept
  <2>1. jobs' = [jobs EXCEPT ![t] = NewJob(nproc + 1, 1)] /\ nproc + 1 \in Procs
    BY <1>5 DEF Launch
  <2>2. proc'[nproc + 1].st = "starting"
    BY <1>5, BusyHasBranch DEF Launch, Spawned, NewProcess
  <2> QED
    <3>1. 1 \in 0..MaxAttempts
      BY AttemptsAssumption
    <3> QED
      BY <1>p, <2>1, <2>2, <3>1, NewJobKept
<1>6. CASE StorageFails
  BY <1>0, <1>6, <1>p, FewerJobsKept DEF StorageFails, HasJob
<1>7. CASE Loop
  <2>1. CASE Monitor
    BY <1>u, <1>2, <1>3, <1>4, <2>1 DEF Monitor, CleanupGhosts, ConsumeRows, DropExit,
       ExitsDone
  <2>2. CASE TakeMergeResult \/ MergesDone \/ PauseOnConflict \/ Advance \/ DispatchDone
             \/ EndCycle \/ \E t \in Tasks : Claim(t)
    BY <1>u, <2>2 DEF TakeMergeResult, MergesDone, PauseOnConflict, Advance, DispatchDone,
       EndCycle, Claim
  <2> QED
    BY <1>5, <1>7, <2>1, <2>2 DEF Loop
<1>8. CASE (\E p \in Procs : Performer(p)) \/ MergeWorker \/ Operator
  BY <1>u, <1>8, PerformerFrame, MergeWorkerFrame DEF Operator, OperatorReviews,
     OperatorResumes
<1>9. CASE Environment
  <2>1. CASE \E p \in Procs : Heartbeat(p) \/ PhaseTimeout(p) \/ Die(p)
    BY <1>u, <2>1 DEF Heartbeat, PhaseTimeout, Die, performerUnchanged
  <2>2. CASE ThrottleExpires \/ Crash \/ DispatchFails
             \/ \E t \in Tasks : HeartbeatAges(t) \/ LaunchLost(t)
    BY <1>u, <2>2 DEF ThrottleExpires, Crash, DispatchFails, HeartbeatAges, LaunchLost
  <2> QED
    BY <1>6, <1>9, <2>1, <2>2 DEF Environment
<1> QED
  BY <1>1, <1>7, <1>8, <1>9 DEF Next

LEMMA QueuesAreKept ==
  ASSUME IInv, Next
  PROVE  QueueKept
<1> USE DEF QueueKept
<1>0. exits \in Seq(Procs) /\ nproc \in 0..MaxSpawns /\ nclaim \in 0..MaxClaims
  BY DEF IInv, TypeOK, ProcOK
<1>u. CASE UNCHANGED <<exits, nproc, nclaim>>
  BY <1>0, <1>u
<1>n. CASE nproc + 1 \in Procs /\ nproc' = nproc + 1 /\ nclaim' = nclaim
           /\ (exits' = exits \/ (exits # <<>> /\ exits' = Tail(exits)))
  BY <1>0, <1>n, BoundAssumption DEF Procs
<1>t. CASE UNCHANGED <<nproc, nclaim>> /\ exits # <<>> /\ exits' = Tail(exits)
  BY <1>0, <1>t
<1>1. CASE Start
  BY <1>0, <1>1 DEF Start
<1>2. CASE \E p \in Procs : Performer(p)
  <2>1. PICK p \in Procs : Performer(p)
    BY <1>2
  <2>2. CASE SendExit(p)
    BY <1>0, <2>2 DEF SendExit
  <2>3. CASE ~SendExit(p)
    BY <1>0, <2>1, <2>3 DEF Performer, StartTool, ToolChanges, ToolNoChanges, ToolSilent,
       ToolFails, FailExit, Commit, CommitFails, performerUnchanged
  <2> QED
    BY <2>2, <2>3
<1>3. CASE Monitor
  <2>1. CASE CleanupGhosts \/ ConsumeRows \/ ApplyBus \/ ExitsDone
    BY <1>u, <2>1 DEF CleanupGhosts, ConsumeRows, ApplyBus, ExitsDone, procVars
  <2>2. CASE DropExit
    BY <1>t, <2>2 DEF DropExit
  <2>3. ASSUME NEW t \in Tasks, NEW p \in Procs,
               TakeExit(t, p) \/ PauseOnExit(t, p) \/ Salvage(t, p)
        PROVE  QueueKept
    BY <1>t, <2>3 DEF TakeExit, PauseOnExit, Salvage, ExitTaken
  <2>4. ASSUME NEW t \in Tasks, NEW p \in Procs, Respawn(t, p)
        PROVE  QueueKept
    BY <1>n, <2>4 DEF Respawn, ExitTaken
  <2> QED
    BY <1>3, <2>1, <2>2, <2>3, <2>4 DEF Monitor
<1>4. CASE Loop
  <2>1. CASE TakeMergeResult \/ MergesDone \/ PauseOnConflict \/ Advance \/ DispatchDone
             \/ EndCycle
    BY <1>u, <2>1 DEF TakeMergeResult, MergesDone, PauseOnConflict, Advance, DispatchDone,
       EndCycle, procVars
  <2>2. ASSUME NEW t \in Tasks, Claim(t)
        PROVE  QueueKept
    BY <1>0, <2>2, BoundAssumption DEF Claim, Branches, procVars
  <2>3. ASSUME NEW t \in Tasks, Launch(t)
        PROVE  QueueKept
    BY <1>n, <2>3 DEF Launch
  <2> QED
    BY <1>3, <1>4, <2>1, <2>2, <2>3 DEF Loop
<1>5. CASE MergeWorker \/ Operator
  BY <1>u, <1>5, MergeWorkerFrame DEF Operator, OperatorReviews, OperatorResumes, procVars
<1>6. CASE Environment
  <2>1. CASE ThrottleExpires \/ Crash \/ DispatchFails \/ (\E t \in Tasks : HeartbeatAges(t))
             \/ \E p \in Procs : Heartbeat(p) \/ PhaseTimeout(p) \/ Die(p)
    BY <1>u, <2>1 DEF ThrottleExpires, Crash, DispatchFails, HeartbeatAges, Heartbeat,
       PhaseTimeout, Die, performerUnchanged, procVars
  <2>2. CASE StorageFails
    BY <1>u, <1>t, <2>2 DEF StorageFails
  <2>3. ASSUME NEW t \in Tasks, LaunchLost(t)
        PROVE  QueueKept
    BY <1>n, <2>3 DEF LaunchLost
  <2> QED
    BY <1>6, <2>1, <2>2, <2>3 DEF Environment
<1> QED
  BY <1>1, <1>2, <1>4, <1>5, <1>6 DEF Next

-----------------------------------------------------------------------------
(* Branches, events, merges, and the loop.                                 *)

LEMMA GitKept ==
  ASSUME IInv, Next
  PROVE  GitOK'
<1> USE DEF GitOK
<1>0. GitOK
  BY DEF IInv, TypeOK
<1>u. CASE UNCHANGED gitVars
  BY <1>0, <1>u DEF gitVars
<1>1. ASSUME NEW p \in Procs, Performer(p)
      PROVE  GitOK'
  <2>1. delivered' = delivered
    BY <1>1, PerformerFrame
  <2>2. Busy(proc[p]) => proc[p].branch \in Branches
    BY BusyHasBranch
  <2>3. CASE StartTool(p) \/ FailExit(p) \/ CommitFails(p) \/ SendExit(p)
    BY <1>u, <2>1, <2>3 DEF StartTool, FailExit, CommitFails, SendExit, gitVars
  <2>4. CASE Commit(p)
    BY <1>0, <2>1, <2>2, <2>4 DEF Commit, Busy
  <2>5. CASE \E edit : Leave(proc[p].branch, edit)
    <3>1. CASE Busy(proc[p])
      BY <1>0, <2>1, <2>2, <2>5, <3>1 DEF Leave
    <3>2. CASE ~Busy(proc[p])
      BY <1>1, <2>3, <2>4, <3>2 DEF Performer, ToolChanges, ToolNoChanges, ToolSilent,
         ToolFails, Busy
    <3> QED
      BY <3>1, <3>2
  <2> QED
    BY <1>1, <2>3, <2>4, <2>5 DEF Performer, ToolChanges, ToolNoChanges, ToolSilent,
       ToolFails
<1>2. CASE MergeWorker
  <2>1. PICK w \in workers : FinishMerge(w) \/ MergeTimeout(w)
    BY <1>2 DEF MergeWorker
  <2>2. w.task \in Tasks
    BY DEF IInv, TypeOK, MergeOK, MergeJob
  <2> QED
    BY <1>0, <1>u, <2>1, <2>2 DEF FinishMerge, MergeTimeout
<1>3. CASE Monitor
  <2>1. ASSUME NEW t \in Tasks, NEW p \in Procs, Salvage(t, p)
        PROVE  GitOK'
    BY <1>0, <2>1 DEF Salvage
  <2>2. CASE CleanupGhosts \/ ConsumeRows \/ ApplyBus
    BY <1>u, <2>2 DEF CleanupGhosts, ConsumeRows, ApplyBus
  <2>3. CASE DropExit \/ ExitsDone
    BY <1>u, <2>3 DEF DropExit, ExitsDone
  <2>4. ASSUME NEW t \in Tasks, NEW p \in Procs, TakeExit(t, p) \/ PauseOnExit(t, p)
        PROVE  GitOK'
    BY <1>u, <2>4 DEF TakeExit, PauseOnExit
  <2>5. ASSUME NEW t \in Tasks, NEW p \in Procs, Respawn(t, p)
        PROVE  GitOK'
    BY <1>u, <2>5 DEF Respawn
  <2> QED
    BY <1>3, <2>1, <2>2, <2>3, <2>4, <2>5 DEF Monitor
<1>4. CASE Loop
  BY <1>u, <1>3, <1>4 DEF Loop, TakeMergeResult, MergesDone, PauseOnConflict, Advance,
     Claim, Launch, DispatchDone, EndCycle
<1>5. CASE Start \/ Operator
  BY <1>u, <1>5 DEF Start, Operator, OperatorReviews, OperatorResumes
<1>6. CASE Environment
  BY <1>u, <1>6 DEF Environment, Heartbeat, PhaseTimeout, Die, HeartbeatAges, LaunchLost,
     ThrottleExpires, DispatchFails, StorageFails, Crash, performerUnchanged, gitVars
<1> QED
  BY <1>1, <1>2, <1>4, <1>5, <1>6 DEF Next

LEMMA ThenType ==
  ASSUME NEW u \in Update, NEW v \in Update
  PROVE  Then(u, v) \in Update
<1> DEFINE st   == IF v.st = "none" THEN u.st ELSE v.st
           fail == u.fail \/ v.fail
           beat == u.beat \/ v.beat
<1>1. /\ st \in {"none", "running", "phase_done", "failed"}
      /\ fail \in BOOLEAN /\ beat \in BOOLEAN
  BY DEF Update
<1>2. Then(u, v) = [st |-> st, fail |-> fail, beat |-> beat]
  BY DEF Then
<1> HIDE DEF st, fail, beat
<1> QED
  BY <1>1, <1>2 DEF Update

LEMMA UpdateType ==
  /\ NoUpdate \in Update /\ Beat \in Update
  /\ \A st \in {"running", "phase_done", "failed"} : Event(st) \in Update
<1>1. NoUpdate \in Update
  BY DEF NoUpdate, Update
<1>2. Beat \in Update
  BY <1>1 DEF Beat, Update
<1>3. ASSUME NEW st \in {"running", "phase_done", "failed"}
      PROVE  Event(st) \in Update
  <2> DEFINE fail == st = "failed"
  <2>1. Event(st) = [st |-> st, fail |-> fail, beat |-> TRUE] /\ fail \in BOOLEAN
    BY DEF Event
  <2> HIDE DEF fail
  <2> QED
    BY <2>1 DEF Update
<1> QED
  BY <1>1, <1>2, <1>3

LEMMA BusKept ==
  ASSUME IInv, Next
  PROVE  BusOK'
<1>0. rows \in [Tasks -> Update] /\ bus \in [Tasks -> Update]
  BY DEF IInv, TypeOK, BusOK
<1>u. CASE UNCHANGED busVars
  BY <1>0, <1>u DEF BusOK, busVars
<1>p. ASSUME NEW p \in Procs, NEW u \in Update, Post(p, u)
      PROVE  BusOK'
  <2>1. proc[p].task \in Tasks
    BY BusyHasBranch DEF Process
  <2>2. CASE Accepted(p)
    <3>1. /\ rows' = [rows EXCEPT ![proc[p].task] = Then(rows[proc[p].task], u)]
          /\ bus' = [bus EXCEPT ![proc[p].task] = Then(bus[proc[p].task], u)]
      BY <1>0, <1>p, <2>2 DEF Post
    <3>2. /\ Then(rows[proc[p].task], u) \in Update
          /\ Then(bus[proc[p].task], u) \in Update
      BY <1>0, <2>1, ThenType
    <3> QED
      BY <1>0, <3>1, <3>2 DEF BusOK
  <2> QED
    BY <1>u, <1>p, <2>2 DEF Post
<1>b. ASSUME NEW t \in Tasks, rows' = [rows EXCEPT ![t] = Then(@, Beat)], bus' = bus
      PROVE  BusOK'
  <2>1. Then(rows[t], Beat) \in Update
    BY <1>0, ThenType, UpdateType
  <2> QED
    BY <1>0, <1>b, <2>1 DEF BusOK
<1>1. ASSUME NEW p \in Procs, Performer(p)
      PROVE  BusOK'
  <2>1. CASE \E st \in {"running", "phase_done", "failed"} : Post(p, Event(st))
    BY <1>p, <2>1, UpdateType
  <2>2. CASE ToolChanges(p) \/ ToolNoChanges(p)
    BY <2>1, <2>2 DEF ToolChanges, ToolNoChanges, ReportDone
  <2>3. CASE ToolSilent(p) \/ Commit(p) \/ CommitFails(p) \/ SendExit(p)
    BY <1>u, <2>3 DEF ToolSilent, Commit, CommitFails, SendExit
  <2>4. CASE StartTool(p) \/ ToolFails(p) \/ FailExit(p)
    BY <2>1, <2>4 DEF StartTool, ToolFails, FailExit
  <2> QED
    BY <1>1, <2>2, <2>3, <2>4 DEF Performer
<1>2. ASSUME NEW p \in Procs, Heartbeat(p)
      PROVE  BusOK'
  BY <1>p, <1>2, UpdateType DEF Heartbeat
<1>3. CASE ConsumeRows
  <2>1. \A t \in Tasks : Then(bus[t], rows[t]) \in Update
    BY <1>0, ThenType
  <2> QED
    BY <1>3, <2>1, UpdateType DEF ConsumeRows, BusOK
<1>4. CASE ApplyBus \/ StorageFails
  BY <1>0, <1>4, UpdateType DEF ApplyBus, StorageFails, BusOK
<1>5. CASE Start
  BY <1>5, UpdateType DEF Start, BusOK
<1>6. CASE Monitor
  <2>1. ASSUME NEW t \in Tasks, NEW p \in Procs,
               TakeExit(t, p) \/ Salvage(t, p) \/ Respawn(t, p)
        PROVE  BusOK'
    BY <1>b, <2>1 DEF TakeExit, Salvage, Respawn
  <2> QED
    BY <1>u, <1>3, <1>4, <1>6, <2>1 DEF Monitor, CleanupGhosts, DropExit, ExitsDone,
       PauseOnExit
<1>7. CASE Loop
  <2>1. ASSUME NEW t \in Tasks, Launch(t)
        PROVE  BusOK'
    BY <1>b, <2>1 DEF Launch
  <2> QED
    BY <1>u, <1>6, <1>7, <2>1 DEF Loop, TakeMergeResult, MergesDone, PauseOnConflict,
       Advance, Claim, DispatchDone, EndCycle
<1>8. CASE MergeWorker \/ Operator
  BY <1>u, <1>8, MergeWorkerFrame DEF Operator, OperatorReviews, OperatorResumes
<1>9. CASE Environment
  BY <1>u, <1>2, <1>4, <1>9 DEF Environment, PhaseTimeout, Die, HeartbeatAges, LaunchLost,
     ThrottleExpires, DispatchFails, Crash
<1> QED
  BY <1>1, <1>5, <1>7, <1>8, <1>9 DEF Next

\* The steps that may change what is known of merges; the others leave it alone, and
\* none of them moves the loop on from where a failed merge is reported.
MergeStep ==
  \/ MergeWorker \/ TakeMergeResult \/ MergesDone \/ OperatorResumes \/ PauseOnConflict
  \/ Advance \/ StorageFails \/ Start

AwayFromMerges ==
  /\ UNCHANGED mergeVars
  /\ pc' = pc \/ Stopped' \/ ~(pc \in {"merges", "paused"} \/ Stopped)

LEMMA MergeFrame ==
  ASSUME Next
  PROVE  MergeStep \/ AwayFromMerges
<1> USE DEF AwayFromMerges, Stopped
<1>1. CASE CleanupGhosts \/ ConsumeRows \/ ApplyBus \/ DropExit \/ ExitsDone
  BY <1>1 DEF CleanupGhosts, ConsumeRows, ApplyBus, DropExit, ExitsDone, loopVars
<1>2. ASSUME NEW t \in Tasks, NEW p \in Procs,
             TakeExit(t, p) \/ PauseOnExit(t, p) \/ Salvage(t, p) \/ Respawn(t, p)
      PROVE  AwayFromMerges
  BY <1>2 DEF TakeExit, PauseOnExit, Salvage, Respawn, ExitTaken, loopVars
<1>3. ASSUME NEW t \in Tasks, Claim(t) \/ Launch(t) \/ LaunchLost(t) \/ HeartbeatAges(t)
      PROVE  AwayFromMerges
  BY <1>3 DEF Claim, Launch, LaunchLost, HeartbeatAges, loopVars
<1>4. CASE DispatchDone \/ EndCycle \/ OperatorReviews \/ DispatchFails \/ Crash
  BY <1>4 DEF DispatchDone, EndCycle, OperatorReviews, DispatchFails, Crash
<1>5. CASE \E p \in Procs : Performer(p)
  BY <1>5, PerformerFrame DEF loopVars
<1>6. CASE ThrottleExpires \/ \E p \in Procs : Heartbeat(p) \/ PhaseTimeout(p) \/ Die(p)
  BY <1>6 DEF ThrottleExpires, Heartbeat, PhaseTimeout, Die, performerUnchanged, loopVars
<1>7. CASE Loop
  <2>1. CASE Monitor
    BY <1>1, <1>2, <2>1 DEF Monitor
  <2> QED
    BY <1>3, <1>4, <1>7, <2>1 DEF Loop, MergeStep
<1>8. CASE Environment
  BY <1>3, <1>4, <1>6, <1>8 DEF Environment, MergeStep
<1> QED
  BY <1>4, <1>5, <1>7, <1>8 DEF Next, Operator, MergeStep

LEMMA MergeKept ==
  ASSUME IInv, Next
  PROVE  MergeOK'
<1>0. /\ mjobs \subseteq Tasks /\ workers \subseteq MergeJob
      /\ merges \in Seq(MergeResult) /\ failedMerge \subseteq MergeResult
  BY DEF IInv, TypeOK, MergeOK
<1> USE DEF MergeOK
<1>u. CASE UNCHANGED mergeVars
  BY <1>0, <1>u DEF mergeVars
<1>a. CASE AwayFromMerges
  BY <1>a, <1>u DEF AwayFromMerges
<1>o. ASSUME NEW w \in workers
      PROVE  w.task \in Tasks /\ [w EXCEPT !.orphan = TRUE] \in MergeJob
  BY <1>0 DEF MergeJob
<1>1. CASE MergeWorker
  <2>1. PICK w \in workers : FinishMerge(w) \/ MergeTimeout(w)
    BY <1>1 DEF MergeWorker
  <2>2. \A how \in {"ok", "conflict", "transient"} :
          Append(merges, [task |-> w.task, how |-> how]) \in Seq(MergeResult)
    <3>1. ASSUME NEW how \in {"ok", "conflict", "transient"}
          PROVE  [task |-> w.task, how |-> how] \in MergeResult
      BY <1>o DEF MergeResult
    <3> HIDE DEF MergeResult
    <3> QED
      BY <1>0, <3>1
  <2>3. CASE FinishMerge(w)
    BY <1>0, <2>2, <2>3 DEF FinishMerge
  <2>4. CASE MergeTimeout(w)
    BY <1>0, <1>o, <2>2, <2>4 DEF MergeTimeout
  <2> QED
    BY <2>1, <2>3, <2>4
<1>2. CASE TakeMergeResult
  <2>1. Head(merges) \in MergeResult /\ Tail(merges) \in Seq(MergeResult)
    BY <1>0, <1>2 DEF TakeMergeResult
  <2> QED
    BY <1>0, <1>2, <2>1 DEF TakeMergeResult
<1>3. CASE MergesDone \/ OperatorResumes
  BY <1>0, <1>3 DEF MergesDone, OperatorResumes
<1>4. CASE PauseOnConflict
  BY <1>0, <1>o, <1>4 DEF PauseOnConflict
<1>5. CASE Advance
  <2>1. CASE UNCHANGED <<mjobs, workers>>
    BY <1>0, <1>5, <2>1 DEF Advance
  <2>2. CASE ~UNCHANGED <<mjobs, workers>>
    <3>1. PICK t \in Mergeable :
            /\ mjobs' = mjobs \cup {t}
            /\ workers' = workers \cup
                 {[task |-> t, branch |-> task[t].wt, orphan |-> FALSE]}
      BY <1>5, <2>2 DEF Advance
    <3>2. t \in Tasks /\ task[t].wt # 0
      BY <3>1 DEF Mergeable, Planned
    <3>3. task[t].wt \in Branches
      BY <3>2 DEF IInv, TypeOK, Task
    <3> DEFINE w == [task |-> t, branch |-> task[t].wt, orphan |-> FALSE]
    <3>4. w \in MergeJob
      BY <3>2, <3>3 DEF MergeJob
    <3>5. UNCHANGED <<merges, failedMerge>>
      BY <1>5 DEF Advance
    <3> HIDE DEF w
    <3> QED
      BY <1>0, <3>1, <3>2, <3>4, <3>5 DEF w
  <2> QED
    BY <2>1, <2>2
<1>6. CASE StorageFails
  BY <1>0, <1>6 DEF StorageFails
<1>7. CASE Start
  BY <1>7 DEF Start
<1> QED
  BY <1>a, <1>1, <1>2, <1>3, <1>4, <1>5, <1>6, <1>7, MergeFrame DEF MergeStep

\* The counters the end of a cycle compares are numbers.
LEMMA CountsAreNat == Todo \in Nat /\ Active \in Nat /\ Blocked \in Nat
<1>1. \A S \in SUBSET Tasks : Cardinality(S) \in Nat
  BY TasksAssumption, FS_Subset, FS_CardinalityType
<1> QED
  BY <1>1 DEF Todo, Active, Blocked

LEMMA EndCycleKeeps ==
  ASSUME IInv, EndCycle
  PROVE  LoopOK'
<1>0. LoopOK
  BY DEF IInv, TypeOK
<1>1. pc' \in {"complete", "failed", "ghosts"}
  BY CountsAreNat DEF EndCycle
<1>2. Stalls \in Nat
  BY <1>0 DEF LoopOK, Stalls
<1>3. <<Todo, Active, Blocked>> \in Nat \X Nat \X Nat
  BY CountsAreNat
<1>4. run' = [run EXCEPT !.stall = Stalls, !.seen = <<Todo, Active, Blocked>>]
  BY DEF EndCycle
<1>5. round' = 1 /\ launching' = launching
  BY DEF EndCycle
<1> DEFINE stall == Stalls
           seen  == <<Todo, Active, Blocked>>
           Run   == [dispatched : Nat, stall : Nat, seen : {<<>>} \cup (Nat \X Nat \X Nat)]
<1>6. run' = [run EXCEPT !.stall = stall, !.seen = seen] /\ run \in Run
  BY <1>0, <1>4 DEF LoopOK
<1>7. stall \in Nat /\ seen \in {<<>>} \cup (Nat \X Nat \X Nat)
  BY <1>2, <1>3
<1> HIDE DEF stall, seen
<1>8. run' \in Run
  BY <1>6, <1>7
<1> QED
  BY <1>0, <1>1, <1>5, <1>8 DEF LoopOK

LEMMA LoopKept ==
  ASSUME IInv, Next
  PROVE  LoopOK'
<1>0. /\ LoopOK /\ round \in {1, 2, 3}
      /\ run \in [dispatched : Nat, stall : Nat, seen : {<<>>} \cup (Nat \X Nat \X Nat)]
  BY DEF IInv, TypeOK, LoopOK
<1>u. CASE UNCHANGED loopVars
  BY <1>0, <1>u DEF LoopOK, loopVars
<1>p. CASE /\ pc' \in {"ghosts", "consume", "apply", "exits", "review", "merges", "paused",
                       "advance", "dispatch", "launch", "end", "complete", "failed", "down"}
           /\ round' \in {round, 1, 2, 3} /\ launching' \in {launching, {}}
           /\ run' = run
  BY <1>0, <1>p DEF LoopOK
<1>1. CASE Start
  <2>1. NewRun \in [dispatched : Nat, stall : Nat, seen : {<<>>} \cup (Nat \X Nat \X Nat)]
    BY DEF NewRun
  <2> QED
    BY <1>1, <2>1 DEF Start, LoopOK
<1>2. CASE Monitor
  <2>1. CASE CleanupGhosts \/ ConsumeRows \/ ApplyBus \/ ExitsDone
    BY <1>p, <2>1 DEF CleanupGhosts, ConsumeRows, ApplyBus, ExitsDone
  <2>2. CASE DropExit
    BY <1>u, <2>2 DEF DropExit
  <2>3. ASSUME NEW t \in Tasks, NEW p \in Procs,
               TakeExit(t, p) \/ Salvage(t, p) \/ Respawn(t, p)
        PROVE  LoopOK'
    BY <1>u, <2>3 DEF TakeExit, Salvage, Respawn
  <2>4. ASSUME NEW t \in Tasks, NEW p \in Procs, PauseOnExit(t, p)
        PROVE  LoopOK'
    BY <1>p, <2>4 DEF PauseOnExit
  <2> QED
    BY <1>2, <2>1, <2>2, <2>3, <2>4 DEF Monitor
<1>3. AfterMerges \in {"advance", "dispatch", "end"}
  BY <1>0 DEF AfterMerges
<1>4. CASE MergesDone \/ OperatorResumes \/ OperatorReviews \/ PauseOnConflict
           \/ DispatchDone \/ Advance
  BY <1>3, <1>4, <1>p DEF MergesDone, OperatorResumes, OperatorReviews, PauseOnConflict,
     DispatchDone, Advance
<1>5. CASE TakeMergeResult
  <2>1. pc' \in {pc, "failed"} /\ UNCHANGED <<round, launching, run>>
    BY <1>5 DEF TakeMergeResult
  <2> QED
    BY <1>0, <2>1 DEF LoopOK
<1>6. ASSUME NEW t \in Tasks, Claim(t) \/ Launch(t)
      PROVE  LoopOK'
  BY <1>0, <1>6 DEF Claim, Launch, LoopOK
<1>7. CASE Loop
  BY <1>2, <1>4, <1>5, <1>6, <1>7, EndCycleKeeps DEF Loop
<1>8. CASE (\E p \in Procs : Performer(p)) \/ MergeWorker
  BY <1>u, <1>8, PerformerFrame, MergeWorkerFrame
<1>9. CASE Environment
  <2>1. CASE DispatchFails \/ StorageFails \/ Crash
    BY <1>p, <2>1 DEF DispatchFails, StorageFails, Crash
  <2>2. ASSUME NEW t \in Tasks, LaunchLost(t)
        PROVE  LoopOK'
    BY <1>p, <2>2 DEF LaunchLost
  <2>3. CASE ThrottleExpires \/ (\E t \in Tasks : HeartbeatAges(t))
             \/ \E p \in Procs : Heartbeat(p) \/ PhaseTimeout(p) \/ Die(p)
    BY <1>u, <2>3 DEF ThrottleExpires, HeartbeatAges, Heartbeat, PhaseTimeout, Die,
       performerUnchanged
  <2> QED
    BY <1>9, <2>1, <2>2, <2>3 DEF Environment
<1> QED
  BY <1>1, <1>4, <1>7, <1>8, <1>9 DEF Next, Operator

LEMMA EnvKept ==
  ASSUME IInv, Next
  PROVE  EnvOK'
<1>0. throttled \in BOOLEAN /\ deaths \in 0..MaxDeaths /\ restarts \in 0..MaxRestarts
  BY DEF IInv, TypeOK, EnvOK
<1>u. CASE UNCHANGED envVars
  BY <1>0, <1>u DEF EnvOK, envVars
<1>t. CASE throttled' \in BOOLEAN /\ UNCHANGED <<deaths, restarts>>
  BY <1>0, <1>t DEF EnvOK
<1>1. CASE Start
  <2>1. restarts' \in 0..MaxRestarts /\ UNCHANGED <<throttled, deaths>>
    <3>1. CASE nclaim = 0
      BY <1>0, <1>1, <3>1 DEF Start
    <3>2. CASE nclaim # 0
      BY <1>0, <1>1, <3>2, ScopeAssumption DEF Start
    <3> QED
      BY <3>1, <3>2
  <2> QED
    BY <1>0, <2>1 DEF EnvOK
<1>2. ASSUME NEW p \in Procs, Die(p)
      PROVE  EnvOK'
  BY <1>0, <1>2, ScopeAssumption DEF Die, EnvOK
<1>3. ASSUME NEW t \in Tasks, NEW p \in Procs, TakeExit(t, p)
      PROVE  EnvOK'
  BY <1>t, <1>3 DEF TakeExit
<1>4. CASE Advance \/ ThrottleExpires
  BY <1>t, <1>4 DEF Advance, ThrottleExpires
<1>5. CASE Monitor
  <2>1. CASE CleanupGhosts \/ ConsumeRows \/ ApplyBus
    BY <1>u, <2>1 DEF CleanupGhosts, ConsumeRows, ApplyBus
  <2>2. CASE DropExit \/ ExitsDone
    BY <1>u, <2>2 DEF DropExit, ExitsDone
  <2>3. ASSUME NEW t \in Tasks, NEW p \in Procs, PauseOnExit(t, p)
        PROVE  EnvOK'
    BY <1>u, <2>3 DEF PauseOnExit
  <2>4. ASSUME NEW t \in Tasks, NEW p \in Procs, Salvage(t, p)
        PROVE  EnvOK'
    BY <1>u, <2>4 DEF Salvage
  <2>5. ASSUME NEW t \in Tasks, NEW p \in Procs, Respawn(t, p)
        PROVE  EnvOK'
    BY <1>u, <2>5 DEF Respawn
  <2> QED
    BY <1>3, <1>5, <2>1, <2>2, <2>3, <2>4, <2>5 DEF Monitor
<1>6. CASE Loop
  BY <1>u, <1>4, <1>5, <1>6 DEF Loop, TakeMergeResult, MergesDone, PauseOnConflict, Claim,
     Launch, DispatchDone, EndCycle
<1>7. CASE (\E p \in Procs : Performer(p)) \/ MergeWorker \/ Operator
  BY <1>u, <1>7, PerformerFrame, MergeWorkerFrame DEF Operator, OperatorReviews,
     OperatorResumes
<1>8. CASE Environment
  BY <1>u, <1>2, <1>4, <1>8 DEF Environment, Heartbeat, PhaseTimeout, HeartbeatAges,
     LaunchLost, DispatchFails, StorageFails, Crash
<1> QED
  BY <1>1, <1>6, <1>7, <1>8 DEF Next

\* A claim is followed by the launch of its performer, in the task's worktree.
LaunchingOK ==
  /\ launching # {} => pc = "launch" \/ Stopped
  /\ \A t \in launching : task[t].wt \in Branches

LEMMA LaunchingKept ==
  ASSUME IInv, Next
  PROVE  LaunchingOK'
<1>0. LaunchingOK /\ launching \subseteq Tasks
  BY DEF IInv, WorkAssigned, LaunchingOK, TypeOK, LoopOK
<1>n. CASE launching' = {}
  BY <1>n DEF LaunchingOK
<1>u. CASE launching' = launching /\ UNCHANGED <<pc, task>>
  BY <1>0, <1>u DEF LaunchingOK, Stopped
<1>1. ASSUME NEW t \in Tasks, Claim(t)
      PROVE  LaunchingOK'
  <2>1. task[t] \in Task /\ task \in [Tasks -> Task]
    BY DEF IInv, TypeOK
  <2>2. task'[t].wt \in Branches
    BY <1>1, <2>1 DEF Claim, WorktreeForClaim, ApplyDispatchClaim, Attached, Task
  <2> QED
    BY <1>1, <2>2 DEF Claim, LaunchingOK
\* No step of the loop but the launch is taken between the claim and the launch.
<1>2. CASE Monitor
  <2> DEFINE Elsewhere == launching' = launching /\ pc \in {"ghosts", "consume", "apply", "exits"}
  <2>1. CASE CleanupGhosts \/ ConsumeRows \/ ApplyBus \/ DropExit \/ ExitsDone
    <3>1. Elsewhere
      BY <2>1 DEF CleanupGhosts, ConsumeRows, ApplyBus, DropExit, ExitsDone, loopVars
    <3> QED
      BY <1>0, <1>n, <3>1 DEF LaunchingOK, Stopped
  <2>2. ASSUME NEW t \in Tasks, NEW p \in Procs,
               TakeExit(t, p) \/ PauseOnExit(t, p) \/ Salvage(t, p) \/ Respawn(t, p)
        PROVE  LaunchingOK'
    <3>1. Elsewhere
      BY <2>2 DEF TakeExit, PauseOnExit, Salvage, Respawn, ExitTaken, loopVars
    <3> QED
      BY <1>0, <1>n, <3>1 DEF LaunchingOK, Stopped
  <2> QED
    BY <1>2, <2>1, <2>2 DEF Monitor
<1>3. CASE TakeMergeResult \/ MergesDone \/ PauseOnConflict \/ Advance \/ DispatchDone
           \/ EndCycle \/ Operator \/ StorageFails
  <2>1. launching' = launching /\ ~(pc = "launch" \/ Stopped)
    BY <1>3 DEF TakeMergeResult, MergesDone, PauseOnConflict, Advance, DispatchDone,
       EndCycle, Operator, OperatorReviews, OperatorResumes, StorageFails, Stopped
  <2> QED
    BY <1>0, <1>n, <2>1 DEF LaunchingOK
<1>4. CASE \E t \in Tasks : Launch(t) \/ LaunchLost(t)
  BY <1>n, <1>4 DEF Launch, LaunchLost
<1>5. CASE Start \/ DispatchFails
  BY <1>n, <1>5 DEF Start, DispatchFails
<1>6. CASE Crash
  BY <1>0, <1>6 DEF Crash, LaunchingOK, Stopped
<1>7. ASSUME NEW t \in Tasks, HeartbeatAges(t)
      PROVE  LaunchingOK'
  <2>1. task \in [Tasks -> Task] /\ \A u \in Tasks : task[u] \in Task
    BY DEF IInv, TypeOK
  <2>2. \A u \in Tasks : task'[u].wt = task[u].wt
    BY <1>7, <2>1 DEF HeartbeatAges, Task
  <2>3. UNCHANGED <<pc, launching>>
    BY <1>7 DEF HeartbeatAges, loopVars
  <2> QED
    BY <1>0, <2>2, <2>3 DEF LaunchingOK, Stopped
<1>8. CASE (\E p \in Procs : Performer(p)) \/ MergeWorker
  BY <1>u, <1>8, PerformerFrame, MergeWorkerFrame DEF loopVars
<1>9. CASE ThrottleExpires \/ \E p \in Procs : Heartbeat(p) \/ PhaseTimeout(p) \/ Die(p)
  BY <1>u, <1>9 DEF ThrottleExpires, Heartbeat, PhaseTimeout, Die, performerUnchanged,
     loopVars
<1> QED
  BY <1>1, <1>2, <1>3, <1>4, <1>5, <1>6, <1>7, <1>8, <1>9 DEF Next, Loop, Environment

-----------------------------------------------------------------------------
(* The theorems.                                                           *)

LEMMA InitialState ==
  ASSUME Init
  PROVE  IInv
<1>1. NewTask \in Task
  BY DEF NewTask, Task, WorkflowStates, RuntimeStatuses, ErrorClasses
<1>2. NoProcess \in Process /\ NoProcess.branch = 0 /\ NoProcess.st = "none"
  <2> DEFINE t == CHOOSE u \in Tasks : TRUE
             q == NewProcess(t, 0, 0, 0)
  <2>1. t \in Tasks
    BY TasksAssumption
  <2>2. 0 \in 0..MaxRestarts
    BY ScopeAssumption
  <2> HIDE DEF t
  <2>3. q \in Process /\ q.branch = 0
    BY <2>1, <2>2, InitialProcess
  <2>4. NoProcess = [q EXCEPT !.st = "none"]
    BY DEF NoProcess, t
  <2> HIDE DEF q
  <2> QED
    BY <2>3, <2>4 DEF Process
<1>3. NewRun \in [dispatched : Nat, stall : Nat, seen : {<<>>} \cup (Nat \X Nat \X Nat)]
  BY DEF NewRun
<1>4. task \in [Tasks -> Task] /\ GitOK
  BY <1>1, TasksAssumption DEF Init, GitOK
<1>5. ProcOK
  BY <1>2, NoJobType, BoundAssumption DEF Init, ProcOK
<1>6. BusOK /\ MergeOK
  <2>1. BusOK
    BY UpdateType DEF Init, BusOK
  <2>2. MergeOK
    BY DEF Init, MergeOK
  <2> QED
    BY <2>1, <2>2
<1>7. LoopOK /\ EnvOK
  <2>1. LoopOK
    <3>1. run = NewRun /\ pc = "down" /\ round = 1 /\ launching = {}
      BY DEF Init
    <3> HIDE DEF NewRun
    <3> QED
      BY <1>3, <3>1 DEF LoopOK
  <2>2. EnvOK
    <3>1. deaths \in 0..MaxDeaths /\ restarts \in 0..MaxRestarts
      BY ScopeAssumption DEF Init
    <3>2. throttled \in BOOLEAN
      BY DEF Init
    <3> QED
      BY <3>1, <3>2 DEF EnvOK
  <2> QED
    BY <2>1, <2>2
<1>8. WorkAssigned
  BY <1>2 DEF Init, WorkAssigned, HasJob, Busy
<1> QED
  BY <1>4, <1>5, <1>6, <1>7, <1>8 DEF IInv, TypeOK

LEMMA Stutters ==
  ASSUME IInv, UNCHANGED vars
  PROVE  IInv'
<1> USE DEF vars, gitVars, procVars, busVars, mergeVars, loopVars, envVars
<1>1. UNCHANGED <<task, ahead, dirty, delivered, proc, nproc, nclaim, jobs, exits, rows,
                  bus, mjobs, workers, merges, failedMerge, pc, round, launching, run,
                  throttled, deaths, restarts>>
  OBVIOUS
<1> QED
  BY <1>1 DEF IInv, TypeOK, GitOK, ProcOK, BusOK, MergeOK, LoopOK, EnvOK, WorkAssigned,
     HasJob, Stopped

LEMMA Inductive ==
  ASSUME IInv, [Next]_vars
  PROVE  IInv'
<1>1. CASE Next
  <2>1. task' \in [Tasks -> Task]
    BY <1>1, RegistryKept DEF IInv, Kept
  <2>2. ProcsKept /\ JobsKept /\ QueueKept
    BY <1>1, ProcessesKept, JobsAreKept, QueuesAreKept
  <2>3. ProcOK'
    BY <2>2 DEF ProcOK, ProcsKept, JobsKept, QueueKept
  <2>4. GitOK' /\ BusOK' /\ MergeOK' /\ LoopOK' /\ EnvOK'
    BY <1>1, GitKept, BusKept, MergeKept, LoopKept, EnvKept
  <2>5. LaunchingOK'
    BY <1>1, LaunchingKept
  <2>6. WorkAssigned'
    BY <2>2, <2>5 DEF WorkAssigned, LaunchingOK, ProcsKept, JobsKept, HasJob, Stopped
  <2> QED
    BY <2>1, <2>3, <2>4, <2>6 DEF IInv, TypeOK
<1>2. CASE UNCHANGED vars
  BY <1>2, Stutters
<1> QED
  BY <1>1, <1>2

\* Whatever the tasks, their dependencies and the limits are, every variable of the
\* coordinator holds what it is declared to hold, in every state of every run.
THEOREM TypeCorrect == Spec => []TypeOK
<1>1. Init => IInv
  BY InitialState
<1>2. IInv /\ [Next]_vars => IInv'
  BY Inductive
<1>3. IInv => TypeOK
  BY DEF IInv
<1> QED
  BY <1>1, <1>2, <1>3, PTL DEF Spec

\* A performer, however it came to run, works in a branch of its own task's claim and
\* never in the repository root: the processes, the jobs that wait for them, and the
\* claims about to be launched all name a branch.
THEOREM WorkHasABranch == Spec => []WorkAssigned
<1>1. Init => IInv
  BY InitialState
<1>2. IInv /\ [Next]_vars => IInv'
  BY Inductive
<1>3. IInv => WorkAssigned
  BY DEF IInv
<1> QED
  BY <1>1, <1>2, <1>3, PTL DEF Spec


\* max_review_cycles holds for every task, through every interleaving of phases,
\* failures, recoveries and restarts: a review is planned only below the limit, and
\* nothing else counts one.
THEOREM ReviewBudgetHolds == Spec => []ReviewsBounded
<1>1. Init => IInv /\ ReviewsBounded
  <2>1. Init => ReviewsBounded
    BY PhaseAssumption DEF Init, NewTask, ReviewsBounded
  <2> QED
    BY <2>1, InitialState
<1>2. IInv /\ ReviewsBounded /\ [Next]_vars => IInv' /\ ReviewsBounded'
  <2> SUFFICES ASSUME IInv, ReviewsBounded, [Next]_vars
               PROVE  ReviewsBounded'
    BY Inductive
  <2>1. CASE Next
    <3>1. ASSUME ReviewsCapped, NEW t \in Tasks
          PROVE  task'[t].reviews <= MaxReviewCycles
      <4>1. task[t].reviews <= MaxReviewCycles
        BY <3>1 DEF ReviewsBounded
      <4>2. Within(task[t], task'[t]) \/ task'[t].reviews = task[t].reviews
        BY <2>1, RegistryKept DEF IInv, Kept
      <4> QED
        BY <3>1, <4>1, <4>2 DEF Within
    <3> QED
      BY <3>1 DEF ReviewsBounded
  <2>2. CASE UNCHANGED vars
    BY <2>2 DEF vars, ReviewsBounded
  <2> QED
    BY <2>1, <2>2
<1> QED
  BY <1>1, <1>2, PTL DEF Spec

\* The retry counter stays within the larger of phase_runner_max_attempts and
\* error_code_retry_max, whichever exits, reports and recoveries raise it; the "retry"
\* stale action, which counts without a look at either, is assumed not to be chosen.
THEOREM RetryBudgetHolds ==
  ASSUME StaleAction # "retry"
  PROVE  Spec => []RetriesBounded
<1>1. Init => IInv /\ RetriesBounded
  <2>1. Init => RetriesBounded
    BY AttemptsAssumption, AutoRetryAssumption DEF Init, NewTask, RetriesBounded
  <2> QED
    BY <2>1, InitialState
<1>2. IInv /\ RetriesBounded /\ [Next]_vars => IInv' /\ RetriesBounded'
  <2> SUFFICES ASSUME IInv, RetriesBounded, [Next]_vars
               PROVE  RetriesBounded'
    BY Inductive
  <2>1. CASE Next
    <3>1. ASSUME NEW t \in Tasks
          PROVE  task'[t].retries <= RetryBudget
      <4>1. task[t].retries <= RetryBudget
        BY DEF RetriesBounded, RetryBudget
      <4>2. Within(task[t], task'[t])
        BY <2>1, RegistryKept DEF IInv, Kept
      <4> QED
        BY <4>1, <4>2 DEF Within
    <3> QED
      BY <3>1 DEF RetriesBounded, RetryBudget
  <2>2. CASE UNCHANGED vars
    BY <2>2 DEF vars, RetriesBounded
  <2> QED
    BY <2>1, <2>2
<1> QED
  BY <1>1, <1>2, PTL DEF Spec

-----------------------------------------------------------------------------
(* Merges.                                                                 *)

Pending(t, ws, ms) ==
  \/ \E w \in ws : w.task = t /\ ~w.orphan
  \/ \E i \in DOMAIN ms : ms[i].task = t

\* MergesAnswered, whether the run goes on or not.
Answered == \A t \in mjobs : Pending(t, workers, merges)

\* Taking the first result leaves the others; adding one loses none.
LEMMA PendingInTail ==
  ASSUME NEW t, NEW ws, NEW ms \in Seq(MergeResult), ms # <<>>, Pending(t, ws, ms),
         t # Head(ms).task
  PROVE  Pending(t, ws, Tail(ms))
<1>1. CASE \E w \in ws : w.task = t /\ ~w.orphan
  BY <1>1 DEF Pending
<1>2. CASE \E i \in DOMAIN ms : ms[i].task = t
  <2>1. PICK i \in DOMAIN ms : ms[i].task = t
    BY <1>2
  <2>2. i \in 1..Len(ms) /\ i # 1
    BY <2>1
  <2>3. i - 1 \in DOMAIN Tail(ms) /\ Tail(ms)[i - 1] = ms[i]
    BY <2>2
  <2> QED
    BY <2>1, <2>3 DEF Pending
<1> QED
  BY <1>1, <1>2 DEF Pending

LEMMA PendingAppended ==
  ASSUME NEW t, NEW ws, NEW w, NEW us, NEW ms \in Seq(MergeResult), NEW m \in MergeResult,
         ws \ {w} \subseteq us, Pending(t, ws, ms), m.task = w.task
  PROVE  Pending(t, us, Append(ms, m))
<1>1. CASE \E v \in ws : v.task = t /\ ~v.orphan
  <2>1. PICK v \in ws : v.task = t /\ ~v.orphan
    BY <1>1
  <2>2. CASE v = w
    <3>1. Len(ms) + 1 \in DOMAIN Append(ms, m) /\ Append(ms, m)[Len(ms) + 1] = m
      OBVIOUS
    <3> QED
      BY <2>1, <2>2, <3>1 DEF Pending
  <2>3. CASE v # w
    BY <2>1, <2>3 DEF Pending
  <2> QED
    BY <2>2, <2>3
<1>2. CASE \E i \in DOMAIN ms : ms[i].task = t
  <2>1. PICK i \in DOMAIN ms : ms[i].task = t
    BY <1>2
  <2>2. i \in DOMAIN Append(ms, m) /\ Append(ms, m)[i] = ms[i]
    BY <2>1
  <2> QED
    BY <2>1, <2>2 DEF Pending
<1> QED
  BY <1>1, <1>2 DEF Pending

LEMMA AnsweredKept ==
  ASSUME IInv, Answered, Next
  PROVE  Answered'
<1>0. merges \in Seq(MergeResult) /\ workers \subseteq MergeJob
  BY DEF IInv, TypeOK, MergeOK
<1>u. CASE UNCHANGED <<mjobs, workers, merges>>
  BY <1>u DEF Answered, Pending
<1>n. CASE mjobs' = {}
  BY <1>n DEF Answered
<1>1. CASE MergeWorker
  <2>1. PICK w \in workers : FinishMerge(w) \/ MergeTimeout(w)
    BY <1>1 DEF MergeWorker
  <2>2. \A how \in {"ok", "conflict", "transient"} :
          LET m == [task |-> w.task, how |-> how] IN m \in MergeResult /\ m.task = w.task
    BY <1>0 DEF MergeResult, MergeJob
  <2>3. mjobs' = mjobs /\ workers \ {w} \subseteq workers'
    BY <2>1 DEF FinishMerge, MergeTimeout
  <2>4. CASE merges' = merges
    <3>1. FinishMerge(w) /\ w.orphan
      <4>1. \A m : Append(merges, m) # merges
        <5>1. \A m : Len(Append(merges, m)) = Len(merges) + 1 /\ Len(merges) \in Nat
          BY <1>0
        <5> QED
          BY <5>1
      <4> QED
        BY <2>1, <2>4, <4>1 DEF FinishMerge, MergeTimeout
    <3> QED
      BY <2>3, <2>4, <3>1 DEF Answered, Pending
  <2>5. CASE merges' # merges
    <3>1. PICK how \in {"ok", "conflict", "transient"} :
            merges' = Append(merges, [task |-> w.task, how |-> how])
      BY <2>1, <2>5 DEF FinishMerge, MergeTimeout
    <3> QED
      BY <1>0, <2>2, <2>3, <3>1, PendingAppended DEF Answered
  <2> QED
    BY <2>4, <2>5
<1>2. CASE workers' = workers /\ merges # <<>> /\ merges' = Tail(merges)
           /\ mjobs' = mjobs \ {Head(merges).task}
  BY <1>0, <1>2, PendingInTail DEF Answered
<1>3. CASE TakeMergeResult
  BY <1>2, <1>3 DEF TakeMergeResult
<1>4. CASE StorageFails
  <2>1. CASE merges' = merges
    BY <1>4, <1>u, <2>1 DEF StorageFails
  <2>2. CASE merges' # merges
    BY <1>2, <1>4, <2>2 DEF StorageFails
  <2> QED
    BY <2>1, <2>2
<1>5. CASE Advance
  <2>1. CASE UNCHANGED <<mjobs, workers>>
    BY <1>5, <1>u, <2>1 DEF Advance
  <2>2. CASE ~UNCHANGED <<mjobs, workers>>
    <3>1. PICK t \in Mergeable :
            /\ mjobs' = mjobs \cup {t}
            /\ workers' = workers \cup
                 {[task |-> t, branch |-> task[t].wt, orphan |-> FALSE]}
      BY <1>5, <2>2 DEF Advance
    <3>2. merges' = merges
      BY <1>5 DEF Advance
    <3>3. Pending(t, workers', merges')
      <4> DEFINE w == [task |-> t, branch |-> task[t].wt, orphan |-> FALSE]
      <4>1. w.task = t /\ ~w.orphan
        OBVIOUS
      <4>2. w \in workers'
        BY <3>1
      <4> HIDE DEF w
      <4> QED
        BY <4>1, <4>2 DEF Pending
    <3> QED
      BY <3>1, <3>2, <3>3 DEF Answered, Pending
  <2> QED
    BY <2>1, <2>2
<1>6. CASE MergesDone \/ OperatorResumes
  BY <1>6, <1>u DEF MergesDone, OperatorResumes
<1>7. CASE PauseOnConflict \/ Start
  BY <1>7, <1>n DEF PauseOnConflict, Start
<1>8. CASE AwayFromMerges
  BY <1>8, <1>u DEF AwayFromMerges, mergeVars
<1> QED
  BY <1>1, <1>3, <1>4, <1>5, <1>6, <1>7, <1>8, MergeFrame DEF MergeStep

\* Every merge the run waits for is answered: late answers, conflicts that stop the
\* run, and storage errors that lose a result never leave a job without a worker that
\* reports or a result on its way.
THEOREM MergesAreAnswered == Spec => []MergesAnswered
<1>1. Init => IInv /\ Answered
  BY InitialState DEF Init, Answered
<1>2. IInv /\ Answered /\ [Next]_vars => IInv' /\ Answered'
  <2>1. ASSUME IInv, Answered, UNCHANGED vars
        PROVE  Answered'
    BY <2>1 DEF vars, mergeVars, Answered, Pending
  <2> QED
    BY <2>1, AnsweredKept, Inductive
<1>3. Answered => MergesAnswered
  BY DEF Answered, Pending, MergesAnswered
<1> QED
  BY <1>1, <1>2, <1>3, PTL DEF Spec

\* A merge runs, or its result waits to be read, or its failure waits to be reported:
\* never two of these. A result is read before the next merge is started.
OneAtATime ==
  /\ \A v, w \in workers : v = w
  /\ workers # {} => mjobs # {} /\ merges = <<>>
  /\ merges # <<>> => mjobs # {} /\ Tail(merges) = <<>>
  /\ failedMerge # {} =>
       workers = {} /\ merges = <<>> /\ (pc \in {"merges", "paused"} \/ Stopped)

LEMMA OneAtATimeKept ==
  ASSUME "timeout" \notin MergeOutcomes, IInv, OneAtATime, Next
  PROVE  OneAtATime'
<1> USE DEF OneAtATime
<1>0. merges \in Seq(MergeResult) /\ workers \subseteq MergeJob
  BY DEF IInv, TypeOK, MergeOK
<1>1. CASE MergeWorker
  <2>1. PICK w \in workers : FinishMerge(w)
    BY <1>1 DEF MergeWorker, MergeTimeout
  <2>2. workers' = {} /\ UNCHANGED <<mjobs, failedMerge>> /\ mjobs # {} /\ merges = <<>>
        /\ failedMerge = {}
    BY <2>1 DEF FinishMerge
  <2>3. \A m : Tail(Append(<<>>, m)) = <<>>
    OBVIOUS
  <2>4. merges' = <<>> \/ \E m : merges' = Append(<<>>, m)
    BY <2>1, <2>2 DEF FinishMerge
  <2> QED
    BY <2>2, <2>3, <2>4
<1>2. CASE TakeMergeResult
  <2>1. workers' = {} /\ merges' = <<>> /\ pc = "merges" /\ pc' \in {"merges", "failed"}
    BY <1>2 DEF TakeMergeResult
  <2> QED
    BY <2>1 DEF Stopped
<1>3. CASE MergesDone \/ OperatorResumes
  BY <1>3 DEF MergesDone, OperatorResumes
<1>4. CASE PauseOnConflict
  <2>1. workers = {} /\ merges' = merges /\ merges = <<>> /\ pc' = "paused"
    BY <1>4 DEF PauseOnConflict
  <2>2. workers' = {}
    BY <1>4, <2>1 DEF PauseOnConflict
  <2> QED
    BY <2>1, <2>2
<1>5. CASE Advance
  <2>1. failedMerge = {} /\ failedMerge' = {} /\ merges' = merges
    BY <1>5 DEF Advance, Stopped
  <2>2. CASE UNCHANGED <<mjobs, workers>>
    BY <2>1, <2>2
  <2>3. CASE ~UNCHANGED <<mjobs, workers>>
    <3>1. PICK t \in Mergeable :
            /\ mjobs' = mjobs \cup {t}
            /\ workers' = workers \cup
                 {[task |-> t, branch |-> task[t].wt, orphan |-> FALSE]}
      BY <1>5, <2>3 DEF Advance
    <3>2. mjobs = {}
      BY <3>1 DEF Mergeable
    <3> DEFINE w == [task |-> t, branch |-> task[t].wt, orphan |-> FALSE]
    <3>3. workers' = {w} /\ mjobs' # {} /\ merges' = <<>>
      BY <2>1, <3>1, <3>2
    <3> HIDE DEF w
    <3> QED
      BY <2>1, <3>3
  <2> QED
    BY <2>2, <2>3
<1>6. CASE StorageFails
  <2>1. failedMerge' = {} /\ workers' = workers
    BY <1>6 DEF StorageFails
  <2>2. CASE merges' = merges
    BY <1>6, <2>1, <2>2 DEF StorageFails
  <2>3. CASE merges' # merges
    BY <1>6, <2>1, <2>3 DEF StorageFails
  <2> QED
    BY <2>2, <2>3
<1>7. CASE Start
  BY <1>7 DEF Start
<1>8. CASE AwayFromMerges
  BY <1>8 DEF AwayFromMerges, mergeVars, Stopped
<1> QED
  BY <1>1, <1>2, <1>3, <1>4, <1>5, <1>6, <1>7, <1>8, MergeFrame DEF MergeStep

\* Two merges never share the repository as long as no merge outlives its timeout:
\* neither storage errors, conflicts and operators nor restarts of the run break it. A
\* worker that is given up on runs on, so the assumption is needed.
THEOREM OneMergeAtATime ==
  ASSUME "timeout" \notin MergeOutcomes
  PROVE  Spec => []OneMerge
<1>1. Init => IInv /\ OneAtATime
  BY InitialState DEF Init, OneAtATime
<1>2. IInv /\ OneAtATime /\ [Next]_vars => IInv' /\ OneAtATime'
  <2>1. ASSUME IInv, OneAtATime, UNCHANGED vars
        PROVE  OneAtATime'
    BY <2>1 DEF vars, mergeVars, loopVars, OneAtATime, Stopped
  <2> QED
    BY <2>1, OneAtATimeKept, Inductive
<1>3. OneAtATime => OneMerge
  <2> SUFFICES ASSUME OneAtATime
               PROVE  OneMerge
    OBVIOUS
  <2>1. CASE workers = {}
    BY <2>1, FS_EmptySet DEF OneMerge
  <2>2. CASE workers # {}
    <3>1. PICK w \in workers : TRUE
      BY <2>2
    <3>2. workers = {w}
      BY <3>1 DEF OneAtATime
    <3>3. Cardinality(workers) = 1
      BY <3>2, FS_Singleton
    <3> QED
      BY <3>3 DEF OneMerge
  <2> QED
    BY <2>1, <2>2
<1> QED
  BY <1>1, <1>2, <1>3, PTL DEF Spec
=============================================================================
