--------------------------- MODULE RegistryProofs ---------------------------
(***************************************************************************)
(* What every step of the coordinator does to the records of the registry, *)
(* and what follows from it alone: the laws of claims, and the tasks that  *)
(* wait for others.                                                        *)
(***************************************************************************)
EXTENDS CoordinatorInvariants, CoordinatorProofs

-----------------------------------------------------------------------------
(* Moves: what an operator of the loop may make of a record.               *)

\* The claim and the branches of a record are left alone.
SamePlace(r, s) == s.claim = r.claim /\ s.wt = r.wt /\ s.last = r.last

Stays(r, s) ==
  SamePlace(r, s) /\ s.wf = r.wf /\ s.err = r.err /\ s.pid \in {r.pid, 0}

\* Only a task at work goes stale.
StaleMove(r, s) ==
  /\ StaleAction = "block" /\ ~PastWork(r)
  /\ SamePlace(r, s) /\ s.wf = "blocked" /\ s.err = r.err /\ s.pid = 0

GhostMove(r, s) ==
  /\ Ghost(r)
  /\ s.claim = r.claim /\ s.last = r.last /\ s.pid = 0 /\ s.err = "other"
  /\ \/ r.wf = "claimed" /\ s.wf = "todo" /\ s.wt = 0
     \/ s.wf = "blocked" /\ s.wt = r.wt

DepMove(r, s) ==
  /\ SamePlace(r, s) /\ s.pid = r.pid
  /\ \/ s.wf = r.wf /\ s.err = r.err
     \/ r.wf = "todo" /\ s.wf = "blocked" /\ s.err = "dep"
     \/ r.wf = "blocked" /\ r.err = "dep" /\ s.wf = "todo" /\ s.err = "none"

PhaseMove(r, s) ==
  /\ r.wf \in MergeSources
  /\ SamePlace(r, s) /\ s.pid = 0 /\ s.err \in {r.err, "other", "avail"}
  /\ s.wf \in MergeSources \cup {"blocked"}

MergeMove(r, s, ok) ==
  /\ r.wf \in MergeSources
  /\ SamePlace(r, s) /\ s.pid = 0 /\ s.err = r.err
  /\ s.wf = IF ok THEN "merged" ELSE "blocked"

ResumeMove(r, s) ==
  SamePlace(r, s) /\ s.pid = 0 /\ s.err = r.err /\ s.wf = "queued"

\* The record a decision leaves: only a task put back to todo may give up its
\* worktree.
ExitMove(r, s, do) ==
  /\ s.claim = r.claim /\ s.last \in {r.last, r.wt} /\ s.wt \in {r.wt, 0} /\ s.pid = 0
  /\ CASE do \in {"reported", "auto", "avail"} -> s.wf = "todo" /\ s.err \in {"other", "avail"}
       [] do \in {"blockReport", "blockBudget", "blockFailure"} ->
            s.wf = "blocked" /\ s.err = "other"
       [] do = "attempt" -> s.wf = "claimed" /\ s.err = "other" /\ s.wt = r.wt
       [] do = "merge"   -> s.wf = "merged" /\ s.err = r.err /\ s.wt = r.wt
       [] do = "done"    -> s.wf = "in_progress" /\ s.err = r.err /\ s.wt = r.wt

\* Past the sync of the registry, a start leaves a record where it is, or
\* closes, requeues or blocks it.
SweepMove(t, r, s) ==
  /\ s.claim = r.claim /\ s.last = r.last /\ s.pid \in {r.pid, 0}
  /\ s.err \in {r.err, "other"}
  /\ \/ s.wf = r.wf /\ s.wt = r.wt
     \/ r.wf # "merged" /\ s.wf = "merged" /\ t \in delivered /\ s.wt = 0 /\ s.pid = 0
     \/ /\ r.wf = "merged" => r.pid # 0
        /\ \/ s.wf = "todo" /\ s.wt = 0
           \/ s.wf = "blocked" /\ s.err = "other" /\ s.wt = r.wt

StartMove(t, r, s) == \E m \in Task : DepMove(r, m) /\ SweepMove(t, m, s)

LEMMA ExorcisedMoves ==
  ASSUME NEW r \in Task
  PROVE  Exorcised(r) = r \/ GhostMove(r, Exorcised(r))
BY DEF Exorcised, GhostMove, Task

LEMMA UpdateMoves ==
  ASSUME NEW r \in Task, NEW u \in Update
  PROVE  Stays(r, ApplyUpdate(r, u))
BY DEF ApplyUpdate, Stays, SamePlace, Task

LEMMA ReconcileMoves ==
  ASSUME NEW reg \in [Tasks -> Task], NEW t \in Tasks
  PROVE  DepMove(reg[t], ReconcileTaskBlocks(reg)[t])
BY DEF ReconcileTaskBlocks, DepMove, SamePlace, Task

LEMMA MergeResultMoves ==
  ASSUME NEW r \in Task, NEW ok \in BOOLEAN, MergeResultApplies(r, ok)
  PROVE  MergeMove(r, ApplyMergeResult(r, ok), ok)
BY DEF MergeResultApplies, ApplyMergeResult, MergeMove, SamePlace, Task, MergeResultTo, Checked

LEMMA ResumeMoves ==
  ASSUME NEW r \in Task
  PROVE  ResumeMove(r, ResumeMerge(r))
BY DEF ResumeMerge, ResumeMove, SamePlace, Task

LEMMA StrategyMoves ==
  ASSUME NEW r \in Task, NEW s \in Strategies, NEW code
  PROVE  ExitMove(r, ApplyStrategy(r, s, code), s.do)
BY DEF ApplyStrategy, ExitMove, Task, Strategies, Block, Requeue, Attached

\* The plan a phase is run by: the planned phase, or the fix that fails because
\* the reviews are spent.
PlanOf(r, plan) ==
  \/ plan = PlanAdvance(r) /\ plan.kind = "phase"
  \/ plan = FixPhase /\ PlanAdvance(r).kind = "exhausted"

LEMMA OutcomeTargets ==
  ASSUME NEW r, NEW plan, NEW outcome \in {"ok", "changes", "failed"}, PlanOf(r, plan)
  PROVE  /\ r.wf \in MergeSources
         /\ OutcomeTo(r, plan, outcome) \subseteq MergeSources \cup {"blocked"}
<1>1. r.wf \in MergeSources
  BY DEF PlanOf, PlanAdvance, MergeSources
<1>2. \E mode, next : /\ plan = Phase(mode, next)
                      /\ next \in {"testing", "reviewing", "in_progress"}
  BY DEF PlanOf, PlanAdvance, ReviewOrMerge, MergePlan, Phase, FixPhase
<1>3. PICK mode, next : /\ plan = Phase(mode, next)
                        /\ next \in {"testing", "reviewing", "in_progress"}
  BY <1>2
<1>4. plan.mode = mode /\ plan.next = next
  BY <1>3 DEF Phase
<1> DEFINE nx == IF plan.mode = "review" THEN "pr_open" ELSE plan.next
<1>5. nx \in MergeSources
  BY <1>3, <1>4 DEF MergeSources
<1> HIDE DEF nx
<1>6. PhaseSucceededTo(r.wf, plan.mode, nx) \subseteq MergeSources \cup {"blocked"}
  BY <1>5 DEF PhaseSucceededTo, MergeSources
<1>7. PhaseFailedTo(r.wf, plan.mode) \subseteq MergeSources \cup {"blocked"}
  BY DEF PhaseFailedTo, MergeSources
<1>8. ChangesRequestedTo(r.wf) \subseteq MergeSources \cup {"blocked"}
  BY DEF ChangesRequestedTo, MergeSources
<1>9. OutcomeTo(r, plan, outcome) \subseteq MergeSources \cup {"blocked"}
  BY <1>6, <1>7, <1>8 DEF OutcomeTo, Checked, nx
<1> QED
  BY <1>1, <1>9
\* A phase, and the fix that failed because the reviews are spent.
LEMMA PhaseMoves ==
  ASSUME NEW r \in Task, NEW outcome \in {"ok", "changes", "failed"},
         NEW plan, PlanOf(r, plan)
  PROVE  PhaseMove(r, ApplyPhaseOutcome(r, plan, outcome))
<1> DEFINE to == OutcomeTo(r, plan, outcome)
           wf == CHOOSE s \in to : TRUE
<1>1. to # {} => wf \in MergeSources \cup {"blocked"}
  BY OutcomeTargets
<1>2. r.wf \in MergeSources
  BY OutcomeTargets
<1> HIDE DEF to, wf
<1> QED
  BY <1>1, <1>2 DEF ApplyPhaseOutcome, PhaseMove, SamePlace, Task, to, wf

LEMMA UnavailableMoves ==
  ASSUME NEW r \in Task, PlanAdvance(r).kind = "phase"
  PROVE  PhaseMove(r, ApplyToolUnavailable(r))
BY DEF PlanAdvance, MergeSources, ApplyToolUnavailable, PhaseMove, SamePlace, Task

\* The registry synced: a record whose block is set or lifted is no ghost's.
LEMMA SyncMoves ==
  ASSUME TypeOK, NEW t \in Tasks
  PROVE  LET m == SyncedRegistry[t]
         IN /\ m \in Task /\ DepMove(task[t], m)
            /\ m = task[t] \/ m.rt \in {"failed", "idle"}
<1>1. task \in [Tasks -> Task]
  BY DEF TypeOK
<1>2. LET m == SyncedRegistry[t] IN m \in Task /\ DepMove(task[t], m)
  BY <1>1, ReconcileKeeps, ReconcileMoves DEF SyncedRegistry
<1>3. LET m == SyncedRegistry[t] IN m = task[t] \/ m.rt \in {"failed", "idle"}
  BY <1>1 DEF SyncedRegistry, ReconcileTaskBlocks, Task
<1> QED
  BY <1>2, <1>3

LEMMA StartupMoves ==
  ASSUME TypeOK, NEW t \in Tasks
  PROVE  /\ SyncedRegistry[t] \in Task /\ DepMove(task[t], SyncedRegistry[t])
         /\ SweepMove(t, SyncedRegistry[t], Startup(t))
<1> DEFINE r0 == SyncedRegistry[t]
           r1 == Synced(t, r0)
           r2 == Exorcised(r1)
           r3 == ApplyUpdate(r2, rows[t])
<1>1. r0 \in Task /\ rows[t] \in Update /\ DepMove(task[t], r0)
  BY SyncMoves DEF TypeOK, BusOK
<1>2. r1 \in Task
  BY <1>1, SyncedKeeps
<1>3. r2 \in Task
  BY <1>2, ExorcisedKeeps
<1>4. r3 \in Task
  BY <1>1, <1>3, UpdateKeeps
<1>5. \/ r1 = r0
      \/ /\ SamePlace([r0 EXCEPT !.wt = 0], r1) /\ r1.wf = "merged" /\ r1.pid = 0 /\ r1.err = r0.err
         /\ t \in delivered /\ r0.wf # "merged"
  BY <1>1 DEF Synced, SamePlace, IsActive, Task
<1>6. r2 = r1 \/ (GhostMove(r1, r2) /\ r1.pid # 0)
  BY <1>2, ExorcisedMoves DEF GhostMove, Ghost
<1>7. Stays(r2, r3)
  BY <1>1, <1>3, UpdateMoves
<1>8. LET s == Swept(r3) IN
      /\ s.claim = r3.claim /\ s.last = r3.last /\ s.pid = r3.pid
      /\ \/ s.wf = r3.wf /\ s.wt = r3.wt /\ s.err \in {r3.err, "other"}
         \/ s.wf = "todo" /\ r3.wf # "merged" /\ s.wt = 0 /\ s.err \in {r3.err, "other"}
         \/ s.wf = "blocked" /\ s.err = "other" /\ s.wt = r3.wt
            /\ r3.wf # "merged" /\ (r3.wf = "todo" => r3.wt # 0)
  BY <1>4 DEF Swept, SweepParked, Requeued, Task, IsActive, Attached
<1> DEFINE s == Swept(r3)
<1> SUFFICES SweepMove(t, r0, s)
  BY <1>1 DEF Startup
<1> HIDE DEF r0, r1, r2, r3, s
<1>10. CASE r1 = r0 /\ r2 = r1
  BY <1>7, <1>8, <1>10 DEF SweepMove, Stays, SamePlace, s
<1>11. CASE r1 = r0 /\ GhostMove(r1, r2) /\ r1.pid # 0
  BY <1>7, <1>8, <1>11 DEF SweepMove, Stays, SamePlace, GhostMove, s
<1>12. CASE r1 # r0
  <2>1. r1.wf = "merged" /\ r1.pid = 0 /\ r1.wt = 0 /\ r1.claim = r0.claim /\ r1.last = r0.last
    BY <1>1, <1>5, <1>12 DEF SamePlace, Task
  <2>2. r2 = r1
    BY <1>6, <2>1
  <2> QED
    BY <1>5, <1>7, <1>8, <1>12, <2>1, <2>2 DEF SweepMove, Stays, SamePlace, s
<1> QED
  BY <1>6, <1>10, <1>11, <1>12

-----------------------------------------------------------------------------
(* The same, for the actions.                                              *)

LEMMA Records ==
  ASSUME TypeOK
  PROVE  task \in [Tasks -> Task] /\ \A t \in Tasks : task[t] \in Task
BY DEF TypeOK

\* The completion of t is applied: other records move with the tasks they wait for.
LEMMA CompletedMoves ==
  ASSUME TypeOK, NEW t \in Tasks, NEW r \in Task, NEW u \in Tasks
  PROVE  DepMove(IF u = t THEN r ELSE task[u], Completed(t, r)[u])
<1> DEFINE reg == [task EXCEPT ![t] = r]
<1>1. reg \in [Tasks -> Task] /\ reg[u] = IF u = t THEN r ELSE task[u]
  BY Records
<1> HIDE DEF reg
<1>2. DepMove(reg[u], ReconcileTaskBlocks(reg)[u])
  BY <1>1, ReconcileMoves
<1> QED
  BY <1>1, <1>2 DEF Completed, reg

LEMMA GhostsMove ==
  ASSUME TypeOK, CleanupGhosts, NEW t \in Tasks
  PROVE  DepMove(task[t], task'[t]) \/ GhostMove(task[t], task'[t])
<1> DEFINE m == SyncedRegistry[t]
<1>1. task'[t] = Exorcised(m)
  BY DEF CleanupGhosts
<1>2. /\ m \in Task /\ DepMove(task[t], m)
      /\ m = task[t] \/ m.rt \in {"failed", "idle"}
  BY SyncMoves
<1> HIDE DEF m
<1>3. Exorcised(m) = m \/ GhostMove(m, Exorcised(m))
  BY <1>2, ExorcisedMoves
<1> QED
  BY <1>1, <1>2, <1>3 DEF GhostMove, Ghost

LEMMA BusMoves ==
  ASSUME TypeOK, Calm, Default, ApplyBus, NEW t \in Tasks
  PROVE  Stays(task[t], task'[t]) \/ StaleMove(task[t], task'[t])
<1> DEFINE r == ApplyUpdate(task[t], bus[t])
<1>1. task'[t] = StalePolicy(t, r)
  BY DEF ApplyBus
<1>2. r \in Task /\ Stays(task[t], r)
  BY Records, UpdateMoves, UpdateKeeps DEF TypeOK, BusOK
<1>3. ASSUME StaleAction = "block", r.rt = "running"
      PROVE  ~PastWork(task[t])
  <2>1. r.rt = IF bus[t].st = "none" THEN task[t].rt ELSE bus[t].st
    BY Records DEF ApplyUpdate, Task
  <2>2. PastWork(task[t]) => task[t].rt # "running" /\ bus[t].st # "running"
    BY <1>3 DEF Calm, Hushed, Silent
  <2> QED
    BY <1>3, <2>1, <2>2
<1> HIDE DEF r
<1>4. CASE ~Stale(t, r)
  BY <1>1, <1>2, <1>4 DEF StalePolicy
<1>5. CASE Stale(t, r)
  <2>1. StaleAction = "block" /\ ~PastWork(task[t])
    BY <1>3, <1>5 DEF Stale, Default
  <2>2. task'[t] = [r EXCEPT !.rt = "stale", !.pid = 0, !.wf = "blocked"]
    BY <1>1, <1>5, <2>1 DEF StalePolicy
  <2> QED
    BY <1>2, <2>1, <2>2 DEF Stays, StaleMove, SamePlace, Task
<1> QED
  BY <1>4, <1>5

\* The exit of p is taken for t, by a pause or not: r is what is decided.
Concludes(t, p, s, r) ==
  /\ s \in Decisions(t, p) /\ s \in Strategies /\ r \in Task
  /\ ExitMove(task[t], r, s.do)
  /\ \A u \in Tasks : DepMove(IF u = t THEN r ELSE task[u], task'[u])

LEMMA ExitMoves ==
  ASSUME TypeOK, NEW t \in Tasks, NEW p \in Procs, TakeExit(t, p) \/ PauseOnExit(t, p)
  PROVE  \E s, r : Concludes(t, p, s, r) /\ (TakeExit(t, p) => s.do # "attempt")
<1>1. PICK s \in Decisions(t, p) :
        /\ task' = Completed(t, ApplyStrategy(task[t], s, proc[p].code))
        /\ TakeExit(t, p) => s.do # "attempt"
  <2>1. CASE TakeExit(t, p)
    BY <2>1 DEF TakeExit
  <2>2. CASE ~TakeExit(t, p)
    BY <2>2 DEF PauseOnExit
  <2> QED
    BY <2>1, <2>2
<1> DEFINE r == ApplyStrategy(task[t], s, proc[p].code)
<1>2. s \in Strategies /\ r \in Task
  BY Records, DecisionsAffordable, StrategyKeeps DEF Affordable
<1>3. ExitMove(task[t], r, s.do)
  BY <1>2, Records, StrategyMoves
<1> HIDE DEF r
<1>4. \A u \in Tasks : DepMove(IF u = t THEN r ELSE task[u], task'[u])
  BY <1>1, <1>2, CompletedMoves DEF r
<1> QED
  BY <1>1, <1>2, <1>3, <1>4 DEF Concludes

LEMMA TakenResultMoves ==
  ASSUME TypeOK, TakeMergeResult
  PROVE  LET m == Head(merges) IN
         /\ m \in MergeResult
         /\ UNCHANGED task
            \/ \E r \in Task :
                 /\ MergeMove(task[m.task], r, m.how = "ok")
                 /\ \A u \in Tasks : DepMove(IF u = m.task THEN r ELSE task[u], task'[u])
<1> DEFINE m == Head(merges)
           ok == m.how = "ok"
           r == ApplyMergeResult(task[m.task], ok)
<1>1. m \in MergeResult
  BY DEF TakeMergeResult, TypeOK, MergeOK
<1>2. m.task \in Tasks /\ ok \in BOOLEAN
  BY <1>1 DEF MergeResult
<1>3. CASE ~MergeResultApplies(task[m.task], ok)
  BY <1>1, <1>3 DEF TakeMergeResult
<1>4. CASE MergeResultApplies(task[m.task], ok)
  <2>1. task' = Completed(m.task, r)
    BY <1>4 DEF TakeMergeResult
  <2> HIDE DEF m, ok
  <2>2. r \in Task /\ MergeMove(task[m.task], r, ok)
    BY <1>2, <1>4, Records, MergeResultKeeps, MergeResultMoves
  <2> HIDE DEF r
  <2>3. \A u \in Tasks : DepMove(IF u = m.task THEN r ELSE task[u], task'[u])
    BY <1>2, <2>1, <2>2, CompletedMoves
  <2> QED
    BY <1>1, <2>2, <2>3 DEF m, ok
<1> QED
  BY <1>3, <1>4

LEMMA FailuresMove ==
  ASSUME TypeOK, MergesDone \/ OperatorResumes, NEW t \in Tasks
  PROVE  IF t \in {m.task : m \in failedMerge} THEN ResumeMove(task[t], task'[t])
                                               ELSE task'[t] = task[t]
<1>1. task' = [u \in Tasks |-> IF u \in {m.task : m \in failedMerge}
                               THEN ResumeMerge(task[u]) ELSE task[u]]
  BY DEF MergesDone, OperatorResumes
<1> QED
  BY <1>1, Records, ResumeMoves

LEMMA PauseMoves ==
  ASSUME TypeOK, PauseOnConflict, NEW t \in Tasks
  PROVE  Stays(task[t], task'[t])
<1>1. PICK m \in failedMerge : task' = [task EXCEPT ![m.task].rt = "paused"]
  BY DEF PauseOnConflict
<1>2. task'[t] \in {task[t], [task[t] EXCEPT !.rt = "paused"]}
  BY <1>1, Records
<1> QED
  BY <1>2, Records DEF Task, Stays, SamePlace

\* Nothing is planned for a task whose merge is under way, or about to be.
LEMMA AdvanceMoves ==
  ASSUME TypeOK, Advance, NEW t \in Tasks
  PROVE  \/ task'[t] = task[t]
         \/ /\ PhaseMove(task[t], task'[t])
            /\ PlanAdvance(task[t]).kind = "merge" => task[t].wt = 0 /\ t \notin mjobs
<1>1. PICK outcome \in [Planned("phase") -> PhaseOutcomes \cup {"failed"}] :
        task' = [u \in Tasks |->
          CASE Plan(u).kind = "phase"     -> AfterPhase(u, outcome[u])
            [] Plan(u).kind = "exhausted" -> ApplyPhaseOutcome(task[u], FixPhase, "failed")
            [] Plan(u).kind = "merge" /\ task[u].wt = 0 /\ u \notin mjobs ->
                 ApplyMergeResult(task[u], FALSE)
            [] OTHER -> task[u]]
  BY DEF Advance
<1>2. task[t] \in Task
  BY Records
<1>3. Plan(t).kind # "noop" => Plan(t) = PlanAdvance(task[t])
  BY DEF Plan
<1>4. CASE Plan(t).kind = "phase"
  <2>1. task'[t] = AfterPhase(t, outcome[t])
    BY <1>1, <1>4
  <2>2. outcome[t] \in {"ok", "changes", "failed", "unavailable"}
    BY <1>4, ScopeAssumption DEF Planned
  <2>3. PlanOf(task[t], Plan(t))
    BY <1>3, <1>4 DEF PlanOf
  <2>4. PhaseMove(task[t], task'[t])
    BY <1>2, <1>3, <1>4, <2>1, <2>2, <2>3, PhaseMoves, UnavailableMoves DEF AfterPhase
  <2> QED
    BY <1>3, <1>4, <2>4
<1>5. CASE Plan(t).kind = "exhausted"
  <2>1. task'[t] = ApplyPhaseOutcome(task[t], FixPhase, "failed")
    BY <1>1, <1>5
  <2>2. PlanOf(task[t], FixPhase)
    BY <1>3, <1>5 DEF PlanOf
  <2>3. PhaseMove(task[t], task'[t])
    BY <1>2, <2>1, <2>2, PhaseMoves
  <2> QED
    BY <1>3, <1>5, <2>3
<1>6. CASE Plan(t).kind = "merge" /\ task[t].wt = 0 /\ t \notin mjobs
  <2>1. task'[t] = ApplyMergeResult(task[t], FALSE)
    BY <1>1, <1>6
  <2>2. CASE MergeResultApplies(task[t], FALSE)
    <3>1. MergeMove(task[t], task'[t], FALSE)
      BY <1>2, <2>1, <2>2, MergeResultMoves
    <3> QED
      BY <1>6, <3>1 DEF MergeMove, PhaseMove
  <2>3. CASE ~MergeResultApplies(task[t], FALSE)
    BY <2>1, <2>3 DEF ApplyMergeResult
  <2> QED
    BY <2>2, <2>3
<1>7. CASE Plan(t).kind \notin {"phase", "exhausted"} /\ ~(Plan(t).kind = "merge" /\ task[t].wt = 0 /\ t \notin mjobs)
  BY <1>1, <1>7
<1> QED
  BY <1>4, <1>5, <1>6, <1>7

LEMMA ClaimMoves ==
  ASSUME TypeOK, NEW t \in Tasks, Claim(t)
  PROVE  LET c == nclaim + 1
             r == task[t]
             s == task'[t]
         IN /\ \A u \in Tasks \ {t} : task'[u] = task[u]
            /\ s.wf = "claimed" /\ s.pid = 0 /\ s.claim = c /\ s.err = r.err
            /\ s.last = r.last /\ s.wt = IF r.wt # 0 THEN r.wt ELSE c
BY Records DEF Claim, ApplyDispatchClaim, WorktreeForClaim, Attached, Task

LEMMA LaunchMoves ==
  ASSUME TypeOK, NEW t \in Tasks, Launch(t)
  PROVE  LET r == task[t]
             s == task'[t]
         IN /\ \A u \in Tasks \ {t} : task'[u] = task[u]
            /\ SamePlace(r, s) /\ s.wf = r.wf /\ s.err = r.err /\ s.pid = nproc + 1
BY Records DEF Launch, ApplyDispatchPid, SamePlace, Task

LEMMA AgingMoves ==
  ASSUME TypeOK, NEW u \in Tasks, HeartbeatAges(u), NEW t \in Tasks
  PROVE  Stays(task[t], task'[t])
<1>1. task'[t] \in {task[t], [task[t] EXCEPT !.hb = "old"]}
  BY Records DEF HeartbeatAges
<1> QED
  BY <1>1, Records DEF Task, Stays, SamePlace

LEMMA StartMoves ==
  ASSUME TypeOK, Start, NEW t \in Tasks
  PROVE  StartMove(t, task[t], task'[t])
<1>1. task'[t] = Startup(t)
  BY DEF Start
<1> QED
  BY <1>1, StartupMoves DEF StartMove

-----------------------------------------------------------------------------
(* The laws of claims.                                                     *)

\* What every step but a claim and a launch does to a record.
LawMove(t, r, s) ==
  /\ s.claim = r.claim
  /\ r.wf = "merged" => s.wf = "merged"
  /\ s.wf \notin Unclaimed => r.wf \notin Unclaimed \/ r.claim # 0
  /\ s.wf \notin Workable => s.pid = 0

\* ... and to the jobs.
FewerJobs ==
  \A t \in Tasks : HasJob(t)' => HasJob(t) /\ jobs'[t].attempt = jobs[t].attempt

AttemptsCounted == \A t \in Tasks : HasJob(t) => jobs[t].attempt >= 1

LEMMA NoMoreAttempts ==
  ASSUME TypeOK, AttemptsCounted, MaxAttempts = 1, NEW t \in Tasks, HasJob(t),
         NEW p \in Procs, NEW s \in Decisions(t, p)
  PROVE  s.do # "attempt"
<1>1. jobs[t].attempt >= 1 /\ jobs[t].attempt \in Nat
  BY AttemptsAssumption DEF AttemptsCounted, TypeOK, ProcOK, Job
<1> QED
  BY <1>1, AttemptsLeft

\* A failed performer is never started again in its claim.
LEMMA OneAttempt ==
  ASSUME TypeOK, AttemptsCounted, MaxAttempts = 1, NEW t \in Tasks, NEW p \in Procs
  PROVE  ~Salvage(t, p) /\ ~Respawn(t, p)
BY NoMoreAttempts DEF Salvage, Respawn, ExitTaken

LEMMA LawfulStep ==
  ASSUME TypeOK, ClaimsAreLawful, TypeOK', FewerJobs,
         \A t \in Tasks : LawMove(t, task[t], task'[t]),
         \A t \in Tasks : HasJob(t)' => task'[t].wf \in Workable
  PROVE  ClaimsAreLawful'
<1> SUFFICES ASSUME NEW t \in Tasks
             PROVE  /\ task'[t].claim # 0 => \A d \in Deps[t] : task'[d].wf = "merged"
                    /\ task'[t].wf \notin Unclaimed => task'[t].claim # 0
                    /\ task'[t].wf \notin Workable => task'[t].pid = 0 /\ ~HasJob(t)'
                    /\ HasJob(t)' => task'[t].claim # 0 /\ jobs'[t].attempt >= 1
  BY DEF ClaimsAreLawful
<1>1. \A d \in Deps[t] : d \in Tasks
  BY TasksAssumption
<1> QED
  BY <1>1 DEF ClaimsAreLawful, LawMove, FewerJobs

\* The moves that are lawful, of a task that obeys the laws.
LEMMA LawfulMoves ==
  ASSUME TypeOK, TypeOK', ClaimsAreLawful, NEW t \in Tasks
  PROVE  LET r == task[t]
             s == task'[t]
         IN /\ (r = s \/ Stays(r, s) \/ StaleMove(r, s) \/ GhostMove(r, s) \/ DepMove(r, s)
                  \/ PhaseMove(r, s) \/ StartMove(t, r, s))
               => LawMove(t, r, s)
            /\ HasJob(t) /\ (r = s \/ Stays(r, s) \/ StaleMove(r, s) \/ GhostMove(r, s)
                               \/ DepMove(r, s) \/ PhaseMove(r, s))
               => s.wf \in Workable
<1>1. task[t] \in Task /\ task'[t] \in Task
  BY DEF TypeOK
<1>2. /\ task[t].wf \notin Unclaimed => task[t].claim # 0
      /\ task[t].wf \notin Workable => task[t].pid = 0 /\ ~HasJob(t)
  BY DEF ClaimsAreLawful
<1> HIDE DEF HasJob
<1>3. MergeSources \cap (Unclaimed \cup Workable) \subseteq {}
  BY DEF MergeSources, Unclaimed, Workable
<1> USE DEF LawMove, Unclaimed, Workable, Task
<1>4. Stays(task[t], task'[t]) => LawMove(t, task[t], task'[t]) /\ task'[t].wf = task[t].wf
  BY <1>1, <1>2 DEF Stays, SamePlace
<1>5. GhostMove(task[t], task'[t]) => LawMove(t, task[t], task'[t]) /\ task'[t].wf \in Workable
  BY <1>1, <1>2 DEF GhostMove, Ghost
<1>6. DepMove(task[t], task'[t]) =>
        LawMove(t, task[t], task'[t]) /\ (task[t].wf \in Workable => task'[t].wf \in Workable)
  BY <1>1, <1>2 DEF DepMove, SamePlace
<1>7. PhaseMove(task[t], task'[t]) => LawMove(t, task[t], task'[t]) /\ ~HasJob(t)
  BY <1>1, <1>2, <1>3 DEF PhaseMove, SamePlace
<1>8. StartMove(t, task[t], task'[t]) => LawMove(t, task[t], task'[t])
  <2>1. ASSUME NEW m \in Task, DepMove(task[t], m), SweepMove(t, m, task'[t])
        PROVE  LawMove(t, task[t], task'[t])
    <3>1. /\ m.wf \notin Unclaimed => m.claim # 0
          /\ m.wf \notin Workable => m.pid = 0 /\ task[t].wf = m.wf
          /\ m.claim = task[t].claim
          /\ m.wf = "merged" <=> task[t].wf = "merged"
      BY <1>2, <2>1 DEF DepMove, SamePlace
    <3> QED
      BY <1>1, <1>2, <2>1, <3>1 DEF SweepMove
  <2> QED
    BY <2>1 DEF StartMove
<1>9. task[t] = task'[t] => LawMove(t, task[t], task'[t])
  BY <1>2
<1>10. StaleMove(task[t], task'[t]) => LawMove(t, task[t], task'[t]) /\ task'[t].wf \in Workable
  BY <1>1, <1>2 DEF StaleMove, SamePlace, PastWork
<1> QED
  BY <1>2, <1>4, <1>5, <1>6, <1>7, <1>8, <1>9, <1>10

LEMMA JobsFall ==
  ASSUME TypeOK, AttemptsCounted, MaxAttempts = 1, Next
  PROVE  FewerJobs \/ \E t \in Tasks : Launch(t)
<1>0. jobs \in [Tasks -> Job]
  BY DEF TypeOK, ProcOK
<1>u. CASE UNCHANGED jobs
  BY <1>u DEF FewerJobs, HasJob
<1>1. CASE Start
  BY <1>1 DEF Start, FewerJobs, HasJob
<1>2. CASE ApplyBus
  <2>1. ASSUME NEW t \in Tasks
        PROVE  \/ jobs'[t] = jobs[t]
               \/ HasJob(t) /\ \E x \in BOOLEAN : jobs'[t] = [jobs[t] EXCEPT !.signaled = x]
    BY <1>2 DEF ApplyBus
  <2> QED
    BY <1>0, <2>1 DEF FewerJobs, HasJob, Job
<1>3. ASSUME NEW t \in Tasks, NEW p \in Procs,
             TakeExit(t, p) \/ PauseOnExit(t, p) \/ Salvage(t, p) \/ Respawn(t, p)
      PROVE  FewerJobs
  <2>1. jobs' = [jobs EXCEPT ![t] = NoJob]
    BY <1>3, OneAttempt DEF TakeExit, PauseOnExit
  <2> QED
    BY <1>0, <2>1 DEF FewerJobs, HasJob
<1>4. CASE StorageFails
  BY <1>0, <1>4 DEF StorageFails, FewerJobs, HasJob
<1>7. CASE Loop
  <2>1. CASE Monitor
    BY <1>u, <1>2, <1>3, <2>1 DEF Monitor, CleanupGhosts, ConsumeRows, DropExit, ExitsDone
  <2>2. CASE TakeMergeResult \/ MergesDone \/ PauseOnConflict \/ Advance \/ DispatchDone
             \/ EndCycle \/ \E t \in Tasks : Claim(t)
    BY <1>u, <2>2 DEF TakeMergeResult, MergesDone, PauseOnConflict, Advance, DispatchDone,
       EndCycle, Claim
  <2> QED
    BY <1>7, <2>1, <2>2 DEF Loop
<1>8. CASE (\E p \in Procs : Performer(p)) \/ MergeWorker \/ Operator
  BY <1>u, <1>8, PerformerFrame, MergeWorkerFrame DEF Operator, OperatorReviews,
     OperatorResumes
<1>9. CASE Environment
  BY <1>u, <1>4, <1>9 DEF Environment, Heartbeat, PhaseTimeout, Die, performerUnchanged,
     ThrottleExpires, Crash, DispatchFails, HeartbeatAges, LaunchLost
<1> QED
  BY <1>1, <1>7, <1>8, <1>9 DEF Next

\* The moves a record may make with its job.
PlainMove(r, s) ==
  s = r \/ Stays(r, s) \/ StaleMove(r, s) \/ GhostMove(r, s) \/ DepMove(r, s) \/ PhaseMove(r, s)

LEMMA ClaimsKept ==
  ASSUME IInv, IInv', Lawful, Calm, Default, Next
  PROVE  ClaimsAreLawful'
<1>0. TypeOK /\ TypeOK' /\ ClaimsAreLawful /\ AttemptsCounted
  BY DEF IInv, Lawful, ClaimsAreLawful, AttemptsCounted
<1>s. MaxAttempts = 1
  BY DEF Default
<1>j. FewerJobs \/ \E t \in Tasks : Launch(t)
  BY <1>0, <1>s, JobsFall
\* Every record stays where the laws allow it.
<1>m. ASSUME FewerJobs, \A t \in Tasks : PlainMove(task[t], task'[t])
      PROVE  ClaimsAreLawful'
  <2>1. \A t \in Tasks : LawMove(t, task[t], task'[t])
    BY <1>0, <1>m, LawfulMoves DEF PlainMove
  <2>2. \A t \in Tasks : HasJob(t)' => task'[t].wf \in Workable
    BY <1>0, <1>m, LawfulMoves DEF FewerJobs, PlainMove
  <2> QED
    BY <1>0, <1>m, <2>1, <2>2, LawfulStep
<1>u. CASE UNCHANGED task /\ FewerJobs
  BY <1>m, <1>u DEF PlainMove
<1>1. CASE CleanupGhosts
  <2>1. FewerJobs
    BY <1>1 DEF CleanupGhosts, FewerJobs, HasJob
  <2> QED
    BY <1>0, <1>1, <1>m, <2>1, GhostsMove DEF PlainMove
<1>2. CASE ApplyBus \/ PauseOnConflict \/ \E t \in Tasks : HeartbeatAges(t)
  <2>1. \A t \in Tasks : Stays(task[t], task'[t]) \/ StaleMove(task[t], task'[t])
    BY <1>0, <1>2, <1>s, BusMoves, PauseMoves, AgingMoves
  <2>2. ~\E t \in Tasks : Launch(t)
    BY <1>2 DEF ApplyBus, PauseOnConflict, HeartbeatAges, Launch, loopVars
  <2> QED
    BY <1>j, <1>m, <2>1, <2>2 DEF PlainMove
<1>3. CASE Advance
  <2>1. FewerJobs
    BY <1>3 DEF Advance, FewerJobs, HasJob
  <2> QED
    BY <1>0, <1>3, <1>m, <2>1, AdvanceMoves DEF PlainMove
<1>4. CASE Start
  <2>1. FewerJobs /\ \A t \in Tasks : ~HasJob(t)'
    BY <1>4 DEF Start, FewerJobs, HasJob
  <2>2. \A t \in Tasks : LawMove(t, task[t], task'[t])
    BY <1>0, <1>4, StartMoves, LawfulMoves
  <2> QED
    BY <1>0, <2>1, <2>2, LawfulStep
<1>5. ASSUME NEW t \in Tasks, NEW p \in Procs, TakeExit(t, p) \/ PauseOnExit(t, p)
      PROVE  ClaimsAreLawful'
  <2>1. PICK s, r : Concludes(t, p, s, r)
    BY <1>0, <1>5, ExitMoves
  <2>2. HasJob(t) /\ FewerJobs /\ ~HasJob(t)'
    BY <1>5, <1>0 DEF TakeExit, PauseOnExit, ExitTaken, FewerJobs, HasJob, TypeOK, ProcOK
  <2>3. s.do # "attempt" /\ s \in Strategies /\ ExitMove(task[t], r, s.do)
    BY <1>0, <1>s, <2>1, <2>2, NoMoreAttempts DEF Concludes
  <2>4. /\ task[t].wf \in Workable /\ task[t].claim # 0
        /\ r.claim = task[t].claim /\ r.pid = 0 /\ r.wf \in {"todo", "blocked", "merged", "in_progress"}
    BY <1>0, <2>2, <2>3 DEF ClaimsAreLawful, ExitMove, Strategies
  <2>5. DepMove(r, task'[t]) /\ \A u \in Tasks \ {t} : DepMove(task[u], task'[u])
    BY <2>1 DEF Concludes
  <2>6. LawMove(t, task[t], task'[t])
    BY <2>4, <2>5 DEF LawMove, DepMove, SamePlace, Unclaimed, Workable
  <2>7. \A u \in Tasks : LawMove(u, task[u], task'[u])
    BY <1>0, <2>5, <2>6, LawfulMoves
  <2>8. \A u \in Tasks : HasJob(u)' => task'[u].wf \in Workable
    BY <1>0, <2>2, <2>5, LawfulMoves DEF FewerJobs
  <2> QED
    BY <1>0, <2>2, <2>7, <2>8, LawfulStep
<1>6. CASE TakeMergeResult
  <2> DEFINE m == Head(merges)
  <2>1. FewerJobs
    BY <1>6 DEF TakeMergeResult, FewerJobs, HasJob
  <2>2. CASE UNCHANGED task
    BY <1>u, <2>1, <2>2
  <2>3. CASE ~UNCHANGED task
    <3>1. PICK r \in Task :
            /\ MergeMove(task[m.task], r, m.how = "ok")
            /\ \A u \in Tasks : DepMove(IF u = m.task THEN r ELSE task[u], task'[u])
      BY <1>0, <1>6, <2>3, TakenResultMoves
    <3>2. m.task \in Tasks
      BY <1>0, <1>6, TakenResultMoves DEF MergeResult
    <3> HIDE DEF m
    <3>3. \A u \in Tasks \ {m.task} : DepMove(task[u], task'[u])
      BY <3>1
    <3>4. DepMove(r, task'[m.task])
      BY <3>1, <3>2
    <3>5. task[m.task].wf \notin Unclaimed \cup Workable
      BY <3>1 DEF MergeMove, MergeSources, Unclaimed, Workable
    <3>6. ~HasJob(m.task) /\ task[m.task].claim # 0
      BY <1>0, <3>2, <3>5 DEF ClaimsAreLawful
    <3>7. LawMove(m.task, task[m.task], task'[m.task])
      BY <3>1, <3>4, <3>5, <3>6 DEF MergeMove, LawMove, DepMove, SamePlace, Unclaimed, Workable
    <3>8. \A u \in Tasks : LawMove(u, task[u], task'[u])
      BY <1>0, <3>3, <3>7, LawfulMoves
    <3>9. \A u \in Tasks : HasJob(u)' => task'[u].wf \in Workable
      BY <1>0, <2>1, <3>3, <3>6, LawfulMoves DEF FewerJobs
    <3> QED
      BY <1>0, <2>1, <3>8, <3>9, LawfulStep
  <2> QED
    BY <2>2, <2>3
<1>7. CASE MergesDone \/ OperatorResumes
  <2>1. FewerJobs
    BY <1>7 DEF MergesDone, OperatorResumes, FewerJobs, HasJob
  <2>2. \A m \in failedMerge :
          /\ task[m.task].wf \in {"todo", "blocked"}
          /\ task[m.task].claim # 0 /\ ~HasJob(m.task)
    BY <1>7 DEF Lawful, FailedMergesAreParked, Stopped, MergesDone, OperatorResumes
  <2>3. \A t \in Tasks \ {m.task : m \in failedMerge} : task'[t] = task[t]
    BY <1>0, <1>7, FailuresMove
  <2>4. \A t \in Tasks \cap {m.task : m \in failedMerge} :
          LawMove(t, task[t], task'[t]) /\ ~HasJob(t)
    BY <1>0, <1>7, <2>2, FailuresMove DEF ResumeMove, SamePlace, LawMove, Unclaimed, Workable
  <2>5. \A t \in Tasks : LawMove(t, task[t], task'[t])
    BY <1>0, <2>3, <2>4, LawfulMoves
  <2>6. \A t \in Tasks : HasJob(t)' => task'[t].wf \in Workable
    BY <1>0, <2>1, <2>3, <2>4, LawfulMoves DEF FewerJobs
  <2> QED
    BY <1>0, <2>1, <2>5, <2>6, LawfulStep
<1>8. ASSUME NEW t \in Tasks, Claim(t)
      PROVE  ClaimsAreLawful'
  <2>1. /\ \A u \in Tasks \ {t} : task'[u] = task[u]
        /\ task'[t].wf = "claimed" /\ task'[t].claim = nclaim + 1
    BY <1>0, <1>8, ClaimMoves
  <2>2. /\ task[t].wf = "todo" /\ \A d \in Deps[t] : d \in Tasks /\ task[d].wf = "merged"
    BY <1>8, TasksAssumption DEF Claim, CanDispatch, Ready
  <2>3. \A u \in Tasks : HasJob(u)' = HasJob(u) /\ jobs'[u] = jobs[u]
    BY <1>8 DEF Claim, HasJob
  <2>4. nclaim + 1 # 0
    BY <1>0 DEF TypeOK, ProcOK
  <2>5. \A u \in Tasks : \A d \in Deps[u] : d \in Tasks
    BY TasksAssumption
  <2> HIDE DEF HasJob
  <2>6. ASSUME NEW u \in Tasks
        PROVE  /\ task'[u].claim # 0 => \A d \in Deps[u] : task'[d].wf = "merged"
               /\ task'[u].wf \notin Unclaimed => task'[u].claim # 0
               /\ task'[u].wf \notin Workable => task'[u].pid = 0 /\ ~HasJob(u)'
               /\ HasJob(u)' => task'[u].claim # 0 /\ jobs'[u].attempt >= 1
    BY <1>0, <2>1, <2>2, <2>3, <2>4, <2>5 DEF ClaimsAreLawful, Workable, Unclaimed
  <2> QED
    BY <2>6 DEF ClaimsAreLawful
<1>9. ASSUME NEW t \in Tasks, Launch(t)
      PROVE  ClaimsAreLawful'
  <2>1. /\ \A u \in Tasks \ {t} : task'[u] = task[u]
        /\ task'[t].claim = task[t].claim /\ task'[t].wf = task[t].wf
    BY <1>0, <1>9, LaunchMoves DEF SamePlace
  <2>2. task[t].wf = "claimed"
    BY <1>9 DEF Lawful, LaunchesAreClaimed, Launch
  <2>3. jobs'[t].attempt = 1 /\ \A u \in Tasks \ {t} : jobs'[u] = jobs[u]
    BY <1>0, <1>9 DEF Launch, NewJob, TypeOK, ProcOK
  <2>4. \A u \in Tasks \ {t} : HasJob(u)' = HasJob(u)
    BY <2>3 DEF HasJob
  <2>5. \A u \in Tasks : \A d \in Deps[u] : d \in Tasks
    BY TasksAssumption
  <2> HIDE DEF HasJob
  <2>6. ASSUME NEW u \in Tasks
        PROVE  /\ task'[u].claim # 0 => \A d \in Deps[u] : task'[d].wf = "merged"
               /\ task'[u].wf \notin Unclaimed => task'[u].claim # 0
               /\ task'[u].wf \notin Workable => task'[u].pid = 0 /\ ~HasJob(u)'
               /\ HasJob(u)' => task'[u].claim # 0 /\ jobs'[u].attempt >= 1
    BY <1>0, <2>1, <2>2, <2>3, <2>4, <2>5 DEF ClaimsAreLawful, Workable, Unclaimed
  <2> QED
    BY <2>6 DEF ClaimsAreLawful
<1>10. ASSUME NEW t \in Tasks, NEW p \in Procs, Salvage(t, p) \/ Respawn(t, p)
       PROVE  FALSE
  BY <1>0, <1>10, <1>s, OneAttempt
<1> QED
  BY <1>j, <1>u, <1>1, <1>2, <1>3, <1>4, <1>5, <1>6, <1>7, <1>8, <1>9, <1>10, RegistryFrame
  DEF RegistryStep

\* Between a claim and its launch the registry only ages.
LEMMA LaunchFrame ==
  ASSUME TypeOK, Next
  PROVE  \/ pc' # "launch"
         \/ \E t \in Tasks : Claim(t)
         \/ /\ pc = "launch" /\ UNCHANGED <<launching, jobs>>
            /\ UNCHANGED task \/ \E t \in Tasks : HeartbeatAges(t)
<1> DEFINE Goal == \/ pc' # "launch"
                   \/ \E t \in Tasks : Claim(t)
                   \/ /\ pc = "launch" /\ UNCHANGED <<launching, jobs>>
                      /\ UNCHANGED task \/ \E t \in Tasks : HeartbeatAges(t)
<1>1. CASE CleanupGhosts \/ ConsumeRows \/ ApplyBus \/ DropExit \/ ExitsDone
  BY <1>1 DEF CleanupGhosts, ConsumeRows, ApplyBus, DropExit, ExitsDone, loopVars
<1>2. ASSUME NEW t \in Tasks, NEW p \in Procs,
             TakeExit(t, p) \/ PauseOnExit(t, p) \/ Salvage(t, p) \/ Respawn(t, p)
      PROVE  Goal
  BY <1>2 DEF TakeExit, PauseOnExit, Salvage, Respawn, ExitTaken, loopVars
<1>3. CASE TakeMergeResult \/ PauseOnConflict \/ Advance \/ DispatchDone \/ OperatorReviews
           \/ StorageFails
  BY <1>3 DEF TakeMergeResult, PauseOnConflict, Advance, DispatchDone, OperatorReviews,
     StorageFails
<1>m. CASE MergesDone \/ OperatorResumes
  BY <1>m DEF MergesDone, OperatorResumes, AfterMerges, TypeOK, LoopOK
<1>e. CASE EndCycle
  <2>1. pc' \in {"complete", "failed", "ghosts"}
    BY <1>e, CountsAreNat DEF EndCycle
  <2> QED
    BY <2>1
<1>4. CASE Start \/ Crash \/ DispatchFails
  BY <1>4 DEF Start, Crash, DispatchFails
<1>5. ASSUME NEW t \in Tasks, Launch(t) \/ LaunchLost(t)
      PROVE  Goal
  BY <1>5 DEF Launch, LaunchLost
<1>6. CASE (\E p \in Procs : Performer(p)) \/ MergeWorker
  BY <1>6, PerformerFrame, MergeWorkerFrame DEF loopVars
<1>7. CASE ThrottleExpires \/ \E p \in Procs : Heartbeat(p) \/ PhaseTimeout(p) \/ Die(p)
  BY <1>7 DEF ThrottleExpires, Heartbeat, PhaseTimeout, Die, performerUnchanged, loopVars
<1>8. CASE \E t \in Tasks : HeartbeatAges(t)
  BY <1>8 DEF HeartbeatAges, loopVars
<1>9. CASE Monitor
  BY <1>1, <1>2, <1>9 DEF Monitor
<1> QED
  BY <1>1, <1>3, <1>m, <1>e, <1>4, <1>5, <1>6, <1>7, <1>8, <1>9
  DEF Next, Loop, Operator, Environment

LEMMA LaunchesKept ==
  ASSUME IInv, Lawful, Next
  PROVE  LaunchesAreClaimed'
<1>0. TypeOK /\ launching \subseteq Tasks
  BY DEF IInv, TypeOK, LoopOK
<1>1. CASE pc' # "launch"
  BY <1>1 DEF LaunchesAreClaimed
<1>2. ASSUME NEW t \in Tasks, Claim(t)
      PROVE  LaunchesAreClaimed'
  <2>1. task'[t].wf = "claimed"
    BY <1>0, <1>2, ClaimMoves
  <2> QED
    BY <1>2, <2>1 DEF Claim, LaunchesAreClaimed
<1>3. CASE /\ pc = "launch" /\ UNCHANGED launching
           /\ UNCHANGED task \/ \E t \in Tasks : HeartbeatAges(t)
  <2>1. \A t \in Tasks : task'[t].wf = task[t].wf
    BY <1>0, <1>3, AgingMoves DEF Stays
  <2> QED
    BY <1>0, <1>3, <2>1 DEF Lawful, LaunchesAreClaimed
<1> QED
  BY <1>0, <1>1, <1>2, <1>3, LaunchFrame

\* Where failed merges wait, the registry only ages.
LEMMA AwayMoves ==
  ASSUME IInv, Next, ~MergeStep, pc \in {"merges", "paused"}
  PROVE  /\ \A t \in Tasks : task'[t] = task[t] \/ Stays(task[t], task'[t])
         /\ ~\E t \in Tasks : Launch(t)
<1>0. TypeOK
  BY DEF IInv
<1>l. ~\E t \in Tasks : Launch(t)
  BY DEF Launch
<1>1. CASE RegistryStep
  <2>1. \E t \in Tasks : HeartbeatAges(t)
    <3>1. ~CleanupGhosts /\ ~ApplyBus /\ \A t \in Tasks : ~Claim(t)
      BY DEF CleanupGhosts, ApplyBus, Claim
    <3>2. ASSUME NEW t \in Tasks, NEW p \in Procs,
                 TakeExit(t, p) \/ PauseOnExit(t, p) \/ Salvage(t, p) \/ Respawn(t, p)
          PROVE  FALSE
      BY <3>2 DEF TakeExit, PauseOnExit, Salvage, Respawn, ExitTaken
    <3> QED
      BY <1>l, <1>1, <3>1, <3>2 DEF RegistryStep, MergeStep
  <2>2. \A t \in Tasks : Stays(task[t], task'[t])
    BY <1>0, <2>1, AgingMoves
  <2> QED
    BY <1>l, <2>2
<1> QED
  BY <1>l, <1>1, RegistryFrame

LEMMA ParkedKept ==
  ASSUME IInv, IInv', Lawful, Default, Next
  PROVE  FailedMergesAreParked'
<1>0. TypeOK /\ ClaimsAreLawful /\ AttemptsCounted /\ MaxAttempts = 1
  BY DEF IInv, Lawful, ClaimsAreLawful, AttemptsCounted, Default
<1>t. failedMerge \subseteq MergeResult /\ \A m \in MergeResult : m.task \in Tasks
  BY <1>0 DEF TypeOK, MergeOK, MergeResult
<1>n. CASE failedMerge' = {} \/ Stopped'
  BY <1>n DEF FailedMergesAreParked
\* The failed merges are the same, and so is what is known of them.
<1>s. ASSUME UNCHANGED failedMerge, ~Stopped, pc' \in {"merges", "paused"} \/ failedMerge = {},
             FewerJobs,
             \A m \in failedMerge : \/ task'[m.task] = task[m.task]
                                    \/ Stays(task[m.task], task'[m.task])
                                    \/ DepMove(task[m.task], task'[m.task])
      PROVE  FailedMergesAreParked'
  <2> SUFFICES ASSUME NEW m \in failedMerge
               PROVE  /\ pc' \in {"merges", "paused"}
                      /\ task'[m.task].wf \in {"todo", "blocked"}
                      /\ task'[m.task].claim # 0 /\ ~HasJob(m.task)'
    BY <1>s DEF FailedMergesAreParked
  <2>1. /\ task[m.task].wf \in {"todo", "blocked"}
        /\ task[m.task].claim # 0 /\ ~HasJob(m.task) /\ m.task \in Tasks
    BY <1>s, <1>t DEF Lawful, FailedMergesAreParked
  <2>2. ~HasJob(m.task)'
    BY <1>s, <2>1 DEF FewerJobs
  <2>3. pc' \in {"merges", "paused"}
    BY <1>s
  <2> QED
    BY <1>s, <2>1, <2>2, <2>3 DEF Stays, DepMove, SamePlace
<1>1. CASE ~MergeStep
  <2>1. AwayFromMerges
    BY <1>1, MergeFrame
  <2>2. CASE Stopped'
    BY <1>n, <2>2
  <2>3. CASE ~Stopped' /\ pc \in {"merges", "paused"}
    <3>1. pc' = pc
      BY <2>1, <2>3 DEF AwayFromMerges
    <3>2. /\ \A t \in Tasks : task'[t] = task[t] \/ Stays(task[t], task'[t])
          /\ ~\E t \in Tasks : Launch(t)
      BY <1>1, <2>3, AwayMoves
    <3>3. FewerJobs
      BY <1>0, <3>2, JobsFall
    <3> QED
      BY <1>s, <1>t, <2>1, <2>3, <3>1, <3>2, <3>3 DEF AwayFromMerges, mergeVars, Stopped
  <2>4. CASE ~Stopped' /\ pc \notin {"merges", "paused"}
    <3>1. ~Stopped
      BY <2>1, <2>4 DEF AwayFromMerges, Stopped
    <3>2. failedMerge = {}
      BY <2>4, <3>1 DEF Lawful, FailedMergesAreParked
    <3> QED
      BY <1>n, <2>1, <3>2 DEF AwayFromMerges, mergeVars
  <2> QED
    BY <2>2, <2>3, <2>4
<1>2. CASE MergesDone \/ OperatorResumes \/ StorageFails \/ Start
  BY <1>n, <1>2 DEF MergesDone, OperatorResumes, StorageFails, Start
<1>3. CASE MergeWorker
  <2>1. UNCHANGED <<task, jobs, failedMerge, pc>>
    BY <1>3, MergeWorkerFrame DEF loopVars
  <2>2. ~Stopped
    BY <1>3 DEF MergeWorker, FinishMerge, MergeTimeout
  <2>3. FewerJobs
    BY <2>1 DEF FewerJobs, HasJob
  <2>4. pc' \in {"merges", "paused"} \/ failedMerge = {}
    BY <2>1, <2>2 DEF Lawful, FailedMergesAreParked
  <2> QED
    BY <1>s, <2>1, <2>2, <2>3, <2>4
<1>4. CASE Advance
  <2>1. UNCHANGED failedMerge /\ failedMerge = {}
    BY <1>4 DEF Advance, Lawful, FailedMergesAreParked, Stopped
  <2> QED
    BY <1>n, <2>1
<1>5. CASE PauseOnConflict
  <2>1. UNCHANGED failedMerge /\ UNCHANGED jobs /\ pc' = "paused" /\ ~Stopped
    BY <1>5 DEF PauseOnConflict, Stopped
  <2>2. FewerJobs
    BY <2>1 DEF FewerJobs, HasJob
  <2> QED
    BY <1>0, <1>5, <1>s, <1>t, <2>1, <2>2, PauseMoves
<1>6. CASE TakeMergeResult
  <2> DEFINE m == Head(merges)
  <2>1. UNCHANGED jobs /\ ~Stopped
    BY <1>6 DEF TakeMergeResult, Stopped
  <2>2. FewerJobs
    BY <2>1 DEF FewerJobs, HasJob
  <2>3. CASE ~MergeResultApplies(task[m.task], m.how = "ok")
    BY <1>6, <1>n, <2>3 DEF TakeMergeResult, Stopped
  <2>4. CASE MergeResultApplies(task[m.task], m.how = "ok")
    <3>1. /\ failedMerge' = IF m.how = "ok" THEN failedMerge ELSE {m}
          /\ pc = "merges" /\ pc' = pc
      BY <1>6, <2>4 DEF TakeMergeResult
    <3>2. m \in MergeResult /\ task[m.task].wf \in MergeSources
      BY <1>0, <1>6, <2>4, TakenResultMoves DEF MergeResultApplies, MergeResultTo, Checked
    <3>3. m.task \in Tasks
      BY <1>t, <3>2
    <3>4. \/ UNCHANGED task
          \/ \E r \in Task :
               /\ MergeMove(task[m.task], r, m.how = "ok")
               /\ \A u \in Tasks : DepMove(IF u = m.task THEN r ELSE task[u], task'[u])
      BY <1>0, <1>6, TakenResultMoves
    <3>5. \A u \in Tasks \ {m.task} : task'[u] = task[u] \/ DepMove(task[u], task'[u])
      BY <3>4
    <3>6. \A x \in failedMerge : x.task # m.task
      BY <2>1, <3>2 DEF Lawful, FailedMergesAreParked, MergeSources
    <3>7. CASE m.how = "ok"
      <4> HIDE DEF m
      <4>1. UNCHANGED failedMerge
        BY <3>1, <3>7
      <4>2. \A x \in failedMerge : task'[x.task] = task[x.task] \/ DepMove(task[x.task], task'[x.task])
        BY <1>t, <3>5, <3>6
      <4>3. pc' \in {"merges", "paused"}
        BY <3>1
      <4> QED
        BY <1>s, <2>1, <2>2, <4>1, <4>2, <4>3
    <3>8. CASE m.how # "ok"
      <4>1. task[m.task].claim # 0 /\ ~HasJob(m.task)
        BY <1>0, <3>2, <3>3 DEF ClaimsAreLawful, MergeSources, Unclaimed, Workable
      <4>2. /\ task'[m.task].wf \in {"todo", "blocked"}
            /\ task'[m.task].claim = task[m.task].claim
        <5>1. task' = Completed(m.task, ApplyMergeResult(task[m.task], m.how = "ok"))
          BY <1>6, <2>4 DEF TakeMergeResult
        <5> HIDE DEF m
        <5>2. ApplyMergeResult(task[m.task], FALSE) \in Task
              /\ MergeMove(task[m.task], ApplyMergeResult(task[m.task], FALSE), FALSE)
          BY <1>0, <2>4, <3>3, <3>8, Records, MergeResultKeeps, MergeResultMoves
        <5>3. DepMove(ApplyMergeResult(task[m.task], FALSE), task'[m.task])
          BY <1>0, <3>3, <3>8, <5>1, <5>2, CompletedMoves
        <5> QED
          BY <5>2, <5>3 DEF MergeMove, DepMove, SamePlace
      <4>3. \A x \in {m} : ~HasJob(x.task)'
        BY <2>1, <4>1 DEF HasJob
      <4> HIDE DEF m
      <4> QED
        BY <3>1, <3>8, <4>1, <4>2, <4>3 DEF FailedMergesAreParked
    <3> QED
      BY <3>7, <3>8
  <2> QED
    BY <2>3, <2>4
<1> QED
  BY <1>1, <1>2, <1>3, <1>4, <1>5, <1>6 DEF MergeStep

LEMMA LawfulAtFirst ==
  ASSUME Init
  PROVE  Lawful
<1>1. \A t \in Tasks : task[t] = NewTask /\ ~HasJob(t)
  BY DEF Init, HasJob
<1>2. failedMerge = {} /\ launching = {}
  BY DEF Init
<1> QED
  BY <1>1, <1>2 DEF Lawful, ClaimsAreLawful, LaunchesAreClaimed, FailedMergesAreParked,
     NewTask, Unclaimed, Workable

LEMMA LawfulStutters ==
  ASSUME Lawful, UNCHANGED vars
  PROVE  Lawful'
<1> USE DEF vars, mergeVars, loopVars
<1>1. UNCHANGED <<task, jobs, failedMerge, pc, launching>>
  OBVIOUS
<1> QED
  BY <1>1 DEF Lawful, ClaimsAreLawful, LaunchesAreClaimed, FailedMergesAreParked, HasJob,
     Stopped

LEMMA LawfulKept ==
  ASSUME IInv, Lawful, Calm, Default, [Next]_vars
  PROVE  Lawful'
<1>1. IInv'
  BY Inductive
<1>2. CASE Next
  BY <1>1, <1>2, ClaimsKept, LaunchesKept, ParkedKept DEF Lawful
<1> QED
  BY <1>2, LawfulStutters

-----------------------------------------------------------------------------
(* Tasks that wait for others.                                             *)

\* A task is behind a blocked one only while it depends on an open task.
LEMMA UpstreamIsOpen ==
  ASSUME NEW reg, NEW t \in Upstream(reg)
  PROVE  \E d \in Deps[t] : d \in Tasks /\ reg[d].wf # "merged"
<1> DEFINE open  == {d \in Tasks : reg[d].wf # "merged"}
           roots == {d \in Tasks : reg[d].wf = "blocked" /\ reg[d].err # "dep"}
           Closed(S) == \A u \in Tasks : Deps[u] \cap open \cap (roots \cup S) # {} => u \in S
           others == Tasks \ {t}
<1> SUFFICES ASSUME Deps[t] \cap open = {}
             PROVE  FALSE
  OBVIOUS
<1>1. t \in Tasks /\ \A S \in SUBSET Tasks : Closed(S) => t \in S
  BY DEF Upstream
<1>2. Closed(others)
  OBVIOUS
<1>3. others \in SUBSET Tasks /\ t \notin others
  OBVIOUS
<1> HIDE DEF Closed, others
<1> QED
  BY <1>1, <1>2, <1>3

\* A task marked as waiting for others is blocked, and waits for one of them.
Reasoned(reg) ==
  \A t \in Tasks : reg[t].err = "dep" =>
    reg[t].wf = "blocked" /\ \E d \in Deps[t] : reg[d].wf # "merged"

LEMMA ReconciledIsReasoned ==
  ASSUME NEW reg \in [Tasks -> Task],
         \A t \in Tasks : reg[t].err = "dep" => reg[t].wf = "blocked"
  PROVE  Reasoned(ReconcileTaskBlocks(reg))
<1> DEFINE new == ReconcileTaskBlocks(reg)
<1> SUFFICES ASSUME NEW t \in Tasks, new[t].err = "dep"
             PROVE  new[t].wf = "blocked" /\ \E d \in Deps[t] : new[d].wf # "merged"
  BY DEF Reasoned
<1>1. \A u \in Tasks : DepMove(reg[u], new[u])
  BY ReconcileMoves
<1>2. t \in Upstream(reg) /\ new[t].wf = "blocked"
  BY DEF ReconcileTaskBlocks, Task
<1>3. PICK d \in Deps[t] : d \in Tasks /\ reg[d].wf # "merged"
  BY <1>2, UpstreamIsOpen
<1>4. new[d].wf # "merged"
  BY <1>1, <1>3 DEF DepMove
<1> QED
  BY <1>2, <1>4

LEMMA CompletedIsReasoned ==
  ASSUME TypeOK, Reasoned(task), NEW t \in Tasks, NEW r \in Task,
         r.err = "dep" => r.wf = "blocked"
  PROVE  Reasoned(Completed(t, r))
<1> DEFINE reg == [task EXCEPT ![t] = r]
<1>1. reg \in [Tasks -> Task] /\ \A u \in Tasks : reg[u].err = "dep" => reg[u].wf = "blocked"
  BY Records DEF Reasoned
<1> HIDE DEF reg
<1> QED
  BY <1>1, ReconciledIsReasoned DEF Completed, reg

\* Moves that mark no task, and close none.
LEMMA ReasonStays ==
  ASSUME NEW reg, NEW new, Reasoned(reg),
         \A t \in Tasks : /\ new[t].err = "dep" => reg[t].err = "dep" /\ new[t].wf = reg[t].wf
                          /\ new[t].wf = "merged" => reg[t].wf = "merged"
  PROVE  Reasoned(new)
<1>1. \A t \in Tasks : \A d \in Deps[t] : d \in Tasks
  BY TasksAssumption
<1> QED
  BY <1>1 DEF Reasoned

\* Without restarts the coordinator is down only before its first run.
LEMMA DownFrame ==
  ASSUME TypeOK, Next, MaxRestarts = 0, pc' = "down"
  PROVE  pc = "down" /\ (UNCHANGED task \/ \E t \in Tasks : HeartbeatAges(t))
<1> DEFINE Goal == pc = "down" /\ (UNCHANGED task \/ \E t \in Tasks : HeartbeatAges(t))
<1>1. CASE CleanupGhosts \/ ConsumeRows \/ ApplyBus \/ DropExit \/ ExitsDone
  BY <1>1 DEF CleanupGhosts, ConsumeRows, ApplyBus, DropExit, ExitsDone, loopVars
<1>2. ASSUME NEW t \in Tasks, NEW p \in Procs,
             TakeExit(t, p) \/ PauseOnExit(t, p) \/ Salvage(t, p) \/ Respawn(t, p)
      PROVE  Goal
  BY <1>2 DEF TakeExit, PauseOnExit, Salvage, Respawn, ExitTaken, loopVars
<1>3. CASE TakeMergeResult \/ PauseOnConflict \/ Advance \/ DispatchDone \/ OperatorReviews
           \/ StorageFails
  BY <1>3 DEF TakeMergeResult, PauseOnConflict, Advance, DispatchDone, OperatorReviews,
     StorageFails
<1>m. CASE MergesDone \/ OperatorResumes
  BY <1>m DEF MergesDone, OperatorResumes, AfterMerges, TypeOK, LoopOK
<1>e. CASE EndCycle
  <2>1. pc' \in {"complete", "failed", "ghosts"}
    BY <1>e, CountsAreNat DEF EndCycle
  <2> QED
    BY <2>1
<1>4. CASE Start \/ Crash \/ DispatchFails
  <2>1. ~(restarts < MaxRestarts)
    BY DEF TypeOK, EnvOK
  <2> QED
    BY <1>4, <2>1 DEF Start, Crash, DispatchFails
<1>5. ASSUME NEW t \in Tasks, Claim(t) \/ Launch(t) \/ LaunchLost(t)
      PROVE  Goal
  BY <1>5 DEF Claim, Launch, LaunchLost
<1>6. CASE (\E p \in Procs : Performer(p)) \/ MergeWorker
  BY <1>6, PerformerFrame, MergeWorkerFrame DEF loopVars
<1>7. CASE ThrottleExpires \/ \E p \in Procs : Heartbeat(p) \/ PhaseTimeout(p) \/ Die(p)
  BY <1>7 DEF ThrottleExpires, Heartbeat, PhaseTimeout, Die, performerUnchanged, loopVars
<1>8. CASE \E t \in Tasks : HeartbeatAges(t)
  BY <1>8 DEF HeartbeatAges, loopVars
<1>9. CASE Monitor
  BY <1>1, <1>2, <1>9 DEF Monitor
<1> QED
  BY <1>1, <1>3, <1>m, <1>e, <1>4, <1>5, <1>6, <1>7, <1>8, <1>9
  DEF Next, Loop, Operator, Environment

\* Before the first run no task is marked.
Fresh == pc = "down" => \A t \in Tasks : task[t].err = "none" /\ task[t].wf = "todo"

LEMMA FreshKept ==
  ASSUME TypeOK, MaxRestarts = 0, Fresh, [Next]_vars
  PROVE  Fresh'
<1>1. CASE Next
  <2> SUFFICES ASSUME pc' = "down", NEW t \in Tasks
               PROVE  task'[t].err = "none" /\ task'[t].wf = "todo"
    BY DEF Fresh
  <2>1. task'[t] = task[t] \/ Stays(task[t], task'[t])
    BY <1>1, DownFrame, AgingMoves
  <2> QED
    BY <1>1, <2>1, DownFrame DEF Fresh, Stays
<1>2. CASE UNCHANGED vars
  BY <1>2 DEF vars, loopVars, Fresh
<1> QED
  BY <1>1, <1>2

\* Before the first run nothing is blocked, and the sync changes nothing.
LEMMA FreshStart ==
  ASSUME TypeOK, Fresh, pc = "down", Start, NEW t \in Tasks
  PROVE  SweepMove(t, task[t], task'[t])
<1>1. \A u \in Tasks : task[u].wf = "todo"
  BY DEF Fresh
<1>2. {d \in Tasks : task[d].wf = "blocked" /\ task[d].err # "dep"} \cup {} = {}
  BY <1>1
<1>3. t \notin Upstream(task)
  BY <1>2 DEF Upstream
<1>4. SyncedRegistry[t] = task[t]
  BY <1>1, <1>3 DEF SyncedRegistry, ReconcileTaskBlocks
<1>5. task'[t] = Startup(t)
  BY DEF Start
<1> QED
  BY <1>4, <1>5, StartupMoves

LEMMA ReasonedKept ==
  ASSUME IInv, Lawful, Calm, Fresh, Reasoned(task), Default, MaxRestarts = 0, Next
  PROVE  Reasoned(task)'
<1>0. TypeOK /\ ClaimsAreLawful /\ AttemptsCounted /\ MaxAttempts = 1
  BY DEF IInv, Lawful, ClaimsAreLawful, AttemptsCounted, Default
\* What has been claimed waits for nothing.
<1>c. \A t \in Tasks : task[t].claim # 0 => task[t].err # "dep"
  BY <1>0 DEF ClaimsAreLawful, Reasoned
<1>u. CASE UNCHANGED task
  BY <1>u
<1>1. CASE CleanupGhosts
  <2> DEFINE reg == SyncedRegistry
  <2>1. \A t \in Tasks : reg[t] \in Task /\ task'[t] = Exorcised(reg[t])
    BY <1>0, <1>1, SyncMoves DEF CleanupGhosts
  <2>2. Reasoned(reg)
    BY <1>0, Records, ReconciledIsReasoned DEF SyncedRegistry, Reasoned
  <2> HIDE DEF reg
  <2>3. \A t \in Tasks : task'[t] = reg[t] \/ GhostMove(reg[t], task'[t])
    BY <2>1, ExorcisedMoves
  <2> QED
    BY <2>2, <2>3, ReasonStays DEF GhostMove
<1>2. CASE ApplyBus \/ PauseOnConflict \/ \E t \in Tasks : HeartbeatAges(t)
  <2>1. \A t \in Tasks : Stays(task[t], task'[t]) \/ StaleMove(task[t], task'[t])
    BY <1>0, <1>2, BusMoves, PauseMoves, AgingMoves
  <2> QED
    BY <2>1, ReasonStays DEF Stays, StaleMove, Reasoned
<1>3. CASE Advance
  <2>1. \A t \in Tasks : task'[t] = task[t] \/ PhaseMove(task[t], task'[t])
    BY <1>0, <1>3, AdvanceMoves
  <2>2. \A t \in Tasks : task[t].wf \in MergeSources => task[t].err # "dep"
    BY DEF Reasoned, MergeSources
  <2>3. "merged" \notin MergeSources
    BY DEF MergeSources
  <2> QED
    BY <2>1, <2>2, <2>3, ReasonStays DEF PhaseMove
<1>4. CASE Start
  <2>1. pc = "down"
    BY <1>0, <1>4 DEF Start, TypeOK, EnvOK
  <2>2. \A t \in Tasks : task'[t].err # "dep"
    BY <1>0, <1>4, <2>1, FreshStart DEF SweepMove, Fresh
  <2> QED
    BY <2>2 DEF Reasoned
<1>5. ASSUME NEW t \in Tasks, NEW p \in Procs, TakeExit(t, p) \/ PauseOnExit(t, p)
      PROVE  Reasoned(task)'
  <2>1. PICK s \in Decisions(t, p) :
          task' = Completed(t, ApplyStrategy(task[t], s, proc[p].code))
    BY <1>5 DEF TakeExit, PauseOnExit
  <2> DEFINE r == ApplyStrategy(task[t], s, proc[p].code)
  <2>2. r \in Task /\ s \in Strategies
    BY <1>0, Records, DecisionsAffordable, StrategyKeeps DEF Affordable
  <2>3. HasJob(t)
    BY <1>5 DEF TakeExit, PauseOnExit, ExitTaken
  <2>4. ExitMove(task[t], r, s.do)
    BY <1>0, <2>2, Records, StrategyMoves
  <2>5. task[t].err # "dep"
    BY <1>0, <1>c, <2>3 DEF ClaimsAreLawful
  <2> HIDE DEF r
  <2>6. r.err # "dep"
    BY <2>2, <2>4, <2>5 DEF ExitMove, Strategies
  <2>7. Reasoned(Completed(t, r))
    BY <1>0, <2>2, <2>6, CompletedIsReasoned
  <2> QED
    BY <2>1, <2>7 DEF r
<1>6. CASE TakeMergeResult
  <2> DEFINE m == Head(merges)
             r == ApplyMergeResult(task[m.task], m.how = "ok")
  <2>1. CASE MergeResultApplies(task[m.task], m.how = "ok")
    <3>1. task' = Completed(m.task, r) /\ m \in MergeResult
      BY <1>0, <1>6, <2>1, TakenResultMoves DEF TakeMergeResult
    <3>2. m.task \in Tasks /\ (m.how = "ok") \in BOOLEAN
      BY <3>1 DEF MergeResult
    <3>3. r \in Task /\ MergeMove(task[m.task], r, m.how = "ok")
      BY <1>0, <2>1, <3>2, Records, MergeResultKeeps, MergeResultMoves
    <3>4. task[m.task].err # "dep"
      BY <3>2, <3>3 DEF Reasoned, MergeMove, MergeSources
    <3> HIDE DEF m, r
    <3>5. Reasoned(Completed(m.task, r))
      BY <1>0, <3>2, <3>3, <3>4, CompletedIsReasoned DEF MergeMove
    <3> QED
      BY <3>1, <3>5
  <2>2. CASE ~MergeResultApplies(task[m.task], m.how = "ok")
    BY <1>6, <1>u, <2>2 DEF TakeMergeResult
  <2> QED
    BY <2>1, <2>2
<1>7. CASE MergesDone \/ OperatorResumes
  <2>1. \A m \in failedMerge : task[m.task].claim # 0
    BY <1>7 DEF Lawful, FailedMergesAreParked, Stopped, MergesDone, OperatorResumes
  <2>2. \A t \in Tasks : \/ task'[t] = task[t]
                         \/ task[t].claim # 0 /\ ResumeMove(task[t], task'[t])
    BY <1>0, <1>7, <2>1, FailuresMove
  <2> QED
    BY <1>c, <2>2, ReasonStays DEF ResumeMove
<1>8. ASSUME NEW t \in Tasks, Claim(t)
      PROVE  Reasoned(task)'
  <2>1. task[t].wf = "todo"
    BY <1>8 DEF Claim, CanDispatch, Ready
  <2>2. task[t].err # "dep"
    BY <2>1 DEF Reasoned
  <2> QED
    BY <1>0, <1>8, <2>2, ClaimMoves, ReasonStays
<1>9. ASSUME NEW t \in Tasks, Launch(t)
      PROVE  Reasoned(task)'
  BY <1>0, <1>9, LaunchMoves, ReasonStays
<1>10. ASSUME NEW t \in Tasks, NEW p \in Procs, Salvage(t, p) \/ Respawn(t, p)
       PROVE  FALSE
  BY <1>0, <1>10, OneAttempt
<1> QED
  BY <1>u, <1>1, <1>2, <1>3, <1>4, <1>5, <1>6, <1>7, <1>8, <1>9, <1>10, RegistryFrame
  DEF RegistryStep

-----------------------------------------------------------------------------
(* Tasks that count as active.                                             *)

\* A claimed task has a performer the run waits for, or is about to get one.
Attended(t) == HasJob(t) \/ (pc = "launch" /\ t \in launching)
Held ==
  /\ ~Stopped => \A t \in Tasks : task[t].wf = "claimed" => Attended(t)
  /\ pc = "launch" => \A t, u \in launching : t = u

LEMMA BusClaimsNothing ==
  ASSUME TypeOK, ApplyBus, NEW t \in Tasks, task'[t].wf = "claimed"
  PROVE  task[t].wf = "claimed"
<1> DEFINE r == ApplyUpdate(task[t], bus[t])
<1>1. task'[t] = StalePolicy(t, r)
  BY DEF ApplyBus
<1>2. r \in Task /\ r.wf = task[t].wf
  BY Records, UpdateMoves, UpdateKeeps DEF Stays, TypeOK, BusOK
<1> HIDE DEF r
<1> QED
  BY <1>1, <1>2 DEF StalePolicy, Task

\* The moves that claim nothing.
LEMMA MovesClaimNothing ==
  ASSUME NEW t, NEW r, NEW s, s.wf = "claimed",
         PlainMove(r, s) \/ MergeMove(r, s, TRUE) \/ MergeMove(r, s, FALSE) \/ ResumeMove(r, s)
           \/ StartMove(t, r, s)
  PROVE  r.wf = "claimed"
BY DEF PlainMove, Stays, StaleMove, GhostMove, DepMove, PhaseMove, MergeMove, ResumeMove,
   StartMove, SweepMove, SamePlace, MergeSources

\* Once its exit has been taken a task is not claimed any more.
LEMMA ConcludedIsUnclaimed ==
  ASSUME TypeOK, AttemptsCounted, MaxAttempts = 1, NEW t \in Tasks, NEW p \in Procs,
         TakeExit(t, p) \/ PauseOnExit(t, p)
  PROVE  /\ task'[t].wf # "claimed"
         /\ \A u \in Tasks \ {t} : task'[u].wf = "claimed" => task[u].wf = "claimed"
<1>1. PICK s, r : Concludes(t, p, s, r)
  BY ExitMoves
<1>2. HasJob(t)
  BY DEF TakeExit, PauseOnExit, ExitTaken
<1>3. s \in Strategies /\ s.do # "attempt" /\ ExitMove(task[t], r, s.do)
  BY <1>1, <1>2, NoMoreAttempts DEF Concludes
<1>4. r.wf # "claimed"
  BY <1>3 DEF ExitMove, Strategies
<1>5. DepMove(r, task'[t]) /\ \A u \in Tasks \ {t} : DepMove(task[u], task'[u])
  BY <1>1 DEF Concludes
<1> QED
  BY <1>4, <1>5 DEF DepMove

LEMMA NothingClaimed ==
  ASSUME TypeOK, AttemptsCounted, MaxAttempts = 1, Next, NEW t \in Tasks,
         task'[t].wf = "claimed"
  PROVE  task[t].wf = "claimed" \/ Claim(t)
<1>1. CASE UNCHANGED task
  BY <1>1
<1>2. CASE CleanupGhosts \/ PauseOnConflict \/ Advance
           \/ \E u \in Tasks : HeartbeatAges(u)
  BY <1>2, GhostsMove, PauseMoves, AdvanceMoves, AgingMoves, MovesClaimNothing DEF PlainMove
<1>3. CASE ApplyBus
  BY <1>3, BusClaimsNothing
<1>4. CASE Start
  BY <1>4, StartMoves, MovesClaimNothing
<1>5. CASE MergesDone \/ OperatorResumes
  <2>1. task'[t] = task[t] \/ ResumeMove(task[t], task'[t])
    BY <1>5, FailuresMove
  <2> QED
    BY <2>1, MovesClaimNothing
<1>6. CASE TakeMergeResult
  <2> DEFINE m == Head(merges)
  <2>1. CASE UNCHANGED task
    BY <2>1
  <2>2. CASE ~UNCHANGED task
    <3>1. PICK r \in Task :
            /\ MergeMove(task[m.task], r, m.how = "ok")
            /\ \A u \in Tasks : DepMove(IF u = m.task THEN r ELSE task[u], task'[u])
      BY <1>6, <2>2, TakenResultMoves
    <3> HIDE DEF m
    <3>2. DepMove(task[t], task'[t]) \/ (t = m.task /\ DepMove(r, task'[t]))
      BY <3>1
    <3> QED
      BY <3>1, <3>2 DEF DepMove, MergeMove
  <2> QED
    BY <2>1, <2>2
<1>7. ASSUME NEW u \in Tasks, NEW p \in Procs, TakeExit(u, p) \/ PauseOnExit(u, p)
      PROVE  task[t].wf = "claimed"
  BY <1>7, ConcludedIsUnclaimed
<1>8. ASSUME NEW u \in Tasks, Claim(u)
      PROVE  task[t].wf = "claimed" \/ Claim(t)
  BY <1>8, ClaimMoves
<1>9. ASSUME NEW u \in Tasks, Launch(u)
      PROVE  task[t].wf = "claimed"
  BY <1>9, LaunchMoves
<1>10. ASSUME NEW u \in Tasks, NEW p \in Procs, Salvage(u, p) \/ Respawn(u, p)
       PROVE  FALSE
  BY <1>10, OneAttempt
<1> QED
  BY <1>1, <1>2, <1>3, <1>4, <1>5, <1>6, <1>7, <1>8, <1>9, <1>10, RegistryFrame
  DEF RegistryStep

\* Only an exit, a restart or a storage error ends a job.
LEMMA JobsStay ==
  ASSUME IInv, AttemptsCounted, MaxAttempts = 1, Next, ~Start, ~StorageFails,
         NEW t \in Tasks, HasJob(t)
  PROVE  \/ HasJob(t)'
         \/ \E p \in Procs : TakeExit(t, p) \/ PauseOnExit(t, p)
<1>0. TypeOK /\ jobs \in [Tasks -> Job] /\ jobs[t].proc \in Procs
  BY DEF IInv, TypeOK, ProcOK, WorkAssigned
<1>z. 0 \notin Procs
  BY DEF Procs
<1>u. CASE UNCHANGED jobs
  BY <1>u DEF HasJob
<1>2. CASE ApplyBus
  <2>1. jobs'[t] = jobs[t] \/ \E x \in BOOLEAN : jobs'[t] = [jobs[t] EXCEPT !.signaled = x]
    BY <1>2 DEF ApplyBus
  <2>2. jobs'[t].proc = jobs[t].proc
    BY <1>0, <2>1 DEF Job
  <2> QED
    BY <1>0, <1>z, <2>2 DEF HasJob, NoJob
<1>3. ASSUME NEW u \in Tasks, NEW p \in Procs,
             TakeExit(u, p) \/ PauseOnExit(u, p) \/ Salvage(u, p) \/ Respawn(u, p)
      PROVE  HasJob(t)' \/ \E q \in Procs : TakeExit(t, q) \/ PauseOnExit(t, q)
  <2>1. TakeExit(u, p) \/ PauseOnExit(u, p)
    BY <1>0, <1>3, OneAttempt
  <2>2. jobs' = [jobs EXCEPT ![u] = NoJob]
    BY <2>1 DEF TakeExit, PauseOnExit
  <2>3. u # t => jobs'[t] = jobs[t]
    BY <1>0, <2>2
  <2> QED
    BY <2>1, <2>3 DEF HasJob
<1>4. ASSUME NEW u \in Tasks, Launch(u)
      PROVE  HasJob(t)'
  <2>1. jobs' = [jobs EXCEPT ![u] = NewJob(nproc + 1, 1)] /\ nproc + 1 \in Procs
    BY <1>4 DEF Launch
  <2>2. jobs'[t] = jobs[t] \/ jobs'[t].proc = nproc + 1
    BY <1>0, <2>1 DEF NewJob
  <2> QED
    BY <1>z, <2>1, <2>2 DEF HasJob, NoJob
<1>7. CASE Loop
  <2>1. CASE Monitor
    BY <1>u, <1>2, <1>3, <2>1 DEF Monitor, CleanupGhosts, ConsumeRows, DropExit, ExitsDone
  <2>2. CASE TakeMergeResult \/ MergesDone \/ PauseOnConflict \/ Advance \/ DispatchDone
             \/ EndCycle \/ \E u \in Tasks : Claim(u)
    BY <1>u, <2>2 DEF TakeMergeResult, MergesDone, PauseOnConflict, Advance, DispatchDone,
       EndCycle, Claim
  <2> QED
    BY <1>4, <1>7, <2>1, <2>2 DEF Loop
<1>8. CASE (\E p \in Procs : Performer(p)) \/ MergeWorker \/ Operator
  BY <1>u, <1>8, PerformerFrame, MergeWorkerFrame DEF Operator, OperatorReviews,
     OperatorResumes
<1>9. CASE Environment
  BY <1>u, <1>9 DEF Environment, Heartbeat, PhaseTimeout, Die, performerUnchanged,
     ThrottleExpires, Crash, DispatchFails, HeartbeatAges, LaunchLost
<1> QED
  BY <1>7, <1>8, <1>9 DEF Next

\* A launch waits for nothing but its own step, and ends only with the run.
LEMMA LaunchWaits ==
  ASSUME TypeOK, Next, ~StorageTrouble, pc = "launch"
  PROVE  UNCHANGED <<pc, launching>> \/ Stopped' \/ \E t \in Tasks : Launch(t)
<1>1. ~Monitor
  BY DEF Monitor, CleanupGhosts, ConsumeRows, ApplyBus, DropExit, ExitsDone, TakeExit,
     PauseOnExit, Salvage, Respawn, ExitTaken
<1>2. CASE Loop
  BY <1>1, <1>2 DEF Loop, TakeMergeResult, MergesDone, PauseOnConflict, Advance, Claim,
     DispatchDone, EndCycle
<1>3. CASE (\E p \in Procs : Performer(p)) \/ MergeWorker
  BY <1>3, PerformerFrame, MergeWorkerFrame DEF loopVars
<1>4. CASE Environment
  BY <1>4 DEF Environment, Heartbeat, PhaseTimeout, Die, performerUnchanged, loopVars,
     ThrottleExpires, Crash, DispatchFails, HeartbeatAges, LaunchLost, StorageFails, Stopped
<1>5. ~Start /\ ~Operator
  BY DEF Start, Stopped, Operator, OperatorReviews, OperatorResumes
<1> QED
  BY <1>2, <1>3, <1>4, <1>5 DEF Next

\* A run that is over stays over until the next start.
LEMMA StoppedFrame ==
  ASSUME Next, Stopped, ~Start
  PROVE  Stopped'
<1>0. ASSUME NEW t \in Tasks, NEW p \in Procs,
             TakeExit(t, p) \/ PauseOnExit(t, p) \/ Salvage(t, p) \/ Respawn(t, p)
      PROVE  FALSE
  BY <1>0 DEF Stopped, TakeExit, PauseOnExit, Salvage, Respawn, ExitTaken
<1>1. ~Monitor
  BY <1>0 DEF Stopped, Monitor, CleanupGhosts, ConsumeRows, ApplyBus, DropExit, ExitsDone
<1>2. ~Loop
  BY <1>1 DEF Stopped, Loop, TakeMergeResult, MergesDone, PauseOnConflict, Advance, Claim,
     Launch, DispatchDone, EndCycle
<1>3. CASE (\E p \in Procs : Performer(p)) \/ MergeWorker
  BY <1>3, PerformerFrame, MergeWorkerFrame DEF loopVars, Stopped
<1>4. CASE Environment
  BY <1>4 DEF Environment, Heartbeat, PhaseTimeout, Die, performerUnchanged, loopVars,
     ThrottleExpires, Crash, DispatchFails, HeartbeatAges, LaunchLost, StorageFails, Stopped
<1>5. ~Operator
  BY DEF Stopped, Operator, OperatorReviews, OperatorResumes
<1> QED
  BY <1>2, <1>3, <1>4, <1>5 DEF Next

LEMMA OneLaunchKept ==
  ASSUME TypeOK, Held, Next
  PROVE  pc' = "launch" => \A t, u \in launching' : t = u
<1>1. ASSUME NEW t \in Tasks, Claim(t)
      PROVE  \A x, y \in launching' : x = y
  BY <1>1 DEF Claim
<1> QED
  BY <1>1, LaunchFrame DEF Held

LEMMA HeldKept ==
  ASSUME IInv, AttemptsCounted, Fresh, Held, MaxAttempts = 1, ~StorageTrouble,
         MaxRestarts = 0, Next
  PROVE  Held'
<1>0. TypeOK /\ launching \subseteq Tasks
  BY DEF IInv, TypeOK, LoopOK
<1>3. pc' = "launch" => \A t, u \in launching' : t = u
  BY <1>0, OneLaunchKept
<1>1. CASE Start
  <2>1. pc = "down"
    BY <1>0, <1>1 DEF Start, TypeOK, EnvOK
  <2>2. \A t \in Tasks : task'[t].wf # "claimed"
    BY <1>0, <1>1, <2>1, FreshStart DEF SweepMove, Fresh
  <2> QED
    BY <1>3, <2>2 DEF Held
<1>2. CASE ~Start
  <2> SUFFICES ASSUME ~Stopped', NEW t \in Tasks, task'[t].wf = "claimed"
               PROVE  Attended(t)'
    BY <1>3 DEF Held
  <2>1. task[t].wf = "claimed" \/ Claim(t)
    BY <1>0, NothingClaimed
  <2>2. CASE Claim(t)
    BY <2>2 DEF Claim, Attended
  <2>3. CASE task[t].wf = "claimed"
    <3>1. ~Stopped
      <4>1. Stopped => Stopped'
        BY <1>0, <1>2, StoppedFrame
      <4> QED
        BY <4>1
    <3>2. CASE HasJob(t)
      <4>1. ~StorageFails
        BY DEF StorageFails
      <4>2. ~\E p \in Procs : TakeExit(t, p) \/ PauseOnExit(t, p)
        BY <1>0, ConcludedIsUnclaimed
      <4> QED
        BY <1>2, <3>2, <4>1, <4>2, JobsStay DEF Attended
    <3>3. CASE pc = "launch" /\ t \in launching
      <4>1. ASSUME NEW u \in Tasks, Launch(u)
            PROVE  HasJob(t)'
        <5>1. CASE u = t
          BY <1>0, <4>1, <5>1 DEF Launch, HasJob, NewJob, NoJob, TypeOK, ProcOK, Procs
        <5>2. CASE u # t
          BY <4>1, <3>3, <5>2 DEF Held, Launch
        <5> QED
          BY <5>1, <5>2
      <4> QED
        BY <1>0, <3>3, <4>1, LaunchWaits DEF Attended
    <3> QED
      BY <2>3, <3>1, <3>2, <3>3 DEF Held, Attended
  <2> QED
    BY <2>1, <2>2, <2>3
<1> QED
  BY <1>1, <1>2

\* No task is lost: within a run of one attempt per claim, at the end of a cycle every
\* task that counts as active is worked on or has a next step. A claim is left only with
\* its job, and a job only with a decision that takes the task out of its claim, whatever
\* the stale policy and the ghost cleanup do in between.
THEOREM NoTaskIsLost ==
  ASSUME MaxAttempts = 1, ~StorageTrouble, MaxRestarts = 0
  PROVE  Spec => []NoLostTask
<1> DEFINE HInv == IInv /\ AttemptsCounted /\ Fresh /\ Held
<1>1. Init => HInv
  <2> SUFFICES ASSUME Init PROVE HInv
    OBVIOUS
  <2>1. \A t \in Tasks : /\ task[t].err = "none" /\ task[t].wf = "todo"
                         /\ ~HasJob(t)
    BY DEF Init, NewTask, HasJob
  <2>2. pc = "down"
    BY DEF Init
  <2> QED
    BY <2>1, <2>2, InitialState DEF Fresh, Held, AttemptsCounted
<1>2. HInv /\ [Next]_vars => HInv'
  <2> SUFFICES ASSUME HInv, [Next]_vars PROVE HInv'
    OBVIOUS
  <2>1. IInv' /\ Fresh'
    BY Inductive, FreshKept DEF IInv
  <2>2. CASE Next
    <3>1. Held'
      BY <2>2, HeldKept
    <3>2. FewerJobs \/ \E t \in Tasks : Launch(t)
      BY <2>2, JobsFall DEF IInv
    <3>3. ASSUME FewerJobs
          PROVE  AttemptsCounted'
      BY <3>3 DEF FewerJobs, AttemptsCounted
    <3>4. ASSUME NEW t \in Tasks, Launch(t)
          PROVE  AttemptsCounted'
      <4>1. jobs'[t].attempt = 1 /\ \A u \in Tasks \ {t} : jobs'[u] = jobs[u]
        BY <3>4 DEF Launch, NewJob, IInv, TypeOK, ProcOK
      <4> QED
        BY <4>1 DEF AttemptsCounted, HasJob
    <3> QED
      BY <2>1, <3>1, <3>2, <3>3, <3>4
  <2>3. CASE UNCHANGED vars
    <3>1. UNCHANGED <<task, jobs, pc, launching>>
      BY <2>3 DEF vars, loopVars
    <3> QED
      BY <2>1, <3>1 DEF Held, AttemptsCounted, HasJob, Attended, Stopped
  <2> QED
    BY <2>2, <2>3
<1>3. HInv => NoLostTask
  <2> SUFFICES ASSUME HInv, pc = "end", NEW t \in Tasks, CountedActive(task[t])
               PROVE  HasJob(t) \/ PlanAdvance(task[t]).kind # "noop"
    BY DEF NoLostTask
  <2>1. task[t].wf \in WorkflowStates
    BY Records DEF IInv, Task
  <2>2. CASE task[t].wf = "claimed"
    BY <2>2 DEF Held, Attended, Stopped
  <2>3. CASE task[t].wf # "claimed"
    BY <2>1, <2>3 DEF CountedActive, WorkflowStates, PlanAdvance, ReviewOrMerge, Phase, MergePlan
  <2> QED
    BY <2>2, <2>3
<1> QED
  BY <1>1, <1>2, <1>3, PTL DEF Spec
=============================================================================
