---------------------------- MODULE PromiseProofs ----------------------------
(***************************************************************************)
(* Why a task is closed only when its work is on the base branch: what a   *)
(* performer reported is on its branch or on the base branch, a merge      *)
(* result is of the task it was asked for, and nobody works on a task that *)
(* waits for its merge.                                                    *)
(***************************************************************************)
EXTENDS ProcessProofs

-----------------------------------------------------------------------------
(* A task that waits for its merge stays as it is until it is answered.    *)

SamePlan(r, s) == s.wf = r.wf /\ s.reviews = r.reviews /\ s.wt = r.wt

LEMMA PlannedRecord ==
  ASSUME NEW t \in Tasks, MergePlanned(t)
  PROVE  task[t].wf \in MergeSources
BY DEF MergePlanned, PlanAdvance, MergeSources, Phase

LEMMA SamePlanIsPlanned ==
  ASSUME NEW t \in Tasks, MergePlanned(t), SamePlan(task[t], task'[t])
  PROVE  MergePlanned(t)'
<1>1. PlanAdvance(task'[t]) = PlanAdvance(task[t])
  BY DEF PlanAdvance, SamePlan, ReviewOrMerge, ReviewAvailable
<1> QED
  BY <1>1 DEF MergePlanned

LEMMA ReconcileSpares ==
  ASSUME NEW reg, NEW t \in Tasks, reg[t].wf \notin {"todo", "blocked"}
  PROVE  ReconcileTaskBlocks(reg)[t] = reg[t]
BY DEF ReconcileTaskBlocks

LEMMA CompletedSpares ==
  ASSUME TypeOK, NEW t \in Tasks, NEW u \in Tasks, NEW r, u # t,
         task[t].wf \notin {"todo", "blocked"}
  PROVE  Completed(u, r)[t] = task[t]
<1> DEFINE reg == [task EXCEPT ![u] = r]
<1>1. reg[t] = task[t]
  BY Records
<1> HIDE DEF reg
<1>2. ReconcileTaskBlocks(reg)[t] = reg[t]
  BY <1>1, ReconcileSpares
<1> QED
  BY <1>1, <1>2 DEF Completed, reg

LEMMA PlannedStays ==
  ASSUME IInv, Lawful, Calm, Default, Next, ~Start, NEW t \in Tasks, MergePlanned(t),
         t \in mjobs \/ task[t].wt # 0,
         ~(TakeMergeResult /\ t = Head(merges).task)
  PROVE  SamePlan(task[t], task'[t])
<1>0. /\ TypeOK /\ AttemptsCounted /\ MaxAttempts = 1
  BY DEF IInv, Lawful, ClaimsAreLawful, AttemptsCounted, Default
<1>1. /\ task[t] \in Task /\ task[t].wf \in MergeSources /\ task[t].wf \notin {"todo", "blocked", "claimed"}
      /\ task[t].pid = 0 /\ ~HasJob(t)
  BY <1>0, Records, PlannedRecord DEF MergeSources, Lawful, ClaimsAreLawful, Workable
<1>u. CASE task'[t] = task[t]
  BY <1>u DEF SamePlan
<1>2. CASE CleanupGhosts
  <2>1. SyncedRegistry[t] = task[t]
    BY <1>1, ReconcileSpares DEF SyncedRegistry
  <2>2. task'[t] = Exorcised(task[t])
    BY <1>2, <2>1 DEF CleanupGhosts
  <2> QED
    BY <1>1, <1>u, <2>2 DEF Exorcised, Ghost
<1>3. CASE ApplyBus
  <2>1. ~StaleMove(task[t], task'[t]) /\ ApplyUpdate(task[t], bus[t]) \in Task
    BY <1>0, <1>1, UpdateKeeps DEF StaleMove, PastWork, TypeOK, BusOK
  <2>2. task'[t].wf = task[t].wf
    BY <1>0, <1>3, <2>1, BusMoves DEF Stays
  <2>3. task'[t] = ApplyUpdate(task[t], bus[t])
    BY <1>1, <1>3, <2>1, <2>2 DEF ApplyBus, StalePolicy, ApplyUpdate, Task
  <2> QED
    BY <1>1, <2>3 DEF ApplyUpdate, SamePlan, Task
<1>4. CASE TakeMergeResult
  <2> DEFINE h == Head(merges)
  <2>1. h.task \in Tasks
    BY <1>0, <1>4, TakenResultMoves DEF MergeResult
  <2>2. UNCHANGED task \/ task' = Completed(h.task, ApplyMergeResult(task[h.task], h.how = "ok"))
    BY <1>4 DEF TakeMergeResult
  <2>3. t # h.task
    BY <1>4
  <2> HIDE DEF h
  <2> QED
    BY <1>0, <1>1, <1>u, <2>1, <2>2, <2>3, CompletedSpares
<1>5. CASE MergesDone \/ OperatorResumes
  <2>1. \A m \in failedMerge : task[m.task].wf \in {"todo", "blocked"}
    BY <1>5 DEF MergesDone, OperatorResumes, Lawful, FailedMergesAreParked, Stopped
  <2> QED
    BY <1>0, <1>1, <1>5, <1>u, <2>1, FailuresMove
<1>6. CASE PauseOnConflict
  <2>1. task'[t] \in {task[t], [task[t] EXCEPT !.rt = "paused"]}
    BY <1>0, <1>6, Records DEF PauseOnConflict
  <2> QED
    BY <1>1, <2>1 DEF SamePlan, Task
<1>7. CASE Advance
  BY <1>0, <1>7, <1>u, AdvanceMoves DEF MergePlanned
<1>8. ASSUME NEW u \in Tasks, NEW p \in Procs, TakeExit(u, p) \/ PauseOnExit(u, p)
      PROVE  task'[t] = task[t]
  <2>1. u # t
    BY <1>1, <1>8 DEF TakeExit, PauseOnExit, ExitTaken
  <2>2. \E r : task' = Completed(u, r)
    BY <1>8 DEF TakeExit, PauseOnExit
  <2> QED
    BY <1>0, <1>1, <2>1, <2>2, CompletedSpares
<1>9. ASSUME NEW u \in Tasks, NEW p \in Procs, Salvage(u, p) \/ Respawn(u, p)
      PROVE  FALSE
  BY <1>0, <1>9, OneAttempt
<1>10. ASSUME NEW u \in Tasks, Claim(u) \/ Launch(u)
       PROVE  task'[t] = task[t]
  <2>1. u # t
    BY <1>1, <1>10 DEF Claim, CanDispatch, Ready, Launch, Lawful, LaunchesAreClaimed
  <2> QED
    BY <1>0, <1>10, <2>1, ClaimMoves, LaunchMoves
<1>11. ASSUME NEW u \in Tasks, HeartbeatAges(u)
       PROVE  SamePlan(task[t], task'[t])
  <2>1. task'[t] \in {task[t], [task[t] EXCEPT !.hb = "old"]}
    BY <1>0, <1>11, Records DEF HeartbeatAges
  <2> QED
    BY <1>1, <2>1 DEF SamePlan, Task
<1> QED
  BY <1>u, <1>2, <1>3, <1>4, <1>5, <1>6, <1>7, <1>8, <1>9, <1>10, <1>11, RegistryFrame
  DEF RegistryStep

-----------------------------------------------------------------------------
(* One merge at a time is waited for, and it is of a task that waits.      *)

\* The tasks whose merge is still waited for after a step keep their plan.
LEMMA AwaitedStay ==
  ASSUME IInv, Lawful, Calm, Default, OneAnswer, Next, ~Start, NEW t \in mjobs,
         ~(TakeMergeResult /\ t = Head(merges).task)
  PROVE  MergePlanned(t)' /\ task'[t].wt = task[t].wt
<1>1. t \in Tasks /\ MergePlanned(t)
  BY DEF OneAnswer, IInv, TypeOK, MergeOK
<1>2. SamePlan(task[t], task'[t])
  BY <1>1, PlannedStays
<1> QED
  BY <1>1, <1>2, SamePlanIsPlanned DEF SamePlan

\* Nothing of the merges changes.
LEMMA AwaitedRest ==
  ASSUME IInv, Lawful, Calm, Default, OneAnswer, Next, ~Start, UNCHANGED <<mjobs, workers, merges>>,
         ~TakeMergeResult
  PROVE  OneAnswer'
<1>1. \A t \in mjobs : MergePlanned(t)' /\ task'[t].wt = task[t].wt
  BY AwaitedStay
<1> QED
  BY <1>1 DEF OneAnswer

\* A worker that answers, or is answered for.
LEMMA AwaitedAnswers ==
  ASSUME IInv, OneAnswer, NEW w \in workers, FinishMerge(w) \/ MergeTimeout(w)
  PROVE  OneAnswer'
<1>0. workers \subseteq MergeJob /\ \A v \in workers : v.orphan \in BOOLEAN
  BY DEF IInv, TypeOK, MergeOK, MergeJob
<1>1. UNCHANGED <<task, mjobs>>
  BY DEF FinishMerge, MergeTimeout
<1>2. \A v \in workers' : ~v.orphan => v \in workers /\ v # w
  <2>1. CASE FinishMerge(w)
    BY <2>1 DEF FinishMerge
  <2>2. CASE MergeTimeout(w)
    <3> DEFINE late == [w EXCEPT !.orphan = TRUE]
    <3>1. workers' = (workers \ {w}) \cup {late}
      BY <2>2 DEF MergeTimeout
    <3>2. late.orphan
      BY <1>0 DEF MergeJob
    <3> HIDE DEF late
    <3> QED
      BY <3>1, <3>2
  <2> QED
    BY <2>1, <2>2
<1>3. CASE w.orphan
  <2>1. UNCHANGED merges
    BY <1>3 DEF FinishMerge, MergeTimeout
  <2> QED
    BY <1>1, <1>2, <2>1 DEF OneAnswer, MergePlanned
<1>4. CASE ~w.orphan
  <2>1. merges = <<>> /\ w.task \in mjobs
    BY <1>4 DEF OneAnswer
  <2>2. PICK how : merges' = Append(merges, [task |-> w.task, how |-> how])
    BY <1>4 DEF FinishMerge, MergeTimeout
  <2>3. Len(merges') = 1 /\ merges'[1].task = w.task
    BY <2>1, <2>2
  <2>4. \A v \in workers' : v.orphan
    BY <1>2, <1>4 DEF OneAnswer
  <2> QED
    BY <1>1, <2>1, <2>3, <2>4 DEF OneAnswer, MergePlanned
<1> QED
  BY <1>3, <1>4

\* The answer is taken, by a pass that succeeds or by one that fails.
LEMMA AwaitedTaken ==
  ASSUME IInv, OneAnswer, merges # <<>>, merges' = Tail(merges),
         mjobs' = mjobs \ {Head(merges).task}, UNCHANGED workers
  PROVE  OneAnswer'
<1>1. merges \in Seq(MergeResult) /\ Len(merges) = 1 /\ merges[1].task \in mjobs
  BY DEF IInv, TypeOK, MergeOK, OneAnswer
<1>2. Head(merges) = merges[1] /\ Tail(merges) = <<>>
  <2>1. Head(merges) = merges[1]
    BY <1>1
  <2>2. Tail(merges) \in Seq(MergeResult) /\ Len(Tail(merges)) = 0
    BY <1>1
  <2> QED
    BY <2>1, <2>2
<1>3. mjobs' = {}
  BY <1>1, <1>2 DEF OneAnswer
<1>4. \A w \in workers' : w.orphan
  BY DEF OneAnswer
<1> QED
  BY <1>2, <1>3, <1>4 DEF OneAnswer

\* One merge is started when none is waited for.
LEMMA AwaitedAdvance ==
  ASSUME IInv, Lawful, Calm, Default, OneAnswer, Advance
  PROVE  OneAnswer'
<1>0. TypeOK /\ Next /\ ~Start /\ ~TakeMergeResult /\ UNCHANGED merges
  BY DEF IInv, Next, Loop, Advance, Start, Stopped, TakeMergeResult
<1>1. CASE Mergeable = {}
  <2>1. UNCHANGED <<mjobs, workers, merges>>
    BY <1>0, <1>1 DEF Advance
  <2> QED
    BY <1>0, <2>1, AwaitedRest
<1>2. CASE Mergeable # {}
  <2>1. PICK t \in Mergeable :
          /\ mjobs' = mjobs \cup {t}
          /\ workers' = workers \cup {[task |-> t, branch |-> task[t].wt, orphan |-> FALSE]}
    BY <1>2 DEF Advance
  <2> DEFINE x == [task |-> t, branch |-> task[t].wt, orphan |-> FALSE]
  <2>2. mjobs = {} /\ t \in Tasks /\ task[t].wt # 0 /\ Plan(t).kind = "merge"
    BY <1>2, <2>1 DEF Mergeable, Planned
  <2>3. MergePlanned(t)
    BY <2>2 DEF Plan, MergePlanned
  <2>4. SamePlan(task[t], task'[t])
    BY <1>0, <2>2, <2>3, PlannedStays
  <2>5. MergePlanned(t)' /\ task'[t].wt = task[t].wt
    BY <2>2, <2>3, <2>4, SamePlanIsPlanned DEF SamePlan
  <2>6. merges = <<>> /\ \A w \in workers : w.orphan
    BY <2>2 DEF OneAnswer
  <2>7. x.task = t /\ x.branch = task[t].wt /\ workers' = workers \cup {x}
    BY <2>1
  <2>8. mjobs' = {t} /\ merges' = <<>>
    BY <1>0, <2>1, <2>2, <2>6
  <2> HIDE DEF x
  <2> QED
    BY <2>5, <2>6, <2>7, <2>8 DEF OneAnswer
<1> QED
  BY <1>1, <1>2

LEMMA AwaitedKept ==
  ASSUME IInv, Lawful, Calm, Default, OneMergeAwaited, Next
  PROVE  OneMergeAwaited'
<1>1. CASE Start
  BY <1>1 DEF Start, OneMergeAwaited, OneAnswer
<1>2. CASE Stopped' /\ ~Start
  BY <1>2 DEF OneMergeAwaited
<1>3. CASE ~Start /\ ~Stopped'
  <2>1. OneAnswer
    BY <1>3, StoppedFrame DEF OneMergeAwaited
  <2>2. CASE AwayFromMerges \/ MergesDone \/ OperatorResumes
    <3>1. UNCHANGED <<mjobs, workers, merges>>
      BY <2>2 DEF AwayFromMerges, MergesDone, OperatorResumes, mergeVars
    <3>2. ~TakeMergeResult
      <4>1. TakeMergeResult => merges' # merges
        BY DEF TakeMergeResult, IInv, TypeOK, MergeOK
      <4> QED
        BY <3>1, <4>1
    <3> QED
      BY <1>3, <2>1, <3>1, <3>2, AwaitedRest DEF OneMergeAwaited
  <2>3. CASE MergeWorker
    BY <2>1, <2>3, AwaitedAnswers DEF MergeWorker, OneMergeAwaited
  <2>4. CASE TakeMergeResult
    BY <2>1, <2>4, AwaitedTaken DEF TakeMergeResult, OneMergeAwaited
  <2>5. CASE PauseOnConflict
    <3>1. mjobs' = {} /\ merges' = <<>> /\ workers' = {[w EXCEPT !.orphan = TRUE] : w \in workers}
      BY <2>5 DEF PauseOnConflict
    <3>2. \A w \in workers' : w.orphan
      BY <3>1 DEF IInv, TypeOK, MergeOK, MergeJob
    <3> QED
      BY <3>1, <3>2 DEF OneAnswer, OneMergeAwaited
  <2>6. CASE Advance
    BY <2>1, <2>6, AwaitedAdvance DEF OneMergeAwaited
  <2>7. CASE StorageFails
    <3>1. UNCHANGED <<task, workers>>
      BY <2>7 DEF StorageFails
    <3>2. CASE pc = "merges" /\ merges # <<>>
      <4>1. merges' = Tail(merges) /\ merges' # merges
        BY <2>7, <3>2 DEF StorageFails, IInv, TypeOK, MergeOK
      <4>2. mjobs' = mjobs \ {Head(merges).task}
        BY <2>7, <4>1 DEF StorageFails
      <4> QED
        BY <2>1, <3>1, <3>2, <4>1, <4>2, AwaitedTaken DEF OneMergeAwaited
    <3>3. CASE ~(pc = "merges" /\ merges # <<>>)
      <4>1. merges' = merges
        BY <2>7, <3>3 DEF StorageFails
      <4>2. mjobs' = mjobs
        BY <2>7, <4>1 DEF StorageFails
      <4> QED
        BY <2>1, <3>1, <4>1, <4>2 DEF OneMergeAwaited, OneAnswer, MergePlanned
    <3> QED
      BY <3>2, <3>3
  <2> QED
    BY <1>3, <2>2, <2>3, <2>4, <2>5, <2>6, <2>7, MergeFrame DEF MergeStep
<1> QED
  BY <1>1, <1>2, <1>3

-----------------------------------------------------------------------------
(* Git: who changes a branch, and how.                                     *)

\* What a performer at work on branch b may do to it.
WorksOn(b) ==
  /\ UNCHANGED delivered
  /\ ahead' \in {ahead, ahead \cup {b}} /\ dirty' \in {dirty, dirty \cup {b}, dirty \ {b}}
  /\ b \in dirty /\ b \notin dirty' => b \in ahead'

\* What the end of a merge may do to branches.
Merges(w) ==
  /\ UNCHANGED dirty /\ delivered \subseteq delivered' /\ ahead' \in {ahead, ahead \ {w.branch}}
  /\ w.branch \in ahead /\ w.branch \notin ahead' => w.task \in delivered'

LEMMA LeaveWorksOn ==
  ASSUME NEW b, NEW edit, Leave(b, edit), UNCHANGED delivered
  PROVE  WorksOn(b)
BY DEF Leave, WorksOn

LEMMA PerformerWorksOn ==
  ASSUME TypeOK, NEW p \in Procs, Performer(p)
  PROVE  UNCHANGED gitVars \/ (Busy(proc[p]) /\ WorksOn(proc[p].branch))
<1>1. CASE StartTool(p) \/ FailExit(p) \/ CommitFails(p) \/ SendExit(p)
  BY <1>1 DEF StartTool, FailExit, CommitFails, SendExit, performerUnchanged, gitVars
<1>2. CASE ToolChanges(p) \/ ToolNoChanges(p) \/ ToolSilent(p) \/ ToolFails(p)
  <2>1. UNCHANGED delivered /\ proc[p].st = "tool"
    BY <1>2 DEF ToolChanges, ToolNoChanges, ToolSilent, ToolFails, performerUnchanged
  <2>2. \E edit : Leave(proc[p].branch, edit)
    BY <1>2 DEF ToolChanges, ToolNoChanges, ToolSilent, ToolFails
  <2> QED
    BY <2>1, <2>2, LeaveWorksOn DEF Busy
<1>3. CASE Commit(p)
  BY <1>3 DEF Commit, performerUnchanged, Busy, WorksOn
<1> QED
  BY <1>1, <1>2, <1>3 DEF Performer

LEMMA FinishMerges ==
  ASSUME NEW w, FinishMerge(w)
  PROVE  Merges(w)
BY DEF FinishMerge, Merges

LEMMA GitFrame ==
  ASSUME TypeOK, AttemptsCounted, MaxAttempts = 1, Next
  PROVE  \/ UNCHANGED gitVars
         \/ \E p \in Procs : Performer(p) /\ Busy(proc[p]) /\ WorksOn(proc[p].branch)
         \/ \E w \in workers : FinishMerge(w) /\ Merges(w)
<1>1. CASE Monitor
  <2>1. ASSUME NEW t \in Tasks, NEW p \in Procs,
               TakeExit(t, p) \/ PauseOnExit(t, p) \/ Salvage(t, p) \/ Respawn(t, p)
        PROVE  UNCHANGED gitVars
    BY <2>1, OneAttempt DEF TakeExit, PauseOnExit
  <2> QED
    BY <1>1, <2>1 DEF Monitor, CleanupGhosts, ConsumeRows, ApplyBus, DropExit, ExitsDone
<1>2. CASE Loop
  BY <1>1, <1>2 DEF Loop, TakeMergeResult, MergesDone, PauseOnConflict, Advance, Claim, Launch,
     DispatchDone, EndCycle
<1>3. CASE MergeWorker
  BY <1>3, FinishMerges DEF MergeWorker, MergeTimeout
<1>4. CASE Operator
  BY <1>4 DEF Operator, OperatorReviews, OperatorResumes
<1>5. CASE Environment
  BY <1>5 DEF Environment, Heartbeat, PhaseTimeout, Die, performerUnchanged, ThrottleExpires,
     Crash, DispatchFails, HeartbeatAges, LaunchLost, StorageFails, gitVars
<1>6. CASE Start
  BY <1>6 DEF Start
<1>7. CASE \E p \in Procs : Performer(p)
  BY <1>7, PerformerWorksOn
<1> QED
  BY <1>2, <1>3, <1>4, <1>5, <1>6, <1>7 DEF Next

LEMMA DeliveredGrows ==
  ASSUME TypeOK, AttemptsCounted, MaxAttempts = 1, Next
  PROVE  delivered \subseteq delivered'
BY GitFrame DEF gitVars, WorksOn, Merges

\* Work on a branch a task holds is never lost: it leaves the branch only by a merge
\* of that task.
LEMMA WorkedKept ==
  ASSUME TypeOK, AttemptsCounted, MaxAttempts = 1, Owned, Next,
         NEW t \in Tasks, NEW b \in Branches, Holds(t, b), Worked(t, b)
  PROVE  Worked(t, b)'
<1>1. CASE t \in delivered
  BY <1>1, DeliveredGrows DEF Worked
<1>2. CASE b \in ahead
  <2>1. CASE UNCHANGED gitVars \/ \E p \in Procs : WorksOn(proc[p].branch)
    BY <1>2, <2>1 DEF gitVars, WorksOn, Worked
  <2>2. ASSUME NEW w \in workers, Merges(w)
        PROVE  Worked(t, b)'
    <3>1. CASE w.branch # b
      BY <1>2, <2>2, <3>1 DEF Merges, Worked
    <3>2. CASE w.branch = b
      <4>1. w.task \in Tasks /\ Holds(w.task, b)
        BY <2>2, <3>2 DEF TypeOK, MergeOK, MergeJob, Holds, Branches
      <4>2. w.task = t
        BY <4>1 DEF Owned
      <4> QED
        BY <1>2, <2>2, <3>2, <4>2 DEF Merges, Worked
    <3> QED
      BY <3>1, <3>2
  <2> QED
    BY <2>1, <2>2, GitFrame
<1> QED
  BY <1>1, <1>2 DEF Worked

\* Nobody commits in the worktree of a deserted task.
LEMMA NothingNewAhead ==
  ASSUME IInv, Owned, AttemptsCounted, MaxAttempts = 1, Next,
         NEW t \in Tasks, Deserted(t), task[t].wt \notin ahead
  PROVE  task[t].wt \notin ahead'
<1>0. TypeOK
  BY DEF IInv
<1>1. ASSUME NEW p \in Procs, Busy(proc[p]), WorksOn(proc[p].branch)
      PROVE  task[t].wt \notin ahead'
  <2>1. proc[p].branch # task[t].wt
    <3> SUFFICES ASSUME proc[p].branch = task[t].wt PROVE FALSE
      OBVIOUS
    <3>1. proc[p].task \in Tasks /\ proc[p].branch \in Branches
      BY <1>0, <1>1, ProcessAt DEF IInv, WorkAssigned, Process
    <3>2. Holds(t, proc[p].branch) /\ Holds(proc[p].task, proc[p].branch)
      BY <1>1, <3>1 DEF Holds, Started, Busy, Branches
    <3>3. proc[p].task = t
      BY <3>1, <3>2 DEF Owned
    <3> QED
      BY <1>1, <3>3 DEF Deserted
  <2> QED
    BY <1>1, <2>1 DEF WorksOn
<1>2. ASSUME NEW w, Merges(w)
      PROVE  task[t].wt \notin ahead'
  BY <1>2 DEF Merges
<1> QED
  BY <1>0, <1>1, <1>2, GitFrame DEF gitVars

-----------------------------------------------------------------------------
(* Reports are backed by what is on the branch, or on the base branch.     *)

\* What the steps of the loop and of the performers are known to respect.
LEMMA AccountableParts ==
  ASSUME Accountable, Default
  PROVE  /\ TypeOK /\ IInv /\ Lawful /\ Orderly /\ Posted /\ Numbered /\ Owned
         /\ Settled /\ Latest /\ Reports
         /\ AttemptsCounted /\ MaxAttempts = 1 /\ Calm
BY DEF Accountable, Named, Orderly, IInv, Lawful, ClaimsAreLawful, AttemptsCounted, Default

LEMMA StartedHolds ==
  ASSUME TypeOK, Numbered, NEW p \in Procs, Started(p)
  PROVE  /\ proc[p].task \in Tasks /\ proc[p].branch \in Branches
         /\ Holds(proc[p].task, proc[p].branch)
<1>1. proc[p].task \in Tasks /\ proc[p].branch \in Branches \cup {0} /\ proc[p].branch # 0
  BY ProcessAt DEF Process, Numbered, ProcessNumbered
<1> QED
  BY <1>1 DEF Holds

\* Once it has told its result a performer only commits what it has.
LEMMA WordGiven ==
  ASSUME TypeOK, NEW p \in Procs, Performer(p), proc[p].st \notin {"starting", "tool"},
         proc[p].branch \notin ahead \cup dirty
  PROVE  proc[p].branch \notin ahead' \cup dirty'
<1>1. FailExit(p) \/ Commit(p) \/ CommitFails(p) \/ SendExit(p)
  BY DEF Performer, StartTool, ToolChanges, ToolNoChanges, ToolSilent, ToolFails
<1>2. CASE FailExit(p) \/ CommitFails(p) \/ SendExit(p)
  BY <1>2 DEF FailExit, CommitFails, SendExit, gitVars
<1>3. CASE Commit(p)
  BY <1>3 DEF Commit
<1> QED
  BY <1>1, <1>2, <1>3

\* A branch whose performer found nothing to change stays as the base branch is.
LEMMA CleanStays ==
  ASSUME Accountable, Default, Next, NEW p \in Procs, Unsettled(p),
         proc[p].kind \in {"changes", "nochanges"}, proc[p].branch \notin ahead \cup dirty
  PROVE  proc[p].branch \notin ahead' \cup dirty'
<1>0. /\ TypeOK /\ Numbered /\ Owned /\ Settled /\ Latest /\ Reports
      /\ AttemptsCounted /\ MaxAttempts = 1
  BY AccountableParts
<1>1. Told(proc[p]) /\ Started(p)
  BY <1>0 DEF Reports, Unsettled, Started
<1>2. proc[p].rep /\ proc[p].st \notin {"starting", "tool"}
  BY <1>1 DEF Told
<1>3. Engaged(p)
  BY <1>2 DEF Engaged
<1>4. ASSUME NEW q \in Procs, Performer(q), Busy(proc[q]), WorksOn(proc[q].branch)
      PROVE  proc[p].branch \notin ahead' \cup dirty'
  <2>1. CASE q = p
    BY <1>0, <1>2, <1>4, <2>1, WordGiven
  <2>2. CASE proc[q].branch # proc[p].branch
    BY <1>4, <2>2 DEF WorksOn
  <2>3. CASE q # p /\ proc[q].branch = proc[p].branch
    <3>1. Started(q)
      BY <1>4 DEF Started, Busy
    <3>2. proc[q].task = proc[p].task
      BY <1>0, <1>1, <2>3, <3>1, StartedHolds DEF Owned
    <3>3. proc[p].claim < proc[q].claim
      BY <1>0, <1>1, <1>4, <2>3 DEF Latest
    <3>4. proc[q].claim <= proc[p].claim /\ proc[q].claim \in Nat /\ proc[p].claim \in Nat
      BY <1>0, <1>1, <1>3, <3>1, <3>2, NamedNumbers DEF Settled
    <3> QED
      BY <3>3, <3>4
  <2> QED
    BY <2>1, <2>2, <2>3
<1>5. ASSUME NEW w, Merges(w)
      PROVE  proc[p].branch \notin ahead' \cup dirty'
  BY <1>5 DEF Merges
<1> QED
  BY <1>0, <1>4, <1>5, GitFrame DEF gitVars

LEMMA EditsKept ==
  ASSUME TypeOK, AttemptsCounted, MaxAttempts = 1, Owned, Next,
         NEW t \in Tasks, NEW b \in Branches, Holds(t, b), b \in dirty \/ Worked(t, b)
  PROVE  b \in dirty' \/ Worked(t, b)'
<1>1. CASE Worked(t, b)
  BY <1>1, WorkedKept
<1>2. CASE b \in dirty
  BY <1>2, GitFrame DEF gitVars, WorksOn, Merges, Worked
<1> QED
  BY <1>1, <1>2

\* A report that is not a new one stays backed.
LEMMA BackedStays ==
  ASSUME Accountable, Default, Next, NEW p \in Procs, ReportBacked(p), ~Born(p),
         Identity(proc[p], proc'[p]), proc[p].st # "none",
         proc'[p].kind \in {proc[p].kind, "none"},
         proc'[p].ok => proc[p].ok, proc'[p].st = "commit" => proc[p].st = "commit"
  PROVE  ReportBacked(p)'
<1>0. /\ TypeOK /\ Orderly /\ Numbered /\ Owned /\ AttemptsCounted /\ MaxAttempts = 1
  BY AccountableParts
<1> DEFINE q == proc[p]
           r == proc'[p]
<1>p. PICK t \in Tasks, b \in Branches : t = q.task /\ b = q.branch
  BY <1>0, StartedHolds DEF Started
<1>1. Holds(t, b) /\ r.task = t /\ r.branch = b
  BY <1>0, <1>p, StartedHolds DEF Identity, Started
<1>2. Unsettled(p)' => Unsettled(p)
  BY <1>0, UnsettledFrame, NumberedNobodyYet
<1>3. /\ q.kind = "nochanges" => t \in delivered
      /\ q.kind = "nochanges" /\ Unsettled(p) => b \notin ahead \cup dirty
      /\ q.kind = "changes" /\ q.st = "commit" => b \in dirty \/ Worked(t, b)
      /\ q.kind = "changes" /\ q.ok => Worked(t, b)
  BY <1>p DEF ReportBacked
<1>4. r.kind = "nochanges" => t \in delivered'
  BY <1>0, <1>3, DeliveredGrows
<1>5. r.kind = "nochanges" /\ Unsettled(p)' => b \notin ahead' \cup dirty'
  <2> SUFFICES ASSUME r.kind = "nochanges", Unsettled(p)'
               PROVE  b \notin ahead' \cup dirty'
    OBVIOUS
  <2>1. q.kind = "nochanges" /\ Unsettled(p) /\ b \notin ahead \cup dirty
    BY <1>2, <1>3
  <2> QED
    BY <1>p, <2>1, CleanStays
<1>6. r.kind = "changes" /\ r.st = "commit" => b \in dirty' \/ Worked(t, b)'
  BY <1>0, <1>1, <1>3, EditsKept
<1>7. r.kind = "changes" /\ r.ok => Worked(t, b)'
  BY <1>0, <1>1, <1>3, WorkedKept
<1> QED
  BY <1>1, <1>4, <1>5, <1>6, <1>7 DEF ReportBacked, Worked

LEMMA ToolsBacked ==
  ASSUME Accountable, Default, Next, NEW p \in Procs, ReportBacked(p),
         ToolChanges(p) \/ ToolNoChanges(p) \/ ToolFails(p)
  PROVE  ReportBacked(p)'
<1> DEFINE q == proc[p]
           r == proc'[p]
<1>0. TypeOK /\ Reports /\ q.st = "tool"
  BY AccountableParts DEF ToolChanges, ToolNoChanges, ToolFails
<1>1. q.kind \notin {"changes", "nochanges"} /\ ~q.ok
  BY <1>0 DEF Reports, Told
<1>p. PICK t, b : t = q.task /\ b = q.branch
  OBVIOUS
<1>2. CASE ToolFails(p)
  <2>1. PICK o \in Outcomes \ {"changes", "nochanges", "silent"} :
          r.kind = IF Accepted(p) THEN FailureOf(o).kind ELSE q.kind
    BY <1>0, <1>2, FailsFields
  <2>2. FailureOf(o).kind \notin {"changes", "nochanges"}
    BY <2>1 DEF FailureOf, Failure
  <2>3. r.kind \notin {"changes", "nochanges"}
    BY <1>1, <2>1, <2>2
  <2> QED
    BY <2>3 DEF ReportBacked
<1>3. CASE ToolChanges(p)
  <2>1. ReportDone(p, "changes") /\ \E edit \in Edits \ {"none"} : Leave(b, edit)
    BY <1>3, <1>p DEF ToolChanges
  <2>2. r.kind \in {q.kind, "changes"} /\ r.ok = q.ok /\ r.task = t /\ r.branch = b
    BY <1>0, <1>p, <2>1, ReportFields DEF Identity
  <2>3. b \in dirty' \/ b \in ahead'
    BY <2>1, ScopeAssumption DEF Leave
  <2> QED
    BY <1>1, <2>2, <2>3 DEF ReportBacked, Worked
<1>4. CASE ToolNoChanges(p)
  <2> DEFINE proven == t \in delivered /\ b \notin ahead
  <2>1. /\ b \notin dirty /\ Leave(b, IF proven THEN "none" ELSE "ahead")
        /\ ReportDone(p, IF proven THEN "nochanges" ELSE "changes")
        /\ UNCHANGED delivered
    BY <1>4, <1>p DEF ToolNoChanges, performerUnchanged
  <2>2. /\ r.kind \in {q.kind, IF proven THEN "nochanges" ELSE "changes"}
        /\ r.ok = q.ok /\ r.task = t /\ r.branch = b
    BY <1>0, <1>p, <2>1, ReportFields DEF Identity
  <2>3. IF proven THEN b \notin ahead' \cup dirty' ELSE b \in ahead'
    BY <2>1 DEF Leave
  <2>4. proven => t \in delivered'
    BY <2>1
  <2> HIDE DEF proven
  <2> QED
    BY <1>1, <2>2, <2>3, <2>4 DEF ReportBacked, Worked
<1> QED
  BY <1>2, <1>3, <1>4

\* What is committed after the report, and what the exit is decided from.
LEMMA ExitsBacked ==
  ASSUME Accountable, Default, Next, NEW p \in Procs, ReportBacked(p), ~Born(p),
         Commit(p) \/ SendExit(p)
  PROVE  ReportBacked(p)'
<1> DEFINE q == proc[p]
           r == proc'[p]
<1>0. TypeOK /\ Orderly /\ Numbered /\ Owned /\ AttemptsCounted /\ MaxAttempts = 1
  BY AccountableParts
<1>1. q.st \in {"commit", "exited"}
  BY DEF Commit, SendExit
<1>p. PICK t \in Tasks, b \in Branches : t = q.task /\ b = q.branch
  BY <1>0, <1>1, StartedHolds DEF Started
<1>2. Holds(t, b) /\ r.task = t /\ r.branch = b
  BY <1>0, <1>1, <1>p, StartedHolds, CommitFields, SendExitFields DEF Identity, Started
<1>3. /\ q.kind = "nochanges" => t \in delivered
      /\ q.kind = "nochanges" /\ Unsettled(p) => b \notin ahead \cup dirty
      /\ q.kind = "changes" /\ q.st = "commit" => b \in dirty \/ Worked(t, b)
      /\ q.kind = "changes" /\ q.ok => Worked(t, b)
  BY <1>p DEF ReportBacked
<1>4. Unsettled(p)' => Unsettled(p)
  BY <1>0, UnsettledFrame, NumberedNobodyYet
<1>5. r.st \in {"exited", "sent"} /\ r.kind \in {q.kind, "none"}
  BY <1>0, CommitFields, SendExitFields DEF SameWord, Authority
<1>6. r.kind = "nochanges" => t \in delivered'
  BY <1>0, <1>3, <1>5, DeliveredGrows
<1>7. r.kind = "nochanges" /\ Unsettled(p)' => b \notin ahead' \cup dirty'
  <2> SUFFICES ASSUME r.kind = "nochanges", Unsettled(p)'
               PROVE  b \notin ahead' \cup dirty'
    OBVIOUS
  <2>1. q.kind = "nochanges" /\ Unsettled(p) /\ b \notin ahead \cup dirty
    BY <1>3, <1>4, <1>5
  <2> QED
    BY <1>p, <2>1, CleanStays
<1>8. r.kind = "changes" /\ r.ok => Worked(t, b)'
  <2> SUFFICES ASSUME r.kind = "changes", r.ok PROVE Worked(t, b)'
    OBVIOUS
  <2>0. q.kind = "changes"
    BY <1>5
  <2>1. CASE Commit(p)
    <3>1. b \in dirty \/ Worked(t, b)
      BY <1>3, <2>0, <2>1 DEF Commit
    <3>2. b \in dirty => b \in ahead'
      BY <1>p, <2>1 DEF Commit
    <3> QED
      BY <1>0, <1>2, <3>1, <3>2, WorkedKept DEF Worked
  <2>2. CASE SendExit(p)
    <3>1. b \in ahead \/ q.ok
      <4>1. r.kind = Authority(q.kind, b \in ahead, q.ok).kind
        BY <1>0, <1>p, <2>2, SendExitFields
      <4> QED
        BY <4>1 DEF Authority
    <3>2. Worked(t, b)
      BY <1>3, <2>0, <3>1 DEF Worked
    <3> QED
      BY <1>0, <1>2, <3>2, WorkedKept
  <2> QED
    BY <2>1, <2>2
<1> QED
  BY <1>2, <1>5, <1>6, <1>7, <1>8 DEF ReportBacked, Worked

LEMMA BackedKept ==
  ASSUME Accountable, Default, ReportsBacked, Next
  PROVE  ReportsBacked'
<1>0. TypeOK /\ Orderly /\ Posted /\ Reports /\ AttemptsCounted /\ MaxAttempts = 1
  BY AccountableParts
<1> SUFFICES ASSUME NEW p \in Procs PROVE ReportBacked(p)'
  BY DEF ReportsBacked
<1>1. ReportBacked(p)
  BY DEF ReportsBacked
<1>2. CASE Born(p)
  <2>1. PICK t : proc'[p] = NewProcess(t, task[t].claim, task[t].wt, restarts)
    BY <1>0, <1>2, BornOnce
  <2>2. proc'[p].kind = "none"
    BY <2>1 DEF NewProcess
  <2> QED
    BY <2>2 DEF ReportBacked
<1>3. CASE Dropped(p)
  <2>1. proc'[p].kind = "none"
    BY <1>3, ForgottenFields DEF Dropped
  <2> QED
    BY <2>1 DEF ReportBacked
<1>4. CASE (Rests(p) \/ Killed(p)) /\ ~Born(p) /\ proc[p].st # "none"
  <2>1. /\ Identity(proc[p], proc'[p]) /\ proc'[p].kind = proc[p].kind /\ proc'[p].ok = proc[p].ok
        /\ proc'[p].st \in {proc[p].st, "failing", "exited"}
    BY <1>0, <1>4, KilledFields DEF Rests, StateOnly, SameWord, Identity
  <2> QED
    BY <1>1, <1>4, <2>1, BackedStays
<1>5. CASE Rests(p) /\ proc[p].st = "none" /\ ~Born(p)
  <2>1. proc'[p] = proc[p] /\ ~Unsettled(p) /\ ~Unsettled(p)'
    BY <1>5 DEF Rests, Unsettled
  <2>2. Told(proc[p])
    BY <1>0 DEF Reports
  <2>3. proc[p].kind \notin {"changes", "nochanges"}
    BY <1>5, <2>2 DEF Told
  <2> QED
    BY <2>1, <2>3 DEF ReportBacked
<1>6. CASE Performer(p) /\ ~Born(p)
  <2>1. CASE ToolChanges(p) \/ ToolNoChanges(p) \/ ToolFails(p)
    BY <1>1, <2>1, ToolsBacked
  <2>2. CASE Commit(p) \/ SendExit(p)
    BY <1>1, <1>6, <2>2, ExitsBacked
  <2>3. CASE StartTool(p) \/ FailExit(p) \/ CommitFails(p)
    <3>1. /\ Identity(proc[p], proc'[p]) /\ proc'[p].kind = proc[p].kind
          /\ proc'[p].ok = proc[p].ok /\ proc'[p].st # "commit" /\ proc[p].st # "none"
      BY <1>0, <2>3, StateFields, CommitFailsFields, PerformerGoesOn DEF StateOnly, SameWord,
         Performer, StartTool, FailExit
    <3> QED
      BY <1>1, <1>6, <3>1, BackedStays
  <2>4. CASE ToolSilent(p)
    <3>1. proc'[p].kind = proc[p].kind /\ proc[p].st = "tool"
      BY <1>0, <2>4, StateFields DEF StateOnly, SameWord, ToolSilent
    <3>2. proc[p].kind \notin {"changes", "nochanges"}
      BY <1>0, <3>1 DEF Reports, Told
    <3> QED
      BY <3>1, <3>2 DEF ReportBacked
  <2> QED
    BY <1>6, <2>1, <2>2, <2>3, <2>4 DEF Performer
<1> QED
  BY <1>0, <1>2, <1>3, <1>4, <1>5, <1>6, ProcessFrame DEF Killed, Busy

-----------------------------------------------------------------------------
(* How a task gets on its way to its merge, and how it is closed.          *)

\* ... in the worktree it has, if it keeps it.
LEMMA ProgressInPlace ==
  ASSUME Accountable, Default, Next, NEW t \in Tasks,
         task'[t].wf \in MergeSources \cup {"merged"}
  PROVE  task'[t].wt \in {task[t].wt, 0}
<1>0. TypeOK
  BY AccountableParts
<1>1. ~Claim(t)
  BY <1>0, ClaimMoves DEF MergeSources
<1> QED
  BY <1>0, <1>1, TameSteps, LaunchMoves DEF Tame, SamePlace

\* A decision to go on or to close speaks for the worktree of the task.
LEMMA DecisionsBacked ==
  ASSUME Accountable, Default, ReportsBacked, NEW t \in Tasks, NEW p \in Procs,
         NEW s \in Strategies, Decides(t, p, s)
  PROVE  /\ s.do = "done" => task[t].wt = 0 \/ Worked(t, task[t].wt)
         /\ s.do = "merge" => t \in delivered /\ task[t].wt \notin ahead
<1>0. TypeOK /\ Posted /\ Numbered /\ Settled /\ Reports
  BY AccountableParts
<1> DEFINE q == proc[p]
<1>1. /\ Unsettled(p) /\ Started(p) /\ t = q.task
      /\ s.do = "done" => q.kind = "changes" /\ q.ok
      /\ s.do = "merge" => q.kind = "nochanges"
  BY <1>0, DecisionsTold DEF Unsettled, Started
<1>2. ASSUME q.kind # "none"
      PROVE  task[t].wt \in {0, q.branch}
  <2>1. Engaged(p)
    BY <1>0, <1>1, <1>2 DEF Reports, Told, Engaged
  <2>2. q.claim = task[t].claim
    BY <1>0, <1>1, <2>1 DEF Settled
  <2> QED
    BY <1>0, <1>1, <2>2 DEF Numbered, ProcessNumbered
<1>3. ReportBacked(p)
  BY DEF ReportsBacked
<1>4. task[t].wt = 0 => task[t].wt \notin ahead
  BY <1>0 DEF TypeOK, GitOK, Branches
<1> QED
  BY <1>1, <1>2, <1>3, <1>4 DEF ReportBacked

-----------------------------------------------------------------------------
(* What is merged is on the base branch: from the decision to go on to the *)
(* result of the merge.                                                    *)

LEMMA ProgressBackedKept ==
  ASSUME Accountable, Default, ReportsBacked, MergesBacked, Next
  PROVE  ProgressBacked'
<1>0. TypeOK /\ Lawful /\ Owned /\ Calm /\ AttemptsCounted /\ MaxAttempts = 1
  BY AccountableParts
<1> SUFFICES ASSUME NEW t \in Tasks, OnItsWay(task'[t]), task'[t].wt # 0
             PROVE  Worked(t, task[t].wt)'
  BY DEF ProgressBacked, OnItsWay
<1>1. task'[t].wf \in MergeSources /\ task'[t].wf # "merged"
  BY DEF OnItsWay, MergeSources
<1>2. task[t] \in Task /\ task'[t].wt = task[t].wt
  BY <1>0, <1>1, Records, ProgressInPlace
<1>p. PICK b \in Branches : b = task[t].wt
  BY <1>2 DEF Task
<1>3. Holds(t, b)
  BY <1>p DEF Holds, Branches
<1>4. Worked(t, b)
  <2>1. CASE OnItsWay(task[t])
    BY <1>2, <1>p, <2>1 DEF MergesBacked, ProgressBacked, OnItsWay
  <2>2. ASSUME ~Stopped, NEW m \in failedMerge, m.task = t
        PROVE  Worked(t, b)
    BY <1>2, <1>p, <2>2 DEF MergesBacked, FailuresBacked
  <2>3. ASSUME NEW p \in Procs, NEW s \in Strategies, Decides(t, p, s), s.do = "done"
        PROVE  Worked(t, b)
    BY <1>2, <1>p, <2>3, DecisionsBacked
  <2> QED
    BY <1>0, <1>1, <2>1, <2>2, <2>3, ProgressFrame DEF OnItsWay
<1>5. Worked(t, b)'
  BY <1>0, <1>3, <1>4, WorkedKept
<1> QED
  BY <1>2, <1>p, <1>5 DEF Worked

LEMMA WorkersBackedKept ==
  ASSUME Accountable, Default, MergesBacked, Next
  PROVE  WorkersBacked'
<1>0. TypeOK /\ TypeOK' /\ Owned /\ AttemptsCounted /\ MaxAttempts = 1
  BY AccountableParts, AccountableKept DEF Accountable, IInv
<1> SUFFICES ASSUME NEW w \in workers' PROVE w.branch # 0 /\ Worked(w.task, w.branch)'
  BY DEF WorkersBacked
<1>1. w.task \in Tasks /\ w.branch \in Branches /\ w.branch # 0
  BY <1>0 DEF TypeOK, MergeOK, MergeJob, Branches
<1>p. PICK t \in Tasks, b \in Branches : t = w.task /\ b = w.branch
  BY <1>1
<1>2. Holds(t, b) /\ Worked(t, b)
  <2>1. ASSUME NEW v \in workers, v.task = w.task, v.branch = w.branch
        PROVE  Holds(t, b) /\ Worked(t, b)
    BY <1>1, <1>p, <2>1 DEF Holds, MergesBacked, WorkersBacked
  <2>2. CASE w.task \in Mergeable /\ w.branch = task[w.task].wt
    <3>1. MergePlanned(t)
      BY <1>p, <2>2 DEF Mergeable, Planned, Plan, MergePlanned
    <3>2. task[t].wf \in MergeSources
      BY <3>1, PlannedRecord
    <3> QED
      BY <1>1, <1>p, <2>2, <3>2 DEF Holds, MergesBacked, ProgressBacked
  <2> QED
    BY <1>0, <2>1, <2>2, WorkersFrame
<1>3. Worked(t, b)'
  BY <1>0, <1>2, WorkedKept
<1> QED
  BY <1>1, <1>p, <1>3 DEF Worked

LEMMA FailuresBackedKept ==
  ASSUME Accountable, Default, MergesBacked, Next
  PROVE  FailuresBacked'
<1>0. TypeOK /\ Owned /\ AttemptsCounted /\ MaxAttempts = 1 /\ Lawful
  BY AccountableParts
<1> SUFFICES ASSUME ~Stopped', NEW m \in failedMerge', task'[m.task].wt # 0
             PROVE  Worked(m.task, task[m.task].wt)'
  BY DEF FailuresBacked
<1>1. /\ m.task \in Tasks /\ pc \in {"merges", "paused"}
      /\ task[m.task].wt = 0 \/ Worked(m.task, task[m.task].wt)
  <2>1. CASE m \in failedMerge /\ ~Stopped
    BY <1>0, <2>1 DEF TypeOK, MergeOK, MergeResult, Lawful, FailedMergesAreParked,
       MergesBacked, FailuresBacked
  <2>2. CASE TakeMergeResult /\ m.task \in Tasks /\ task[m.task].wf \in MergeSources
    BY <2>2 DEF TakeMergeResult, MergesBacked, ProgressBacked
  <2> QED
    BY <1>0, <2>1, <2>2, FailedMergesFrame
<1>p. PICK t \in Tasks : t = m.task
  BY <1>1
<1>2. ~Claim(t) /\ ~Launch(t)
  BY <1>1 DEF Claim, CanDispatch, Launch
<1>3. task'[t].wt = task[t].wt
  BY <1>0, <1>p, <1>2, TameSteps DEF Tame
<1>4. PICK b \in Branches : b = task[t].wt
  BY <1>0, <1>p, <1>3, Records DEF Task
<1>5. Holds(t, b) /\ Worked(t, b)
  BY <1>1, <1>p, <1>3, <1>4 DEF Holds, Branches
<1>6. Worked(t, b)'
  BY <1>0, <1>5, WorkedKept
<1> QED
  BY <1>3, <1>4, <1>6, <1>p DEF Worked

\* The results to be read after a step.
LEMMA ResultsFrame ==
  ASSUME TypeOK, OneAnswer, Next
  PROVE  \/ merges' = <<>>
         \/ UNCHANGED merges /\ ~TakeMergeResult /\ ~Start
         \/ \E w \in workers : (FinishMerge(w) \/ MergeTimeout(w)) /\ ~w.orphan
<1>0. ASSUME merges # <<>>
      PROVE  Tail(merges) = <<>>
  <2>1. merges \in Seq(MergeResult) /\ Len(merges) = 1
    BY <1>0 DEF TypeOK, MergeOK, OneAnswer
  <2> DEFINE rest == Tail(merges)
  <2>2. rest \in Seq(MergeResult) /\ Len(rest) = 0
    BY <2>1
  <2> HIDE DEF rest
  <2>3. rest = <<>>
    BY <2>2
  <2> QED
    BY <2>3 DEF rest
<1>1. CASE AwayFromMerges \/ MergesDone \/ OperatorResumes \/ PauseOnConflict \/ Advance
  <2>1. CASE Start
    BY <2>1 DEF Start
  <2>2. CASE TakeMergeResult
    BY <1>0, <2>2 DEF TakeMergeResult
  <2>3. UNCHANGED merges
    BY <1>1 DEF AwayFromMerges, mergeVars, MergesDone, OperatorResumes, PauseOnConflict, Advance
  <2> QED
    BY <2>1, <2>2, <2>3
<1>2. CASE TakeMergeResult \/ Start
  BY <1>0, <1>2 DEF TakeMergeResult, Start
<1>3. ASSUME NEW w \in workers, FinishMerge(w) \/ MergeTimeout(w)
      PROVE  \/ ~w.orphan
             \/ merges' = <<>>
             \/ UNCHANGED merges /\ ~TakeMergeResult /\ ~Start
  <2>1. w.orphan => UNCHANGED <<merges, mjobs, pc>>
    BY <1>3 DEF FinishMerge, MergeTimeout, loopVars
  <2>2. TakeMergeResult => merges' = <<>>
    BY <1>0 DEF TakeMergeResult
  <2>3. Start => merges' = <<>>
    BY DEF Start
  <2> QED
    BY <2>1, <2>2, <2>3
<1>4. CASE StorageFails
  <2>1. CASE merges' = Tail(merges) /\ merges # <<>>
    BY <1>0, <2>1
  <2>2. CASE UNCHANGED merges
    <3>1. TakeMergeResult => merges' = <<>>
      BY <1>0 DEF TakeMergeResult
    <3>2. Start => merges' = <<>>
      BY DEF Start
    <3> QED
      BY <2>2, <3>1, <3>2
  <2> QED
    BY <1>4, <2>1, <2>2 DEF StorageFails
<1> QED
  BY <1>1, <1>2, <1>3, <1>4, MergeFrame DEF MergeStep, MergeWorker

LEMMA ResultsBackedKept ==
  ASSUME Accountable, Default, OneMergeAwaited, MergesBacked, Next
  PROVE  ResultsBacked'
<1>0. /\ TypeOK /\ IInv /\ Owned /\ Settled /\ Lawful /\ Calm
      /\ AttemptsCounted /\ MaxAttempts = 1
  BY AccountableParts
<1> SUFFICES ASSUME ~Stopped', NEW i \in DOMAIN merges', merges'[i].how = "ok"
             PROVE  /\ merges'[i].task \in delivered'
                    /\ task'[merges'[i].task].wt \notin ahead'
  BY DEF ResultsBacked
<1>1. ~Start
  BY DEF Start
<1>2. ~Stopped /\ OneAnswer
  BY <1>1, StoppedFrame DEF OneMergeAwaited
<1>3. CASE UNCHANGED merges /\ ~TakeMergeResult
  <2>1. i = 1 /\ merges # <<>> /\ merges[1].task \in mjobs
    BY <1>0, <1>2, <1>3 DEF OneAnswer, TypeOK, MergeOK
  <2>p. PICK t \in mjobs : t = merges[i].task
    BY <2>1
  <2>2. t \in Tasks /\ MergePlanned(t) /\ t \in delivered /\ task[t].wt \notin ahead
    BY <1>0, <1>2, <1>3, <2>p DEF OneAnswer, TypeOK, MergeOK, MergesBacked, ResultsBacked
  <2>3. task'[t].wt = task[t].wt
    BY <1>0, <1>1, <1>2, <1>3, AwaitedStay
  <2>4. Deserted(t)
    BY <1>0, <2>2, PlannedRecord DEF Settled, AtWork, MergeSources, Quiet
  <2>5. task[t].wt \notin ahead'
    BY <1>0, <2>2, <2>4, NothingNewAhead
  <2>6. t \in delivered'
    BY <1>0, <2>2, DeliveredGrows
  <2> QED
    BY <1>3, <2>p, <2>3, <2>5, <2>6
<1>4. ASSUME NEW w \in workers, FinishMerge(w) \/ MergeTimeout(w), ~w.orphan
      PROVE  /\ merges'[i].task \in delivered'
             /\ task'[merges'[i].task].wt \notin ahead'
  <2>1. merges = <<>> /\ task[w.task].wt = w.branch /\ UNCHANGED task
    BY <1>2, <1>4 DEF OneAnswer, FinishMerge, MergeTimeout
  <2>2. PICK how : /\ merges' = Append(merges, [task |-> w.task, how |-> how])
                   /\ FinishMerge(w) \/ how = "transient"
                   /\ FinishMerge(w) /\ how = "ok" => /\ ahead' = ahead \ {w.branch}
                                                      /\ w.branch \in ahead => w.task \in delivered'
                                                      /\ delivered \subseteq delivered'
    BY <1>4 DEF FinishMerge, MergeTimeout
  <2>3. merges'[i] = [task |-> w.task, how |-> how]
    BY <2>1, <2>2
  <2>4. ahead' = ahead \ {w.branch} /\ w.task \in delivered'
    BY <2>2, <2>3 DEF MergesBacked, WorkersBacked, Worked
  <2> QED
    BY <2>1, <2>3, <2>4
<1> QED
  BY <1>0, <1>2, <1>3, <1>4, ResultsFrame

\* A closed task stays integrated, and is closed only when it is.
LEMMA IntegratedKept ==
  ASSUME Accountable, Default, ReportsBacked, OneMergeAwaited, MergesBacked,
         MergedIsIntegrated, Next, NEW t \in Tasks, task'[t].wf = "merged"
  PROVE  /\ task'[t].wt \notin ahead'
         /\ task[t].wf = "merged" \/ t \in delivered'
<1>0. /\ TypeOK /\ TypeOK' /\ IInv /\ Owned /\ Settled /\ Lawful /\ Calm
      /\ AttemptsCounted /\ MaxAttempts = 1
  BY AccountableParts, AccountableKept DEF Accountable, IInv
<1>1. 0 \notin ahead'
  BY <1>0 DEF TypeOK, GitOK, Branches
<1>2. task'[t].wt \in {task[t].wt, 0}
  BY ProgressInPlace
<1>3. CASE task[t].wf = "merged"
  <2>1. task[t].wt \notin ahead /\ Deserted(t)
    BY <1>0, <1>3 DEF MergedIsIntegrated, Settled, AtWork, Quiet
  <2> QED
    BY <1>0, <1>1, <1>2, <1>3, <2>1, NothingNewAhead
<1>4. ASSUME NEW p \in Procs, NEW s \in Strategies, Decides(t, p, s), s.do = "merge"
      PROVE  task'[t].wt \notin ahead' /\ t \in delivered'
  <2>1. t \in delivered /\ task[t].wt \notin ahead
    BY <1>4, DecisionsBacked
  <2>2. UNCHANGED gitVars
    BY <1>4 DEF Decides, TakeExit, PauseOnExit
  <2> QED
    BY <1>1, <1>2, <2>1, <2>2 DEF gitVars
<1>5. ASSUME TakeMergeResult, t = Head(merges).task, Head(merges).how = "ok"
      PROVE  task'[t].wt \notin ahead' /\ t \in delivered'
  <2>1. ~Stopped /\ 1 \in DOMAIN merges /\ merges[1] = Head(merges) /\ UNCHANGED gitVars
    BY <1>0, <1>5 DEF TakeMergeResult, Stopped, TypeOK, MergeOK
  <2>2. t \in delivered /\ task[t].wt \notin ahead
    BY <1>5, <2>1 DEF MergesBacked, ResultsBacked
  <2> QED
    BY <1>1, <1>2, <2>1, <2>2 DEF gitVars
<1>6. CASE Start /\ t \in delivered /\ task'[t].wt = 0
  BY <1>1, <1>6 DEF Start, gitVars
<1> QED
  BY <1>0, <1>3, <1>4, <1>5, <1>6, ProgressFrame DEF OnItsWay, MergeSources


-----------------------------------------------------------------------------
(* The promise.                                                            *)

\* What is closed stays closed.
LEMMA MergedStays ==
  ASSUME Accountable, Default, Next, NEW t \in Tasks, task[t].wf = "merged"
  PROVE  task'[t].wf = "merged"
<1> DEFINE r == task[t]
           s == task'[t]
<1>0. /\ TypeOK /\ TypeOK' /\ AttemptsCounted /\ MaxAttempts = 1
      /\ Lawful /\ ClaimsAreLawful /\ Calm
  BY AccountableParts, AccountableKept DEF Accountable, IInv, Lawful
<1>a. r.pid = 0 /\ ~HasJob(t)
  BY <1>0 DEF ClaimsAreLawful, Workable
<1>u. CASE task'[t] = task[t]
  BY <1>u
<1>l. ASSUME Stays(r, s) \/ GhostMove(r, s) \/ DepMove(r, s) \/ PhaseMove(r, s) \/ StartMove(t, r, s)
      PROVE  s.wf = "merged"
  BY <1>0, <1>l, LawfulMoves DEF LawMove
<1>1. CASE CleanupGhosts \/ ApplyBus \/ PauseOnConflict \/ \E u \in Tasks : HeartbeatAges(u)
  <2>1. DepMove(r, s) \/ Stays(r, s) \/ StaleMove(r, s) \/ GhostMove(r, s)
    BY <1>0, <1>1, GhostsMove, BusMoves, PauseMoves, AgingMoves
  <2>2. ~StaleMove(r, s)
    BY DEF StaleMove, PastWork
  <2> QED
    BY <1>l, <2>1, <2>2
<1>2. CASE TakeMergeResult
  <2> DEFINE m == Head(merges)
  <2>1. CASE UNCHANGED task
    BY <2>1
  <2>2. CASE ~UNCHANGED task
    <3>1. PICK x \in Task :
            /\ MergeMove(task[m.task], x, m.how = "ok")
            /\ \A u \in Tasks : DepMove(IF u = m.task THEN x ELSE task[u], task'[u])
      BY <1>0, <1>2, <2>2, TakenResultMoves
    <3>2. t # m.task
      BY <3>1 DEF MergeMove, MergeSources
    <3> QED
      BY <1>l, <3>1, <3>2
  <2> QED
    BY <2>1, <2>2
<1>3. CASE MergesDone \/ OperatorResumes
  <2>1. ~Stopped
    BY <1>3 DEF MergesDone, OperatorResumes, Stopped
  <2>2. \A m \in failedMerge : m.task # t
    BY <1>0, <2>1 DEF Lawful, FailedMergesAreParked
  <2> QED
    BY <1>0, <1>3, <2>2, FailuresMove
<1>4. CASE Advance
  BY <1>0, <1>4, <1>l, AdvanceMoves
<1>5. CASE Start
  BY <1>0, <1>5, <1>l, StartMoves
<1>6. ASSUME NEW u \in Tasks, NEW p \in Procs, TakeExit(u, p) \/ PauseOnExit(u, p)
      PROVE  s.wf = "merged"
  <2>1. u # t
    BY <1>6, <1>a DEF TakeExit, PauseOnExit, ExitTaken
  <2>2. PICK x, y : Concludes(u, p, x, y)
    BY <1>0, <1>6, ExitMoves
  <2> QED
    BY <1>l, <2>1, <2>2 DEF Concludes
<1>7. ASSUME NEW u \in Tasks, NEW p \in Procs, Salvage(u, p) \/ Respawn(u, p)
      PROVE  FALSE
  BY <1>0, <1>7, OneAttempt
<1>8. ASSUME NEW u \in Tasks, Claim(u) \/ Launch(u)
      PROVE  s.wf = "merged"
  <2>1. u # t
    BY <1>0, <1>8 DEF Claim, CanDispatch, Ready, Launch, Lawful, LaunchesAreClaimed
  <2> QED
    BY <1>0, <1>8, <2>1, ClaimMoves, LaunchMoves
<1> QED
  BY <1>u, <1>1, <1>2, <1>3, <1>4, <1>5, <1>6, <1>7, <1>8, RegistryFrame DEF RegistryStep

\* What is taken up has nothing to wait for.
LEMMA StartsAllowed ==
  ASSUME Accountable, Default, Next, NEW t \in Tasks,
         task[t].wf = "todo", task'[t].wf \notin {"todo", "merged", "blocked", "abandoned"}
  PROVE  \A d \in Deps[t] : task[d].wf = "merged"
<1>0. /\ TypeOK /\ Lawful /\ Lawful' /\ ClaimsAreLawful /\ ClaimsAreLawful'
  BY AccountableParts, AccountableKept DEF Accountable, Lawful
<1>1. CASE Claim(t)
  BY <1>1 DEF Claim, CanDispatch, Ready
<1>2. ~Launch(t)
  BY <1>0 DEF Launch, Lawful, LaunchesAreClaimed
<1>3. CASE ~Claim(t)
  <2>1. task'[t].claim = task[t].claim
    BY <1>0, <1>2, <1>3, TameSteps DEF Tame
  <2>2. task'[t].claim # 0
    BY <1>0 DEF ClaimsAreLawful, Unclaimed
  <2> QED
    BY <1>0, <2>1, <2>2 DEF ClaimsAreLawful
<1> QED
  BY <1>1, <1>3

Trustworthy ==
  Accountable /\ ReportsBacked /\ OneMergeAwaited /\ MergesBacked /\ MergedIsIntegrated

LEMMA TrustworthyAtFirst ==
  ASSUME Init
  PROVE  Trustworthy
<1>1. Accountable
  BY AccountableAtFirst
<1>2. \A t \in Tasks : task[t].wf = "todo"
  BY NobodyAtFirst DEF NewTask
<1>3. workers = {} /\ Stopped /\ \A p \in Procs : proc[p].kind = "none"
  <2>1. workers = {} /\ Stopped
    BY DEF Init, Stopped
  <2> QED
    BY <2>1, NobodyAtFirst
<1>4. ReportsBacked
  BY <1>3 DEF ReportsBacked, ReportBacked
<1>5. OneMergeAwaited /\ MergesBacked /\ MergedIsIntegrated
  BY <1>2, <1>3 DEF OneMergeAwaited, MergesBacked, ProgressBacked, WorkersBacked,
     FailuresBacked, ResultsBacked, MergedIsIntegrated, MergeSources
<1> QED
  BY <1>1, <1>4, <1>5 DEF Trustworthy

LEMMA TrustworthyStutters ==
  ASSUME Trustworthy, Default, UNCHANGED vars
  PROVE  Trustworthy'
<1>1. Accountable'
  BY AccountableKept DEF Trustworthy
<1>2. UNCHANGED <<task, ahead, dirty, delivered, proc, mjobs, workers, merges, failedMerge,
                  pc, restarts>>
  BY DEF vars, gitVars, procVars, mergeVars, loopVars, envVars
<1>3. ReportsBacked'
  BY <1>2 DEF Trustworthy, ReportsBacked, ReportBacked, Worked, Unsettled, Stopped
<1>4. OneMergeAwaited'
  BY <1>2 DEF Trustworthy, OneMergeAwaited, OneAnswer, MergePlanned, Stopped
<1>5. MergesBacked'
  BY <1>2 DEF Trustworthy, MergesBacked, ProgressBacked, WorkersBacked, FailuresBacked,
     ResultsBacked, Worked, Stopped
<1>6. MergedIsIntegrated'
  BY <1>2 DEF Trustworthy, MergedIsIntegrated
<1> QED
  BY <1>1, <1>3, <1>4, <1>5, <1>6 DEF Trustworthy

LEMMA TrustworthyKept ==
  ASSUME Trustworthy, Default, [Next]_vars
  PROVE  Trustworthy'
<1>1. CASE Next
  <2>0. /\ Accountable /\ ReportsBacked /\ OneMergeAwaited /\ MergesBacked /\ MergedIsIntegrated
        /\ IInv /\ Lawful /\ Calm
    BY DEF Trustworthy, Accountable
  <2>1. Accountable'
    BY <2>0, AccountableKept
  <2>2. ReportsBacked'
    BY <1>1, <2>0, BackedKept
  <2>3. OneMergeAwaited'
    BY <1>1, <2>0, AwaitedKept
  <2>4. MergesBacked'
    BY <1>1, <2>0, ProgressBackedKept, WorkersBackedKept, FailuresBackedKept, ResultsBackedKept
    DEF MergesBacked
  <2>5. MergedIsIntegrated'
    BY <1>1, <2>0, IntegratedKept DEF MergedIsIntegrated
  <2> QED
    BY <2>1, <2>2, <2>3, <2>4, <2>5 DEF Trustworthy
<1> QED
  BY <1>1, TrustworthyStutters

\* Closing a task strands no part of its work: whatever the performers report, exit
\* with or leave behind, and whatever merges time out, fail or come late, a merged
\* task names no branch whose commits the base branch lacks.
THEOREM ClosedIsIntegrated ==
  ASSUME Default
  PROVE  Spec => []MergedIsIntegrated
<1>1. Init => Trustworthy
  BY TrustworthyAtFirst
<1>2. Trustworthy /\ [Next]_vars => Trustworthy'
  BY TrustworthyKept
<1>3. Trustworthy => MergedIsIntegrated
  BY DEF Trustworthy
<1> QED
  BY <1>1, <1>2, <1>3, PTL DEF Spec

LEMMA StandsAs ==
  ASSUME NEW r
  PROVE  /\ Standing(r) \in {"waiting", "working", "stuck", "merged"}
         /\ Standing(r) = "waiting" <=> r.wf = "todo"
         /\ Standing(r) = "merged" <=> r.wf = "merged"
         /\ Standing(r) = "stuck" <=> r.wf \in {"blocked", "abandoned"}
<1>1. r.wf = "todo" => Standing(r) = "waiting"
  BY Zenon DEF Standing, Parked
<1>2. r.wf = "merged" => Standing(r) = "merged"
  BY Zenon DEF Standing, Parked
<1>3. r.wf \in {"blocked", "abandoned"} => Standing(r) = "stuck"
  BY Zenon DEF Standing, Parked
<1>4. r.wf \notin {"todo", "merged", "blocked", "abandoned"} => Standing(r) = "working"
  BY Zenon DEF Standing, Parked
<1> QED
  BY <1>1, <1>2, <1>3, <1>4

\* Every step of the control plane is a step of the backlog, or none.
LEMMA StepIsPromised ==
  ASSUME Trustworthy, Default, [Next]_vars
  PROVE  [Promise!Next]_(Promise!vars)
<1> DEFINE state == [t \in Tasks |-> Standing(task[t])]
<1>1. CASE UNCHANGED vars
  BY <1>1 DEF vars, gitVars, Promise!vars
<1>2. CASE Next
  <2>0. /\ Accountable /\ ReportsBacked /\ OneMergeAwaited /\ MergesBacked /\ MergedIsIntegrated
        /\ TypeOK /\ TypeOK' /\ AttemptsCounted /\ MaxAttempts = 1
    BY AccountableParts, AccountableKept DEF Trustworthy, Accountable, IInv
  <2>1. delivered \subseteq delivered' /\ delivered' \subseteq Tasks
    BY <1>2, <2>0, DeliveredGrows DEF TypeOK, GitOK
  <2>2. ASSUME NEW t \in Tasks
        PROVE  Promise!May(t, state'[t])
    <3>1. state[t] = Standing(task[t]) /\ state'[t] = Standing(task'[t])
      BY <2>2
    <3>2. \A d \in Deps[t] : d \in Tasks
      BY <2>2, TasksAssumption
    <3>3. task[t].wf = "merged" => task'[t].wf = "merged"
      BY <1>2, <2>0, MergedStays
    <3>4. task'[t].wf = "merged" => task[t].wf = "merged" \/ t \in delivered'
      BY <1>2, <2>0, IntegratedKept
    <3>5. task[t].wf = "todo" /\ task'[t].wf \notin {"todo", "merged", "blocked", "abandoned"}
            => \A d \in Deps[t] : task[d].wf = "merged"
      BY <1>2, <2>0, StartsAllowed
    <3>6. \A d \in Deps[t] : state[d] = "merged" <=> task[d].wf = "merged"
      BY <3>2, StandsAs
    <3> HIDE DEF state
    <3>7. CASE state'[t] = "merged"
      BY <3>1, <3>4, <3>7, StandsAs DEF Promise!May, state
    <3>8. CASE state'[t] = "working"
      BY <3>1, <3>3, <3>5, <3>6, <3>8, StandsAs DEF Promise!May, Promise!MayStart, state
    <3>9. CASE state'[t] \in {"waiting", "stuck"}
      BY <3>1, <3>3, <3>9, StandsAs DEF Promise!May, state
    <3> QED
      BY <3>1, <3>7, <3>8, <3>9, StandsAs
  <2>3. state' \in [Tasks -> {"waiting", "working", "stuck", "merged"}]
    BY StandsAs
  <2> QED
    BY <2>1, <2>2, <2>3 DEF Promise!Next
<1> QED
  BY <1>1, <1>2

\* The control plane keeps the promise of the backlog: work starts only when the
\* dependencies are merged, a task is merged only once its work is on the base
\* branch, and what is merged or published stays so.
THEOREM PromiseIsKept ==
  ASSUME Default
  PROVE  Spec => KeepsPromise
<1>1. Init => Trustworthy
  BY TrustworthyAtFirst
<1>2. Trustworthy /\ [Next]_vars => Trustworthy'
  BY TrustworthyKept
<1>3. Trustworthy /\ [Next]_vars => [Promise!Next]_(Promise!vars)
  BY StepIsPromised
<1>4. Init => Promise!Init
  <2> SUFFICES ASSUME Init PROVE Promise!Init
    OBVIOUS
  <2>1. \A t \in Tasks : Standing(task[t]) = "waiting"
    BY NobodyAtFirst, StandsAs DEF NewTask
  <2> QED
    BY <2>1 DEF Promise!Init, Init
<1> QED
  BY <1>1, <1>2, <1>3, <1>4, PTL DEF Spec, KeepsPromise, Promise!Spec

-----------------------------------------------------------------------------
(* Committed work can be found: only an exit, a ghost and a start detach a *)
(* task from its branch, and each leaves the commits, if any, to be found. *)

LEMMA CandidKept ==
  ASSUME Accountable, Default, AllCandid, "errNone" \notin Outcomes, Next
  PROVE  AllCandid'
<1> SUFFICES ASSUME NEW p \in Procs PROVE Candid(p)'
  BY DEF AllCandid
<1> DEFINE q == proc[p]
           r == proc'[p]
           Quota(k, c) == k = "precond" => c # "quota"
<1>0. TypeOK /\ Orderly /\ NobodyYet /\ Settled /\ Posted
  BY AccountableParts, NumberedNobodyYet
<1>1. q.kind # "errNone" /\ "errNone" \notin q.log /\ (Unsettled(p) => Quota(q.kind, q.code))
  BY DEF AllCandid, Candid
<1> SUFFICES /\ r.kind # "errNone" /\ "errNone" \notin r.log
             /\ Unsettled(p)' => Quota(r.kind, r.code)
  BY DEF Candid
<1>2. Unsettled(p)' => Unsettled(p) \/ Born(p)
  BY <1>0, UnsettledFrame
<1>3. CASE (Rests(p) \/ Killed(p)) /\ ~Born(p)
  <2>1. r.kind = q.kind /\ r.log = q.log /\ r.code = q.code
    BY <1>0, <1>3, KilledFields DEF Rests, StateOnly, SameWord
  <2> QED
    BY <1>1, <1>2, <1>3, <2>1
<1>4. CASE Dropped(p)
  BY <1>4, ForgottenFields DEF Dropped
<1>5. CASE Born(p)
  <2>1. PICK branch : \E t \in Tasks : r = NewProcess(t, task[t].claim, branch, restarts)
    BY <1>0, <1>5, BornAs
  <2> QED
    BY <2>1 DEF NewProcess
<1>6. CASE Performer(p) /\ ~Born(p)
  <2>1. CASE StartTool(p) \/ ToolSilent(p) \/ FailExit(p)
    BY <1>0, <1>1, <1>2, <1>6, <2>1, StateFields DEF StateOnly, SameWord
  <2>2. CASE Commit(p)
    BY <1>0, <1>1, <1>2, <1>6, <2>2, CommitFields DEF SameWord
  <2>3. CASE CommitFails(p)
    BY <1>0, <1>1, <1>2, <1>6, <2>3, CommitFailsFields DEF SameWord
  <2>4. CASE SendExit(p)
    BY <1>0, <1>1, <1>2, <1>6, <2>4, SendExitFields DEF Authority
  <2>5. CASE ToolChanges(p) \/ ToolNoChanges(p)
    <3>1. PICK kind \in {"changes", "nochanges"} : ReportDone(p, kind)
      <4>1. \E kind \in {"changes", "nochanges"} : ReportDone(p, kind)
        BY <2>5 DEF ToolChanges, ToolNoChanges
      <4> QED
        BY <4>1
    <3> QED
      BY <1>0, <1>1, <1>2, <1>6, <3>1, ReportFields
  <2>6. CASE ToolFails(p)
    <3>1. PICK o \in Outcomes \ {"changes", "nochanges", "silent"} :
            LET f == FailureOf(o) IN
            /\ q.st = "tool"
            /\ r.kind = IF Accepted(p) THEN f.kind ELSE q.kind
            /\ r.code = f.code
            /\ r.log = q.log \cup f.log
      BY <1>0, <2>6, FailsFields
    <3>2. /\ FailureOf(o).kind # "errNone" /\ "errNone" \notin FailureOf(o).log
          /\ Quota(FailureOf(o).kind, FailureOf(o).code)
      BY ScopeAssumption DEF FailureOf, Failure, ToolOutcomes
    <3>3. Unsettled(p) => Accepted(p)
      BY <1>0, <3>1, HeardOut DEF Busy
    <3> HIDE DEF q, r, Quota
    <3> QED
      BY <1>1, <1>2, <1>6, <3>1, <3>2, <3>3
  <2> QED
    BY <1>6, <2>1, <2>2, <2>3, <2>4, <2>5, <2>6 DEF Performer
<1> QED
  <2>1. Rests(p) \/ Killed(p) \/ Dropped(p) \/ Born(p) \/ Performer(p)
    BY <1>0, ProcessFrame
  <2> QED
    BY <1>3, <1>4, <1>5, <1>6, <2>1

\* Where a strategy leaves the worktree of a task and the branch it had last.
LEMMA StrategyPlaces ==
  ASSUME NEW r \in Task, NEW s \in Strategies, NEW code
  PROVE  LET x == ApplyStrategy(r, s, code) IN
         /\ x.last = r.last \/ (r.wt # 0 /\ x.last = r.wt)
         /\ s.same => x.wt = r.wt
         /\ s.do = "blockReport" /\ r.wt # 0 => x.last = r.wt
BY DEF ApplyStrategy, Task, Strategies, Block, Requeue, Attached

LEMMA ReportedErrorPlaces ==
  ASSUME NEW r, NEW kind, NEW commits, kind # "errNone", kind \in ErrorKinds
  PROVE  LET s == ReportedError(r, kind, commits, TRUE) IN
         s.same \/ (s.do = "reported" /\ (kind # "errChanges" \/ ~commits))
BY DEF ReportedError, Strategy

LEMMA FailurePlaces ==
  ASSUME NEW r \in Task, NEW e, NEW attempt, NEW commits, e.log \in Logs, "errNone" \notin e.log
  PROVE  LET s == FailureStrategy(r, e, attempt, commits, TRUE) IN
         s.same \/ r.wt = 0 \/ (s.do = "reported" /\ ~commits)
<1> DEFINE s == FailureStrategy(r, e, attempt, commits, TRUE)
<1>1. CASE "done" \in e.log /\ e.code = "rate"
  BY <1>1 DEF FailureStrategy, Strategy
<1>2. CASE ~("done" \in e.log /\ e.code = "rate") /\ e.log \cap ErrorKinds # {} /\ e.code # "quota"
  <2>1. "errChanges" \in e.log
    BY <1>2 DEF Logs, ErrorKinds
  <2>2. s = ReportedError(r, "errChanges", commits, TRUE)
    BY <1>2, <2>1 DEF FailureStrategy
  <2> QED
    BY <2>2, ReportedErrorPlaces DEF ErrorKinds
<1>3. CASE ~("done" \in e.log /\ e.code = "rate") /\ ~(e.log \cap ErrorKinds # {} /\ e.code # "quota")
  BY <1>3 DEF FailureStrategy, Strategy, Attached
<1> QED
  BY <1>1, <1>2, <1>3

\* Only a terminal report, or a retry without commits, takes a task from its worktree.
LEMMA ResolutionPlaces ==
  ASSUME NEW r \in Task, NEW e, NEW attempt, NEW commits, e.log \in Logs, "errNone" \notin e.log,
         e.kind \in Kinds, e.kind # "errNone", e.kind = "precond" => e.code # "quota"
  PROVE  LET s == ResolveRetryStrategy(r, e, attempt, commits, TRUE) IN
         s.same \/ r.wt = 0 \/ s.do = "blockReport" \/ (s.do = "reported" /\ ~commits)
<1> DEFINE s == ResolveRetryStrategy(r, e, attempt, commits, TRUE)
           terminal == e.kind \in ErrorKinds /\ e.code # "quota" /\ TerminalReport(r, e)
<1>1. CASE terminal
  BY <1>1 DEF ResolveRetryStrategy, Strategy
<1>2. CASE ~terminal /\ ~e.success
  <2>1. s = FailureStrategy(r, e, attempt, commits, TRUE)
    BY <1>2 DEF ResolveRetryStrategy
  <2> QED
    BY <2>1, FailurePlaces
<1>3. CASE ~terminal /\ e.success /\ e.kind \in ErrorKinds
  <2>1. s = ReportedError(r, e.kind, commits, TRUE)
    BY <1>3 DEF ResolveRetryStrategy, ErrorKinds
  <2>2. e.kind = "errChanges"
    BY <1>3 DEF ErrorKinds, TerminalReport
  <2> QED
    BY <1>3, <2>1, <2>2, ReportedErrorPlaces
<1>4. CASE ~terminal /\ e.success /\ e.kind \notin ErrorKinds
  <2>1. CASE e.kind = "nochanges"
    BY <1>4, <2>1 DEF ResolveRetryStrategy, Strategy, ErrorKinds
  <2>2. CASE e.kind \in {"changes", "none"}
    BY <1>4, <2>2 DEF ResolveRetryStrategy, Strategy, ErrorKinds
  <2> QED
    BY <1>4, <2>1, <2>2 DEF Kinds
<1> QED
  BY <1>1, <1>2, <1>3, <1>4

\* What a step makes of the branches of a task that it does not claim: commits are left
\* only when the task is blocked, and are then what it was last assigned.
KeepsWork(t) ==
  LET r == task[t]
      s == task'[t]
  IN /\ s.last = r.last \/ (r.wt # 0 /\ s.last = r.wt)
     /\ \/ s.wt = r.wt
        \/ s.wt = 0 /\ r.wt \notin ahead
        \/ s.wt = 0 /\ s.last = r.wt /\ PutAside(t)'

LEMMA ExitKeepsWork ==
  ASSUME Accountable, Default, Undisturbed, AllCandid, Next,
         NEW t \in Tasks, NEW p \in Procs, TakeExit(t, p) \/ PauseOnExit(t, p)
  PROVE  KeepsWork(t)
<1>0. TypeOK /\ Posted
  BY AccountableParts
<1>1. PICK s \in Decisions(t, p) :
        task' = Completed(t, ApplyStrategy(task[t], s, proc[p].code))
  BY DEF TakeExit, PauseOnExit
<1> DEFINE r == task[t]
           x == ApplyStrategy(r, s, proc[p].code)
<1>2. r \in Task /\ s \in Strategies /\ x \in Task
  BY <1>0, Records, DecisionsAffordable, StrategyKeeps DEF Affordable
<1>3. ExitMove(r, x, s.do)
  BY <1>2, StrategyMoves
<1>4. /\ x.last = r.last \/ (r.wt # 0 /\ x.last = r.wt)
      /\ s.same => x.wt = r.wt
      /\ s.do = "blockReport" /\ r.wt # 0 => x.last = r.wt
  BY <1>2, StrategyPlaces
<1>5. s.same \/ r.wt = 0 \/ s.do = "blockReport" \/ (s.do = "reported" /\ r.wt \notin ahead)
  <2>1. PICK expl, healthy : s = Decision(t, p, expl, healthy) /\ healthy = TRUE
    <3>1. PICK expl, healthy : /\ s = Decision(t, p, expl, healthy)
                               /\ healthy \in {h \in BOOLEAN : h \/ GitTrouble}
      BY DEF Decisions
    <3>2. healthy = TRUE
      BY <3>1 DEF Undisturbed
    <3> QED
      BY <3>1, <3>2
  <2> DEFINE e == ExitOf(p, expl)
             commits == r.wt \in ahead
  <2>2. e.log = proc[p].log /\ e.kind = proc[p].kind /\ e.code = proc[p].code
    BY DEF ExitOf
  <2>3. s = ResolveRetryStrategy(r, e, jobs[t].attempt, commits, TRUE)
    BY <2>1 DEF Decision
  <2>4. proc[p].log \in Logs /\ proc[p].kind \in Kinds
    BY <1>0, ProcessAt DEF Process
  <2>5. Unsettled(p)
    <3>1. exits # <<>> /\ p = Head(exits) /\ ~Stopped
      BY DEF TakeExit, PauseOnExit, ExitTaken, Stopped
    <3> QED
      BY <1>0, <3>1, HeadIsSent DEF Unsettled
  <2>6. Candid(p)
    BY DEF AllCandid
  <2> HIDE DEF e, commits, r
  <2>7. r \in Task
    BY <1>2
  <2>8. s.same \/ r.wt = 0 \/ s.do = "blockReport" \/ (s.do = "reported" /\ ~commits)
    BY <2>2, <2>3, <2>4, <2>5, <2>6, <2>7, ResolutionPlaces DEF Candid
  <2> QED
    BY <2>8 DEF commits
<1> HIDE DEF x
<1>6. DepMove(x, task'[t])
  BY <1>0, <1>1, <1>2, CompletedMoves DEF x
<1>7. ~HasJob(t)'
  <2>1. jobs' = [jobs EXCEPT ![t] = NoJob]
    BY DEF TakeExit, PauseOnExit
  <2> QED
    BY <1>0, <2>1 DEF HasJob, TypeOK, ProcOK
<1>8. SamePlace(x, task'[t])
  BY <1>6 DEF DepMove
<1>9. CASE x.wt = r.wt
  BY <1>4, <1>8, <1>9 DEF KeepsWork, SamePlace
<1>10. CASE x.wt # r.wt
  <2>1. x.wt = 0 /\ r.wt # 0
    BY <1>3, <1>10 DEF ExitMove
  <2>2. CASE r.wt \notin ahead
    BY <1>4, <1>8, <2>1, <2>2 DEF KeepsWork, SamePlace
  <2>3. CASE r.wt \in ahead
    <3>1. s.do = "blockReport" /\ x.last = r.wt
      BY <1>4, <1>5, <1>10, <2>1, <2>3
    <3>2. x.wf = "blocked" /\ x.err = "other"
      BY <1>3, <3>1 DEF ExitMove
    <3>3. PutAside(t)'
      BY <1>6, <1>7, <1>8, <2>1, <3>2 DEF DepMove, PutAside, SamePlace
    <3> QED
      BY <1>4, <1>8, <2>1, <3>1, <3>3 DEF KeepsWork, SamePlace
  <2> QED
    BY <2>2, <2>3
<1> QED
  BY <1>9, <1>10

\* Before the first claim there is nothing to keep, and a run without restarts begins
\* there.
LEMMA NothingAtStart ==
  ASSUME Accountable, Undisturbed, CommitsKept, Start
  PROVE  ahead = {} /\ \A p \in Procs : ~Started(p)
<1>0. TypeOK /\ Numbered /\ Owned
  BY DEF Accountable, IInv, Named
<1>1. nclaim = 0
  BY <1>0 DEF Start, Undisturbed, TypeOK, EnvOK
<1>2. ASSUME NEW b \in ahead
      PROVE  FALSE
  <2>1. PICK t \in Tasks : b \in {task[t].wt, task[t].last}
    BY <1>2 DEF CommitsKept
  <2>2. b \in Branches /\ b # 0
    BY <1>0, <1>2 DEF TypeOK, GitOK, Branches
  <2>3. b <= nclaim
    BY <1>0, <2>1, <2>2 DEF Owned, Holds
  <2> QED
    BY <1>1, <2>2, <2>3 DEF Branches
<1> QED
  BY <1>0, <1>1, <1>2, NumberedNobodyYet DEF NobodyYet

LEMMA WorkStays ==
  ASSUME NEW t \in Tasks, SamePlace(task[t], task'[t])
  PROVE  KeepsWork(t)
BY DEF SamePlace, KeepsWork

\* Only a claim, a ghost, a start and an exit of its own move the worktree of a task.
LEMMA PlaceFrame ==
  ASSUME Accountable, Default, Next, NEW t \in Tasks
  PROVE  \/ SamePlace(task[t], task'[t])
         \/ Claim(t) \/ CleanupGhosts \/ Start
         \/ \E p \in Procs : TakeExit(t, p) \/ PauseOnExit(t, p)
<1> DEFINE r == task[t]
           s == task'[t]
<1>0. TypeOK /\ Lawful /\ Calm /\ AttemptsCounted /\ MaxAttempts = 1
  BY AccountableParts
<1>u. CASE s = r
  BY <1>u DEF SamePlace
<1>m. ASSUME NEW x, DepMove(x, s), SamePlace(r, x)
      PROVE  SamePlace(r, s)
  BY <1>m DEF DepMove, SamePlace
<1>2. CASE ApplyBus \/ PauseOnConflict \/ \E u \in Tasks : HeartbeatAges(u)
  BY <1>0, <1>2, BusMoves, PauseMoves, AgingMoves DEF Stays, StaleMove
<1>3. CASE TakeMergeResult
  <2> DEFINE m == Head(merges)
  <2>1. CASE ~UNCHANGED task
    <3>1. PICK x \in Task :
            /\ MergeMove(task[m.task], x, m.how = "ok")
            /\ \A u \in Tasks : DepMove(IF u = m.task THEN x ELSE task[u], task'[u])
      BY <1>0, <1>3, <2>1, TakenResultMoves
    <3> HIDE DEF m
    <3>2. CASE t = m.task
      BY <1>m, <3>1, <3>2 DEF MergeMove
    <3>3. CASE t # m.task
      BY <1>m, <3>1, <3>3 DEF SamePlace
    <3> QED
      BY <3>2, <3>3
  <2> QED
    BY <1>u, <2>1
<1>4. CASE MergesDone \/ OperatorResumes
  BY <1>0, <1>u, <1>4, FailuresMove DEF ResumeMove
<1>5. CASE Advance
  BY <1>0, <1>u, <1>5, AdvanceMoves DEF PhaseMove
<1>7. ASSUME NEW u \in Tasks, NEW p \in Procs, TakeExit(u, p) \/ PauseOnExit(u, p)
      PROVE  SamePlace(r, s) \/ u = t
  <2>1. CASE u # t
    <3>1. PICK x, y : Concludes(u, p, x, y)
      BY <1>0, <1>7, ExitMoves
    <3> QED
      BY <1>m, <2>1, <3>1 DEF Concludes, SamePlace
  <2> QED
    BY <2>1
<1>8. ASSUME NEW u \in Tasks, NEW p \in Procs, Salvage(u, p) \/ Respawn(u, p)
      PROVE  FALSE
  BY <1>0, <1>8, OneAttempt
<1>9. ASSUME NEW u \in Tasks, Claim(u) \/ Launch(u)
      PROVE  SamePlace(r, s) \/ Claim(t)
  BY <1>0, <1>9, ClaimMoves, LaunchMoves DEF SamePlace
<1> QED
  BY <1>u, <1>2, <1>3, <1>4, <1>5, <1>7, <1>8, <1>9, RegistryFrame DEF RegistryStep

LEMMA EachKeepsWork ==
  ASSUME Accountable, Default, Undisturbed, AllCandid, CommitsKept, Next, NEW t \in Tasks
  PROVE  KeepsWork(t) \/ Claim(t)
<1> DEFINE r == task[t]
           s == task'[t]
<1>0. TypeOK /\ MaxAttempts = 1
  BY AccountableParts
<1>1. CASE CleanupGhosts
  <2> DEFINE m == SyncedRegistry[t]
  <2>1. m \in Task /\ SamePlace(r, m) /\ s = Exorcised(m)
    BY <1>0, <1>1, SyncMoves DEF CleanupGhosts, DepMove
  <2> HIDE DEF m, r, s
  <2>2. s.last = m.last /\ (s.wt = m.wt \/ (s.wt = 0 /\ m.wt \notin ahead))
    BY <2>1 DEF Exorcised, Unmerged, Task
  <2> QED
    BY <2>1, <2>2 DEF SamePlace, KeepsWork, r, s
<1>2. CASE Start
  <2>1. r.wt \notin ahead
    BY <1>2, NothingAtStart
  <2>2. StartMove(t, r, s)
    BY <1>0, <1>2, StartMoves
  <2> QED
    BY <2>1, <2>2 DEF StartMove, SweepMove, DepMove, SamePlace, KeepsWork
<1>3. ASSUME NEW p \in Procs, TakeExit(t, p) \/ PauseOnExit(t, p)
      PROVE  KeepsWork(t)
  BY <1>3, ExitKeepsWork
<1> QED
  BY <1>1, <1>2, <1>3, PlaceFrame, WorkStays

\* What has been put aside is not taken up again.
LEMMA PutAsideStays ==
  ASSUME Accountable, Default, Next, ~Start, NEW t \in Tasks, PutAside(t)
  PROVE  PutAside(t)'
<1> DEFINE r == task[t]
           s == task'[t]
           Away(x) == x.wf \notin {"todo", "claimed"} /\ x.err # "dep"
<1>0. /\ TypeOK /\ TypeOK' /\ Lawful /\ Calm /\ AttemptsCounted /\ MaxAttempts = 1
  BY AccountableParts, AccountableKept DEF Accountable, IInv
<1>a. r.wt = 0 /\ Away(r) /\ ~HasJob(t)
  BY DEF PutAside
<1>c. ~Claim(t) /\ ~Launch(t)
  BY <1>0, <1>a DEF Claim, CanDispatch, Ready, Launch, Lawful, LaunchesAreClaimed
<1>w. s.wt = 0
  BY <1>0, <1>a, <1>c, TameSteps DEF Tame
<1>j. ~HasJob(t)'
  <2>1. CASE FewerJobs
    BY <1>a, <2>1 DEF FewerJobs
  <2>2. ASSUME NEW u \in Tasks, Launch(u)
        PROVE  ~HasJob(t)'
    <3>1. jobs'[t] = jobs[t]
      BY <1>0, <1>c, <2>2 DEF Launch, TypeOK, ProcOK
    <3> QED
      BY <1>a, <3>1 DEF HasJob
  <2> QED
    BY <1>0, <2>1, <2>2, JobsFall
<1> SUFFICES Away(s)
  BY <1>w, <1>j DEF PutAside
<1>m. ASSUME NEW x, Away(x), DepMove(x, s)
      PROVE  Away(s)
  BY <1>m DEF DepMove
<1>u. CASE s = r
  BY <1>a, <1>u
<1>1. CASE CleanupGhosts \/ ApplyBus \/ PauseOnConflict \/ \E u \in Tasks : HeartbeatAges(u)
  <2>1. DepMove(r, s) \/ Stays(r, s) \/ StaleMove(r, s) \/ GhostMove(r, s)
    BY <1>0, <1>1, GhostsMove, BusMoves, PauseMoves, AgingMoves
  <2> QED
    BY <1>a, <1>m, <2>1 DEF Stays, StaleMove, GhostMove
<1>3. CASE TakeMergeResult
  <2> DEFINE m == Head(merges)
  <2>1. CASE ~UNCHANGED task
    <3>1. PICK x \in Task :
            /\ MergeMove(task[m.task], x, m.how = "ok")
            /\ \A u \in Tasks : DepMove(IF u = m.task THEN x ELSE task[u], task'[u])
      BY <1>0, <1>3, <2>1, TakenResultMoves
    <3> HIDE DEF m
    <3>2. CASE t = m.task
      BY <1>a, <1>m, <3>1, <3>2 DEF MergeMove
    <3>3. CASE t # m.task
      BY <1>a, <1>m, <3>1, <3>3
    <3> QED
      BY <3>2, <3>3
  <2> QED
    BY <1>u, <2>1
<1>4. CASE MergesDone \/ OperatorResumes
  BY <1>0, <1>a, <1>u, <1>4, FailuresMove DEF ResumeMove
<1>5. CASE Advance
  BY <1>0, <1>a, <1>u, <1>5, AdvanceMoves DEF PhaseMove, MergeSources
<1>7. ASSUME NEW u \in Tasks, NEW p \in Procs, TakeExit(u, p) \/ PauseOnExit(u, p)
      PROVE  Away(s)
  <2>1. u # t
    BY <1>7, <1>a DEF TakeExit, PauseOnExit, ExitTaken
  <2>2. PICK x, y : Concludes(u, p, x, y)
    BY <1>0, <1>7, ExitMoves
  <2> QED
    BY <1>a, <1>m, <2>1, <2>2 DEF Concludes
<1>8. ASSUME NEW u \in Tasks, NEW p \in Procs, Salvage(u, p) \/ Respawn(u, p)
      PROVE  FALSE
  BY <1>0, <1>8, OneAttempt
<1>9. ASSUME NEW u \in Tasks, Claim(u) \/ Launch(u)
      PROVE  s = r
  BY <1>0, <1>c, <1>9, ClaimMoves, LaunchMoves
<1> QED
  BY <1>u, <1>1, <1>3, <1>4, <1>5, <1>7, <1>8, <1>9, RegistryFrame DEF RegistryStep

\* A performer commits where its task has its worktree.
LEMMA NewlyAhead ==
  ASSUME Accountable, Default, Rooted, Next, NEW b \in ahead' \ ahead
  PROVE  UNCHANGED task /\ \E t \in Tasks : b = task[t].wt
<1>0. TypeOK /\ AttemptsCounted /\ MaxAttempts = 1
  BY AccountableParts
<1>1. PICK p \in Procs : Performer(p) /\ Busy(proc[p]) /\ WorksOn(proc[p].branch)
  <2>1. \A w : Merges(w) => b \notin ahead'
    BY DEF Merges
  <2> QED
    BY <1>0, <2>1, GitFrame DEF gitVars
<1>2. b = proc[p].branch
  BY <1>1 DEF WorksOn
<1>3. b = task[proc[p].task].wt /\ proc[p].task \in Tasks
  BY <1>0, <1>1, <1>2, ProcessAt DEF Rooted, Process
<1>4. UNCHANGED task
  BY <1>1, PerformerFrame
<1> QED
  BY <1>3, <1>4

\* A task that is blocked by a silent exit keeps its worktree.
LEMMA SilentExitStays ==
  ASSUME TypeOK, Posted, AttemptsCounted, MaxAttempts = 1, Reports, NEW t \in Tasks,
         NEW p \in Procs, TakeExit(t, p) \/ PauseOnExit(t, p), ~proc[p].rep
  PROVE  task'[t].wt = task[t].wt
<1>1. PICK s \in Decisions(t, p) :
        task' = Completed(t, ApplyStrategy(task[t], s, proc[p].code))
  BY DEF TakeExit, PauseOnExit
<1> DEFINE x == ApplyStrategy(task[t], s, proc[p].code)
<1>2. s \in Strategies /\ x \in Task
  BY Records, DecisionsAffordable, StrategyKeeps DEF Affordable
<1>3. x.wt = task[t].wt
  BY <1>2, Records, SilentExitDecides, StrategyPlaces
<1> HIDE DEF x
<1>4. DepMove(x, task'[t])
  BY <1>1, <1>2, CompletedMoves DEF x
<1> QED
  BY <1>3, <1>4 DEF DepMove, SamePlace

LEMMA RootedKept ==
  ASSUME Accountable, Default, Undisturbed, CommitsKept, Rooted, Next
  PROVE  Rooted'
<1> SUFFICES ASSUME NEW p \in Procs, Busy(proc'[p])
             PROVE  proc'[p].branch = task'[proc'[p].task].wt
  BY DEF Rooted
<1>0. /\ TypeOK /\ TypeOK' /\ IInv /\ Lawful /\ Named /\ Orderly /\ Orderly' /\ Posted /\ Numbered
      /\ Settled /\ Settled' /\ Latest /\ Reports
      /\ AttemptsCounted /\ MaxAttempts = 1
  BY AccountableParts, AccountableKept DEF Accountable, IInv, Named
<1>1. CASE Born(p)
  <2>1. PICK t \in Tasks : /\ Launch(t) \/ LaunchLost(t)
                           /\ proc'[p] = NewProcess(t, task[t].claim, task[t].wt, restarts)
    BY <1>0, <1>1, BornOnce
  <2>2. proc'[p].task = t /\ proc'[p].branch = task[t].wt
    BY <2>1 DEF NewProcess
  <2> QED
    BY <1>0, <2>1, <2>2, BirthMoves DEF SamePlace
<1>2. CASE Busy(proc[p]) /\ Identity(proc[p], proc'[p])
  <2>0. PICK t \in Tasks : t = proc[p].task
    BY <1>0, <1>2, ProcessAt DEF Process
  <2>1. t = proc[p].task /\ proc'[p].task = t /\ proc'[p].branch = proc[p].branch
    BY <1>2, <2>0 DEF Identity
  <2>2. proc[p].branch = task[t].wt /\ task[t].wt # 0
    BY <1>0, <1>2, <2>1 DEF Rooted, IInv, WorkAssigned, Branches
  <2>3. SUFFICES ASSUME task'[t].wt # task[t].wt PROVE FALSE
    BY <2>1, <2>2
  <2>4. ~Claim(t) /\ ~Launch(t)
    BY <1>0, <2>1, <2>2, <2>3, ClaimMoves, LaunchMoves DEF SamePlace
  \* A process of the only run is heard of as long as it runs.
  <2>5. SUFFICES Quiet(t)' /\ ~Stopped'
    <3>1. Started(p)' /\ restarts' \in 0..MaxRestarts /\ MaxRestarts = 0
      BY <1>0 DEF Undisturbed, TypeOK, EnvOK, Started, Busy
    <3>2. proc'[p].epoch <= restarts' /\ proc'[p] \in Process
      BY <1>0, <3>1 DEF Orderly, Unborn, TypeOK, ProcOK
    <3>3. proc'[p].epoch = restarts'
      BY <3>1, <3>2 DEF Process
    <3> QED
      BY <2>1, <3>3 DEF Quiet, Engaged, Unsettled, Busy
  <2>6. CASE CleanupGhosts
    <3>1. GhostMove(task[t], task'[t])
      BY <1>0, <2>1, <2>3, <2>6, GhostsMove DEF DepMove, SamePlace
    <3>2. AtWork(task[t]) /\ ~AtWork(task'[t])
      BY <2>3, <3>1 DEF GhostMove, AtWork
    <3> QED
      BY <1>0, <2>1, <2>6, <3>2, GhostSettles DEF CleanupGhosts, Stopped
  <2>7. ASSUME NEW x \in Procs, TakeExit(t, x) \/ PauseOnExit(t, x)
        PROVE  Quiet(t)' /\ ~Stopped'
    <3>1. proc[x].rep
      BY <1>0, <2>1, <2>3, <2>7, SilentExitStays
    <3>2. ~Stopped'
      BY <2>7 DEF TakeExit, PauseOnExit, ExitTaken, Stopped, loopVars
    <3> QED
      BY <1>0, <2>1, <2>7, <3>1, <3>2, ReportedExitQuiets
  <2>8. ~Start
    BY <1>2, NothingAtStart DEF Started, Busy
  <2> QED
    BY <2>1, <2>3, <2>4, <2>6, <2>7, <2>8, PlaceFrame DEF SamePlace
<1> QED
  BY <1>0, <1>1, <1>2, BusyFrame

\* Commits that only the last branch of a task has are of a task put aside,
LEMMA ShelvedKept ==
  ASSUME Accountable, Default, Undisturbed, AllCandid, CommitsKept, Rooted, Shelved, Next
  PROVE  Shelved'
<1> SUFFICES ASSUME NEW t \in Tasks, task'[t].last \in ahead', task'[t].last # task'[t].wt
             PROVE  PutAside(t)'
  BY DEF Shelved
<1> DEFINE r == task[t]
           s == task'[t]
<1>0. /\ TypeOK /\ Owned /\ \A b \in ahead : b # 0
  BY AccountableParts DEF TypeOK, GitOK, Branches
<1>1. s.last \in ahead
  <2> SUFFICES ASSUME s.last \notin ahead PROVE FALSE
    OBVIOUS
  <2>1. s = r /\ \E u \in Tasks : s.last = task[u].wt
    BY NewlyAhead
  <2>2. PICK u \in Tasks : r.last = task[u].wt
    BY <2>1
  <2>3. r.last \in Branches /\ r.last # 0
    BY <1>0, <2>1, AccountableKept DEF Accountable, IInv, TypeOK, GitOK, Branches
  <2>4. u = t
    BY <1>0, <2>2, <2>3 DEF Owned, Holds
  <2> QED
    BY <2>1, <2>2, <2>4
<1>2. CASE r.last \in ahead /\ r.last # r.wt
  <2>1. ~Start
    BY <1>2, NothingAtStart
  <2> QED
    BY <1>2, <2>1, PutAsideStays DEF Shelved
<1>3. CASE ~(r.last \in ahead /\ r.last # r.wt)
  <2>1. CASE Claim(t)
    <3>1. s.last = r.last /\ (r.wt # 0 => s.wt = r.wt)
      BY <1>0, <2>1, ClaimMoves
    <3> QED
      BY <1>0, <1>1, <1>3, <3>1
  <2>2. CASE KeepsWork(t)
    <3>1. r.wt = s.last
      BY <1>1, <1>3, <2>2 DEF KeepsWork
    <3> QED
      BY <1>1, <2>2, <3>1 DEF KeepsWork
  <2> QED
    BY <2>1, <2>2, EachKeepsWork
<1> QED
  BY <1>2, <1>3

\* and no step makes commits impossible to find.
LEMMA CommitsStay ==
  ASSUME Accountable, Default, Undisturbed, AllCandid, CommitsKept, Rooted, Shelved, Next
  PROVE  CommitsKept'
<1> SUFFICES ASSUME NEW b \in ahead'
             PROVE  \E t \in Tasks : b \in {task'[t].wt, task'[t].last}
  BY DEF CommitsKept
<1>0. TypeOK /\ \A x \in ahead : x # 0
  BY AccountableParts DEF TypeOK, GitOK, Branches
<1>1. CASE b \notin ahead
  BY <1>1, NewlyAhead
<1>2. CASE b \in ahead
  <2>1. PICK t \in Tasks : b \in {task[t].wt, task[t].last}
    BY <1>2 DEF CommitsKept
  <2> DEFINE r == task[t]
             s == task'[t]
  <2>2. CASE Claim(t)
    BY <1>0, <1>2, <2>1, <2>2, ClaimMoves
  <2>3. CASE KeepsWork(t)
    <3>1. CASE b = r.wt
      BY <1>2, <2>3, <3>1 DEF KeepsWork
    <3>2. CASE b = r.last /\ b # r.wt
      <4>1. r.wt = 0
        BY <1>2, <3>2 DEF Shelved, PutAside
      <4> QED
        BY <2>3, <3>2, <4>1 DEF KeepsWork
    <3> QED
      BY <2>1, <3>1, <3>2
  <2> QED
    BY <2>2, <2>3, EachKeepsWork
<1> QED
  BY <1>1, <1>2

\* Within a run no step makes committed work impossible to find: as long as git works
\* and a failed tool does not deny the changes it has made, every branch with commits
\* that the base branch lacks is the worktree of a task or the branch it had last.
THEOREM CommitsAreKept ==
  ASSUME Default, Undisturbed
  PROVE  Spec => []CommitsKept
<1> DEFINE KInv == Accountable /\ AllCandid /\ Rooted /\ Shelved /\ CommitsKept
<1>1. Init => KInv
  <2> SUFFICES ASSUME Init PROVE KInv
    OBVIOUS
  <2>1. ahead = {}
    BY DEF Init
  <2>2. AllCandid /\ Rooted
    BY NobodyAtFirst DEF AllCandid, Candid, Rooted
  <2> QED
    BY <2>1, <2>2, AccountableAtFirst DEF Shelved, CommitsKept
<1>2. KInv /\ [Next]_vars => KInv'
  <2> SUFFICES ASSUME KInv, [Next]_vars PROVE KInv'
    OBVIOUS
  <2>1. Accountable'
    BY AccountableKept
  <2>2. CASE Next
    <3>1. AllCandid'
      BY <2>2, CandidKept DEF Undisturbed
    <3> QED
      BY <2>1, <2>2, <3>1, RootedKept, ShelvedKept, CommitsStay
  <2>3. CASE UNCHANGED vars
    <3>1. UNCHANGED <<task, proc, jobs, ahead, pc, restarts>>
      BY <2>3 DEF vars, gitVars, procVars, loopVars, envVars
    <3>2. AllCandid' /\ Rooted'
      BY <3>1 DEF AllCandid, Candid, Rooted, Unsettled, Stopped
    <3>3. Shelved' /\ CommitsKept'
      BY <3>1 DEF Shelved, PutAside, HasJob, CommitsKept
    <3> QED
      BY <2>1, <3>2, <3>3
  <2> QED
    BY <2>2, <2>3
<1>3. KInv => CommitsKept
  OBVIOUS
<1> QED
  BY <1>1, <1>2, <1>3, PTL DEF Spec
=============================================================================
