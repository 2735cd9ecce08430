# A verification project for the MACC coordinator

MACC drives coding agents over the tasks of a PRD. Its *coordinator* dispatches tasks to
performer processes that work in Git worktrees, listens to what they report, takes tasks through
test, review and fix phases, merges their branches and recovers from crashes. Around it, a *queue*
works through several PRDs, people approve gates, and terminal and web clients share one lease to
control it all. This directory models these parts of `mod-one/macc` in TLA+, model-checks them with
TLC on small instances and proves properties of them with TLAPS for every instance.

    tlc -workers 2 -config lifecycle.cfg MCCoordinator     # model-check a run
    tlapm CoordinatorProofs.tla                            # check the proofs

`PROJECT.json` lists the components, the runs, the mutants that show each property can fail, the
source lines each definition translates, the findings, the hazards and the theorems.

## 1. Inventory

Paths are relative to `src/core/src/coordinator/` unless they start with `src/`.

| Component | State it keeps | Operations | Interacts by | What makes it correct |
|---|---|---|---|---|
| Task workflow machine (`engine/fsm.rs`, `transitions.rs`, `retry.rs`, `completion.rs`, `advance_plan.rs`, `src/core/src/coordinator.rs`) | one record per task | transition, phase outcome, completion strategy, plan | called by the loop | closes a task only with its work; budgets hold; no state without a next step |
| Control loop (`engine/fsm.rs`, `control_plane/*.rs`) | registry, active jobs, merge jobs, counters of the run | monitor exits and merges, advance, dispatch, end of cycle | channels, registry saves | every exit and merge is handled once; the run ends |
| Job and merge workers (`runtime.rs`) | processes, threads that wait for them | spawn, phase timeout, exit, merge, terminate | event channels | an answer for every worker, never two in one place |
| Performer (`src/automat/performer.sh`, `completion_evidence.sh`) | attempt, last error, result | run the tool, report, commit, exit | IPC, Git, exit status | reports what it did; commits what it reports |
| IPC and events (`ipc.rs`, bus in `runtime.rs` and `base.rs`) | persisted rows, cursor, bus | accept or reject, replay, apply | TCP, SQLite | stale senders are ignored |
| Task selection (`task_selector.rs`) | block reasons in the registry | ready task, resume, block propagation | registry | dependencies first; blocked only with a reason |
| Startup recovery (`state_runtime.rs`, `commit_reconciler.rs`, `delivery_evidence.rs`) | none of its own | sync, ghost cleanup, replay, sweep | registry, rows, Git, pids | no work is lost or done twice |
| State and storage (`state.rs`, `model.rs`, `src/core/src/coordinator_storage.rs`) | SQLite tables, JSON copies | load, save, reconcile | all of the above | a save is seen whole |
| Control modes (`engine/fsm.rs`, `src/core/src/service/coordinator_workflow.rs`) | control row, status of the run | drain, graceful and force stop, signals | SQLite, signals | a run that is told to stop ends, and so does the queue around it |
| Approval gates (`approval.rs`, `model.rs`) | decisions per gate | approve, reject, request changes, expire | operator commands | a quorum for one revision of the subject |
| Integration worktree (`integration.rs`, `runtime.rs`, `commit_reconciler.rs`) | lock, worktree, base branch | acquire, merge, resolve, publish, sync | Git, file lock | no commit is lost, merges do not leak into one another, what is recorded is there |
| Worktree pool (`helpers.rs`, `src/core/src/worktree.rs`) | slots | reuse, create, remove | registry, Git | never a slot in use |
| Rate limits (`rate_limit.rs`), sessions (`session_manager.rs`), routing (`model_routing.rs`) | throttles, leases | back off, lease, route | dispatch | an exhausted tool is left alone, and not for ever |
| Process ownership (`src/core/src/process_ownership/`, `src/core/src/service/process_ownership*.rs`) | owner, viewers, takeover request | claim, heartbeat, evict, take over | clients, file | nobody loses the lease while running but in ways agreed to |
| PRD queue (`src/core/src/prd_queue.rs`, `src/cli/src/coordinator/prd_queue.rs`) | cursor, entries with fingerprints, status | validate, open, run, verify, advance, reset | registry, control row, files | never past unfinished work, in the order of the files |
| Supervisor, delayed runs | restart budget | start, escalate | processes | each run once |
| Configuration, plan/apply, save, adapters, CLI, TUI, web, registry, scripts | files | generate, show, convert | user | deterministic |

What is hard here: the loop is sequential, but everything it waits for is not. Performers outlive
claims and coordinators; exits, events and merges are matched to tasks by name; every event has
two ways to arrive; each error class has its own retry budget; recovery rebuilds the state from
four sources (registry, rows, Git, pids) that were never written together. The queue keeps a cursor
over files, a registry and a branch that operators change under it. The lease is a file of which
every read may evict, and its clients' timers are the only sign that they live. And every merge shares one
worktree, and one branch with an operator who works on it. `PROJECT.json` lists 40 hazards with their lines.

## 2. Plan

| Step | Module | Contents | State |
|---|---|---|---|
| 1 | `TaskFSM`, `Completion` | the pure part: transitions, plan, strategy | done |
| 2 | `Coordinator`, `MCCoordinator` | the loop with performers, merges, crashes; runs | done |
| 3 | `Backlog` | abstract promise, refined by `Coordinator` and by `PrdQueue` | done |
| 4 | `CompletionProofs`, `CoordinatorProofs`, `CoordinatorInvariants`, `RegistryProofs`, `ProcessProofs`, `PromiseProofs` | theorems about the coordinator | done for 13 properties, the refinement of `Backlog` among them |
| 5 | `ProcessOwnership`, `Lease`, `OwnershipProofs` | ownership, heartbeat, takeover, against an abstract lease | done |
| 6 | `HumanGate`, `PrdQueue`, `PrdQueueProofs` | queue, gates and control modes around a reduced task | done |
| 7 | `Integration`, `IntegrationProofs` | the merge behind `FinishMerge`, step by step | done but for the refinement of `FinishMerge` |
| 8 | `Coordinator` extended | the window in `Post`, resume by command, a late failure row | next |
| 9 | `Scheduler`, `WorktreePool`, `RateLimit` | resources, priorities, slots, back-off | later |
| 10 | `Sessions`, `Supervisor` | session leases; incidents, restarts, escalation | later |

Still worth proving: the theorems under `Default` for the stale policy `block` across restarts.

## 3. The modules

* **TaskFSM** holds the record of a task and the functions on it: `ValidNext` is
  `is_valid_workflow_transition`, `PhaseSucceededTo` and its siblings are
  `transition_workflow_state`, `PlanAdvance` is `plan_advance`, `ApplyPhaseOutcome` and
  `ApplyMergeResult` are the functions the loop applies. Branches are named by the claim that made
  them and processes by the order in which they start, so identity across restarts is exact.
* **Completion** is what happens when a performer exits: `Authority` (whom to believe),
  `ResolveRetryStrategy` (what to do) and `ApplyStrategy` (the effect), branch by branch in the
  order of the code. Error codes are grouped by how they steer the decision.
* **Coordinator** is the system: variables for the registry, Git (`ahead`, `dirty`, `delivered`),
  performers, jobs, channels, the event rows and the bus, merges, and the loop's place `pc`.
* **Backlog** is the promise: work starts after its dependencies are merged, a task is merged only
  once its work is on the base branch, and what is merged or published stays so. `KeepsPromise`
  is the refinement: `Standing` maps the eleven workflow states to four.
* **ProcessOwnership** is the lease of `process_ownership/store.rs` and the clients that use it: terminal
  clients, browser tabs with the web server, one-shot commands. The record is read through `Loaded`, which
  evicts and promotes as every read of the store does; times are ages in ticks.
* **Lease** is what the record promises: the holder loses it by expiry, by resigning, by a request it
  accepted or let pass, or to an operator who seizes it. `KeepsLease` is the refinement.
* **HumanGate** is `approval.rs` and the gate part of `model.rs`: which decisions count for a revision,
  the quorum, the verdict.
* **PrdQueue** is the queue of PRDs around the coordinator's runs, with the control modes, the gates and
  the decision command. One task is reduced to the states the queue looks at.
* **Integration** is the merge of a branch: lock, worktree, hook, publication, next to the sync command, a
  supervisor's repair and an operator. A commit stands for its history, a set of contributions; a compare and
  swap therefore compares what the tips contain.
* **MCCoordinator**, **MCOwnership**, **MCQueue** and **MCIntegration** give the graphs and model values of the runs.
* **CoordinatorInvariants** states, layer by layer, the invariants that the theorems about the coordinator rest on.
* **CompletionProofs**, **CoordinatorProofs**, **RegistryProofs**, **ProcessProofs**, **PromiseProofs**, **OwnershipProofs**,
  **PrdQueueProofs** and **IntegrationProofs** hold the theorems.

How the actions correspond to a cycle of `run_control_plane_cycle`:

| Code | Actions |
|---|---|
| `on_cycle_start` (sync of the registry, ghost cleanup) | `CleanupGhosts` |
| `consume_runtime_events`, `apply_runtime_event_bus_updates`, `apply_stale_heartbeat_policy`, `force_kill_stale_failures` | `ConsumeRows`, `ApplyBus` |
| the exit queue of `monitor_active_jobs_native` | `DropExit`, `TakeExit`, `PauseOnExit`, `Salvage`, `Respawn`, `ExitsDone` |
| `monitor_merge_jobs_native`, `on_blocked_merge` | `TakeMergeResult`, `MergesDone`, `PauseOnConflict`, `OperatorResumes` |
| `advance_tasks_native` | `Advance` |
| `run_dispatch_pipeline` | `Claim`, `Launch`, `LaunchLost`, `DispatchFails`, `DispatchDone` |
| `on_cycle_end`, `should_terminate_run`, `on_cycle_counts_with` | `EndCycle` |
| an error that `is_transient` | `StorageFails` |
| `run_native_control_plane`, startup | `Start` |
| performer process and its waiting thread | `StartTool` ... `SendExit`, `Die`, `PhaseTimeout`, `Heartbeat` |
| merge worker | `FinishMerge`, `MergeTimeout` |

A cycle monitors three times; `round` says which time it is (1: before phases, 2: before dispatch,
3: before the end; the third looks at merges only).

Decisions a reader should know:

* The event fence `Accepted` compares claim and epoch when the event arrives and needs a loop that is
  up. A rejected final report makes the performer fail, a rejected progress event does not.
* Both ways of an event are kept: `rows` (persisted) and `bus` (memory). Several events of one task
  between two passes are folded into one `Update`, as the code folds them.
* `hb` is the last heartbeat against the grace periods: none, fresh or old. A missing one counts as old for the
  ghost cleanup, as `within_grace` does. The lifecycle rows the coordinator writes itself refresh it.
* A silent tool (`ToolSilent`) is a performer without an IPC address: it exits 0 and nothing is
  persisted, which is what E901 and the integrity pause are for.
* `Start` is startup as one step, in the code's order: blocks, sync with the base branch, ghost cleanup,
  replay of the rows, recovery sweep. No performer event is accepted during it.
* `sync_registry_from_prd_native` opens every run and every cycle, and `SyncedRegistry` is what it does with
  a PRD that stays as it is: it sets and lifts the blocks that dependencies impose. The completion of a task
  does so too (`Completed`); the sync adds the blocks whose cause came another way: a phase that failed,
  a ghost, a stale heartbeat.
* A phase timeout is the stale limit, as `launch_performer` passes it.
* The retry and cool-down code for failed dispatches in `base.rs` is compiled for tests only; in the
  program a dispatch error ends the run, which is `DispatchFails`.
* There is one tool, which is cooling down or not. `ThrottleExpires` stands for the end of a cool-down
  and for the clearing of an expired one when a job succeeds.
* The merge gate is left out: it looks for branches named after tasks, which dispatch does not create.

How the actions of the other modules correspond to the code:

| Code | Actions |
|---|---|
| `prd_queue::run` (launch, validation, entry, verification, advance) | `Launch`, `ChangedFile`, `UnsafeRegistry`, `OpenEntry`, `Mark`, `Judge`, `Deliver`, `FailEntry`, `Advance` |
| `run_single_prd_control_plane` | `StartRun`, `Recover`, `EndRun`, `Interrupt` |
| `on_cycle_start`, the stop checks of the cycle | `StopRun`, `Cycle` |
| monitoring, advancing and dispatching in a run | `Perform`, `Queue`, `Record`, `Misplaced`, `Fail`, `Ghost`, `Dispatch`, `Pick`, `Picked` |
| `on_cycle_end`, `should_terminate_run` | `Finish`, `Again` |
| merge worker of the queue's run | `Publish` |
| stop, reset, edited file, new commit, decision, its save, expiry | `Stop`, `Reset`, `Edit`, `Revise`, `Decide`, `SaveDecision`, `Age` |
| `IntegrationWorktree::acquire`, lock timeout | `Acquire`, `AcquireTimeout` |
| `merge_task_with_policy_native` and its hook | `MergeCleanly`, `MergeConflicts`, `AgentEnds`, `AfterHook` |
| `publish`, `publish_commit` | `ReadHead`, `Route`, `Swap`, `CheckHolder`, `Forward`, `Refused` |
| `QueueMerge`, `spawn_merge_job` | `StartMerge`, `MergeTimeout` |
| `coordinator_sync_unmerged_branches` | `StartSync`, `NextBranch`, `EndSync` |
| supervisor: `target`, `integrate` | `StartRepair`, `Integrate`, `RepairFails` |

In `ProcessOwnership` the actions carry the name of the client and of what it does (`TuiBeats`, `WebClaims`,
`CliAsks`, `Responds`, `Hangs`, ...). In `PrdQueue` the loop is not cut into its phases, because
`Coordinator` does that: any task may move when the run is up, and the ends of a cycle see the registry as it is then.
In `Integration` an agent commits the merge, leaves it, or undoes it; with the hook switched off a conflict
ends as if the agent had left it. A hook that times out loses its shell only, and the worker goes on
waiting for the output its agent holds, so the timeout ends nothing. A repair and a coordinator exclude one
another by `supervisor-intervention.lock`.

## 4. Runs

Deadlock is not checked where the system really stops: a run of the coordinator ends, a queue is done, users leave. It is checked for `integration`.

| Run | Result | Bounds | What it shows |
|---|---|---|---|
| `lifecycle` | passes, about 260,000 states | 1 task, 2 dispatches, 2 inner attempts, tests, one review cycle, every way a tool (but one, below), a phase and a merge can end | `MergedIsIntegrated`, `NoLostTask`, `ReviewsBounded`, `PerformersTracked`, `KeepsPromise`, and that the run ends |
| `backlog` | passes, about 550,000 states | 3 tasks, one after another and one on its own, 2 performers, conflicts and transient merge failures | `CommitsKept`, `OneMerge`, `MergesAnswered`, `DepBlockedHasReason`, `KeepsPromise` |
| `stale` | passes, about 1,080,000 states | 1 task, 3 dispatches, ageing heartbeats, one death, git trouble, policy `block` | `WorktreeExclusive`, `RetriesBounded`, `MergedIsIntegrated` |
| `recovery` | passes, about 1,570,000 states | 1 task, one crash or restart, two attempts a claim, storage and git trouble, late merges | `WorktreeExclusive`, `WorkAssigned`, `KeepsPromise` |
| `progress` | passes, about 47,000 states | 3 tasks, reviews that ask for changes, agents that deliver | `AllMerged` |
| `ownership` | passes, about 750,000 states | 2 terminal clients (alike, symmetry), time to live 3, request timeout 1, auto-accept, 2 requests, one seizure, one put-off heartbeat, one death or hang | `KeepsLease`, `TransferTakesEffect` |
| `adoption` | passes, about 300,000 states | a terminal client, a tab, a command; time to live 2; one death or hang | `ViewersOrdered`, `KeepsLease`, `LeaseAdopted` |
| `queue` | passes, about 290,000 states | PRD 1: a judged task; PRD 2: a gate between two tasks; 2 approvers; up to 3 events of stop, crash, reset, decision (twice each), failure, edit, revision, expiry (once each) | `CursorBehind`, `CursorJudged`, `StopHonoured`, `ApprovedByQuorum`, `QueueOrder`, `QueueEnds` |
| `integration` | passes, about 710,000 states | 2 branches, 2 workers, a sync, a repair, one commit of the operator, one of crash, missed answer and switch | `NothingLost`, `RecordedIsOnBase`, `OwnWorkOnly`, `FilesFollow`, `LockComesFree` |
| `retry_unselectable`, `restart_commits`, `verdict_gate` | violated | 1 task (`verdict_gate`: the queue's) | the findings below |

Why these bounds. A hazard of the coordinator needs two claims, or two attempts, of *one* task, one crash,
or one answer that is late; two dispatches, two attempts, one restart and one death give each of
these, and three tasks in a chain with a bystander are the smallest graph on which a block
spreads, is taken back, and leaves somebody alone. `RoomAssumption` makes sure that the bounds on claims and
processes never cut a behaviour short. `lifecycle` runs with `max_parallel` 1: with 2,
`PerformersTracked` does fail, because ghost cleanup can requeue a task whose exit has not
been read, and the task is then dispatched again. The tool outcome `doneThenRate` (a success marker,
then a rate limit) is in the model and in no run: the code closes such a task as already
satisfied without looking at its branch, and `MergedIsIntegrated` is about all other exits.

The lease needs two clients that want it, a third kind only to adopt it, and a timeout shorter than the time to live.
The queue needs a PRD behind another, a gate with tasks on both sides, and events that meet: three of them give a crash
between a stop and its effect, a reset after an edit, or a decision saved over a crash. A merge needs a second worker
only after a missed answer, a sync that meets it, and a second branch for leftovers to come from; the operator commits and switches once,
at any step of a publication.

Fairness. *Coordinator* (`FairSpec`): the first start, the loop, each performer and its thread, the merge workers and the end of a
cool-down are weakly fair. The loop is one thread that sleeps and goes on; performers have a phase timeout
or end when their tool does; a merge ends or times out. Nothing is assumed of operators, crashes or
restarts, so `RunEnds` stops at "waits for an operator". It also exempts a tool that is unavailable
again and again, since the coordinator then waits by design. *ProcessOwnership*: the timers of clients that
run and time itself; nothing of users. *PrdQueue*: a launched process goes on, merge workers finish, and a decision
command that has begun saves. The loop serves one task at a time, so tasks share one strong fairness
condition: it is not for ever elsewhere while a task could move. Nothing of operators. *Integration*: a process that has begun goes
on, and so does the agent it waits for, which has no limit of its own; syncs and merges need not begin.

## 5. Findings

1. **A retry that is never selected** (`retry_unselectable`). The automatic retry allows
   `error_code_retry_max` (2) retries in the kept worktree, the selector resumes only up to
   `phase_runner_max_attempts` (1). The task stays `todo` with a worktree and nobody may take it.
2. **A restart drops commits** (`restart_commits`). Startup replays a `phase_done` row, which clears the pid, and the
   sweep then takes the task for a claim without a process and drops its worktree.
3. **A rejected verdict does not keep dependants back** (`verdict_gate`). In the first PRD nothing is recorded as
   external, so the dispatcher takes the commits on the branch for delivered work (`control_plane/dispatch.rs:118`) and starts
   what depends on a task whose verdict was a rejection (`src/MACC.md:838` says that it keeps them blocked).

Each entry of `findings` in `PROJECT.json` quotes the line of the repository that says otherwise.

Observed while modelling, without a run of their own; the properties name each as an exception or exclude it by a bound:

* *Coordinator.* An exit event names a task and no claim: under the stale policy `requeue`, the exit of the first
  performer is taken for the second, and the worktree is dispatched while one still works in it (`WorktreeExclusive`
  holds under `block`). A failure row of the previous performer is booked on the current job
  (`control_plane/base.rs:1783`).
* *Ownership.* A user who acts within every heartbeat interval of a terminal client puts its heartbeat off (`MaxDelays`). A reloaded tab whose
  entry still stands keeps its old heartbeat (`MaxReloads` is 0). Web tabs beat every 15 s, which is the time to
  live. A request may live for 60 s (`src/core/src/service/process_ownership.rs:232`), so one accepted after 15 s installs an owner the next
  read evicts. A one-shot command asks under a name of its own process, which has ended when it is granted. The viewer guard of one web
  handler is dropped at once. The gate in front of commands checks and then acts, and lets everybody pass when there is no owner.
* *Queue.* A gate that is approved is never merged, and the queue waits for merged (`src/core/src/prd_queue.rs:277`), so a PRD with a gate
  never counts as complete (`src/MACC.md:372` and `:896` read otherwise). A stop recorded between the queue's check and the next run's
  "running" is overwritten (`engine/fsm.rs:2298`). A decision command saves the whole registry it loaded: claims and merges are
  undone, and a task may be done twice with two verdicts, which `CursorJudged` exempts. A drain leaves out testing, reviewing and
  open merges. `--prd` replaces the registry without the check of unfinished tasks. A sync of the PRD records committed
  tasks as delivered whatever their verdict.
* *Integration.* An agent that cannot resolve a conflict is told to stop and leave no markers
  (`src/automat/hooks/ai-merge-fix.sh:254`). If it aborts the merge, HEAD is the base, the publication is `UpToDate` and the task is recorded as merged without its
  work (`integration.rs:71` calls this "base already contained the branch"); `RecordedIsOnBase` exempts `abandoned`. An operator who checks out the base branch
  between the listing of holders and the swap gets the stale files that `integration.rs:34` rules out; one who leaves it before the
  fast-forward gets the work on the other branch, and `Published` is reported (`raced`). A sync keeps the tip it began with and
  publishes one branch per invocation; the others are reported as if a checkout were dirty. It also saves the registry it loaded
  before it waited for the lock. After a crash the lock is free while the merge agent still works in the worktree (`orphans`).

## 6. Proofs

`CompletionProofs` proves what a completion does to a record: strategies are well typed, keep the branch of a
task that keeps its worktree, and raise a counter only below its budget. The modules on `Coordinator` prove, for any set
of tasks with any dependencies and any values of the constants allowed by the assumptions of the modules and by the last column:

| Theorem | Property | Beyond the assumptions |
|---|---|---|
| `TypeCorrect` | `TypeOK` | none |
| `WorkHasABranch` | `WorkAssigned` | none |
| `ReviewBudgetHolds` | `ReviewsBounded` | none |
| `RetryBudgetHolds` | `RetriesBounded` | the stale policy is not `retry`, which raises the counter without a bound |
| `MergesAreAnswered` | `MergesAnswered` | none |
| `OneMergeAtATime` | `OneMerge` | merges do not time out: a late worker runs on while the next one starts |
| `NoTaskIsLost` | `NoLostTask` | one attempt per claim, no storage errors, no restarts |
| `BlocksHaveReasons` | `DepBlockedHasReason` | `Default`, no restarts |
| `WorktreesAreExclusive` | `WorktreeExclusive` | `Default` |
| `PerformersAreTracked` | `PerformersTracked` | `max_parallel` 1, no storage errors |
| `ClosedIsIntegrated` | `MergedIsIntegrated` | `Default` |
| `PromiseIsKept` | `KeepsPromise` | `Default` |
| `CommitsAreKept` | `CommitsKept` | `Default`, `Undisturbed` |

`Default` is the configuration a project starts with (one attempt per claim, no stale policy), or that one with the
stale policy `block` within one run of the coordinator (the settings of the run `stale`), and an agent that does not
announce success in an attempt that ends in a rate limit. With no stale policy it allows any crashes and
restarts, and with either any storage errors, late merges, git trouble and number of performers. The hypotheses are
there because the code breaks the property without them:

* An attempt that leaves a success marker and then hits the limit closes its task without a look at its branch (`doneThenRate`).
* The stale policy `requeue` gives a task to a second performer while the first one lives, and a late "running" event can
  take a task that is merged back to work. Under `block` no such event is left when the work ends (`Hushed`). Across restarts
  the argument breaks off, the properties do not, as far as TLC sees (one task, and two dependent ones, one restart).
* With two attempts per claim and two performers, the exit of an earlier claim is matched with the job of the newer one, and the pause
  on a failed integrity check can leave a claim without its job. Two performers suffice for `PerformersTracked`: the ghost
  cleanup frees a task before its exit is read, a second job takes the place of the first, and the first exit removes it.
* A storage error at the wrong moment loses the jobs; a restart leaves performers no job waits for, and tasks that were
  requeued while they were blocked keep E905 without an open dependency.
* `Undisturbed` asks for no restart, no git trouble and no `errNone`: the sweep after a restart drops a worktree with commits (the finding
  `restart_commits`), a worktree that does not look healthy is given up with what it holds, and so is that of a tool that reports a
  failure without a change after an earlier attempt of the performer committed one. TLC refutes `CommitsKept` when
  any one of them is allowed, and under the stale policy `requeue`.

The argument. The inductive invariant of the first two is `IInv == TypeOK /\ WorkAssigned`: types alone are not inductive,
because `Respawn` and `Launch` build a process from the branch a job or a task names, and only `WorkAssigned` says
that there is one. Each action has a lemma of its own that goes through the variables it changes; frame
lemmas (`RegistryKept`, `ProcessesKept`, `JobsAreKept`, `QueuesAreKept`, `GitKept`, `BusKept`, `MergeFrame`) are shared. The
budgets follow from `Within`, which says of each record that its counters are in their budgets, and from
`PlanAdvance` and `ResolveRetryStrategy` asking for the budget before the counter is raised.
`MergesAnswered` is strengthened to `Answered`, which also holds while the coordinator is down, and `OneMerge` to `OneAtATime`: a
running worker, an unread result and a reported failure exclude one another.

The other theorems climb a ladder of invariants, all in `CoordinatorInvariants` but for `Reasoned`, which is in `RegistryProofs`; each rung was checked by TLC on the instances of the runs
before it was proved, and each one's steps use the rungs below it:

| Invariant | Proved in | What it says, and what it is needed for |
|---|---|---|
| `Lawful` | `RegistryProofs` | the workflow state of a task says whether it may have a claim, a pid or a job; a claimed task's dependencies are merged. Rests on `Move` lemmas: what each operator of the loop may make of a record |
| `Numbered`, `Owned` | `ProcessProofs` | a process is known by its claim, a branch belongs to one task for ever: identity, without which nothing can be said of late exits |
| `Settled`, `Latest`, `Posted` | `ProcessProofs` | a task that is not at work has no process that can still be heard of, or that works in its worktree; the one that works is the latest on its branch. `Latest` is what `WorktreesAreExclusive` needs |
| `Reports` | `ProcessProofs` | what a process may have told by the state it is in: an exit with a report cannot look like one without |
| `Hushed`, `Reasoned` | `ProcessProofs`, `RegistryProofs` | no event, applied or on its way, says that a performer runs on a task past its work, so the policy `block` finds nothing stale there; and within a run E905 has its reason. Without them a merge or a finished task could be blocked under that policy. Together with the rungs above this is `Accountable` |
| `Tracked` | `ProcessProofs` | with one performer at a time each process whose exit is open is the job of its task: the launch finds no other job |
| `OneMergeAwaited` | `PromiseProofs` | a merge in flight is of the task and the branch the loop waits for, and that task still plans it when the answer comes |
| `ReportsBacked` | `PromiseProofs` | what a performer reported is on its branch, or was delivered |
| `MergesBacked` | `PromiseProofs` | the same for a task on its way to its merge, a worker, a failure and a result. All of these and the property are `Trustworthy` |

`PromiseIsKept` maps every step to a step of `Backlog` or a stutter, task by task: four lemmas say, for all actions at once, what is delivered stays
(`DeliveredGrows`), what is merged stays (`MergedStays`), nothing becomes merged without delivery (`IntegratedKept`), and nothing leaves
`todo` for work before its dependencies are merged (`StartsAllowed`).

`CommitsAreKept` adds to `Accountable` what makes a branch findable: a performer at work is in the worktree of its task (`Rooted`), and a
task whose last branch has commits is put aside (`Shelved`): it is blocked or closed without a job, and no action takes it up again
(`PutAsideStays`), so no later branch can push the one with the commits out of `last`. `PlaceFrame` says that only a claim, a ghost, a start and an exit of its own move the
worktree of a task; what an exit may do follows from its report, so `AllCandid` says which reports there are. TLC checked
the three on three instances (12.5 million states) before they were proved.

`OwnershipProofs`, `PrdQueueProofs` and `IntegrationProofs` prove, for any clients, queues, gates, processes and bounds:

| Module | Theorem | Property | Inductive invariant, and why it is needed |
|---|---|---|---|
| `OwnershipProofs` | `Typed`, `Ordered` | `TypeOK`, `ViewersOrdered` | `TypeOK`, and `earlier` is a strict order that ranks all viewers: promotion takes its least element and removes it |
| `OwnershipProofs` | `LeaseIsKept` | `KeepsLease`, every step of which is one of `Lease` or a stutter | `Timely`, under `Prompt`, both below |
| `OwnershipProofs` | `TransfersTakeEffect` | `TransferTakesEffect` | that of `Typed` and `Ordered`, for a takeover timeout from one period up to less than the time to live |
| `PrdQueueProofs` | `Typed`, `CursorHeld`, `StopHeld`, `QuorumHeld` | `TypeOK`, `CursorBehind`, `StopHonoured`, `ApprovedByQuorum` | `Stored`: what is merged in the registry, *and in the copy a decision command is about to save*, is on the branch; `Stopping`: from the order to stop to the end of its run something keeps the run from counting as a success; `Approvals`: a copy that says approved was backed when it was made |
| `PrdQueueProofs` | `VerdictsHeld` | `CursorJudged` | `Judging`, while nobody has decided: a task on the branch is merged, or is queued and the loop that runs knows that it landed, so that nothing is done twice; what the registry says of a verdict agrees with the draft before the merge and with the branch after it (below) |
| `PrdQueueProofs` | `QueueOrdered` | `QueueOrder` | a registry in order: what has started has its dependencies on the branch; the initial state and every step map to `Backlog` |
| `IntegrationProofs` | `Kept` | `NothingLost` | `Sent`: what is to be published contains the tip it was built on, which follows from `Held`: the worktree of the lock's holder does |
| `IntegrationProofs` | `OwnWork` | `OwnWorkOnly` | `Held`: that worktree holds nothing but the tip, the work in hand and the work of orphans; true because acquisition and reset clean it, and because only the holder uses it (`TypeOK`) |
| `IntegrationProofs` | `RecordedOnBase` | `RecordedIsOnBase` | `Arrived`: before a publication the work is in the worktree or was undone; `Based`: a tip that was read stays on the base; `Counted`: what a sync holds in memory is as good as recorded |
| `IntegrationProofs` | `FilesKeepUp` | `FilesFollow` | `Steered`: a publication that acts on an outdated answer about the checkout has been raced by a switch |

*The lease.* Who is evicted follows from the timers of all clients, so `LeaseIsKept` is about the age of every client's
heartbeat at once. `Timely` bounds it: the entry of a client that runs is no older than its `Grace` (what it brought along when
its request was granted, the heartbeats its user put off, and the period it is in), or the client is between the two halves of its tick
and will beat (`WillBeat`). The second half holds only because a terminal client among the viewers has a guard to beat for, and is not
attached, which is also in `Timely`. A record that has been read is `Clean` and reads as itself, so an operation on it
only has to be looked at once (`Touches`: it renews heartbeats or leaves them, and names nobody but its client), and the argument about
reading twice is left to `Tick` (`ReadAges`, `GrantAges`). `Prompt` is what the theorem asks of the constants:

| `Prompt` says | Without it |
|---|---|
| a request is granted or dropped while it is younger than the time to live (`Timeout \in 1..(TTL - 1)`, if anybody asks) | the new owner starts with the heartbeat of its request and is evicted by the next read |
| a terminal client's lag and its put-off heartbeats stay below the time to live | it is evicted between two ticks |
| a tab's lag and its heartbeat interval are no more than the time to live | it is evicted between two heartbeats |
| no tab is reloaded while its entry stands | its first heartbeat comes too late for the old entry |

Each line is needed as it stands: with a time to live of 3, TLC refutes `KeepsLease` for timeout 3, for timeout 0 (never), for two put-off
heartbeats on top of timeout 1, for a tab that asks and beats every 3 periods, and for one reload. The runs `ownership` and `adoption` satisfy
`Prompt`. With the times the code ships with (15 s to live, 60 s for a request, 15 s between the heartbeats of a tab) it
holds as long as nobody asks for control, reloads a tab or keeps a terminal client busy for three ticks.

*The verdicts.* `CursorBehind` says that what is left behind is on the branch, whatever happened; that its verdict is the one the
registry showed needs more, because a task that is done again may come out with another verdict. Without a decision command
none is: a sync loads the tasks of one PRD, the branch is consulted before a task is taken up, and the only merge the registry does
not know of is one of the loop in flight. After a restart such a task is queued in the file and merged on the branch, and the sync settles it
before the loop may dispatch (`Legible`). The proof has to know that a sync of tasks that were never started finds nobody stuck
(`NobodyStuck`). `Stuck` is a recursive function, and a CHOOSE to the prover: the function that is FALSE everywhere satisfies its equation, and
a function that does has no least member where it is TRUE, by the well-founded order of the dependencies, so it is the one. TLC
checked `Judging` on 394,327 states (no decisions, two judged tasks, four events) before it was proved.

Only model-checked: `RunEnds`, `AllMerged`, `LeaseAdopted`, `QueueEnds` and `LockComesFree`. Liveness under fairness and `ENABLED` are out of the
prover's reach. Every invariant and every action property that a passing run checks is proved.

## 7. Not modelled

The worktree pool and its slots (`helpers.rs:507` reuses an idle slot by its registry state), resource locks (`model.rs:796` leaves out testing and reviewing
tasks), several tools with their back-off and routing, sessions, delayed runs, the supervisor but for the publication of a repair, and resuming by
command are planned (section 2), as is the window between reading the event fence and writing the event (`ipc.rs:293`). Of the integration, the salvage of `merge_gate.rs` is left out: it makes the
same calls without the hook, for branches named after tasks, which dispatch does not create. Of process ownership, the stand-alone viewer and
release routes of the web server and the takeover answers of the command line are left out. Prompts, logs, session ids,
explanations and timestamps carry no control and are abstracted. Configuration, plan and apply, save, the adapters and the
front ends are sequential file handling or display and are left out.
