---------------------------- MODULE Coordinator ----------------------------
(***************************************************************************)
(* The coordinator's control plane: one loop that owns the task registry,  *)
(* the performer processes it starts, the events they send back, the merge *)
(* worker, and the recovery that runs when the coordinator is restarted.   *)
(*                                                                         *)
(* The loop is sequential and is modelled by a program counter; performer  *)
(* processes, the threads that wait for them and merge workers interleave  *)
(* with it at every step.                                                  *)
(***************************************************************************)
EXTENDS Completion, Sequences

CONSTANTS
  Tasks,          \* task ids of the PRD
  Deps,           \* Deps[t]: the tasks t depends on
  Delivered,      \* tasks whose commit is already on the base branch
  MaxParallel,    \* max_parallel
  MaxDispatch,    \* max_dispatch: dispatches per run
  StaleAction,    \* stale_action, or "off" when stale_in_progress_seconds is 0
  InnerAttempts,  \* PERFORMER_TOOL_MAX_ATTEMPTS
  StallLimit,     \* max_no_progress_cycles
  Outcomes,       \* bound: what a tool run may end in
  Edits,          \* bound: what a tool run may leave in its worktree
  PhaseOutcomes,  \* bound: what a test, review or fix phase may end in
  MergeOutcomes,  \* bound: what a merge may end in
  GitTrouble,     \* bound: git may refuse a commit, a worktree or a branch
  StorageTrouble, \* bound: reading or writing the registry may fail
  Aging,          \* bound: heartbeats may get older than the grace periods
  MaxDeaths,      \* bound: performer processes that die without a word
  MaxRestarts     \* bound: how often the coordinator is started again

ToolOutcomes ==
  {"changes", "nochanges", "errChanges", "errNone", "precond",
   "fail", "fatal", "rate", "quota", "doneThenRate", "silent"}

ASSUME TasksAssumption ==
  /\ IsFiniteSet(Tasks) /\ Tasks # {}
  /\ Deps \in [Tasks -> SUBSET Tasks]
  /\ Delivered \subseteq Tasks
ASSUME LimitsAssumption ==
  /\ MaxParallel \in Nat \ {0}
  /\ MaxDispatch \in Nat \ {0}
  /\ StallLimit \in Nat \ {0}
  /\ InnerAttempts \in Nat \ {0}
ASSUME ScopeAssumption ==
  /\ StaleAction \in {"off", "block", "requeue", "retry"}
  /\ Outcomes \subseteq ToolOutcomes
  /\ Edits \subseteq {"none", "dirty", "ahead"}
  /\ PhaseOutcomes \subseteq {"ok", "changes", "failed", "unavailable"}
  /\ "ok" \in PhaseOutcomes
  /\ MergeOutcomes \subseteq {"ok", "conflict", "transient", "timeout"}
  /\ GitTrouble \in BOOLEAN
  /\ StorageTrouble \in BOOLEAN
  /\ Aging \in BOOLEAN
  /\ MaxDeaths \in Nat
  /\ MaxRestarts \in Nat
\* The bounds of TaskFSM never cut a behaviour short: max_dispatch does.
ASSUME RoomAssumption ==
  /\ MaxClaims >= MaxDispatch * (MaxRestarts + 1)
  /\ MaxSpawns >= MaxClaims * MaxAttempts

VARIABLES
  task,       \* the registry: a record per task
  ahead,      \* branches with commits the base branch does not have
  dirty,      \* branches whose worktree has uncommitted edits
  delivered,  \* tasks with a commit on the base branch
  proc,       \* performer processes, with the thread that waits for each
  nproc,      \* processes started
  nclaim,     \* dispatch claims made
  jobs,       \* active_jobs: the process the run waits for, per task
  exits,      \* job exit events not yet read, in order
  rows,       \* persisted performer events past the event cursor, per task
  bus,        \* events sent to the in-memory bus, per task
  mjobs,      \* active_merge_jobs
  workers,    \* merge workers
  merges,     \* merge results not yet read, in order
  failedMerge,\* the failed merge the current pass will report
  pc,         \* where the loop is
  round,      \* which of a cycle's three monitoring passes it is in
  launching,  \* the task whose claim is saved and whose performer is not started
  run,        \* counters of the current run
  throttled,  \* the tool is cooling down
  deaths,     \* processes that died without a word
  restarts    \* restarts; also the epoch of the running coordinator

gitVars   == <<ahead, dirty, delivered>>
procVars  == <<proc, nproc>>
busVars   == <<rows, bus>>
mergeVars == <<mjobs, workers, merges, failedMerge>>
loopVars  == <<pc, round, launching, run>>
envVars   == <<throttled, deaths, restarts>>
vars == <<task, gitVars, procVars, nclaim, jobs, exits, busVars, mergeVars,
          loopVars, envVars>>
-----------------------------------------------------------------------------
(* Records and initial state.                                              *)

\* A performer process: its life, what it is working on, and what it has told.
Process ==
  [st     : {"none", "starting", "tool", "failing", "commit", "exited", "sent", "done"},
   task   : Tasks,
   claim  : Branches \cup {0},
   branch : Branches \cup {0},
   epoch  : 0..MaxRestarts,      \* COORDINATOR_EPOCH it was started with
   inner  : 1..InnerAttempts,    \* the attempt of performer.sh's own loop
   rep    : BOOLEAN,             \* a phase_result of it is persisted
   kind   : Kinds,               \* result_kind of the last one
   code   : Codes,               \* error code of its last failure
   log    : Logs,
   ok     : BOOLEAN]             \* exit status, then the wrapper's verdict

NewProcess(t, claim, branch, epoch) ==
  [st |-> "starting", task |-> t, claim |-> claim, branch |-> branch,
   epoch |-> epoch, inner |-> 1, rep |-> FALSE, kind |-> "none",
   code |-> "fatal", log |-> {}, ok |-> FALSE]

NoProcess == [NewProcess(CHOOSE t \in Tasks : TRUE, 0, 0, 0) EXCEPT !.st = "none"]

\* What is left of a process nobody will read about again.
Forgotten(p) ==
  [NewProcess(proc[p].task, proc[p].claim, proc[p].branch, proc[p].epoch)
     EXCEPT !.st = "done", !.rep = proc[p].rep]

Busy(q)  == q.st \in {"starting", "tool", "failing", "commit"}
Alive(p) == p # 0 /\ Busy(proc[p])

Job   == [proc : Procs \cup {0}, attempt : 0..MaxAttempts, signaled : BOOLEAN]
NoJob == [proc |-> 0, attempt |-> 0, signaled |-> FALSE]
NewJob(p, attempt) == [proc |-> p, attempt |-> attempt, signaled |-> FALSE]
HasJob(t) == jobs[t] # NoJob

\* terminate_active_jobs: TERM to the performers the run waits for.
Terminated ==
  [p \in Procs |-> IF Alive(p) /\ \E t \in Tasks : jobs[t].proc = p
                   THEN [proc[p] EXCEPT !.st = "failing"] ELSE proc[p]]

\* What a batch of events of one task amounts to: the last status, whether one
\* announced a failure, whether there was any.
Update   == [st : {"none", "running", "phase_done", "failed"},
             fail : BOOLEAN, beat : BOOLEAN]
NoUpdate == [st |-> "none", fail |-> FALSE, beat |-> FALSE]
Beat     == [NoUpdate EXCEPT !.beat = TRUE]
Event(status) == [st |-> status, fail |-> status = "failed", beat |-> TRUE]

Then(u, v) ==
  [st   |-> IF v.st = "none" THEN u.st ELSE v.st,
   fail |-> u.fail \/ v.fail,
   beat |-> u.beat \/ v.beat]

\* Mutant: a batch of heartbeats without a status overwrites the status.
ApplyUpdateBlind(r, u) ==
  [r EXCEPT !.rt  = u.st,
            !.pid = IF u.st \in {"phase_done", "failed"} THEN 0 ELSE r.pid,
            !.hb  = IF u.beat THEN "fresh" ELSE r.hb]

ApplyUpdate(r, u) ==
  [r EXCEPT !.rt  = IF u.st = "none" THEN r.rt ELSE u.st,
            !.pid = IF u.st \in {"phase_done", "failed"} THEN 0 ELSE r.pid,
            !.hb  = IF u.beat THEN "fresh" ELSE r.hb]

MergeJob    == [task : Tasks, branch : Branches, orphan : BOOLEAN]
MergeResult == [task : Tasks, how : {"ok", "conflict", "transient"}]

NewRun == [dispatched |-> 0, stall |-> 0, seen |-> <<>>]

Stopped == pc \in {"complete", "failed", "down"}

Init ==
  /\ task = [t \in Tasks |-> NewTask]
  /\ ahead = {} /\ dirty = {} /\ delivered = Delivered
  /\ proc = [p \in Procs |-> NoProcess] /\ nproc = 0
  /\ nclaim = 0
  /\ jobs = [t \in Tasks |-> NoJob]
  /\ exits = <<>>
  /\ rows = [t \in Tasks |-> NoUpdate] /\ bus = rows
  /\ mjobs = {} /\ workers = {} /\ merges = <<>> /\ failedMerge = {}
  /\ pc = "down" /\ round = 1 /\ launching = {} /\ run = NewRun
  /\ throttled = FALSE /\ deaths = 0 /\ restarts = 0

-----------------------------------------------------------------------------
(* The performer: automat/performer.sh in the task's worktree.             *)

\* ipc.rs: an event of another claim or of an older epoch is rejected (E418).
Accepted(p) ==
  /\ ~Stopped
  /\ proc[p].epoch = restarts
  /\ proc[p].claim = task[proc[p].task].claim

Post(p, u) ==
  IF Accepted(p)
  THEN /\ rows' = [rows EXCEPT ![proc[p].task] = Then(@, u)]
       /\ bus'  = [bus  EXCEPT ![proc[p].task] = Then(@, u)]
  ELSE UNCHANGED busVars

performerUnchanged == <<task, delivered, nproc, nclaim, jobs, exits, mergeVars,
                        loopVars>>

\* An attempt of the inner loop begins.
StartTool(p) ==
  /\ proc[p].st = "starting"
  /\ proc' = [proc EXCEPT ![p].st = "tool"]
  /\ Post(p, Event("running"))
  /\ UNCHANGED <<performerUnchanged, ahead, dirty, envVars>>

Heartbeat(p) ==
  /\ Aging
  /\ proc[p].st = "tool"
  /\ Accepted(p)
  /\ Post(p, Beat)
  /\ UNCHANGED <<performerUnchanged, proc, ahead, dirty, envVars>>

Leave(b, edit) ==
  /\ ahead' = IF edit = "ahead" THEN ahead \cup {b} ELSE ahead
  /\ dirty' = IF edit = "dirty" THEN dirty \cup {b} ELSE dirty

\* The performer refuses to go on when its success is not recorded.
ReportDone(p, kind) ==
  /\ Post(p, Event("phase_done"))
  /\ proc' = [proc EXCEPT
       ![p].st   = IF Accepted(p) THEN "commit" ELSE "failing",
       ![p].rep  = @ \/ Accepted(p),
       ![p].kind = IF Accepted(p) THEN kind ELSE @,
       ![p].log  = @ \cup {"done"}]

ToolChanges(p) ==
  /\ proc[p].st = "tool" /\ "changes" \in Outcomes
  /\ \E edit \in Edits \ {"none"} : Leave(proc[p].branch, edit)
  /\ ReportDone(p, "changes")
  /\ UNCHANGED <<performerUnchanged, envVars>>

\* Mutant: a success without changes is believed on its word.
ToolNoChangesUnproven(p) ==
  /\ proc[p].st = "tool" /\ "nochanges" \in Outcomes
  /\ proc[p].branch \notin dirty
  /\ Leave(proc[p].branch, "none")
  /\ ReportDone(p, "nochanges")
  /\ UNCHANGED <<performerUnchanged, envVars>>

\* completion_evidence.sh: a success without changes is backed by the commit
\* that delivered the task, or by a validation commit that makes it a change.
ToolNoChanges(p) ==
  LET b == proc[p].branch
      proven == proc[p].task \in delivered /\ b \notin ahead
  IN
  /\ proc[p].st = "tool" /\ "nochanges" \in Outcomes
  /\ b \notin dirty
  /\ Leave(b, IF proven THEN "none" ELSE "ahead")
  /\ ReportDone(p, IF proven THEN "nochanges" ELSE "changes")
  /\ UNCHANGED <<performerUnchanged, envVars>>

\* The tool exits 0 and no phase_result is sent.
ToolSilent(p) ==
  /\ proc[p].st = "tool" /\ "silent" \in Outcomes
  /\ \E edit \in Edits : Leave(proc[p].branch, edit)
  /\ proc' = [proc EXCEPT ![p].st = "commit"]
  /\ UNCHANGED <<performerUnchanged, busVars, envVars>>

\* How a failed attempt shows: the kind and code of its phase_result, the
\* marker it leaves in the log, and what it may leave in the worktree.
Failure(kind, code, log, edits) ==
  [kind |-> kind, code |-> code, log |-> log, edits |-> edits]

FailureOf(o) ==
  CASE o = "errChanges"   -> Failure(o, "retryable", {o}, Edits \ {"none"})
    [] o = "errNone"      -> Failure(o, "retryable", {o}, {"none"})
    [] o = "precond"      -> Failure(o, "fatal", {}, {"none"})
    [] o = "doneThenRate" -> Failure("none", "rate", {"done"}, Edits)
    [] o = "fail"         -> Failure("none", "retryable", {}, Edits)
    [] OTHER              -> Failure("none", o, {}, Edits)

\* The inner loop tries again, except when the tool is unavailable.
ToolFails(p) ==
  /\ proc[p].st = "tool"
  /\ \E o \in Outcomes \ {"changes", "nochanges", "silent"} :
       LET f == FailureOf(o)
           again == /\ f.code \notin {"rate", "quota"}
                    /\ proc[p].inner < InnerAttempts
       IN
       /\ \E edit \in f.edits : Leave(proc[p].branch, edit)
       /\ proc' = [proc EXCEPT
            ![p].st    = IF again THEN "starting" ELSE "failing",
            ![p].inner = IF again THEN @ + 1 ELSE @,
            ![p].rep   = @ \/ Accepted(p),
            ![p].kind  = IF Accepted(p) THEN f.kind ELSE @,
            ![p].code  = f.code,
            ![p].log   = @ \cup f.log]
  /\ Post(p, Event("failed"))
  /\ UNCHANGED <<performerUnchanged, envVars>>

FailExit(p) ==
  /\ proc[p].st = "failing"
  /\ proc' = [proc EXCEPT ![p].st = "exited"]
  /\ Post(p, Event("failed"))
  /\ UNCHANGED <<performerUnchanged, ahead, dirty, envVars>>

\* commit_changes, after the result has been reported.
Commit(p) ==
  LET b == proc[p].branch IN
  /\ proc[p].st = "commit"
  /\ proc' = [proc EXCEPT ![p].st = "exited", ![p].ok = TRUE]
  /\ ahead' = IF b \in dirty THEN ahead \cup {b} ELSE ahead
  /\ dirty' = dirty \ {b}
  /\ UNCHANGED <<performerUnchanged, busVars, envVars>>

CommitFails(p) ==
  /\ GitTrouble
  /\ proc[p].st = "commit" /\ proc[p].branch \in dirty
  /\ proc' = [proc EXCEPT ![p].st = "failing", ![p].code = "fatal"]
  /\ UNCHANGED <<performerUnchanged, ahead, dirty, busVars, envVars>>

Die(p) ==
  /\ deaths < MaxDeaths
  /\ Alive(p)
  /\ proc' = [proc EXCEPT ![p].st = "exited"]
  /\ deaths' = deaths + 1
  /\ UNCHANGED <<performerUnchanged, ahead, dirty, busVars, throttled, restarts>>

\* The stale limit is also the phase timeout: TERM to the process group.
PhaseTimeout(p) ==
  /\ StaleAction # "off"
  /\ Alive(p) /\ ~Stopped /\ proc[p].epoch = restarts
  /\ proc' = [proc EXCEPT ![p].st = "failing"]
  /\ UNCHANGED <<performerUnchanged, ahead, dirty, busVars, envVars>>

\* spawn_performer_job's thread: the process is gone, the result is decided.
SendExit(p) ==
  LET commits == proc[p].branch \in ahead
      verdict == Authority(proc[p].kind, commits, proc[p].ok)
  IN
  /\ proc[p].st = "exited" /\ ~Stopped /\ proc[p].epoch = restarts
  /\ proc' = [proc EXCEPT
       ![p].st   = "sent",
       ![p].ok   = verdict.success,
       ![p].kind = verdict.kind,
       ![p].code = IF proc[p].ok /\ ~verdict.success /\ ~proc[p].rep THEN "E901" ELSE @]
  /\ exits' = Append(exits, p)
  /\ UNCHANGED <<task, gitVars, nproc, nclaim, jobs, busVars, mergeVars, loopVars,
                 envVars>>

-----------------------------------------------------------------------------
(* Merge workers.                                                          *)

\* Mutant: a worker that fails does not answer.
FinishMergeSilent(w) ==
  /\ w \in workers /\ ~Stopped
  /\ \E how \in MergeOutcomes \cap {"ok", "conflict", "transient"} :
       /\ merges' = IF w.orphan \/ how # "ok" THEN merges
                    ELSE Append(merges, [task |-> w.task, how |-> how])
       /\ ahead' = IF how = "ok" THEN ahead \ {w.branch} ELSE ahead
       /\ delivered' = IF how = "ok" /\ w.branch \in ahead
                       THEN delivered \cup {w.task} ELSE delivered
  /\ workers' = workers \ {w}
  /\ UNCHANGED <<task, dirty, procVars, nclaim, jobs, exits, busVars, mjobs,
                 failedMerge, loopVars, envVars>>

\* merge_task_with_policy_native publishes the branch, or changes nothing.
FinishMerge(w) ==
  /\ w \in workers /\ ~Stopped
  /\ \E how \in MergeOutcomes \cap {"ok", "conflict", "transient"} :
       /\ merges' = IF w.orphan THEN merges
                    ELSE Append(merges, [task |-> w.task, how |-> how])
       /\ ahead' = IF how = "ok" THEN ahead \ {w.branch} ELSE ahead
       /\ delivered' = IF how = "ok" /\ w.branch \in ahead
                       THEN delivered \cup {w.task} ELSE delivered
  /\ workers' = workers \ {w}
  /\ UNCHANGED <<task, dirty, procVars, nclaim, jobs, exits, busVars, mjobs,
                 failedMerge, loopVars, envVars>>

\* spawn_merge_job answers for a worker that is late; the worker runs on.
MergeTimeout(w) ==
  /\ "timeout" \in MergeOutcomes
  /\ w \in workers /\ ~w.orphan /\ ~Stopped
  /\ merges' = Append(merges, [task |-> w.task, how |-> "transient"])
  /\ workers' = (workers \ {w}) \cup {[w EXCEPT !.orphan = TRUE]}
  /\ UNCHANGED <<task, gitVars, procVars, nclaim, jobs, exits, busVars, mjobs,
                 failedMerge, loopVars, envVars>>

-----------------------------------------------------------------------------
(* Blocks that dependencies impose.                                        *)

\* reconcile_task_blocks: a todo task behind a blocked one is blocked (E905),
\* and freed when nothing it waits for is blocked any more.
Upstream(reg) ==
  LET open      == {d \in Tasks : reg[d].wf # "merged"}
      roots     == {d \in Tasks : reg[d].wf = "blocked" /\ reg[d].err # "dep"}
      Closed(S) == \A t \in Tasks : Deps[t] \cap open \cap (roots \cup S) # {} => t \in S
  IN {t \in Tasks : \A S \in SUBSET Tasks : Closed(S) => t \in S}

\* Mutant: tasks are blocked with their dependencies and never freed.
ReconcileTaskBlocksForGood(reg) ==
  [t \in Tasks |->
     IF t \in Upstream(reg) /\ reg[t].wf = "todo"
     THEN [reg[t] EXCEPT !.wf = "blocked", !.rt = "failed", !.err = "dep"]
     ELSE reg[t]]

ReconcileTaskBlocks(reg) ==
  [t \in Tasks |->
     IF t \in Upstream(reg) /\ reg[t].wf = "todo"
     THEN [reg[t] EXCEPT !.wf = "blocked", !.rt = "failed", !.err = "dep"]
     ELSE IF t \notin Upstream(reg) /\ reg[t].wf = "blocked" /\ reg[t].err = "dep"
     THEN [reg[t] EXCEPT !.wf = "todo", !.rt = "idle", !.err = "none"]
     ELSE reg[t]]

\* sync_registry_from_prd_native: every run and every cycle begins with it.
SyncedRegistry == ReconcileTaskBlocks(task)

-----------------------------------------------------------------------------
(* The loop: monitoring of performers.                                     *)

Unmerged(r) == r.wt \in ahead \cup dirty

\* cleanup_dead_runtime_tasks_in_registry_with.
Ghost(r) ==
  /\ r.rt = "running" /\ r.pid # 0 /\ ~Alive(r.pid)
  /\ ~\E p \in Procs : proc[p].claim = r.claim /\ proc[p].rep
  /\ r.hb # "fresh"

Exorcised(r) ==
  IF ~Ghost(r) THEN r
  ELSE LET requeue == r.wf = "claimed" /\ ~Unmerged(r) IN
       [r EXCEPT !.pid = 0, !.rt = "stale", !.err = "other",
                 !.wf = IF requeue THEN "todo" ELSE "blocked",
                 !.wt = IF requeue THEN 0 ELSE r.wt]

\* on_cycle_start.
CleanupGhosts ==
  /\ pc = "ghosts"
  /\ task' = [t \in Tasks |-> Exorcised(SyncedRegistry[t])]
  /\ pc' = "consume"
  /\ UNCHANGED <<gitVars, procVars, nclaim, jobs, exits, busVars, mergeVars,
                 round, launching, run, envVars>>

\* consume_runtime_events: rows past the cursor, on top of what the bus holds.
ConsumeRows ==
  /\ pc = "consume"
  /\ bus'  = [t \in Tasks |-> Then(bus[t], rows[t])]
  /\ rows' = [t \in Tasks |-> NoUpdate]
  /\ pc' = "apply"
  /\ UNCHANGED <<task, gitVars, procVars, nclaim, jobs, exits, mergeVars, round,
                 launching, run, envVars>>

\* A performer the run waits for gets its phase timeout before it can be stale.
Stale(t, r) ==
  /\ StaleAction # "off" /\ r.rt = "running" /\ r.hb = "old"
  /\ ~(HasJob(t) /\ proc[jobs[t].proc].st \in {"starting", "tool", "commit"})

\* Mutant: a task to be blocked is put back to todo.
StalePolicyRequeues(t, r) ==
  IF ~Stale(t, r) THEN r
  ELSE [r EXCEPT !.rt = "idle", !.pid = 0, !.wf = "todo", !.wt = 0]

\* apply_stale_heartbeat_policy.
StalePolicy(t, r) ==
  IF ~Stale(t, r) THEN r
  ELSE IF StaleAction = "block"
       THEN [r EXCEPT !.rt = "stale", !.pid = 0, !.wf = "blocked"]
       ELSE [r EXCEPT !.rt = "idle", !.pid = 0, !.wf = "todo", !.wt = 0,
                      !.retries = IF StaleAction = "retry" THEN @ + 1 ELSE @]

\* apply_runtime_event_bus_updates, the stale policy, and force_kill_stale_failures:
\* a job that announced a failure in an earlier pass may have used up its grace.
ApplyBus ==
  LET waiting  == {t \in Tasks : HasJob(t) /\ jobs[t].signaled}
      signaled == waiting \cup {t \in Tasks : HasJob(t) /\ bus[t].fail}
  IN
  /\ pc = "apply"
  /\ task' = [t \in Tasks |-> StalePolicy(t, ApplyUpdate(task[t], bus[t]))]
  /\ bus'  = [t \in Tasks |-> NoUpdate]
  /\ \E late \in SUBSET waiting :
       /\ jobs' = [t \in Tasks |->
                     IF t \in signaled THEN [jobs[t] EXCEPT !.signaled = t \notin late]
                                       ELSE jobs[t]]
       /\ proc' = [p \in Procs |->
                     IF Alive(p) /\ p \in {jobs[t].proc : t \in late}
                     THEN [proc[p] EXCEPT !.st = "exited"] ELSE proc[p]]
  /\ pc' = "exits"
  /\ UNCHANGED <<gitVars, nproc, nclaim, exits, rows, mergeVars, round, launching,
                 run, envVars>>

\* The registry after the completion of t has been applied.
Completed(t, r) == ReconcileTaskBlocks([task EXCEPT ![t] = r])

\* An exit event is matched to a job by its task; without one it is dropped.
DropExit ==
  /\ pc = "exits" /\ exits # <<>>
  /\ LET p == Head(exits) IN
     /\ ~HasJob(proc[p].task)
     /\ proc' = [proc EXCEPT ![p] = Forgotten(p)]
  /\ exits' = Tail(exits)
  /\ UNCHANGED <<task, gitVars, nproc, nclaim, jobs, busVars, mergeVars, loopVars,
                 envVars>>

\* apply_job_completion_in_registry: what may be decided for the exit of p. The
\* explanation it carries and the health of the worktree are not modelled.
ExitOf(p, expl) ==
  [success |-> proc[p].ok, kind |-> proc[p].kind, code |-> proc[p].code,
   log |-> proc[p].log, expl |-> expl]

Decision(t, p, expl, healthy) ==
  ResolveRetryStrategy(task[t], ExitOf(p, expl), jobs[t].attempt, task[t].wt \in ahead,
                       healthy)

Decisions(t, p) ==
  {Decision(t, p, expl, healthy) :
     expl \in Explanations, healthy \in {h \in BOOLEAN : h \/ GitTrouble}}

\* requires_integrity_pause: commits that no recorded result speaks for.
Unaccounted(t, p) ==
  /\ proc[p].code = "E901" /\ ~proc[p].ok
  /\ proc[jobs[t].proc].branch \in ahead

ExitTaken(t, p) ==
  /\ pc = "exits" /\ exits # <<>>
  /\ p = Head(exits) /\ t = proc[p].task
  /\ HasJob(t)
  /\ exits' = Tail(exits)

TakeExit(t, p) ==
  /\ ExitTaken(t, p)
  /\ ~Unaccounted(t, p)
  /\ \E s \in Decisions(t, p) :
       /\ s.do # "attempt"
       /\ task' = Completed(t, ApplyStrategy(task[t], s, proc[p].code))
       /\ throttled' = (throttled \/ s.do = "avail")
  /\ jobs' = [jobs EXCEPT ![t] = NoJob]
  /\ proc' = [proc EXCEPT ![p] = Forgotten(p)]
  /\ rows' = [rows EXCEPT ![t] = Then(@, Beat)]
  /\ UNCHANGED <<gitVars, nproc, nclaim, bus, mergeVars, loopVars, deaths, restarts>>

\* on_integrity_pause: the rest of the pass waits for an operator.
PauseOnExit(t, p) ==
  /\ ExitTaken(t, p)
  /\ Unaccounted(t, p)
  /\ \E s \in Decisions(t, p) :
       task' = Completed(t, ApplyStrategy(task[t], s, proc[p].code))
  /\ jobs' = [jobs EXCEPT ![t] = NoJob]
  /\ proc' = [proc EXCEPT ![p] = Forgotten(p)]
  /\ pc' = "review"
  /\ UNCHANGED <<gitVars, nproc, nclaim, busVars, mergeVars, round, launching, run,
                 envVars>>

\* salvage_check_typed looks at the last branch before the current one.
SalvageBranch(r) == IF r.last # 0 THEN r.last ELSE r.wt

Salvage(t, p) ==
  LET r == ApplyStrategy(task[t], Strategy("attempt", TRUE, "none"), proc[p].code)
      b == SalvageBranch(r)
  IN
  /\ ExitTaken(t, p)
  /\ ~Unaccounted(t, p)
  /\ \E s \in Decisions(t, p) : s.do = "attempt"
  /\ b \in ahead /\ "ok" \in MergeOutcomes
  /\ ahead' = ahead \ {b} /\ delivered' = delivered \cup {t}
  /\ task' = [Completed(t, r) EXCEPT ![t].wf = "merged", ![t].rt = "idle", ![t].pid = 0]
  /\ jobs' = [jobs EXCEPT ![t] = NoJob]
  /\ proc' = [proc EXCEPT ![p] = Forgotten(p)]
  /\ rows' = [rows EXCEPT ![t] = Then(@, Beat)]
  /\ UNCHANGED <<dirty, nproc, nclaim, bus, mergeVars, loopVars, envVars>>

\* The next attempt of the claim, in the same worktree; its pid is not recorded.
Respawn(t, p) ==
  LET r == ApplyStrategy(task[t], Strategy("attempt", TRUE, "none"), proc[p].code)
      q == nproc + 1
  IN
  /\ ExitTaken(t, p)
  /\ ~Unaccounted(t, p)
  /\ \E s \in Decisions(t, p) : s.do = "attempt"
  /\ SalvageBranch(r) \notin ahead \/ MergeOutcomes \cap {"conflict", "transient"} # {}
  /\ q \in Procs
  /\ task' = Completed(t, r)
  /\ nproc' = q
  /\ proc' = [proc EXCEPT
       ![p] = Forgotten(p),
       ![q] = NewProcess(t, r.claim, proc[jobs[t].proc].branch, restarts)]
  /\ jobs' = [jobs EXCEPT ![t] = NewJob(q, @.attempt + 1)]
  /\ rows' = [rows EXCEPT ![t] = Then(@, Beat)]
  /\ UNCHANGED <<gitVars, nclaim, bus, mergeVars, loopVars, envVars>>

ExitsDone ==
  /\ pc = "exits" /\ exits = <<>>
  /\ pc' = "merges"
  /\ UNCHANGED <<task, gitVars, procVars, nclaim, jobs, exits, busVars, mergeVars,
                 round, launching, run, envVars>>

\* The operator removes the pause file; the task is left as it is.
OperatorReviews ==
  /\ pc = "review"
  /\ pc' = "merges"
  /\ UNCHANGED <<task, gitVars, procVars, nclaim, jobs, exits, busVars, mergeVars,
                 round, launching, run, envVars>>

-----------------------------------------------------------------------------
(* The loop: merge results, phases, dispatch.                              *)

AfterMerges ==
  CASE round = 1 -> "advance" [] round = 2 -> "dispatch" [] round = 3 -> "end"

\* A result the machine cannot place aborts the run.
TakeMergeResult ==
  /\ pc = "merges" /\ merges # <<>>
  /\ LET m == Head(merges) IN
     /\ mjobs' = mjobs \ {m.task}
     /\ IF MergeResultApplies(task[m.task], m.how = "ok")
        THEN /\ task' = Completed(m.task, ApplyMergeResult(task[m.task], m.how = "ok"))
             /\ failedMerge' = IF m.how = "ok" THEN failedMerge ELSE {m}
             /\ UNCHANGED <<pc, proc>>
        ELSE /\ pc' = "failed" /\ proc' = Terminated
             /\ UNCHANGED <<task, failedMerge>>
  /\ merges' = Tail(merges)
  /\ UNCHANGED <<gitVars, nproc, nclaim, jobs, exits, busVars, workers, round,
                 launching, run, envVars>>

\* on_blocked_merge is told of the last failure only. A transient one sends the
\* task back to the merge queue.
MergesDone ==
  /\ pc = "merges" /\ merges = <<>>
  /\ \A m \in failedMerge : m.how = "transient"
  /\ task' = [t \in Tasks |-> IF t \in {m.task : m \in failedMerge}
                              THEN ResumeMerge(task[t]) ELSE task[t]]
  /\ failedMerge' = {}
  /\ pc' = AfterMerges
  /\ UNCHANGED <<gitVars, procVars, nclaim, jobs, exits, busVars, mjobs, workers,
                 merges, round, launching, run, envVars>>

\* A conflict stops every performer of the run and waits for an operator. Merge
\* workers are threads: aborting their tasks only makes them orphans.
PauseOnConflict ==
  /\ pc = "merges" /\ merges = <<>>
  /\ \E m \in failedMerge :
       /\ m.how = "conflict"
       /\ task' = [task EXCEPT ![m.task].rt = "paused"]
  /\ proc' = Terminated
  /\ mjobs' = {}
  /\ workers' = {[w EXCEPT !.orphan = TRUE] : w \in workers}
  /\ pc' = "paused"
  /\ UNCHANGED <<gitVars, nproc, nclaim, jobs, exits, busVars, merges, failedMerge,
                 round, launching, run, envVars>>

OperatorResumes ==
  /\ pc = "paused"
  /\ task' = [t \in Tasks |-> IF t \in {m.task : m \in failedMerge}
                              THEN ResumeMerge(task[t]) ELSE task[t]]
  /\ failedMerge' = {}
  /\ pc' = AfterMerges
  /\ UNCHANGED <<gitVars, procVars, nclaim, jobs, exits, busVars, mjobs, workers,
                 merges, round, launching, run, envVars>>

\* build_advance_actions: a delayed task is left alone.
Plan(t) ==
  IF task[t].delay /\ throttled THEN [kind |-> "noop"] ELSE PlanAdvance(task[t])
Planned(kind) == {t \in Tasks : Plan(t).kind = kind}

\* A phase needs the worktree, a review a clean one with commits to look at; only
\* a review asks for changes.
OutcomesOf(t) ==
  LET r == task[t]
      review == Plan(t).mode = "review"
  IN IF r.wt = 0 \/ (review /\ (r.wt \in dirty \/ r.wt \notin ahead)) THEN {"failed"}
     ELSE IF review THEN PhaseOutcomes ELSE PhaseOutcomes \ {"changes"}

AfterPhase(t, outcome) ==
  IF outcome = "unavailable" THEN ApplyToolUnavailable(task[t])
                             ELSE ApplyPhaseOutcome(task[t], Plan(t), outcome)

FixPhase == Phase("fix", "in_progress")

\* Mutant: a merge of another task is no reason to wait.
MergeableAlways == {t \in Planned("merge") \ mjobs : task[t].wt # 0}

\* One merge at a time, of a task that has a branch.
Mergeable ==
  IF mjobs # {} THEN {} ELSE {t \in Planned("merge") : task[t].wt # 0}

\* advance_tasks_native: every task waiting between phases takes its next step,
\* and one merge is started when none runs. A task ready to merge without a
\* branch fails the merge; one that spent its reviews fails its fix.
Advance ==
  /\ pc = "advance"
  /\ \E outcome \in [Planned("phase") -> PhaseOutcomes \cup {"failed"}] :
       /\ \A t \in Planned("phase") : outcome[t] \in OutcomesOf(t)
       /\ task' = [t \in Tasks |->
            CASE Plan(t).kind = "phase"     -> AfterPhase(t, outcome[t])
              [] Plan(t).kind = "exhausted" -> ApplyPhaseOutcome(task[t], FixPhase, "failed")
              [] Plan(t).kind = "merge" /\ task[t].wt = 0 /\ t \notin mjobs ->
                   ApplyMergeResult(task[t], FALSE)
              [] OTHER -> task[t]]
       /\ throttled' = (throttled \/ \E t \in Planned("phase") : outcome[t] = "unavailable")
  /\ IF Mergeable = {} THEN UNCHANGED <<mjobs, workers>>
     ELSE \E t \in Mergeable :
            /\ mjobs' = mjobs \cup {t}
            /\ workers' = workers \cup
                 {[task |-> t, branch |-> task[t].wt, orphan |-> FALSE]}
  /\ round' = 2 /\ pc' = "consume"
  /\ UNCHANGED <<gitVars, procVars, nclaim, jobs, exits, busVars, merges, failedMerge,
                 launching, run, deaths, restarts>>

\* Mutant: a dependency counts as ready once it has been taken up.
ReadyEarly(t) ==
  /\ task[t].wf = "todo"
  /\ Attached(task[t]) => MayResume(task[t])
  /\ \A d \in Deps[t] : task[d].wf # "todo"
  /\ ~throttled

\* select_next_ready_task_typed, with one tool.
Ready(t) ==
  /\ task[t].wf = "todo"
  /\ Attached(task[t]) => MayResume(task[t])
  /\ \A d \in Deps[t] : task[d].wf = "merged"
  /\ ~throttled

\* Mutant: only the states of the tasks are counted, not the jobs still open.
CanDispatchJobsUncounted(t) ==
  /\ run.dispatched < MaxDispatch
  /\ Cardinality({u \in Tasks : IsActive(task[u])}) < MaxParallel
  /\ Ready(t)

CanDispatch(t) ==
  /\ run.dispatched < MaxDispatch
  /\ Cardinality({u \in Tasks : HasJob(u)}) < MaxParallel
  /\ Cardinality({u \in Tasks : IsActive(task[u])}) < MaxParallel
  /\ Ready(t)

\* Mutant: only a worktree the task kept is claimed.
WorktreeForClaimKept(t, c) == task[t].wt

\* acquire_worktree_for_dispatch: the worktree the task kept, or one on a new branch.
WorktreeForClaim(t, c) == IF Attached(task[t]) THEN task[t].wt ELSE c

\* claim_task_in_registry: the claim is saved before the performer is started.
Claim(t) ==
  LET c == nclaim + 1 IN
  /\ pc = "dispatch"
  /\ CanDispatch(t) /\ c \in Branches
  /\ nclaim' = c
  /\ task' = [task EXCEPT ![t] =
                ApplyDispatchClaim(@, c, WorktreeForClaim(t, c))]
  /\ launching' = {t}
  /\ pc' = "launch"
  /\ UNCHANGED <<gitVars, procVars, jobs, exits, busVars, mergeVars, round, run,
                 envVars>>

Spawned(t) == [proc EXCEPT ![nproc + 1] = NewProcess(t, task[t].claim, task[t].wt, restarts)]

Launch(t) ==
  LET p == nproc + 1 IN
  /\ pc = "launch" /\ t \in launching /\ p \in Procs
  /\ nproc' = p
  /\ proc' = Spawned(t)
  /\ task' = [task EXCEPT ![t] = ApplyDispatchPid(@, p)]
  /\ jobs' = [jobs EXCEPT ![t] = NewJob(p, 1)]
  /\ rows' = [rows EXCEPT ![t] = Then(@, Beat)]
  /\ run' = [run EXCEPT !.dispatched = @ + 1]
  /\ launching' = {}
  /\ pc' = "dispatch"
  /\ UNCHANGED <<gitVars, nclaim, exits, bus, mergeVars, round, envVars>>

\* No worktree for a claim, or none fit to launch in: the run ends with an error
\* and the claim stays.
DispatchFails ==
  /\ GitTrouble
  /\ pc = "launch" \/ (pc = "dispatch" /\ \E t \in Tasks : CanDispatch(t))
  /\ pc' = "failed" /\ proc' = Terminated
  /\ launching' = {}
  /\ UNCHANGED <<task, gitVars, nproc, nclaim, jobs, exits, busVars, mergeVars, round,
                 run, envVars>>

\* The performer is started, and its pid cannot be saved: no job waits for it.
LaunchLost(t) ==
  /\ StorageTrouble
  /\ pc = "launch" /\ t \in launching /\ nproc + 1 \in Procs
  /\ nproc' = nproc + 1
  /\ proc' = Spawned(t)
  /\ launching' = {}
  /\ pc' = "ghosts" /\ round' = 1
  /\ UNCHANGED <<task, gitVars, nclaim, jobs, exits, busVars, mergeVars, run, envVars>>

\* A transient error (MaccError::is_transient) starts the cycle over, the fifth in a
\* row ends the run. What the step had taken from a queue or the bus is gone.
StorageFails ==
  LET lost == IF pc = "exits" /\ exits # <<>> THEN {proc[Head(exits)].task} ELSE {} IN
  /\ StorageTrouble
  /\ pc \in {"ghosts", "consume", "apply", "exits", "merges", "advance", "dispatch"}
  /\ bus'    = IF pc = "apply" THEN [t \in Tasks |-> NoUpdate] ELSE bus
  /\ exits'  = IF lost # {} THEN Tail(exits) ELSE exits
  /\ jobs'   = [t \in Tasks |-> IF t \in lost THEN NoJob ELSE jobs[t]]
  /\ merges' = IF pc = "merges" /\ merges # <<>> THEN Tail(merges) ELSE merges
  /\ mjobs'  = IF merges' = merges THEN mjobs ELSE mjobs \ {Head(merges).task}
  /\ failedMerge' = {}
  /\ pc' \in {"ghosts", "failed"} /\ round' = 1
  /\ proc' = IF pc' = "failed" THEN Terminated ELSE proc
  /\ UNCHANGED <<task, gitVars, nproc, nclaim, rows, workers, launching, run, envVars>>

DispatchDone ==
  /\ pc = "dispatch"
  /\ ~\E t \in Tasks : CanDispatch(t)
  /\ round' = 3 /\ pc' = "merges"
  /\ UNCHANGED <<task, gitVars, procVars, nclaim, jobs, exits, busVars, mergeVars,
                 launching, run, envVars>>

Todo    == Cardinality({t \in Tasks : task[t].wf = "todo"})
Active  == Cardinality({t \in Tasks : CountedActive(task[t])})
Blocked == Cardinality({t \in Tasks : task[t].wf = "blocked"})

DispatchLimitReached ==
  /\ run.dispatched >= MaxDispatch
  /\ Active = 0 /\ mjobs = {}
  /\ \A t \in Tasks : ~HasJob(t)

\* The registry has been seen like this by the cycle before, with nothing active.
Stalls ==
  IF Active = 0 /\ ~(Todo > 0 /\ throttled) /\ run.seen = <<Todo, Active, Blocked>>
  THEN run.stall + 1 ELSE 0

\* on_cycle_end, should_terminate_run, on_cycle_counts_with.
EndCycle ==
  /\ pc = "end"
  /\ pc' = CASE DispatchLimitReached -> "complete"
             [] ~DispatchLimitReached /\ Todo = 0 /\ Active = 0 ->
                  IF Blocked > 0 THEN "failed" ELSE "complete"
             [] ~DispatchLimitReached /\ Todo + Active > 0 ->
                  IF Stalls >= StallLimit THEN "failed" ELSE "ghosts"
  /\ proc' = IF pc' = "failed" THEN Terminated ELSE proc
  /\ run' = [run EXCEPT !.stall = Stalls, !.seen = <<Todo, Active, Blocked>>]
  /\ round' = 1
  /\ UNCHANGED <<task, gitVars, nproc, nclaim, jobs, exits, busVars, mergeVars,
                 launching, envVars>>

-----------------------------------------------------------------------------
(* Crashes, and the start of a run.                                        *)

Crash ==
  /\ restarts < MaxRestarts
  /\ ~Stopped
  /\ pc' = "down"
  /\ UNCHANGED <<task, gitVars, procVars, nclaim, jobs, exits, busVars, mergeVars,
                 round, launching, run, envVars>>

\* coordinator_sync_prd: what the base branch already has is merged.
Synced(t, r) ==
  IF t \in delivered /\ (IsActive(r) \/ r.wf = "todo")
  THEN [r EXCEPT !.wf = "merged", !.rt = "idle", !.pid = 0, !.wt = 0]
  ELSE r

Requeued(r) == [r EXCEPT !.wf = "todo", !.rt = "idle", !.wt = 0]

\* classify_parked_todo_task: a todo task that can never be resumed.
SweepParked(r) ==
  IF ~Attached(r) \/ MayResume(r) THEN r
  ELSE IF Unmerged(r) THEN [r EXCEPT !.wf = "blocked", !.err = "other"]
  ELSE Requeued(r)

\* Mutant: whoever has a pid is sent back to resume in its worktree.
SweptBlind(r) ==
  IF r.wf = "todo" THEN SweepParked(r)
  ELSE IF ~IsActive(r) /\ r.wf # "blocked" THEN r
  ELSE IF r.pid = 0 THEN Requeued(r)
  ELSE [r EXCEPT !.wf = "todo", !.rt = "failed"]

\* Mutant: commits ahead of the base branch are taken for commits on it.
SweptCommitsMerged(r) ==
  IF r.wf = "todo" THEN SweepParked(r)
  ELSE IF ~IsActive(r) /\ r.wf # "blocked" THEN r
  ELSE IF r.wt \in ahead THEN [r EXCEPT !.wf = "merged", !.rt = "idle", !.wt = 0]
  ELSE IF r.pid = 0 THEN Requeued(r) ELSE r

\* execute_startup_recovery_sweep.
Swept(r) ==
  IF r.wf = "todo" THEN SweepParked(r)
  ELSE IF Attached(r) /\ r.rt = "phase_done" /\ r.handoff THEN r
  ELSE IF ~IsActive(r) /\ r.wf # "blocked" THEN r
  ELSE IF r.pid = 0 THEN Requeued(r)
  ELSE IF Alive(r.pid)
       THEN IF r.hb = "old" THEN [r EXCEPT !.rt = "stale", !.err = "other"] ELSE r
  ELSE IF r.wt \in ahead THEN [r EXCEPT !.rt = "phase_done"]
  ELSE IF r.wt \in dirty THEN [r EXCEPT !.wf = "blocked", !.err = "other"]
  ELSE [Requeued(r) EXCEPT !.err = "other"]

\* A run starts from the registry, the event rows and git: blocks, sync with the base
\* branch, ghost cleanup, replay of the rows, recovery sweep.
Startup(t) ==
  Swept(ApplyUpdate(Exorcised(Synced(t, SyncedRegistry[t])), rows[t]))

Start ==
  /\ Stopped
  /\ (pc = "down" /\ nclaim = 0) \/ restarts < MaxRestarts
  /\ restarts' = IF nclaim = 0 THEN restarts ELSE restarts + 1
  /\ task' = [t \in Tasks |-> Startup(t)]
  /\ rows' = [t \in Tasks |-> NoUpdate] /\ bus' = rows'
  /\ proc' = [p \in Procs |->
                IF proc[p].st \in {"exited", "sent"} THEN Forgotten(p)
                ELSE proc[p]]
  /\ jobs' = [t \in Tasks |-> NoJob] /\ exits' = <<>>
  /\ mjobs' = {} /\ workers' = {} /\ merges' = <<>> /\ failedMerge' = {}
  /\ launching' = {} /\ run' = NewRun
  /\ pc' = "ghosts" /\ round' = 1
  /\ UNCHANGED <<gitVars, nproc, nclaim, throttled, deaths>>

-----------------------------------------------------------------------------
(* Time.                                                                   *)

HeartbeatAges(t) ==
  /\ Aging
  /\ task[t].hb = "fresh"
  /\ task' = [task EXCEPT ![t].hb = "old"]
  /\ UNCHANGED <<gitVars, procVars, nclaim, jobs, exits, busVars, mergeVars,
                 loopVars, envVars>>

ThrottleExpires ==
  /\ throttled
  /\ throttled' = FALSE
  /\ UNCHANGED <<task, gitVars, procVars, nclaim, jobs, exits, busVars, mergeVars,
                 loopVars, deaths, restarts>>

-----------------------------------------------------------------------------
Performer(p) ==
  \/ StartTool(p) \/ ToolChanges(p) \/ ToolNoChanges(p) \/ ToolSilent(p)
  \/ ToolFails(p) \/ FailExit(p) \/ Commit(p) \/ CommitFails(p) \/ SendExit(p)

Monitor ==
  \/ CleanupGhosts \/ ConsumeRows \/ ApplyBus \/ DropExit \/ ExitsDone
  \/ \E t \in Tasks, p \in Procs :
       TakeExit(t, p) \/ PauseOnExit(t, p) \/ Salvage(t, p) \/ Respawn(t, p)

Loop ==
  \/ Monitor
  \/ TakeMergeResult \/ MergesDone \/ PauseOnConflict
  \/ Advance
  \/ \E t \in Tasks : Claim(t) \/ Launch(t)
  \/ DispatchDone \/ EndCycle

MergeWorker == \E w \in workers : FinishMerge(w) \/ MergeTimeout(w)

Operator == OperatorReviews \/ OperatorResumes

Environment ==
  \/ \E p \in Procs : Heartbeat(p) \/ PhaseTimeout(p) \/ Die(p)
  \/ \E t \in Tasks : HeartbeatAges(t) \/ LaunchLost(t)
  \/ ThrottleExpires
  \/ DispatchFails \/ StorageFails
  \/ Crash

Next ==
  \/ Start
  \/ Loop
  \/ \E p \in Procs : Performer(p)
  \/ MergeWorker
  \/ Operator
  \/ Environment

Spec == Init /\ [][Next]_vars

\* What must happen if it can: the loop's next step, a performer's, a merge's, the
\* end of a cool-down. Nothing is asked of operators, crashes or restarts.
Fairness ==
  /\ WF_vars(pc = "down" /\ nclaim = 0 /\ Start)
  /\ WF_vars(Loop)
  /\ \A p \in Procs : WF_vars(Performer(p))
  /\ WF_vars(MergeWorker)
  /\ WF_vars(ThrottleExpires)

FairSpec == Spec /\ Fairness

-----------------------------------------------------------------------------
(* Properties.                                                             *)

GitOK ==
  /\ ahead \subseteq Branches /\ dirty \subseteq Branches
  /\ delivered \subseteq Tasks

ProcOK ==
  /\ proc \in [Procs -> Process]
  /\ nproc \in 0..MaxSpawns /\ nclaim \in 0..MaxClaims
  /\ jobs \in [Tasks -> Job]
  /\ exits \in Seq(Procs)

BusOK == rows \in [Tasks -> Update] /\ bus \in [Tasks -> Update]

MergeOK ==
  /\ mjobs \subseteq Tasks /\ workers \subseteq MergeJob
  /\ merges \in Seq(MergeResult) /\ failedMerge \subseteq MergeResult

LoopOK ==
  /\ pc \in {"ghosts", "consume", "apply", "exits", "review", "merges", "paused",
             "advance", "dispatch", "launch", "end", "complete", "failed", "down"}
  /\ round \in 1..3
  /\ launching \subseteq Tasks
  /\ run \in [dispatched : Nat, stall : Nat, seen : {<<>>} \cup (Nat \X Nat \X Nat)]

EnvOK ==
  /\ throttled \in BOOLEAN
  /\ deaths \in 0..MaxDeaths /\ restarts \in 0..MaxRestarts

\* The variables hold what their declarations say.
TypeOK ==
  /\ task \in [Tasks -> Task]
  /\ GitOK /\ ProcOK /\ BusOK /\ MergeOK /\ LoopOK /\ EnvOK

\* The control plane keeps the promise of module Backlog: whatever exits, reports,
\* merges and recoveries do to a record, work starts only after its dependencies
\* and a task is closed only when its work is on the base branch.
Standing(r) ==
  CASE r.wf = "todo"   -> "waiting"
    [] r.wf = "merged" -> "merged"
    [] r.wf \in Parked -> "stuck"
    [] OTHER           -> "working"

Promise == INSTANCE Backlog WITH
  state <- [t \in Tasks |-> Standing(task[t])], published <- delivered

KeepsPromise == Promise!Spec

\* A merged task names no branch whose commits the base branch lacks: closing a
\* task never strands a part of its work.
MergedIsIntegrated ==
  \A t \in Tasks : task[t].wf = "merged" => task[t].wt \notin ahead

\* A branch with unmerged commits is named by some task, as its worktree or as the
\* branch it was last assigned: no step makes committed work impossible to find.
CommitsKept ==
  \A b \in ahead : \E t \in Tasks : b \in {task[t].wt, task[t].last}

\* Two performers never work in one worktree, not even one that survived an
\* earlier run or an earlier claim.
WorktreeExclusive ==
  \A p, q \in Procs :
    Alive(p) /\ Alive(q) /\ proc[p].branch = proc[q].branch => p = q

\* Work goes on in a worktree, never in the repository root: a performer that runs
\* has a branch, and so have the process a job waits for (the next attempt is started
\* there) and a task whose performer is about to be started.
WorkAssigned ==
  /\ \A p \in Procs : Busy(proc[p]) => proc[p].branch \in Branches
  /\ \A t \in Tasks : HasJob(t) =>
       jobs[t].proc \in Procs /\ proc[jobs[t].proc].branch \in Branches
  /\ launching # {} => pc = "launch" \/ Stopped
  /\ \A t \in launching : task[t].wt \in Branches

\* The run waits for every performer it started, so that each exit is handled. It
\* takes the job count to hold: a task may be ready again before its exit is read.
PerformersTracked ==
  ~Stopped => \A p \in Procs :
    Alive(p) /\ proc[p].epoch = restarts => jobs[proc[p].task].proc = p

\* At the end of a cycle a task that counts as active is either worked on or can be
\* advanced. An active task that is neither keeps the run from ever ending.
NoLostTask ==
  pc = "end" => \A t \in Tasks :
    CountedActive(task[t]) => HasJob(t) \/ PlanAdvance(task[t]).kind # "noop"

\* A task marked for a retry in its worktree can be selected for that retry.
RetryCanResume ==
  \A t \in Tasks : AwaitingSameWorktreeRetry(task[t]) => MayResume(task[t])

\* A task is blocked for its dependencies only while one of them is not merged.
DepBlockedHasReason ==
  \A t \in Tasks : task[t].wf = "blocked" /\ task[t].err = "dep" =>
    \E d \in Deps[t] : task[d].wf # "merged"

\* The retry counter of a task never exceeds the larger of the two budgets it is
\* held against, whichever mix of reports, exits and recoveries raises it.
RetriesBounded ==
  \A t \in Tasks :
    task[t].retries <= IF AutoRetryMax > MaxAttempts THEN AutoRetryMax ELSE MaxAttempts

\* No task is reviewed more often than max_review_cycles allows.
ReviewsBounded == ReviewsCapped => \A t \in Tasks : task[t].reviews <= MaxReviewCycles

\* Merges share the repository: at most one worker is running, late ones included.
OneMerge == Cardinality(workers) <= 1

\* A merge the run waits for will be answered: a worker that reports runs, or its
\* result is on the way.
MergesAnswered ==
  ~Stopped => \A t \in mjobs :
    \/ \E w \in workers : w.task = t /\ ~w.orphan
    \/ \E i \in DOMAIN merges : merges[i].task = t

\* A run comes to an end or waits for an operator, unless its tools keep being
\* unavailable.
RunEnds ==
  \/ []<>throttled
  \/ ~Stopped ~> (Stopped \/ pc \in {"paused", "review"})

\* With agents that deliver and merges that succeed, every task is merged, whatever
\* reviews ask for.
AllMerged == <>(\A t \in Tasks : task[t].wf = "merged")
=============================================================================
