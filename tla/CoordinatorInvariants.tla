----------------------- MODULE CoordinatorInvariants -----------------------
(***************************************************************************)
(* Why the control plane keeps its promise: the invariants the proofs of   *)
(* module PromiseProofs rest on, from the numbering of claims up to what   *)
(* is on the base branch when a task is closed.                            *)
(***************************************************************************)
EXTENDS Coordinator

\* The settings a fresh configuration has, or those with the stale policy in force (it is
\* "block", and does nothing until stale_in_progress_seconds is set) within one run; and
\* an agent that does not announce success in an attempt that ends in a rate limit.
Default ==
  /\ MaxAttempts = 1
  /\ StaleAction = "off" \/ (StaleAction = "block" /\ MaxRestarts = 0)
  /\ "doneThenRate" \notin Outcomes

\* No restart, a git that works, and no tool that says it failed without a change: an
\* earlier attempt of the performer may have committed one.
Undisturbed == MaxRestarts = 0 /\ ~GitTrouble /\ "errNone" \notin Outcomes

-----------------------------------------------------------------------------
(* Lawful: what the workflow state of a task says about its claim and job. *)

\* States of a task that may hold a pid or a job.
Workable == {"todo", "claimed", "blocked"}

\* States of a task that may never have been claimed.
Unclaimed == {"todo", "blocked", "merged"}

ClaimsAreLawful ==
  \A t \in Tasks :
    /\ task[t].claim # 0 => \A d \in Deps[t] : task[d].wf = "merged"
    /\ task[t].wf \notin Unclaimed => task[t].claim # 0
    /\ task[t].wf \notin Workable => task[t].pid = 0 /\ ~HasJob(t)
    /\ HasJob(t) => task[t].claim # 0 /\ jobs[t].attempt >= 1

LaunchesAreClaimed ==
  pc = "launch" => \A t \in launching : task[t].wf = "claimed"

FailedMergesAreParked ==
  ~Stopped => \A m \in failedMerge :
    /\ pc \in {"merges", "paused"}
    /\ task[m.task].wf \in {"todo", "blocked"}
    /\ task[m.task].claim # 0 /\ ~HasJob(m.task)

Lawful == ClaimsAreLawful /\ LaunchesAreClaimed /\ FailedMergesAreParked

-----------------------------------------------------------------------------
(* Numbered and owned: a process is known by its claim, a branch by its    *)
(* task.                                                                   *)

Started(p) == proc[p].st # "none"

\* A branch the task, one of its processes or a worker that merges it knows of.
Holds(t, b) ==
  /\ b # 0
  /\ \/ b \in {task[t].wt, task[t].last}
     \/ \E p \in Procs : Started(p) /\ proc[p].task = t /\ proc[p].branch = b
     \/ \E w \in workers : w.task = t /\ w.branch = b

Owned ==
  \A t \in Tasks, b \in Branches : Holds(t, b) =>
    /\ b <= nclaim
    /\ \A u \in Tasks : Holds(u, b) => u = t

ProcessNumbered(p) ==
  LET r == task[proc[p].task] IN
  /\ p <= nproc
  /\ proc[p].branch # 0
  /\ proc[p].claim # 0 /\ proc[p].claim <= r.claim
  /\ proc[p].epoch <= restarts
  /\ proc[p].claim = r.claim => r.wt \in {0, proc[p].branch}

OneProcessPerClaim ==
  \A p, q \in Procs :
    Started(p) /\ Started(q) /\ proc[p].claim = proc[q].claim => p = q

RecordNumbered(r) ==
  /\ r.claim <= nclaim
  /\ r.pid # 0 => Started(r.pid) /\ proc[r.pid].claim = r.claim

LaunchNumbered(t) ==
  /\ task[t].claim = nclaim /\ nclaim # 0 /\ task[t].pid = 0
  /\ \A p \in Procs : Started(p) => proc[p].claim # nclaim

Numbered ==
  /\ \A p \in Procs : Started(p) => ProcessNumbered(p)
  /\ OneProcessPerClaim
  /\ \A t \in Tasks : RecordNumbered(task[t])
  /\ pc = "launch" => \A t \in launching : LaunchNumbered(t)

-----------------------------------------------------------------------------
(* Settled: a task that is not at work has nobody who could still be heard *)
(* of, or who works in its worktree.                                       *)

\* A process of the current run whose exit has not been dealt with.
Unsettled(p) ==
  /\ ~Stopped /\ proc[p].epoch = restarts
  /\ proc[p].st \in {"starting", "tool", "failing", "commit", "exited", "sent"}

\* ... and who may still report, or already has.
Engaged(p) == Unsettled(p) /\ (proc[p].rep \/ Busy(proc[p]))

\* Nothing runs before a task has been claimed.
NobodyYet == nclaim = 0 => \A p \in Procs : ~Started(p)

AtWork(r) == r.wf = "claimed" \/ (r.wf = "blocked" /\ r.err # "dep")

Deserted(t) ==
  \A p \in Procs : proc[p].task = t /\ Busy(proc[p]) => proc[p].branch # task[t].wt

Quiet(t) ==
  /\ \A p \in Procs : proc[p].task = t => ~Engaged(p)
  /\ Deserted(t)

Latest ==
  \A p, q \in Procs :
    /\ Busy(proc[p]) /\ Started(q) /\ p # q
    /\ proc[p].branch = proc[q].branch
    => proc[q].claim < proc[p].claim

\* Exits to be read are of this run, and each is there once.
Posted ==
  /\ \A i \in DOMAIN exits :
       proc[exits[i]].st = "sent" /\ proc[exits[i]].epoch = restarts
  /\ \A i, j \in DOMAIN exits : exits[i] = exits[j] => i = j

Settled ==
  /\ \A t \in Tasks : AtWork(task[t]) \/ Quiet(t)
  /\ \A p \in Procs : Engaged(p) => proc[p].claim = task[proc[p].task].claim
  /\ pc = "launch" => \A t \in launching : Deserted(t)
  /\ ~Stopped => \A m \in failedMerge : Quiet(m.task)

\* What a process may have told, and left in its log, by the state it is in.
Told(q) ==
  /\ q.st \in {"none", "starting", "tool"} =>
       /\ q.kind \notin {"changes", "nochanges"} /\ ~q.ok
       /\ "done" \notin q.log /\ q.code # "rate"
  /\ "done" \in q.log => q.code # "rate"
  /\ q.kind # "none" => q.rep
  /\ q.st = "sent" /\ q.ok => q.kind # "none"

Reports ==
  \A p \in Procs :
    /\ Told(proc[p])
    /\ Unsettled(p) /\ ~proc[p].rep =>
         proc[p].log = {} /\ proc[p].code \in {"fatal", "E901"}

-----------------------------------------------------------------------------
(* Hushed: no event says that a performer runs on a task past its work, so *)
(* that the task cannot go stale.                                          *)

PastWork(r) == r.wf \in MergeSources \cup {"merged"}

\* What has been reported of t, and not been applied, does not end in "running".
Silent(t) == rows[t].st # "running" /\ bus[t].st # "running"

Hushed ==
  /\ \A t \in Tasks : PastWork(task[t]) => task[t].rt # "running" /\ Silent(t)
  /\ ~Stopped => \A m \in failedMerge : Silent(m.task)
  /\ \A p \in Procs :
       Unsettled(p) /\ proc[p].kind \in {"changes", "nochanges"} => Silent(proc[p].task)
  /\ nclaim = 0 => \A t \in Tasks : Silent(t)

\* ... which matters where tasks may go stale.
Calm == StaleAction = "block" => Hushed

-----------------------------------------------------------------------------
(* Tracked: with one job at a time, every process is waited for by the job *)
(* of its task, up to the moment its exit has been dealt with.             *)

LaunchesAlone == pc = "launch" => nclaim # 0 /\ \A t \in Tasks : ~HasJob(t)

Tracked ==
  /\ NobodyYet /\ LaunchesAlone
  /\ \A p \in Procs : Unsettled(p) => jobs[proc[p].task].proc = p

-----------------------------------------------------------------------------
(* Answered for: a merge under way is of a task that waits for it.         *)

MergePlanned(t) == PlanAdvance(task[t]).kind = "merge"

OneAnswer ==
  /\ \A t, u \in mjobs : t = u
  /\ \A v, w \in workers : ~v.orphan /\ ~w.orphan => v = w
  /\ \A w \in workers : ~w.orphan =>
       merges = <<>> /\ w.task \in mjobs /\ task[w.task].wt = w.branch
  /\ merges # <<>> => Len(merges) = 1 /\ merges[1].task \in mjobs
  /\ \A t \in mjobs : MergePlanned(t)

OneMergeAwaited == ~Stopped => OneAnswer

-----------------------------------------------------------------------------
(* Delivered: reported work is on its branch or on the base branch.        *)

\* What t did on branch b is still there to be merged, or has been.
Worked(t, b) == b \in ahead \/ t \in delivered

ReportBacked(p) ==
  LET q == proc[p] IN
  /\ q.kind = "nochanges" => q.task \in delivered
  /\ q.kind = "nochanges" /\ Unsettled(p) => q.branch \notin ahead \cup dirty
  /\ q.kind = "changes" /\ q.st = "commit" => q.branch \in dirty \/ Worked(q.task, q.branch)
  /\ q.kind = "changes" /\ q.ok => Worked(q.task, q.branch)

ReportsBacked == \A p \in Procs : ReportBacked(p)

\* ... of a task on its way to its merge,
ProgressBacked ==
  \A t \in Tasks : task[t].wf \in MergeSources => task[t].wt = 0 \/ Worked(t, task[t].wt)

\* ... of a task whose merge is under way, even one nobody waits for any more,
WorkersBacked == \A w \in workers : w.branch # 0 /\ Worked(w.task, w.branch)

\* ... and of one whose merge failed.
FailuresBacked ==
  ~Stopped => \A m \in failedMerge :
    task[m.task].wt = 0 \/ Worked(m.task, task[m.task].wt)

\* A merge that is reported to have worked has.
ResultsBacked ==
  ~Stopped => \A i \in DOMAIN merges : merges[i].how = "ok" =>
    merges[i].task \in delivered /\ task[merges[i].task].wt \notin ahead

MergesBacked == ProgressBacked /\ WorkersBacked /\ FailuresBacked /\ ResultsBacked

-----------------------------------------------------------------------------
(* Findable: commits the base branch lacks are in the worktree of a task,  *)
(* or on the branch of one that nobody will take up.                       *)

\* A performer has not told or logged a failure that denies a change, and a precondition
\* it found violated is the last it has told.
Candid(p) ==
  /\ proc[p].kind # "errNone" /\ "errNone" \notin proc[p].log
  /\ proc[p].kind = "precond" /\ Unsettled(p) => proc[p].code # "quota"

AllCandid == \A p \in Procs : Candid(p)

\* a performer at work is in the worktree of its task,
Rooted == \A p \in Procs : Busy(proc[p]) => proc[p].branch = task[proc[p].task].wt

\* and a task whose last branch has commits that its worktree has not is put aside:
\* nobody works on it, and nothing takes it up again.
PutAside(t) ==
  LET r == task[t] IN
  /\ r.wt = 0 /\ r.wf \notin {"todo", "claimed"} /\ r.err # "dep" /\ ~HasJob(t)

Shelved == \A t \in Tasks : task[t].last \in ahead /\ task[t].last # task[t].wt => PutAside(t)
=============================================================================
