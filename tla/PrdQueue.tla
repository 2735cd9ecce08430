------------------------------ MODULE PrdQueue ------------------------------
(***************************************************************************)
(* The ordered queue of PRDs (prd_queue.rs) around the runs of the         *)
(* coordinator (engine/fsm.rs): one process takes the files in turn, syncs *)
(* the task registry with the current one, works through its tasks, and    *)
(* moves on when all of it is delivered. An operator stops, relaunches and *)
(* resets it, edits files, and decides on human approval gates, while the  *)
(* process may die between any two steps.                                  *)
(*                                                                         *)
(* What happens to one task (module Coordinator) is reduced here to the    *)
(* states the queue looks at: "working" stands for claimed, in_progress    *)
(* and changes_requested, "phase" for testing, reviewing and pr_open.      *)
(***************************************************************************)
EXTENDS HumanGate, Sequences, Functions

CONSTANTS
  Tasks,     \* the tasks of all PRDs, the gates among them
  Last,      \* how many PRDs the queue has
  PrdOf,     \* the PRD of a task
  Deps,      \* the tasks it depends on
  Judged,    \* the tasks with a verdict gate
  Subject,   \* the task whose revision a human gate approves
  LimitSet,  \* max_dispatch is set
  Max,       \* bounds: how often each kind of event happens, ...
  MaxEvents  \* ... and how many happen in all

Prds == 1..Last
Kinds == {"crash", "stop", "edit", "reset", "fail", "revise", "decide", "age"}
Work == Tasks \ Gates

ASSUME QueueAssumption ==
  /\ IsFiniteSet(Tasks) /\ Last \in Nat \ {0} /\ Gates \subseteq Tasks
  /\ PrdOf \in [Tasks -> Prds] /\ Deps \in [Tasks -> SUBSET Tasks]
  /\ Judged \subseteq Work /\ LimitSet \in BOOLEAN /\ Max \in [Kinds -> Nat]
  /\ MaxEvents \in Nat
  /\ Subject \in [Gates -> Work] /\ \A g \in Gates : Subject[g] \in Deps[g]

\* validate refuses a queue in which a task depends on a later PRD; a PRD has no
\* circular dependencies.
ASSUME OrderAssumption ==
  /\ \A t \in Tasks : \A d \in Deps[t] : PrdOf[d] <= PrdOf[t]
  /\ \A group \in (SUBSET Tasks) \ {{}} : \E t \in group : Deps[t] \cap group = {}

VARIABLES
  progress,  \* .macc/state/prd-queue.json
  plan,      \* the entries the process validated when it was launched
  files,     \* the version of each PRD file
  pc,        \* where the process is, "off" when there is none
  row,       \* status of the latest row of coordinator_runs
  mode,      \* coordinator_control.mode
  drain,     \* coordinator_control.drain_snapshot_json
  told,      \* the process was told to stop while a run of it was up
  registry,  \* the task registry as it is stored
  jobs,      \* active_jobs: the tasks the process has a performer for
  merging,   \* active_merge_jobs: those it has a merge worker for
  landed,    \* the merge workers that are done and not looked at yet
  rev,       \* how many commits of the reference branch name a task
  judged,    \* the verdict in the last of these commits
  draft,     \* the verdict in the commits on the branch of the task itself
  ledger,    \* gate_decisions, the last one per gate and seat
  cli,       \* the registry a decision command is about to save
  spent      \* how often each kind of event has happened

queueVars == <<progress, plan, files>>
controlVars == <<row, mode, drain, told>>
jobVars == <<jobs, merging, landed>>
gitVars == <<rev, judged, draft>>
vars == <<progress, plan, files, pc, row, mode, drain, told, registry, jobs,
          merging, landed, rev, judged, draft, ledger, cli, spent>>

Active == {"working", "phase", "queued"}
Open == {"waiting", "approved", "rejected", "expired"}
States == Active \cup Open
            \cup {"absent", "todo", "merged", "blocked", "depblocked"}

Loop == {"cycle", "work", "pick", "count"}
RunUp == Loop \cup {"recover", "judge"}
Places == RunUp \cup {"off", "next", "mark", "start", "deliver", "advance"}

Statuses == {"", "running", "ready", "blocked", "completed", "stopped_by_user", "failed"}
Modes == {"running", "draining", "graceful_stopping", "force_stopping", "stopped"}
Versions == [Prds -> Nat]
Registries == [st : [Tasks -> States], att : SUBSET Tasks, ok : SUBSET Tasks, ext : SUBSET Tasks]

TypeOK ==
  /\ progress \in [next : 0..Last, status : Statuses, prints : {<<>>} \cup Versions]
  /\ plan \in Versions /\ files \in Versions
  /\ pc \in Places /\ told \in BOOLEAN
  /\ row \in {"none", "running", "success", "blocked", "failed", "stopped_by_user"}
  /\ mode \in Modes /\ drain \subseteq Tasks
  /\ registry \in Registries /\ jobs \subseteq Tasks
  /\ merging \subseteq Tasks /\ landed \subseteq merging
  /\ rev \in [Tasks -> Nat] /\ {judged, draft} \subseteq [Tasks -> {"none", "accepted", "rejected"}]
  /\ ledger \in [Gates -> [Seats -> Entries]]
  /\ cli \in Seq(Registries) /\ Len(cli) <= 1
  /\ spent \in [Kinds -> Nat]

NoProgress == [next |-> 0, status |-> "", prints |-> <<>>]

Init ==
  /\ progress = NoProgress
  /\ files = [i \in Prds |-> 0] /\ plan = files
  /\ pc = "off" /\ row = "none" /\ mode = "running" /\ drain = {} /\ told = FALSE
  /\ registry = [st |-> [t \in Tasks |-> "absent"], att |-> {}, ok |-> {}, ext |-> {}]
  /\ jobs = {} /\ merging = {} /\ landed = {}
  /\ rev = [t \in Tasks |-> 0] /\ judged = [t \in Tasks |-> "none"] /\ draft = judged
  /\ ledger = [g \in Gates |-> [s \in Seats |-> Silent]]
  /\ cli = <<>> /\ spent = [k \in Kinds |-> 0]

Spend(k) ==
  /\ spent[k] < Max[k] /\ SumFunction(spent) < MaxEvents
  /\ spent' = [spent EXCEPT ![k] = @ + 1]

Current == progress.next + 1
Own == {t \in Tasks : PrdOf[t] = Current}
\* Mutant: the PRD that is being worked on counts as an earlier one.
EarlierOrOwn == {t \in Tasks : PrdOf[t] <= Current}

Earlier == {t \in Tasks : PrdOf[t] <= progress.next}
OnBranch == {t \in Tasks : rev[t] > 0}

---------------------------------------------------------------------------
(* The registry *)

\* gate_verdict_satisfies_dependencies, for a task that is merged.
Accepted(r, t) == t \in Judged => t \in r.ok

DeliveredIn(r) == {t \in Tasks : r.st[t] = "merged" /\ Accepted(r, t)}
Satisfied(r) == DeliveredIn(r) \cup {t \in Tasks : r.st[t] = "approved"}

\* reconcile_human_gates, for one gate. Without its dependencies it asks nobody.
GateState(r, book, g) ==
  IF Deps[g] \subseteq Satisfied(r) \cup r.ext
  THEN Verdict(g, book[g], rev[Subject[g]])
  ELSE IF r.st[g] \in Open THEN "todo" ELSE r.st[g]

WithGates(r, book) ==
  [r EXCEPT !.st = [t \in Tasks |->
     IF t \in Gates /\ r.st[t] # "absent" THEN GateState(r, book, t) ELSE r.st[t]]]

\* blocked_dependency_path: a task is stuck behind a blocked one, through any chain
\* of tasks of this registry that are not satisfied themselves.
Stuck(r) ==
  LET Root(d) == r.st[d] \in {"blocked", "rejected"}
                   \/ (r.st[d] = "merged" /\ ~Accepted(r, d))
      stuck[t \in Tasks] ==
        \E d \in Deps[t] : r.st[d] # "absent" /\ d \notin Satisfied(r) /\ (Root(d) \/ stuck[d])
  IN {t \in Tasks : stuck[t]}

WithBlocks(r) ==
  [r EXCEPT !.st = [t \in Tasks |->
     CASE r.st[t] = "todo" /\ t \in Stuck(r)          -> "depblocked"
       [] r.st[t] = "depblocked" /\ t \notin Stuck(r) -> "todo"
       [] OTHER                                       -> r.st[t]]]

\* sync_registry_from_prd_native: the tasks of the current file and no others, with
\* the records they have; what earlier files delivered satisfies dependencies.
FromPrd(r) ==
  [st  |-> [t \in Tasks |-> CASE t \notin Own         -> "absent"
                              [] t \in Own /\ r.st[t] = "absent" -> "todo"
                              [] OTHER                -> r.st[t]],
   att |-> r.att \cap Own, ok |-> r.ok \cap Own, ext |-> r.ext \cup Earlier]

\* A set with one element, here and below: what each stage works on is a value.
Synced(r) == {WithBlocks(s) : s \in {WithGates(x, ledger) : x \in {FromPrd(r)}}}

\* coordinator_sync_prd: open tasks whose commits are on the reference branch are
\* merged; a task of the history that the registry does not have is external.
\* "phase" is open when it is pr_open: opened are the tasks that are in it.
Reconcilable == {"todo", "working", "queued"}

Phase(r) == {t \in Tasks : r.st[t] = "phase"}

FromCommits(r, opened) ==
  LET found == {t \in OnBranch \ Gates : r.st[t] \in Reconcilable} \cup (OnBranch \cap opened)
  IN [st  |-> [t \in Tasks |-> IF t \in found THEN "merged" ELSE r.st[t]],
      att |-> r.att \ found,
      ok  |-> (r.ok \ {t \in found : judged[t] = "rejected"})
                \cup {t \in found : judged[t] = "accepted"},
      ext |-> r.ext \cup {t \in OnBranch : r.st[t] = "absent"}]

Reconciled(s) ==
  UNION {IF g = s THEN {s} ELSE {WithBlocks(g)} : g \in {WithGates(s, ledger)}}

AtStartup(r) ==
  LET Read == UNION {{FromCommits(s, opened) : opened \in SUBSET Phase(s)} : s \in Synced(r)}
  IN UNION {Reconciled(x) : x \in Read}

\* load_persisted_external_merged_ids: without a recorded set, the git history.
External(r) == IF r.ext = {} THEN OnBranch ELSE r.ext

Ready(r, t) ==
  /\ t \in Work /\ r.st[t] = "todo"
  /\ Deps[t] \subseteq Satisfied(r) \cup External(r)

Moved(r, t, s) == [r EXCEPT !.st[t] = s]
In(states) == {t \in Tasks : registry.st[t] \in states}
Busy == In(Active)

---------------------------------------------------------------------------
(* The queue: prd_queue::run *)

Keep == UNCHANGED <<gitVars, ledger, cli>>
KeepQueue == UNCHANGED <<plan, files>>

Halt(s) == pc' = "off" /\ progress' = [progress EXCEPT !.status = s, !.prints = plan]

\* The process takes the queue lock, validates the files and loads its progress.
Launch ==
  /\ pc = "off" /\ progress.prints \in {<<>>, files} /\ progress.next < Last
  /\ plan' = files /\ told' = FALSE /\ pc' = "next"
  /\ UNCHANGED <<progress, files, row, mode, drain, registry, jobVars, spent>> /\ Keep

ChangedFile ==
  /\ pc = "next" /\ files[Current] # plan[Current]
  /\ Halt("blocked")
  /\ UNCHANGED <<controlVars, registry, jobVars, spent>> /\ KeepQueue /\ Keep

\* Unfinished work of another PRD would be lost with its record.
Unsafe == {t \in Tasks \ Own : /\ registry.st[t] \notin {"absent", "merged"}
                               /\ registry.st[t] # "todo" \/ t \in registry.att}

UnsafeRegistry ==
  /\ pc = "next" /\ files[Current] = plan[Current] /\ Unsafe # {}
  /\ Halt("blocked")
  /\ UNCHANGED <<controlVars, registry, jobVars, spent>> /\ KeepQueue /\ Keep

OpenEntry ==
  /\ pc = "next" /\ files[Current] = plan[Current] /\ Unsafe = {}
  /\ registry' = [registry EXCEPT !.ext = @ \cup DeliveredIn(registry)]
  /\ pc' = "mark"
  /\ UNCHANGED <<progress, controlVars, jobVars, spent>> /\ KeepQueue /\ Keep

Mark ==
  /\ pc = "mark"
  /\ progress' = [progress EXCEPT !.status = "running", !.prints = plan]
  /\ pc' = "start"
  /\ UNCHANGED <<controlVars, registry, jobVars, spent>> /\ KeepQueue /\ Keep

\* Mutant: the control table is not read again after a run.
RunSucceededUnasked == files[Current] = plan[Current] /\ row = "success"

\* What follows a run: an unchanged file, a successful row, no stop.
RunSucceeded ==
  files[Current] = plan[Current] /\ row = "success" /\ mode = "running"

FailEntry ==
  /\ Halt(IF row \in {"stopped_by_user", "failed"} THEN row ELSE "blocked")
  /\ row' = IF row = "success" THEN "blocked" ELSE row
  /\ UNCHANGED <<mode, drain, told, registry, jobVars, spent>> /\ KeepQueue /\ Keep

Judge ==
  /\ pc = "judge"
  /\ \/ RunSucceeded /\ pc' = "deliver"
        /\ UNCHANGED <<progress, controlVars, registry, jobVars, spent>> /\ KeepQueue /\ Keep
     \/ ~RunSucceeded /\ FailEntry

\* Mutant: a task that was given up is not counted.
IncompleteOpen == Own \ (DeliveredIn(registry) \cup In({"blocked"}))

\* Mutant: the verdict is not looked at.
IncompleteUnmerged == {t \in Own : registry.st[t] # "merged"}

\* incomplete_tasks: merged, and with the verdict its gate requires.
Incomplete == Own \ DeliveredIn(registry)

Deliver ==
  /\ pc = "deliver"
  /\ \/ Incomplete = {} /\ pc' = "advance"
        /\ UNCHANGED <<progress, controlVars, registry, jobVars, spent>> /\ KeepQueue /\ Keep
     \/ Incomplete # {} /\ FailEntry

Advance ==
  /\ pc = "advance"
  /\ progress' = [progress EXCEPT !.next = @ + 1,
                     !.status = IF Current = Last THEN "completed" ELSE "ready"]
  /\ pc' = IF Current = Last THEN "off" ELSE "next"
  /\ UNCHANGED <<controlVars, registry, jobVars, spent>> /\ KeepQueue /\ Keep

---------------------------------------------------------------------------
(* A run: run_single_prd_control_plane and its cycles *)

\* A new row, and whatever the control table said before is overwritten.
StartRun ==
  /\ pc = "start"
  /\ row' = "running" /\ mode' = "running" /\ drain' = {} /\ pc' = "recover"
  /\ UNCHANGED <<progress, told, registry, jobVars, spent>> /\ KeepQueue /\ Keep

Recover ==
  /\ pc = "recover"
  /\ registry' \in AtStartup(registry)
  /\ pc' = "cycle"
  /\ UNCHANGED <<progress, controlVars, jobVars, spent>> /\ KeepQueue /\ Keep

EndRun(s) ==
  /\ row' = s /\ pc' = "judge"
  /\ jobs' = {} /\ merging' = {} /\ landed' = {}
  /\ UNCHANGED <<progress, drain, registry>> /\ KeepQueue /\ Keep

\* on_cycle_start: what each way of stopping waits for. A drain looks for the
\* tasks of its snapshot, a graceful stop for the jobs of the process.
StopDone ==
  \/ mode = "force_stopping"
  \/ mode = "draining" /\ drain \cap In({"working", "queued"}) = {}
  \/ mode = "graceful_stopping" /\ jobs \cup merging = {}

StopRun ==
  /\ pc = "cycle" /\ StopDone
  /\ mode' = "stopped" /\ EndRun("stopped_by_user") /\ UNCHANGED <<told, spent>>

Cycle ==
  /\ pc = "cycle" /\ ~StopDone
  /\ registry' \in Synced(registry) /\ pc' = "work"
  /\ UNCHANGED <<progress, controlVars, jobVars, spent>> /\ KeepQueue /\ Keep

KeepRun == UNCHANGED <<progress, pc, controlVars, spent>> /\ KeepQueue

\* The record of a task whose performer is done, with its verdict. A task that was
\* moved meanwhile stays where it is.
Performed(t, v) ==
  IF registry.st[t] # "working" THEN registry
  ELSE [Moved(registry, t, "phase") EXCEPT
          !.ok = IF v = "accepted" THEN @ \cup {t} ELSE @ \ {t}]

\* What is recorded of a performer or a merge settles the blocks of the tasks behind.
Perform(t) ==
  /\ pc = "work" /\ t \in jobs
  /\ \E v \in IF t \in Judged THEN {"accepted", "rejected"} ELSE {"none"} :
       /\ draft' = [draft EXCEPT ![t] = v]
       /\ registry' = WithBlocks(Performed(t, v))
  /\ jobs' = jobs \ {t}
  /\ UNCHANGED <<merging, landed, rev, judged, ledger, cli>> /\ KeepRun

Queue(t) ==
  /\ pc = "work" /\ t \notin merging /\ registry.st[t] \in {"phase", "queued"}
  /\ registry' = Moved(registry, t, "queued") /\ merging' = merging \cup {t}
  /\ UNCHANGED <<jobs, landed>> /\ KeepRun /\ Keep

\* A merge worker puts the work on the reference branch, beside the loop. Work that
\* is there already makes no new commit.
Publish(t) ==
  /\ t \in merging \ landed
  /\ \/ rev' = [rev EXCEPT ![t] = @ + 1]
        /\ judged' = [judged EXCEPT ![t] = draft[t]]
     \/ t \in OnBranch /\ UNCHANGED <<rev, judged>>
  /\ landed' = landed \cup {t}
  /\ UNCHANGED <<registry, jobs, merging, draft, ledger, cli>> /\ KeepRun

Merged(t) == [Moved(registry, t, "merged") EXCEPT !.att = @ \ {t}]

\* Mutant: the merge job is dropped, its answer is not.
RecordHalf(t) ==
  /\ pc = "work" /\ t \in landed /\ registry.st[t] \in Active
  /\ registry' = WithBlocks(Merged(t))
  /\ merging' = merging \ {t} /\ UNCHANGED <<jobs, landed>> /\ KeepRun /\ Keep

Record(t) ==
  /\ pc = "work" /\ t \in landed /\ registry.st[t] \in Active
  /\ registry' = WithBlocks(Merged(t))
  /\ merging' = merging \ {t} /\ landed' = landed \ {t}
  /\ UNCHANGED jobs /\ KeepRun /\ Keep

\* The answer of a merge worker for a task that is not in a state it may be merged
\* from is an error, which ends the run.
Misplaced(t) ==
  /\ pc = "work" /\ t \in landed /\ registry.st[t] \notin {"phase", "queued"}
  /\ EndRun("failed") /\ UNCHANGED <<mode, told, spent>>

\* A task is given up, or parked for another try: with its worktree or without.
Dropped(t, states) ==
  {[Moved(registry, t, s) EXCEPT !.att = (@ \ {t}) \cup kept] :
     s \in states, kept \in SUBSET ({t} \cap registry.att)}

Fail(t) ==
  /\ pc = "work" /\ Spend("fail")
  /\ \/ /\ t \in jobs /\ registry.st[t] = "working"
        /\ registry' \in {WithBlocks(r) : r \in Dropped(t, {"todo", "blocked"})}
        /\ jobs' = jobs \ {t} /\ UNCHANGED merging
     \/ /\ t \in merging \ landed /\ registry.st[t] = "queued"
        /\ registry' \in {WithBlocks(r) : r \in Dropped(t, {"blocked"})}
        /\ merging' = merging \ {t} /\ UNCHANGED jobs
  /\ UNCHANGED <<progress, pc, controlVars, landed>> /\ KeepQueue /\ Keep

\* cleanup_dead_runtime_tasks: a task at work without a process to it.
Ghost(t) ==
  /\ pc = "work" /\ registry.st[t] = "working" /\ t \notin jobs
  /\ registry' \in Dropped(t, {"todo", "blocked"})
  /\ UNCHANGED jobVars /\ KeepRun /\ Keep

\* dispatch_ready_tasks_native looks at the control table once, before it picks.
Dispatch ==
  /\ pc = "work" /\ pc' = IF mode = "running" THEN "pick" ELSE "count"
  /\ UNCHANGED <<progress, controlVars, registry, jobVars, spent>> /\ KeepQueue /\ Keep

Pick(t) ==
  /\ pc = "pick" /\ Ready(registry, t)
  /\ registry' = [Moved(registry, t, "working") EXCEPT !.att = @ \cup {t}]
  /\ jobs' = jobs \cup {t}
  /\ UNCHANGED <<merging, landed>> /\ KeepRun /\ Keep

\* There is no more to pick, no more room, or max_dispatch is reached.
Picked ==
  /\ pc = "pick" /\ pc' = "count"
  /\ (\A t \in Tasks : ~Ready(registry, t)) \/ Busy # {} \/ LimitSet
  /\ UNCHANGED <<progress, controlVars, registry, jobVars, spent>> /\ KeepQueue /\ Keep

\* on_cycle_end, should_terminate_run and on_cycle_counts_with.
\* Mutant: a rejected gate is waited for, too.
AwaitingRejected == In({"waiting", "expired", "rejected"}) # {}

Awaiting == In({"waiting", "expired"}) # {}
AllDone == In({"todo"}) = {}
Stalled == ~AllDone /\ (mode # "running" \/ \A t \in Tasks : ~Ready(registry, t))
AnyBlocked == In({"blocked", "depblocked", "rejected"}) # {}

\* Whether as many tasks were dispatched as the limit allows is not counted here.
AtLimit == LimitSet /\ jobs \cup merging = {}

Finish ==
  /\ pc = "count" /\ Busy = {}
  /\ \/ AtLimit /\ EndRun("success")
     \/ ~Awaiting /\ AllDone /\ EndRun(IF AnyBlocked THEN "blocked" ELSE "success")
     \/ ~Awaiting /\ Stalled /\ EndRun(IF AnyBlocked THEN "blocked" ELSE "failed")
  /\ UNCHANGED <<mode, told, spent>>

Again ==
  /\ pc = "count" /\ pc' = "cycle"
  /\ Busy # {} \/ Awaiting \/ ~AllDone
  /\ UNCHANGED <<progress, controlVars, registry, jobVars, spent>> /\ KeepQueue /\ Keep

---------------------------------------------------------------------------
(* Operators and the environment *)

KeepProcess == UNCHANGED <<progress, plan, pc, row, jobVars>>

\* macc coordinator stop: --drain remembers the tasks it finds at work.
Stop(kind) ==
  /\ Spend("stop")
  /\ mode' = kind /\ told' = (told \/ pc \in RunUp)
  /\ drain' = IF kind = "draining" THEN In({"working", "queued"}) ELSE {}
  /\ UNCHANGED <<files, registry>> /\ KeepProcess /\ Keep

\* A signal ends a run from within its loop.
Interrupt ==
  /\ pc \in Loop /\ Spend("stop")
  /\ EndRun("stopped_by_user") /\ told' = TRUE /\ UNCHANGED mode

Crash ==
  /\ pc # "off" /\ Spend("crash")
  /\ pc' = "off" /\ jobs' = {} /\ merging' = {} /\ landed' = {}
  /\ UNCHANGED <<progress, controlVars, registry>> /\ KeepQueue /\ Keep

\* macc coordinator prds reset takes the queue lock, so that no run is up.
Reset ==
  /\ pc = "off" /\ progress # NoProgress /\ Spend("reset")
  /\ progress' = NoProgress
  /\ UNCHANGED <<pc, controlVars, registry, jobVars>> /\ KeepQueue /\ Keep

Edit(i) ==
  /\ Spend("edit") /\ files' = [files EXCEPT ![i] = @ + 1]
  /\ UNCHANGED <<controlVars, registry>> /\ KeepProcess /\ Keep

\* Somebody commits to the reference branch in the name of a task.
Revise(t) ==
  /\ t \in OnBranch /\ Spend("revise") /\ rev' = [rev EXCEPT ![t] = @ + 1]
  /\ UNCHANGED <<files, controlVars, registry, judged, draft, ledger, cli>> /\ KeepProcess

\* coordinator_record_gate_decision: the registry is read, the decision on the
\* current revision recorded, and the registry saved as it was read but for gates
\* and blocks, whatever was written to it in between. Bound: one such command at a time.
Decide(g, seat, what) ==
  LET read == WithGates(registry, ledger)
      book == [ledger EXCEPT ![g][seat] =
                 [says |-> what, rev |-> rev[Subject[g]], old |-> FALSE]]
  IN /\ cli = <<>> /\ Spend("decide")
     /\ read.st[g] \in Open /\ seat[2] \in Declared(g)
     /\ ledger' = book /\ cli' = <<WithBlocks(WithGates(read, book))>>
     /\ UNCHANGED <<files, controlVars, registry, gitVars>> /\ KeepProcess

SaveDecision ==
  /\ cli # <<>> /\ registry' = cli[1] /\ cli' = <<>>
  /\ UNCHANGED <<files, controlVars, gitVars, ledger, spent>> /\ KeepProcess

\* A decision gets older than its gate allows.
Age(g, seat) ==
  /\ g \in Expiring /\ ledger[g][seat].says # "none" /\ ~ledger[g][seat].old
  /\ Spend("age") /\ ledger' = [ledger EXCEPT ![g][seat].old = TRUE]
  /\ UNCHANGED <<files, controlVars, registry, gitVars, cli>> /\ KeepProcess

---------------------------------------------------------------------------

Queued == Launch \/ ChangedFile \/ UnsafeRegistry \/ OpenEntry \/ Mark \/ Judge
            \/ Deliver \/ Advance

Running == StartRun \/ Recover \/ StopRun \/ Cycle \/ Dispatch \/ Picked \/ Finish \/ Again

Moves(t) ==
  Perform(t) \/ Queue(t) \/ Record(t) \/ Misplaced(t) \/ Ghost(t) \/ Pick(t)

OneTask(t) == Moves(t) \/ Publish(t) \/ Fail(t)

Outside ==
  \/ \E kind \in {"draining", "graceful_stopping", "force_stopping"} : Stop(kind)
  \/ Interrupt \/ Crash \/ Reset
  \/ \E i \in Prds : Edit(i)
  \/ \E t \in Work : Revise(t)
  \/ \E g \in Gates, seat \in Seats, what \in Says : Decide(g, seat, what)
  \/ SaveDecision
  \/ \E g \in Gates, seat \in Seats : Age(g, seat)

Next == Queued \/ Running \/ (\E t \in Work : OneTask(t)) \/ Outside

\* The process goes on once launched, and its loop is not always elsewhere when a
\* task could move: performers end or are killed, and free slots are filled. Merge
\* workers finish, and a command that has begun saves what it has.
Fairness ==
  /\ WF_vars((Queued /\ pc # "off") \/ Running)
  /\ WF_vars(SaveDecision)
  /\ SF_vars(\E t \in Work : Moves(t))
  /\ WF_vars(\E t \in Work : Publish(t))

Spec == Init /\ [][Next]_vars /\ Fairness

---------------------------------------------------------------------------
(* Properties *)

\* The queue moves past a PRD only when all of its tasks are on the reference branch,
\* whatever was stopped, crashed, reset, edited or saved late on the way
\* (incomplete_tasks). No task of it is a human gate: these are never merged.
CursorBehind ==
  \A t \in Tasks : PrdOf[t] <= progress.next => t \in Work \cap OnBranch

\* ... and when each verdict that a gate asks for is the one on the branch. Only a
\* decision that is saved late may have a task done twice, with two verdicts.
CursorJudged ==
  spent["decide"] = 0 =>
    \A t \in Judged : PrdOf[t] <= progress.next => judged[t] = "accepted"

\* A gate is approved only when a quorum approves one and the same revision of its
\* subject and no rejection of that revision stands (evaluate_gate): decisions taken
\* before and after a change of the subject do not add up.
Standing(g, rv, what) ==
  {s \in Seats : ledger[g][s].says = what /\ ledger[g][s].rev = rv}

Backed(g) ==
  \E rv \in 0..rev[Subject[g]] :
    /\ \A s \in Standing(g, rv, "reject") : ledger[g][s].old
    /\ QuorumMet(g, Standing(g, rv, "approve"))

ApprovedByQuorum ==
  [][\A g \in Gates :
       registry.st[g] # "approved" /\ registry'.st[g] = "approved" => Backed(g)]_vars

\* Once told to stop, a process does not go on to the next PRD (prd_queue::run).
StopHonoured == told => pc \in RunUp \cup {"off"}

\* A process that was launched ends, and one that was told to stop ends whatever it
\* waits for; only a gate that nobody decides on keeps a run alive (on_cycle_start,
\* on_cycle_counts_with).
QueueEnds ==
  (pc # "off") ~>
    (pc = "off" \/ (~told /\ \E g \in Gates : registry.st[g] \in {"waiting", "expired"}))

\* A task does not start on the work of a task of its PRD whose verdict is not the
\* one its gate requires.
VerdictRespected ==
  [][\A t \in Work : registry.st[t] = "todo" /\ registry'.st[t] = "working" =>
       \A d \in Deps[t] \cap Own : Accepted(registry, d)]_vars

\* Over all PRDs: the work on a task starts when the tasks it depends on, the
\* tasks its gates depend on and those of the PRDs before it are on the branch.
Before(t) ==
  {d \in Work : \/ d \in Deps[t] \/ PrdOf[d] < PrdOf[t]
                \/ \E g \in Gates \cap Deps[t] : d \in Deps[g]}

Shown(t) ==
  CASE t \in OnBranch -> "merged"
    [] t \notin OnBranch /\ registry.st[t] \in Active -> "working"
    [] t \notin OnBranch /\ registry.st[t] \in {"blocked", "depblocked"} -> "stuck"
    [] OTHER -> "waiting"

before == [t \in Work |-> Before(t)]
shown == [t \in Work |-> Shown(t)]

Promise == INSTANCE Backlog WITH
  Tasks <- Work, Deps <- before, Delivered <- {}, state <- shown, published <- OnBranch

QueueOrder == Promise!Init /\ [][Promise!Next]_(Promise!vars)
=============================================================================
