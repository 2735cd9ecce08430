------------------------------ MODULE TaskFSM ------------------------------
(***************************************************************************)
(* The pure part of the coordinator: the workflow state machine of one     *)
(* task, the plan that moves a task between phases, and what the           *)
(* coordinator does with a task when its performer exits.                  *)
(*                                                                         *)
(* Everything here is a function of one task record; module Coordinator    *)
(* says who calls it, on what, and when.                                   *)
(***************************************************************************)
EXTENDS Integers, FiniteSets

CONSTANTS
  MaxAttempts,      \* phase_runner_max_attempts: performer runs per claim
  AutoRetryMax,     \* error_code_retry_max: automatic redispatches
  TestingEnabled,   \* phases.testing.enabled
  ReviewEnabled,    \* phases.review.enabled
  ReviewsCapped,    \* max_review_cycles is set
  MaxReviewCycles,  \* its value when it is
  MaxSpawns,        \* bound: performer processes ever started
  MaxClaims         \* bound: dispatch claims (and task branches) ever made

ASSUME AttemptsAssumption == MaxAttempts \in Nat \ {0}
ASSUME AutoRetryAssumption == AutoRetryMax \in Nat
ASSUME PhaseAssumption ==
  /\ TestingEnabled \in BOOLEAN
  /\ ReviewEnabled \in BOOLEAN
  /\ ReviewsCapped \in BOOLEAN
  /\ MaxReviewCycles \in Nat
ASSUME BoundAssumption == MaxSpawns \in Nat /\ MaxClaims \in Nat

-----------------------------------------------------------------------------
(* The record the registry keeps for a task.                               *)

WorkflowStates ==
  {"todo", "claimed", "in_progress", "testing", "reviewing", "pr_open",
   "changes_requested", "queued", "merged", "blocked", "abandoned"}

RuntimeStatuses ==
  {"idle", "dispatched", "running", "phase_done", "failed", "stale", "paused"}

\* The error codes the control flow looks at: E601/E602, E905, any other.
ErrorClasses == {"none", "avail", "dep", "other"}

Branches == 1..MaxClaims    \* a branch is named by the claim that created it
Procs    == 1..MaxSpawns    \* a process is named by the order it is spawned in

Task ==
  [wf      : WorkflowStates,        \* state
   rt      : RuntimeStatuses,       \* task_runtime.status
   pid     : Procs \cup {0},        \* task_runtime.pid, 0 when None
   claim   : Branches \cup {0},     \* task_runtime.claim_id
   wt      : Branches \cup {0},     \* worktree.branch, 0 when the worktree is None
   last    : Branches \cup {0},     \* task_runtime.last_branch
   retries : Nat,                   \* metrics.retries
   reviews : Nat,                   \* review_cycles
   err     : ErrorClasses,          \* last_error_code
   delay   : BOOLEAN,               \* delayed_until is set
   handoff : BOOLEAN,               \* phase_tool_unavailable
   hb      : {"none", "fresh", "old"}]  \* last_heartbeat against the grace period

NewTask ==
  [wf |-> "todo", rt |-> "idle", pid |-> 0, claim |-> 0, wt |-> 0, last |-> 0,
   retries |-> 0, reviews |-> 0, err |-> "none",
   delay |-> FALSE, handoff |-> FALSE, hb |-> "none"]

Attached(r) == r.wt # 0

\* model.rs counts: every state but todo, blocked, merged and abandoned is active.
CountedActive(r) == r.wf \notin {"todo", "blocked", "merged", "abandoned"}

\* model.rs is_active, the scheduler's and the recovery sweep's narrower notion.
IsActive(r) ==
  r.wf \in {"claimed", "in_progress", "pr_open", "changes_requested", "queued"}

AwaitingSameWorktreeRetry(r) == r.wf = "todo" /\ r.rt = "failed" /\ Attached(r)

AwaitingToolAvailability(r) == AwaitingSameWorktreeRetry(r) /\ r.err = "avail"

\* A todo task that holds a worktree is dispatched only to resume in it.
MayResume(r) ==
  /\ AwaitingSameWorktreeRetry(r)
  /\ AwaitingToolAvailability(r) \/ r.retries <= MaxAttempts

-----------------------------------------------------------------------------
(* The workflow transition relation.                                       *)

Parked == {"blocked", "abandoned"}

ValidNext ==
  [todo              |-> {"claimed"},
   claimed           |-> {"in_progress"} \cup Parked,
   in_progress       |-> {"testing", "reviewing", "pr_open", "changes_requested",
                          "merged"} \cup Parked,
   testing           |-> {"reviewing", "merged", "in_progress", "pr_open",
                          "changes_requested"} \cup Parked,
   reviewing         |-> {"merged", "in_progress", "changes_requested",
                          "pr_open"} \cup Parked,
   pr_open           |-> {"changes_requested", "queued", "merged"} \cup Parked,
   changes_requested |-> {"pr_open", "in_progress", "testing", "reviewing",
                          "merged"} \cup Parked,
   queued            |-> {"merged", "pr_open"} \cup Parked,
   merged            |-> {},
   blocked           |-> (WorkflowStates \ {"merged", "blocked"}),
   abandoned         |-> {"todo"}]

IsValidTransition(from, to) == to \in ValidNext[from]

MergeSources ==
  {"in_progress", "testing", "reviewing", "pr_open", "changes_requested", "queued"}

\* Where an event takes a workflow state: a set with one state, or empty when
\* the machine answers invalid_transition. `next` is the planned next state.
PhaseSucceededTo(from, phase, next) ==
  IF <<from, phase>> = <<"in_progress", "test">> THEN {"testing"}
  ELSE IF <<from, phase>> \in
            {<<"in_progress", "review">>, <<"testing", "test">>,
             <<"testing", "review">>, <<"reviewing", "review">>,
             <<"changes_requested", "fix">>}
       THEN {next} ELSE {}

PhaseFailedTo(from, phase) ==
  IF <<from, phase>> = <<"testing", "test">> THEN {"in_progress"}
  ELSE IF <<from, phase>> \in
            {<<"in_progress", "dev">>, <<"in_progress", "review">>,
             <<"reviewing", "review">>, <<"testing", "review">>,
             <<"changes_requested", "fix">>}
       THEN {"blocked"} ELSE {}

ChangesRequestedTo(from) ==
  IF from \in {"in_progress", "reviewing", "testing"}
  THEN {"changes_requested"} ELSE {}

MergeResultTo(from, success) ==
  IF from \in MergeSources
  THEN {IF success THEN "merged" ELSE "blocked"} ELSE {}

\* transition_workflow_state checks its own answer against the relation above.
Checked(from, targets) == {to \in targets : IsValidTransition(from, to)}

-----------------------------------------------------------------------------
(* Which step a task waiting between phases takes next.                    *)

\* Mutant: the last allowed review is followed by one more.
ReviewAvailableOnceMore(r) ==
  ReviewEnabled /\ (ReviewsCapped => r.reviews <= MaxReviewCycles)

ReviewAvailable(r) ==
  ReviewEnabled /\ (ReviewsCapped => r.reviews < MaxReviewCycles)

Phase(mode, next) == [kind |-> "phase", mode |-> mode, next |-> next]
MergePlan         == [kind |-> "merge"]
ReviewOrMerge(r)  == IF ReviewAvailable(r) THEN Phase("review", "reviewing")
                                           ELSE MergePlan

\* Mutant: the fix after the last allowed review is not planned.
PlanAdvanceLastFixLost(r) ==
  CASE r.wf = "in_progress" ->
         IF TestingEnabled THEN Phase("test", "testing") ELSE ReviewOrMerge(r)
    [] r.wf = "testing" -> ReviewOrMerge(r)
    [] r.wf \in {"reviewing", "pr_open", "queued"} -> MergePlan
    [] r.wf = "changes_requested" ->
         IF ReviewsCapped /\ r.reviews >= MaxReviewCycles
         THEN [kind |-> "exhausted"]
         ELSE Phase("fix", "in_progress")
    [] OTHER -> [kind |-> "noop"]

\* Mutant: an approved review leaves the task in a state without a plan.
PlanAdvanceNoPrOpen(r) ==
  CASE r.wf = "in_progress" ->
         IF TestingEnabled THEN Phase("test", "testing") ELSE ReviewOrMerge(r)
    [] r.wf = "testing" -> ReviewOrMerge(r)
    [] r.wf \in {"reviewing", "queued"} -> MergePlan
    [] r.wf = "changes_requested" -> Phase("fix", "in_progress")
    [] OTHER -> [kind |-> "noop"]

PlanAdvance(r) ==
  CASE r.wf = "in_progress" ->
         IF TestingEnabled THEN Phase("test", "testing") ELSE ReviewOrMerge(r)
    [] r.wf = "testing" -> ReviewOrMerge(r)
    [] r.wf \in {"reviewing", "pr_open", "queued"} -> MergePlan
    [] r.wf = "changes_requested" ->
         IF ReviewsCapped /\ (MaxReviewCycles = 0 \/ r.reviews > MaxReviewCycles)
         THEN [kind |-> "exhausted"]
         ELSE Phase("fix", "in_progress")
    [] OTHER -> [kind |-> "noop"]

\* The state a result of a planned phase leads to, empty when inapplicable.
\* A fix's or a test's success must land on the planned state.
OutcomeTo(r, plan, outcome) ==
  Checked(r.wf,
    CASE outcome = "failed"  -> PhaseFailedTo(r.wf, plan.mode)
      [] outcome = "changes" -> ChangesRequestedTo(r.wf)
      [] outcome = "ok" ->
           PhaseSucceededTo(r.wf, plan.mode,
                            IF plan.mode = "review" THEN "pr_open" ELSE plan.next))

\* apply_phase_outcome_in_registry. An outcome the machine cannot place blocks
\* the task (E910) and keeps its worktree.
ApplyPhaseOutcome(r, plan, outcome) ==
  LET to == OutcomeTo(r, plan, outcome) IN
  IF to = {}
  THEN [r EXCEPT !.wf = "blocked", !.rt = "failed", !.pid = 0, !.err = "other"]
  ELSE [r EXCEPT !.wf = CHOOSE s \in to : TRUE,
                 !.rt = IF outcome = "failed" THEN "failed" ELSE "phase_done",
                 !.pid = 0,
                 !.delay = outcome = "failed" /\ r.delay,
                 !.handoff = outcome = "failed" /\ r.handoff,
                 !.reviews = IF plan.mode = "review" /\ outcome # "failed"
                             THEN r.reviews + 1 ELSE r.reviews]

\* handle_phase_tool_unavailability: the phase is tried again when its only
\* tool is usable again.
ApplyToolUnavailable(r) ==
  [r EXCEPT !.rt = "phase_done", !.pid = 0, !.err = "avail",
            !.delay = TRUE, !.handoff = TRUE]

MergeResultApplies(r, success) == Checked(r.wf, MergeResultTo(r.wf, success)) # {}

\* Mutant: the worktree is released whatever the merge came to.
ApplyMergeResultReleases(r, success) ==
  IF ~MergeResultApplies(r, success) THEN r
  ELSE [r EXCEPT !.wf = IF success THEN "merged" ELSE "blocked",
                 !.rt = IF success THEN "idle" ELSE "paused",
                 !.pid = 0, !.wt = 0]

\* Mutant: every answer of the merge worker counts as a success.
ApplyMergeResultTrusting(r, success) ==
  IF ~MergeResultApplies(r, success) THEN r
  ELSE [r EXCEPT !.wf = "merged", !.rt = "idle", !.pid = 0]

\* apply_merge_result_in_registry, where MergeResultApplies; an error elsewhere.
ApplyMergeResult(r, success) ==
  IF ~MergeResultApplies(r, success) THEN r
  ELSE [r EXCEPT !.wf = IF success THEN "merged" ELSE "blocked",
                 !.rt = IF success THEN "idle" ELSE "paused",
                 !.pid = 0]

\* resume_paused_task_merge: no look at the state the task is in.
ResumeMerge(r) == [r EXCEPT !.wf = "queued", !.rt = "phase_done", !.pid = 0]
=============================================================================
