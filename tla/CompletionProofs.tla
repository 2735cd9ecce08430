-------------------------- MODULE CompletionProofs --------------------------
(***************************************************************************)
(* What the operators on one task record preserve: each yields a record of *)
(* a task, and none takes the review or the retry counter over its budget. *)
(***************************************************************************)
EXTENDS Completion, TLAPS

RetryBudget == IF AutoRetryMax > MaxAttempts THEN AutoRetryMax ELSE MaxAttempts

\* The counters of s are within their budgets if those of r are.
Within(r, s) ==
  /\ ReviewsCapped /\ r.reviews <= MaxReviewCycles => s.reviews <= MaxReviewCycles
  /\ r.retries <= RetryBudget => s.retries <= RetryBudget

\* The counters of s are those of r.
SameCounters(r, s) == s.reviews = r.reviews /\ s.retries = r.retries

LEMMA SameIsWithin ==
  ASSUME NEW r, NEW s, SameCounters(r, s)
  PROVE  Within(r, s)
BY DEF SameCounters, Within

-----------------------------------------------------------------------------
(* The workflow state machine.                                             *)

\* What the machine answers is a workflow state.
LEMMA OutcomeType ==
  ASSUME NEW r \in Task, NEW plan, NEW outcome
  PROVE  OutcomeTo(r, plan, outcome) \subseteq WorkflowStates
<1>1. r.wf \in WorkflowStates
  BY DEF Task
<1>2. ValidNext[r.wf] \subseteq WorkflowStates
  BY <1>1 DEF ValidNext, WorkflowStates, Parked
<1> QED
  BY <1>2 DEF OutcomeTo, Checked, IsValidTransition

\* A review is planned only while the budget has room for it.
LEMMA ReviewPlanned ==
  ASSUME NEW r \in Task, PlanAdvance(r).kind = "phase", PlanAdvance(r).mode = "review",
         ReviewsCapped
  PROVE  r.reviews < MaxReviewCycles
BY DEF PlanAdvance, ReviewOrMerge, ReviewAvailable, Phase, MergePlan

\* The outcome of a planned phase.
LEMMA PhaseOutcomeKeeps ==
  ASSUME NEW r \in Task, NEW outcome, PlanAdvance(r).kind = "phase"
  PROVE  LET s == ApplyPhaseOutcome(r, PlanAdvance(r), outcome)
         IN s \in Task /\ Within(r, s)
<1> DEFINE plan == PlanAdvance(r)
           to   == OutcomeTo(r, plan, outcome)
           s    == ApplyPhaseOutcome(r, plan, outcome)
           wf   == CHOOSE x \in to : TRUE
<1>1. CASE to = {}
  <2>1. s = [r EXCEPT !.wf = "blocked", !.rt = "failed", !.pid = 0, !.err = "other"]
    BY <1>1 DEF ApplyPhaseOutcome
  <2> QED
    BY ZenonT(60), <2>1 DEF Within, Task, WorkflowStates, RuntimeStatuses, ErrorClasses
<1>2. CASE to # {}
  <2>1. wf \in WorkflowStates
    BY <1>2, OutcomeType
  <2> DEFINE reviews == IF plan.mode = "review" /\ outcome # "failed"
                        THEN r.reviews + 1 ELSE r.reviews
             rt      == IF outcome = "failed" THEN "failed" ELSE "phase_done"
             delay   == outcome = "failed" /\ r.delay
             handoff == outcome = "failed" /\ r.handoff
  <2>2. s = [r EXCEPT !.wf = wf, !.rt = rt, !.pid = 0, !.delay = delay,
                      !.handoff = handoff, !.reviews = reviews]
    BY <1>2 DEF ApplyPhaseOutcome
  <2>3. s \in Task
    <3>1. reviews \in Nat /\ rt \in RuntimeStatuses
      BY DEF Task, RuntimeStatuses
    <3>2. delay \in BOOLEAN /\ handoff \in BOOLEAN
      BY Zenon
    <3> HIDE DEF reviews, rt, delay, handoff, wf, s
    <3> QED
      BY <2>1, <2>2, <3>1, <3>2 DEF Task
  <2>4. ReviewsCapped /\ r.reviews <= MaxReviewCycles => s.reviews <= MaxReviewCycles
    BY <2>2, ReviewPlanned, PhaseAssumption DEF Task
  <2>5. s.retries = r.retries
    BY <2>2 DEF Task
  <2> QED
    BY <2>3, <2>4, <2>5 DEF Within
<1> QED
  BY <1>1, <1>2

\* The failure of the fix a task has no budget for.
LEMMA FixFailureKeeps ==
  ASSUME NEW r \in Task
  PROVE  LET s == ApplyPhaseOutcome(r, Phase("fix", "in_progress"), "failed")
         IN s \in Task /\ SameCounters(r, s)
<1> DEFINE plan == Phase("fix", "in_progress")
           to   == OutcomeTo(r, plan, "failed")
           s    == ApplyPhaseOutcome(r, plan, "failed")
           wf   == CHOOSE x \in to : TRUE
<1>1. CASE to = {}
  <2>1. s = [r EXCEPT !.wf = "blocked", !.rt = "failed", !.pid = 0, !.err = "other"]
    BY <1>1 DEF ApplyPhaseOutcome
  <2> QED
    BY ZenonT(60), <2>1 DEF SameCounters, Task, WorkflowStates, RuntimeStatuses, ErrorClasses
<1>2. CASE to # {}
  <2>1. wf \in WorkflowStates
    BY <1>2, OutcomeType
  <2>2. s = [r EXCEPT !.wf = wf, !.rt = "failed", !.pid = 0, !.delay = TRUE /\ r.delay,
                      !.handoff = TRUE /\ r.handoff, !.reviews = r.reviews]
    BY <1>2 DEF ApplyPhaseOutcome, Phase
  <2> QED
    BY ZenonT(60), <2>1, <2>2 DEF SameCounters, Task, RuntimeStatuses
<1> QED
  BY <1>1, <1>2

LEMMA ToolUnavailableKeeps ==
  ASSUME NEW r \in Task
  PROVE  ApplyToolUnavailable(r) \in Task /\ SameCounters(r, ApplyToolUnavailable(r))
BY DEF ApplyToolUnavailable, SameCounters, Task, RuntimeStatuses, ErrorClasses

LEMMA MergeResultKeeps ==
  ASSUME NEW r \in Task, NEW success \in BOOLEAN
  PROVE  LET s == ApplyMergeResult(r, success) IN s \in Task /\ SameCounters(r, s)
<1> DEFINE s  == ApplyMergeResult(r, success)
           wf == IF success THEN "merged" ELSE "blocked"
           rt == IF success THEN "idle" ELSE "paused"
<1>1. wf \in WorkflowStates /\ rt \in RuntimeStatuses
  BY DEF WorkflowStates, RuntimeStatuses
<1>2. s = r \/ s = [r EXCEPT !.wf = wf, !.rt = rt, !.pid = 0]
  BY DEF ApplyMergeResult
<1> HIDE DEF s, wf, rt
<1>3. s \in Task /\ SameCounters(r, s)
  BY ZenonT(60), <1>1, <1>2 DEF SameCounters, Task
<1> QED
  BY <1>3 DEF s

LEMMA ResumeMergeKeeps ==
  ASSUME NEW r \in Task
  PROVE  ResumeMerge(r) \in Task /\ SameCounters(r, ResumeMerge(r))
BY ZenonT(60) DEF ResumeMerge, SameCounters, Task, WorkflowStates, RuntimeStatuses

-----------------------------------------------------------------------------
(* What the coordinator decides when a performer exits.                    *)

LEMMA RequeueKeeps ==
  ASSUME NEW r \in Task, NEW same \in BOOLEAN, NEW rt \in RuntimeStatuses,
         NEW err \in ErrorClasses
  PROVE  LET s == Requeue(r, same, rt, err) IN s \in Task /\ SameCounters(r, s)
<1> DEFINE last == IF Attached(r) THEN r.wt ELSE r.last
           wt   == IF same THEN r.wt ELSE 0
           s    == Requeue(r, same, rt, err)
<1>1. last \in Branches \cup {0} /\ wt \in Branches \cup {0}
  BY DEF Task
<1>2. s = [r EXCEPT !.wf = "todo", !.rt = rt, !.pid = 0, !.err = err,
                    !.last = last, !.wt = wt]
  BY DEF Requeue
<1> HIDE DEF last, wt, s
<1>3. s \in Task /\ SameCounters(r, s)
  BY <1>1, <1>2 DEF Task, SameCounters, WorkflowStates
<1> QED
  BY <1>3 DEF s

LEMMA BlockKeeps ==
  ASSUME NEW r \in Task, NEW keep \in BOOLEAN
  PROVE  Block(r, keep) \in Task /\ SameCounters(r, Block(r, keep))
<1> DEFINE wt == IF keep THEN r.wt ELSE 0
<1>1. wt \in Branches \cup {0}
  BY DEF Task
<1>2. Block(r, keep) = [r EXCEPT !.wf = "blocked", !.rt = "failed", !.pid = 0,
                                 !.err = "other", !.wt = wt]
  BY DEF Block
<1> HIDE DEF wt
<1> QED
  BY ZenonT(60), <1>1, <1>2 DEF Task, SameCounters, WorkflowStates, RuntimeStatuses, ErrorClasses

\* Strategies as ResolveRetryStrategy hands them out for the record r: a counted
\* retry only within a budget.
Affordable(r, s) ==
  /\ s \in Strategies
  /\ s.do = "reported" => r.retries < MaxAttempts
  /\ s.do = "auto" => r.retries < AutoRetryMax

\* What is decided for an exit is a strategy the record can afford.
LEMMA StrategyAffordable ==
  ASSUME NEW r \in Task, NEW e \in Exits, NEW attempt \in Nat,
         NEW commits \in BOOLEAN, NEW healthy \in BOOLEAN
  PROVE  Affordable(r, ResolveRetryStrategy(r, e, attempt, commits, healthy))
<1>1. r.retries \in Nat
  BY DEF Task
<1>2. ASSUME NEW kind \in ErrorKinds
      PROVE  Affordable(r, ReportedError(r, kind, commits, healthy))
  <2> DEFINE keep == kind # "errNone"
             same == kind = "errChanges" /\ commits /\ healthy
  <2>1. keep \in BOOLEAN /\ same \in BOOLEAN
    BY Zenon
  <2>2. kind \in Kinds
    BY DEF Kinds
  <2>3. ReportedError(r, kind, commits, healthy) =
          IF RetryBudgetExhausted(r) THEN Strategy("blockBudget", keep, kind)
                                     ELSE Strategy("reported", same, kind)
    BY DEF ReportedError
  <2> HIDE DEF keep, same
  <2> QED
    BY <1>1, <2>1, <2>2, <2>3, AttemptsAssumption
       DEF RetryBudgetExhausted, Strategy, Strategies, Affordable
<1>3. Affordable(r, FailureStrategy(r, e, attempt, commits, healthy))
  <2> DEFINE marked  == IF "errChanges" \in e.log THEN "errChanges" ELSE "errNone"
             attached == Attached(r)
  <2>1. marked \in ErrorKinds /\ attached \in BOOLEAN
    BY DEF ErrorKinds, Attached
  <2>2. Affordable(r, ReportedError(r, marked, commits, healthy))
    BY <1>2, <2>1
  <2>3. "nochanges" \in Kinds /\ "none" \in Kinds
    BY DEF Kinds
  <2>4. /\ Affordable(r, Strategy("merge", TRUE, "nochanges"))
        /\ Affordable(r, Strategy("avail", attached, "none"))
        /\ Affordable(r, Strategy("attempt", TRUE, "none"))
        /\ Affordable(r, Strategy("blockFailure", TRUE, "none"))
        /\ ShouldAutoRetry(r, e) => Affordable(r, Strategy("auto", healthy, "none"))
    <3> HIDE DEF attached
    <3> QED
      BY <1>1, <2>1, <2>3 DEF Strategy, Strategies, Affordable, ShouldAutoRetry
  <2> HIDE DEF marked
  <2> QED
    BY <2>2, <2>4 DEF FailureStrategy, marked
<1>4. CASE e.kind \in ErrorKinds
  <2> DEFINE keep == e.kind = "errChanges"
  <2>1. keep \in BOOLEAN
    OBVIOUS
  <2>2. Affordable(r, Strategy("blockReport", keep, e.kind))
    <3> HIDE DEF keep
    <3> QED
      BY <2>1, <1>4 DEF Strategy, Strategies, Affordable, Kinds
  <2>3. Affordable(r, ReportedError(r, e.kind, commits, healthy))
    BY <1>2, <1>4
  <2>4. \/ ResolveRetryStrategy(r, e, attempt, commits, healthy)
             = Strategy("blockReport", keep, e.kind)
        \/ ResolveRetryStrategy(r, e, attempt, commits, healthy)
             = FailureStrategy(r, e, attempt, commits, healthy)
        \/ ResolveRetryStrategy(r, e, attempt, commits, healthy)
             = ReportedError(r, e.kind, commits, healthy)
    BY <1>4 DEF ResolveRetryStrategy, ErrorKinds
  <2> HIDE DEF keep
  <2> QED
    BY <1>3, <2>2, <2>3, <2>4
<1>5. CASE e.kind \notin ErrorKinds
  <2>1. e.kind \in {"changes", "nochanges", "none"} /\ e.kind \in Kinds
    BY <1>5 DEF Exits, Kinds
  <2>2. /\ Affordable(r, Strategy("merge", TRUE, e.kind))
        /\ Affordable(r, Strategy("done", TRUE, e.kind))
    BY <2>1 DEF Strategy, Strategies, Affordable
  <2> QED
    BY <1>3, <1>5, <2>1, <2>2 DEF ResolveRetryStrategy, ErrorKinds
<1> QED
  BY <1>4, <1>5

\* Applying an affordable strategy.
LEMMA StrategyKeeps ==
  ASSUME NEW r0 \in Task, NEW s, Affordable(r0, s), NEW code
  PROVE  LET t == ApplyStrategy(r0, s, code) IN t \in Task /\ Within(r0, t)
<1> DEFINE r == [r0 EXCEPT !.delay = FALSE]
           t == ApplyStrategy(r0, s, code)
           rt == IF s.same THEN "failed" ELSE "idle"
           delay == code = "rate" /\ ~s.same
<1>1. r \in Task /\ SameCounters(r0, r)
  BY DEF Task, SameCounters
<1>2. s.same \in BOOLEAN /\ rt \in RuntimeStatuses /\ delay \in BOOLEAN
  BY DEF Affordable, Strategies, RuntimeStatuses
<1>3. /\ "other" \in ErrorClasses /\ "avail" \in ErrorClasses
      /\ "failed" \in RuntimeStatuses /\ "running" \in RuntimeStatuses
      /\ "idle" \in RuntimeStatuses /\ "phase_done" \in RuntimeStatuses
      /\ "claimed" \in WorkflowStates /\ "merged" \in WorkflowStates
      /\ "in_progress" \in WorkflowStates
  BY DEF ErrorClasses, RuntimeStatuses, WorkflowStates
<1> HIDE DEF r, rt, delay
<1>4. CASE s.do = "reported"
  <2> DEFINE q == Requeue(r, s.same, "failed", "other")
  <2>1. q \in Task /\ SameCounters(r, q)
    BY <1>1, <1>2, <1>3, RequeueKeeps
  <2>2. t = [q EXCEPT !.retries = r.retries + 1]
    BY <1>4 DEF ApplyStrategy, r
  <2>3. r0.retries < MaxAttempts
    BY <1>4 DEF Affordable
  <2> HIDE DEF q, t
  <2>4. t \in Task /\ Within(r0, t)
    BY <1>1, <2>1, <2>2, <2>3, AttemptsAssumption, AutoRetryAssumption
       DEF Task, Within, SameCounters, RetryBudget
  <2> QED
    BY <2>4 DEF t
<1>5. CASE s.do = "auto"
  <2> DEFINE q == Requeue(r, s.same, rt, "other")
  <2>1. q \in Task /\ SameCounters(r, q)
    BY <1>1, <1>2, <1>3, RequeueKeeps
  <2>2. t = [q EXCEPT !.retries = r.retries + 1]
    BY <1>5 DEF ApplyStrategy, r, rt
  <2>3. r0.retries < AutoRetryMax
    BY <1>5 DEF Affordable
  <2> HIDE DEF q, t
  <2>4. t \in Task /\ Within(r0, t)
    BY <1>1, <2>1, <2>2, <2>3, AttemptsAssumption, AutoRetryAssumption
       DEF Task, Within, SameCounters, RetryBudget
  <2> QED
    BY <2>4 DEF t
<1>6. CASE s.do = "avail"
  <2> DEFINE q == Requeue(r, s.same, rt, "avail")
  <2>1. q \in Task /\ SameCounters(r, q)
    BY <1>1, <1>2, <1>3, RequeueKeeps
  <2>2. t = [q EXCEPT !.delay = delay]
    BY <1>6 DEF ApplyStrategy, r, rt, delay
  <2> HIDE DEF q, t
  <2>3. t \in Task /\ SameCounters(r0, t)
    BY <1>1, <1>2, <2>1, <2>2 DEF Task, SameCounters
  <2> QED
    BY <2>3, SameIsWithin DEF t
<1>7. CASE s.do = "blockReport"
  <2> DEFINE q    == Block(r, s.same)
             last == IF Attached(r) THEN r.wt ELSE r.last
  <2>1. q \in Task /\ SameCounters(r, q)
    BY <1>1, <1>2, BlockKeeps
  <2>2. last \in Branches \cup {0}
    BY <1>1 DEF Task
  <2>3. t = [q EXCEPT !.last = last]
    BY <1>7 DEF ApplyStrategy, r
  <2> HIDE DEF q, t, last
  <2>4. t \in Task /\ SameCounters(r0, t)
    BY <1>1, <2>1, <2>2, <2>3 DEF Task, SameCounters
  <2> QED
    BY <2>4, SameIsWithin DEF t
<1>8. CASE s.do \in {"blockBudget", "blockFailure"}
  <2>1. t = Block(r, s.same)
    BY <1>8 DEF ApplyStrategy, r
  <2>2. t \in Task /\ SameCounters(r0, t)
    BY <1>1, <1>2, <2>1, BlockKeeps DEF SameCounters
  <2> QED
    BY <2>2, SameIsWithin
<1>9. CASE s.do \in {"attempt", "merge", "done"}
  <2>1. \/ t = [r EXCEPT !.wf = "claimed", !.rt = "running", !.pid = 0, !.err = "other"]
        \/ t = [r EXCEPT !.wf = "merged", !.rt = "idle", !.pid = 0]
        \/ t = [r EXCEPT !.wf = "in_progress", !.rt = "phase_done", !.pid = 0]
    BY <1>9 DEF ApplyStrategy, r
  <2> HIDE DEF t
  <2>2. t \in Task
    <3>1. CASE t = [r EXCEPT !.wf = "claimed", !.rt = "running", !.pid = 0,
                             !.err = "other"]
      BY <1>1, <1>3, <3>1 DEF Task
    <3>2. CASE t = [r EXCEPT !.wf = "merged", !.rt = "idle", !.pid = 0]
      BY <1>1, <1>3, <3>2 DEF Task
    <3>3. CASE t = [r EXCEPT !.wf = "in_progress", !.rt = "phase_done", !.pid = 0]
      BY <1>1, <1>3, <3>3 DEF Task
    <3> QED
      BY <2>1, <3>1, <3>2, <3>3
  <2>3. SameCounters(r0, t)
    BY <1>1, <2>1 DEF Task, SameCounters
  <2> QED
    BY <2>2, <2>3, SameIsWithin DEF t
<1> QED
  BY <1>4, <1>5, <1>6, <1>7, <1>8, <1>9 DEF Affordable, Strategies

LEMMA ClaimKeeps ==
  ASSUME NEW r \in Task, NEW claim \in Branches, NEW branch \in Branches
  PROVE  LET s == ApplyDispatchClaim(r, claim, branch)
         IN s \in Task /\ SameCounters(r, s)
BY DEF ApplyDispatchClaim, Task, SameCounters, WorkflowStates, RuntimeStatuses

LEMMA PidKeeps ==
  ASSUME NEW r \in Task, NEW p \in Procs
  PROVE  ApplyDispatchPid(r, p) \in Task /\ SameCounters(r, ApplyDispatchPid(r, p))
BY DEF ApplyDispatchPid, Task, SameCounters, RuntimeStatuses
=============================================================================
