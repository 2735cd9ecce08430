----------------------------- MODULE Completion -----------------------------
(***************************************************************************)
(* What the coordinator does with a task when the process that worked on   *)
(* it exits: who is believed (the result the performer reported or its     *)
(* exit status), whether the task is done, retried or blocked, and what    *)
(* that does to its record.                                                *)
(***************************************************************************)
EXTENDS TaskFSM

\* PerformerCompletionKind. Both kinds of success without a new commit are
\* "nochanges"; "none" is a process without a recorded phase_result kind.
ErrorKinds == {"errChanges", "errNone", "precond"}
Kinds      == ErrorKinds \cup {"changes", "nochanges", "none"}

\* Error codes by how they steer the decision: E601 (rate limited or provider
\* overloaded), E602, another code of error_code_retry_list, E901, any other.
Codes == {"rate", "quota", "retryable", "E901", "fatal"}

\* Which result markers the tail of the performer's log holds.
Logs == SUBSET {"done", "errChanges", "errNone"}

\* The result_explanation of an exit against the one stored on the task.
Explanations == {"none", "new", "same"}

Exits ==
  [success : BOOLEAN, kind : Kinds, code : Codes, log : Logs, expl : Explanations]

\* resolve_completion_authority: commits on the branch make the reported kind
\* count whatever the exit status; without it the exit status decides.
Authority(kind, commits, exitOk) ==
  IF (commits /\ kind # "none") \/ exitOk
  THEN [success |-> kind # "none", kind |-> kind]
  ELSE [success |-> FALSE, kind |-> "none"]

-----------------------------------------------------------------------------
(* The strategy.                                                           *)

Strategies ==
  [do : {"reported", "attempt", "avail", "auto",
         "blockReport", "blockBudget", "blockFailure", "merge", "done"},
   same : BOOLEAN,       \* the task keeps its worktree
   kind : Kinds]

Strategy(do, same, kind) == [do |-> do, same |-> same, kind |-> kind]

RetryBudgetExhausted(r) == r.retries >= MaxAttempts

\* terminal_tool_report: reports that are never worth another attempt.
TerminalReport(r, e) ==
  \/ e.kind = "precond"
  \/ e.kind = "errNone" /\ e.expl # "none"
  \/ e.expl = "same" /\ r.retries > 0

\* A reported error is retried in place only with commits on a healthy worktree.
ReportedError(r, kind, commits, healthy) ==
  IF RetryBudgetExhausted(r)
  THEN Strategy("blockBudget", kind # "errNone", kind)
  ELSE Strategy("reported", kind = "errChanges" /\ commits /\ healthy, kind)

\* Mutant: one automatic retry too many.
ShouldAutoRetryOnceMore(r, e) == e.code = "retryable" /\ r.retries <= AutoRetryMax

ShouldAutoRetry(r, e) == e.code = "retryable" /\ r.retries < AutoRetryMax

\* A process that did not succeed, in the order resolve_retry_strategy asks.
FailureStrategy(r, e, attempt, commits, healthy) ==
  IF "done" \in e.log /\ e.code = "rate"
       THEN Strategy("merge", TRUE, "nochanges")
  ELSE IF e.log \cap ErrorKinds # {} /\ e.code # "quota"
       THEN ReportedError(r, IF "errChanges" \in e.log THEN "errChanges" ELSE "errNone",
                          commits, healthy)
  ELSE IF e.code \in {"rate", "quota"}
       THEN Strategy("avail", Attached(r), "none")
  ELSE IF attempt < MaxAttempts THEN Strategy("attempt", TRUE, "none")
  ELSE IF ShouldAutoRetry(r, e) THEN Strategy("auto", healthy, "none")
  ELSE Strategy("blockFailure", TRUE, "none")

\* Mutant: a reported change is closed like a success without one.
ResolveRetryStrategyClosing(r, e, attempt, commits, healthy) ==
  IF e.kind \in ErrorKinds /\ e.code # "quota" /\ TerminalReport(r, e)
  THEN Strategy("blockReport", e.kind = "errChanges", e.kind)
  ELSE IF ~e.success THEN FailureStrategy(r, e, attempt, commits, healthy)
  ELSE IF e.kind \in ErrorKinds THEN ReportedError(r, e.kind, commits, healthy)
  ELSE Strategy("merge", TRUE, e.kind)

\* commits and healthy describe the worktree the registry names, which need
\* not be the one the exited process worked in.
ResolveRetryStrategy(r, e, attempt, commits, healthy) ==
  IF e.kind \in ErrorKinds /\ e.code # "quota" /\ TerminalReport(r, e)
  THEN Strategy("blockReport", e.kind = "errChanges", e.kind)
  ELSE IF ~e.success THEN FailureStrategy(r, e, attempt, commits, healthy)
  ELSE CASE e.kind \in ErrorKinds  -> ReportedError(r, e.kind, commits, healthy)
         [] e.kind = "nochanges"   -> Strategy("merge", TRUE, e.kind)
         [] e.kind \in {"changes", "none"} -> Strategy("done", TRUE, e.kind)

-----------------------------------------------------------------------------
(* The effect of a strategy on the record, whatever state the task is in.  *)

\* Mutant: the task is not put back to todo.
RequeueInPlace(r, same, rt, err) ==
  [r EXCEPT !.rt = rt, !.pid = 0, !.err = err,
            !.last = IF Attached(r) THEN r.wt ELSE r.last,
            !.wt = IF same THEN r.wt ELSE 0]

\* Back to todo: a kept worktree is marked for a retry in place.
Requeue(r, same, rt, err) ==
  [r EXCEPT !.wf = "todo", !.rt = rt, !.pid = 0, !.err = err,
            !.last = IF Attached(r) THEN r.wt ELSE r.last,
            !.wt = IF same THEN r.wt ELSE 0]

Block(r, keep) ==
  [r EXCEPT !.wf = "blocked", !.rt = "failed", !.pid = 0, !.err = "other",
            !.wt = IF keep THEN r.wt ELSE 0]

\* Only an availability outcome leaves a delay behind, E601 without a worktree.
ApplyStrategy(r0, s, code) ==
  LET r == [r0 EXCEPT !.delay = FALSE] IN
  CASE s.do = "reported" ->
         [Requeue(r, s.same, "failed", "other") EXCEPT !.retries = r.retries + 1]
    [] s.do = "auto" ->
         [Requeue(r, s.same, IF s.same THEN "failed" ELSE "idle", "other")
            EXCEPT !.retries = r.retries + 1]
    [] s.do = "avail" ->
         [Requeue(r, s.same, IF s.same THEN "failed" ELSE "idle", "avail")
            EXCEPT !.delay = code = "rate" /\ ~s.same]
    [] s.do = "attempt" ->
         [r EXCEPT !.wf = "claimed", !.rt = "running", !.pid = 0, !.err = "other"]
    [] s.do = "blockReport" ->
         [Block(r, s.same) EXCEPT !.last = IF Attached(r) THEN r.wt ELSE r.last]
    [] s.do \in {"blockBudget", "blockFailure"} -> Block(r, s.same)
    [] s.do = "merge" -> [r EXCEPT !.wf = "merged", !.rt = "idle", !.pid = 0]
    [] s.do = "done"  -> [r EXCEPT !.wf = "in_progress", !.rt = "phase_done",
                                   !.pid = 0]

\* The claim a dispatch writes. last_heartbeat is not touched.
ApplyDispatchClaim(r, claim, branch) ==
  [r EXCEPT !.wf = "claimed", !.rt = "dispatched", !.pid = 0,
            !.claim = claim, !.wt = branch]

ApplyDispatchPid(r, p) == [r EXCEPT !.pid = p, !.rt = "running"]
=============================================================================
