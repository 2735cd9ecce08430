---------------------------- MODULE ProcessProofs ----------------------------
(***************************************************************************)
(* What every step makes of the performer processes: that no two of them   *)
(* ever work in one worktree, and that no task is blocked without a reason *)
(* by an event that comes late.                                            *)
(***************************************************************************)
EXTENDS RegistryProofs

-----------------------------------------------------------------------------
(* Records: only a claim gives a task another claim or a worktree.         *)

Tame(r, s) ==
  s.claim = r.claim /\ s.wt \in {r.wt, 0} /\ s.last \in {r.last, r.wt} /\ s.pid \in {r.pid, 0}

LEMMA MovesAreTame ==
  ASSUME NEW t, NEW r, NEW s, NEW do \in {x.do : x \in Strategies},
         PlainMove(r, s) \/ MergeMove(r, s, TRUE) \/ MergeMove(r, s, FALSE) \/ ResumeMove(r, s)
           \/ StartMove(t, r, s) \/ ExitMove(r, s, do)
  PROVE  Tame(r, s)
BY DEF PlainMove, Stays, StaleMove, GhostMove, DepMove, PhaseMove, MergeMove, ResumeMove,
   StartMove, SweepMove, ExitMove, SamePlace, Tame, Strategies

LEMMA DepMovesAreTame ==
  ASSUME NEW r, NEW m, NEW s, Tame(r, m), DepMove(m, s)
  PROVE  Tame(r, s)
BY DEF Tame, DepMove, SamePlace

LEMMA BusIsTame ==
  ASSUME TypeOK, ApplyBus, NEW t \in Tasks
  PROVE  Tame(task[t], task'[t])
<1> DEFINE r == ApplyUpdate(task[t], bus[t])
<1>1. task'[t] = StalePolicy(t, r)
  BY DEF ApplyBus
<1>2. r \in Task /\ Stays(task[t], r)
  BY Records, UpdateMoves, UpdateKeeps DEF TypeOK, BusOK
<1> HIDE DEF r
<1> QED
  BY <1>1, <1>2 DEF StalePolicy, Task, Tame, Stays, SamePlace

LEMMA AttemptedMoves ==
  ASSUME TypeOK, NEW t \in Tasks, NEW p \in Procs
  PROVE  Attempted(t, p) \in Task /\ ExitMove(task[t], Attempted(t, p), "attempt")
<1>1. Strategy("attempt", TRUE, "none") \in Strategies
  BY DEF Strategy, Strategies, Kinds
<1>2. Strategy("attempt", TRUE, "none").do = "attempt"
  BY DEF Strategy
<1> QED
  BY <1>1, <1>2, Records, AttemptedKeeps, StrategyMoves DEF Attempted

LEMMA AttemptIsTame ==
  ASSUME TypeOK, NEW t \in Tasks, NEW p \in Procs, Salvage(t, p) \/ Respawn(t, p),
         NEW u \in Tasks
  PROVE  Tame(task[u], task'[u])
<1> DEFINE r   == Attempted(t, p)
           reg == Completed(t, r)
<1>1. r \in Task /\ Tame(task[t], r)
  BY AttemptedMoves DEF ExitMove, Tame
<1>2. task' = reg \/ task' = [reg EXCEPT ![t].wf = "merged", ![t].rt = "idle", ![t].pid = 0]
  BY DEF Salvage, Respawn, Attempted
<1> HIDE DEF r
<1>3. reg \in [Tasks -> Task]
  BY <1>1, Records, ReconcileKeeps DEF Completed
<1>4. DepMove(IF u = t THEN r ELSE task[u], reg[u])
  BY <1>1, CompletedMoves
<1>5. Tame(task[u], reg[u])
  BY <1>1, <1>4 DEF Tame, DepMove, SamePlace
<1> HIDE DEF reg
<1>6. Tame(reg[u], task'[u])
  BY <1>2, <1>3 DEF Tame, Task
<1> QED
  BY <1>2, <1>3, <1>5 DEF Tame, Task

LEMMA TameSteps ==
  ASSUME TypeOK, Next, NEW t \in Tasks
  PROVE  Tame(task[t], task'[t]) \/ Claim(t) \/ Launch(t)
<1>u. CASE task'[t] = task[t]
  BY <1>u DEF Tame
<1>p. Strategies # {} /\ \E do \in {x.do : x \in Strategies} : TRUE
  <2>1. Strategy("done", TRUE, "none") \in Strategies
    BY DEF Strategy, Strategies, Kinds
  <2> QED
    BY <2>1
<1>1. CASE CleanupGhosts \/ PauseOnConflict \/ Advance \/ \E u \in Tasks : HeartbeatAges(u)
  <2>1. PlainMove(task[t], task'[t])
    BY <1>1, GhostsMove, PauseMoves, AdvanceMoves, AgingMoves DEF PlainMove
  <2> QED
    BY <1>p, <2>1, MovesAreTame
<1>2. CASE ApplyBus
  BY <1>2, BusIsTame
<1>3. CASE Start
  BY <1>3, <1>p, StartMoves, MovesAreTame
<1>4. CASE MergesDone \/ OperatorResumes
  <2>1. task'[t] = task[t] \/ ResumeMove(task[t], task'[t])
    BY <1>4, FailuresMove
  <2> QED
    BY <1>u, <1>p, <2>1, MovesAreTame
<1>5. CASE TakeMergeResult
  <2> DEFINE m == Head(merges)
  <2>1. CASE UNCHANGED task
    BY <1>u, <2>1
  <2>2. CASE ~UNCHANGED task
    <3>1. PICK r \in Task :
            /\ MergeMove(task[m.task], r, m.how = "ok")
            /\ \A u \in Tasks : DepMove(IF u = m.task THEN r ELSE task[u], task'[u])
      BY <1>5, <2>2, TakenResultMoves
    <3> HIDE DEF m
    <3>2. Tame(task[m.task], r) /\ Tame(task[t], task[t])
      BY <3>1 DEF Tame, MergeMove, SamePlace
    <3> QED
      BY <3>1, <3>2, DepMovesAreTame
  <2> QED
    BY <2>1, <2>2
<1>6. ASSUME NEW u \in Tasks, NEW p \in Procs, TakeExit(u, p) \/ PauseOnExit(u, p)
      PROVE  Tame(task[t], task'[t])
  <2>1. PICK s, r : Concludes(u, p, s, r)
    BY <1>6, ExitMoves
  <2>2. Tame(task[u], r) /\ Tame(task[t], task[t])
    BY <2>1, MovesAreTame DEF Concludes, Tame
  <2> QED
    BY <2>1, <2>2, DepMovesAreTame DEF Concludes
<1>7. ASSUME NEW u \in Tasks, NEW p \in Procs, Salvage(u, p) \/ Respawn(u, p)
      PROVE  Tame(task[t], task'[t])
  BY <1>7, AttemptIsTame
<1>8. ASSUME NEW u \in Tasks, Claim(u) \/ Launch(u)
      PROVE  Tame(task[t], task'[t]) \/ Claim(t) \/ Launch(t)
  BY <1>8, <1>u, ClaimMoves, LaunchMoves
<1> QED
  BY <1>u, <1>1, <1>2, <1>3, <1>4, <1>5, <1>6, <1>7, <1>8, RegistryFrame DEF RegistryStep

-----------------------------------------------------------------------------
(* Processes: what a step makes of each.                                   *)

Rests(p)  == proc'[p] = proc[p]
Killed(p) ==
  Busy(proc[p]) /\ \E st \in {"failing", "exited"} : proc'[p] = [proc[p] EXCEPT !.st = st]
Dropped(p) ==
  /\ proc'[p] = Forgotten(p)
  /\ \/ Start /\ proc[p].st \in {"exited", "sent"}
     \/ ~Start /\ exits # <<>> /\ p = Head(exits) /\ exits' = Tail(exits)
Born(p) ==
  /\ p = nproc + 1
  /\ \/ \E t \in Tasks : (Launch(t) \/ LaunchLost(t)) /\ proc' = Spawned(t)
     \/ \E t \in Tasks, x \in Procs : Respawn(t, x)


LEMMA TerminatedIsKilled ==
  ASSUME TypeOK, proc' = Terminated, NEW p \in Procs
  PROVE  Rests(p) \/ Killed(p)
BY DEF Terminated, Alive, Rests, Killed

LEMMA PerformerStaysAtHome ==
  ASSUME TypeOK, NEW p \in Procs, Performer(p), NEW x \in Procs, x # p
  PROVE  Rests(x)
<1>1. proc \in [Procs -> Process]
  BY DEF TypeOK, ProcOK
<1>2. CASE StartTool(p) \/ FailExit(p) \/ ToolSilent(p) \/ Commit(p) \/ CommitFails(p) \/ SendExit(p)
  BY <1>1, <1>2 DEF StartTool, FailExit, ToolSilent, Commit, CommitFails, SendExit, Rests
<1>3. CASE ToolChanges(p) \/ ToolNoChanges(p)
  BY <1>1, <1>3 DEF ToolChanges, ToolNoChanges, ReportDone, Rests
<1>4. CASE ToolFails(p)
  BY <1>1, <1>4 DEF ToolFails, Rests
<1> QED
  BY <1>2, <1>3, <1>4 DEF Performer

LEMMA ProcessFrame ==
  ASSUME TypeOK, Next, NEW p \in Procs
  PROVE  Rests(p) \/ Killed(p) \/ Dropped(p) \/ Born(p) \/ Performer(p)
<1>0. proc \in [Procs -> Process]
  BY DEF TypeOK, ProcOK
<1>u. CASE UNCHANGED proc
  BY <1>u DEF Rests
<1>t. CASE proc' = Terminated
  BY <1>t, TerminatedIsKilled
<1>1. CASE Start
  BY <1>1 DEF Start, Rests, Dropped
<1>2. CASE ApplyBus
  <2>1. PICK late \in SUBSET {t \in Tasks : HasJob(t) /\ jobs[t].signaled} :
          proc' = [x \in Procs |->
                     IF Alive(x) /\ x \in {jobs[t].proc : t \in late}
                     THEN [proc[x] EXCEPT !.st = "exited"] ELSE proc[x]]
    BY <1>2 DEF ApplyBus
  <2> QED
    BY <2>1 DEF Alive, Rests, Killed
<1>3. ASSUME NEW q \in Procs, exits # <<>>, q = Head(exits), exits' = Tail(exits), ~Start,
             proc' = [proc EXCEPT ![q] = Forgotten(q)]
      PROVE  Rests(p) \/ Dropped(p)
  BY <1>0, <1>3 DEF Rests, Dropped
<1>4. CASE DropExit
  BY <1>3, <1>4, HeadIsProc DEF DropExit, Start, Stopped
<1>5. ASSUME NEW t \in Tasks, NEW q \in Procs, TakeExit(t, q) \/ PauseOnExit(t, q) \/ Salvage(t, q)
      PROVE  Rests(p) \/ Dropped(p)
  <2>1. ~Start
    BY <1>5 DEF TakeExit, PauseOnExit, Salvage, ExitTaken, Start, Stopped
  <2> QED
    BY <1>3, <1>5, <2>1 DEF TakeExit, PauseOnExit, Salvage, ExitTaken
<1>6. ASSUME NEW t \in Tasks, NEW q \in Procs, Respawn(t, q)
      PROVE  Rests(p) \/ Dropped(p) \/ Born(p)
  <2>1. ~Start /\ exits # <<>> /\ q = Head(exits) /\ exits' = Tail(exits)
    BY <1>6 DEF Respawn, ExitTaken, Start, Stopped
  <2>2. PICK x : proc' = [proc EXCEPT ![q] = Forgotten(q), ![nproc + 1] = x]
    BY <1>6 DEF Respawn
  <2>3. CASE p = nproc + 1
    BY <1>6, <2>3 DEF Born
  <2>4. CASE p # nproc + 1
    <3>1. proc'[p] = IF p = q THEN Forgotten(q) ELSE proc[p]
      BY <1>0, <2>2, <2>4
    <3> QED
      BY <2>1, <3>1 DEF Rests, Dropped
  <2> QED
    BY <2>3, <2>4
<1>7. ASSUME NEW t \in Tasks, Launch(t) \/ LaunchLost(t)
      PROVE  Rests(p) \/ Born(p)
  BY <1>0, <1>7 DEF Launch, LaunchLost, Spawned, Rests, Born
<1>8. ASSUME NEW q \in Procs, PhaseTimeout(q) \/ Die(q)
      PROVE  Rests(p) \/ Killed(p)
  <2>1. \E st \in {"failing", "exited"} : proc' = [proc EXCEPT ![q] = [proc[q] EXCEPT !.st = st]]
    BY <1>8, <1>0 DEF PhaseTimeout, Die
  <2>2. Busy(proc[q])
    BY <1>8 DEF PhaseTimeout, Die, Alive
  <2> QED
    BY <1>0, <2>1, <2>2 DEF Rests, Killed
<1>9. CASE Monitor
  BY <1>u, <1>2, <1>4, <1>5, <1>6, <1>9 DEF Monitor, CleanupGhosts, ConsumeRows, ExitsDone, procVars
<1>10. CASE Loop
  <2>1. CASE TakeMergeResult \/ PauseOnConflict \/ EndCycle
    BY <1>u, <1>t, <2>1 DEF TakeMergeResult, PauseOnConflict, EndCycle
  <2>2. CASE MergesDone \/ Advance \/ DispatchDone \/ \E t \in Tasks : Claim(t)
    BY <1>u, <2>2 DEF MergesDone, Advance, DispatchDone, Claim, procVars
  <2> QED
    BY <1>7, <1>9, <1>10, <2>1, <2>2 DEF Loop
<1>11. CASE MergeWorker \/ Operator
  BY <1>u, <1>11, MergeWorkerFrame DEF Operator, OperatorReviews, OperatorResumes, procVars
<1>12. CASE Environment
  <2>1. CASE DispatchFails \/ StorageFails
    BY <1>u, <1>t, <2>1 DEF DispatchFails, StorageFails
  <2>2. CASE ThrottleExpires \/ Crash \/ (\E t \in Tasks : HeartbeatAges(t))
             \/ \E q \in Procs : Heartbeat(q)
    BY <1>u, <2>2 DEF ThrottleExpires, Crash, HeartbeatAges, Heartbeat, procVars
  <2> QED
    BY <1>7, <1>8, <1>12, <2>1, <2>2 DEF Environment
<1>13. ASSUME NEW q \in Procs, Performer(q)
       PROVE  Rests(p) \/ Performer(p)
  BY <1>13, PerformerStaysAtHome
<1> QED
  BY <1>1, <1>10, <1>11, <1>12, <1>13 DEF Next

-----------------------------------------------------------------------------
(* The steps of a performer, field by field.                               *)

Identity(q, r) ==
  r.task = q.task /\ r.claim = q.claim /\ r.branch = q.branch /\ r.epoch = q.epoch

\* What it has told and left in its log stays.
SameWord(q, r) == r.rep = q.rep /\ r.kind = q.kind /\ r.log = q.log

\* Only the state of a process changes.
StateOnly(q, r) == Identity(q, r) /\ SameWord(q, r) /\ r.code = q.code /\ r.ok = q.ok

LEMMA ProcessAt ==
  ASSUME TypeOK, NEW p \in Procs
  PROVE  proc \in [Procs -> Process] /\ proc[p] \in Process
BY DEF TypeOK, ProcOK

LEMMA KilledFields ==
  ASSUME TypeOK, NEW p \in Procs, Killed(p)
  PROVE  StateOnly(proc[p], proc'[p]) /\ Busy(proc[p]) /\ proc'[p].st \in {"failing", "exited"}
BY ProcessAt DEF Killed, StateOnly, Identity, SameWord, Process

LEMMA ForgottenFields ==
  ASSUME NEW p
  PROVE  LET r == Forgotten(p) IN
         /\ Identity(proc[p], r) /\ r.rep = proc[p].rep
         /\ r.st = "done" /\ r.kind = "none" /\ r.log = {} /\ r.code = "fatal" /\ r.ok = FALSE
BY DEF Forgotten, NewProcess, Identity

LEMMA StateFields ==
  ASSUME TypeOK, NEW p \in Procs, StartTool(p) \/ ToolSilent(p) \/ FailExit(p)
  PROVE  /\ StateOnly(proc[p], proc'[p])
         /\ <<proc[p].st, proc'[p].st>> \in
              {<<"starting", "tool">>, <<"tool", "commit">>, <<"failing", "exited">>}
BY ProcessAt DEF StartTool, ToolSilent, FailExit, StateOnly, Identity, SameWord, Process

LEMMA CommitFields ==
  ASSUME TypeOK, NEW p \in Procs, Commit(p)
  PROVE  /\ Identity(proc[p], proc'[p]) /\ SameWord(proc[p], proc'[p])
         /\ proc'[p].code = proc[p].code
         /\ proc[p].st = "commit" /\ proc'[p].st = "exited" /\ proc'[p].ok
BY ProcessAt DEF Commit, Identity, SameWord, Process

LEMMA CommitFailsFields ==
  ASSUME TypeOK, NEW p \in Procs, CommitFails(p)
  PROVE  /\ Identity(proc[p], proc'[p]) /\ SameWord(proc[p], proc'[p])
         /\ proc'[p].code = "fatal" /\ proc'[p].ok = proc[p].ok
         /\ proc[p].st = "commit" /\ proc'[p].st = "failing"
BY ProcessAt DEF CommitFails, Identity, SameWord, Process

LEMMA SendExitFields ==
  ASSUME TypeOK, NEW p \in Procs, SendExit(p)
  PROVE  LET q == proc[p]
             r == proc'[p]
             v == Authority(q.kind, q.branch \in ahead, q.ok)
         IN /\ Identity(q, r) /\ r.rep = q.rep /\ r.log = q.log
            /\ q.st = "exited" /\ r.st = "sent" /\ r.ok = v.success /\ r.kind = v.kind
            /\ r.code = IF q.ok /\ ~v.success /\ ~q.rep THEN "E901" ELSE q.code
<1> DEFINE v == Authority(proc[p].kind, proc[p].branch \in ahead, proc[p].ok)
           code == IF proc[p].ok /\ ~v.success /\ ~proc[p].rep THEN "E901" ELSE proc[p].code
<1>1. proc' = [proc EXCEPT ![p].st = "sent", ![p].ok = v.success, ![p].kind = v.kind,
                           ![p].code = code]
  BY ProcessAt DEF SendExit
<1>2. proc[p].st = "exited"
  BY DEF SendExit
<1> HIDE DEF v, code
<1> QED
  BY <1>1, <1>2, ProcessAt DEF Identity, Process, v, code

LEMMA ReportFields ==
  ASSUME TypeOK, NEW p \in Procs, NEW kind, ReportDone(p, kind)
  PROVE  LET q == proc[p]
             r == proc'[p]
         IN /\ Identity(q, r) /\ r.code = q.code /\ r.ok = q.ok
            /\ r.st = IF Accepted(p) THEN "commit" ELSE "failing"
            /\ r.rep = (q.rep \/ Accepted(p))
            /\ r.kind = IF Accepted(p) THEN kind ELSE q.kind
            /\ r.log = q.log \cup {"done"}
<1> DEFINE acc == Accepted(p)
<1>1. proc' = [proc EXCEPT
       ![p].st   = IF acc THEN "commit" ELSE "failing",
       ![p].rep  = @ \/ acc,
       ![p].kind = IF acc THEN kind ELSE @,
       ![p].log  = @ \cup {"done"}]
  BY DEF ReportDone
<1> HIDE DEF acc
<1> QED
  BY <1>1, ProcessAt DEF Identity, Process, acc

LEMMA FailsFields ==
  ASSUME TypeOK, NEW p \in Procs, ToolFails(p)
  PROVE  \E o \in Outcomes \ {"changes", "nochanges", "silent"} :
           LET q == proc[p]
               r == proc'[p]
               f == FailureOf(o)
           IN /\ Identity(q, r) /\ r.ok = q.ok /\ q.st = "tool"
              /\ r.st \in {"starting", "failing"}
              /\ r.st = "starting" => f.code \notin {"rate", "quota"}
              /\ r.rep = (q.rep \/ Accepted(p))
              /\ r.kind = IF Accepted(p) THEN f.kind ELSE q.kind
              /\ r.code = f.code
              /\ r.log = q.log \cup f.log
              /\ \E edit \in f.edits : Leave(q.branch, edit)
<1>1. PICK o \in Outcomes \ {"changes", "nochanges", "silent"} :
        LET f == FailureOf(o)
            again == f.code \notin {"rate", "quota"} /\ proc[p].inner < InnerAttempts
        IN /\ \E edit \in f.edits : Leave(proc[p].branch, edit)
           /\ proc' = [proc EXCEPT
                ![p].st    = IF again THEN "starting" ELSE "failing",
                ![p].inner = IF again THEN @ + 1 ELSE @,
                ![p].rep   = @ \/ Accepted(p),
                ![p].kind  = IF Accepted(p) THEN f.kind ELSE @,
                ![p].code  = f.code,
                ![p].log   = @ \cup f.log]
  BY DEF ToolFails
<1> DEFINE f     == FailureOf(o)
           again == f.code \notin {"rate", "quota"} /\ proc[p].inner < InnerAttempts
           acc   == Accepted(p)
<1>2. proc' = [proc EXCEPT
        ![p].st    = IF again THEN "starting" ELSE "failing",
        ![p].inner = IF again THEN @ + 1 ELSE @,
        ![p].rep   = @ \/ acc,
        ![p].kind  = IF acc THEN f.kind ELSE @,
        ![p].code  = f.code,
        ![p].log   = @ \cup f.log]
  BY <1>1
<1>3. again => f.code \notin {"rate", "quota"}
  OBVIOUS
<1>4. proc[p].st = "tool" /\ \E edit \in f.edits : Leave(proc[p].branch, edit)
  BY <1>1 DEF ToolFails
<1> HIDE DEF f, again, acc
<1>5. /\ Identity(proc[p], proc'[p]) /\ proc'[p].ok = proc[p].ok
      /\ proc'[p].st = IF again THEN "starting" ELSE "failing"
      /\ proc'[p].rep = (proc[p].rep \/ acc)
      /\ proc'[p].kind = IF acc THEN f.kind ELSE proc[p].kind
      /\ proc'[p].code = f.code
      /\ proc'[p].log = proc[p].log \cup f.log
  BY <1>2, ProcessAt DEF Identity, Process
<1> QED
  BY <1>3, <1>4, <1>5 DEF f, acc

-----------------------------------------------------------------------------
(* A process goes on as who it is.                                         *)

\* Its exit has not been dealt with.
Live == {"starting", "tool", "failing", "commit", "exited", "sent"}

GoesOn(q, r) ==
  /\ Identity(q, r)
  /\ r.st = "none" <=> q.st = "none"
  /\ Busy(r) => Busy(q)
  /\ r.st \in Live => q.st \in Live
  /\ r.rep => q.rep \/ Busy(q)

\* Processes are numbered as they are started, in runs that are numbered too.
Unborn == \A p \in Procs : Started(p) => p <= nproc /\ proc[p].epoch <= restarts

Orderly == Posted /\ Unborn

LEMMA PerformerGoesOn ==
  ASSUME TypeOK, NEW p \in Procs, Performer(p)
  PROVE  /\ GoesOn(proc[p], proc'[p])
         /\ proc[p].st \in {"starting", "tool", "failing", "commit", "exited"}
         /\ SendExit(p) \/ Busy(proc[p])
<1> USE DEF GoesOn, Busy, Live
<1>1. CASE StartTool(p) \/ ToolSilent(p) \/ FailExit(p)
  BY <1>1, StateFields DEF StateOnly, SameWord
<1>2. CASE Commit(p)
  BY <1>2, CommitFields DEF SameWord
<1>3. CASE CommitFails(p)
  BY <1>3, CommitFailsFields DEF SameWord
<1>4. CASE SendExit(p)
  BY <1>4, SendExitFields
<1>5. CASE ToolChanges(p) \/ ToolNoChanges(p)
  <2>1. proc[p].st = "tool" /\ \E kind : ReportDone(p, kind)
    BY <1>5 DEF ToolChanges, ToolNoChanges
  <2> QED
    BY <2>1, ReportFields
<1>6. CASE ToolFails(p)
  BY <1>6, FailsFields
<1> QED
  BY <1>1, <1>2, <1>3, <1>4, <1>5, <1>6 DEF Performer

LEMMA HeadIsSent ==
  ASSUME TypeOK, Posted, exits # <<>>
  PROVE  /\ Head(exits) \in Procs
         /\ proc[Head(exits)].st = "sent" /\ proc[Head(exits)].epoch = restarts
<1>1. exits \in Seq(Procs) /\ Head(exits) = exits[1] /\ 1 \in DOMAIN exits
  BY DEF TypeOK, ProcOK
<1> QED
  BY <1>1, HeadIsProc DEF Posted

LEMMA EachGoesOn ==
  ASSUME TypeOK, Posted, Next, NEW p \in Procs
  PROVE  GoesOn(proc[p], proc'[p]) \/ Born(p)
<1> USE DEF GoesOn, Busy, Live
<1>1. CASE Rests(p)
  BY <1>1 DEF Rests, Identity
<1>2. CASE Killed(p)
  BY <1>2, KilledFields DEF StateOnly, SameWord
<1>3. CASE Dropped(p)
  <2>1. proc[p].st \in {"exited", "sent"}
    BY <1>3, HeadIsSent DEF Dropped
  <2> QED
    BY <1>3, <2>1, ForgottenFields DEF Dropped
<1>4. CASE Performer(p)
  BY <1>4, PerformerGoesOn
<1> QED
  BY <1>1, <1>2, <1>3, <1>4, ProcessFrame

LEMMA ExitsFrame ==
  ASSUME Next
  PROVE  \/ UNCHANGED exits
         \/ exits # <<>> /\ exits' = Tail(exits)
         \/ \E p \in Procs : SendExit(p)
         \/ Start
<1>0. ASSUME NEW t \in Tasks, NEW p \in Procs,
             TakeExit(t, p) \/ PauseOnExit(t, p) \/ Salvage(t, p) \/ Respawn(t, p)
      PROVE  exits # <<>> /\ exits' = Tail(exits)
  BY <1>0 DEF TakeExit, PauseOnExit, Salvage, Respawn, ExitTaken
<1>1. CASE Monitor
  BY <1>0, <1>1 DEF Monitor, CleanupGhosts, ConsumeRows, ApplyBus, DropExit, ExitsDone
<1>2. CASE Loop
  BY <1>1, <1>2 DEF Loop, TakeMergeResult, MergesDone, PauseOnConflict, Advance, Claim, Launch,
     DispatchDone, EndCycle
<1>3. ASSUME NEW p \in Procs, Performer(p), ~SendExit(p)
      PROVE  UNCHANGED exits
  BY <1>3 DEF Performer, performerUnchanged, StartTool, ToolChanges, ToolNoChanges, ToolSilent,
     ToolFails, FailExit, Commit, CommitFails
<1>4. CASE Environment
  <2>1. CASE StorageFails
    BY <2>1 DEF StorageFails
  <2> QED
    BY <1>4, <2>1 DEF Environment, Heartbeat, PhaseTimeout, Die, performerUnchanged,
       ThrottleExpires, Crash, DispatchFails, HeartbeatAges, LaunchLost
<1>5. CASE MergeWorker \/ Operator
  BY <1>5, MergeWorkerFrame DEF Operator, OperatorReviews, OperatorResumes
<1> QED
  BY <1>2, <1>3, <1>4, <1>5 DEF Next

LEMMA EpochFrame ==
  ASSUME TypeOK, Next
  PROVE  /\ Start \/ restarts' = restarts
         /\ restarts' >= restarts /\ restarts' \in Nat /\ restarts \in Nat
         /\ Born(nproc + 1) \/ nproc' = nproc
         /\ nproc' >= nproc /\ nproc' \in Nat /\ nproc \in Nat
<1> DEFINE Same == nproc' = nproc /\ restarts' = restarts
           More == nproc' = nproc + 1 /\ restarts' = restarts /\ Born(nproc + 1)
<1>0. restarts \in Nat /\ nproc \in Nat
  BY DEF TypeOK, EnvOK, ProcOK
<1>1. ASSUME NEW t \in Tasks, NEW p \in Procs, Respawn(t, p)
      PROVE  More
  BY <1>1 DEF Respawn, Born, envVars
<1>2. ASSUME NEW t \in Tasks, Launch(t) \/ LaunchLost(t)
      PROVE  More
  BY <1>2 DEF Launch, LaunchLost, Born, envVars
<1>3. CASE Start
  BY <1>0, <1>3 DEF Start
<1>4. ASSUME NEW t \in Tasks, NEW p \in Procs, TakeExit(t, p) \/ PauseOnExit(t, p) \/ Salvage(t, p)
      PROVE  Same
  BY <1>4 DEF TakeExit, PauseOnExit, Salvage, envVars
<1>5. ASSUME CleanupGhosts \/ ConsumeRows \/ ApplyBus \/ DropExit \/ ExitsDone
      PROVE  Same
  BY <1>5 DEF CleanupGhosts, ConsumeRows, ApplyBus, DropExit, ExitsDone, envVars, procVars
<1>6. ASSUME \/ TakeMergeResult \/ MergesDone \/ PauseOnConflict \/ Advance \/ DispatchDone
             \/ EndCycle \/ \E t \in Tasks : Claim(t)
      PROVE  Same
  BY <1>6 DEF TakeMergeResult, MergesDone, PauseOnConflict, Advance, Claim, DispatchDone,
     EndCycle, envVars, procVars
<1>7. ASSUME (\E p \in Procs : Performer(p)) \/ MergeWorker \/ Operator
      PROVE  Same
  BY <1>7, PerformerFrame, MergeWorkerFrame DEF Operator, OperatorReviews, OperatorResumes,
     envVars, procVars
<1>8. ASSUME \/ ThrottleExpires \/ Crash \/ DispatchFails \/ StorageFails
             \/ (\E t \in Tasks : HeartbeatAges(t))
             \/ \E p \in Procs : Heartbeat(p) \/ PhaseTimeout(p) \/ Die(p)
      PROVE  Same
  BY <1>8 DEF ThrottleExpires, Crash, DispatchFails, StorageFails, HeartbeatAges, Heartbeat,
     PhaseTimeout, Die, performerUnchanged, envVars, procVars
<1>9. Start \/ Same \/ More
  BY <1>1, <1>2, <1>4, <1>5, <1>6, <1>7, <1>8 DEF Next, Loop, Monitor, Environment
<1> QED
  BY <1>0, <1>3, <1>9

\* A process that is born is the next one of a claim: of the launch, or of a respawn.
LEMMA BornAs ==
  ASSUME TypeOK, NEW p \in Procs, Born(p)
  PROVE  /\ nproc' = p
         /\ \E branch : \E t \in Tasks :
              /\ proc'[p] = NewProcess(t, task[t].claim, branch, restarts)
              /\ \/ (Launch(t) \/ LaunchLost(t)) /\ branch = task[t].wt
                 \/ \E x \in Procs : Respawn(t, x) /\ branch = proc[jobs[t].proc].branch
<1>0. p = nproc + 1 /\ proc \in [Procs -> Process] /\ nproc + 1 \in Procs
  BY ProcessAt DEF Born
<1>1. ASSUME NEW t \in Tasks, Launch(t) \/ LaunchLost(t), proc' = Spawned(t)
      PROVE  nproc' = p /\ proc'[p] = NewProcess(t, task[t].claim, task[t].wt, restarts)
  <2> DEFINE new == NewProcess(t, task[t].claim, task[t].wt, restarts)
  <2>1. proc' = [proc EXCEPT ![p] = new]
    BY <1>0, <1>1 DEF Spawned
  <2>2. nproc' = p
    BY <1>0, <1>1 DEF Launch, LaunchLost
  <2> HIDE DEF new
  <2>3. proc'[p] = new
    BY <1>0, <2>1
  <2> QED
    BY <2>2, <2>3 DEF new
<1>2. ASSUME NEW t \in Tasks, NEW x \in Procs, Respawn(t, x)
      PROVE  /\ nproc' = p
             /\ proc'[p] = NewProcess(t, task[t].claim, proc[jobs[t].proc].branch, restarts)
  <2> DEFINE new == NewProcess(t, Attempted(t, x).claim, proc[jobs[t].proc].branch, restarts)
             f   == [proc EXCEPT ![x] = Forgotten(x)]
  <2>1. proc' = [f EXCEPT ![p] = new]
    BY <1>0, <1>2 DEF Respawn, Attempted
  <2>2. nproc' = p
    BY <1>0, <1>2 DEF Respawn
  <2>3. p \in DOMAIN f
    BY <1>0
  <2> HIDE DEF new, f
  <2>4. proc'[p] = new
    BY <2>1, <2>3
  <2>5. Attempted(t, x).claim = task[t].claim
    BY AttemptedMoves DEF ExitMove
  <2> QED
    BY <2>2, <2>4, <2>5 DEF new
<1>3. CASE \E t \in Tasks : (Launch(t) \/ LaunchLost(t)) /\ proc' = Spawned(t)
  BY <1>1, <1>3
<1>4. CASE \E t \in Tasks, x \in Procs : Respawn(t, x)
  BY <1>2, <1>4
<1> QED
  BY <1>3, <1>4 DEF Born

LEMMA SentStays ==
  ASSUME TypeOK, Unborn, Next, ~Start, NEW p \in Procs, proc[p].st = "sent"
  PROVE  Rests(p) \/ (exits # <<>> /\ p = Head(exits) /\ exits' = Tail(exits))
<1>1. ~Born(p)
  BY EpochFrame DEF Unborn, Born, Started
<1>2. ~Killed(p) /\ ~Performer(p)
  BY PerformerGoesOn DEF Killed, Busy
<1> QED
  BY <1>1, <1>2, ProcessFrame DEF Dropped

LEMMA OrderlyKept ==
  ASSUME TypeOK, TypeOK', Orderly, Next
  PROVE  Orderly'
<1>0. exits \in Seq(Procs) /\ exits' \in Seq(Procs)
  BY DEF TypeOK, ProcOK
<1>1. Unborn'
  <2> SUFFICES ASSUME NEW p \in Procs, Started(p)'
               PROVE  p <= nproc' /\ proc'[p].epoch <= restarts'
    BY DEF Unborn
  <2>1. CASE GoesOn(proc[p], proc'[p])
    <3>1. p <= nproc /\ proc[p].epoch <= restarts
      BY <2>1 DEF GoesOn, Started, Orderly, Unborn
    <3>2. proc'[p].epoch = proc[p].epoch /\ proc[p].epoch \in Nat
      BY <2>1, ProcessAt DEF GoesOn, Identity, Process
    <3>3. nproc' >= nproc /\ restarts' >= restarts
      BY EpochFrame
    <3>4. p \in Nat /\ nproc' \in Nat /\ restarts' \in Nat /\ nproc \in Nat /\ restarts \in Nat
      BY EpochFrame DEF Procs
    <3> QED
      BY <3>1, <3>2, <3>3, <3>4
  <2>2. CASE Born(p)
    <3>1. proc'[p].epoch = restarts
      <4>1. PICK branch : \E t \in Tasks :
                            proc'[p] = NewProcess(t, task[t].claim, branch, restarts)
        BY <2>2, BornAs
      <4> QED
        BY <4>1 DEF NewProcess
    <3>2. p <= nproc'
      <4>1. nproc' = p
        BY <2>2, BornAs
      <4>2. p \in Nat
        BY DEF Procs
      <4> QED
        BY <4>1, <4>2
    <3> QED
      BY <3>1, <3>2, EpochFrame
  <2> QED
    BY <2>1, <2>2, EachGoesOn DEF Orderly
<1>2. Posted'
  <2>1. CASE Start
    BY <2>1 DEF Start, Posted
  <2>2. CASE ~Start
    <3>0. restarts' = restarts
      BY <2>2, EpochFrame
    <3>1. CASE \E p \in Procs : SendExit(p)
      <4>1. PICK p \in Procs : SendExit(p)
        BY <3>1
      <4>2. exits' = Append(exits, p) /\ proc[p].st = "exited" /\ proc[p].epoch = restarts
        BY <4>1 DEF SendExit
      <4>3. proc'[p].st = "sent" /\ proc'[p].epoch = restarts
        BY <4>1, <4>2, SendExitFields DEF Identity
      <4>4. \A i \in DOMAIN exits : exits[i] \in Procs /\ exits[i] # p /\ Rests(exits[i])
        BY <1>0, <4>1, <4>2, PerformerStaysAtHome DEF Orderly, Posted, Performer
      <4>5. \A i \in DOMAIN exits' : IF i \in DOMAIN exits THEN exits'[i] = exits[i]
                                                         ELSE i = Len(exits) + 1 /\ exits'[i] = p
        BY <1>0, <4>2
      <4> QED
        BY <3>0, <4>3, <4>4, <4>5 DEF Orderly, Posted, Rests
    <3>2. CASE UNCHANGED exits
      <4>1. \A i \in DOMAIN exits : exits[i] \in Procs /\ proc[exits[i]].st = "sent"
        BY <1>0 DEF Orderly, Posted
      <4>2. ASSUME exits # <<>>
            PROVE  exits # Tail(exits)
        BY <1>0, <4>2
      <4>3. \A i \in DOMAIN exits : Rests(exits[i])
        BY <2>2, <3>2, <4>1, <4>2, SentStays DEF Orderly
      <4> QED
        BY <3>0, <3>2, <4>3 DEF Orderly, Posted, Rests
    <3>3. CASE exits # <<>> /\ exits' = Tail(exits)
      <4>1. \A i \in DOMAIN exits' : i + 1 \in DOMAIN exits /\ exits'[i] = exits[i + 1] /\ i # 0
        BY <1>0, <3>3
      <4>2. 1 \in DOMAIN exits /\ Head(exits) = exits[1] /\ \A i \in DOMAIN exits : i \in Nat
        BY <1>0, <3>3
      <4>3. \A i \in DOMAIN exits' : exits'[i] \in Procs /\ proc[exits'[i]].st = "sent"
                                     /\ exits'[i] # Head(exits)
        <5> SUFFICES ASSUME NEW i \in DOMAIN exits'
                     PROVE  exits'[i] \in Procs /\ proc[exits'[i]].st = "sent"
                            /\ exits'[i] # Head(exits)
          OBVIOUS
        <5>1. exits'[i] \in Procs
          BY <1>0
        <5>2. i \in Nat
          BY <1>0
        <5> QED
          BY <4>1, <4>2, <5>1, <5>2 DEF Orderly, Posted
      <4>4. \A i \in DOMAIN exits' : Rests(exits'[i])
        BY <2>2, <4>3, SentStays DEF Orderly
      <4>5. \A i, j \in DOMAIN exits' : exits'[i] = exits'[j] => i = j
        <5> SUFFICES ASSUME NEW i \in DOMAIN exits', NEW j \in DOMAIN exits', exits'[i] = exits'[j]
                     PROVE  i = j
          OBVIOUS
        <5>1. i \in Nat /\ j \in Nat
          BY <1>0
        <5>2. i + 1 = j + 1
          BY <4>1 DEF Orderly, Posted
        <5> QED
          BY <5>1, <5>2
      <4> QED
        BY <3>0, <4>1, <4>4, <4>5 DEF Orderly, Posted, Rests
    <3> QED
      BY <2>2, <3>1, <3>2, <3>3, ExitsFrame
  <2> QED
    BY <2>1, <2>2
<1> QED
  BY <1>1, <1>2 DEF Orderly

-----------------------------------------------------------------------------
(* Claims and processes are numbered: a claim is worked on by one process. *)

LEMMA ClaimFrame ==
  ASSUME Next
  PROVE  UNCHANGED nclaim \/ \E t \in Tasks : Claim(t)
<1>0. ASSUME NEW t \in Tasks, NEW p \in Procs,
             TakeExit(t, p) \/ PauseOnExit(t, p) \/ Salvage(t, p) \/ Respawn(t, p)
      PROVE  UNCHANGED nclaim
  BY <1>0 DEF TakeExit, PauseOnExit, Salvage, Respawn
<1>1. CASE Monitor
  BY <1>0, <1>1 DEF Monitor, CleanupGhosts, ConsumeRows, ApplyBus, DropExit, ExitsDone
<1>2. CASE Loop
  BY <1>1, <1>2 DEF Loop, TakeMergeResult, MergesDone, PauseOnConflict, Advance, Launch,
     DispatchDone, EndCycle
<1>3. CASE (\E p \in Procs : Performer(p)) \/ MergeWorker \/ Operator
  BY <1>3, PerformerFrame, MergeWorkerFrame DEF Operator, OperatorReviews, OperatorResumes
<1>4. CASE Environment
  BY <1>4 DEF Environment, Heartbeat, PhaseTimeout, Die, performerUnchanged, ThrottleExpires,
     Crash, DispatchFails, HeartbeatAges, LaunchLost, StorageFails
<1>5. CASE Start
  BY <1>5 DEF Start
<1> QED
  BY <1>2, <1>3, <1>4, <1>5 DEF Next

\* With one attempt per claim a process is born only by the launch of its claim.
LEMMA BornOnce ==
  ASSUME TypeOK, AttemptsCounted, MaxAttempts = 1, NEW p \in Procs, Born(p)
  PROVE  /\ nproc' = p
         /\ \E t \in Tasks :
              /\ Launch(t) \/ LaunchLost(t)
              /\ t \in launching /\ pc = "launch"
              /\ proc'[p] = NewProcess(t, task[t].claim, task[t].wt, restarts)
<1>1. ASSUME NEW t \in Tasks, Launch(t) \/ LaunchLost(t)
      PROVE  t \in launching /\ pc = "launch"
  BY <1>1 DEF Launch, LaunchLost
<1> QED
  BY <1>1, BornAs, OneAttempt

LEMMA BirthMoves ==
  ASSUME TypeOK, NEW t \in Tasks, Launch(t) \/ LaunchLost(t), NEW u \in Tasks
  PROVE  /\ SamePlace(task[u], task'[u]) /\ task'[u].wf = task[u].wf /\ task'[u].err = task[u].err
         /\ UNCHANGED <<nclaim, restarts, workers, failedMerge>>
         /\ pc' # "launch" /\ nproc' = nproc + 1
<1>1. CASE Launch(t)
  BY <1>1, LaunchMoves DEF Launch, SamePlace, envVars, mergeVars
<1>2. CASE LaunchLost(t)
  BY <1>2 DEF LaunchLost, SamePlace, envVars, mergeVars
<1> QED
  BY <1>1, <1>2

\* Without a birth every process goes on.
LEMMA NobodyBorn ==
  ASSUME TypeOK, Posted, AttemptsCounted, MaxAttempts = 1, Next,
         \A t \in Tasks : ~Launch(t) /\ ~LaunchLost(t)
  PROVE  \A p \in Procs : GoesOn(proc[p], proc'[p])
BY EachGoesOn, BornOnce

\* The numbers of what is there.
LEMMA Numbers ==
  ASSUME TypeOK, NEW t \in Tasks, NEW p \in Procs
  PROVE  /\ task[t].claim \in Nat /\ task[t].wt \in Nat /\ task[t].last \in Nat
         /\ task[t].pid \in Procs \cup {0}
         /\ proc[p].claim \in Nat /\ proc[p].branch \in Nat /\ proc[p].epoch \in Nat
         /\ proc[p].task \in Tasks
         /\ nclaim \in Nat /\ nproc \in Nat /\ restarts \in Nat /\ p \in Nat /\ p # 0
<1>1. task[t] \in Task /\ proc[p] \in Process
  BY DEF TypeOK, ProcOK
<1>2. nclaim \in Nat /\ nproc \in Nat /\ restarts \in Nat /\ p \in Nat /\ p # 0
  BY DEF TypeOK, ProcOK, EnvOK, Procs
<1>3. \A b \in Branches \cup {0} : b \in Nat
  BY DEF Branches
<1>4. proc[p].epoch \in Nat
  BY <1>1 DEF Process
<1> QED
  BY <1>1, <1>2, <1>3, <1>4 DEF Task, Process

LEMMA ProcessesNumbered ==
  ASSUME IInv, IInv', Orderly, AttemptsCounted, MaxAttempts = 1, Numbered, Next,
         NEW p \in Procs, Started(p)'
  PROVE  ProcessNumbered(p)'
<1>0. TypeOK /\ TypeOK' /\ Posted
  BY DEF IInv, Orderly
<1> DEFINE q == proc[p]
           r == task[q.task]
           s == task'[q.task]
<1>1. CASE GoesOn(proc[p], proc'[p])
  <2>1. Started(p) /\ Identity(q, proc'[p])
    BY <1>1 DEF GoesOn, Started
  <2>2. /\ p <= nproc /\ q.branch # 0 /\ q.claim # 0 /\ q.claim <= r.claim
        /\ q.epoch <= restarts /\ (q.claim = r.claim => r.wt \in {0, q.branch})
    BY <2>1 DEF Numbered, ProcessNumbered
  <2>3. q.task \in Tasks /\ q.claim \in Nat /\ q.epoch \in Nat /\ r.claim \in Nat /\ nclaim \in Nat
        /\ nproc \in Nat /\ restarts \in Nat /\ p \in Nat
    <3>1. q.task \in Tasks
      BY <1>0, ProcessAt DEF Process
    <3>2. \A t \in Tasks : task[t].claim \in Nat
      BY <1>0, Numbers
    <3>3. /\ q.claim \in Nat /\ q.epoch \in Nat /\ nclaim \in Nat
          /\ nproc \in Nat /\ restarts \in Nat /\ p \in Nat
      BY <1>0, <3>1, Numbers
    <3> QED
      BY <3>1, <3>2, <3>3
  <2>4. nproc' >= nproc /\ restarts' >= restarts /\ nproc' \in Nat /\ restarts' \in Nat
    BY <1>0, EpochFrame
  <2>5. p <= nproc' /\ q.epoch <= restarts'
    BY <2>2, <2>3, <2>4
  <2>6. r.claim <= nclaim
    BY <2>3 DEF Numbered, RecordNumbered
  <2>7. q.claim <= s.claim /\ (q.claim = s.claim => s.wt \in {0, q.branch})
    <3>1. CASE Claim(q.task)
      <4>1. s.claim = nclaim + 1
        BY <1>0, <2>3, <3>1, ClaimMoves
      <4> HIDE DEF q, r, s
      <4> QED
        BY <2>2, <2>3, <2>6, <4>1
    <3>2. CASE Tame(r, s) \/ SamePlace(r, s)
      BY <2>2, <3>2 DEF Tame, SamePlace
    <3> QED
      BY <1>0, <2>3, <3>1, <3>2, TameSteps, LaunchMoves
  <2> QED
    BY <2>1, <2>2, <2>5, <2>7 DEF ProcessNumbered, Identity
<1>2. CASE Born(p)
  <2>1. PICK t \in Tasks : /\ Launch(t) \/ LaunchLost(t)
                           /\ t \in launching /\ pc = "launch"
                           /\ proc'[p] = NewProcess(t, task[t].claim, task[t].wt, restarts)
    BY <1>0, <1>2, BornOnce
  <2>2. SamePlace(task[t], task'[t]) /\ restarts' = restarts
    BY <1>0, <2>1, BirthMoves
  <2>3. task[t].wt \in Branches /\ task[t].claim = nclaim /\ nclaim # 0
    BY <2>1 DEF IInv, WorkAssigned, Numbered, LaunchNumbered
  <2>4. nproc' = p /\ p \in Nat /\ restarts \in Nat /\ task[t].claim \in Nat
    BY <1>0, <1>2, BornOnce, Numbers
  <2>5. task[t].wt # 0
    BY <2>3 DEF Branches
  <2>6. /\ proc'[p].task = t /\ proc'[p].claim = task[t].claim /\ proc'[p].branch = task[t].wt
        /\ proc'[p].epoch = restarts
    BY <2>1 DEF NewProcess
  <2> QED
    BY <2>2, <2>3, <2>4, <2>5, <2>6 DEF ProcessNumbered, SamePlace
<1> QED
  BY <1>0, <1>1, <1>2, EachGoesOn

LEMMA RecordsNumbered ==
  ASSUME IInv, Orderly, AttemptsCounted, MaxAttempts = 1, Numbered, Next,
         NEW t \in Tasks
  PROVE  RecordNumbered(task[t])'
<1>0. TypeOK /\ Posted
  BY DEF IInv, Orderly
<1> DEFINE r == task[t]
           s == task'[t]
<1>1. r.claim <= nclaim /\ (r.pid # 0 => Started(r.pid) /\ proc[r.pid].claim = r.claim)
  BY DEF Numbered, RecordNumbered
<1>2. nclaim \in Nat /\ r.claim \in Nat /\ r.pid \in Procs \cup {0}
  BY <1>0 DEF TypeOK, ProcOK, Task, Branches
<1>3. CASE Tame(r, s) /\ ~\E u \in Tasks : Claim(u)
  <2>1. nclaim' = nclaim
    BY <1>3, ClaimFrame
  <2>2. ASSUME s.pid # 0
        PROVE  proc'[s.pid].st # "none" /\ proc'[s.pid].claim = s.claim
    <3>1. s.pid = r.pid /\ r.pid # 0 /\ r.pid \in Procs
      BY <1>2, <1>3, <2>2 DEF Tame
    <3>2. Started(r.pid) /\ r.pid <= nproc
      BY <1>1, <3>1 DEF Orderly, Unborn
    <3>3. ~Born(r.pid)
      BY <1>0, <3>1, <3>2, Numbers DEF Born
    <3>4. GoesOn(proc[r.pid], proc'[r.pid])
      BY <1>0, <3>1, <3>3, EachGoesOn
    <3> QED
      BY <1>1, <1>3, <3>1, <3>4 DEF GoesOn, Identity, Started, Tame
  <2> QED
    BY <1>1, <1>3, <2>1, <2>2 DEF RecordNumbered, Tame, Started
<1>4. ASSUME NEW u \in Tasks, Claim(u)
      PROVE  RecordNumbered(task[t])'
  <2>1. nclaim' = nclaim + 1 /\ UNCHANGED proc
    BY <1>4 DEF Claim, procVars
  <2>2. CASE u = t
    <3>1. s.claim = nclaim + 1 /\ s.pid = 0
      BY <1>0, <1>4, <2>2, ClaimMoves
    <3> QED
      BY <1>2, <2>1, <3>1 DEF RecordNumbered
  <2>3. CASE u # t
    <3>1. s = r
      BY <1>0, <1>4, <2>3, ClaimMoves
    <3> HIDE DEF r, s
    <3>2. r.claim <= nclaim + 1
      BY <1>1, <1>2
    <3> QED
      BY <1>1, <2>1, <3>1, <3>2 DEF RecordNumbered, Started, r, s
  <2> QED
    BY <2>2, <2>3
<1>5. CASE Launch(t)
  <2> DEFINE x == nproc + 1
  <2>1. x \in Procs /\ Born(x)
    BY <1>5 DEF Launch, Born
  <2>2. PICK u \in Tasks : /\ Launch(u) \/ LaunchLost(u)
                           /\ proc'[x] = NewProcess(u, task[u].claim, task[u].wt, restarts)
    BY <1>0, <2>1, BornOnce
  <2>3. s.pid = x /\ s.claim = r.claim /\ nclaim' = nclaim /\ s.pid # r.pid
    <3>1. s.pid = x /\ s.claim = r.claim /\ nclaim' = nclaim
      BY <1>0, <1>5, LaunchMoves, BirthMoves DEF SamePlace
    <3>2. r.pid = 0
      BY <1>5 DEF Launch, Numbered, LaunchNumbered
    <3>3. x # 0
      BY <2>1 DEF Procs
    <3> QED
      BY <3>1, <3>2, <3>3
  <2>4. proc' = Spawned(t)
    BY <1>5 DEF Launch
  <2> DEFINE new == NewProcess(t, task[t].claim, task[t].wt, restarts)
  <2>5. proc'[x] = new
    <3>1. proc' = [proc EXCEPT ![x] = new] /\ x \in DOMAIN proc
      BY <1>0, <2>1, <2>4, ProcessAt DEF Spawned
    <3> HIDE DEF x, new
    <3> QED
      BY <3>1
  <2>6. new.st = "starting" /\ new.claim = r.claim
    BY DEF NewProcess
  <2> HIDE DEF x, new, r, s
  <2> QED
    BY <1>1, <2>3, <2>5, <2>6 DEF RecordNumbered, Started, r, s
<1> QED
  BY <1>0, <1>3, <1>4, <1>5, TameSteps

LEMMA OneProcessKept ==
  ASSUME IInv, Orderly, AttemptsCounted, MaxAttempts = 1, Numbered, Next
  PROVE  OneProcessPerClaim'
<1>0. TypeOK /\ Posted
  BY DEF IInv, Orderly
<1>1. ASSUME NEW p \in Procs
      PROVE  \/ /\ Started(p)' => Started(p)
                /\ proc'[p].claim = proc[p].claim
             \/ /\ p = nproc + 1 /\ proc'[p].claim = nclaim
                /\ \A q \in Procs : Started(q) => proc[q].claim # nclaim
  <2>1. CASE GoesOn(proc[p], proc'[p])
    BY <2>1 DEF GoesOn, Identity, Started
  <2>2. CASE Born(p)
    <3>1. PICK t \in Tasks : /\ t \in launching /\ pc = "launch"
                             /\ proc'[p] = NewProcess(t, task[t].claim, task[t].wt, restarts)
      BY <1>0, <2>2, BornOnce
    <3>2. LaunchNumbered(t)
      BY <3>1 DEF Numbered
    <3>3. proc'[p].claim = task[t].claim
      BY <3>1 DEF NewProcess
    <3> QED
      BY <2>2, <3>2, <3>3 DEF LaunchNumbered, Born
  <2> QED
    BY <1>0, <2>1, <2>2, EachGoesOn
<1> QED
  BY <1>1 DEF Numbered, OneProcessPerClaim, Started

LEMMA LaunchesNumbered ==
  ASSUME IInv, Orderly, AttemptsCounted, MaxAttempts = 1, Numbered, Next,
         pc' = "launch", NEW t \in launching'
  PROVE  LaunchNumbered(t)'
<1>0. TypeOK /\ Posted
  BY DEF IInv, Orderly
<1>1. ASSUME NEW u \in Tasks, Claim(u)
      PROVE  LaunchNumbered(t)'
  <2>1. t = u /\ UNCHANGED proc /\ nclaim' = nclaim + 1
    BY <1>1 DEF Claim, procVars
  <2>2. task'[t].claim = nclaim + 1 /\ task'[t].pid = 0
    BY <1>0, <1>1, <2>1, ClaimMoves
  <2>3. nclaim \in Nat
    BY <1>0 DEF TypeOK, ProcOK
  <2>4. ASSUME NEW p \in Procs, Started(p)
        PROVE  proc[p].claim # nclaim + 1
    <3>1. proc[p].task \in Tasks
      BY <1>0, ProcessAt DEF Process
    <3>2. proc[p].claim <= task[proc[p].task].claim /\ task[proc[p].task].claim <= nclaim
      BY <2>4, <3>1 DEF Numbered, ProcessNumbered, RecordNumbered
    <3>3. proc[p].claim \in Nat /\ task[proc[p].task].claim \in Nat
      BY <1>0, <3>1, Numbers
    <3> QED
      BY <2>3, <3>2, <3>3
  <2>5. nclaim + 1 # 0
    BY <2>3
  <2> QED
    BY <2>1, <2>2, <2>4, <2>5 DEF LaunchNumbered, Started
<1>2. ASSUME pc = "launch", UNCHANGED launching,
             UNCHANGED task \/ \E u \in Tasks : HeartbeatAges(u)
      PROVE  LaunchNumbered(t)'
  <2>1. LaunchNumbered(t) /\ t \in Tasks
    BY <1>0, <1>2 DEF Numbered, TypeOK, LoopOK
  <2>2. UNCHANGED nclaim
    BY <1>2, ClaimFrame DEF Claim
  <2>3. task'[t].claim = task[t].claim /\ task'[t].pid = 0
    BY <1>0, <1>2, <2>1, AgingMoves DEF Stays, SamePlace, LaunchNumbered
  <2>4. \A p \in Procs : GoesOn(proc[p], proc'[p])
    <3>1. \A u \in Tasks : ~Launch(u) /\ ~LaunchLost(u)
      BY <1>0, BirthMoves
    <3> QED
      BY <1>0, <3>1, NobodyBorn
  <2> QED
    BY <2>1, <2>2, <2>3, <2>4 DEF LaunchNumbered, GoesOn, Identity, Started
<1> QED
  BY <1>0, <1>1, <1>2, LaunchFrame

LEMMA NumberedKept ==
  ASSUME IInv, IInv', Orderly, AttemptsCounted, MaxAttempts = 1, Numbered, Next
  PROVE  Numbered'
<1>1. \A p \in Procs : Started(p)' => ProcessNumbered(p)'
  BY ProcessesNumbered
<1>2. \A t \in Tasks : RecordNumbered(task[t])'
  BY RecordsNumbered
<1>3. pc' = "launch" => \A t \in launching' : LaunchNumbered(t)'
  BY LaunchesNumbered
<1> QED
  BY <1>1, <1>2, <1>3, OneProcessKept DEF Numbered

-----------------------------------------------------------------------------
(* Branches: each is one task's, whoever holds it.                         *)

LEMMA WorkersFrame ==
  ASSUME TypeOK, Next, NEW w \in workers'
  PROVE  \/ \E v \in workers : v.task = w.task /\ v.branch = w.branch
         \/ /\ w.task \in Mergeable /\ w.branch = task[w.task].wt /\ Advance
            /\ workers' = workers \cup {w} /\ mjobs' = mjobs \cup {w.task}
<1>u. CASE w \in workers
  BY <1>u
<1>0. workers \subseteq MergeJob
  BY DEF TypeOK, MergeOK
<1>1. CASE Monitor
  <2>1. ASSUME NEW t \in Tasks, NEW p \in Procs,
               TakeExit(t, p) \/ PauseOnExit(t, p) \/ Salvage(t, p) \/ Respawn(t, p)
        PROVE  UNCHANGED workers
    BY <2>1 DEF TakeExit, PauseOnExit, Salvage, Respawn, mergeVars
  <2> QED
    BY <1>u, <1>1, <2>1 DEF Monitor, CleanupGhosts, ConsumeRows, ApplyBus, DropExit, ExitsDone,
       mergeVars
<1>2. CASE PauseOnConflict
  <2>1. PICK v \in workers : w = [v EXCEPT !.orphan = TRUE]
    BY <1>2 DEF PauseOnConflict
  <2> QED
    BY <1>0, <2>1 DEF MergeJob
<1>3. CASE Advance
  <2>1. CASE Mergeable = {}
    BY <1>u, <1>3, <2>1 DEF Advance
  <2>2. CASE Mergeable # {}
    <3>1. PICK t \in Mergeable :
            /\ mjobs' = mjobs \cup {t}
            /\ workers' = workers \cup {[task |-> t, branch |-> task[t].wt, orphan |-> FALSE]}
      BY <1>3, <2>2 DEF Advance
    <3> DEFINE x == [task |-> t, branch |-> task[t].wt, orphan |-> FALSE]
    <3>2. w \in workers \/ w = x
      BY <3>1
    <3>3. x.task = t /\ x.branch = task[t].wt
      OBVIOUS
    <3>4. workers' = workers \cup {x}
      BY <3>1
    <3> HIDE DEF x
    <3> QED
      BY <1>u, <1>3, <3>1, <3>2, <3>3, <3>4
  <2> QED
    BY <2>1, <2>2
<1>4. CASE Loop
  BY <1>u, <1>1, <1>2, <1>3, <1>4 DEF Loop, TakeMergeResult, MergesDone, Claim, Launch,
     DispatchDone, EndCycle, mergeVars
<1>5. CASE MergeWorker
  <2>1. PICK v \in workers : FinishMerge(v) \/ MergeTimeout(v)
    BY <1>5 DEF MergeWorker
  <2>2. CASE FinishMerge(v)
    BY <1>u, <2>2 DEF FinishMerge
  <2>3. CASE MergeTimeout(v)
    <3>1. w \in workers \/ w = [v EXCEPT !.orphan = TRUE]
      BY <2>3 DEF MergeTimeout
    <3> QED
      BY <1>0, <1>u, <3>1 DEF MergeJob
  <2> QED
    BY <2>1, <2>2, <2>3
<1>6. CASE Environment
  BY <1>u, <1>6 DEF Environment, Heartbeat, PhaseTimeout, Die, performerUnchanged, ThrottleExpires,
     Crash, DispatchFails, HeartbeatAges, LaunchLost, StorageFails, mergeVars
<1>7. CASE Start
  BY <1>7 DEF Start
<1>8. CASE (\E p \in Procs : Performer(p)) \/ Operator
  BY <1>u, <1>8, PerformerFrame DEF Operator, OperatorReviews, OperatorResumes, mergeVars
<1> QED
  BY <1>4, <1>5, <1>6, <1>7, <1>8 DEF Next

LEMMA HoldsFrame ==
  ASSUME TypeOK, Posted, AttemptsCounted, MaxAttempts = 1, Next,
         NEW t \in Tasks, NEW b, Holds(t, b)'
  PROVE  Holds(t, b) \/ (Claim(t) /\ b = nclaim + 1)
<1> DEFINE r == task[t]
           s == task'[t]
<1>0. b # 0
  BY DEF Holds
<1>1. CASE b \in {s.wt, s.last}
  <2>1. CASE Claim(t)
    <3>1. s.last = r.last /\ s.wt \in {r.wt, nclaim + 1}
      BY <2>1, ClaimMoves
    <3> HIDE DEF r, s
    <3> QED
      BY <1>0, <1>1, <2>1, <3>1 DEF Holds, r
  <2>2. CASE Tame(r, s) \/ SamePlace(r, s)
    BY <1>0, <1>1, <2>2 DEF Tame, SamePlace, Holds
  <2> QED
    BY <2>1, <2>2, TameSteps, LaunchMoves
<1>2. ASSUME NEW p \in Procs, Started(p)', proc'[p].task = t, proc'[p].branch = b
      PROVE  Holds(t, b)
  <2>1. CASE GoesOn(proc[p], proc'[p])
    BY <1>0, <1>2, <2>1 DEF GoesOn, Identity, Started, Holds
  <2>2. CASE Born(p)
    <3>1. PICK u \in Tasks : proc'[p] = NewProcess(u, task[u].claim, task[u].wt, restarts)
      BY <2>2, BornOnce
    <3>2. proc'[p].task = u /\ proc'[p].branch = task[u].wt
      BY <3>1 DEF NewProcess
    <3> QED
      BY <1>0, <1>2, <3>2 DEF Holds
  <2> QED
    BY <2>1, <2>2, EachGoesOn
<1>3. ASSUME NEW w \in workers', w.task = t, w.branch = b
      PROVE  Holds(t, b)
  BY <1>0, <1>3, WorkersFrame DEF Holds
<1> QED
  BY <1>1, <1>2, <1>3 DEF Holds

LEMMA OwnedKept ==
  ASSUME TypeOK, TypeOK', Posted, AttemptsCounted, MaxAttempts = 1, Owned, Next
  PROVE  Owned'
<1>1. nclaim \in Nat /\ \A b \in Branches : b \in Nat
  BY DEF TypeOK, ProcOK, Branches
<1>2. nclaim' \in {nclaim, nclaim + 1} /\ \A t \in Tasks : Claim(t) => nclaim' = nclaim + 1
  BY ClaimFrame DEF Claim
<1>3. \A t, u \in Tasks : Claim(t) /\ Claim(u) => t = u
  <2>1. \A t \in Tasks : Claim(t) => launching' = {t}
    BY DEF Claim
  <2> QED
    BY <2>1
<1>4. \A t \in Tasks, b \in Branches : Holds(t, b)' => Holds(t, b) \/ (Claim(t) /\ b = nclaim + 1)
  BY HoldsFrame
<1>5. \A t \in Tasks, b \in Branches : Holds(t, b) => b <= nclaim /\ \A u \in Tasks : Holds(u, b) => u = t
  BY DEF Owned
<1> SUFFICES ASSUME NEW t \in Tasks, NEW b \in Branches, Holds(t, b)'
             PROVE  b <= nclaim' /\ \A u \in Tasks : Holds(u, b)' => u = t
  BY DEF Owned
<1>6. CASE Holds(t, b)
  <2>1. b <= nclaim /\ b # nclaim + 1
    BY <1>1, <1>5, <1>6
  <2>2. b <= nclaim'
    BY <1>1, <1>2, <2>1
  <2> QED
    BY <1>4, <1>5, <1>6, <2>1, <2>2
<1>7. CASE Claim(t) /\ b = nclaim + 1
  <2>1. \A u \in Tasks : ~Holds(u, b)
    BY <1>1, <1>5, <1>7
  <2>2. b <= nclaim'
    BY <1>1, <1>2, <1>7
  <2> QED
    BY <1>3, <1>4, <1>7, <2>1, <2>2
<1> QED
  BY <1>4, <1>6, <1>7

-----------------------------------------------------------------------------
(* Frames: who may be heard of, and who works where, after a step.         *)

\* The numbering and the ownership the rest is told with.
Named == Orderly /\ Numbered /\ Owned

LEMMA NamedNumbers ==
  ASSUME TypeOK, Numbered, NEW p \in Procs, Started(p)
  PROVE  /\ proc[p].task \in Tasks
         /\ proc[p].claim \in Nat /\ task[proc[p].task].claim \in Nat /\ nclaim \in Nat
         /\ proc[p].claim # 0 /\ proc[p].claim <= task[proc[p].task].claim
         /\ task[proc[p].task].claim <= nclaim
<1>1. proc[p].task \in Tasks
  BY ProcessAt DEF Process
<1>2. proc[p].claim # 0 /\ proc[p].claim <= task[proc[p].task].claim
  BY DEF Numbered, ProcessNumbered
<1>3. task[proc[p].task].claim <= nclaim
  BY <1>1 DEF Numbered, RecordNumbered
<1> QED
  BY <1>1, <1>2, <1>3, Numbers

\* A process is born with the claim of the launch, which no other process has.
LEMMA BornLatest ==
  ASSUME IInv, Numbered, AttemptsCounted, MaxAttempts = 1, NEW p \in Procs, Born(p)
  PROVE  \E t \in launching :
           /\ t \in Tasks /\ pc = "launch" /\ (Launch(t) \/ LaunchLost(t))
           /\ proc'[p] = NewProcess(t, task[t].claim, task[t].wt, restarts)
           /\ proc'[p].task = t /\ proc'[p].claim = nclaim /\ proc'[p].branch = task[t].wt
           /\ task[t].claim = nclaim /\ task[t].wt \in Branches
           /\ \A q \in Procs : Started(q) => proc[q].claim < nclaim
<1>0. TypeOK
  BY DEF IInv
<1>1. PICK t \in Tasks :
        /\ Launch(t) \/ LaunchLost(t)
        /\ t \in launching /\ pc = "launch"
        /\ proc'[p] = NewProcess(t, task[t].claim, task[t].wt, restarts)
  BY <1>0, BornOnce
<1>2. LaunchNumbered(t) /\ task[t].wt \in Branches
  BY <1>1 DEF Numbered, IInv, WorkAssigned
<1>3. proc'[p].task = t /\ proc'[p].claim = task[t].claim /\ proc'[p].branch = task[t].wt
  BY <1>1 DEF NewProcess
<1>4. ASSUME NEW q \in Procs, Started(q)
      PROVE  proc[q].claim < nclaim
  <2>1. proc[q].claim # nclaim
    BY <1>2, <1>4 DEF LaunchNumbered
  <2> QED
    BY <1>0, <1>4, <2>1, NamedNumbers
<1> QED
  BY <1>1, <1>2, <1>3, <1>4 DEF LaunchNumbered

LEMMA BornForLaunch ==
  ASSUME TypeOK, AttemptsCounted, MaxAttempts = 1, NEW p \in Procs, Born(p)
  PROVE  Launch(proc'[p].task) \/ LaunchLost(proc'[p].task)
<1>1. PICK t \in Tasks : /\ Launch(t) \/ LaunchLost(t)
                         /\ proc'[p] = NewProcess(t, task[t].claim, task[t].wt, restarts)
  BY BornOnce
<1>2. proc'[p].task = t
  BY <1>1 DEF NewProcess
<1> QED
  BY <1>1, <1>2

LEMMA BusyFrame ==
  ASSUME TypeOK, Posted, Next, NEW p \in Procs, Busy(proc'[p])
  PROVE  Born(p) \/ (Busy(proc[p]) /\ Identity(proc[p], proc'[p]))
BY EachGoesOn DEF GoesOn

LEMMA NumberedNobodyYet ==
  ASSUME TypeOK, Numbered
  PROVE  NobodyYet
<1> SUFFICES ASSUME nclaim = 0, NEW p \in Procs, Started(p) PROVE FALSE
  BY DEF NobodyYet
<1> QED
  BY NamedNumbers

\* A start leaves nobody of its own run.
LEMMA NobodyAtStart ==
  ASSUME TypeOK, Orderly, NobodyYet, Start, NEW p \in Procs
  PROVE  ~Unsettled(p)'
<1> SUFFICES ASSUME Unsettled(p)' PROVE FALSE
  OBVIOUS
<1>1. proc'[p].st \in Live /\ proc'[p].epoch = restarts'
  BY DEF Unsettled, Live
<1>2. Next
  BY DEF Next
<1>3. ~Born(p)
  BY DEF Born, Start, Stopped, Launch, LaunchLost, Respawn, ExitTaken
<1>4. GoesOn(proc[p], proc'[p])
  BY <1>2, <1>3, EachGoesOn DEF Orderly
<1>5. Started(p) /\ proc[p].epoch = restarts'
  BY <1>1, <1>4 DEF GoesOn, Live, Started, Identity
<1>6. proc[p].epoch <= restarts /\ restarts \in Nat /\ proc[p].epoch \in Nat
  <2>1. proc[p].task \in Tasks
    BY ProcessAt DEF Process
  <2> QED
    BY <1>5, <2>1, Numbers DEF Orderly, Unborn
<1>7. nclaim = 0
  <2>1. restarts' = IF nclaim = 0 THEN restarts ELSE restarts + 1
    BY DEF Start
  <2> QED
    BY <1>5, <1>6, <2>1
<1> QED
  BY <1>5, <1>7 DEF NobodyYet

LEMMA UnsettledFrame ==
  ASSUME TypeOK, Orderly, NobodyYet, Next, NEW p \in Procs, Unsettled(p)'
  PROVE  /\ ~Start /\ ~Stopped /\ restarts' = restarts
         /\ Born(p) \/ (Unsettled(p) /\ GoesOn(proc[p], proc'[p]))
<1>1. ~Start
  BY NobodyAtStart
<1>2. ~Stopped
  BY <1>1, StoppedFrame DEF Unsettled
<1>3. restarts' = restarts
  BY <1>1, EpochFrame
<1>4. ASSUME GoesOn(proc[p], proc'[p])
      PROVE  Unsettled(p)
  BY <1>2, <1>3, <1>4 DEF Unsettled, GoesOn, Live, Identity
<1> QED
  BY <1>1, <1>2, <1>3, <1>4, EachGoesOn DEF Orderly

LEMMA EngagedFrame ==
  ASSUME TypeOK, Orderly, Numbered, Next, NEW p \in Procs, Engaged(p)'
  PROVE  /\ ~Start
         /\ Born(p) \/ (Engaged(p) /\ Identity(proc[p], proc'[p]))
<1>1. Unsettled(p)' /\ (proc'[p].rep \/ Busy(proc'[p]))
  BY DEF Engaged
<1> QED
  BY <1>1, UnsettledFrame, NumberedNobodyYet DEF Engaged, GoesOn

LEMMA DesertedFrame ==
  ASSUME IInv, Orderly, AttemptsCounted, MaxAttempts = 1, Next,
         NEW t \in Tasks, Deserted(t), ~Launch(t), ~LaunchLost(t),
         task'[t].wt \in {task[t].wt, 0}
  PROVE  Deserted(t)'
<1> SUFFICES ASSUME NEW p \in Procs, proc'[p].task = t, Busy(proc'[p])
             PROVE  proc'[p].branch # task'[t].wt
  BY DEF Deserted
<1>1. ~Born(p)
  BY BornForLaunch DEF IInv
<1>2. Busy(proc[p]) /\ Identity(proc[p], proc'[p])
  BY <1>1, BusyFrame DEF IInv, Orderly
<1>3. proc[p].branch \in Branches /\ proc[p].branch # task[t].wt
  BY <1>2 DEF IInv, WorkAssigned, Deserted, Identity
<1> QED
  BY <1>2, <1>3 DEF Identity, Branches

LEMMA QuietFrame ==
  ASSUME IInv, Orderly, Numbered, AttemptsCounted, MaxAttempts = 1, Next,
         NEW t \in Tasks, Quiet(t), ~Launch(t), ~LaunchLost(t),
         task'[t].wt \in {task[t].wt, 0}
  PROVE  Quiet(t)'
<1>1. ASSUME NEW p \in Procs, proc'[p].task = t, Engaged(p)'
      PROVE  FALSE
  <2>1. ~Born(p)
    BY <1>1, BornForLaunch DEF IInv
  <2> QED
    BY <1>1, <2>1, EngagedFrame DEF IInv, Quiet, Identity
<1> QED
  BY <1>1, DesertedFrame DEF Quiet

-----------------------------------------------------------------------------
(* Settled: a task that is not at work is quiet.                           *)

LEMMA LatestKept ==
  ASSUME IInv, Named, AttemptsCounted, MaxAttempts = 1, Latest, Settled, Next
  PROVE  Latest'
<1>0. TypeOK /\ Posted /\ Numbered /\ Owned
  BY DEF IInv, Named, Orderly
<1> SUFFICES ASSUME NEW p \in Procs, NEW q \in Procs,
                    Busy(proc'[p]), proc'[q].st # "none", p # q,
                    proc'[p].branch = proc'[q].branch
             PROVE  proc'[q].claim < proc'[p].claim
  BY DEF Latest, Started
<1>1. Born(p) \/ (Busy(proc[p]) /\ Identity(proc[p], proc'[p]))
  BY <1>0, BusyFrame
<1>2. Born(q) \/ (Started(q) /\ Identity(proc[q], proc'[q]))
  BY <1>0, EachGoesOn DEF GoesOn, Started
<1>3. CASE ~Born(p) /\ ~Born(q)
  BY <1>1, <1>2, <1>3 DEF Latest, Identity
<1>4. CASE Born(p)
  <2>1. ~Born(q)
    BY <1>4 DEF Born
  <2>2. proc'[p].claim = nclaim /\ proc[q].claim < nclaim
    BY <1>0, <1>2, <1>4, <2>1, BornLatest
  <2> QED
    BY <1>2, <2>1, <2>2 DEF Identity
<1>5. CASE Born(q) /\ ~Born(p)
  <2>1. PICK t \in launching :
          t \in Tasks /\ pc = "launch" /\ proc'[q].branch = task[t].wt /\ task[t].wt \in Branches
    BY <1>0, <1>5, BornLatest
  <2>2. Deserted(t)
    BY <2>1 DEF Settled
  <2>3. proc[p].task \in Tasks /\ proc[p].branch = task[t].wt /\ Started(p) /\ Busy(proc[p])
    BY <1>0, <1>1, <1>5, <2>1, ProcessAt DEF Identity, Started, Busy, Process
  <2>4. Holds(proc[p].task, task[t].wt) /\ Holds(t, task[t].wt)
    BY <2>1, <2>3 DEF Holds, Branches
  <2>5. proc[p].task = t
    BY <1>0, <2>1, <2>3, <2>4 DEF Owned
  <2> QED
    BY <2>2, <2>3, <2>5 DEF Deserted
<1> QED
  BY <1>3, <1>4, <1>5

\* Whoever is engaged works for the claim its task has.
LEMMA EngagedKept ==
  ASSUME IInv, Named, AttemptsCounted, MaxAttempts = 1, Settled, Next,
         NEW p \in Procs, Engaged(p)'
  PROVE  proc'[p].claim = task'[proc'[p].task].claim
<1>0. TypeOK /\ Orderly /\ Numbered
  BY DEF IInv, Named
<1>1. CASE Born(p)
  <2>1. PICK t \in Tasks : /\ Launch(t) \/ LaunchLost(t)
                           /\ proc'[p].task = t /\ proc'[p].claim = task[t].claim
    BY <1>0, <1>1, BornLatest
  <2>2. SamePlace(task[t], task'[t])
    BY <1>0, <2>1, BirthMoves
  <2> QED
    BY <2>1, <2>2 DEF SamePlace
<1>2. CASE Engaged(p) /\ Identity(proc[p], proc'[p])
  <2> DEFINE t == proc[p].task
  <2>1. t \in Tasks /\ proc[p].claim = task[t].claim
    BY <1>0, <1>2, ProcessAt DEF Process, Settled
  <2>2. ~Claim(t)
    <3>1. ~Quiet(t)
      BY <1>2 DEF Quiet
    <3> QED
      BY <2>1, <3>1 DEF Settled, AtWork, Claim, CanDispatch, Ready
  <2> HIDE DEF t
  <2>3. task'[t].claim = task[t].claim
    BY <1>0, <2>1, <2>2, TameSteps, LaunchMoves DEF Tame, SamePlace
  <2> QED
    BY <1>2, <2>1, <2>3 DEF Identity, t
<1> QED
  BY <1>0, <1>1, <1>2, EngagedFrame

LEMMA LaunchesDeserted ==
  ASSUME IInv, Named, AttemptsCounted, MaxAttempts = 1, Settled, Next,
         pc' = "launch", NEW t \in launching'
  PROVE  Deserted(t)'
<1>0. TypeOK /\ Orderly
  BY DEF IInv, Named
<1>1. ASSUME NEW u \in Tasks, Claim(u)
      PROVE  Deserted(t)'
  <2>1. t = u /\ UNCHANGED proc /\ task[u].wf = "todo"
    BY <1>1 DEF Claim, CanDispatch, Ready, procVars
  <2>2. Deserted(u)
    BY <2>1 DEF Settled, AtWork, Quiet
  <2>3. task'[u].wt = IF task[u].wt # 0 THEN task[u].wt ELSE nclaim + 1
    BY <1>0, <1>1, ClaimMoves
  <2>4. ASSUME NEW p \in Procs, proc[p].task = u, Busy(proc[p])
        PROVE  proc[p].branch # nclaim + 1
    <3>1. proc[p].branch \in Branches
      BY <2>4 DEF IInv, WorkAssigned
    <3>2. Holds(u, proc[p].branch)
      BY <2>4, <3>1 DEF Holds, Started, Busy, Branches
    <3>3. proc[p].branch <= nclaim
      BY <3>1, <3>2 DEF Named, Owned
    <3> QED
      BY <1>0, <3>1, <3>3 DEF TypeOK, ProcOK, Branches
  <2> QED
    BY <2>1, <2>2, <2>3, <2>4 DEF Deserted
<1>2. ASSUME pc = "launch", UNCHANGED launching,
             UNCHANGED task \/ \E u \in Tasks : HeartbeatAges(u)
      PROVE  Deserted(t)'
  <2>1. t \in Tasks /\ Deserted(t)
    BY <1>0, <1>2 DEF TypeOK, LoopOK, Settled
  <2>2. task'[t].wt = task[t].wt
    BY <1>0, <1>2, <2>1, AgingMoves DEF Stays, SamePlace
  <2>3. ~Launch(t) /\ ~LaunchLost(t)
    BY <1>0, <2>1, BirthMoves
  <2> QED
    BY <1>0, <2>1, <2>2, <2>3, DesertedFrame
<1> QED
  BY <1>0, <1>1, <1>2, LaunchFrame

LEMMA FailedMergesFrame ==
  ASSUME TypeOK, Next, NEW m \in failedMerge', ~Stopped'
  PROVE  \/ m \in failedMerge /\ ~Stopped
         \/ TakeMergeResult /\ m.task \in Tasks /\ task[m.task].wf \in MergeSources
<1>1. ~Start
  BY DEF Start
<1>2. ~Stopped
  BY <1>1, StoppedFrame
<1>3. CASE AwayFromMerges \/ MergeWorker
  BY <1>2, <1>3 DEF AwayFromMerges, mergeVars, MergeWorker, FinishMerge, MergeTimeout
<1>4. CASE MergesDone \/ OperatorResumes \/ PauseOnConflict \/ Advance \/ StorageFails
  BY <1>2, <1>4 DEF MergesDone, OperatorResumes, PauseOnConflict, Advance, StorageFails
<1>5. CASE TakeMergeResult
  <2> DEFINE h == Head(merges)
  <2>1. h \in MergeResult /\ h.task \in Tasks
    BY <1>5, TakenResultMoves DEF MergeResult
  <2>2. m \in failedMerge \/ (m = h /\ MergeResultApplies(task[h.task], h.how = "ok"))
    BY <1>5 DEF TakeMergeResult
  <2> QED
    BY <1>2, <1>5, <2>1, <2>2 DEF MergeResultApplies, Checked, MergeResultTo
<1> QED
  BY <1>1, <1>3, <1>4, <1>5, MergeFrame DEF MergeStep

LEMMA FailedMergesQuiet ==
  ASSUME IInv, Lawful, Named, AttemptsCounted, MaxAttempts = 1, Settled, Next,
         ~Stopped', NEW m \in failedMerge'
  PROVE  Quiet(m.task)'
<1>0. TypeOK /\ Orderly /\ Numbered
  BY DEF IInv, Named
<1> DEFINE t == m.task
<1>1. /\ t \in Tasks /\ Quiet(t)
      /\ pc \in {"merges", "paused"}
  <2>1. CASE m \in failedMerge /\ ~Stopped
    BY <1>0, <2>1 DEF TypeOK, MergeOK, MergeResult, Settled, Lawful, FailedMergesAreParked
  <2>2. CASE TakeMergeResult /\ t \in Tasks /\ task[t].wf \in MergeSources
    BY <2>2 DEF TakeMergeResult, Settled, AtWork, MergeSources
  <2> QED
    BY <1>0, <2>1, <2>2, FailedMergesFrame
<1> HIDE DEF t
<1>2. ~Claim(t) /\ ~Launch(t) /\ ~LaunchLost(t)
  BY <1>1 DEF Claim, Launch, LaunchLost
<1>3. task'[t].wt \in {task[t].wt, 0}
  BY <1>0, <1>1, <1>2, TameSteps DEF Tame
<1> QED
  BY <1>0, <1>1, <1>2, <1>3, QuietFrame DEF t

\* An exit that nothing was told of blocks its task, in its worktree.
LEMMA SilentExitBlocks ==
  ASSUME TypeOK, AttemptsCounted, MaxAttempts = 1, NEW t \in Tasks, HasJob(t), NEW p \in Procs,
         Told(proc[p]), proc[p].st = "sent", ~proc[p].rep, proc[p].log = {},
         proc[p].code \in {"fatal", "E901"}, NEW s \in Decisions(t, p)
  PROVE  s.do = "blockFailure" /\ s.same
<1>1. proc[p].kind = "none" /\ ~proc[p].ok
  BY DEF Told
<1>2. PICK expl, healthy : s = Decision(t, p, expl, healthy)
  BY DEF Decisions
<1> DEFINE e == ExitOf(p, expl)
           commits == task[t].wt \in ahead
<1>3. e.kind = "none" /\ ~e.success /\ e.log = {} /\ e.code \in {"fatal", "E901"}
  BY <1>1 DEF ExitOf
<1>4. s = ResolveRetryStrategy(task[t], e, jobs[t].attempt, commits, healthy)
  BY <1>2 DEF Decision
<1> HIDE DEF e, commits
<1>5. s = FailureStrategy(task[t], e, jobs[t].attempt, commits, healthy)
  BY <1>3, <1>4 DEF ResolveRetryStrategy, ErrorKinds
<1>6. s \in {Strategy("attempt", TRUE, "none"), Strategy("blockFailure", TRUE, "none")}
  BY <1>3, <1>5 DEF FailureStrategy, ShouldAutoRetry, ErrorKinds
<1> QED
  BY <1>6, NoMoreAttempts DEF Strategy

LEMMA DepMoveAtWork ==
  ASSUME NEW r, NEW s, AtWork(r), DepMove(r, s)
  PROVE  AtWork(s)
BY DEF AtWork, DepMove

\* The exit of a process that has told something leaves nobody behind.
LEMMA ReportedExitQuiets ==
  ASSUME IInv, Named, AttemptsCounted, MaxAttempts = 1, Settled, Latest, Next,
         NEW t \in Tasks, NEW p \in Procs, TakeExit(t, p) \/ PauseOnExit(t, p), proc[p].rep
  PROVE  Quiet(t)'
<1>0. TypeOK /\ Posted /\ Orderly /\ Numbered
  BY DEF IInv, Named, Orderly
<1>1. PICK s, r : Concludes(t, p, s, r)
  BY <1>0, ExitMoves
<1>2. DepMove(r, task'[t]) /\ ExitMove(task[t], r, s.do)
  BY <1>1 DEF Concludes
<1>3. /\ exits # <<>> /\ p = Head(exits) /\ t = proc[p].task /\ ~Stopped
      /\ proc' = [proc EXCEPT ![p] = Forgotten(p)]
  BY DEF TakeExit, PauseOnExit, ExitTaken, Stopped
<1>4. proc[p].st = "sent" /\ proc[p].epoch = restarts
  BY <1>0, <1>3, HeadIsSent
<1>5. proc[p].claim = task[t].claim
  BY <1>3, <1>4 DEF Unsettled, Engaged, Settled
<1>6. ~Busy(proc'[p]) /\ proc'[p].st = "done"
  BY <1>0, <1>3, ProcessAt, ForgottenFields DEF Busy
<1>7. \A q \in Procs \ {p} : proc'[q] = proc[q]
  BY <1>0, <1>3, ProcessAt
<1>8. ASSUME NEW q \in Procs, proc'[q].task = t, Engaged(q)'
      PROVE  FALSE
  <2>1. q # p
    BY <1>6, <1>8 DEF Engaged, Unsettled
  <2>2. Engaged(q) /\ proc[q].task = t
    <3>1. ~Born(q)
      BY <1>0, BornOnce DEF TakeExit, PauseOnExit, ExitTaken
    <3> QED
      BY <1>0, <1>8, <3>1, EngagedFrame DEF Identity
  <2>3. proc[q].claim = proc[p].claim /\ Started(q) /\ Started(p)
    BY <1>4, <1>5, <2>2 DEF Settled, Engaged, Unsettled, Started
  <2> QED
    BY <1>0, <2>1, <2>3 DEF Numbered, OneProcessPerClaim
<1>9. Deserted(t)'
  <2> SUFFICES ASSUME NEW q \in Procs, proc'[q].task = t, Busy(proc'[q]),
                      proc'[q].branch = task'[t].wt
               PROVE  FALSE
    BY DEF Deserted
  <2>1. q # p /\ Busy(proc[q]) /\ proc[q].task = t /\ proc[q].branch = task'[t].wt
    BY <1>6, <1>7
  <2>2. proc[q].branch # 0
    BY <2>1 DEF IInv, WorkAssigned, Branches
  <2>3. task'[t].wt = task[t].wt
    BY <1>2, <2>1, <2>2 DEF DepMove, SamePlace, ExitMove
  <2>4. task[t].wt = proc[p].branch
    BY <1>0, <1>3, <1>4, <1>5, <2>1, <2>2, <2>3 DEF Numbered, ProcessNumbered, Started
  <2>5. proc[p].claim < proc[q].claim
    BY <1>4, <2>1, <2>3, <2>4 DEF Latest, Started
  <2>6. proc[q].claim <= task[t].claim /\ proc[q].claim \in Nat /\ task[t].claim \in Nat
    BY <1>0, <2>1, NamedNumbers DEF Started, Busy
  <2> QED
    BY <1>5, <2>5, <2>6
<1> QED
  BY <1>8, <1>9 DEF Quiet

\* The exit of one that has told nothing blocks its task.
LEMMA SilentExitDecides ==
  ASSUME TypeOK, Posted, AttemptsCounted, MaxAttempts = 1, Reports, NEW t \in Tasks,
         NEW p \in Procs, TakeExit(t, p) \/ PauseOnExit(t, p), ~proc[p].rep,
         NEW s \in Decisions(t, p)
  PROVE  s.do = "blockFailure" /\ s.same
<1>1. HasJob(t) /\ exits # <<>> /\ p = Head(exits) /\ ~Stopped
  BY DEF TakeExit, PauseOnExit, ExitTaken, Stopped
<1>2. proc[p].st = "sent" /\ proc[p].epoch = restarts
  BY <1>1, HeadIsSent
<1> QED
  BY <1>1, <1>2, SilentExitBlocks DEF Reports, Unsettled

\* The task whose exit is taken is at work again, or has been left by everybody.
LEMMA ConcludedSettles ==
  ASSUME IInv, Named, AttemptsCounted, MaxAttempts = 1, Settled, Latest, Reports, Next,
         NEW t \in Tasks, NEW p \in Procs, TakeExit(t, p) \/ PauseOnExit(t, p)
  PROVE  AtWork(task'[t]) \/ Quiet(t)'
<1>0. TypeOK /\ Posted
  BY DEF IInv, Named, Orderly
<1>1. CASE proc[p].rep
  BY <1>1, ReportedExitQuiets
<1>2. CASE ~proc[p].rep
  <2>1. PICK s, r : Concludes(t, p, s, r)
    BY <1>0, ExitMoves
  <2>2. s.do = "blockFailure"
    BY <1>0, <1>2, <2>1, SilentExitDecides DEF Concludes
  <2>3. AtWork(r) /\ DepMove(r, task'[t])
    BY <2>1, <2>2 DEF Concludes, ExitMove, AtWork
  <2> QED
    BY <2>3, DepMoveAtWork
<1> QED
  BY <1>1, <1>2

\* A ghost put back to todo was the only one who could still speak for its claim.
LEMMA GhostSettles ==
  ASSUME IInv, Named, Settled, CleanupGhosts, NEW t \in Tasks, AtWork(task[t])
  PROVE  AtWork(task'[t]) \/ Quiet(t)'
<1>0. TypeOK /\ Numbered
  BY DEF IInv, Named
<1>1. UNCHANGED <<proc, restarts>> /\ pc = "ghosts" /\ pc' = "consume"
  BY DEF CleanupGhosts, procVars, envVars
<1>2. CASE DepMove(task[t], task'[t])
  BY <1>2, DepMoveAtWork
<1>3. CASE GhostMove(task[t], task'[t]) /\ task'[t].wf = "blocked"
  BY <1>3 DEF GhostMove, AtWork
<1>4. CASE GhostMove(task[t], task'[t]) /\ task'[t].wf # "blocked"
  <2> DEFINE r == task[t]
  <2>1. Ghost(r) /\ task'[t].wt = 0
    BY <1>4 DEF GhostMove
  <2>2. r.pid # 0 /\ ~Busy(proc[r.pid]) /\ \A p \in Procs : proc[p].claim = r.claim => ~proc[p].rep
    BY <2>1 DEF Ghost, Alive
  <2>3. r.pid \in Procs /\ Started(r.pid) /\ proc[r.pid].claim = r.claim
    BY <1>0, <2>2, Records DEF Task, Numbered, RecordNumbered
  <2> HIDE DEF r
  <2>4. ASSUME NEW p \in Procs, proc[p].task = t, Engaged(p)
        PROVE  FALSE
    <3>1. proc[p].claim = r.claim /\ Started(p)
      BY <2>4 DEF Settled, Engaged, Unsettled, Started, r
    <3>2. p = r.pid
      BY <1>0, <2>3, <3>1 DEF Numbered, OneProcessPerClaim
    <3> QED
      BY <2>2, <2>4, <3>1, <3>2 DEF Engaged
  <2>5. Deserted(t)'
    BY <1>1, <2>1 DEF Deserted, IInv, WorkAssigned, Branches
  <2>6. \A p \in Procs : proc'[p].task = t => ~Engaged(p)'
    BY <1>1, <2>4 DEF Engaged, Unsettled, Stopped
  <2> QED
    BY <2>5, <2>6 DEF Quiet
<1> QED
  BY <1>0, <1>2, <1>3, <1>4, GhostsMove

LEMMA StartSettles ==
  ASSUME IInv, IInv', Named, Start, NEW t \in Tasks, AtWork(task[t])
  PROVE  AtWork(task'[t]) \/ Quiet(t)'
<1>0. TypeOK /\ Orderly /\ Numbered
  BY DEF IInv, Named
<1>1. CASE task'[t].wt = 0
  <2>1. \A p \in Procs : ~Engaged(p)'
    BY <1>0, NobodyAtStart, NumberedNobodyYet DEF Engaged
  <2>2. Deserted(t)'
    BY <1>1 DEF Deserted, IInv, WorkAssigned, Branches
  <2> QED
    BY <2>1, <2>2 DEF Quiet
<1>2. CASE task'[t].wt # 0
  <2>1. StartMove(t, task[t], task'[t])
    BY <1>0, StartMoves
  <2> QED
    BY <1>2, <2>1 DEF StartMove, SweepMove, DepMove, SamePlace, AtWork
<1> QED
  BY <1>1, <1>2

LEMMA TasksSettled ==
  ASSUME IInv, IInv', Lawful, Calm, Named, Default, Settled, Latest, Reports, Next,
         MaxRestarts = 0 => Reasoned(task), NEW t \in Tasks
  PROVE  AtWork(task'[t]) \/ Quiet(t)'
<1>0. /\ TypeOK /\ Orderly /\ Numbered
      /\ AttemptsCounted /\ MaxAttempts = 1
  BY DEF IInv, Named, Lawful, ClaimsAreLawful, AttemptsCounted, Default
<1>c. CASE Claim(t)
  BY <1>0, <1>c, ClaimMoves DEF AtWork
<1>l. CASE Launch(t) \/ LaunchLost(t)
  <2>1. task[t].wf = "claimed"
    BY <1>l DEF Launch, LaunchLost, Lawful, LaunchesAreClaimed
  <2>2. task'[t].wf = "claimed"
    BY <1>0, <1>l, <2>1, BirthMoves
  <2> QED
    BY <2>2 DEF AtWork
<1>q. CASE Quiet(t) /\ ~Claim(t) /\ ~Launch(t) /\ ~LaunchLost(t)
  <2>1. Tame(task[t], task'[t])
    BY <1>0, <1>q, TameSteps
  <2> QED
    BY <1>0, <1>q, <2>1, QuietFrame DEF Tame
<1>a. CASE AtWork(task[t]) /\ ~Quiet(t)
  <2>u. CASE task'[t] = task[t]
    BY <1>a, <2>u
  <2>1. CASE CleanupGhosts
    BY <1>a, <2>1, GhostSettles
  <2>2. CASE Start
    BY <1>a, <2>2, StartSettles
  <2>3. CASE ApplyBus \/ PauseOnConflict \/ \E u \in Tasks : HeartbeatAges(u)
    <3>1. Stays(task[t], task'[t]) \/ StaleMove(task[t], task'[t])
      BY <1>0, <2>3, BusMoves, PauseMoves, AgingMoves
    <3>2. StaleAction = "block" => task[t].err # "dep"
      BY <1>a DEF Default, Reasoned, AtWork
    <3> QED
      BY <1>a, <3>1, <3>2 DEF Stays, StaleMove, AtWork
  <2>4. CASE Advance
    BY <1>0, <1>a, <2>4, AdvanceMoves DEF PhaseMove, MergeSources, AtWork
  <2>5. CASE TakeMergeResult
    <3> DEFINE m == Head(merges)
    <3>1. CASE UNCHANGED task
      BY <2>u, <3>1
    <3>2. CASE ~UNCHANGED task
      <4>1. PICK r \in Task :
              /\ MergeMove(task[m.task], r, m.how = "ok")
              /\ \A u \in Tasks : DepMove(IF u = m.task THEN r ELSE task[u], task'[u])
        BY <1>0, <2>5, <3>2, TakenResultMoves
      <4> HIDE DEF m
      <4>2. t # m.task
        BY <1>a, <4>1 DEF MergeMove, MergeSources, AtWork
      <4> QED
        BY <1>a, <4>1, <4>2, DepMoveAtWork
    <3> QED
      BY <3>1, <3>2
  <2>6. CASE MergesDone \/ OperatorResumes
    <3>1. \A m \in failedMerge : Quiet(m.task)
      BY <2>6 DEF MergesDone, OperatorResumes, Settled, Stopped
    <3>2. task'[t] = task[t]
      BY <1>0, <1>a, <2>6, <3>1, FailuresMove
    <3> QED
      BY <2>u, <3>2
  <2>7. ASSUME NEW u \in Tasks, NEW p \in Procs, TakeExit(u, p) \/ PauseOnExit(u, p)
        PROVE  AtWork(task'[t]) \/ Quiet(t)'
    <3>1. CASE u = t
      BY <1>0, <2>7, <3>1, ConcludedSettles
    <3>2. CASE u # t
      <4>1. PICK s, r : Concludes(u, p, s, r)
        BY <1>0, <2>7, ExitMoves
      <4> QED
        BY <1>a, <3>2, <4>1, DepMoveAtWork DEF Concludes
    <3> QED
      BY <3>1, <3>2
  <2>8. ASSUME NEW u \in Tasks, NEW p \in Procs, Salvage(u, p) \/ Respawn(u, p)
        PROVE  FALSE
    BY <1>0, <2>8, OneAttempt
  <2>9. ASSUME NEW u \in Tasks, Claim(u) \/ Launch(u)
        PROVE  task'[t] = task[t] \/ Claim(t) \/ Launch(t)
    BY <1>0, <2>9, ClaimMoves, LaunchMoves
  <2> QED
    BY <1>c, <1>l, <2>u, <2>1, <2>2, <2>3, <2>4, <2>5, <2>6, <2>7, <2>8, <2>9, RegistryFrame
    DEF RegistryStep
<1> QED
  BY <1>c, <1>l, <1>q, <1>a DEF Settled

LEMMA SettledKept ==
  ASSUME IInv, IInv', Lawful, Calm, Named, Default, Settled, Latest, Reports, Next,
         MaxRestarts = 0 => Reasoned(task)
  PROVE  Settled'
<1>0. AttemptsCounted /\ MaxAttempts = 1
  BY DEF Lawful, ClaimsAreLawful, AttemptsCounted, Default
<1>1. \A t \in Tasks : AtWork(task'[t]) \/ Quiet(t)'
  BY TasksSettled
<1>2. \A p \in Procs : Engaged(p)' => proc'[p].claim = task'[proc'[p].task].claim
  BY <1>0, EngagedKept
<1>3. pc' = "launch" => \A t \in launching' : Deserted(t)'
  BY <1>0, LaunchesDeserted
<1>4. ~Stopped' => \A m \in failedMerge' : Quiet(m.task)'
  BY <1>0, FailedMergesQuiet
<1> QED
  BY <1>1, <1>2, <1>3, <1>4 DEF Settled

-----------------------------------------------------------------------------
(* Reports: what a process may have told, by the state it is in.           *)

\* A busy process of this run that has told nothing is still listened to.
LEMMA HeardOut ==
  ASSUME Settled, NEW p \in Procs, Unsettled(p), Busy(proc[p])
  PROVE  Accepted(p)
BY DEF Settled, Engaged, Unsettled, Accepted

LEMMA PerformerReports ==
  ASSUME TypeOK, Orderly, Numbered, Settled, Reports, Default, Next,
         NEW p \in Procs, Performer(p)
  PROVE  /\ Told(proc'[p])
         /\ Unsettled(p)' /\ ~proc'[p].rep =>
              proc'[p].log = {} /\ proc'[p].code \in {"fatal", "E901"}
<1> DEFINE q == proc[p]
           r == proc'[p]
<1>1. Told(q) /\ (Unsettled(p) /\ ~q.rep => q.log = {} /\ q.code \in {"fatal", "E901"})
  BY DEF Reports
<1>2. Unsettled(p)' => Unsettled(p)
  <2>1. q.st # "none"
    BY PerformerGoesOn
  <2>2. ~Born(p)
    BY <2>1, Numbers, ProcessAt DEF Born, Orderly, Unborn, Started, Process
  <2> QED
    BY <2>2, UnsettledFrame, NumberedNobodyYet
<1>3. CASE StartTool(p) \/ ToolSilent(p) \/ FailExit(p)
  <2>1. /\ r.kind = q.kind /\ r.log = q.log /\ r.rep = q.rep /\ r.code = q.code /\ r.ok = q.ok
        /\ <<q.st, r.st>> \in {<<"starting", "tool">>, <<"tool", "commit">>, <<"failing", "exited">>}
    BY <1>3, StateFields DEF StateOnly, SameWord
  <2> HIDE DEF q, r
  <2>2. Told(r)
    BY <1>1, <2>1 DEF Told
  <2> QED
    BY <1>1, <1>2, <2>1, <2>2 DEF r
<1>4. CASE Commit(p) \/ CommitFails(p)
  <2>1. /\ r.kind = q.kind /\ r.log = q.log /\ r.rep = q.rep /\ r.code \in {q.code, "fatal"}
        /\ r.st \in {"exited", "failing"}
    BY <1>4, CommitFields, CommitFailsFields DEF SameWord
  <2> HIDE DEF q, r
  <2>2. Told(r)
    BY <1>1, <2>1 DEF Told
  <2> QED
    BY <1>1, <1>2, <2>1, <2>2 DEF r
<1>5. CASE SendExit(p)
  <2> DEFINE v == Authority(q.kind, q.branch \in ahead, q.ok)
  <2>1. /\ r.rep = q.rep /\ r.log = q.log /\ r.st = "sent" /\ r.ok = v.success /\ r.kind = v.kind
        /\ r.code \in {q.code, "E901"}
    BY <1>5, SendExitFields
  <2>2. v.kind \in {q.kind, "none"} /\ (v.success => v.kind # "none")
    BY DEF Authority
  <2> HIDE DEF q, r, v
  <2>3. Told(r)
    BY <1>1, <2>1, <2>2 DEF Told
  <2> QED
    BY <1>1, <1>2, <2>1, <2>3 DEF r
<1>6. CASE ToolChanges(p) \/ ToolNoChanges(p)
  <2>1. PICK kind : q.st = "tool" /\ ReportDone(p, kind)
    BY <1>6 DEF ToolChanges, ToolNoChanges
  <2>2. /\ r.code = q.code /\ r.st \in {"commit", "failing"}
        /\ r.rep = (q.rep \/ Accepted(p))
        /\ r.kind = IF Accepted(p) THEN kind ELSE q.kind
    BY <2>1, ReportFields
  <2>3. Unsettled(p)' => Accepted(p)
    BY <1>2, <2>1, HeardOut DEF Busy
  <2> HIDE DEF q, r
  <2>4. Told(r)
    BY <1>1, <2>1, <2>2 DEF Told
  <2> QED
    BY <2>2, <2>3, <2>4 DEF r
<1>7. CASE ToolFails(p)
  <2>1. PICK o \in Outcomes \ {"changes", "nochanges", "silent"} :
          LET f == FailureOf(o) IN
          /\ q.st = "tool" /\ r.st \in {"starting", "failing"}
          /\ r.st = "starting" => f.code \notin {"rate", "quota"}
          /\ r.rep = (q.rep \/ Accepted(p))
          /\ r.kind = IF Accepted(p) THEN f.kind ELSE q.kind
          /\ r.code = f.code
          /\ r.log = q.log \cup f.log
          /\ r.ok = q.ok
    BY <1>7, FailsFields
  <2> DEFINE f == FailureOf(o)
  <2>2. "done" \notin f.log /\ f.kind \notin {"changes", "nochanges"}
    <3>1. o # "doneThenRate" /\ o \notin {"changes", "nochanges"}
      BY <2>1 DEF Default
    <3> QED
      BY <3>1 DEF FailureOf, Failure
  <2>3. Unsettled(p)' => Accepted(p)
    BY <1>2, <2>1, HeardOut DEF Busy
  <2> HIDE DEF q, r, f
  <2>4. Told(r)
    BY <1>1, <2>1, <2>2 DEF Told, f
  <2> QED
    BY <2>1, <2>3, <2>4 DEF r
<1> QED
  BY <1>3, <1>4, <1>5, <1>6, <1>7 DEF Performer

LEMMA ReportsKept ==
  ASSUME IInv, Lawful, Named, Default, Settled, Reports, Next
  PROVE  Reports'
<1>0. /\ TypeOK /\ Orderly /\ Numbered /\ Posted
      /\ AttemptsCounted /\ MaxAttempts = 1
  BY DEF IInv, Named, Orderly, Lawful, ClaimsAreLawful, AttemptsCounted, Default
<1> SUFFICES ASSUME NEW p \in Procs
             PROVE  /\ Told(proc'[p])
                    /\ Unsettled(p)' /\ ~proc'[p].rep =>
                         proc'[p].log = {} /\ proc'[p].code \in {"fatal", "E901"}
  BY DEF Reports
<1>1. Told(proc[p]) /\ (Unsettled(p) /\ ~proc[p].rep => proc[p].log = {} /\ proc[p].code \in {"fatal", "E901"})
  BY DEF Reports
<1>2. CASE Born(p)
  <2>1. PICK t : proc'[p] = NewProcess(t, task[t].claim, task[t].wt, restarts)
    BY <1>0, <1>2, BornOnce
  <2>2. proc'[p].st = "starting" /\ proc'[p].kind = "none" /\ proc'[p].log = {}
        /\ proc'[p].code = "fatal" /\ ~proc'[p].ok
    BY <2>1 DEF NewProcess
  <2> QED
    BY <2>2 DEF Told
<1>3. CASE Performer(p)
  BY <1>0, <1>3, PerformerReports
<1>4. CASE Dropped(p)
  <2>1. proc'[p].st = "done" /\ proc'[p].kind = "none" /\ proc'[p].log = {}
        /\ proc'[p].code = "fatal"
    BY <1>4, ForgottenFields DEF Dropped
  <2> QED
    BY <2>1 DEF Told
<1>5. CASE (Rests(p) \/ Killed(p)) /\ ~Born(p)
  <2>1. /\ proc'[p].kind = proc[p].kind /\ proc'[p].log = proc[p].log /\ proc'[p].rep = proc[p].rep
        /\ proc'[p].code = proc[p].code /\ proc'[p].ok = proc[p].ok
        /\ proc'[p].st \in {proc[p].st, "failing", "exited"}
    BY <1>0, <1>5, KilledFields DEF Rests, StateOnly, SameWord
  <2>2. Unsettled(p)' => Unsettled(p)
    BY <1>0, <1>5, UnsettledFrame, NumberedNobodyYet
  <2> QED
    BY <1>1, <2>1, <2>2 DEF Told
<1> QED
  BY <1>0, <1>2, <1>3, <1>4, <1>5, ProcessFrame

-----------------------------------------------------------------------------
(* How a task gets on its way to its merge, and how it is closed.          *)

OnItsWay(r) == r.wf \in MergeSources

\* What an exit decides, when it decides s.
Decides(t, p, s) == (TakeExit(t, p) \/ PauseOnExit(t, p)) /\ s \in Decisions(t, p)

LEMMA ProgressFrame ==
  ASSUME TypeOK, Lawful, AttemptsCounted, MaxAttempts = 1, Calm, Default, Next, NEW t \in Tasks,
         task'[t].wf \in MergeSources \cup {"merged"}
  PROVE  \/ task'[t].wf = task[t].wf
         \/ OnItsWay(task[t]) /\ OnItsWay(task'[t])
         \/ ~Stopped /\ OnItsWay(task'[t]) /\ \E m \in failedMerge : m.task = t
         \/ \E p \in Procs : \E s \in Strategies :
              Decides(t, p, s) /\ \/ s.do = "done" /\ OnItsWay(task'[t])
                                  \/ s.do = "merge" /\ task'[t].wf = "merged"
         \/ TakeMergeResult /\ t = Head(merges).task /\ Head(merges).how = "ok"
              /\ task'[t].wf = "merged"
         \/ Start /\ t \in delivered /\ task'[t].wt = 0 /\ task'[t].wf = "merged"
<1> DEFINE r == task[t]
           s == task'[t]
<1>0. TypeOK /\ AttemptsCounted /\ MaxAttempts = 1
  OBVIOUS
<1>w. s.wf \notin {"todo", "blocked", "claimed"}
  BY DEF MergeSources
<1>d. ASSUME NEW x, DepMove(x, s)
      PROVE  s.wf = x.wf
  BY <1>d, <1>w DEF DepMove
<1>1. CASE CleanupGhosts \/ ApplyBus \/ PauseOnConflict \/ \E u \in Tasks : HeartbeatAges(u)
  <2>1. DepMove(r, s) \/ Stays(r, s) \/ StaleMove(r, s) \/ GhostMove(r, s)
    BY <1>0, <1>1, GhostsMove, BusMoves, PauseMoves, AgingMoves
  <2> QED
    BY <1>d, <1>w, <2>1 DEF Stays, StaleMove, GhostMove
<1>2. CASE TakeMergeResult
  <2> DEFINE m == Head(merges)
  <2>1. CASE UNCHANGED task
    BY <2>1
  <2>2. CASE ~UNCHANGED task
    <3>1. PICK x \in Task :
            /\ MergeMove(task[m.task], x, m.how = "ok")
            /\ \A u \in Tasks : DepMove(IF u = m.task THEN x ELSE task[u], task'[u])
      BY <1>0, <1>2, <2>2, TakenResultMoves
    <3>2. CASE t = m.task
      <4>1. s.wf = x.wf
        BY <1>d, <3>1, <3>2
      <4> QED
        BY <1>2, <1>w, <3>1, <3>2, <4>1 DEF MergeMove
    <3>3. CASE t # m.task
      BY <1>d, <3>1, <3>3
    <3> QED
      BY <3>2, <3>3
  <2> QED
    BY <2>1, <2>2
<1>3. CASE MergesDone \/ OperatorResumes
  <2>1. ~Stopped
    BY <1>3 DEF MergesDone, OperatorResumes, Stopped
  <2> QED
    BY <1>0, <1>3, <2>1, FailuresMove DEF ResumeMove, OnItsWay, MergeSources
<1>4. CASE Advance
  BY <1>0, <1>4, <1>w, AdvanceMoves DEF PhaseMove, OnItsWay
<1>5. CASE Start
  BY <1>0, <1>5, <1>w, StartMoves DEF StartMove, SweepMove, DepMove
<1>6. ASSUME NEW u \in Tasks, NEW p \in Procs, TakeExit(u, p) \/ PauseOnExit(u, p)
      PROVE  \/ s.wf = r.wf
             \/ \E x \in Strategies :
                  Decides(t, p, x) /\ \/ x.do = "done" /\ OnItsWay(s)
                                      \/ x.do = "merge" /\ s.wf = "merged"
  <2>1. PICK x, y : Concludes(u, p, x, y)
    BY <1>0, <1>6, ExitMoves
  <2>2. CASE u # t
    BY <1>d, <2>1, <2>2 DEF Concludes
  <2>3. CASE u = t
    <3>1. s.wf = y.wf /\ ExitMove(r, y, x.do) /\ x \in Strategies /\ x \in Decisions(t, p)
      BY <1>d, <2>1, <2>3 DEF Concludes
    <3>2. x.do \in {"reported", "attempt", "avail", "auto",
                    "blockReport", "blockBudget", "blockFailure", "merge", "done"}
      BY <3>1 DEF Strategies
    <3>3. \/ x.do = "done" /\ s.wf = "in_progress"
          \/ x.do = "merge" /\ s.wf = "merged"
      BY <1>w, <3>1, <3>2 DEF ExitMove
    <3> QED
      BY <1>6, <2>3, <3>1, <3>3 DEF Decides, OnItsWay, MergeSources
  <2> QED
    BY <2>2, <2>3
<1>7. ASSUME NEW u \in Tasks, NEW p \in Procs, Salvage(u, p) \/ Respawn(u, p)
      PROVE  FALSE
  BY <1>0, <1>7, OneAttempt
<1>8. ASSUME NEW u \in Tasks, Claim(u) \/ Launch(u)
      PROVE  s.wf = r.wf
  BY <1>0, <1>8, <1>w, ClaimMoves, LaunchMoves
<1> QED
  BY <1>1, <1>2, <1>3, <1>4, <1>5, <1>6, <1>7, <1>8, RegistryFrame DEF RegistryStep

\* What a strategy does with a task is decided by who says it, not by where.
LEMMA ReportedDoes ==
  ASSUME NEW r, NEW kind, NEW commits, NEW healthy
  PROVE  ReportedError(r, kind, commits, healthy).do \in {"blockBudget", "reported"}
BY Zenon DEF ReportedError, Strategy

LEMMA FailureDoes ==
  ASSUME NEW r, NEW e, NEW attempt, NEW commits, NEW healthy,
         NEW x, x = FailureStrategy(r, e, attempt, commits, healthy).do
  PROVE  x # "done" /\ (x = "merge" => "done" \in e.log /\ e.code = "rate")
<1>1. CASE "done" \in e.log /\ e.code = "rate"
  BY <1>1 DEF FailureStrategy, Strategy
<1>2. CASE ~("done" \in e.log /\ e.code = "rate") /\ e.log \cap ErrorKinds # {} /\ e.code # "quota"
  <2> DEFINE k == IF "errChanges" \in e.log THEN "errChanges" ELSE "errNone"
  <2>1. x = ReportedError(r, k, commits, healthy).do
    BY <1>2 DEF FailureStrategy
  <2> HIDE DEF k
  <2> QED
    BY <2>1, ReportedDoes
<1>3. CASE ~("done" \in e.log /\ e.code = "rate") /\ ~(e.log \cap ErrorKinds # {} /\ e.code # "quota")
  BY <1>3 DEF FailureStrategy, Strategy
<1> QED
  BY <1>1, <1>2, <1>3

LEMMA ResolutionDoes ==
  ASSUME NEW r, NEW e, NEW attempt, NEW commits, NEW healthy,
         e.kind \in {"changes", "nochanges", "none"} \cup ErrorKinds,
         NEW x, x = ResolveRetryStrategy(r, e, attempt, commits, healthy).do
  PROVE  /\ x = "done" => e.success /\ e.kind \in {"changes", "none"}
         /\ x = "merge" =>
              (e.success /\ e.kind = "nochanges") \/ ("done" \in e.log /\ e.code = "rate")
<1>1. CASE e.kind \in ErrorKinds /\ e.code # "quota" /\ TerminalReport(r, e)
  BY <1>1 DEF ResolveRetryStrategy, Strategy
<1> DEFINE terminal == e.kind \in ErrorKinds /\ e.code # "quota" /\ TerminalReport(r, e)
<1>2. CASE ~terminal /\ ~e.success
  <2>1. x = FailureStrategy(r, e, attempt, commits, healthy).do
    BY <1>2 DEF ResolveRetryStrategy
  <2> QED
    BY <2>1, FailureDoes
<1>3. CASE ~terminal /\ e.success /\ e.kind \in ErrorKinds
  <2>1. x = ReportedError(r, e.kind, commits, healthy).do
    BY <1>3 DEF ResolveRetryStrategy, ErrorKinds
  <2> QED
    BY <2>1, ReportedDoes
<1>4. CASE ~terminal /\ e.success /\ e.kind \in {"changes", "nochanges", "none"}
  <2>1. CASE e.kind = "nochanges"
    BY <1>4, <2>1 DEF ResolveRetryStrategy, Strategy, ErrorKinds
  <2>2. CASE e.kind \in {"changes", "none"}
    BY <1>4, <2>2 DEF ResolveRetryStrategy, Strategy, ErrorKinds
  <2> QED
    BY <1>4, <2>1, <2>2
<1> QED
  BY <1>1, <1>2, <1>3, <1>4

\* A decision to go on or to close follows what the process has told.
LEMMA DecisionsTold ==
  ASSUME TypeOK, Posted, Reports, NEW t \in Tasks, NEW p \in Procs,
         NEW s \in Strategies, Decides(t, p, s)
  PROVE  /\ Unsettled(p) /\ t = proc[p].task
         /\ s.do = "done" => proc[p].kind = "changes" /\ proc[p].ok
         /\ s.do = "merge" => proc[p].kind = "nochanges"
<1> DEFINE q == proc[p]
<1>1. exits # <<>> /\ p = Head(exits) /\ t = q.task /\ ~Stopped /\ s \in Decisions(t, p)
  BY DEF Decides, TakeExit, PauseOnExit, ExitTaken, Stopped
<1>2. q.st = "sent" /\ Unsettled(p)
  BY <1>1, HeadIsSent DEF Unsettled
<1>3. Told(q)
  BY DEF Reports
<1>5. PICK expl, healthy : s = Decision(t, p, expl, healthy)
  BY <1>1 DEF Decisions
<1> DEFINE e == ExitOf(p, expl)
           commits == task[t].wt \in ahead
<1>6. e.kind = q.kind /\ e.success = q.ok /\ e.log = q.log /\ e.code = q.code
  BY DEF ExitOf
<1>7. s = ResolveRetryStrategy(task[t], e, jobs[t].attempt, commits, healthy)
  BY <1>5 DEF Decision
<1> HIDE DEF e, commits
<1>8. e.kind \in {"changes", "nochanges", "none"} \cup ErrorKinds
  BY <1>1, <1>6, ProcessAt DEF Process, Kinds
<1>9. /\ s.do = "done" => e.success /\ e.kind \in {"changes", "none"}
      /\ s.do = "merge" =>
              (e.success /\ e.kind = "nochanges") \/ ("done" \in e.log /\ e.code = "rate")
  BY <1>7, <1>8, ResolutionDoes
<1>10. s.do = "done" => q.kind = "changes" /\ q.ok
  BY <1>2, <1>3, <1>6, <1>9 DEF Told
<1>11. s.do = "merge" => q.kind = "nochanges"
  BY <1>3, <1>6, <1>9 DEF Told
<1> QED
  BY <1>1, <1>2, <1>10, <1>11

-----------------------------------------------------------------------------
(* Hushed: no task past its work shows, or will show, as running.          *)

Resting(r) == PastWork(r) => r.rt # "running"

\* What the operators of the loop make of a record that rests.
LEMMA ReconciledRests ==
  ASSUME NEW reg \in [Tasks -> Task], NEW t \in Tasks, Resting(reg[t])
  PROVE  Resting(ReconcileTaskBlocks(reg)[t])
BY DEF ReconcileTaskBlocks, Resting, PastWork, MergeSources, Task

LEMMA CompletedRests ==
  ASSUME TypeOK, NEW t \in Tasks, NEW r \in Task, Resting(r), NEW u \in Tasks, Resting(task[u])
  PROVE  Resting(Completed(t, r)[u])
<1> DEFINE reg == [task EXCEPT ![t] = r]
<1>1. reg \in [Tasks -> Task] /\ Resting(reg[u])
  BY Records
<1> HIDE DEF reg
<1> QED
  BY <1>1, ReconciledRests DEF Completed, reg

LEMMA ExorcisedRests ==
  ASSUME NEW r \in Task, Resting(r)
  PROVE  Resting(Exorcised(r))
BY DEF Exorcised, Resting, Task

LEMMA SyncedRests ==
  ASSUME NEW t, NEW r \in Task, Resting(r)
  PROVE  Resting(Synced(t, r))
BY DEF Synced, Resting, Task

LEMMA UpdatedRests ==
  ASSUME NEW r \in Task, Resting(r), NEW u \in Update, PastWork(r) => u.st # "running"
  PROVE  Resting(ApplyUpdate(r, u))
BY DEF ApplyUpdate, Resting, PastWork, Task

LEMMA StrategyRests ==
  ASSUME NEW r \in Task, NEW s \in Strategies, NEW code
  PROVE  Resting(ApplyStrategy(r, s, code))
BY DEF ApplyStrategy, Resting, PastWork, MergeSources, Task, Strategies, Block, Requeue, Attached

LEMMA PhaseRests ==
  ASSUME NEW r \in Task, NEW plan, NEW outcome
  PROVE  Resting(ApplyPhaseOutcome(r, plan, outcome)) /\ Resting(ApplyToolUnavailable(r))
BY DEF ApplyPhaseOutcome, ApplyToolUnavailable, Resting, Task

LEMMA MergeResultRests ==
  ASSUME NEW r \in Task, Resting(r), NEW ok \in BOOLEAN
  PROVE  Resting(ApplyMergeResult(r, ok)) /\ Resting(ResumeMerge(r))
BY DEF ApplyMergeResult, ResumeMerge, Resting, Task

\* A start closes a task only by its commit on the base branch.
LEMMA StartupRests ==
  ASSUME TypeOK, NEW t \in Tasks, Resting(task[t]), rows[t].st # "running"
  PROVE  Resting(Startup(t))
<1> DEFINE r0 == SyncedRegistry[t]
           r1 == Synced(t, r0)
           r2 == Exorcised(r1)
           r3 == ApplyUpdate(r2, rows[t])
<1>1. r0 \in Task /\ rows[t] \in Update /\ Resting(r0)
  BY Records, SyncMoves, ReconciledRests DEF TypeOK, BusOK, SyncedRegistry
<1>2. r1 \in Task /\ Resting(r1)
  BY <1>1, SyncedKeeps, SyncedRests
<1>3. r2 \in Task /\ Resting(r2)
  BY <1>2, ExorcisedKeeps, ExorcisedRests
<1>4. r3 \in Task /\ Resting(r3)
  BY <1>1, <1>3, UpdateKeeps, UpdatedRests
<1>5. Startup(t) = Swept(r3)
  BY DEF Startup
<1> HIDE DEF r3
<1> QED
  BY <1>4, <1>5 DEF Swept, SweepParked, Requeued, Resting, PastWork, MergeSources, Task

LEMMA RestingKept ==
  ASSUME TypeOK, Lawful, AttemptsCounted, MaxAttempts = 1, MaxRestarts = 0, Hushed, Next,
         NEW t \in Tasks
  PROVE  Resting(task'[t])
<1>0. /\ task \in [Tasks -> Task] /\ task[t] \in Task /\ \A u \in Tasks : Resting(task[u])
      /\ PastWork(task[t]) => Silent(t)
  BY Records DEF Hushed, Resting
<1>u. CASE task'[t] = task[t]
  BY <1>0, <1>u
<1>1. CASE CleanupGhosts
  <2>1. task'[t] = Exorcised(SyncedRegistry[t])
    BY <1>1 DEF CleanupGhosts
  <2>2. SyncedRegistry[t] \in Task /\ Resting(SyncedRegistry[t])
    BY <1>0, SyncMoves, ReconciledRests DEF SyncedRegistry
  <2> QED
    BY <2>1, <2>2, ExorcisedRests
<1>2. CASE ApplyBus
  <2> DEFINE r == ApplyUpdate(task[t], bus[t])
  <2>1. task'[t] = StalePolicy(t, r)
    BY <1>2 DEF ApplyBus
  <2>2. bus[t] \in Update
    BY DEF TypeOK, BusOK
  <2>3. r \in Task /\ Resting(r)
    BY <1>0, <2>2, UpdateKeeps, UpdatedRests DEF Silent
  <2> HIDE DEF r
  <2> QED
    BY <2>1, <2>3 DEF StalePolicy, Resting, PastWork, MergeSources, Task
<1>3. CASE TakeMergeResult
  <2> DEFINE m == Head(merges)
  <2>1. m.task \in Tasks /\ (m.how = "ok") \in BOOLEAN
    BY <1>3, TakenResultMoves DEF MergeResult
  <2>2. CASE UNCHANGED task
    BY <1>u, <2>2
  <2>3. CASE task' = Completed(m.task, ApplyMergeResult(task[m.task], m.how = "ok"))
    <3>1. task[m.task] \in Task /\ Resting(task[m.task])
      BY <1>0, <2>1
    <3> DEFINE r == ApplyMergeResult(task[m.task], m.how = "ok")
    <3>2. r \in Task /\ Resting(r)
      BY <2>1, <3>1, MergeResultKeeps, MergeResultRests
    <3> HIDE DEF r, m
    <3> QED
      BY <1>0, <2>1, <2>3, <3>2, CompletedRests DEF r
  <2> QED
    BY <1>3, <2>2, <2>3 DEF TakeMergeResult
<1>4. CASE MergesDone \/ OperatorResumes
  <2>1. task'[t] \in {task[t], ResumeMerge(task[t])}
    BY <1>4 DEF MergesDone, OperatorResumes
  <2> QED
    BY <1>0, <2>1, MergeResultRests
<1>5. CASE PauseOnConflict \/ \E u \in Tasks : HeartbeatAges(u)
  <2>1. task'[t] \in {task[t], [task[t] EXCEPT !.rt = "paused"], [task[t] EXCEPT !.hb = "old"]}
    BY <1>0, <1>5 DEF PauseOnConflict, HeartbeatAges
  <2> QED
    BY <1>0, <2>1 DEF Resting, PastWork, Task
<1>6. CASE Advance
  <2>1. \/ task'[t] \in {task[t], ApplyMergeResult(task[t], FALSE), ApplyToolUnavailable(task[t])}
        \/ \E plan, outcome : task'[t] = ApplyPhaseOutcome(task[t], plan, outcome)
    BY <1>6 DEF Advance, AfterPhase
  <2> QED
    BY <1>0, <2>1, PhaseRests, MergeResultRests
<1>7. CASE Start
  <2>1. nclaim = 0
    BY <1>7 DEF Start, TypeOK, EnvOK
  <2>2. task'[t] = Startup(t) /\ rows[t].st # "running"
    BY <1>7, <2>1 DEF Start, Hushed, Silent
  <2> QED
    BY <1>0, <2>2, StartupRests
<1>8. ASSUME NEW u \in Tasks, NEW p \in Procs, TakeExit(u, p) \/ PauseOnExit(u, p)
      PROVE  Resting(task'[t])
  <2>1. PICK s \in Decisions(u, p) :
          task' = Completed(u, ApplyStrategy(task[u], s, proc[p].code))
    BY <1>8 DEF TakeExit, PauseOnExit
  <2>2. s \in Strategies /\ task[u] \in Task
    BY <1>0, DecisionsAffordable DEF Affordable
  <2>3. /\ ApplyStrategy(task[u], s, proc[p].code) \in Task
        /\ Resting(ApplyStrategy(task[u], s, proc[p].code))
    BY <2>2, DecisionsAffordable, StrategyKeeps, StrategyRests DEF Affordable
  <2> QED
    BY <1>0, <2>1, <2>3, CompletedRests
<1>9. ASSUME NEW u \in Tasks, NEW p \in Procs, Salvage(u, p) \/ Respawn(u, p)
      PROVE  FALSE
  BY <1>9, OneAttempt
<1>10. ASSUME NEW u \in Tasks, Claim(u) \/ Launch(u)
       PROVE  Resting(task'[t])
  <2>1. task'[t] = task[t] \/ task'[t].wf = "claimed"
    BY <1>0, <1>10, ClaimMoves, LaunchMoves
       DEF Claim, Launch, Lawful, LaunchesAreClaimed
  <2> QED
    BY <1>0, <2>1 DEF Resting, PastWork, MergeSources
<1> QED
  BY <1>u, <1>1, <1>2, <1>3, <1>4, <1>5, <1>6, <1>7, <1>8, <1>9, <1>10, RegistryFrame
  DEF RegistryStep

\* What a step makes of the events of a task: only a tool that starts, of a process that is
\* listened to, says that it runs.
LEMMA ThenSilent ==
  ASSUME NEW u \in Update, NEW v \in Update, v.st # "running"
  PROVE  /\ u.st # "running" => Then(u, v).st # "running"
         /\ v.st # "none" => Then(u, v).st # "running"
BY DEF Then

LEMMA EventsOf ==
  /\ NoUpdate.st = "none" /\ Beat.st = "none"
  /\ \A st : Event(st).st = st
BY DEF NoUpdate, Beat, Event

LEMMA PostSilent ==
  ASSUME TypeOK, NEW t \in Tasks, NEW p \in Procs, NEW u \in Update, Post(p, u),
         u.st # "running"
  PROVE  /\ Silent(t) => Silent(t)'
         /\ Accepted(p) /\ u.st # "none" /\ t = proc[p].task => Silent(t)'
<1>0. rows \in [Tasks -> Update] /\ bus \in [Tasks -> Update]
  BY DEF TypeOK, BusOK
<1>1. CASE ~Accepted(p)
  BY <1>1 DEF Post, Silent, busVars
<1>2. CASE Accepted(p)
  <2>1. /\ rows' = [rows EXCEPT ![proc[p].task] = Then(rows[proc[p].task], u)]
        /\ bus' = [bus EXCEPT ![proc[p].task] = Then(bus[proc[p].task], u)]
    BY <1>2 DEF Post
  <2>2. CASE t = proc[p].task
    <3>1. rows'[t] = Then(rows[t], u) /\ bus'[t] = Then(bus[t], u)
      BY <1>0, <2>1, <2>2
    <3> QED
      BY <1>0, <3>1, ThenSilent DEF Silent
  <2>3. CASE t # proc[p].task
    BY <1>0, <2>1, <2>3 DEF Silent
  <2> QED
    BY <2>2, <2>3
<1> QED
  BY <1>1, <1>2

LEMMA SilentFrame ==
  ASSUME TypeOK, Next, NEW t \in Tasks, Silent(t)
  PROVE  Silent(t)' \/ \E p \in Procs : StartTool(p) /\ Accepted(p) /\ proc[p].task = t
<1>0. rows \in [Tasks -> Update] /\ bus \in [Tasks -> Update]
  BY DEF TypeOK, BusOK
<1>u. ASSUME UNCHANGED busVars
      PROVE  Silent(t)'
  BY <1>u DEF Silent, busVars
<1>b. ASSUME NEW u \in Tasks, rows' = [rows EXCEPT ![u] = Then(@, Beat)], bus' = bus
      PROVE  Silent(t)'
  <2>1. rows'[t] = rows[t] \/ rows'[t] = Then(rows[t], Beat)
    BY <1>0, <1>b
  <2> QED
    BY <1>0, <1>b, <2>1, ThenSilent, EventsOf, UpdateType DEF Silent
<1>1. ASSUME NEW p \in Procs, Performer(p), ~StartTool(p)
      PROVE  Silent(t)'
  <2>1. CASE \E st \in {"phase_done", "failed"} : Post(p, Event(st))
    <3>1. PICK st \in {"phase_done", "failed"} : Post(p, Event(st))
      BY <2>1
    <3>2. Event(st) \in Update /\ Event(st).st # "running"
      BY EventsOf, UpdateType
    <3> QED
      BY <3>1, <3>2, PostSilent
  <2>2. CASE ToolChanges(p) \/ ToolNoChanges(p)
    BY <2>1, <2>2 DEF ToolChanges, ToolNoChanges, ReportDone
  <2>3. CASE ToolSilent(p) \/ Commit(p) \/ CommitFails(p) \/ SendExit(p)
    BY <1>u, <2>3 DEF ToolSilent, Commit, CommitFails, SendExit
  <2>4. CASE ToolFails(p) \/ FailExit(p)
    BY <2>1, <2>4 DEF ToolFails, FailExit
  <2> QED
    BY <1>1, <2>2, <2>3, <2>4 DEF Performer
<1>s. ASSUME NEW p \in Procs, StartTool(p), ~(Accepted(p) /\ proc[p].task = t)
      PROVE  Silent(t)'
  BY <1>0, <1>s DEF StartTool, Post, Silent, busVars
<1>2. ASSUME NEW p \in Procs, Heartbeat(p)
      PROVE  Silent(t)'
  BY <1>2, PostSilent, EventsOf, UpdateType DEF Heartbeat
<1>3. CASE ConsumeRows
  <2>1. bus'[t] = Then(bus[t], rows[t]) /\ rows'[t] = NoUpdate
    BY <1>3 DEF ConsumeRows
  <2> QED
    BY <1>0, <2>1, ThenSilent, EventsOf DEF Silent
<1>4. CASE ApplyBus \/ StorageFails \/ Start
  <2>1. rows'[t] \in {rows[t], NoUpdate} /\ bus'[t] \in {bus[t], NoUpdate}
    BY <1>4 DEF ApplyBus, StorageFails, Start
  <2> QED
    BY <2>1, EventsOf DEF Silent
<1>6. CASE Monitor
  <2>1. ASSUME NEW u \in Tasks, NEW p \in Procs,
               TakeExit(u, p) \/ Salvage(u, p) \/ Respawn(u, p)
        PROVE  Silent(t)'
    BY <1>b, <2>1 DEF TakeExit, Salvage, Respawn
  <2> QED
    BY <1>u, <1>3, <1>4, <1>6, <2>1 DEF Monitor, CleanupGhosts, DropExit, ExitsDone,
       PauseOnExit
<1>7. CASE Loop
  <2>1. ASSUME NEW u \in Tasks, Launch(u)
        PROVE  Silent(t)'
    BY <1>b, <2>1 DEF Launch
  <2> QED
    BY <1>u, <1>6, <1>7, <2>1 DEF Loop, TakeMergeResult, MergesDone, PauseOnConflict,
       Advance, Claim, DispatchDone, EndCycle
<1>8. CASE MergeWorker \/ Operator
  BY <1>u, <1>8, MergeWorkerFrame DEF Operator, OperatorReviews, OperatorResumes
<1>9. CASE Environment
  BY <1>u, <1>2, <1>4, <1>9 DEF Environment, PhaseTimeout, Die, HeartbeatAges, LaunchLost,
     ThrottleExpires, DispatchFails, Crash
<1> QED
  BY <1>1, <1>s, <1>4, <1>7, <1>8, <1>9 DEF Next

LEMMA StartSilences ==
  ASSUME Start, NEW t \in Tasks
  PROVE  Silent(t)'
BY EventsOf DEF Start, Silent

\* A tool that starts and is listened to is that of a process its task is waited for.
LEMMA StartsEngaged ==
  ASSUME NEW p \in Procs, StartTool(p), Accepted(p)
  PROVE  Engaged(p) /\ proc[p].st = "starting"
BY DEF StartTool, Accepted, Engaged, Unsettled, Busy

LEMMA QuietSilent ==
  ASSUME TypeOK, Next, NEW t \in Tasks, Silent(t), Quiet(t)
  PROVE  Silent(t)'
BY SilentFrame, StartsEngaged DEF Quiet

\* Nor does anybody start once the success of the task has been told: whoever told it is
\* the one that is listened to.
LEMMA ToldSilent ==
  ASSUME TypeOK, Numbered, Settled, Reports, Next, NEW t \in Tasks, NEW p \in Procs,
         t = proc[p].task, Unsettled(p), proc[p].kind \in {"changes", "nochanges"}, Silent(t)
  PROVE  Silent(t)'
<1>1. Told(proc[p])
  BY DEF Reports
<1>2. Engaged(p) /\ proc[p].st # "starting"
  BY <1>1 DEF Told, Engaged
<1>3. ASSUME NEW q \in Procs, StartTool(q), Accepted(q), proc[q].task = t
      PROVE  FALSE
  <2>1. Engaged(q) /\ proc[q].st = "starting"
    BY <1>3, StartsEngaged
  <2>2. proc[p].claim = proc[q].claim /\ Started(p) /\ Started(q)
    BY <1>2, <1>3, <2>1 DEF Settled, Engaged, Unsettled, Started
  <2>3. p = q
    BY <2>2 DEF Numbered, OneProcessPerClaim
  <2> QED
    BY <1>2, <2>1, <2>3
<1> QED
  BY <1>1, <1>3, SilentFrame

\* A success is told with the event that the phase is done.
LEMMA SuccessTold ==
  ASSUME TypeOK, Orderly, Numbered, Default, AttemptsCounted, Next,
         NEW p \in Procs, Unsettled(p)', proc'[p].kind \in {"changes", "nochanges"}
  PROVE  /\ ~Start /\ ~Stopped /\ proc'[p].task = proc[p].task
         /\ \/ Unsettled(p) /\ proc[p].kind \in {"changes", "nochanges"}
            \/ \E kind : ReportDone(p, kind) /\ Accepted(p)
<1> DEFINE q == proc[p]
           r == proc'[p]
<1>0. MaxAttempts = 1 /\ Posted /\ NobodyYet
  BY NumberedNobodyYet DEF Default, Orderly
<1>1. ~Start /\ ~Stopped /\ (Born(p) \/ (Unsettled(p) /\ GoesOn(q, r)))
  BY <1>0, UnsettledFrame
<1>2. ~Born(p)
  <2>1. ASSUME Born(p)
        PROVE  r.kind = "none"
    <3>1. PICK t : r = NewProcess(t, task[t].claim, task[t].wt, restarts)
      BY <1>0, <2>1, BornOnce
    <3> QED
      BY <3>1 DEF NewProcess
  <2> QED
    BY <2>1
<1>3. Unsettled(p) /\ r.task = q.task
  BY <1>1, <1>2 DEF GoesOn, Identity
<1>4. CASE r.kind = q.kind
  BY <1>1, <1>3, <1>4
<1>5. CASE Rests(p) \/ Killed(p)
  BY <1>4, <1>5, KilledFields DEF Rests, StateOnly, SameWord
<1>6. CASE Dropped(p)
  BY <1>6, ForgottenFields DEF Dropped
<1>7. CASE StartTool(p) \/ ToolSilent(p) \/ FailExit(p) \/ Commit(p) \/ CommitFails(p)
  BY <1>4, <1>7, StateFields, CommitFields, CommitFailsFields DEF StateOnly, SameWord
<1>8. CASE SendExit(p)
  <2>1. r.kind = Authority(q.kind, q.branch \in ahead, q.ok).kind
    BY <1>8, SendExitFields
  <2>2. Authority(q.kind, q.branch \in ahead, q.ok).kind \in {q.kind, "none"}
    BY DEF Authority
  <2> QED
    BY <1>4, <2>1, <2>2
<1>9. CASE ToolChanges(p) \/ ToolNoChanges(p)
  <2>1. PICK kind : ReportDone(p, kind)
    BY <1>9 DEF ToolChanges, ToolNoChanges
  <2>2. r.kind = IF Accepted(p) THEN kind ELSE q.kind
    BY <2>1, ReportFields
  <2> QED
    BY <1>1, <1>3, <1>4, <2>1, <2>2
<1>10. CASE ToolFails(p)
  <2>1. PICK o \in Outcomes \ {"changes", "nochanges", "silent"} :
          r.kind = IF Accepted(p) THEN FailureOf(o).kind ELSE q.kind
    BY <1>10, FailsFields
  <2>2. FailureOf(o).kind \notin {"changes", "nochanges"}
    BY <2>1 DEF FailureOf, Failure
  <2> QED
    BY <1>4, <2>1, <2>2
<1> QED
  BY <1>2, <1>5, <1>6, <1>7, <1>8, <1>9, <1>10, ProcessFrame DEF Performer

LEMMA SuccessSilent ==
  ASSUME TypeOK, Orderly, Numbered, Settled, Reports, Default, AttemptsCounted, Hushed, Next,
         NEW p \in Procs, Unsettled(p)', proc'[p].kind \in {"changes", "nochanges"},
         NEW t, t = proc'[p].task
  PROVE  Silent(t)'
<1>0. t \in Tasks /\ t = proc[p].task
  BY SuccessTold, ProcessAt DEF Process
<1>1. CASE Unsettled(p) /\ proc[p].kind \in {"changes", "nochanges"}
  BY <1>0, <1>1, ToldSilent DEF Hushed
<1>2. CASE \E kind : ReportDone(p, kind) /\ Accepted(p)
  <2>1. Post(p, Event("phase_done"))
    BY <1>2 DEF ReportDone
  <2>2. Event("phase_done").st = "phase_done" /\ Event("phase_done") \in Update
    BY EventsOf, UpdateType
  <2> QED
    BY <1>0, <1>2, <2>1, <2>2, PostSilent
<1> QED
  BY <1>1, <1>2, SuccessTold

\* The result of a merge is of a task on its way.
LEMMA MergeTaken ==
  ASSUME TypeOK, TakeMergeResult, ~UNCHANGED task
  PROVE  Head(merges).task \in Tasks /\ task[Head(merges).task].wf \in MergeSources
<1> DEFINE h == Head(merges)
<1>1. h.task \in Tasks
  BY TakenResultMoves DEF MergeResult
<1>2. MergeResultApplies(task[h.task], h.how = "ok")
  BY DEF TakeMergeResult
<1> QED
  BY <1>1, <1>2 DEF MergeResultApplies, Checked, MergeResultTo

LEMMA PastWorkSilent ==
  ASSUME IInv, Lawful, Named, Default, Settled, Reports, Calm, Hushed, AttemptsCounted, Next,
         NEW t \in Tasks, PastWork(task'[t])
  PROVE  Silent(t)'
<1>0. /\ TypeOK /\ Orderly /\ Posted /\ Numbered /\ MaxAttempts = 1
  BY DEF IInv, Named, Orderly, Default
<1>s. CASE Start
  BY <1>s, StartSilences
<1>p. ASSUME PastWork(task[t])
      PROVE  Silent(t)'
  <2>1. Silent(t) /\ Quiet(t)
    BY <1>p DEF Hushed, Settled, PastWork, MergeSources, AtWork
  <2> QED
    BY <1>0, <2>1, QuietSilent
<1>1. CASE task'[t].wf = task[t].wf \/ OnItsWay(task[t])
  BY <1>p, <1>1 DEF PastWork, OnItsWay
<1>2. CASE ~Stopped /\ \E m \in failedMerge : m.task = t
  <2>1. Silent(t) /\ Quiet(t)
    BY <1>2 DEF Hushed, Settled
  <2> QED
    BY <1>0, <2>1, QuietSilent
<1>3. ASSUME NEW p \in Procs, NEW s \in Strategies, Decides(t, p, s), s.do \in {"done", "merge"}
      PROVE  Silent(t)'
  <2>1. Unsettled(p) /\ t = proc[p].task /\ proc[p].kind \in {"changes", "nochanges"}
    BY <1>0, <1>3, DecisionsTold
  <2> QED
    BY <1>0, <2>1, ToldSilent DEF Hushed
<1>4. CASE TakeMergeResult /\ t = Head(merges).task /\ task'[t].wf # task[t].wf
  BY <1>0, <1>4, <1>p, MergeTaken DEF PastWork
<1> QED
  BY <1>0, <1>s, <1>1, <1>2, <1>3, <1>4, ProgressFrame DEF PastWork

LEMMA HushedKept ==
  ASSUME IInv, Lawful, Named, Default, Settled, Reports, Hushed, StaleAction = "block",
         AttemptsCounted, Next
  PROVE  Hushed'
<1>0. /\ TypeOK /\ Orderly /\ Posted /\ Numbered /\ MaxAttempts = 1 /\ MaxRestarts = 0 /\ Calm
  BY DEF IInv, Named, Orderly, Default, Calm
<1>1. \A t \in Tasks : PastWork(task'[t]) => task'[t].rt # "running" /\ Silent(t)'
  BY <1>0, RestingKept, PastWorkSilent DEF Resting
<1>2. ASSUME ~Stopped', NEW m \in failedMerge'
      PROVE  Silent(m.task)'
  <2>1. CASE m \in failedMerge /\ ~Stopped
    <3>1. m.task \in Tasks /\ Silent(m.task) /\ Quiet(m.task)
      BY <1>0, <2>1 DEF TypeOK, MergeOK, MergeResult, Hushed, Settled
    <3> QED
      BY <1>0, <3>1, QuietSilent
  <2>2. CASE m.task \in Tasks /\ task[m.task].wf \in MergeSources
    <3>1. Silent(m.task) /\ Quiet(m.task)
      BY <2>2 DEF Hushed, PastWork, Settled, MergeSources, AtWork
    <3> QED
      BY <1>0, <2>2, <3>1, QuietSilent
  <2> QED
    BY <1>0, <1>2, <2>1, <2>2, FailedMergesFrame
<1>3. \A p \in Procs :
        Unsettled(p)' /\ proc'[p].kind \in {"changes", "nochanges"} => Silent(proc[p].task)'
  BY <1>0, SuccessSilent DEF Silent
<1>4. ASSUME nclaim' = 0, NEW t \in Tasks
      PROVE  Silent(t)'
  <2>1. nclaim = 0
    <3>1. nclaim \in Nat
      BY <1>0 DEF TypeOK, ProcOK
    <3> QED
      BY <1>4, <3>1, ClaimFrame DEF Claim
  <2>2. Silent(t) /\ \A p \in Procs : ~Started(p)
    BY <1>0, <2>1, NumberedNobodyYet DEF Hushed, NobodyYet
  <2> QED
    BY <1>0, <2>2, SilentFrame DEF StartTool, Started
<1> QED
  BY <1>1, <1>2, <1>3, <1>4 DEF Hushed

-----------------------------------------------------------------------------
(* All of it together.                                                     *)

\* Within one run, what E905 says of a task, too.
Justified == MaxRestarts = 0 => Fresh /\ Reasoned(task)

Accountable ==
  IInv /\ Lawful /\ Named /\ Settled /\ Latest /\ Reports /\ Calm /\ Justified

LEMMA NobodyAtFirst ==
  ASSUME Init
  PROVE  /\ \A p \in Procs : /\ ~Started(p) /\ ~Busy(proc[p]) /\ ~Engaged(p)
                             /\ proc[p].kind = "none" /\ proc[p].log = {} /\ ~proc[p].ok /\ proc[p].code = "fatal"
         /\ \A t \in Tasks : task[t] = NewTask
<1>1. \A p \in Procs : proc[p] = NoProcess
  BY DEF Init
<1>2. NoProcess.st = "none" /\ NoProcess.kind = "none" /\ NoProcess.log = {} /\ NoProcess.ok = FALSE
      /\ NoProcess.code = "fatal"
  BY DEF NoProcess, NewProcess
<1> QED
  BY <1>1, <1>2 DEF Started, Busy, Engaged, Unsettled, Init

LEMMA AccountableAtFirst ==
  ASSUME Init
  PROVE  Accountable
<1>1. IInv /\ Lawful
  BY InitialState, LawfulAtFirst
<1>2. \A t \in Tasks : /\ task[t].wf = "todo" /\ task[t].wt = 0 /\ task[t].last = 0
                       /\ task[t].pid = 0 /\ task[t].claim = 0
  BY NobodyAtFirst DEF NewTask
<1>3. /\ nclaim = 0 /\ exits = <<>> /\ workers = {} /\ pc = "down"
  BY DEF Init
<1>4. Orderly
  BY <1>3, NobodyAtFirst DEF Orderly, Posted, Unborn
<1>5. Numbered
  BY <1>2, <1>3, NobodyAtFirst DEF Numbered, OneProcessPerClaim, RecordNumbered
<1>6. Owned
  BY <1>2, <1>3, NobodyAtFirst DEF Owned, Holds
<1>7. Settled
  BY <1>3, NobodyAtFirst DEF Settled, Quiet, Deserted, Stopped
<1>8. Latest /\ Reports
  <2>1. Latest
    BY NobodyAtFirst DEF Latest
  <2>2. \A p \in Procs : ~Unsettled(p)
    BY <1>3 DEF Unsettled, Stopped
  <2>3. \A p \in Procs : Told(proc[p])
    BY NobodyAtFirst DEF Told, Started
  <2> QED
    BY <2>1, <2>2, <2>3 DEF Reports
<1>9. Calm
  <2>1. \A t \in Tasks : Silent(t)
    BY EventsOf DEF Init, Silent
  <2>2. \A p \in Procs : ~Unsettled(p)
    BY <1>3 DEF Unsettled, Stopped
  <2>3. \A t \in Tasks : ~PastWork(task[t])
    BY <1>2 DEF PastWork, MergeSources
  <2> QED
    BY <1>3, <2>1, <2>2, <2>3 DEF Calm, Hushed, Stopped
<1>10. Justified
  <2>1. \A t \in Tasks : task[t].err = "none" /\ task[t].wf = "todo"
    BY NobodyAtFirst DEF NewTask
  <2> QED
    BY <2>1 DEF Justified, Fresh, Reasoned
<1> QED
  BY <1>1, <1>4, <1>5, <1>6, <1>7, <1>8, <1>9, <1>10 DEF Accountable, Named

LEMMA AccountableKept ==
  ASSUME Accountable, Default, [Next]_vars
  PROVE  Accountable'
<1>0. /\ IInv /\ Lawful /\ Orderly /\ Numbered /\ Owned /\ Settled /\ Latest /\ Reports /\ Named
      /\ TypeOK /\ Posted /\ AttemptsCounted /\ MaxAttempts = 1 /\ Calm /\ Justified
  BY DEF Accountable, Named, Orderly, IInv, Lawful, ClaimsAreLawful, AttemptsCounted, Default
<1>1. IInv' /\ TypeOK'
  BY <1>0, Inductive DEF IInv
<1>2. Lawful'
  BY <1>0, LawfulKept
<1>3. CASE Next
  <2>1. Orderly'
    BY <1>0, <1>1, <1>3, OrderlyKept
  <2>2. Numbered'
    BY <1>0, <1>1, <1>3, NumberedKept
  <2>3. Owned'
    BY <1>0, <1>1, <1>3, OwnedKept
  <2>4. Settled'
    BY <1>0, <1>1, <1>3, SettledKept DEF Justified
  <2>5. Latest'
    BY <1>0, <1>3, LatestKept
  <2>6. Reports'
    BY <1>0, <1>3, ReportsKept
  <2>7. Calm'
    BY <1>0, <1>3, HushedKept DEF Calm
  <2>8. Justified'
    BY <1>0, <1>3, FreshKept, ReasonedKept DEF Justified
  <2> QED
    BY <1>1, <1>2, <2>1, <2>2, <2>3, <2>4, <2>5, <2>6, <2>7, <2>8 DEF Accountable, Named
<1>4. CASE UNCHANGED vars
  <2>1. /\ UNCHANGED <<task, proc, nproc, nclaim, exits, workers, pc, launching, restarts,
                       failedMerge, rows, bus>>
    BY <1>4 DEF vars, procVars, busVars, mergeVars, loopVars, envVars
  <2>2. \A p \in Procs : (Started(p)' <=> Started(p)) /\ (Unsettled(p)' <=> Unsettled(p))
                         /\ (Engaged(p)' <=> Engaged(p))
    BY <2>1 DEF Started, Unsettled, Engaged, Stopped
  <2>3. \A t \in Tasks : Deserted(t)' <=> Deserted(t)
    BY <2>1 DEF Deserted
  <2>4. Orderly'
    BY <1>0, <2>1, <2>2 DEF Orderly, Posted, Unborn
  <2>5. Numbered'
    <3>1. \A p \in Procs : ProcessNumbered(p)' <=> ProcessNumbered(p)
      BY <2>1 DEF ProcessNumbered
    <3>2. OneProcessPerClaim'
      BY <1>0, <2>1, <2>2 DEF Numbered, OneProcessPerClaim
    <3>3. \A t \in Tasks : RecordNumbered(task[t])'
      BY <1>0, <2>1 DEF Numbered, RecordNumbered, Started
    <3>4. pc' = "launch" => \A t \in launching' : LaunchNumbered(t)'
      BY <1>0, <2>1 DEF Numbered, LaunchNumbered, Started
    <3> QED
      BY <1>0, <2>2, <3>1, <3>2, <3>3, <3>4 DEF Numbered
  <2>6. Owned'
    BY <1>0, <2>1, <2>2 DEF Owned, Holds
  <2>7. Settled'
    <3>1. \A t : Quiet(t) => Quiet(t)'
      BY <2>1, <2>2 DEF Quiet, Deserted
    <3>2. \A t \in launching : Deserted(t) => Deserted(t)'
      BY <2>1 DEF Deserted
    <3> QED
      BY <1>0, <2>1, <2>2, <3>1, <3>2 DEF Settled, Stopped
  <2>8. Latest' /\ Reports'
    BY <1>0, <2>1, <2>2 DEF Latest, Reports
  <2>9. Calm'
    <3>1. \A t : Silent(t)' = Silent(t)
      BY <2>1 DEF Silent
    <3> QED
      BY <1>0, <2>1, <2>2, <3>1 DEF Calm, Hushed, Stopped
  <2>10. Justified'
    BY <1>0, <2>1 DEF Justified, Fresh, Reasoned
  <2> QED
    BY <1>1, <1>2, <2>4, <2>5, <2>6, <2>7, <2>8, <2>9, <2>10 DEF Accountable, Named
<1> QED
  BY <1>3, <1>4

\* Two performers never work in one worktree, not even one that survived an earlier
\* run of the coordinator, an earlier claim or a merge conflict.
THEOREM WorktreesAreExclusive ==
  ASSUME Default
  PROVE  Spec => []WorktreeExclusive
<1>1. Init => Accountable
  BY AccountableAtFirst
<1>2. Accountable /\ [Next]_vars => Accountable'
  BY AccountableKept
<1>3. Accountable => WorktreeExclusive
  <2> SUFFICES ASSUME Accountable, NEW p \in Procs, NEW q \in Procs, Alive(p), Alive(q),
                      proc[p].branch = proc[q].branch, p # q
               PROVE  FALSE
    BY DEF WorktreeExclusive
  <2>1. TypeOK /\ Busy(proc[p]) /\ Busy(proc[q])
    BY DEF Accountable, IInv, Alive
  <2>2. proc[q].claim < proc[p].claim /\ proc[p].claim < proc[q].claim
    BY <2>1 DEF Accountable, Latest, Started, Busy
  <2>3. proc[p].claim \in Nat /\ proc[q].claim \in Nat
    <3>1. proc[p].task \in Tasks
      BY <2>1, ProcessAt DEF Process
    <3> QED
      BY <2>1, <3>1, Numbers
  <2> QED
    BY <2>2, <2>3
<1> QED
  BY <1>1, <1>2, <1>3, PTL DEF Spec

\* Within one run a task shows as blocked for its dependencies (E905) only while one of
\* them is not merged: whatever unblocks or closes a task is followed by a reconciliation
\* that frees those behind it, and a task that goes stale keeps the code it has.
THEOREM BlocksHaveReasons ==
  ASSUME Default, MaxRestarts = 0
  PROVE  Spec => []DepBlockedHasReason
<1>1. Init => Accountable
  BY AccountableAtFirst
<1>2. Accountable /\ [Next]_vars => Accountable'
  BY AccountableKept
<1>3. Accountable => DepBlockedHasReason
  BY DEF Accountable, Justified, Reasoned, DepBlockedHasReason
<1> QED
  BY <1>1, <1>2, <1>3, PTL DEF Spec

-----------------------------------------------------------------------------
(* With one job at a time every performer is waited for.                   *)

\* What a step makes of the job of a task.
LEMMA JobFrame ==
  ASSUME TypeOK, Next, ~Start, ~StorageFails, NEW t \in Tasks
  PROVE  \/ jobs'[t].proc = jobs[t].proc
         \/ Launch(t)
         \/ \E p \in Procs :
              TakeExit(t, p) \/ PauseOnExit(t, p) \/ Salvage(t, p) \/ Respawn(t, p)
<1>0. jobs \in [Tasks -> Job]
  BY DEF TypeOK, ProcOK
<1>u. CASE UNCHANGED jobs
  BY <1>u
<1>2. CASE ApplyBus
  <2>1. jobs'[t] = jobs[t] \/ \E x \in BOOLEAN : jobs'[t] = [jobs[t] EXCEPT !.signaled = x]
    BY <1>2 DEF ApplyBus
  <2> QED
    BY <1>0, <2>1 DEF Job
<1>3. ASSUME NEW u \in Tasks, NEW p \in Procs, u # t,
             TakeExit(u, p) \/ PauseOnExit(u, p) \/ Salvage(u, p) \/ Respawn(u, p)
      PROVE  jobs'[t].proc = jobs[t].proc
  BY <1>0, <1>3 DEF TakeExit, PauseOnExit, Salvage, Respawn
<1>4. ASSUME NEW u \in Tasks, u # t, Launch(u)
      PROVE  jobs'[t].proc = jobs[t].proc
  BY <1>0, <1>4 DEF Launch
<1>7. CASE Loop
  <2>1. CASE Monitor
    BY <1>u, <1>2, <1>3, <2>1 DEF Monitor, CleanupGhosts, ConsumeRows, DropExit, ExitsDone
  <2>2. CASE TakeMergeResult \/ MergesDone \/ PauseOnConflict \/ Advance \/ DispatchDone
             \/ EndCycle \/ \E u \in Tasks : Claim(u)
    BY <1>u, <2>2 DEF TakeMergeResult, MergesDone, PauseOnConflict, Advance, DispatchDone,
       EndCycle, Claim
  <2> QED
    BY <1>4, <1>7, <2>1, <2>2 DEF Loop
<1>8. CASE (\E p \in Procs : Performer(p)) \/ MergeWorker \/ Operator
  BY <1>u, <1>8, PerformerFrame, MergeWorkerFrame DEF Operator, OperatorReviews,
     OperatorResumes
<1>9. CASE Environment
  BY <1>u, <1>9 DEF Environment, Heartbeat, PhaseTimeout, Die, performerUnchanged,
     ThrottleExpires, Crash, DispatchFails, HeartbeatAges, LaunchLost
<1> QED
  BY <1>7, <1>8, <1>9 DEF Next

\* The process an exit is taken of was waited for, and is not any more.
LEMMA ExitsOfTheTracked ==
  ASSUME TypeOK, Orderly, Tracked, NEW t \in Tasks, NEW p \in Procs,
         TakeExit(t, p) \/ PauseOnExit(t, p) \/ Salvage(t, p) \/ Respawn(t, p)
  PROVE  jobs[t].proc = p /\ proc'[p].st = "done"
<1>1. ExitTaken(t, p)
  BY DEF TakeExit, PauseOnExit, Salvage, Respawn
<1>2. proc[p].st = "sent" /\ proc[p].epoch = restarts /\ proc[p].task = t /\ ~Stopped
  BY <1>1, HeadIsSent DEF ExitTaken, Orderly, Stopped
<1>3. jobs[t].proc = p
  BY <1>2 DEF Tracked, Unsettled
<1>4. proc \in [Procs -> Process] /\ p # nproc + 1
  <2>1. p <= nproc /\ p \in Nat /\ nproc \in Nat
    BY <1>2, Numbers DEF Orderly, Unborn, Started
  <2> QED
    BY <2>1, ProcessAt
<1>5. proc'[p] = Forgotten(p)
  <2>1. CASE TakeExit(t, p) \/ PauseOnExit(t, p) \/ Salvage(t, p)
    BY <1>4, <2>1 DEF TakeExit, PauseOnExit, Salvage
  <2>2. CASE Respawn(t, p)
    BY <1>4, <2>2 DEF Respawn
  <2> QED
    BY <2>1, <2>2
<1>6. Forgotten(p).st = "done"
  BY ForgottenFields
<1> QED
  BY <1>3, <1>5, <1>6

\* Who is born is waited for from its birth.
LEMMA BornTracked ==
  ASSUME TypeOK, ~StorageTrouble, NEW p \in Procs, Born(p)
  PROVE  jobs'[proc'[p].task].proc = p
<1>0. jobs \in [Tasks -> Job]
  BY DEF TypeOK, ProcOK
<1>1. PICK t \in Tasks :
        /\ \E branch : proc'[p] = NewProcess(t, task[t].claim, branch, restarts)
        /\ Launch(t) \/ \E x \in Procs : Respawn(t, x)
  BY BornAs DEF LaunchLost
<1>2. proc'[p].task = t /\ p = nproc + 1
  BY <1>1 DEF NewProcess, Born
<1>3. \E n : jobs' = [jobs EXCEPT ![t] = NewJob(p, n)]
  <2>1. CASE Launch(t)
    BY <1>2, <2>1 DEF Launch
  <2>2. ASSUME NEW x \in Procs, Respawn(t, x)
        PROVE  \E n : jobs' = [jobs EXCEPT ![t] = NewJob(p, n)]
    <3>1. jobs' = [jobs EXCEPT ![t] = NewJob(p, jobs[t].attempt + 1)]
      BY <1>0, <1>2, <2>2 DEF Respawn
    <3> QED
      BY <3>1
  <2> QED
    BY <1>1, <2>1, <2>2
<1> QED
  BY <1>0, <1>2, <1>3 DEF NewJob

LEMMA TrackedKept ==
  ASSUME TypeOK, TypeOK', Orderly, Tracked, MaxParallel = 1, ~StorageTrouble, Next
  PROVE  Tracked'
<1>0. /\ NobodyYet /\ LaunchesAlone /\ jobs \in [Tasks -> Job] /\ 0 \notin Procs
      /\ nclaim \in Nat /\ nclaim' \in Nat
  BY DEF Tracked, TypeOK, ProcOK, Procs
<1>1. LaunchesAlone'
  <2> SUFFICES ASSUME pc' = "launch"
               PROVE  nclaim' # 0 /\ \A t \in Tasks : ~HasJob(t)'
    BY DEF LaunchesAlone
  <2>1. ASSUME NEW t \in Tasks, Claim(t)
        PROVE  nclaim' # 0 /\ \A u \in Tasks : ~HasJob(u)'
    <3> DEFINE held == {u \in Tasks : HasJob(u)}
    <3>1. Cardinality(held) < 1 /\ IsFiniteSet(held)
      BY <2>1, TasksAssumption, FS_Subset DEF Claim, CanDispatch
    <3>2. held = {}
      BY <3>1, FS_CardinalityType, FS_EmptySet
    <3>3. UNCHANGED jobs /\ nclaim' = nclaim + 1
      BY <2>1 DEF Claim
    <3> QED
      BY <1>0, <3>2, <3>3 DEF HasJob
  <2>2. CASE ~\E t \in Tasks : Claim(t)
    <3>1. pc = "launch" /\ UNCHANGED <<jobs, nclaim>>
      BY <2>2, LaunchFrame, ClaimFrame
    <3> QED
      BY <1>0, <3>1 DEF LaunchesAlone, HasJob
  <2> QED
    BY <2>1, <2>2
<1>2. NobodyYet'
  <2> SUFFICES ASSUME nclaim' = 0, NEW p \in Procs, Started(p)'
               PROVE  FALSE
    BY DEF NobodyYet
  <2>1. UNCHANGED nclaim
    <3>1. ASSUME NEW t \in Tasks, Claim(t)
          PROVE  FALSE
      BY <1>0, <3>1 DEF Claim
    <3> QED
      BY <3>1, ClaimFrame
  <2>2. ~Started(p)
    BY <1>0, <2>1 DEF NobodyYet
  <2>3. Born(p)
    BY <2>2, EachGoesOn DEF Orderly, GoesOn, Started
  <2>4. ASSUME NEW t \in Tasks, Launch(t)
        PROVE  FALSE
    BY <1>0, <2>1, <2>4 DEF Launch, LaunchesAlone
  <2>5. ASSUME NEW t \in Tasks, NEW x \in Procs, Respawn(t, x)
        PROVE  FALSE
    <3>1. Started(x)
      BY <2>5, HeadIsSent DEF Respawn, ExitTaken, Orderly, Started
    <3> QED
      BY <1>0, <2>1, <3>1 DEF NobodyYet
  <2> QED
    BY <2>3, <2>4, <2>5 DEF Born, LaunchLost
<1>3. ASSUME NEW p \in Procs, Unsettled(p)'
      PROVE  jobs'[proc'[p].task].proc = p
  <2>1. CASE Born(p)
    BY <2>1, BornTracked
  <2>2. CASE ~Born(p)
    <3>1. ~Start /\ Unsettled(p) /\ Identity(proc[p], proc'[p])
      BY <1>0, <1>3, <2>2, UnsettledFrame DEF GoesOn
    <3>p. PICK t \in Tasks : t = proc[p].task
      BY ProcessAt DEF Process
    <3>2. jobs[t].proc = p /\ proc'[p].task = t
      BY <3>1, <3>p DEF Tracked, Identity
    <3>3. ~Launch(t)
      BY <1>0, <3>2 DEF Launch, LaunchesAlone, HasJob, NoJob
    <3>4. ASSUME NEW x \in Procs, TakeExit(t, x) \/ PauseOnExit(t, x) \/ Salvage(t, x) \/ Respawn(t, x)
          PROVE  FALSE
      BY <1>3, <3>2, <3>4, ExitsOfTheTracked DEF Unsettled
    <3>5. jobs'[t].proc = jobs[t].proc
      BY <3>1, <3>3, <3>4, JobFrame DEF StorageFails
    <3> QED
      BY <3>2, <3>5
  <2> QED
    BY <2>1, <2>2
<1> QED
  BY <1>1, <1>2, <1>3 DEF Tracked

\* A run that works on one task at a time waits for every performer it started, so
\* that each exit is handled, whatever becomes of the task in the meantime.
THEOREM PerformersAreTracked ==
  ASSUME MaxParallel = 1, ~StorageTrouble
  PROVE  Spec => []PerformersTracked
<1> DEFINE Inv == IInv /\ Orderly /\ Tracked
<1>1. Init => Inv
  <2> SUFFICES ASSUME Init PROVE Inv
    OBVIOUS
  <2>1. IInv /\ Orderly
    BY AccountableAtFirst DEF Accountable, Named
  <2>2. pc = "down"
    BY DEF Init
  <2>3. Tracked
    BY <2>2, NobodyAtFirst DEF Tracked, NobodyYet, LaunchesAlone, Unsettled, Stopped
  <2> QED
    BY <2>1, <2>3
<1>2. Inv /\ [Next]_vars => Inv'
  <2> SUFFICES ASSUME Inv, [Next]_vars PROVE Inv'
    OBVIOUS
  <2>1. IInv' /\ TypeOK /\ TypeOK'
    BY Inductive DEF IInv
  <2>2. CASE Next
    BY <2>1, <2>2, OrderlyKept, TrackedKept
  <2>3. CASE UNCHANGED vars
    <3>1. UNCHANGED <<proc, nproc, nclaim, jobs, exits, pc, restarts>>
      BY <2>3 DEF vars, procVars, loopVars, envVars
    <3>2. \A p : Started(p)' = Started(p) /\ Unsettled(p)' = Unsettled(p)
      BY <3>1 DEF Started, Unsettled, Stopped
    <3> QED
      BY <2>1, <3>1, <3>2 DEF Orderly, Posted, Unborn, Tracked, NobodyYet, LaunchesAlone, HasJob
  <2> QED
    BY <2>2, <2>3
<1>3. Inv => PerformersTracked
  BY DEF Tracked, PerformersTracked, Unsettled, Alive, Busy
<1> QED
  BY <1>1, <1>2, <1>3, PTL DEF Spec
=============================================================================
