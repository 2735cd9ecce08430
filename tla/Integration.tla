------------------------------- MODULE Integration -------------------------------
\* How work reaches the base branch. Merge workers of the coordinator and the
\* command `macc coordinator sync` merge task branches in one private worktree,
\* detached at the tip of the base branch, under a file lock; a supervisor's repair
\* is built elsewhere, without the lock. All publish alike: by compare and swap of
\* the branch when no checkout holds it, else by a fast-forward of that checkout.
\* The operator works in it meanwhile.
\*
\* A commit stands for its history: it is the set of contributions it contains.
EXTENDS Naturals, FiniteSets

CONSTANTS
  Branches,       \* the branches of tasks
  Workers,        \* threads of the coordinator that merge one branch each
  Syncs,          \* processes that sync every branch not merged yet
  Repairers,      \* supervisor interventions, each with one repair of its own
  Edits,          \* commits of the operator: bounds their number
  None,           \* no process, no branch
  MaxMishaps      \* bound: deaths, missed answers and switches of branch together

Mergers == Workers \cup Syncs
Procs == Mergers \cup Repairers
Contributions == Branches \cup Repairers \cup Edits

ASSUME NamesAssumption ==
  /\ Workers \cap Syncs = {} /\ Mergers \cap Repairers = {}
  /\ Branches \cap Repairers = {} /\ Edits \cap (Branches \cup Repairers) = {}
  /\ None \notin Procs \cup Branches \cup Edits
ASSUME BoundsAssumption == MaxMishaps \in Nat

VARIABLES
  base,           \* the tip of the base branch
  side,           \* the tip of the operator's own branch
  checkout,       \* the branch the operator's checkout is on: "base" or "side"
  files,          \* the commit the files of that checkout are at
  wt,             \* the integration worktree: its HEAD and the merge in progress
  lock,           \* who holds integration.lock
  pc,             \* per process: its next step
  work,           \* per process: what it is bringing in
  todo,           \* per sync: the branches it has not looked at yet
  saw,            \* per process: base_sha, the tip its work is built on
  made,           \* per process: new_sha, the commit to publish
  loaded,         \* per sync: what the registry it loaded says is merged
  merged,         \* per sync: what it has merged and not saved yet
  awaited,        \* the workers whose answer the coordinator waits for
  recorded,       \* the branches the registry says are merged
  orphans,        \* branches whose merge agent outlived the worker that started it
  abandoned,      \* branches whose agent undid the merge it was to finish
  raced,          \* did the operator switch branches during a publication?
  mishaps

gitVars == <<base, side, checkout, files>>
callVars == <<work, saw, made>>
syncVars == <<todo, loaded>>
procVars == <<pc, syncVars, callVars>>
answerVars == <<merged, awaited, recorded>>
faultVars == <<orphans, abandoned, raced, mishaps>>
vars == <<gitVars, wt, lock, procVars, answerVars, faultVars>>

Worktree == [head : SUBSET Contributions, merging : Branches \cup {None}]

\* reset and acquire: detached at a commit, no merge in progress, no stray files.
CleanAt(c) == [head |-> c, merging |-> None]

\* The commit the operator's checkout has as its HEAD.
Head == IF checkout = "base" THEN base ELSE side

\* A publication has looked up who holds the branch and acts on it.
Routed(p) == pc[p] \in {"holder", "forward", "swap"}

Mishap == mishaps < MaxMishaps /\ mishaps' = mishaps + 1

Goes(p, step) == pc' = [pc EXCEPT ![p] = step]

\* The variables of p's call are gone.
Forgets(p) ==
  /\ work' = [work EXCEPT ![p] = None]
  /\ made' = [made EXCEPT ![p] = {}]
  /\ saw' = IF p \in Syncs THEN saw ELSE [saw EXCEPT ![p] = {}]

\* What p has brought in counts if the coordinator still waits for it.
Answers(p, ok) ==
  /\ recorded' = IF ok /\ p \in awaited THEN recorded \cup {work[p]} ELSE recorded
  /\ awaited' = awaited \ {p}
  /\ merged' = IF ok /\ p \in Syncs THEN [merged EXCEPT ![p] = @ \cup {work[p]}] ELSE merged

\* Mutant: a failed candidate is left in the worktree.
EndsUnclean(p, ok, left) ==
  /\ wt' = left
  /\ Goes(p, IF p \in Syncs THEN "ready" ELSE "idle")
  /\ lock' = IF p \in Workers THEN None ELSE lock
  /\ Answers(p, ok) /\ Forgets(p)

\* The outcome of p's work: a worker answers and gives up the lock, a sync resets the
\* worktree for its next branch, a repair is over.
Ends(p, ok, left) ==
  /\ wt' = IF p \in Syncs THEN CleanAt(saw[p]) ELSE left
  /\ Goes(p, IF p \in Syncs THEN "ready" ELSE "idle")
  /\ lock' = IF p \in Workers THEN None ELSE lock
  /\ Answers(p, ok) /\ Forgets(p)

-------------------------------------------------------------------------------
\* Merging

\* No intervention is under way: it and the coordinator exclude one another.
NoIntervention == \A r \in Repairers : pc[r] = "idle"

\* QueueMerge and spawn_merge_job, for the branch of a task not merged yet: one at a time,
\* but a worker the coordinator no longer waits for may still be at work.
StartMerge(w, b) ==
  /\ pc[w] = "idle" /\ awaited = {} /\ b \notin recorded /\ NoIntervention
  /\ Goes(w, "waiting")
  /\ work' = [work EXCEPT ![w] = b]
  /\ awaited' = {w}
  /\ UNCHANGED <<gitVars, wt, lock, syncVars, saw, made, merged, recorded, faultVars>>

\* The coordinator stops waiting; the thread runs on.
MergeTimeout(w) ==
  /\ w \in awaited /\ Mishap
  /\ awaited' = awaited \ {w}
  /\ UNCHANGED <<gitVars, wt, lock, procVars, merged, recorded,
                 orphans, abandoned, raced>>

\* coordinator_sync_unmerged_branches loads the registry: every branch of a task that is
\* not merged is a candidate.
StartSync(s) ==
  /\ pc[s] = "idle"
  /\ Goes(s, "waiting")
  /\ todo' = [todo EXCEPT ![s] = Branches \ recorded]
  /\ loaded' = [loaded EXCEPT ![s] = recorded]
  /\ UNCHANGED <<gitVars, wt, lock, callVars, answerVars, faultVars>>

\* IntegrationWorktree::acquire: the lock, the tip, and a clean worktree at it.
Acquire(p) ==
  /\ pc[p] = "waiting" /\ lock = None
  /\ lock' = p
  /\ saw' = [saw EXCEPT ![p] = base]
  /\ wt' = CleanAt(base)
  /\ Goes(p, "ready")
  /\ UNCHANGED <<gitVars, work, syncVars, made, answerVars, faultVars>>

\* LOCK_TIMEOUT while another process holds it.
AcquireTimeout(p) ==
  /\ pc[p] = "waiting" /\ lock # None
  /\ Goes(p, "idle")
  /\ Answers(p, FALSE) /\ Forgets(p)
  /\ todo' = [s \in Syncs |-> IF s = p THEN {} ELSE todo[s]]
  /\ loaded' = [s \in Syncs |-> IF s = p THEN {} ELSE loaded[s]]
  /\ UNCHANGED <<gitVars, wt, lock, faultVars>>

\* The next branch of a sync that has commits the base lacks.
NextBranch(s, b) ==
  /\ pc[s] = "ready" /\ b \in todo[s] \ base
  /\ todo' = [todo EXCEPT ![s] = @ \ {b}]
  /\ work' = [work EXCEPT ![s] = b]
  /\ Goes(s, "merge")
  /\ UNCHANGED <<gitVars, wt, lock, loaded, saw, made, answerVars, faultVars>>

\* No branch is left: the lock is dropped, and the registry that was loaded is saved with
\* what was merged, if anything was.
EndSync(s) ==
  /\ pc[s] = "ready" /\ todo[s] \subseteq base
  /\ recorded' = IF merged[s] = {} THEN recorded ELSE loaded[s] \cup merged[s]
  /\ lock' = None
  /\ Goes(s, "idle")
  /\ todo' = [todo EXCEPT ![s] = {}] /\ merged' = [merged EXCEPT ![s] = {}]
  /\ loaded' = [loaded EXCEPT ![s] = {}]
  /\ saw' = [saw EXCEPT ![s] = {}]
  /\ UNCHANGED <<gitVars, wt, work, made, awaited, faultVars>>

Merging(p) == pc[p] = IF p \in Syncs THEN "merge" ELSE "ready"

\* git merge --no-ff: a merge commit, or nothing when HEAD has the branch already.
MergeCleanly(p) ==
  /\ p \in Mergers /\ Merging(p)
  /\ wt' = [wt EXCEPT !.head = @ \cup {work[p]}]
  /\ Goes(p, "publish")
  /\ UNCHANGED <<gitVars, lock, work, syncVars, saw, made, answerVars, faultVars>>

\* A worker has the hook try to resolve a conflict; a sync gives the branch up.
MergeConflicts(p) ==
  /\ p \in Mergers /\ Merging(p) /\ work[p] \notin wt.head
  /\ IF p \in Workers
     THEN /\ wt' = [wt EXCEPT !.merging = work[p]]
          /\ Goes(p, "hook")
          /\ UNCHANGED <<lock, answerVars, callVars>>
     ELSE Ends(p, FALSE, wt)
  /\ UNCHANGED <<gitVars, syncVars, faultVars>>

\* The agent of the merge hook ends: it has committed the merge, left it, or undone it.
AgentEnds(w) ==
  /\ pc[w] = "hook"
  /\ Goes(w, "checked")
  /\ \/ /\ wt.merging # None
        /\ wt' = CleanAt(wt.head \cup {wt.merging})
        /\ UNCHANGED abandoned
     \/ UNCHANGED <<wt, abandoned>>
     \/ /\ wt.merging # None
        /\ wt' = CleanAt(wt.head)
        /\ abandoned' = abandoned \cup {work[w]}
  /\ UNCHANGED <<gitVars, lock, work, syncVars, saw, made, answerVars,
                 orphans, raced, mishaps>>

\* Mutant: the result of the hook is not looked at.
AfterHookBlind(w) ==
  /\ pc[w] = "checked"
  /\ Goes(w, "publish")
  /\ UNCHANGED <<gitVars, wt, lock, answerVars, callVars, syncVars, faultVars>>

\* Nothing unresolved and no MERGE_HEAD: publish. Otherwise reset and report.
AfterHook(w) ==
  /\ pc[w] = "checked"
  /\ IF wt.merging = None
     THEN Goes(w, "publish") /\ UNCHANGED <<wt, lock, answerVars, callVars>>
     ELSE Ends(w, FALSE, CleanAt(saw[w]))
  /\ UNCHANGED <<gitVars, syncVars, faultVars>>

-------------------------------------------------------------------------------
\* Publishing

\* IntegrationWorktree::publish: HEAD is the result; no new commit needs no publication.
ReadHead(p) ==
  /\ pc[p] = "publish"
  /\ IF wt.head = saw[p]
     THEN Ends(p, TRUE, wt)
     ELSE /\ made' = [made EXCEPT ![p] = wt.head]
          /\ Goes(p, "route")
          /\ UNCHANGED <<wt, lock, answerVars, work, saw>>
  /\ UNCHANGED <<gitVars, syncVars, faultVars>>

\* Mutant: the branch is moved whoever holds it.
RouteBlind(p) ==
  /\ pc[p] = "route"
  /\ Goes(p, "swap")
  /\ UNCHANGED <<gitVars, wt, lock, work, syncVars, saw, made, answerVars, faultVars>>

\* publish_commit lists the checkouts of the base branch.
Route(p) ==
  /\ pc[p] = "route"
  /\ Goes(p, IF checkout = "base" THEN "holder" ELSE "swap")
  /\ UNCHANGED <<gitVars, wt, lock, work, syncVars, saw, made, answerVars, faultVars>>

\* Mutant: the reference is set without its expected value.
SwapBlind(p) ==
  /\ pc[p] = "swap"
  /\ base' = made[p] /\ Ends(p, TRUE, wt)
  /\ UNCHANGED <<side, checkout, files, syncVars, faultVars>>

\* git update-ref with the expected value.
Swap(p) ==
  /\ pc[p] = "swap"
  /\ IF base = saw[p]
     THEN base' = made[p] /\ Ends(p, TRUE, wt)
     ELSE UNCHANGED base /\ Ends(p, FALSE, wt)
  /\ UNCHANGED <<side, checkout, files, syncVars, faultVars>>

\* The HEAD of the checkout must be what the work is built on.
CheckHolder(p) ==
  /\ pc[p] = "holder"
  /\ IF Head = saw[p]
     THEN Goes(p, "forward") /\ UNCHANGED <<wt, lock, answerVars, callVars>>
     ELSE Ends(p, FALSE, wt)
  /\ UNCHANGED <<gitVars, syncVars, faultVars>>

\* git merge --ff-only in the checkout moves the branch it is on, and its files.
Forward(p) ==
  /\ pc[p] = "forward" /\ Head \subseteq made[p]
  /\ files' = files \cup (made[p] \ Head)
  /\ IF checkout = "base" THEN base' = made[p] /\ UNCHANGED side
                          ELSE side' = made[p] /\ UNCHANGED base
  /\ Ends(p, TRUE, wt)
  /\ UNCHANGED <<checkout, syncVars, faultVars>>

\* Git refuses: no fast-forward, or changes of the operator in the way.
Refused(p) ==
  /\ pc[p] = "forward"
  /\ Ends(p, FALSE, wt)
  /\ UNCHANGED <<gitVars, syncVars, faultVars>>

-------------------------------------------------------------------------------
\* The supervisor

\* An intervention begins when the coordinator is down, from the tip of the base.
StartRepair(r) ==
  /\ pc[r] = "idle" /\ r \notin base
  /\ \A w \in Workers : pc[w] = "idle"
  /\ NoIntervention
  /\ saw' = [saw EXCEPT ![r] = base]
  /\ work' = [work EXCEPT ![r] = r]
  /\ Goes(r, "repair")
  /\ UNCHANGED <<gitVars, wt, lock, syncVars, made, answerVars, faultVars>>

\* integrate: the verified repair is committed on its base and published.
Integrate(r) ==
  /\ pc[r] = "repair"
  /\ made' = [made EXCEPT ![r] = saw[r] \cup {r}]
  /\ Goes(r, "route")
  /\ UNCHANGED <<gitVars, wt, lock, work, syncVars, saw, answerVars, faultVars>>

\* Nothing was changed, or validation or verification failed.
RepairFails(r) ==
  /\ pc[r] = "repair"
  /\ Ends(r, FALSE, wt)
  /\ UNCHANGED <<gitVars, syncVars, faultVars>>

-------------------------------------------------------------------------------
\* The surroundings

\* The processes P are gone with all they had in memory.
Gone(P) ==
  /\ pc' = [p \in Procs |-> IF p \in P THEN "idle" ELSE pc[p]]
  /\ work' = [p \in Procs |-> IF p \in P THEN None ELSE work[p]]
  /\ saw' = [p \in Procs |-> IF p \in P THEN {} ELSE saw[p]]
  /\ made' = [p \in Procs |-> IF p \in P THEN {} ELSE made[p]]
  /\ todo' = [s \in Syncs |-> IF s \in P THEN {} ELSE todo[s]]
  /\ merged' = [s \in Syncs |-> IF s \in P THEN {} ELSE merged[s]]
  /\ loaded' = [s \in Syncs |-> IF s \in P THEN {} ELSE loaded[s]]
  /\ awaited' = awaited \ P

\* Mutant: the lock is a file that a dead process leaves behind.
DieLocked(P) ==
  /\ Mishap
  /\ Gone(P)
  /\ UNCHANGED lock
  /\ orphans' = orphans \cup {work[p] : p \in {q \in P : pc[q] = "hook"}}
  /\ UNCHANGED <<gitVars, wt, recorded, abandoned, raced>>

\* The kernel drops the lock of a process that dies. An agent of the merge hook lives on.
Die(P) ==
  /\ Mishap
  /\ Gone(P)
  /\ lock' = IF lock \in P THEN None ELSE lock
  /\ orphans' = orphans \cup {work[p] : p \in {q \in P : pc[q] = "hook"}}
  /\ UNCHANGED <<gitVars, wt, recorded, abandoned, raced>>

CoordinatorDies == (\E w \in Workers : pc[w] # "idle") /\ Die(Workers)
SyncDies(s) == pc[s] # "idle" /\ Die({s})

\* An agent nobody waits for commits the merge it finds in the worktree, or its own again
\* when it finds none, whoever uses the worktree now.
OrphanCommits(b) ==
  /\ b \in orphans
  /\ wt' = CleanAt(wt.head \cup {IF wt.merging = None THEN b ELSE wt.merging})
  /\ UNCHANGED <<gitVars, lock, procVars, answerVars, faultVars>>

\* The operator commits in its checkout.
OperatorCommits(e) ==
  /\ e \notin base \cup side
  /\ IF checkout = "base" THEN base' = base \cup {e} /\ UNCHANGED side
                          ELSE side' = side \cup {e} /\ UNCHANGED base
  /\ files' = files \cup {e}
  /\ UNCHANGED <<checkout, wt, lock, procVars, answerVars, faultVars>>

\* The operator changes the branch of its checkout.
OperatorSwitches ==
  /\ Mishap
  /\ checkout' = IF checkout = "base" THEN "side" ELSE "base"
  /\ files' = IF checkout = "base" THEN side ELSE base
  /\ raced' = (raced \/ \E p \in Procs : Routed(p))
  /\ UNCHANGED <<base, side, wt, lock, procVars, answerVars, orphans, abandoned>>

-------------------------------------------------------------------------------
Init ==
  /\ base = {} /\ side = {} /\ files = {}
  /\ checkout \in {"base", "side"}
  /\ wt = CleanAt({})
  /\ lock = None
  /\ pc = [p \in Procs |-> "idle"]
  /\ work = [p \in Procs |-> None]
  /\ todo = [s \in Syncs |-> {}] /\ loaded = [s \in Syncs |-> {}]
  /\ merged = [s \in Syncs |-> {}]
  /\ saw = [p \in Procs |-> {}] /\ made = [p \in Procs |-> {}]
  /\ awaited = {} /\ recorded = {}
  /\ orphans = {} /\ abandoned = {} /\ raced = FALSE
  /\ mishaps = 0

Publish(p) == ReadHead(p) \/ Route(p) \/ Swap(p) \/ CheckHolder(p) \/ Forward(p) \/ Refused(p)

WorkerStep(w) == MergeCleanly(w) \/ MergeConflicts(w) \/ AgentEnds(w) \/ AfterHook(w)

SyncStep(s) ==
  (\E b \in Branches : NextBranch(s, b)) \/ MergeCleanly(s) \/ MergeConflicts(s) \/ EndSync(s)

Surroundings ==
  \/ CoordinatorDies \/ (\E s \in Syncs : SyncDies(s))
  \/ (\E b \in Branches : OrphanCommits(b))
  \/ (\E e \in Edits : OperatorCommits(e)) \/ OperatorSwitches

Next ==
  \/ \E w \in Workers : WorkerStep(w) \/ MergeTimeout(w) \/ (\E b \in Branches : StartMerge(w, b))
  \/ \E s \in Syncs : StartSync(s) \/ SyncStep(s)
  \/ \E p \in Mergers : Acquire(p) \/ AcquireTimeout(p)
  \/ \E p \in Procs : Publish(p)
  \/ \E r \in Repairers : StartRepair(r) \/ Integrate(r) \/ RepairFails(r)
  \/ Surroundings

\* A process that has begun goes on, and so does the agent it waits for.
Fairness ==
  /\ \A w \in Workers : WF_vars(WorkerStep(w) \/ Publish(w) \/ Acquire(w) \/ AcquireTimeout(w))
  /\ \A s \in Syncs : WF_vars(SyncStep(s) \/ Publish(s) \/ Acquire(s) \/ AcquireTimeout(s))
  /\ \A r \in Repairers : WF_vars(Publish(r) \/ Integrate(r) \/ RepairFails(r))

Spec == Init /\ [][Next]_vars /\ Fairness
-------------------------------------------------------------------------------
\* Properties

Steps == {"idle", "waiting", "ready", "merge", "hook", "checked", "publish", "route",
          "holder", "forward", "swap", "repair"}

\* The shape of the state, and who is where: only the holder of the lock uses the worktree.
TypeOK ==
  /\ base \subseteq Contributions /\ side \subseteq Contributions /\ files \subseteq Contributions
  /\ checkout \in {"base", "side"}
  /\ wt \in Worktree
  /\ lock \in Mergers \cup {None}
  /\ pc \in [Procs -> Steps]
  /\ work \in [Procs -> Branches \cup Repairers \cup {None}]
  /\ todo \in [Syncs -> SUBSET Branches] /\ loaded \in [Syncs -> SUBSET Branches]
  /\ merged \in [Syncs -> SUBSET Branches]
  /\ saw \in [Procs -> SUBSET Contributions] /\ made \in [Procs -> SUBSET Contributions]
  /\ awaited \subseteq Workers /\ recorded \subseteq Branches
  /\ orphans \subseteq Branches /\ abandoned \subseteq Branches /\ raced \in BOOLEAN
  /\ mishaps \in 0..MaxMishaps
  /\ \A p \in Mergers : pc[p] \notin {"idle", "waiting"} <=> lock = p

\* Neither the base branch nor the operator's own ever loses a commit, whatever
\* order publications, commits, switches and crashes come in.
NothingLost == [][base \subseteq base' /\ side \subseteq side']_vars

\* A branch the registry says is merged is on the base. The two ways out: its agent undid
\* the merge and nothing was left to publish, which counts as up to date; or the operator
\* switched branches during the publication, which went to the other branch.
Arrivals == base \cup abandoned \cup (IF raced THEN side ELSE {})
RecordedIsOnBase == recorded \subseteq Arrivals

\* What is published is the tip it was built on and the work itself: neither the
\* leftovers of an earlier merge nor those of a branch that failed; only an agent that has
\* outlived its worker can add to it.
OwnWorkOnly ==
  \A p \in Procs : Routed(p) => made[p] \subseteq saw[p] \cup {work[p]} \cup orphans

\* The files of the operator's checkout follow its branch, unless the operator took the
\* branch after a publication had found that nobody held it.
FilesFollow == ~raced => files = Head

\* The lock does not stay held, though its holders crash and agents never report.
LockComesFree == []<>(lock = None)
=================================================================================
