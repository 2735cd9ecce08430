------------------------- MODULE IntegrationProofs -------------------------
(***************************************************************************)
(* Theorems about the specification of module Integration, for every value *)
(* of its constants.                                                       *)
(***************************************************************************)
EXTENDS Integration, TLAPS

-----------------------------------------------------------------------------
(* The inductive invariant.                                                *)

\* A merger that is past its acquisition has a branch in hand; a sync between two has none.
Employed ==
  /\ \A w \in Workers :
        /\ pc[w] \notin {"merge", "repair"}
        /\ pc[w] # "idle" => work[w] \in Branches
  /\ \A s \in Syncs :
        /\ pc[s] \notin {"hook", "checked", "repair"}
        /\ work[s] \in Branches <=> pc[s] \notin {"idle", "waiting", "ready"}
        /\ work[s] \in Branches \cup {None}
  /\ \A r \in Repairers :
        /\ pc[r] \in {"idle", "repair", "route", "holder", "forward", "swap"}
        /\ pc[r] # "idle" => work[r] = r

\* The worktree of the holder of the lock: its tip, its work, what orphans brought.
Held ==
  \A p \in Mergers : lock = p =>
    /\ saw[p] \subseteq wt.head
    /\ wt.head \subseteq saw[p] \cup {work[p]} \cup orphans
    /\ wt.merging \in {None, work[p]}

\* Whether the branch in hand has arrived in the worktree.
Arrived ==
  \A p \in Mergers :
    /\ pc[p] = "hook" => work[p] \in wt.head \cup {wt.merging}
    /\ pc[p] = "checked" => work[p] \in wt.head \cup {wt.merging} \cup abandoned
    /\ pc[p] = "publish" => work[p] \in wt.head \cup abandoned

\* What is on its way to the base branch.
Sent ==
  \A p \in Procs : pc[p] = "route" \/ Routed(p) =>
    /\ saw[p] \subseteq made[p]
    /\ made[p] \subseteq saw[p] \cup {work[p]} \cup orphans
    /\ p \in Mergers => work[p] \in made[p] \cup abandoned

\* A publication that is overtaken by a switch of branches has been raced.
Steered ==
  \A p \in Procs :
    /\ pc[p] \in {"holder", "forward"} /\ checkout = "side" => raced
    /\ pc[p] = "swap" /\ checkout = "base" => raced

\* What a process is built on has not left the base branch.
Based == \A p \in Procs : saw[p] \subseteq base

\* What a sync has loaded, or has yet to record, is as good as recorded.
Counted == RecordedIsOnBase /\ \A s \in Syncs : loaded[s] \cup merged[s] \subseteq Arrivals

Shape == TypeOK /\ Employed
Integrating == Held /\ Arrived
Sending == Sent /\ Steered
Outcome == Based /\ Counted /\ FilesFollow
Inv == Shape /\ Integrating /\ Sending /\ Outcome

-----------------------------------------------------------------------------
(* Every step keeps it.                                                    *)

\* The steps of the workers and syncs up to publication.
LEMMA MergerKeeps ==
  ASSUME Inv,
         \/ \E w \in Workers : WorkerStep(w) \/ MergeTimeout(w)
                            \/ (\E b \in Branches : StartMerge(w, b))
         \/ \E s \in Syncs : StartSync(s) \/ SyncStep(s)
         \/ \E p \in Mergers : Acquire(p) \/ AcquireTimeout(p)
  PROVE  Inv'
<1> USE NamesAssumption, BoundsAssumption DEF Inv, Shape, TypeOK, Employed, gitVars, syncVars,
           callVars, procVars, answerVars, faultVars, Mergers, Procs, Goes, CleanAt, Mishap,
           Answers, Forgets, Merging, Ends
<1>1. ASSUME NEW w \in Workers, NEW b \in Branches, StartMerge(w, b)
      PROVE  Inv'
  <2>1. Shape'
    BY <1>1 DEF Worktree, Contributions, Steps, StartMerge
  <2>2. Integrating'
    BY <1>1 DEF Integrating, Held, Arrived, Worktree, Contributions, StartMerge
  <2>3. Sending'
    BY <1>1 DEF Sending, Sent, Steered, Routed, StartMerge
  <2>4. Outcome'
    BY <1>1 DEF Sending, Sent, Steered, Routed, Outcome, Based, Counted, RecordedIsOnBase,
           Arrivals, FilesFollow, Head, StartMerge
  <2> QED
    BY <2>1, <2>2, <2>3, <2>4
<1>2. ASSUME NEW w \in Workers, MergeTimeout(w)
      PROVE  Inv'
  <2>1. Shape'
    BY <1>2 DEF Worktree, Contributions, Steps, MergeTimeout
  <2>2. Integrating'
    BY <1>2 DEF Integrating, Held, Arrived, Worktree, Contributions, MergeTimeout
  <2>3. Sending'
    BY <1>2 DEF Sending, Sent, Steered, Routed, MergeTimeout
  <2>4. Outcome'
    BY <1>2 DEF Sending, Sent, Steered, Routed, Outcome, Based, Counted, RecordedIsOnBase,
           Arrivals, FilesFollow, Head, MergeTimeout
  <2> QED
    BY <2>1, <2>2, <2>3, <2>4
<1>3. ASSUME NEW s \in Syncs, StartSync(s)
      PROVE  Inv'
  <2>1. Shape'
    BY <1>3 DEF Worktree, Contributions, Steps, StartSync
  <2>2. Integrating'
    BY <1>3 DEF Integrating, Held, Arrived, Worktree, Contributions, StartSync
  <2>3. Sending'
    BY <1>3 DEF Sending, Sent, Steered, Routed, StartSync
  <2>4. Outcome'
    BY <1>3 DEF Sending, Sent, Steered, Routed, Outcome, Based, Counted, RecordedIsOnBase,
           Arrivals, FilesFollow, Head, StartSync
  <2> QED
    BY <2>1, <2>2, <2>3, <2>4
<1>4. ASSUME NEW p \in Mergers, Acquire(p)
      PROVE  Inv'
  <2>1. Shape'
    BY <1>4 DEF Worktree, Contributions, Steps, Acquire
  <2>2. Integrating'
    BY <1>4 DEF Integrating, Held, Arrived, Worktree, Contributions, Acquire
  <2>3. Sending'
    BY <1>4 DEF Sending, Sent, Steered, Routed, Acquire
  <2>4. Outcome'
    BY <1>4 DEF Sending, Sent, Steered, Routed, Outcome, Based, Counted, RecordedIsOnBase,
           Arrivals, FilesFollow, Head, Acquire
  <2> QED
    BY <2>1, <2>2, <2>3, <2>4
<1>5. ASSUME NEW p \in Mergers, AcquireTimeout(p)
      PROVE  Inv'
  <2>1. Shape'
    BY <1>5 DEF Worktree, Contributions, Steps, AcquireTimeout
  <2>2. Integrating'
    BY <1>5 DEF Integrating, Held, Arrived, Worktree, Contributions, AcquireTimeout
  <2>3. Sending'
    BY <1>5 DEF Sending, Sent, Steered, Routed, AcquireTimeout
  <2>4. Outcome'
    BY <1>5 DEF Sending, Sent, Steered, Routed, Outcome, Based, Counted, RecordedIsOnBase,
           Arrivals, FilesFollow, Head, AcquireTimeout
  <2> QED
    BY <2>1, <2>2, <2>3, <2>4
<1>6. ASSUME NEW s \in Syncs, NEW b \in Branches, NextBranch(s, b)
      PROVE  Inv'
  <2>1. Shape'
    BY <1>6 DEF Worktree, Contributions, Steps, NextBranch
  <2>2. Integrating'
    BY <1>6 DEF Integrating, Held, Arrived, Worktree, Contributions, NextBranch
  <2>3. Sending'
    BY <1>6 DEF Sending, Sent, Steered, Routed, NextBranch
  <2>4. Outcome'
    BY <1>6 DEF Sending, Sent, Steered, Routed, Outcome, Based, Counted, RecordedIsOnBase,
           Arrivals, FilesFollow, Head, NextBranch
  <2> QED
    BY <2>1, <2>2, <2>3, <2>4
<1>7. ASSUME NEW s \in Syncs, EndSync(s)
      PROVE  Inv'
  <2>1. Shape'
    BY <1>7 DEF Worktree, Contributions, Steps, EndSync
  <2>2. Integrating'
    BY <1>7 DEF Integrating, Held, Arrived, Worktree, Contributions, EndSync
  <2>3. Sending'
    BY <1>7 DEF Sending, Sent, Steered, Routed, EndSync
  <2>4. Outcome'
    BY <1>7 DEF Sending, Sent, Steered, Routed, Outcome, Based, Counted, RecordedIsOnBase,
           Arrivals, FilesFollow, Head, EndSync
  <2> QED
    BY <2>1, <2>2, <2>3, <2>4
<1>8. ASSUME NEW p \in Mergers, MergeCleanly(p)
      PROVE  Inv'
  <2>1. Shape'
    BY <1>8 DEF Worktree, Contributions, Steps, MergeCleanly
  <2>2. Integrating'
    BY <1>8 DEF Integrating, Held, Arrived, Worktree, Contributions, MergeCleanly
  <2>3. Sending'
    BY <1>8 DEF Sending, Sent, Steered, Routed, MergeCleanly
  <2>4. Outcome'
    BY <1>8 DEF Sending, Sent, Steered, Routed, Outcome, Based, Counted, RecordedIsOnBase,
           Arrivals, FilesFollow, Head, MergeCleanly
  <2> QED
    BY <2>1, <2>2, <2>3, <2>4
<1>9. ASSUME NEW p \in Mergers, MergeConflicts(p)
      PROVE  Inv'
  <2>1. Shape'
    <3>1. TypeOK'
      BY <1>9 DEF Worktree, Contributions, Steps, MergeConflicts
    <3>2. Employed'
      BY <1>9 DEF Steps, MergeConflicts
    <3> QED
      BY <3>1, <3>2 DEF Shape
  <2>2. Integrating'
    BY <1>9 DEF Integrating, Held, Arrived, Worktree, Contributions, MergeConflicts
  <2>3. Sending'
    BY <1>9 DEF Sending, Sent, Steered, Routed, MergeConflicts
  <2>4. Outcome'
    BY <1>9 DEF Sending, Sent, Steered, Routed, Outcome, Based, Counted, RecordedIsOnBase,
           Arrivals, FilesFollow, Head, MergeConflicts
  <2> QED
    BY <2>1, <2>2, <2>3, <2>4
<1>10. ASSUME NEW w \in Workers, AgentEnds(w)
      PROVE  Inv'
  <2>1. Shape'
    BY <1>10 DEF Worktree, Contributions, Steps, AgentEnds
  <2>2. Integrating'
    BY <1>10 DEF Integrating, Held, Arrived, Worktree, Contributions, AgentEnds
  <2>3. Sending'
    BY <1>10 DEF Sending, Sent, Steered, Routed, AgentEnds
  <2>4. Outcome'
    BY <1>10 DEF Sending, Sent, Steered, Routed, Outcome, Based, Counted, RecordedIsOnBase,
           Arrivals, FilesFollow, Head, AgentEnds
  <2> QED
    BY <2>1, <2>2, <2>3, <2>4
<1>11. ASSUME NEW w \in Workers, AfterHook(w)
      PROVE  Inv'
  <2>1. Shape'
    <3>1. TypeOK'
      BY <1>11 DEF Worktree, Contributions, Steps, AfterHook
    <3>2. Employed'
      BY <1>11 DEF Steps, AfterHook
    <3> QED
      BY <3>1, <3>2 DEF Shape
  <2>2. Integrating'
    BY <1>11 DEF Integrating, Held, Arrived, Worktree, Contributions, AfterHook
  <2>3. Sending'
    BY <1>11 DEF Sending, Sent, Steered, Routed, AfterHook
  <2>4. Outcome'
    BY <1>11 DEF Sending, Sent, Steered, Routed, Outcome, Based, Counted, RecordedIsOnBase,
           Arrivals, FilesFollow, Head, AfterHook
  <2> QED
    BY <2>1, <2>2, <2>3, <2>4
<1> QED
  BY <1>1, <1>2, <1>3, <1>4, <1>5, <1>6, <1>7, <1>8, <1>9, <1>10, <1>11 DEF WorkerStep,
         SyncStep, Mergers

\* Publication: the base branch and the checkout move here, and nothing is lost, because what is
\* published contains what it was built on and the branch is still there.
LEMMA PublishKeeps ==
  ASSUME Inv,
         \E p \in Procs : Publish(p)
  PROVE  Inv'
<1> USE NamesAssumption, BoundsAssumption DEF Inv, Shape, TypeOK, Employed, gitVars, syncVars,
           callVars, procVars, answerVars, faultVars, Mergers, Procs, Goes, CleanAt, Ends,
           Answers, Forgets
<1>1. ASSUME NEW p \in Procs, ReadHead(p)
      PROVE  Inv'
  <2>1. Shape'
    <3>1. TypeOK'
      BY <1>1 DEF Worktree, Contributions, Steps, ReadHead
    <3>2. Employed'
      BY <1>1 DEF Steps, ReadHead
    <3> QED
      BY <3>1, <3>2 DEF Shape
  <2>2. Integrating'
    BY <1>1 DEF Integrating, Held, Arrived, Worktree, Contributions, ReadHead
  <2>3. Sending'
    BY <1>1 DEF Integrating, Held, Arrived, Sending, Sent, Steered, Routed, Worktree, ReadHead
  <2>4. Outcome'
    BY <1>1 DEF Integrating, Arrived, Sending, Sent, Steered, Routed, Outcome, Based, Counted,
           RecordedIsOnBase, Arrivals, FilesFollow, Head, ReadHead
  <2> QED
    BY <2>1, <2>2, <2>3, <2>4
<1>2. ASSUME NEW p \in Procs, Route(p)
      PROVE  Inv'
  <2>1. Shape'
    BY <1>2 DEF Worktree, Contributions, Steps, Route
  <2>2. Integrating'
    BY <1>2 DEF Integrating, Held, Arrived, Worktree, Contributions, Route
  <2>3. Sending'
    BY <1>2 DEF Sending, Sent, Steered, Routed, Route
  <2>4. Outcome'
    BY <1>2 DEF Sending, Sent, Steered, Routed, Outcome, Based, Counted, RecordedIsOnBase,
           Arrivals, FilesFollow, Head, Route
  <2> QED
    BY <2>1, <2>2, <2>3, <2>4
<1>3. ASSUME NEW p \in Procs, Swap(p)
      PROVE  Inv'
  <2>1. Shape'
    <3>1. TypeOK'
      BY <1>3 DEF Worktree, Contributions, Steps, Swap
    <3>2. Employed'
      BY <1>3 DEF Steps, Swap
    <3> QED
      BY <3>1, <3>2 DEF Shape
  <2>2. Integrating'
    BY <1>3 DEF Integrating, Held, Arrived, Worktree, Contributions, Swap
  <2>3. Sending'
    BY <1>3 DEF Sending, Sent, Steered, Routed, Swap
  <2>4. Outcome'
    BY <1>3 DEF Sending, Sent, Steered, Routed, Outcome, Based, Counted, RecordedIsOnBase,
           Arrivals, FilesFollow, Head, Swap
  <2> QED
    BY <2>1, <2>2, <2>3, <2>4
<1>4. ASSUME NEW p \in Procs, CheckHolder(p)
      PROVE  Inv'
  <2>1. Shape'
    <3>1. TypeOK'
      BY <1>4 DEF Worktree, Contributions, Steps, Head, CheckHolder
    <3>2. Employed'
      BY <1>4 DEF Steps, Head, CheckHolder
    <3> QED
      BY <3>1, <3>2 DEF Shape
  <2>2. Integrating'
    BY <1>4 DEF Integrating, Held, Arrived, Worktree, Contributions, Head, CheckHolder
  <2>3. Sending'
    BY <1>4 DEF Sending, Sent, Steered, Routed, Head, CheckHolder
  <2>4. Outcome'
    BY <1>4 DEF Sending, Sent, Steered, Routed, Outcome, Based, Counted, RecordedIsOnBase,
           Arrivals, FilesFollow, Head, CheckHolder
  <2> QED
    BY <2>1, <2>2, <2>3, <2>4
<1>5. ASSUME NEW p \in Procs, Forward(p)
      PROVE  Inv'
  <2>1. Shape'
    <3>1. TypeOK'
      BY <1>5 DEF Worktree, Contributions, Steps, Head, Forward
    <3>2. Employed'
      BY <1>5 DEF Steps, Head, Forward
    <3> QED
      BY <3>1, <3>2 DEF Shape
  <2>2. Integrating'
    BY <1>5 DEF Integrating, Held, Arrived, Worktree, Contributions, Head, Forward
  <2>3. Sending'
    BY <1>5 DEF Sending, Sent, Steered, Routed, Head, Forward
  <2>4. Outcome'
    BY <1>5 DEF Sending, Sent, Steered, Routed, Outcome, Based, Counted, RecordedIsOnBase,
           Arrivals, FilesFollow, Head, Forward
  <2> QED
    BY <2>1, <2>2, <2>3, <2>4
<1>6. ASSUME NEW p \in Procs, Refused(p)
      PROVE  Inv'
  <2>1. Shape'
    <3>1. TypeOK'
      BY <1>6 DEF Worktree, Contributions, Steps, Refused
    <3>2. Employed'
      BY <1>6 DEF Steps, Refused
    <3> QED
      BY <3>1, <3>2 DEF Shape
  <2>2. Integrating'
    BY <1>6 DEF Integrating, Held, Arrived, Worktree, Contributions, Refused
  <2>3. Sending'
    BY <1>6 DEF Sending, Sent, Steered, Routed, Refused
  <2>4. Outcome'
    BY <1>6 DEF Sending, Sent, Steered, Routed, Outcome, Based, Counted, RecordedIsOnBase,
           Arrivals, FilesFollow, Head, Refused
  <2> QED
    BY <2>1, <2>2, <2>3, <2>4
<1> QED
  BY <1>1, <1>2, <1>3, <1>4, <1>5, <1>6 DEF Publish

\* The supervisor never touches the worktree.
LEMMA RepairKeeps ==
  ASSUME Inv,
         \E r \in Repairers : StartRepair(r) \/ Integrate(r) \/ RepairFails(r)
  PROVE  Inv'
<1> USE NamesAssumption, BoundsAssumption DEF Inv, Shape, TypeOK, Employed, gitVars, syncVars,
           callVars, procVars, answerVars, faultVars, Mergers, Procs, Goes, CleanAt,
           NoIntervention, Ends, Answers, Forgets
<1>1. ASSUME NEW r \in Repairers, StartRepair(r)
      PROVE  Inv'
  <2>1. Shape'
    BY <1>1 DEF Worktree, Contributions, Steps, StartRepair
  <2>2. Integrating'
    BY <1>1 DEF Integrating, Held, Arrived, Worktree, Contributions, StartRepair
  <2>3. Sending'
    BY <1>1 DEF Sending, Sent, Steered, Routed, StartRepair
  <2>4. Outcome'
    BY <1>1 DEF Sending, Sent, Steered, Routed, Outcome, Based, Counted, RecordedIsOnBase,
           Arrivals, FilesFollow, Head, StartRepair
  <2> QED
    BY <2>1, <2>2, <2>3, <2>4
<1>2. ASSUME NEW r \in Repairers, Integrate(r)
      PROVE  Inv'
  <2>1. Shape'
    BY <1>2 DEF Worktree, Contributions, Steps, Integrate
  <2>2. Integrating'
    BY <1>2 DEF Integrating, Held, Arrived, Worktree, Contributions, Integrate
  <2>3. Sending'
    BY <1>2 DEF Sending, Sent, Steered, Routed, Integrate
  <2>4. Outcome'
    BY <1>2 DEF Sending, Sent, Steered, Routed, Outcome, Based, Counted, RecordedIsOnBase,
           Arrivals, FilesFollow, Head, Integrate
  <2> QED
    BY <2>1, <2>2, <2>3, <2>4
<1>3. ASSUME NEW r \in Repairers, RepairFails(r)
      PROVE  Inv'
  <2>1. Shape'
    <3>1. TypeOK'
      BY <1>3 DEF Worktree, Contributions, Steps, RepairFails
    <3>2. Employed'
      BY <1>3 DEF Steps, RepairFails
    <3> QED
      BY <3>1, <3>2 DEF Shape
  <2>2. Integrating'
    BY <1>3 DEF Integrating, Held, Arrived, Worktree, Contributions, RepairFails
  <2>3. Sending'
    BY <1>3 DEF Sending, Sent, Steered, Routed, RepairFails
  <2>4. Outcome'
    BY <1>3 DEF Sending, Sent, Steered, Routed, Outcome, Based, Counted, RecordedIsOnBase,
           Arrivals, FilesFollow, Head, RepairFails
  <2> QED
    BY <2>1, <2>2, <2>3, <2>4
<1> QED
  BY <1>1, <1>2, <1>3

\* Deaths, orphaned agents and the operator.
LEMMA SurroundingsKeep ==
  ASSUME Inv,
         Surroundings
  PROVE  Inv'
<1> USE NamesAssumption, BoundsAssumption DEF Inv, Shape, TypeOK, Employed, gitVars, syncVars,
           callVars, procVars, answerVars, faultVars, Mergers, Procs, Goes, CleanAt, Die, Gone,
           Mishap
<1>1. CASE CoordinatorDies
  <2>1. Shape'
    BY <1>1 DEF Worktree, Contributions, Steps, CoordinatorDies
  <2>2. Integrating'
    BY <1>1 DEF Integrating, Held, Arrived, Worktree, Contributions, CoordinatorDies
  <2>3. Sending'
    BY <1>1 DEF Sending, Sent, Steered, Routed, CoordinatorDies
  <2>4. Outcome'
    BY <1>1 DEF Sending, Sent, Steered, Routed, Outcome, Based, Counted, RecordedIsOnBase,
           Arrivals, FilesFollow, Head, CoordinatorDies
  <2> QED
    BY <2>1, <2>2, <2>3, <2>4
<1>2. ASSUME NEW s \in Syncs, SyncDies(s)
      PROVE  Inv'
  <2>1. Shape'
    BY <1>2 DEF Worktree, Contributions, Steps, SyncDies
  <2>2. Integrating'
    BY <1>2 DEF Integrating, Held, Arrived, Worktree, Contributions, SyncDies
  <2>3. Sending'
    BY <1>2 DEF Sending, Sent, Steered, Routed, SyncDies
  <2>4. Outcome'
    BY <1>2 DEF Sending, Sent, Steered, Routed, Outcome, Based, Counted, RecordedIsOnBase,
           Arrivals, FilesFollow, Head, SyncDies
  <2> QED
    BY <2>1, <2>2, <2>3, <2>4
<1>3. ASSUME NEW b \in Branches, OrphanCommits(b)
      PROVE  Inv'
  <2>1. Shape'
    BY <1>3 DEF Worktree, Contributions, Steps, OrphanCommits
  <2>2. Integrating'
    BY <1>3 DEF Integrating, Held, Arrived, Worktree, Contributions, OrphanCommits
  <2>3. Sending'
    BY <1>3 DEF Sending, Sent, Steered, Routed, OrphanCommits
  <2>4. Outcome'
    BY <1>3 DEF Sending, Sent, Steered, Routed, Outcome, Based, Counted, RecordedIsOnBase,
           Arrivals, FilesFollow, Head, OrphanCommits
  <2> QED
    BY <2>1, <2>2, <2>3, <2>4
<1>4. ASSUME NEW e \in Edits, OperatorCommits(e)
      PROVE  Inv'
  <2>1. Shape'
    BY <1>4 DEF Worktree, Contributions, Steps, OperatorCommits
  <2>2. Integrating'
    BY <1>4 DEF Integrating, Held, Arrived, Worktree, Contributions, OperatorCommits
  <2>3. Sending'
    BY <1>4 DEF Sending, Sent, Steered, Routed, OperatorCommits
  <2>4. Outcome'
    BY <1>4 DEF Sending, Sent, Steered, Routed, Outcome, Based, Counted, RecordedIsOnBase,
           Arrivals, FilesFollow, Head, OperatorCommits
  <2> QED
    BY <2>1, <2>2, <2>3, <2>4
<1>5. CASE OperatorSwitches
  <2>1. Shape'
    BY <1>5 DEF Worktree, Contributions, Steps, Routed, OperatorSwitches
  <2>2. Integrating'
    BY <1>5 DEF Integrating, Held, Arrived, Worktree, Contributions, Routed, OperatorSwitches
  <2>3. Sending'
    BY <1>5 DEF Sending, Sent, Steered, Routed, OperatorSwitches
  <2>4. Outcome'
    BY <1>5 DEF Sending, Sent, Steered, Routed, Outcome, Based, Counted, RecordedIsOnBase,
           Arrivals, FilesFollow, Head, OperatorSwitches
  <2> QED
    BY <2>1, <2>2, <2>3, <2>4
<1> QED
  BY <1>1, <1>2, <1>3, <1>4, <1>5 DEF Surroundings

\* The invariant holds throughout.
LEMMA Invariance == Spec => []Inv
<1>1. Init => Inv
  <2> SUFFICES ASSUME Init PROVE Inv
    OBVIOUS
  <2> USE NamesAssumption, BoundsAssumption DEF Init, CleanAt, Mergers, Procs, Contributions
  <2>1. Shape
    <3>1. TypeOK
      <4>1. \A p \in Mergers : pc[p] \notin {"idle", "waiting"} <=> lock = p
        OBVIOUS
      <4>2. wt \in Worktree /\ lock \in Mergers \cup {None}
        BY DEF Worktree
      <4>3. /\ pc \in [Procs -> Steps] /\ work \in [Procs -> Branches \cup Repairers \cup {None}]
            /\ saw \in [Procs -> SUBSET Contributions] /\ made \in [Procs -> SUBSET Contributions]
        BY DEF Steps
      <4>4. /\ todo \in [Syncs -> SUBSET Branches] /\ loaded \in [Syncs -> SUBSET Branches]
            /\ merged \in [Syncs -> SUBSET Branches]
        OBVIOUS
      <4>5. /\ base \subseteq Contributions /\ side \subseteq Contributions
            /\ files \subseteq Contributions /\ checkout \in {"base", "side"}
        OBVIOUS
      <4>6. /\ awaited \subseteq Workers /\ recorded \subseteq Branches
            /\ orphans \subseteq Branches /\ abandoned \subseteq Branches
        OBVIOUS
      <4>7. mishaps \in 0..MaxMishaps
        OBVIOUS
      <4>8. raced \in BOOLEAN
        BY Zenon
      <4> HIDE DEF Init, Mergers, Procs, Contributions
      <4> QED
        BY <4>1, <4>2, <4>3, <4>4, <4>5, <4>6, <4>7, <4>8 DEF TypeOK
    <3>2. Employed
      BY DEF Employed
    <3> QED
      BY <3>1, <3>2 DEF Shape
  <2>2. Integrating /\ Sending
    BY DEF Integrating, Held, Arrived, Sending, Sent, Steered, Routed
  <2>3. Outcome
    BY DEF Outcome, Based, Counted, RecordedIsOnBase, Arrivals, FilesFollow, Head
  <2> QED
    BY <2>1, <2>2, <2>3 DEF Inv
<1>2. Inv /\ [Next]_vars => Inv'
  <2> SUFFICES ASSUME Inv, [Next]_vars PROVE Inv'
    OBVIOUS
  <2>1. CASE Next
    BY <2>1, MergerKeeps, PublishKeeps, RepairKeeps, SurroundingsKeep DEF Next
  <2>2. CASE UNCHANGED vars
    BY <2>2 DEF vars, gitVars, syncVars, callVars, procVars, answerVars, faultVars, Inv, Shape,
                TypeOK, Employed, Integrating, Held, Arrived, Sending, Sent, Steered, Routed, Outcome,
                Based, Counted, RecordedIsOnBase, Arrivals, FilesFollow, Head
  <2> QED
    BY <2>1, <2>2
<1> QED
  BY <1>1, <1>2, PTL DEF Spec

-----------------------------------------------------------------------------
(* The theorems.                                                           *)

\* The state keeps its shape, and whoever is between acquisition and release of the worktree,
\* and nobody else, holds the lock.
THEOREM Typed == Spec => []TypeOK
<1>1. Inv => TypeOK
  BY DEF Inv, Shape
<1> QED
  BY <1>1, Invariance, PTL

\* A task recorded as merged is on the base branch (or its agent undid the merge, or the
\* operator left the base branch in the middle of the publication).
THEOREM RecordedOnBase == Spec => []RecordedIsOnBase
<1>1. Inv => RecordedIsOnBase
  BY DEF Inv, Outcome, Counted
<1> QED
  BY <1>1, Invariance, PTL

\* What is published adds to its base its own work, or that of an orphaned agent.
THEOREM OwnWork == Spec => []OwnWorkOnly
<1>1. Inv => OwnWorkOnly
  BY DEF Inv, Sending, Sent, OwnWorkOnly
<1> QED
  BY <1>1, Invariance, PTL

\* A publication never leaves the files of the operator's checkout behind its branch.
THEOREM FilesKeepUp == Spec => []FilesFollow
<1>1. Inv => FilesFollow
  BY DEF Inv, Outcome
<1> QED
  BY <1>1, Invariance, PTL

\* No step takes a commit off the base branch or off the operator's own.
THEOREM Kept == Spec => NothingLost
<1> DEFINE Grows == base \subseteq base' /\ side \subseteq side'
<1>1. Inv /\ [Next]_vars => [Grows]_vars
  <2> SUFFICES ASSUME Inv, Next PROVE Grows
    BY DEF vars
  <2> USE DEF gitVars
  <2>1. ASSUME NEW p \in Procs, Publish(p) PROVE Grows
    <3>1. CASE Swap(p)
      BY <2>1, <3>1 DEF Swap, Inv, Sending, Sent, Routed
    <3>2. CASE Forward(p)
      BY <2>1, <3>2 DEF Forward, Head
    <3>3. CASE ReadHead(p) \/ Route(p) \/ CheckHolder(p) \/ Refused(p)
      BY <3>3 DEF ReadHead, Route, CheckHolder, Refused
    <3> QED
      BY <2>1, <3>1, <3>2, <3>3 DEF Publish
  <2>2. CASE Surroundings
    BY <2>2 DEF Surroundings, CoordinatorDies, SyncDies, Die, OrphanCommits, OperatorCommits,
                OperatorSwitches
  <2>3. CASE \/ \E w \in Workers : WorkerStep(w) \/ MergeTimeout(w)
                                   \/ (\E b \in Branches : StartMerge(w, b))
             \/ \E s \in Syncs : StartSync(s) \/ SyncStep(s)
             \/ \E p \in Mergers : Acquire(p) \/ AcquireTimeout(p)
    BY <2>3 DEF WorkerStep, MergeTimeout, StartMerge, StartSync, SyncStep, Acquire,
                AcquireTimeout, NextBranch, EndSync, MergeCleanly, MergeConflicts, AgentEnds,
                AfterHook
  <2>4. CASE \E r \in Repairers : StartRepair(r) \/ Integrate(r) \/ RepairFails(r)
    BY <2>4 DEF StartRepair, Integrate, RepairFails
  <2> QED
    BY <2>1, <2>2, <2>3, <2>4 DEF Next
<1> QED
  BY <1>1, Invariance, PTL DEF Spec, NothingLost
=============================================================================
