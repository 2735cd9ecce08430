--------------------------- MODULE PrdQueueProofs ---------------------------
(***************************************************************************)
(* Theorems about the specification of module PrdQueue, for every value of *)
(* its constants.                                                          *)
(***************************************************************************)
EXTENDS PrdQueue, TLAPS, FiniteSetTheorems

-----------------------------------------------------------------------------
(* The inductive invariant.                                                *)

\* A registry in which the merged tasks are on a branch, and the gates only in
\* states a gate can be in.
Sound(r, branch) ==
  /\ r \in Registries
  /\ \A t \in Tasks : r.st[t] = "merged" => t \in Work \cap branch
  /\ \A g \in Gates : r.st[g] \in Open \cup {"absent", "todo", "depblocked"}

Stored == Sound(registry, OnBranch) /\ \A i \in 1..Len(cli) : Sound(cli[i], OnBranch)

Delivering ==
  /\ landed \subseteq OnBranch
  /\ CursorBehind
  /\ pc = "advance" => Own \subseteq Work \cap OnBranch

Walking ==
  /\ pc # "off" => progress.next < Last
  /\ pc \in Places \ {"off", "next", "mark"} => progress.prints \in Versions

\* From the order to stop to the end of its run, something keeps the run from
\* counting as a success: the control table, and after a signal the row.
Stopping ==
  told => \/ pc = "off"
          \/ pc \in RunUp /\ mode # "running"
          \/ pc = "judge" /\ row # "success"

\* What a decision command is about to save has the approvals it found.
Approvals ==
  /\ \A g \in Gates, s \in Seats : ledger[g][s].old => g \in Expiring
  /\ \A i \in 1..Len(cli), g \in Gates : cli[i].st[g] = "approved" => Backed(g)

Inv == TypeOK /\ Stored /\ Delivering /\ Walking /\ Stopping /\ Approvals

-----------------------------------------------------------------------------
(* Human gates.                                                            *)

LEMMA VerdictIs ==
  ASSUME NEW g \in Gates, NEW book \in [Seats -> Entries], NEW rv
  PROVE  /\ Verdict(g, book, rv) \in Open
         /\ Verdict(g, book, rv) = "approved" =>
              /\ Saying(book, Live(g, book, rv), "reject") = {}
              /\ QuorumMet(g, Saying(book, Live(g, book, rv), "approve"))
BY DEF Verdict, Open

\* More approvals do not undo a quorum.
LEMMA QuorumGrows ==
  ASSUME NEW g \in Gates, NEW few \in SUBSET Seats, NEW many \in SUBSET Seats,
         few \subseteq many, QuorumMet(g, few)
  PROVE  QuorumMet(g, many)
<1>1. IsFiniteSet(Seats)
  BY FS_Product, GatesAssumption DEF Seats
<1>2. \A P \in SUBSET Seats, Q \in SUBSET Seats :
        P \subseteq Q => /\ Cardinality(P) \in Nat /\ Cardinality(Q) \in Nat
                         /\ Cardinality(P) <= Cardinality(Q)
  <2> SUFFICES ASSUME NEW P \in SUBSET Seats, NEW Q \in SUBSET Seats, P \subseteq Q
               PROVE  /\ Cardinality(P) \in Nat /\ Cardinality(Q) \in Nat
                      /\ Cardinality(P) <= Cardinality(Q)
    OBVIOUS
  <2>1. IsFiniteSet(Q)
    BY <1>1, FS_Subset
  <2> QED
    BY <2>1, FS_Subset, FS_CardinalityType
<1> DEFINE Of(S, ro) == {s \in S : s[2] = ro}
           Given(S) == {s \in S : s[2] \in Declared(g)}
<1>3. ASSUME NEW ro \in Roles, Cardinality(Of(few, ro)) >= Need[g][ro]
      PROVE  Cardinality(Of(many, ro)) >= Need[g][ro]
  <2>1. Of(few, ro) \in SUBSET Seats /\ Of(many, ro) \in SUBSET Seats
        /\ Of(few, ro) \subseteq Of(many, ro)
    OBVIOUS
  <2>2. Need[g][ro] \in Nat
    BY GatesAssumption
  <2> HIDE DEF Of
  <2> QED
    BY <1>2, <1>3, <2>1, <2>2
<1>4. ASSUME Cardinality(Given(few)) >= Total[g]
      PROVE  Cardinality(Given(many)) >= Total[g]
  <2>1. Given(few) \in SUBSET Seats /\ Given(many) \in SUBSET Seats
        /\ Given(few) \subseteq Given(many)
    OBVIOUS
  <2>2. Total[g] \in Nat
    BY GatesAssumption
  <2> HIDE DEF Given
  <2> QED
    BY <1>2, <1>4, <2>1, <2>2
<1>5. Declared(g) \subseteq Roles
  BY DEF Declared
<1>6. Rule[g] \in {"all", "any", "count"}
  BY GatesAssumption
<1>7. CASE Rule[g] = "all"
  <2>1. \A ro \in Declared(g) : Cardinality(Of(few, ro)) >= Need[g][ro]
    BY <1>7, Zenon DEF QuorumMet
  <2>2. \A ro \in Declared(g) : Cardinality(Of(many, ro)) >= Need[g][ro]
    BY <2>1, <1>3, <1>5
  <2> QED
    BY <1>7, <2>2, Zenon DEF QuorumMet
<1>8. CASE Rule[g] = "any"
  <2>1. \E ro \in Declared(g) : Cardinality(Of(few, ro)) >= Need[g][ro]
    BY <1>8, Zenon DEF QuorumMet
  <2>2. \E ro \in Declared(g) : Cardinality(Of(many, ro)) >= Need[g][ro]
    BY <2>1, <1>3, <1>5
  <2> QED
    BY <1>8, <2>2, Zenon DEF QuorumMet
<1>9. CASE Rule[g] = "count"
  <2>1. Cardinality(Given(few)) >= Total[g]
    BY <1>9, Zenon DEF QuorumMet
  <2>2. Cardinality(Given(many)) >= Total[g]
    BY <2>1, <1>4
  <2> QED
    BY <1>9, <2>2, Zenon DEF QuorumMet
<1> QED
  BY <1>6, <1>7, <1>8, <1>9

-----------------------------------------------------------------------------
(* What the stages of a sync do to a registry.                             *)

LEMMA RegistryParts ==
  ASSUME NEW r \in Registries
  PROVE  /\ r.st \in [Tasks -> States] /\ r.att \subseteq Tasks /\ r.ok \subseteq Tasks
         /\ r.ext \subseteq Tasks
BY DEF Registries

LEMMA WithBlocksIs ==
  ASSUME NEW r \in Registries
  PROVE  /\ WithBlocks(r) \in Registries
         /\ \A t \in Tasks : \/ WithBlocks(r).st[t] = r.st[t]
                             \/ WithBlocks(r).st[t] \in {"todo", "depblocked"}
                                  /\ r.st[t] \in {"todo", "depblocked"}
<1> DEFINE Next1(t) ==
             CASE r.st[t] = "todo" /\ t \in Stuck(r)          -> "depblocked"
               [] r.st[t] = "depblocked" /\ t \notin Stuck(r) -> "todo"
               [] OTHER                                       -> r.st[t]
           S == Stuck(r)
<1>1. ASSUME NEW t \in Tasks
      PROVE  Next1(t) = r.st[t] \/ (Next1(t) \in {"todo", "depblocked"}
                                      /\ r.st[t] \in {"todo", "depblocked"})
  <2> HIDE DEF S
  <2>1. CASE r.st[t] = "todo" /\ t \in S
    BY <2>1, Zenon DEF S
  <2>2. CASE r.st[t] = "depblocked" /\ t \notin S
    BY <2>2, Zenon DEF S
  <2>3. CASE ~(r.st[t] = "todo" /\ t \in S) /\ ~(r.st[t] = "depblocked" /\ t \notin S)
    BY <2>3, Zenon DEF S
  <2> QED
    BY <2>1, <2>2, <2>3
<1>2. WithBlocks(r) = [r EXCEPT !.st = [t \in Tasks |-> Next1(t)]]
  BY Zenon DEF WithBlocks
<1>3. r.st \in [Tasks -> States] /\ {"todo", "depblocked"} \subseteq States
  BY DEF Registries, States
<1> HIDE DEF Next1
<1>4. [t \in Tasks |-> Next1(t)] \in [Tasks -> States]
  BY <1>1, <1>3
<1>5. WithBlocks(r) \in Registries
  BY <1>2, <1>4 DEF Registries
<1>6. \A t \in Tasks : WithBlocks(r).st[t] = Next1(t)
  BY <1>2 DEF Registries
<1> QED
  BY <1>1, <1>5, <1>6

LEMMA WithGatesIs ==
  ASSUME NEW r \in Registries, NEW book \in [Gates -> [Seats -> Entries]]
  PROVE  /\ WithGates(r, book) \in Registries
         /\ \A t \in Tasks \ Gates : WithGates(r, book).st[t] = r.st[t]
         /\ \A g \in Gates :
              LET s == WithGates(r, book).st[g]
                  rv == rev[Subject[g]]
              IN \/ s = r.st[g] /\ s \notin Open
                 \/ s = "todo"
                 \/ s \in Open /\ s = Verdict(g, book[g], rv)
<1> DEFINE N(t) == IF t \in Gates /\ r.st[t] # "absent" THEN GateState(r, book, t)
                   ELSE r.st[t]
<1>1. r.st \in [Tasks -> States] /\ Open \cup {"todo"} \subseteq States
  BY DEF Registries, States
<1>2. ASSUME NEW g \in Gates
      PROVE  \/ N(g) = r.st[g] /\ N(g) \notin Open
             \/ N(g) = "todo"
             \/ N(g) \in Open /\ N(g) = Verdict(g, book[g], rev[Subject[g]])
  <2>1. Verdict(g, book[g], rev[Subject[g]]) \in Open
    BY VerdictIs
  <2> QED
    BY <2>1 DEF GateState, Open
<1>3. WithGates(r, book) = [r EXCEPT !.st = [t \in Tasks |-> N(t)]]
  BY Zenon DEF WithGates
<1>4. \A t \in Tasks \ Gates : N(t) = r.st[t]
  OBVIOUS
<1>5. Gates \subseteq Tasks
  BY QueueAssumption
<1> HIDE DEF N
<1>6. [t \in Tasks |-> N(t)] \in [Tasks -> States]
  BY <1>1, <1>2, <1>4
<1>7. WithGates(r, book) \in Registries
  BY <1>3, <1>6 DEF Registries
<1>8. \A t \in Tasks : WithGates(r, book).st[t] = N(t)
  BY <1>3 DEF Registries
<1> QED
  BY <1>2, <1>4, <1>5, <1>7, <1>8


\* Backed, for any ledger and any revision of the subject.
BackedIn(g, book, top) ==
  \E rv \in 0..top :
    /\ \A s \in Seats : book[g][s].says = "reject" /\ book[g][s].rev = rv => book[g][s].old
    /\ QuorumMet(g, {s \in Seats : book[g][s].says = "approve" /\ book[g][s].rev = rv})

\* Only the decisions on a gate that expires get too old.
Ages(book) ==
  /\ book \in [Gates -> [Seats -> Entries]]
  /\ \A g \in Gates, s \in Seats : book[g][s].old => g \in Expiring

LEMMA BackedIs == \A g : Backed(g) <=> BackedIn(g, ledger, rev[Subject[g]])
BY DEF Backed, BackedIn, Standing

LEMMA ApprovedIsBacked ==
  ASSUME NEW g \in Gates, NEW book, Ages(book), NEW rv \in Nat,
         Verdict(g, book[g], rv) = "approved"
  PROVE  BackedIn(g, book, rv)
<1> DEFINE b == book[g]
           live == Live(g, b, rv)
           approving == {s \in Seats : b[s].says = "approve" /\ b[s].rev = rv}
<1>1. b \in [Seats -> Entries] /\ \A s \in Seats : b[s].old => g \in Expiring
  BY DEF Ages
<1>2. Saying(b, live, "reject") = {} /\ QuorumMet(g, Saying(b, live, "approve"))
  BY <1>1, VerdictIs
<1>3. live = {s \in Seats : b[s].says # "none" /\ b[s].rev = rv /\ ~b[s].old}
  BY <1>1 DEF Live, Bound
<1>4. \A s \in Seats : b[s].says = "reject" /\ b[s].rev = rv => b[s].old
  BY <1>2, <1>3 DEF Saying
<1>5. Saying(b, live, "approve") \subseteq approving /\ approving \in SUBSET Seats
      /\ Saying(b, live, "approve") \in SUBSET Seats
  BY <1>3 DEF Saying
<1>6. QuorumMet(g, approving)
  <2> HIDE DEF approving, live, b
  <2> QED
    BY <1>2, <1>5, QuorumGrows
<1>7. rv \in 0..rv
  OBVIOUS
<1> QED
  BY <1>4, <1>6, <1>7 DEF BackedIn

LEMMA WithGatesApproves ==
  ASSUME NEW r \in Registries, NEW book, Ages(book), rev \in [Tasks -> Nat],
         NEW g \in Gates, WithGates(r, book).st[g] = "approved"
  PROVE  BackedIn(g, book, rev[Subject[g]])
<1>1. Subject[g] \in Tasks
  BY QueueAssumption DEF Work
<1>2. rev[Subject[g]] \in Nat
  BY <1>1
<1>3. Verdict(g, book[g], rev[Subject[g]]) = "approved"
  BY WithGatesIs DEF Ages, Open
<1> QED
  BY <1>2, <1>3, ApprovedIsBacked

LEMMA WithGatesSound ==
  ASSUME NEW branch, NEW r, Sound(r, branch), NEW book \in [Gates -> [Seats -> Entries]]
  PROVE  Sound(WithGates(r, book), branch)
<1>1. r \in Registries
  BY DEF Sound
<1> QED
  BY <1>1, WithGatesIs DEF Sound, Open

LEMMA WithBlocksSound ==
  ASSUME NEW branch, NEW r, Sound(r, branch)
  PROVE  Sound(WithBlocks(r), branch)
<1>1. r \in Registries
  BY DEF Sound
<1>2. Gates \subseteq Tasks
  BY QueueAssumption
<1> QED
  BY <1>1, <1>2, WithBlocksIs DEF Sound, Open

LEMMA FromPrdIs ==
  ASSUME NEW r \in Registries
  PROVE  /\ FromPrd(r) \in Registries
         /\ \A t \in Tasks : FromPrd(r).st[t] \in {"absent", "todo", r.st[t]}
<1> DEFINE N(t) == CASE t \notin Own                         -> "absent"
                     [] t \in Own /\ r.st[t] = "absent" -> "todo"
                     [] OTHER                                -> r.st[t]
<1>1. \A t \in Tasks : N(t) \in {"absent", "todo", r.st[t]}
  <2> SUFFICES ASSUME NEW t \in Tasks PROVE N(t) \in {"absent", "todo", r.st[t]}
    OBVIOUS
  <2>1. CASE t \notin Own
    BY <2>1, Zenon
  <2>2. CASE t \in Own /\ r.st[t] = "absent"
    BY <2>2, Zenon
  <2>3. CASE t \in Own /\ r.st[t] # "absent"
    BY <2>3, Zenon
  <2> QED
    BY <2>1, <2>2, <2>3
<1>2. r.st \in [Tasks -> States] /\ {"absent", "todo"} \subseteq States
  BY DEF Registries, States
<1>3. FromPrd(r) = [st |-> [t \in Tasks |-> N(t)],
                    att |-> r.att \cap Own, ok |-> r.ok \cap Own, ext |-> r.ext \cup Earlier]
  BY Zenon DEF FromPrd
<1> HIDE DEF N
<1>4. [t \in Tasks |-> N(t)] \in [Tasks -> States]
  BY <1>1, <1>2
<1>5. Earlier \subseteq Tasks
  BY DEF Earlier
<1> QED
  BY <1>1, <1>3, <1>4, <1>5, RegistryParts DEF Registries

LEMMA FromPrdSound ==
  ASSUME NEW branch, NEW r, Sound(r, branch)
  PROVE  Sound(FromPrd(r), branch)
<1>1. r \in Registries
  BY DEF Sound
<1>2. Gates \subseteq Tasks
  BY QueueAssumption
<1> QED
  BY <1>1, <1>2, FromPrdIs DEF Sound


\* A registry the coordinator makes: sound, and its approvals have a quorum now.
Fit(r) ==
  /\ Sound(r, OnBranch)
  /\ \A g \in Gates : r.st[g] = "approved" => Backed(g)

Settled == rev \in [Tasks -> Nat] /\ Ages(ledger)

LEMMA WithGatesFit ==
  ASSUME Settled, NEW r, Sound(r, OnBranch)
  PROVE  Fit(WithGates(r, ledger))
<1>1. r \in Registries
  BY DEF Sound
<1>2. Sound(WithGates(r, ledger), OnBranch)
  BY WithGatesSound DEF Settled, Ages
<1>3. ASSUME NEW g \in Gates, WithGates(r, ledger).st[g] = "approved"
      PROVE  Backed(g)
  BY <1>1, <1>3, WithGatesApproves, BackedIs DEF Settled
<1> QED
  BY <1>2, <1>3 DEF Fit

LEMMA WithBlocksFit ==
  ASSUME NEW r, Fit(r)
  PROVE  Fit(WithBlocks(r))
<1>1. Sound(WithBlocks(r), OnBranch) /\ r \in Registries
  BY WithBlocksSound DEF Fit, Sound
<1>2. Gates \subseteq Tasks
  BY QueueAssumption
<1> QED
  BY <1>1, <1>2, WithBlocksIs DEF Fit

LEMMA SyncedFit ==
  ASSUME Settled, NEW r, Sound(r, OnBranch), NEW s \in Synced(r)
  PROVE  Fit(s)
<1>1. s = WithBlocks(WithGates(FromPrd(r), ledger))
  BY Zenon DEF Synced
<1>2. Fit(WithGates(FromPrd(r), ledger))
  BY FromPrdSound, WithGatesFit
<1> QED
  BY <1>1, <1>2, WithBlocksFit

LEMMA FromCommitsFit ==
  ASSUME NEW r, Fit(r), NEW opened \in SUBSET Phase(r)
  PROVE  Fit(FromCommits(r, opened))
<1> DEFINE found == {t \in OnBranch \ Gates : r.st[t] \in Reconcilable}
                      \cup (OnBranch \cap opened)
           m == FromCommits(r, opened)
<1>1. r \in Registries /\ Sound(r, OnBranch)
  BY DEF Fit, Sound
<1>2. /\ m.st = [t \in Tasks |-> IF t \in found THEN "merged" ELSE r.st[t]]
      /\ m = [st |-> m.st, att |-> r.att \ found,
              ok |-> (r.ok \ {t \in found : judged[t] = "rejected"})
                       \cup {t \in found : judged[t] = "accepted"},
              ext |-> r.ext \cup {t \in OnBranch : r.st[t] = "absent"}]
  BY DEF FromCommits
<1>3. opened \subseteq Tasks /\ \A t \in opened : r.st[t] = "phase"
  BY DEF Phase
<1>4. opened \cap Gates = {}
  BY <1>1, <1>3 DEF Sound, Open
<1>5. OnBranch \subseteq Tasks
  BY DEF OnBranch
<1>6. found \subseteq Work \cap OnBranch
  BY <1>3, <1>4, <1>5 DEF Work
<1> HIDE DEF found, m
<1>7. Gates \subseteq Tasks /\ Work = Tasks \ Gates
  BY QueueAssumption DEF Work
<1>8. m.st \in [Tasks -> States]
  BY <1>1, <1>2, RegistryParts DEF States
<1>9. m \in Registries
  <2>1. found \subseteq Tasks
    BY <1>6, <1>7
  <2>2. /\ r.att \ found \subseteq Tasks
        /\ (r.ok \ {t \in found : judged[t] = "rejected"})
             \cup {t \in found : judged[t] = "accepted"} \subseteq Tasks
        /\ r.ext \cup {t \in OnBranch : r.st[t] = "absent"} \subseteq Tasks
    BY <1>1, <1>5, <2>1, RegistryParts
  <2> QED
    BY <1>2, <1>8, <2>2 DEF Registries
<1>10. \A t \in Tasks : m.st[t] = IF t \in found THEN "merged" ELSE r.st[t]
  BY <1>2
<1>11. Sound(m, OnBranch)
  BY <1>1, <1>6, <1>7, <1>9, <1>10 DEF Sound
<1>12. Fit(m)
  BY <1>6, <1>7, <1>10, <1>11 DEF Fit
<1> QED
  BY <1>12 DEF m

LEMMA AtStartupFit ==
  ASSUME Settled, NEW r, Sound(r, OnBranch), NEW s \in AtStartup(r)
  PROVE  Fit(s)
<1> DEFINE Read(x) == {FromCommits(x, opened) : opened \in SUBSET Phase(x)}
<1>1. PICK n \in UNION {Read(x) : x \in Synced(r)} : s \in Reconciled(n)
  <2> HIDE DEF Read
  <2>1. s \in UNION {Reconciled(n) : n \in UNION {Read(x) : x \in Synced(r)}}
    BY Zenon DEF AtStartup, Read
  <2> QED
    BY <2>1
<1>2. PICK x \in Synced(r) : n \in Read(x)
  <2> HIDE DEF Read
  <2> QED
    BY <1>1
<1>3. PICK opened \in SUBSET Phase(x) : n = FromCommits(x, opened)
  BY <1>2
<1>4. Fit(n)
  BY <1>3, SyncedFit, FromCommitsFit
<1>5. s = n \/ s = WithBlocks(WithGates(n, ledger))
  BY <1>1 DEF Reconciled
<1>6. Fit(WithBlocks(WithGates(n, ledger)))
  BY <1>4, WithGatesFit, WithBlocksFit DEF Fit
<1> QED
  BY <1>4, <1>5, <1>6

-----------------------------------------------------------------------------
(* What a step has to show.                                                *)

LEMMA SoundGrows ==
  ASSUME NEW few, NEW many, few \subseteq many, NEW r, Sound(r, few)
  PROVE  Sound(r, many)
BY DEF Sound

LEMMA InvSettled == Inv => Settled
BY DEF Inv, TypeOK, Approvals, Settled, Ages

LEMMA KeepStored ==
  ASSUME Inv, Keep, Sound(registry', OnBranch)
  PROVE  Stored'
BY DEF Inv, Stored, Keep, gitVars, OnBranch

LEMMA KeepApprovals ==
  ASSUME Inv, Keep
  PROVE  Approvals'
BY DEF Inv, Approvals, Keep, gitVars, Backed, Standing


LEMMA KeepDelivering ==
  ASSUME Inv, Keep, landed' \subseteq landed, progress'.next = progress.next,
         pc' = "advance" => pc = "advance"
  PROVE  Delivering'
BY DEF Inv, Delivering, CursorBehind, Keep, gitVars, OnBranch, Own, Current

LEMMA InitKeeps == Init => Inv
<1> SUFFICES ASSUME Init PROVE Inv
  OBVIOUS
<1>1. TypeOK
  <2>1. progress \in [next : 0..Last, status : Statuses, prints : {<<>>} \cup Versions]
    <3>1. 0 \in 0..Last /\ "" \in Statuses
      BY QueueAssumption DEF Statuses
    <3>2. <<>> \in {<<>>} \cup Versions
      BY Zenon
    <3> QED
      BY <3>1, <3>2, Zenon DEF Init, NoProgress
  <2>2. plan \in Versions /\ files \in Versions
    BY DEF Init, Versions
  <2>3. registry \in Registries
    BY DEF Init, Registries, States, Open, Active
  <2>4. ledger \in [Gates -> [Seats -> Entries]]
    BY DEF Init, Silent, Entries
  <2>5. cli \in Seq(Registries) /\ Len(cli) <= 1
    BY DEF Init
  <2>6. spent \in [Kinds -> Nat]
    BY DEF Init
  <2> QED
    BY <2>1, <2>2, <2>3, <2>4, <2>5, <2>6 DEF Init, TypeOK, Places, Modes
<1>2. Stored
  <2>1. Sound(registry, OnBranch)
    BY <1>1, QueueAssumption DEF Init, Sound, TypeOK
  <2> QED
    BY <2>1 DEF Init, Stored
<1>3. Delivering
  <2>1. \A t \in Tasks : PrdOf[t] > 0
    BY QueueAssumption DEF Prds
  <2>2. progress.next = 0
    BY DEF Init, NoProgress
  <2> QED
    BY <2>1, <2>2, QueueAssumption DEF Init, Delivering, CursorBehind, Prds
<1>4. Walking /\ Stopping /\ Approvals
  BY DEF Init, Walking, Stopping, Approvals, Silent
<1> QED
  BY <1>1, <1>2, <1>3, <1>4 DEF Inv


Progresses == [next : 0..Last, status : Statuses, prints : {<<>>} \cup Versions]

\* Steps that leave the registry, the branch and the decisions alone.
LEMMA QuietKeeps ==
  ASSUME Inv, Keep, registry' = registry, landed' \subseteq landed,
         progress'.next = progress.next, pc' = "advance" => pc = "advance",
         TypeOK', Walking', Stopping'
  PROVE  Inv'
<1>1. Stored'
  BY KeepStored DEF Inv, Stored
<1> QED
  BY <1>1, KeepDelivering, KeepApprovals DEF Inv

LEMMA HaltTyped ==
  ASSUME Inv, NEW s \in Statuses, Halt(s)
  PROVE  /\ progress' \in Progresses /\ progress'.next = progress.next
         /\ pc' = "off" /\ Walking' /\ Stopping'
<1>1. progress \in Progresses /\ plan \in Versions
  BY DEF Inv, TypeOK, Progresses
<1>2. progress' = [progress EXCEPT !.status = s, !.prints = plan]
  BY DEF Halt
<1>3. progress' \in Progresses /\ progress'.next = progress.next
  BY <1>1, <1>2 DEF Progresses
<1> QED
  BY <1>3 DEF Halt, Walking, Stopping

LEMMA LaunchKeeps == Inv /\ Launch => Inv'
<1> SUFFICES ASSUME Inv, Launch PROVE Inv'
  OBVIOUS
<1>1. TypeOK'
  BY DEF Inv, TypeOK, Launch, Keep, controlVars, jobVars, gitVars, Places
<1>2. Walking' /\ Stopping'
  BY DEF Launch, Walking, Stopping
<1> QED
  BY <1>1, <1>2, QuietKeeps DEF Launch, controlVars, jobVars

LEMMA BlockedKeeps == Inv /\ (ChangedFile \/ UnsafeRegistry) => Inv'
<1> SUFFICES ASSUME Inv, ChangedFile \/ UnsafeRegistry PROVE Inv'
  OBVIOUS
<1>1. /\ Halt("blocked") /\ Keep /\ KeepQueue
      /\ UNCHANGED <<controlVars, registry, jobVars, spent>>
  BY DEF ChangedFile, UnsafeRegistry
<1>2. "blocked" \in Statuses
  BY DEF Statuses
<1>3. /\ progress' \in Progresses /\ progress'.next = progress.next
      /\ pc' = "off" /\ Walking' /\ Stopping'
  BY <1>1, <1>2, HaltTyped
<1>4. TypeOK'
  BY <1>1, <1>3 DEF Inv, TypeOK, Keep, KeepQueue, controlVars, jobVars, gitVars,
                    Places, Progresses
<1> QED
  BY <1>1, <1>3, <1>4, QuietKeeps DEF jobVars

LEMMA OpenEntryKeeps == Inv /\ OpenEntry => Inv'
<1> SUFFICES ASSUME Inv, OpenEntry PROVE Inv'
  OBVIOUS
<1>1. Sound(registry', OnBranch)
  <2>1. Sound(registry, OnBranch)
    BY DEF Inv, Stored
  <2>2. registry' = [registry EXCEPT !.ext = @ \cup DeliveredIn(registry)]
    BY DEF OpenEntry
  <2>3. DeliveredIn(registry) \subseteq Tasks
    BY DEF DeliveredIn
  <2> QED
    BY <2>1, <2>2, <2>3 DEF Sound, Registries
<1>2. TypeOK'
  BY <1>1 DEF Inv, TypeOK, OpenEntry, Sound, Keep, KeepQueue, controlVars, jobVars,
              gitVars, Places
<1>3. Walking' /\ Stopping'
  BY DEF Inv, OpenEntry, Walking, Stopping, controlVars, RunUp, Loop
<1> QED
  BY <1>1, <1>2, <1>3, KeepStored, KeepDelivering, KeepApprovals
     DEF Inv, OpenEntry, jobVars

LEMMA MarkKeeps == Inv /\ Mark => Inv'
<1> SUFFICES ASSUME Inv, Mark PROVE Inv'
  OBVIOUS
<1>1. progress \in Progresses /\ plan \in Versions
  BY DEF Inv, TypeOK, Progresses
<1>2. /\ progress' \in Progresses /\ progress'.next = progress.next
      /\ progress'.prints \in Versions
  BY <1>1 DEF Mark, Progresses, Statuses
<1>3. TypeOK'
  BY <1>2 DEF Inv, TypeOK, Mark, Keep, KeepQueue, controlVars, jobVars, gitVars,
              Places, Progresses
<1>4. Walking' /\ Stopping'
  BY <1>2 DEF Inv, Mark, Walking, Stopping, controlVars, RunUp, Loop
<1> QED
  BY <1>2, <1>3, <1>4, QuietKeeps DEF Mark, jobVars

LEMMA FailEntryKeeps ==
  ASSUME Inv, FailEntry
  PROVE  Inv'
<1> DEFINE s == IF row \in {"stopped_by_user", "failed"} THEN row ELSE "blocked"
<1>1. s \in Statuses
  BY DEF Statuses
<1>2. Halt(s)
  BY DEF FailEntry
<1> HIDE DEF s
<1>3. /\ progress' \in Progresses /\ progress'.next = progress.next
      /\ pc' = "off" /\ Walking' /\ Stopping'
  BY <1>1, <1>2, HaltTyped
<1>4. TypeOK'
  BY <1>3 DEF Inv, TypeOK, FailEntry, Keep, KeepQueue, jobVars, gitVars, Places, Progresses
<1> QED
  BY <1>3, <1>4, QuietKeeps DEF FailEntry, jobVars

LEMMA JudgeKeeps == Inv /\ Judge => Inv'
<1> SUFFICES ASSUME Inv, Judge PROVE Inv'
  OBVIOUS
<1>1. CASE FailEntry
  BY <1>1, FailEntryKeeps
<1>2. CASE ~FailEntry
  <2>1. RunSucceeded /\ pc' = "deliver"
        /\ UNCHANGED <<progress, controlVars, registry, jobVars, spent>> /\ KeepQueue /\ Keep
    BY <1>2 DEF Judge
  <2>2. TypeOK'
    BY <2>1 DEF Inv, TypeOK, Keep, KeepQueue, controlVars, jobVars, gitVars, Places
  <2>3. Walking'
    BY <2>1 DEF Inv, Judge, Walking, Places, RunUp, Loop
  <2>4. ~told'
    BY <2>1 DEF Inv, Judge, Stopping, RunSucceeded, controlVars
  <2> QED
    BY <2>1, <2>2, <2>3, <2>4, QuietKeeps DEF Stopping, jobVars
<1> QED
  BY <1>1, <1>2

LEMMA DeliverKeeps == Inv /\ Deliver => Inv'
<1> SUFFICES ASSUME Inv, Deliver PROVE Inv'
  OBVIOUS
<1>1. CASE FailEntry
  BY <1>1, FailEntryKeeps
<1>2. CASE ~FailEntry
  <2>1. Incomplete = {} /\ pc' = "advance" /\ pc = "deliver"
        /\ UNCHANGED <<progress, controlVars, registry, jobVars, spent>> /\ KeepQueue /\ Keep
    BY <1>2 DEF Deliver
  <2>2. TypeOK'
    BY <2>1 DEF Inv, TypeOK, Keep, KeepQueue, controlVars, jobVars, gitVars, Places
  <2>3. Walking' /\ Stopping'
    BY <2>1 DEF Inv, Walking, Stopping, Places, RunUp, Loop, controlVars
  <2>4. Own \subseteq Work \cap OnBranch
    <3>1. \A t \in Own : t \in Tasks /\ registry.st[t] = "merged"
      BY <2>1 DEF Incomplete, DeliveredIn, Own
    <3> QED
      BY <3>1 DEF Inv, Stored, Sound
  <2>5. Delivering'
    BY <2>1, <2>4 DEF Inv, Delivering, CursorBehind, Keep, gitVars, jobVars, OnBranch,
                      Own, Current
  <2>6. Stored'
    BY <2>1, KeepStored DEF Inv, Stored
  <2> QED
    BY <2>1, <2>2, <2>3, <2>5, <2>6, KeepApprovals DEF Inv
<1> QED
  BY <1>1, <1>2

LEMMA AdvanceKeeps == Inv /\ Advance => Inv'
<1> SUFFICES ASSUME Inv, Advance PROVE Inv'
  OBVIOUS
<1>1. progress \in Progresses /\ progress.next \in 0..Last /\ progress.next < Last
      /\ Last \in Nat
  BY QueueAssumption DEF Inv, TypeOK, Walking, Advance, Progresses
<1>2. /\ progress'.next = progress.next + 1 /\ progress' \in Progresses
      /\ progress'.prints = progress.prints
  <2>1. (IF Current = Last THEN "completed" ELSE "ready") \in Statuses
    BY DEF Statuses
  <2>2. progress.next + 1 \in 0..Last
    BY <1>1
  <2> QED
    BY <1>1, <2>1, <2>2 DEF Advance, Progresses
<1>3. pc' \in {"off", "next"} /\ (pc' # "off" => progress'.next < Last)
  BY <1>1, <1>2 DEF Advance, Current
<1>4. TypeOK'
  BY <1>2, <1>3 DEF Inv, TypeOK, Advance, Keep, KeepQueue, controlVars, jobVars, gitVars,
                    Places, Progresses
<1>5. Walking'
  BY <1>3 DEF Walking
<1>6. Stopping'
  BY <1>3 DEF Inv, Stopping, Advance, controlVars, RunUp, Loop
<1>7. Delivering'
  <2>1. Own \subseteq Work \cap OnBranch /\ CursorBehind
    BY DEF Inv, Delivering, Advance
  <2>2. ASSUME NEW t \in Tasks, PrdOf[t] <= progress.next + 1
        PROVE  t \in Work \cap OnBranch
    <3>1. PrdOf[t] \in Nat /\ progress.next \in Nat
      BY <1>1, QueueAssumption DEF Prds
    <3>2. PrdOf[t] <= progress.next \/ PrdOf[t] = progress.next + 1
      BY <2>2, <3>1
    <3> QED
      BY <2>1, <3>2 DEF CursorBehind, Own, Current
  <2>3. landed' = landed /\ OnBranch' = OnBranch
    BY DEF Advance, Keep, gitVars, jobVars, OnBranch
  <2> QED
    BY <1>2, <1>3, <2>2, <2>3 DEF Inv, Delivering, CursorBehind
<1>8. Stored'
  BY KeepStored DEF Inv, Stored, Advance
<1> QED
  BY <1>4, <1>5, <1>6, <1>7, <1>8, KeepApprovals DEF Inv, Advance


\* A run ends: whoever was told to stop has a row that is not a success, or has the
\* control table say so.
LEMMA EndRunKeeps ==
  ASSUME Inv, NEW s \in {"success", "blocked", "failed", "stopped_by_user"},
         EndRun(s), pc \in RunUp, mode' \in Modes, told' \in BOOLEAN,
         spent' \in [Kinds -> Nat],
         told' => s # "success" \/ mode' # "running"
  PROVE  Inv'
<1>1. TypeOK'
  BY DEF Inv, TypeOK, EndRun, Keep, KeepQueue, gitVars, Places, RunUp
<1>2. Walking'
  BY DEF Inv, Walking, EndRun, Places, RunUp, Loop
<1>3. Stopping'
  BY DEF Stopping, EndRun, RunUp
<1> QED
  BY <1>1, <1>2, <1>3, QuietKeeps DEF EndRun

LEMMA StartRunKeeps == Inv /\ StartRun => Inv'
<1> SUFFICES ASSUME Inv, StartRun PROVE Inv'
  OBVIOUS
<1>1. TypeOK'
  BY DEF Inv, TypeOK, StartRun, Keep, KeepQueue, jobVars, gitVars, Places, RunUp, Modes
<1>2. Walking' /\ Stopping'
  BY DEF Inv, Walking, Stopping, StartRun, Places, RunUp, Loop
<1> QED
  BY <1>1, <1>2, QuietKeeps DEF StartRun, jobVars

\* A step that puts a fitting registry in place of the one it read.
LEMMA SyncKeeps ==
  ASSUME Inv, Fit(registry'), pc \in {"recover", "cycle"}, pc' \in {"cycle", "work"},
         UNCHANGED <<progress, controlVars, jobVars, spent>>, KeepQueue, Keep
  PROVE  Inv'
<1>1. Sound(registry', OnBranch)
  BY DEF Fit
<1>2. TypeOK'
  BY <1>1 DEF Inv, TypeOK, Sound, Keep, KeepQueue, controlVars, jobVars, gitVars, Places,
              RunUp, Loop
<1>3. Walking' /\ Stopping'
  BY DEF Inv, Walking, Stopping, Places, RunUp, Loop, controlVars
<1> QED
  BY <1>1, <1>2, <1>3, KeepStored, KeepDelivering, KeepApprovals DEF Inv, jobVars

LEMMA RecoverFit == Inv /\ Recover => Fit(registry')
<1> SUFFICES ASSUME Inv, Recover PROVE Fit(registry')
  OBVIOUS
<1>1. registry' \in AtStartup(registry)
  BY Zenon DEF Recover
<1>2. Sound(registry, OnBranch)
  BY DEF Inv, Stored
<1> QED
  BY <1>1, <1>2, InvSettled, AtStartupFit

LEMMA CycleFit == Inv /\ Cycle => Fit(registry')
<1> SUFFICES ASSUME Inv, Cycle PROVE Fit(registry')
  OBVIOUS
<1>1. registry' \in Synced(registry)
  BY Zenon DEF Cycle
<1>2. Sound(registry, OnBranch)
  BY DEF Inv, Stored
<1> QED
  BY <1>1, <1>2, InvSettled, SyncedFit

LEMMA RecoverKeeps == Inv /\ Recover => Inv'
<1> SUFFICES ASSUME Inv, Recover PROVE Inv'
  OBVIOUS
<1>1. /\ pc = "recover" /\ pc' = "cycle"
      /\ UNCHANGED <<progress, controlVars, jobVars, spent>> /\ KeepQueue /\ Keep
  BY Zenon DEF Recover
<1> QED
  BY <1>1, RecoverFit, SyncKeeps

LEMMA CycleKeeps == Inv /\ Cycle => Inv'
<1> SUFFICES ASSUME Inv, Cycle PROVE Inv'
  OBVIOUS
<1>1. /\ pc = "cycle" /\ pc' = "work"
      /\ UNCHANGED <<progress, controlVars, jobVars, spent>> /\ KeepQueue /\ Keep
  BY Zenon DEF Cycle
<1> QED
  BY <1>1, CycleFit, SyncKeeps

LEMMA StopRunKeeps == Inv /\ StopRun => Inv'
<1> SUFFICES ASSUME Inv, StopRun PROVE Inv'
  OBVIOUS
<1>1. /\ EndRun("stopped_by_user") /\ pc = "cycle" /\ mode' = "stopped"
      /\ told' = told /\ spent' = spent
  BY DEF StopRun
<1> QED
  BY <1>1, EndRunKeeps DEF Inv, TypeOK, RunUp, Loop, Modes

\* The steps of the loop that only move it along.
LEMMA LoopKeeps ==
  ASSUME Inv, pc \in {"work", "pick", "count"}, pc' \in {"pick", "count", "cycle"},
         UNCHANGED <<progress, controlVars, registry, jobVars, spent>>, KeepQueue, Keep
  PROVE  Inv'
<1>1. TypeOK'
  BY DEF Inv, TypeOK, Keep, KeepQueue, controlVars, jobVars, gitVars, Places, RunUp, Loop
<1>2. Walking' /\ Stopping'
  BY DEF Inv, Walking, Stopping, Places, RunUp, Loop, controlVars
<1> QED
  BY <1>1, <1>2, QuietKeeps DEF jobVars

LEMMA LoopStepKeeps == Inv /\ (Dispatch \/ Picked \/ Again) => Inv'
<1> SUFFICES ASSUME Inv, Dispatch \/ Picked \/ Again PROVE Inv'
  OBVIOUS
<1>1. /\ pc \in {"work", "pick", "count"} /\ pc' \in {"pick", "count", "cycle"}
      /\ UNCHANGED <<progress, controlVars, registry, jobVars, spent>> /\ KeepQueue /\ Keep
  BY DEF Dispatch, Picked, Again
<1> QED
  BY <1>1, LoopKeeps

LEMMA FinishKeeps == Inv /\ Finish => Inv'
<1> SUFFICES ASSUME Inv, Finish PROVE Inv'
  OBVIOUS
<1>1. /\ pc = "count" /\ UNCHANGED <<mode, told, spent>>
  BY DEF Finish
<1>2. PICK s \in {"success", "blocked", "failed", "stopped_by_user"} : EndRun(s)
  BY DEF Finish
<1>3. told => mode # "running"
  BY <1>1 DEF Inv, Stopping
<1> QED
  BY <1>1, <1>2, <1>3, EndRunKeeps DEF Inv, TypeOK, RunUp, Loop


-----------------------------------------------------------------------------
(* The tasks.                                                              *)

LEMMA MovedSound ==
  ASSUME NEW branch, NEW r, Sound(r, branch), NEW t \in Work, NEW s \in States,
         s = "merged" => t \in branch
  PROVE  Sound(Moved(r, t, s), branch)
<1>1. Work = Tasks \ Gates /\ Gates \subseteq Tasks
  BY QueueAssumption DEF Work
<1>2. r \in Registries
  BY DEF Sound
<1> QED
  BY <1>1, <1>2 DEF Sound, Moved, Registries

\* What the registry says of worktrees and verdicts does not matter here.
LEMMA NotesSound ==
  ASSUME NEW branch, NEW r, Sound(r, branch), NEW att \in SUBSET Tasks, NEW ok \in SUBSET Tasks
  PROVE  /\ Sound([r EXCEPT !.att = att], branch)
         /\ Sound([r EXCEPT !.ok = ok], branch)
BY DEF Sound, Registries

\* A step after which the branch has at least what it had.
LEMMA BranchGrows ==
  ASSUME Inv, rev' \in [Tasks -> Nat], \A t \in Tasks : rev[t] <= rev'[t],
         UNCHANGED <<ledger, cli>>, Sound(registry', OnBranch)
  PROVE  OnBranch \subseteq OnBranch' /\ Stored' /\ Approvals'
<1>1. rev \in [Tasks -> Nat]
  BY DEF Inv, TypeOK
<1>2. OnBranch \subseteq OnBranch'
  BY <1>1 DEF OnBranch
<1>3. Stored'
  BY <1>2, SoundGrows DEF Inv, Stored
<1>4. ASSUME NEW g \in Gates, Backed(g)
      PROVE  Backed(g)'
  <2>1. Subject[g] \in Tasks
    BY QueueAssumption DEF Work
  <2>2. rev[Subject[g]] \in Nat /\ rev'[Subject[g]] \in Nat /\ rev[Subject[g]] <= rev'[Subject[g]]
    BY <1>1, <2>1
  <2>3. \A rv \in 0..rev[Subject[g]] : rv \in 0..rev'[Subject[g]]
    BY <2>2
  <2> QED
    BY <1>4, <2>3 DEF Backed, Standing
<1>5. Approvals'
  BY <1>4 DEF Inv, Approvals
<1> QED
  BY <1>2, <1>3, <1>5

\* A step of one task within the loop, beside which nothing of the run changes.
LEMMA TaskStepKeeps ==
  ASSUME Inv, rev' \in [Tasks -> Nat], \A t \in Tasks : rev[t] <= rev'[t],
         Sound(registry', OnBranch), UNCHANGED <<progress, plan, files, pc>>,
         UNCHANGED <<controlVars, ledger, cli>>, spent' \in [Kinds -> Nat],
         {judged', draft'} \subseteq [Tasks -> {"none", "accepted", "rejected"}],
         jobs' \subseteq Tasks, merging' \subseteq Tasks, landed' \subseteq merging',
         landed' \subseteq OnBranch'
  PROVE  Inv'
<1>1. OnBranch \subseteq OnBranch' /\ Stored' /\ Approvals'
  BY BranchGrows
<1>2. TypeOK'
  BY DEF Inv, TypeOK, Sound, controlVars
<1>3. Delivering'
  BY <1>1 DEF Inv, Delivering, CursorBehind, Own, Current
<1>4. Walking' /\ Stopping'
  BY DEF Inv, Walking, Stopping, controlVars
<1> QED
  BY <1>1, <1>2, <1>3, <1>4 DEF Inv

\* The facts every step below starts from.
LEMMA TaskFacts ==
  Inv => /\ rev \in [Tasks -> Nat] /\ \A t \in Tasks : rev[t] <= rev[t]
         /\ Sound(registry, OnBranch) /\ registry \in Registries
         /\ spent \in [Kinds -> Nat]
         /\ {judged, draft} \subseteq [Tasks -> {"none", "accepted", "rejected"}]
         /\ jobs \subseteq Tasks /\ merging \subseteq Tasks /\ landed \subseteq merging
         /\ landed \subseteq OnBranch /\ Work \subseteq Tasks
BY DEF Inv, TypeOK, Stored, Delivering, Work

\* A step that leaves git alone.
LEMMA GitStillKeeps ==
  ASSUME Inv, Keep, Sound(registry', OnBranch), KeepQueue, spent' \in [Kinds -> Nat],
         UNCHANGED <<progress, pc, controlVars>>,
         jobs' \subseteq Tasks, merging' \subseteq Tasks, landed' \subseteq merging',
         landed' \subseteq landed
  PROVE  Inv'
<1>1. rev' = rev /\ judged' = judged /\ draft' = draft /\ OnBranch' = OnBranch
  BY DEF Keep, gitVars, OnBranch
<1> QED
  BY <1>1, TaskFacts, TaskStepKeeps DEF Keep, KeepQueue

LEMMA PerformedIs ==
  ASSUME Inv, NEW t \in Work, NEW v
  PROVE  /\ Sound(Performed(t, v), OnBranch)
         /\ \A u \in Tasks \ {t} : Performed(t, v).st[u] = registry.st[u]
<1> DEFINE m == Moved(registry, t, "phase")
<1>1. CASE registry.st[t] = "working"
  <2>1. Sound(m, OnBranch) /\ m \in Registries
    BY <1>1, TaskFacts, MovedSound DEF States, Active, Sound
  <2>2. m.ok \cup {t} \in SUBSET Tasks /\ m.ok \ {t} \in SUBSET Tasks
    BY <2>1, RegistryParts, TaskFacts
  <2>3. \A u \in Tasks \ {t} : m.st[u] = registry.st[u]
    BY TaskFacts DEF Moved, Registries
  <2>4. Performed(t, v) = [m EXCEPT !.ok = IF v = "accepted" THEN @ \cup {t} ELSE @ \ {t}]
    BY <1>1 DEF Performed
  <2> HIDE DEF m
  <2>5. Sound([m EXCEPT !.ok = IF v = "accepted" THEN @ \cup {t} ELSE @ \ {t}], OnBranch)
    BY <2>1, <2>2, NotesSound
  <2>6. Sound(Performed(t, v), OnBranch)
    BY <2>4, <2>5
  <2> QED
    BY <2>1, <2>3, <2>4, <2>6 DEF Registries
<1>2. CASE registry.st[t] # "working"
  BY <1>2, TaskFacts DEF Performed
<1> QED
  BY <1>1, <1>2

LEMMA PerformKeeps == \A t \in Work : Inv /\ Perform(t) => Inv'
<1> SUFFICES ASSUME NEW t \in Work, Inv, Perform(t) PROVE Inv'
  OBVIOUS
<1>1. PICK v \in {"none", "accepted", "rejected"} :
        draft' = [draft EXCEPT ![t] = v] /\ registry' = WithBlocks(Performed(t, v))
  BY DEF Perform
<1>2. Sound(registry', OnBranch)
  BY <1>1, PerformedIs, WithBlocksSound
<1>3. draft' \in [Tasks -> {"none", "accepted", "rejected"}]
  BY <1>1, TaskFacts
<1>4. OnBranch' = OnBranch
  BY DEF Perform, OnBranch
<1> QED
  BY <1>2, <1>3, <1>4, TaskFacts, TaskStepKeeps DEF Perform, KeepRun, KeepQueue

LEMMA QueueKeeps == \A t \in Work : Inv /\ Queue(t) => Inv'
<1> SUFFICES ASSUME NEW t \in Work, Inv, Queue(t) PROVE Inv'
  OBVIOUS
<1>1. Sound(registry', OnBranch)
  BY TaskFacts, MovedSound DEF Queue, States, Active
<1> QED
  BY <1>1, TaskFacts, GitStillKeeps DEF Queue, KeepRun

LEMMA PublishKeeps == \A t \in Work : Inv /\ Publish(t) => Inv'
<1> SUFFICES ASSUME NEW t \in Work, Inv, Publish(t) PROVE Inv'
  OBVIOUS
<1>1. t \in Tasks /\ t \in merging
  BY TaskFacts DEF Publish
<1>2. rev' \in [Tasks -> Nat] /\ \A u \in Tasks : rev[u] <= rev'[u]
  BY <1>1, TaskFacts DEF Publish
<1>3. judged' \in [Tasks -> {"none", "accepted", "rejected"}]
  BY <1>1, TaskFacts DEF Publish
<1>4. t \in OnBranch'
  BY <1>1, TaskFacts DEF Publish, OnBranch
<1>5. OnBranch \subseteq OnBranch'
  BY <1>2, TaskFacts DEF OnBranch
<1>6. registry' = registry /\ landed' = landed \cup {t} /\ draft' = draft
      /\ jobs' = jobs /\ merging' = merging
  BY DEF Publish
<1> QED
  BY <1>1, <1>2, <1>3, <1>4, <1>5, <1>6, TaskFacts, TaskStepKeeps
     DEF Publish, KeepRun, KeepQueue

LEMMA MergedIs ==
  ASSUME Inv, NEW t \in Work, Record(t)
  PROVE  /\ Sound(Merged(t), OnBranch) /\ Merged(t) \in Registries
         /\ \A u \in Tasks \ {t} : Merged(t).st[u] = registry.st[u]
<1> DEFINE m == Moved(registry, t, "merged")
<1>1. Sound(m, OnBranch) /\ m \in Registries
  BY TaskFacts, MovedSound DEF Record, States, Sound
<1>2. m.att \ {t} \in SUBSET Tasks
  BY <1>1, RegistryParts
<1>3. \A u \in Tasks \ {t} : m.st[u] = registry.st[u]
  BY TaskFacts DEF Moved, Registries
<1>4. Merged(t) = [m EXCEPT !.att = m.att \ {t}]
  BY DEF Merged
<1> HIDE DEF m
<1>5. Sound([m EXCEPT !.att = m.att \ {t}], OnBranch)
  BY <1>1, <1>2, NotesSound
<1>6. Sound(Merged(t), OnBranch)
  BY <1>4, <1>5
<1> QED
  BY <1>1, <1>3, <1>4, <1>6 DEF Registries, Sound

LEMMA RecordKeeps == \A t \in Work : Inv /\ Record(t) => Inv'
<1> SUFFICES ASSUME NEW t \in Work, Inv, Record(t) PROVE Inv'
  OBVIOUS
<1>1. Sound(registry', OnBranch)
  BY MergedIs, WithBlocksSound DEF Record
<1> QED
  BY <1>1, TaskFacts, GitStillKeeps DEF Record, KeepRun

LEMMA MisplacedKeeps == \A t \in Work : Inv /\ Misplaced(t) => Inv'
<1> SUFFICES ASSUME NEW t \in Work, Inv, Misplaced(t) PROVE Inv'
  OBVIOUS
<1>1. EndRun("failed") /\ pc = "work" /\ mode' = mode /\ told' = told /\ spent' = spent
  BY DEF Misplaced
<1> QED
  BY <1>1, EndRunKeeps DEF Inv, TypeOK, RunUp, Loop

LEMMA DroppedIs ==
  ASSUME NEW t, NEW states, NEW r \in Dropped(t, states)
  PROVE  \E s \in states, kept \in SUBSET ({t} \cap registry.att) :
           r = [Moved(registry, t, s) EXCEPT !.att = (@ \ {t}) \cup kept]
BY DEF Dropped

\* What a task that is given up leaves in the registry.
LEMMA GivenUp ==
  ASSUME NEW t, Fail(t) \/ Ghost(t)
  PROVE  \E r \in Dropped(t, {"todo", "blocked"}) : registry' = r \/ registry' = WithBlocks(r)
<1>1. Dropped(t, {"blocked"}) \subseteq Dropped(t, {"todo", "blocked"})
  BY DEF Dropped
<1> QED
  BY <1>1 DEF Fail, Ghost

LEMMA DroppedSound ==
  ASSUME Inv, NEW t \in Work, NEW states \in SUBSET {"todo", "blocked"},
         NEW r \in Dropped(t, states)
  PROVE  Sound(r, OnBranch)
<1>1. PICK s \in states, kept \in SUBSET ({t} \cap registry.att) :
        r = [Moved(registry, t, s) EXCEPT !.att = (@ \ {t}) \cup kept]
  BY DroppedIs
<1> DEFINE m == Moved(registry, t, s)
<1>2. Sound(m, OnBranch)
  BY TaskFacts, MovedSound DEF States
<1>3. (m.att \ {t}) \cup kept \in SUBSET Tasks
  <2>1. m \in Registries
    BY <1>2 DEF Sound
  <2> QED
    BY <2>1, RegistryParts, TaskFacts
<1> HIDE DEF m
<1> QED
  BY <1>1, <1>2, <1>3, NotesSound DEF m

LEMMA SpendTyped ==
  ASSUME Inv, NEW k \in Kinds, Spend(k)
  PROVE  spent' \in [Kinds -> Nat]
BY DEF Inv, TypeOK, Spend

LEMMA FailKeeps == \A t \in Work : Inv /\ Fail(t) => Inv'
<1> SUFFICES ASSUME NEW t \in Work, Inv, Fail(t) PROVE Inv'
  OBVIOUS
<1>1. Sound(registry', OnBranch)
  <2>1. PICK states \in SUBSET {"todo", "blocked"} :
          registry' \in {WithBlocks(r) : r \in Dropped(t, states)}
    BY DEF Fail
  <2> QED
    BY <2>1, DroppedSound, WithBlocksSound
<1>2. spent' \in [Kinds -> Nat]
  BY SpendTyped DEF Fail, Kinds
<1>3. /\ jobs' \subseteq jobs /\ merging' \subseteq merging /\ landed' = landed
      /\ landed \subseteq merging'
  BY TaskFacts DEF Fail
<1> QED
  BY <1>1, <1>2, <1>3, TaskFacts, GitStillKeeps DEF Fail

LEMMA GhostKeeps == \A t \in Work : Inv /\ Ghost(t) => Inv'
<1> SUFFICES ASSUME NEW t \in Work, Inv, Ghost(t) PROVE Inv'
  OBVIOUS
<1>1. Sound(registry', OnBranch)
  BY DroppedSound, {"todo", "blocked"} \in SUBSET {"todo", "blocked"} DEF Ghost
<1> QED
  BY <1>1, TaskFacts, GitStillKeeps DEF Ghost, KeepRun, jobVars

LEMMA PickKeeps == \A t \in Work : Inv /\ Pick(t) => Inv'
<1> SUFFICES ASSUME NEW t \in Work, Inv, Pick(t) PROVE Inv'
  OBVIOUS
<1> DEFINE m == Moved(registry, t, "working")
<1>1. Sound(m, OnBranch)
  BY TaskFacts, MovedSound DEF States, Active
<1>2. m.att \cup {t} \in SUBSET Tasks
  <2>1. m \in Registries
    BY <1>1 DEF Sound
  <2> QED
    BY <2>1, RegistryParts, TaskFacts
<1>3. registry' = [m EXCEPT !.att = m.att \cup {t}]
  BY DEF Pick
<1> HIDE DEF m
<1>4. Sound(registry', OnBranch)
  BY <1>1, <1>2, <1>3, NotesSound
<1> QED
  BY <1>4, TaskFacts, GitStillKeeps DEF Pick, KeepRun


-----------------------------------------------------------------------------
(* Operators and the environment.                                          *)

LEMMA StopKeeps ==
  ASSUME Inv, NEW kind \in {"draining", "graceful_stopping", "force_stopping"}, Stop(kind)
  PROVE  Inv'
<1>1. spent' \in [Kinds -> Nat]
  BY SpendTyped DEF Stop, Kinds
<1>2. TypeOK'
  BY <1>1 DEF Inv, TypeOK, Stop, KeepProcess, Keep, jobVars, gitVars, Modes, In
<1>3. Walking' /\ Stopping'
  BY DEF Inv, Walking, Stopping, Stop, KeepProcess, RunUp, Loop
<1> QED
  BY <1>2, <1>3, QuietKeeps DEF Stop, KeepProcess, jobVars

LEMMA InterruptKeeps == Inv /\ Interrupt => Inv'
<1> SUFFICES ASSUME Inv, Interrupt PROVE Inv'
  OBVIOUS
<1>1. spent' \in [Kinds -> Nat]
  BY SpendTyped DEF Interrupt, Kinds
<1>2. EndRun("stopped_by_user") /\ pc \in RunUp /\ mode' = mode /\ told' = TRUE
  BY DEF Interrupt, RunUp
<1> QED
  BY <1>1, <1>2, EndRunKeeps DEF Inv, TypeOK

LEMMA CrashKeeps == Inv /\ Crash => Inv'
<1> SUFFICES ASSUME Inv, Crash PROVE Inv'
  OBVIOUS
<1>1. spent' \in [Kinds -> Nat]
  BY SpendTyped DEF Crash, Kinds
<1>2. TypeOK'
  BY <1>1 DEF Inv, TypeOK, Crash, Keep, KeepQueue, controlVars, gitVars, Places
<1>3. Walking' /\ Stopping'
  BY DEF Walking, Stopping, Crash
<1> QED
  BY <1>2, <1>3, QuietKeeps DEF Crash

LEMMA ResetKeeps == Inv /\ Reset => Inv'
<1> SUFFICES ASSUME Inv, Reset PROVE Inv'
  OBVIOUS
<1>1. spent' \in [Kinds -> Nat]
  BY SpendTyped DEF Reset, Kinds
<1>2. progress' \in Progresses /\ progress'.next = 0
  <2>1. 0 \in 0..Last /\ "" \in Statuses
    BY QueueAssumption DEF Statuses
  <2>2. <<>> \in {<<>>} \cup Versions
    BY Zenon
  <2>3. progress' = [next |-> 0, status |-> "", prints |-> <<>>]
    BY DEF Reset, NoProgress
  <2> QED
    BY <2>1, <2>2, <2>3, Zenon DEF Progresses
<1>3. TypeOK'
  BY <1>1, <1>2 DEF Inv, TypeOK, Reset, Keep, KeepQueue, controlVars, jobVars, gitVars,
                    Progresses
<1>4. Walking' /\ Stopping'
  BY DEF Walking, Stopping, Reset
<1>5. Delivering'
  <2>1. \A t \in Tasks : PrdOf[t] \in Nat /\ PrdOf[t] > 0
    BY QueueAssumption DEF Prds
  <2>2. \A t \in Tasks : ~(PrdOf[t] <= progress'.next)
    BY <1>2, <2>1
  <2> QED
    BY <2>2 DEF Inv, Delivering, CursorBehind, Reset, Keep, jobVars, gitVars, OnBranch
<1>6. Stored'
  BY KeepStored DEF Inv, Stored, Reset
<1> QED
  BY <1>3, <1>4, <1>5, <1>6, KeepApprovals DEF Inv, Reset

LEMMA EditKeeps == \A i \in Prds : Inv /\ Edit(i) => Inv'
<1> SUFFICES ASSUME NEW i \in Prds, Inv, Edit(i) PROVE Inv'
  OBVIOUS
<1>1. spent' \in [Kinds -> Nat]
  BY SpendTyped DEF Edit, Kinds
<1>2. files' \in Versions
  BY DEF Inv, TypeOK, Edit, Versions
<1>3. TypeOK'
  BY <1>1, <1>2 DEF Inv, TypeOK, Edit, Keep, KeepProcess, controlVars, jobVars, gitVars
<1>4. Walking' /\ Stopping'
  BY DEF Inv, Walking, Stopping, Edit, KeepProcess, controlVars
<1> QED
  BY <1>3, <1>4, QuietKeeps DEF Edit, KeepProcess, jobVars

LEMMA ReviseKeeps == \A t \in Work : Inv /\ Revise(t) => Inv'
<1> SUFFICES ASSUME NEW t \in Work, Inv, Revise(t) PROVE Inv'
  OBVIOUS
<1>1. spent' \in [Kinds -> Nat]
  BY SpendTyped DEF Revise, Kinds
<1>2. rev' \in [Tasks -> Nat] /\ \A u \in Tasks : rev[u] <= rev'[u]
  BY TaskFacts DEF Revise
<1>3. OnBranch \subseteq OnBranch'
  BY <1>2, TaskFacts DEF OnBranch
<1>4. UNCHANGED <<registry, jobs, merging, landed, judged, draft, ledger, cli>>
      /\ UNCHANGED <<progress, plan, files, pc, controlVars>>
  BY DEF Revise, KeepProcess, jobVars, controlVars
<1> QED
  BY <1>1, <1>2, <1>3, <1>4, TaskFacts, TaskStepKeeps

\* A step of a decision command or of the clock: nothing of the process moves.
LEMMA AsideKeeps ==
  ASSUME Inv, KeepProcess, UNCHANGED <<files, controlVars, gitVars>>,
         Sound(registry', OnBranch), ledger' \in [Gates -> [Seats -> Entries]],
         cli' \in Seq(Registries), Len(cli') <= 1, spent' \in [Kinds -> Nat],
         \A i \in 1..Len(cli') : Sound(cli'[i], OnBranch), Approvals'
  PROVE  Inv'
<1>1. OnBranch' = OnBranch
  BY DEF gitVars, OnBranch
<1>2. TypeOK'
  BY DEF Inv, TypeOK, KeepProcess, controlVars, jobVars, gitVars, Sound
<1>3. Stored'
  BY <1>1 DEF Stored
<1>4. Delivering'
  BY <1>1 DEF Inv, Delivering, CursorBehind, KeepProcess, jobVars, Own, Current
<1>5. Walking' /\ Stopping'
  BY DEF Inv, Walking, Stopping, KeepProcess, controlVars
<1> QED
  BY <1>2, <1>3, <1>4, <1>5 DEF Inv

LEMMA DecideKeeps ==
  ASSUME Inv, NEW g \in Gates, NEW seat \in Seats, NEW what \in Says, Decide(g, seat, what)
  PROVE  Inv'
<1> DEFINE read == WithGates(registry, ledger)
           book == [ledger EXCEPT ![g][seat] =
                      [says |-> what, rev |-> rev[Subject[g]], old |-> FALSE]]
           m == WithGates(read, book)
           kept == WithBlocks(m)
<1>1. /\ ledger' = book /\ cli' = <<kept>> /\ Spend("decide")
      /\ UNCHANGED <<files, controlVars, registry, gitVars>> /\ KeepProcess
  BY DEF Decide
<1>2. Settled /\ Sound(registry, OnBranch)
  BY InvSettled, TaskFacts
<1>3. Ages(book)
  <2>1. rev[Subject[g]] \in Nat
    BY <1>2, QueueAssumption DEF Settled, Work
  <2>2. [says |-> what, rev |-> rev[Subject[g]], old |-> FALSE] \in Entries
    BY <2>1 DEF Entries
  <2> QED
    BY <1>2, <2>2 DEF Settled, Ages
<1>4. Sound(read, OnBranch)
  BY <1>2, WithGatesFit DEF Fit
<1> HIDE DEF book, read
<1>5. Sound(m, OnBranch) /\ m \in Registries
  BY <1>3, <1>4, WithGatesSound DEF Ages, Sound
<1>6. \A h \in Gates : m.st[h] = "approved" => BackedIn(h, book, rev[Subject[h]])
  BY <1>2, <1>3, <1>4, WithGatesApproves DEF Settled, Sound
<1> HIDE DEF m
<1>7. Sound(kept, OnBranch)
  BY <1>5, WithBlocksSound
<1>8. \A h \in Gates : kept.st[h] = "approved" => BackedIn(h, book, rev[Subject[h]])
  <2>1. Gates \subseteq Tasks
    BY QueueAssumption
  <2> QED
    BY <1>5, <1>6, <2>1, WithBlocksIs
<1> HIDE DEF kept
<1>9. cli' \in Seq(Registries) /\ Len(cli') = 1 /\ cli'[1] = kept
  BY <1>1, <1>7 DEF Sound
<1>10. \A h \in Gates : BackedIn(h, book, rev[Subject[h]]) => Backed(h)'
  BY <1>1 DEF BackedIn, Backed, Standing, gitVars
<1>11. Approvals'
  BY <1>1, <1>3, <1>8, <1>9, <1>10 DEF Approvals, Ages
<1>12. spent' \in [Kinds -> Nat]
  BY <1>1, SpendTyped DEF Kinds
<1>13. \A i \in 1..Len(cli') : Sound(cli'[i], OnBranch)
  BY <1>7, <1>9
<1> QED
  BY <1>1, <1>2, <1>3, <1>9, <1>11, <1>12, <1>13, AsideKeeps DEF Ages

LEMMA SaveDecisionKeeps == Inv /\ SaveDecision => Inv'
<1> SUFFICES ASSUME Inv, SaveDecision PROVE Inv'
  OBVIOUS
<1>1. Sound(registry', OnBranch)
  BY DEF Inv, TypeOK, Stored, SaveDecision
<1>2. cli' \in Seq(Registries) /\ Len(cli') = 0
  BY DEF SaveDecision
<1>3. Approvals'
  BY <1>2 DEF Inv, Approvals, SaveDecision
<1> QED
  BY <1>1, <1>2, <1>3, AsideKeeps DEF Inv, TypeOK, SaveDecision

LEMMA AgeKeeps == \A g \in Gates, seat \in Seats : Inv /\ Age(g, seat) => Inv'
<1> SUFFICES ASSUME NEW g \in Gates, NEW seat \in Seats, Inv, Age(g, seat) PROVE Inv'
  OBVIOUS
<1>1. ledger \in [Gates -> [Seats -> Entries]] /\ g \in Expiring
      /\ ledger' = [ledger EXCEPT ![g][seat].old = TRUE]
  BY DEF Inv, TypeOK, Age
<1>2. ledger' \in [Gates -> [Seats -> Entries]]
  <2> DEFINE e == [ledger[g][seat] EXCEPT !.old = TRUE]
  <2>1. ledger[g][seat] \in Entries
    BY <1>1
  <2>2. e \in Entries
    BY <2>1 DEF Entries
  <2> DEFINE n == [ledger[g] EXCEPT ![seat] = e]
  <2>3. ledger' = [ledger EXCEPT ![g] = n]
    BY <1>1
  <2> HIDE DEF e
  <2>4. n \in [Seats -> Entries]
    BY <1>1, <2>2
  <2> HIDE DEF n
  <2> QED
    BY <1>1, <2>3, <2>4
<1>3. \A h \in Gates, s \in Seats :
        /\ ledger'[h][s].says = ledger[h][s].says /\ ledger'[h][s].rev = ledger[h][s].rev
        /\ ledger[h][s].old => ledger'[h][s].old
        /\ ledger'[h][s].old => ledger[h][s].old \/ h \in Expiring
  BY <1>1 DEF Entries
<1>4. rev' = rev /\ cli' = cli
  BY DEF Age, gitVars
<1>5. ASSUME NEW h \in Gates, Backed(h)
      PROVE  Backed(h)'
  <2>1. \A rv : Standing(h, rv, "approve")' = Standing(h, rv, "approve")
               /\ Standing(h, rv, "reject")' = Standing(h, rv, "reject")
    BY <1>3 DEF Standing
  <2>2. PICK rv \in 0..rev[Subject[h]] :
          /\ \A s \in Standing(h, rv, "reject") : ledger[h][s].old
          /\ QuorumMet(h, Standing(h, rv, "approve"))
    BY <1>5 DEF Backed
  <2>3. \A s \in Standing(h, rv, "reject")' : ledger'[h][s].old
    BY <1>3, <2>1, <2>2 DEF Standing
  <2>4. QuorumMet(h, Standing(h, rv, "approve")')
    BY <2>1, <2>2
  <2> QED
    BY <1>4, <2>3, <2>4 DEF Backed
<1>6. Approvals'
  BY <1>3, <1>4, <1>5 DEF Inv, Approvals
<1>7. spent' \in [Kinds -> Nat]
  BY SpendTyped DEF Age, Kinds
<1> QED
  BY <1>2, <1>4, <1>6, <1>7, TaskFacts, AsideKeeps DEF Inv, TypeOK, Stored, Age


LEMMA OutsideKeeps == Inv /\ Outside => Inv'
<1> SUFFICES ASSUME Inv, Outside PROVE Inv'
  OBVIOUS
<1>1. CASE \E kind \in {"draining", "graceful_stopping", "force_stopping"} : Stop(kind)
  BY <1>1, StopKeeps
<1>2. CASE Interrupt \/ Crash \/ Reset \/ SaveDecision
  BY <1>2, InterruptKeeps, CrashKeeps, ResetKeeps, SaveDecisionKeeps
<1>3. CASE \E i \in Prds : Edit(i)
  BY <1>3, EditKeeps
<1>4. CASE \E t \in Work : Revise(t)
  BY <1>4, ReviseKeeps
<1>5. CASE \E g \in Gates, seat \in Seats, what \in Says : Decide(g, seat, what)
  BY <1>5, DecideKeeps
<1>6. CASE \E g \in Gates, seat \in Seats : Age(g, seat)
  BY <1>6, AgeKeeps
<1> QED
  BY <1>1, <1>2, <1>3, <1>4, <1>5, <1>6 DEF Outside

LEMMA StutterKeeps == Inv /\ UNCHANGED vars => Inv'
<1> SUFFICES ASSUME Inv, UNCHANGED vars PROVE Inv'
  OBVIOUS
<1>1. Keep /\ UNCHANGED <<progress, plan, files, pc, registry, spent, jobVars, controlVars>>
  BY DEF vars, Keep, gitVars, jobVars, controlVars
<1>2. TypeOK'
  BY <1>1 DEF Inv, TypeOK, Keep, gitVars, jobVars, controlVars
<1>3. Walking' /\ Stopping'
  BY <1>1 DEF Inv, Walking, Stopping, controlVars
<1> QED
  BY <1>1, <1>2, <1>3, QuietKeeps DEF jobVars

LEMMA StepKeeps == Inv /\ [Next]_vars => Inv'
<1> SUFFICES ASSUME Inv, [Next]_vars PROVE Inv'
  OBVIOUS
<1>1. CASE Queued
  BY <1>1, LaunchKeeps, BlockedKeeps, OpenEntryKeeps, MarkKeeps, JudgeKeeps, DeliverKeeps,
     AdvanceKeeps DEF Queued
<1>2. CASE Running
  BY <1>2, StartRunKeeps, RecoverKeeps, StopRunKeeps, CycleKeeps, LoopStepKeeps, FinishKeeps
     DEF Running
<1>3. CASE \E t \in Work : OneTask(t)
  BY <1>3, PerformKeeps, QueueKeeps, PublishKeeps, RecordKeeps, MisplacedKeeps, FailKeeps,
     GhostKeeps, PickKeeps DEF OneTask, Moves
<1>4. CASE Outside
  BY <1>4, OutsideKeeps
<1>5. CASE UNCHANGED vars
  BY <1>5, StutterKeeps
<1> QED
  BY <1>1, <1>2, <1>3, <1>4, <1>5 DEF Next

-----------------------------------------------------------------------------
(* The order of the tasks, over all PRDs.                                  *)

\* A registry in which what is begun, asked for or passed over rests on the branch.
Ordered(r, branch) ==
  /\ r.ext \subseteq branch
  /\ \A t \in Work : r.st[t] \notin Open
  /\ \A t \in Tasks : r.st[t] # "absent" =>
       \A d \in Work : PrdOf[d] < PrdOf[t] => d \in branch
  /\ \A g \in Gates : r.st[g] = "approved" => Deps[g] \cap Work \subseteq branch
  /\ \A t \in Work : r.st[t] \in Active => Before(t) \subseteq branch

InOrder ==
  /\ OnBranch \subseteq Work
  /\ Ordered(registry, OnBranch)
  /\ \A i \in 1..Len(cli) : Ordered(cli[i], OnBranch)

LEMMA OrderedGrows ==
  ASSUME NEW few, NEW many, few \subseteq many, NEW r, Ordered(r, few)
  PROVE  Ordered(r, many)
BY DEF Ordered

LEMMA SatisfiedIs ==
  ASSUME NEW branch, NEW r, Sound(r, branch), Ordered(r, branch)
  PROVE  Work \cap Satisfied(r) \subseteq branch
BY DEF Satisfied, DeliveredIn, Sound, Ordered, Work, Open

LEMMA FromPrdOrdered ==
  ASSUME Inv, NEW r \in Registries, Ordered(r, OnBranch)
  PROVE  Ordered(FromPrd(r), OnBranch)
<1> DEFINE m == FromPrd(r)
<1>1. /\ m.ext = r.ext \cup Earlier
      /\ \A t \in Tasks : m.st[t] \in {"absent", "todo", r.st[t]}
  BY FromPrdIs DEF FromPrd
<1>2. \A t \in Tasks : m.st[t] # "absent" => t \in Own
  <2> SUFFICES ASSUME NEW t \in Tasks, t \notin Own PROVE m.st[t] = "absent"
    OBVIOUS
  <2> DEFINE N(u) == CASE u \notin Own                     -> "absent"
                       [] u \in Own /\ r.st[u] = "absent" -> "todo"
                       [] OTHER                            -> r.st[u]
  <2>1. m.st = [u \in Tasks |-> N(u)]
    BY DEF FromPrd
  <2>2. N(t) = "absent"
    BY Zenon
  <2> HIDE DEF N, m
  <2> QED
    BY <2>1, <2>2
<1>3. CursorBehind /\ progress.next \in Nat
  BY QueueAssumption DEF Inv, TypeOK, Delivering
<1>4. Earlier \subseteq OnBranch
  BY <1>3 DEF Earlier, CursorBehind
<1>5. ASSUME NEW t \in Own, NEW d \in Work, PrdOf[d] < PrdOf[t]
      PROVE  d \in OnBranch
  <2>1. PrdOf[t] = progress.next + 1 /\ d \in Tasks /\ PrdOf[d] \in Nat
    BY QueueAssumption DEF Own, Current, Work, Prds
  <2>2. PrdOf[d] <= progress.next
    BY <1>3, <1>5, <2>1
  <2> QED
    BY <1>3, <2>1, <2>2 DEF CursorBehind
<1>6. Work \subseteq Tasks /\ Gates \subseteq Tasks
  BY QueueAssumption DEF Work
<1> HIDE DEF m
<1>7. Ordered(m, OnBranch)
  BY <1>1, <1>2, <1>4, <1>5, <1>6 DEF Ordered, Open, Active
<1> QED
  BY <1>7 DEF m

LEMMA WithGatesAsks ==
  ASSUME NEW r \in Registries, NEW book \in [Gates -> [Seats -> Entries]], NEW g \in Gates
  PROVE  LET s == WithGates(r, book).st[g]
         IN /\ s # "absent" => r.st[g] # "absent"
            /\ s = "approved" => Deps[g] \subseteq Satisfied(r) \cup r.ext
<1>1. g \in Tasks
  BY QueueAssumption
<1>2. WithGates(r, book).st[g] = IF r.st[g] # "absent" THEN GateState(r, book, g) ELSE r.st[g]
  BY <1>1 DEF WithGates, Registries
<1> QED
  BY <1>2 DEF GateState, Open

LEMMA WithGatesOrdered ==
  ASSUME NEW branch, NEW r, Sound(r, branch), Ordered(r, branch),
         NEW book \in [Gates -> [Seats -> Entries]]
  PROVE  Ordered(WithGates(r, book), branch)
<1> DEFINE m == WithGates(r, book)
<1>1. r \in Registries /\ m.ext = r.ext
  BY DEF Sound, WithGates, Registries
<1>2. \A t \in Work : t \in Tasks /\ m.st[t] = r.st[t]
  BY <1>1, WithGatesIs DEF Work
<1>3. \A g \in Gates : /\ m.st[g] # "absent" => r.st[g] # "absent"
                       /\ m.st[g] = "approved" => Deps[g] \cap Work \subseteq branch
  BY <1>1, WithGatesAsks, SatisfiedIs DEF Ordered
<1>4. Tasks = Work \cup Gates
  BY QueueAssumption DEF Work
<1> HIDE DEF m
<1>5. Ordered(m, branch)
  BY <1>1, <1>2, <1>3, <1>4 DEF Ordered
<1> QED
  BY <1>5 DEF m

LEMMA WithBlocksOrdered ==
  ASSUME NEW branch, NEW r \in Registries, Ordered(r, branch)
  PROVE  Ordered(WithBlocks(r), branch)
<1> DEFINE m == WithBlocks(r)
<1>1. /\ m.ext = r.ext
      /\ \A t \in Tasks : m.st[t] = r.st[t] \/ (m.st[t] \in {"todo", "depblocked"}
                                                  /\ r.st[t] \in {"todo", "depblocked"})
  BY WithBlocksIs DEF WithBlocks, Registries
<1>2. Work \subseteq Tasks /\ Gates \subseteq Tasks
  BY QueueAssumption DEF Work
<1> HIDE DEF m
<1>3. Ordered(m, branch)
  BY <1>1, <1>2 DEF Ordered, Open, Active
<1> QED
  BY <1>3 DEF m

LEMMA SyncedOrdered ==
  ASSUME Inv, NEW r, Sound(r, OnBranch), Ordered(r, OnBranch), NEW s \in Synced(r)
  PROVE  Ordered(s, OnBranch)
<1> DEFINE m == FromPrd(r)
           n == WithGates(m, ledger)
<1>1. s = WithBlocks(n)
  BY Zenon DEF Synced
<1>2. ledger \in [Gates -> [Seats -> Entries]]
  BY DEF Inv, TypeOK
<1>3. Sound(m, OnBranch) /\ Ordered(m, OnBranch)
  BY FromPrdSound, FromPrdOrdered DEF Sound
<1> HIDE DEF m
<1>4. Sound(n, OnBranch) /\ Ordered(n, OnBranch)
  BY <1>2, <1>3, WithGatesSound, WithGatesOrdered
<1> HIDE DEF n
<1> QED
  BY <1>1, <1>4, WithBlocksOrdered DEF Sound

LEMMA FromCommitsOrdered ==
  ASSUME NEW r \in Registries, Ordered(r, OnBranch), OnBranch \subseteq Work,
         NEW opened \in SUBSET Phase(r)
  PROVE  Ordered(FromCommits(r, opened), OnBranch)
<1> DEFINE m == FromCommits(r, opened)
<1>1. \A t \in Tasks : m.st[t] = r.st[t] \/ (m.st[t] = "merged" /\ r.st[t] # "absent")
  BY DEF FromCommits, Phase, Reconcilable
<1>2. m.ext \subseteq r.ext \cup OnBranch
  BY DEF FromCommits
<1>3. Work \subseteq Tasks /\ Gates \subseteq Tasks
  BY QueueAssumption DEF Work
<1> HIDE DEF m
<1>4. Ordered(m, OnBranch)
  BY <1>1, <1>2, <1>3 DEF Ordered, Open, Active
<1> QED
  BY <1>4 DEF m

LEMMA AtStartupOrdered ==
  ASSUME Inv, InOrder, NEW r, Sound(r, OnBranch), Ordered(r, OnBranch), NEW s \in AtStartup(r)
  PROVE  Ordered(s, OnBranch)
<1> DEFINE Read(x) == {FromCommits(x, opened) : opened \in SUBSET Phase(x)}
<1>1. PICK n \in UNION {Read(x) : x \in Synced(r)} : s \in Reconciled(n)
  <2> HIDE DEF Read
  <2>1. s \in UNION {Reconciled(n) : n \in UNION {Read(x) : x \in Synced(r)}}
    BY Zenon DEF AtStartup, Read
  <2> QED
    BY <2>1
<1>2. PICK x \in Synced(r) : n \in Read(x)
  <2> HIDE DEF Read
  <2> QED
    BY <1>1
<1>3. PICK opened \in SUBSET Phase(x) : n = FromCommits(x, opened)
  BY <1>2
<1>4. Fit(x) /\ Ordered(x, OnBranch)
  BY InvSettled, SyncedFit, SyncedOrdered
<1>5. Fit(n) /\ Ordered(n, OnBranch)
  BY <1>3, <1>4, FromCommitsFit, FromCommitsOrdered DEF Fit, Sound, InOrder
<1>6. s = n \/ s = WithBlocks(WithGates(n, ledger))
  BY <1>1 DEF Reconciled
<1>7. ledger \in [Gates -> [Seats -> Entries]]
  BY DEF Inv, TypeOK
<1>8. Sound(WithGates(n, ledger), OnBranch) /\ Ordered(WithGates(n, ledger), OnBranch)
  BY <1>5, <1>7, WithGatesSound, WithGatesOrdered DEF Fit
<1> QED
  BY <1>5, <1>6, <1>8, WithBlocksOrdered DEF Sound

\* A task moves on, or is put back; only a ready task comes to be at work.
LEMMA MovedOrdered ==
  ASSUME NEW branch, NEW r \in Registries, Ordered(r, branch), NEW t \in Work,
         r.st[t] # "absent", NEW s \in States \ Open,
         s \in Active => Before(t) \subseteq branch
  PROVE  Ordered(Moved(r, t, s), branch)
<1> DEFINE m == Moved(r, t, s)
<1>1. Work \subseteq Tasks /\ Gates \subseteq Tasks /\ Gates \cap Work = {}
  BY QueueAssumption DEF Work
<1>2. m.ext = r.ext /\ \A u \in Tasks : m.st[u] = IF u = t THEN s ELSE r.st[u]
  BY DEF Moved, Registries
<1> HIDE DEF m
<1>3. Ordered(m, branch)
  BY <1>1, <1>2 DEF Ordered
<1> QED
  BY <1>3 DEF m

LEMMA NotesOrdered ==
  ASSUME NEW branch, NEW r \in Registries, Ordered(r, branch), NEW att, NEW ok
  PROVE  /\ Ordered([r EXCEPT !.att = att], branch)
         /\ Ordered([r EXCEPT !.ok = ok], branch)
<1>1. /\ [r EXCEPT !.att = att].st = r.st /\ [r EXCEPT !.att = att].ext = r.ext
      /\ [r EXCEPT !.ok = ok].st = r.st /\ [r EXCEPT !.ok = ok].ext = r.ext
  BY DEF Registries
<1> QED
  BY <1>1 DEF Ordered

LEMMA ReadyRests ==
  ASSUME Inv, InOrder, NEW t \in Work, Ready(registry, t)
  PROVE  Before(t) \subseteq OnBranch
<1>1. /\ Deps[t] \subseteq Satisfied(registry) \cup External(registry)
      /\ registry.st[t] = "todo"
  BY DEF Ready
<1>2. Sound(registry, OnBranch) /\ Ordered(registry, OnBranch) /\ OnBranch \subseteq Work
  BY DEF Inv, Stored, InOrder
<1>3. External(registry) \subseteq OnBranch
  BY <1>2 DEF External, Ordered
<1>4. ASSUME NEW d \in Work, d \in Deps[t]
      PROVE  d \in OnBranch
  BY <1>1, <1>2, <1>3, <1>4, SatisfiedIs
<1>5. ASSUME NEW d \in Work, PrdOf[d] < PrdOf[t]
      PROVE  d \in OnBranch
  BY <1>1, <1>2, <1>5 DEF Ordered, Work
<1>6. ASSUME NEW d \in Work, NEW g \in Gates \cap Deps[t], d \in Deps[g]
      PROVE  d \in OnBranch
  <2>1. g \notin OnBranch
    BY <1>2 DEF Work
  <2>2. g \in Satisfied(registry)
    BY <1>1, <1>3, <2>1
  <2>3. registry.st[g] = "approved"
    BY <1>2, <2>2, QueueAssumption DEF Satisfied, DeliveredIn, Sound, Work
  <2> QED
    BY <1>2, <1>6, <2>3 DEF Ordered
<1> QED
  BY <1>4, <1>5, <1>6 DEF Before

LEMMA TaskStepOrdered ==
  ASSUME Inv, InOrder, NEW t \in Work,
         Perform(t) \/ Queue(t) \/ Record(t) \/ Fail(t) \/ Ghost(t) \/ Pick(t)
  PROVE  Ordered(registry', OnBranch)
<1>1. /\ registry \in Registries /\ Ordered(registry, OnBranch)
      /\ registry.st[t] \in Active => Before(t) \subseteq OnBranch
  BY TaskFacts DEF InOrder, Ordered
<1>2. CASE Perform(t)
  <2> DEFINE m == Moved(registry, t, "phase")
  <2>1. CASE registry.st[t] = "working"
    <3>1. Ordered(m, OnBranch)
      BY <1>1, <2>1, MovedOrdered DEF States, Active, Open
    <3>2. m \in Registries
      BY TaskFacts, MovedSound DEF States, Active, Sound
    <3>3. PICK v \in {"none", "accepted", "rejected"} :
            /\ registry' = WithBlocks(Performed(t, v))
            /\ Performed(t, v) =
                 [m EXCEPT !.ok = IF v = "accepted" THEN @ \cup {t} ELSE @ \ {t}]
      BY <1>2, <2>1 DEF Perform, Performed
    <3>4. m.ok \cup {t} \in SUBSET Tasks /\ m.ok \ {t} \in SUBSET Tasks
      BY <3>2, RegistryParts, TaskFacts
    <3> HIDE DEF m
    <3>5. Performed(t, v) \in Registries /\ Ordered(Performed(t, v), OnBranch)
      BY <3>1, <3>2, <3>3, <3>4, NotesOrdered DEF Registries
    <3> QED
      BY <3>3, <3>5, WithBlocksOrdered
  <2>2. CASE registry.st[t] # "working"
    BY <1>1, <1>2, <2>2, WithBlocksOrdered DEF Perform, Performed
  <2> QED
    BY <2>1, <2>2
<1>3. CASE Queue(t)
  BY <1>1, <1>3, MovedOrdered DEF Queue, States, Active, Open
<1>4. CASE Record(t)
  <2> DEFINE m == Moved(registry, t, "merged")
  <2>1. Ordered(m, OnBranch)
    BY <1>1, <1>4, MovedOrdered DEF Record, States, Active, Open
  <2>2. m \in Registries
    BY <1>4, TaskFacts, MovedSound DEF Record, States, Sound
  <2>3. Merged(t) = [m EXCEPT !.att = @ \ {t}] /\ registry' = WithBlocks(Merged(t))
    BY <1>4 DEF Record, Merged
  <2> HIDE DEF m
  <2>4. Merged(t) \in Registries /\ Ordered(Merged(t), OnBranch)
    BY <2>1, <2>2, <2>3, NotesOrdered DEF Registries
  <2> QED
    BY <2>3, <2>4, WithBlocksOrdered
<1>5. CASE Fail(t) \/ Ghost(t)
  <2>0. PICK r \in Dropped(t, {"todo", "blocked"}) : registry' = r \/ registry' = WithBlocks(r)
    BY <1>5, GivenUp
  <2>1. PICK s \in {"todo", "blocked"}, kept \in SUBSET ({t} \cap registry.att) :
          r = [Moved(registry, t, s) EXCEPT !.att = (@ \ {t}) \cup kept]
    BY DroppedIs
  <2> DEFINE m == Moved(registry, t, s)
  <2>2. registry.st[t] # "absent"
    BY <1>5 DEF Fail, Ghost
  <2>3. Ordered(m, OnBranch)
    BY <1>1, <2>2, MovedOrdered DEF States, Active, Open
  <2>4. m \in Registries
    BY TaskFacts, MovedSound DEF States, Sound
  <2>5. (m.att \ {t}) \cup kept \in SUBSET Tasks
    BY <2>4, RegistryParts, TaskFacts
  <2>6. r = [m EXCEPT !.att = (@ \ {t}) \cup kept]
    BY <2>1
  <2> HIDE DEF m
  <2>7. r \in Registries /\ Ordered(r, OnBranch)
    BY <2>3, <2>4, <2>5, <2>6, NotesOrdered DEF Registries
  <2> QED
    BY <2>0, <2>7, WithBlocksOrdered
<1>6. CASE Pick(t)
  <2> DEFINE m == Moved(registry, t, "working")
  <2>1. Ready(registry, t) /\ registry' = [m EXCEPT !.att = @ \cup {t}]
    BY <1>6 DEF Pick
  <2>2. Ordered(m, OnBranch)
    BY <1>1, <2>1, ReadyRests, MovedOrdered DEF Ready, States, Active, Open
  <2>3. m \in Registries
    BY TaskFacts, MovedSound DEF States, Active, Sound
  <2> HIDE DEF m
  <2> QED
    BY <2>1, <2>2, <2>3, NotesOrdered
<1> QED
  BY <1>2, <1>3, <1>4, <1>5, <1>6

LEMMA DecideOrdered ==
  ASSUME Inv, InOrder, NEW g \in Gates, NEW seat \in Seats, NEW what \in Says,
         Decide(g, seat, what)
  PROVE  \A i \in 1..Len(cli') : Ordered(cli'[i], OnBranch)
<1> DEFINE read == WithGates(registry, ledger)
           m == WithGates(read, ledger')
<1>1. ledger \in [Gates -> [Seats -> Entries]] /\ ledger' \in [Gates -> [Seats -> Entries]]
  BY DecideKeeps DEF Inv, TypeOK
<1>2. cli' = <<WithBlocks(m)>>
  BY DEF Decide
<1>3. Sound(read, OnBranch) /\ Ordered(read, OnBranch)
  BY <1>1, TaskFacts, WithGatesSound, WithGatesOrdered DEF InOrder
<1> HIDE DEF read
<1>4. Sound(m, OnBranch) /\ Ordered(m, OnBranch)
  BY <1>1, <1>3, WithGatesSound, WithGatesOrdered
<1> HIDE DEF m
<1>5. Ordered(WithBlocks(m), OnBranch)
  BY <1>4, WithBlocksOrdered DEF Sound
<1> QED
  BY <1>2, <1>5

\* A step that leaves the branch alone, and the registry in order.
LEMMA StillInOrder ==
  ASSUME InOrder, rev' = rev, Ordered(registry', OnBranch),
         \A i \in 1..Len(cli') : Ordered(cli'[i], OnBranch)
  PROVE  InOrder'
<1>1. OnBranch' = OnBranch
  BY DEF OnBranch
<1> QED
  BY <1>1 DEF InOrder

LEMMA BranchInOrder ==
  ASSUME Inv, InOrder, NEW t \in Work, Publish(t) \/ Revise(t)
  PROVE  InOrder' /\ registry' = registry
<1>1. rev \in [Tasks -> Nat] /\ t \in Tasks
  BY TaskFacts
<1>2. rev' = rev \/ rev' = [rev EXCEPT ![t] = @ + 1]
  BY DEF Publish, Revise
<1>3. OnBranch \subseteq OnBranch' /\ OnBranch' \subseteq OnBranch \cup {t}
  BY <1>1, <1>2 DEF OnBranch
<1>4. registry' = registry /\ cli' = cli
  BY DEF Publish, Revise
<1> QED
  BY <1>3, <1>4, OrderedGrows DEF InOrder

\* The order is kept, and no step changes the branch and the registry at once.
LEMMA StepInOrder ==
  Inv /\ InOrder /\ [Next]_vars => InOrder' /\ (registry' = registry \/ rev' = rev)
<1> SUFFICES ASSUME Inv, InOrder, [Next]_vars
             PROVE  InOrder' /\ (registry' = registry \/ rev' = rev)
  OBVIOUS
<1>1. Sound(registry, OnBranch) /\ Ordered(registry, OnBranch)
  BY TaskFacts DEF InOrder
<1>2. CASE \E t \in Work : Publish(t) \/ Revise(t)
  BY <1>2, BranchInOrder
<1>3. ASSUME NEW t \in Work,
             Perform(t) \/ Queue(t) \/ Record(t) \/ Fail(t) \/ Ghost(t) \/ Pick(t)
      PROVE  InOrder' /\ rev' = rev
  <2>1. rev' = rev /\ cli' = cli
    BY <1>3 DEF Perform, Queue, Record, Fail, Ghost, Pick, Keep, gitVars
  <2> QED
    BY <1>3, <2>1, TaskStepOrdered, StillInOrder DEF InOrder
<1>4. CASE OpenEntry
  <2>1. rev' = rev /\ cli' = cli
    BY <1>4 DEF OpenEntry, Keep, gitVars
  <2>2. DeliveredIn(registry) \subseteq OnBranch
    BY <1>1 DEF DeliveredIn, Sound
  <2>3. registry'.st = registry.st /\ registry'.ext = registry.ext \cup DeliveredIn(registry)
    BY <1>1, <1>4 DEF OpenEntry, Sound, Registries
  <2>4. Ordered(registry', OnBranch)
    BY <1>1, <2>2, <2>3 DEF Ordered
  <2> QED
    BY <2>1, <2>4, StillInOrder DEF InOrder
<1>5. CASE Recover
  <2>1. rev' = rev /\ cli' = cli /\ registry' \in AtStartup(registry)
    BY <1>5 DEF Recover, Keep, gitVars
  <2>2. Ordered(registry', OnBranch)
    BY <1>1, <2>1, AtStartupOrdered
  <2> QED
    BY <2>1, <2>2, StillInOrder DEF InOrder
<1>6. CASE Cycle
  <2>1. rev' = rev /\ cli' = cli /\ registry' \in Synced(registry)
    BY <1>6 DEF Cycle, Keep, gitVars
  <2>2. Ordered(registry', OnBranch)
    BY <1>1, <2>1, SyncedOrdered
  <2> QED
    BY <2>1, <2>2, StillInOrder DEF InOrder
<1>7. CASE SaveDecision
  <2>1. cli # <<>> /\ registry' = cli[1] /\ cli' = <<>> /\ rev' = rev /\ cli \in Seq(Registries)
    BY <1>7 DEF SaveDecision, gitVars, Inv, TypeOK
  <2>2. 1 \in 1..Len(cli) /\ Len(cli') = 0
    BY <2>1
  <2> QED
    BY <2>1, <2>2, StillInOrder DEF InOrder
<1>8. CASE \E g \in Gates, seat \in Seats, what \in Says : Decide(g, seat, what)
  <2>1. registry' = registry /\ rev' = rev
    BY <1>8 DEF Decide, gitVars
  <2>2. \A i \in 1..Len(cli') : Ordered(cli'[i], OnBranch)
    BY <1>8, DecideOrdered
  <2> QED
    BY <1>1, <2>1, <2>2, StillInOrder
<1>9. ASSUME UNCHANGED <<registry, rev, cli>>
      PROVE  InOrder' /\ rev' = rev
  BY <1>1, <1>9, StillInOrder DEF InOrder
<1>10. CASE Launch \/ ChangedFile \/ UnsafeRegistry \/ Mark \/ Judge \/ Deliver \/ Advance
  <2>1. UNCHANGED <<registry, rev, cli>>
    BY <1>10 DEF Launch, ChangedFile, UnsafeRegistry, Mark, Judge, Deliver, Advance,
                 FailEntry, Keep, gitVars
  <2> QED
    BY <1>9, <2>1
<1>11. CASE StartRun \/ StopRun \/ Dispatch \/ Picked \/ Finish \/ Again
  <2>1. UNCHANGED <<registry, rev, cli>>
    BY <1>11 DEF StartRun, StopRun, Dispatch, Picked, Finish, Again, EndRun, Keep, gitVars
  <2> QED
    BY <1>9, <2>1
<1>12. CASE \E t \in Work : Misplaced(t)
  <2>1. UNCHANGED <<registry, rev, cli>>
    BY <1>12 DEF Misplaced, EndRun, Keep, gitVars
  <2> QED
    BY <1>9, <2>1
<1>13. CASE \/ \E kind \in {"draining", "graceful_stopping", "force_stopping"} : Stop(kind)
            \/ Interrupt \/ Crash \/ Reset
            \/ \E i \in Prds : Edit(i)
            \/ \E g \in Gates, seat \in Seats : Age(g, seat)
  <2>1. UNCHANGED <<registry, rev, cli>>
    BY <1>13 DEF Stop, Interrupt, Crash, Reset, Edit, Age, EndRun, Keep, gitVars
  <2> QED
    BY <1>9, <2>1
<1>14. CASE UNCHANGED vars
  BY <1>9, <1>14 DEF vars
<1>15. [Next]_vars
  OBVIOUS
<1>16. CASE \E t \in Work : OneTask(t)
  BY <1>2, <1>3, <1>12, <1>16 DEF OneTask, Moves
<1>17. CASE Outside
  BY <1>2, <1>7, <1>8, <1>13, <1>17 DEF Outside
<1> QED
  BY <1>4, <1>5, <1>6, <1>10, <1>11, <1>14, <1>15, <1>16, <1>17 DEF Next, Queued, Running

LEMMA InitInOrder == Init => InOrder
<1> SUFFICES ASSUME Init PROVE InOrder
  OBVIOUS
<1>1. OnBranch = {} /\ cli = <<>>
  BY DEF Init, OnBranch
<1>2. registry.ext = {} /\ \A t \in Tasks : registry.st[t] = "absent"
  BY DEF Init
<1>3. Work \subseteq Tasks /\ Gates \subseteq Tasks
  BY QueueAssumption DEF Work
<1> QED
  BY <1>1, <1>2, <1>3 DEF InOrder, Ordered, Open, Active

-----------------------------------------------------------------------------
(* Verdicts: as long as nobody decides, no task is done twice, and what    *)
(* the registry says of a verdict is what the branch says.                 *)

Present(r) == {t \in Tasks : r.st[t] # "absent"}

\* A registry holds the tasks of one PRD, or of none yet.
OfOne(r) == Present(r) = {} \/ \E i \in Prds : Present(r) = {t \in Tasks : PrdOf[t] = i}

\* The verdict of a task, before its merge and after.
Spoken(r, t) ==
  /\ r.st[t] \in {"phase", "queued"} =>
       draft[t] = IF t \in r.ok THEN "accepted" ELSE "rejected"
  /\ r.st[t] = "merged" /\ t \in r.ok => judged[t] = "accepted"

\* A task that is on the branch is merged, or it is queued and a loop that runs knows.
Judges(t) ==
  LET s == registry.st[t] IN
  /\ (t \in jobs => s = "working") /\ (t \in merging => s = "queued")
  /\ t \in OnBranch =>
       s \in {"absent", "merged"} \/ (s = "queued" /\ (pc \in Loop => t \in landed))
  /\ t \in Judged =>
       /\ Spoken(registry, t)
       /\ t \in OnBranch => judged[t] # "none"
       /\ t \in landed => judged[t] = draft[t]

Nobody == [g \in Gates |-> [s \in Seats |-> Silent]]

Passed(t) == PrdOf[t] <= progress.next \/ (pc = "advance" /\ t \in Own)

Judging ==
  /\ cli = <<>> /\ ledger = Nobody
  /\ OfOne(registry) /\ (pc \in Loop => Present(registry) = Own)
  /\ (pc \notin Loop => jobs = {} /\ merging = {})
  /\ \A t \in Work : Judges(t)
  /\ \A t \in Judged : Passed(t) => judged[t] = "accepted"

\* Registries that differ in gates and blocks only.
SameWork(r, s) ==
  /\ s.ok = r.ok /\ Present(s) = Present(r)
  /\ \A t \in Work : s.st[t] = r.st[t] \/ {s.st[t], r.st[t]} \subseteq {"todo", "depblocked"}

-----------------------------------------------------------------------------
LEMMA WithBlocksSame ==
  ASSUME NEW r \in Registries
  PROVE  SameWork(r, WithBlocks(r)) /\ WithBlocks(r) \in Registries
<1>1. WithBlocks(r).ok = r.ok
  BY DEF WithBlocks, Registries
<1>2. \A t \in Tasks : WithBlocks(r).st[t] = "absent" <=> r.st[t] = "absent"
  BY WithBlocksIs
<1> QED
  BY <1>1, <1>2, WithBlocksIs DEF SameWork, Present, Work

LEMMA WithGatesSame ==
  ASSUME NEW r \in Registries, ledger \in [Gates -> [Seats -> Entries]]
  PROVE  SameWork(r, WithGates(r, ledger)) /\ WithGates(r, ledger) \in Registries
<1> DEFINE m == WithGates(r, ledger)
<1>1. m.ok = r.ok
  BY DEF WithGates, Registries
<1>2. Gates \subseteq Tasks /\ r.st \in [Tasks -> States]
  BY QueueAssumption DEF Registries
<1>3. \A g \in Gates : r.st[g] = "absent" => m.st[g] = "absent"
  BY <1>2 DEF WithGates, Registries
<1>4. \A t \in Tasks : m.st[t] = "absent" <=> r.st[t] = "absent"
  BY <1>3, WithGatesIs DEF Open
<1> QED
  BY <1>1, <1>4, WithGatesIs DEF SameWork, Present, Work

LEMMA SameWorkSpoken ==
  ASSUME NEW r, NEW s, SameWork(r, s), NEW t \in Work, Spoken(r, t)
  PROVE  Spoken(s, t)
BY DEF SameWork, Spoken

\* Nobody is stuck where nothing is given up, rejected or merged.
LEMMA NobodyStuck ==
  ASSUME NEW r, \A d \in Tasks : r.st[d] \notin {"blocked", "rejected", "merged"}
  PROVE  Stuck(r) = {}
<1> DEFINE Root(d) == r.st[d] \in {"blocked", "rejected"}
                        \/ (r.st[d] = "merged" /\ ~Accepted(r, d))
           Step(f) == [t \in Tasks |-> \E d \in Deps[t] :
                         r.st[d] # "absent" /\ d \notin Satisfied(r) /\ (Root(d) \/ f[d])]
           stuck == CHOOSE f : f = Step(f)
<1>1. Stuck(r) = {t \in Tasks : stuck[t]}
  BY DEF Stuck
<1>2. \A t \in Tasks : Deps[t] \subseteq Tasks
  BY QueueAssumption
<1>3. \A d \in Tasks : ~Root(d)
  OBVIOUS
<1>4. \E f : f = Step(f)
  <2> DEFINE none == [t \in Tasks |-> FALSE]
  <2>1. none = Step(none)
    BY <1>2, <1>3
  <2> QED
    BY <2>1
<1>5. stuck = Step(stuck)
  BY <1>4
<1> HIDE DEF stuck
<1>6. \A t \in Tasks : stuck[t] => \E d \in Deps[t] : stuck[d]
  BY <1>2, <1>3, <1>5
<1>7. \A t \in Tasks : ~stuck[t]
  <2> DEFINE group == {t \in Tasks : stuck[t]}
  <2> SUFFICES ASSUME group # {} PROVE FALSE
    OBVIOUS
  <2>1. PICK t \in group : Deps[t] \cap group = {}
    BY OrderAssumption
  <2> QED
    BY <1>2, <1>6, <2>1
<1> QED
  BY <1>1, <1>7

\* A gate on which nobody has decided has no rejection.
LEMMA SilentGates ==
  ASSUME NEW g \in Gates, NEW rv
  PROVE  Verdict(g, Nobody[g], rv) # "rejected"
<1>1. \A s \in Seats : Nobody[g][s].says = "none"
  BY DEF Nobody, Silent
<1>2. Saying(Nobody[g], Live(g, Nobody[g], rv), "reject") = {}
  BY <1>1 DEF Saying, Live, Bound
<1> QED
  BY <1>2 DEF Verdict

-----------------------------------------------------------------------------
(* Reading the registry at the start of a run and of a cycle.              *)

\* What a sync makes of the tasks that are on the branch.
Legible(r) ==
  /\ r \in Registries /\ Present(r) = Own
  /\ \A t \in Work \cap OnBranch : r.st[t] \in {"absent", "todo", "queued", "merged"}
  /\ \A t \in Judged : Spoken(r, t)

LEMMA SameWorkKept ==
  ASSUME NEW r, NEW s, NEW u, SameWork(r, s), SameWork(s, u)
  PROVE  SameWork(r, u)
BY DEF SameWork

LEMMA SyncedSame ==
  ASSUME Judging, Inv, NEW s \in Synced(registry)
  PROVE  SameWork(FromPrd(registry), s) /\ s \in Registries
<1>1. s = WithBlocks(WithGates(FromPrd(registry), ledger))
  BY Zenon DEF Synced
<1>2. registry \in Registries /\ ledger \in [Gates -> [Seats -> Entries]]
  BY DEF Inv, TypeOK
<1>3. FromPrd(registry) \in Registries
  BY <1>2, FromPrdIs
<1> QED
  BY <1>1, <1>2, <1>3, WithGatesSame, WithBlocksSame, SameWorkKept

\* The tasks of the PRD are all known,
LEMMA KnownSynced ==
  ASSUME Judging, Inv, Present(registry) = Own
  PROVE  /\ FromPrd(registry).st = registry.st
         /\ \A t \in Own : t \in FromPrd(registry).ok <=> t \in registry.ok
<1>1. registry \in Registries
  BY DEF Inv, TypeOK
<1>2. \A t \in Tasks : t \in Own <=> registry.st[t] # "absent"
  BY DEF Present
<1>3. FromPrd(registry).st = [t \in Tasks |-> registry.st[t]]
  BY <1>2 DEF FromPrd
<1> QED
  BY <1>1, <1>3 DEF FromPrd, Registries, Own

\* or all new. 
LEMMA NewSynced ==
  ASSUME Judging, Inv, Present(registry) \cap Own = {}, NEW s \in Synced(registry)
  PROVE  \A t \in Work \cap Own : s.st[t] = "todo"
<1> DEFINE r == FromPrd(registry)
           m == WithGates(r, ledger)
<1>1. s = WithBlocks(m)
  BY Zenon DEF Synced
<1>2. registry \in Registries /\ ledger \in [Gates -> [Seats -> Entries]] /\ ledger = Nobody
  BY DEF Inv, TypeOK, Judging
<1>3. \A t \in Own : registry.st[t] = "absent"
  BY DEF Present, Own
<1>4. r \in Registries /\ r.st = [t \in Tasks |-> IF t \in Own THEN "todo" ELSE "absent"]
  BY <1>2, <1>3, FromPrdIs DEF FromPrd
<1> HIDE DEF r
<1>5. m \in Registries /\ \A t \in Tasks \ Gates : m.st[t] = r.st[t]
  BY <1>2, <1>4, WithGatesIs
<1>6. \A g \in Gates : m.st[g] \notin {"blocked", "rejected", "merged"}
  <2> SUFFICES ASSUME NEW g \in Gates PROVE m.st[g] \notin {"blocked", "rejected", "merged"}
    OBVIOUS
  <2>1. r.st[g] \in {"todo", "absent"}
    BY <1>4, QueueAssumption
  <2>2. Verdict(g, ledger[g], rev[Subject[g]]) \in Open \ {"rejected"}
    BY <1>2, SilentGates, VerdictIs
  <2>3. \/ m.st[g] \in {r.st[g], "todo"}
        \/ m.st[g] = Verdict(g, ledger[g], rev[Subject[g]])
    BY <1>2, <1>4, WithGatesIs
  <2> QED
    BY <2>1, <2>2, <2>3 DEF Open
<1>7. Stuck(m) = {}
  BY <1>4, <1>5, <1>6, NobodyStuck
<1> HIDE DEF m
<1>8. \A t \in Tasks : m.st[t] = "todo" => s.st[t] = "todo"
  BY <1>1, <1>5, <1>7 DEF WithBlocks, Registries
<1> QED
  BY <1>4, <1>5, <1>8 DEF Work

LEMMA SyncedRead ==
  ASSUME Judging, Inv, NEW s \in Synced(registry)
  PROVE  Legible(s)
<1>0. /\ registry \in Registries /\ progress.next \in 0..Last
      /\ Judged \subseteq Work /\ Work \subseteq Tasks
  BY QueueAssumption DEF Inv, TypeOK, Work
<1>1. SameWork(FromPrd(registry), s) /\ s \in Registries
  BY SyncedSame
<1>2. Present(s) = Own
  <2>1. \A t \in Tasks : FromPrd(registry).st[t] # "absent" <=> t \in Own
    BY DEF FromPrd
  <2> QED
    BY <1>1, <2>1 DEF SameWork, Present, Own
<1>3. CASE Present(registry) = Own
  <2>1. \A t \in Tasks :
          \/ s.st[t] = registry.st[t] \/ t \notin Work
          \/ {s.st[t], registry.st[t]} \subseteq {"todo", "depblocked"}
    BY <1>1, <1>3, KnownSynced DEF SameWork
  <2>2. \A t \in Work \cap OnBranch : registry.st[t] \in {"absent", "merged", "queued"}
    BY DEF Judging, Judges
  <2>3. ASSUME NEW t \in Judged
        PROVE  Spoken(s, t)
    <3>1. Spoken(registry, t)
      BY <1>0 DEF Judging, Judges
    <3>2. CASE t \in Own
      BY <1>0, <1>1, <1>3, <2>1, <3>1, <3>2, KnownSynced DEF SameWork, Spoken
    <3>3. CASE t \notin Own
      BY <1>0, <1>2, <3>3 DEF Present, Spoken
    <3> QED
      BY <3>2, <3>3
  <2> QED
    BY <1>0, <1>1, <1>2, <2>1, <2>2, <2>3 DEF Legible
<1>4. CASE Present(registry) \cap Own = {}
  <2>1. \A t \in Work : s.st[t] = IF t \in Own THEN "todo" ELSE "absent"
    BY <1>0, <1>2, <1>4, NewSynced DEF Present
  <2> QED
    BY <1>0, <1>1, <1>2, <2>1 DEF Legible, Spoken
<1>5. Present(registry) = Own \/ Present(registry) \cap Own = {}
  BY DEF Judging, OfOne, Own
<1> QED
  BY <1>3, <1>4, <1>5

\* What a run starts with: each task on the branch is merged.
LEMMA CommitsRead ==
  ASSUME Judging, Inv, NEW x, Legible(x), Sound(x, OnBranch), NEW opened \in SUBSET Phase(x)
  PROVE  LET y == FromCommits(x, opened) IN
         Legible(y) /\ \A t \in Work \cap OnBranch : y.st[t] \in {"absent", "merged"}
<1> DEFINE found == {t \in OnBranch \ Gates : x.st[t] \in Reconcilable}
                      \cup (OnBranch \cap opened)
           y == FromCommits(x, opened)
<1>1. /\ y.st = [t \in Tasks |-> IF t \in found THEN "merged" ELSE x.st[t]]
      /\ y.ok = (x.ok \ {t \in found : judged[t] = "rejected"})
                  \cup {t \in found : judged[t] = "accepted"}
  BY DEF FromCommits
<1>2. opened \subseteq Tasks /\ \A t \in opened : x.st[t] = "phase"
  BY DEF Phase
<1>3. OnBranch \subseteq Tasks /\ Work = Tasks \ Gates /\ Judged \subseteq Work
  BY QueueAssumption DEF OnBranch, Work
<1>4. \A t \in OnBranch \cap Work : t \in found <=> x.st[t] \in {"todo", "queued"}
  BY <1>2, <1>3 DEF Legible, Reconcilable
<1>5. found \subseteq OnBranch /\ \A t \in found : x.st[t] # "absent"
  BY <1>2 DEF Reconcilable
<1>6. y \in Registries
  <2>1. /\ y.ok \subseteq Tasks
        /\ y.st \in [Tasks -> States]
    BY <1>1, <1>3, <1>5, RegistryParts DEF Legible, States
  <2>2. y = [st |-> y.st, att |-> x.att \ found, ok |-> y.ok,
             ext |-> x.ext \cup {t \in OnBranch : x.st[t] = "absent"}]
    BY DEF FromCommits
  <2>3. x.att \subseteq Tasks /\ x.ext \subseteq Tasks
    BY RegistryParts DEF Legible
  <2> HIDE DEF y, found
  <2>4. /\ x.att \ found \in SUBSET Tasks
        /\ x.ext \cup {t \in OnBranch : x.st[t] = "absent"} \in SUBSET Tasks
    BY <1>3, <2>3
  <2> QED
    BY <2>1, <2>2, <2>4 DEF Registries
<1> HIDE DEF found, y
<1>7. Present(y) = Own
  BY <1>1, <1>5 DEF Present, Legible
<1>8. \A t \in Work \cap OnBranch : y.st[t] \in {"absent", "merged"}
  BY <1>1, <1>3, <1>4 DEF Legible
<1>9. ASSUME NEW t \in Judged
      PROVE  Spoken(y, t)
  <2>1. Spoken(x, t) /\ (t \in OnBranch => judged[t] # "none") /\ t \in Tasks
    BY <1>3 DEF Legible, Judging, Judges
  <2>2. judged[t] \in {"none", "accepted", "rejected"}
    BY <2>1 DEF Inv, TypeOK
  <2>3. CASE t \in found
    BY <1>1, <1>5, <2>1, <2>2, <2>3 DEF Spoken
  <2>4. CASE t \notin found
    BY <1>1, <2>1, <2>4 DEF Spoken
  <2> QED
    BY <2>3, <2>4
<1> QED
  BY <1>6, <1>7, <1>8, <1>9 DEF Legible, y

LEMMA StartupRead ==
  ASSUME Judging, Inv, NEW s \in AtStartup(registry)
  PROVE  Legible(s) /\ \A t \in Work \cap OnBranch : s.st[t] \in {"absent", "merged"}
<1> DEFINE Ends(x) == {FromCommits(x, opened) : opened \in SUBSET Phase(x)}
<1>0. Settled /\ Sound(registry, OnBranch) /\ ledger \in [Gates -> [Seats -> Entries]]
  BY InvSettled DEF Inv, Stored, TypeOK
<1>1. PICK n \in UNION {Ends(x) : x \in Synced(registry)} : s \in Reconciled(n)
  <2> HIDE DEF Ends
  <2>1. s \in UNION {Reconciled(n) : n \in UNION {Ends(x) : x \in Synced(registry)}}
    BY Zenon DEF AtStartup, Ends
  <2> QED
    BY <2>1
<1>2. PICK x \in Synced(registry) : n \in Ends(x)
  <2> HIDE DEF Ends
  <2> QED
    BY <1>1
<1>3. PICK opened \in SUBSET Phase(x) : n = FromCommits(x, opened)
  BY <1>2
<1>4. Legible(n) /\ \A t \in Work \cap OnBranch : n.st[t] \in {"absent", "merged"}
  BY <1>0, <1>3, SyncedFit, SyncedRead, CommitsRead DEF Fit
<1>5. SameWork(n, s) /\ s \in Registries
  <2>1. s = n \/ s = WithBlocks(WithGates(n, ledger))
    BY <1>1 DEF Reconciled
  <2>2. SameWork(n, n) /\ n \in Registries
    BY <1>4 DEF SameWork, Legible
  <2>3. /\ SameWork(n, WithGates(n, ledger)) /\ WithGates(n, ledger) \in Registries
        /\ WithBlocks(WithGates(n, ledger)) \in Registries
        /\ SameWork(WithGates(n, ledger), WithBlocks(WithGates(n, ledger)))
    BY <1>0, <2>2, WithGatesSame, WithBlocksSame
  <2> QED
    BY <2>1, <2>2, <2>3, SameWorkKept
<1>6. \A t \in Work \cap OnBranch : s.st[t] \in {"absent", "merged"}
  BY <1>4, <1>5 DEF SameWork
<1>7. \A t \in Judged : Spoken(s, t)
  BY <1>4, <1>5, SameWorkSpoken, QueueAssumption DEF Legible
<1> QED
  BY <1>4, <1>5, <1>6, <1>7 DEF Legible, SameWork

-----------------------------------------------------------------------------
(* The steps.                                                              *)

Evidence == <<rev, judged, draft, ledger, cli>>

\* Steps beside the loop, and within it those that read.
LEMMA QuietJudges ==
  ASSUME Judging, UNCHANGED Evidence, progress'.next = progress.next,
         registry'.st = registry.st, registry'.ok = registry.ok,
         UNCHANGED jobVars \/ (jobs' = {} /\ merging' = {} /\ landed' = {} /\ pc' \notin Loop),
         pc' \in Loop => pc \in Loop,
         pc \in Loop /\ pc' \notin Loop => jobs' = {} /\ merging' = {},
         pc' = "advance" => pc = "advance"
  PROVE  Judging'
<1>1. /\ UNCHANGED <<rev, judged, draft, ledger, cli>> /\ OnBranch' = OnBranch
      /\ Present(registry') = Present(registry) /\ Own' = Own
      /\ \A t : Spoken(registry, t) => Spoken(registry, t)'
  BY DEF Evidence, OnBranch, Present, Own, Current, Spoken
<1>2. \A t \in Work : Judges(t)'
  BY <1>1 DEF Judging, Judges, jobVars
<1>3. /\ pc' \in Loop => Present(registry') = Own'
      /\ pc' \notin Loop => jobs' = {} /\ merging' = {}
  BY <1>1 DEF Judging, jobVars
<1>4. \A t : Passed(t)' => Passed(t)
  BY <1>1 DEF Passed
<1> QED
  BY <1>1, <1>2, <1>3, <1>4 DEF Judging, OfOne

\* The loop reads the registry anew.
LEMMA ReadJudges ==
  ASSUME Judging, Inv, UNCHANGED Evidence, progress' = progress, UNCHANGED jobVars,
         Legible(registry'), pc \in Loop \cup {"recover"}, pc' \in Loop,
         \A t \in Work : t \in jobs => registry'.st[t] = "working",
         \A t \in Work : t \in merging => registry'.st[t] = "queued",
         \A t \in Work \cap OnBranch :
           registry'.st[t] \in {"absent", "merged"} \/ (registry'.st[t] = "queued" /\ t \in landed)
  PROVE  Judging'
<1>1. /\ UNCHANGED <<rev, judged, draft, ledger, cli>> /\ OnBranch' = OnBranch /\ Own' = Own
      /\ \A t : Spoken(registry', t) => Spoken(registry, t)'
      /\ UNCHANGED <<jobs, merging, landed>>
  BY DEF Evidence, OnBranch, Own, Current, Spoken, jobVars
<1>2. \A t \in Work : Judges(t)'
  BY <1>1 DEF Judging, Judges, Legible
<1>3. Present(registry') = Own'
  BY <1>1 DEF Legible
<1>4. OfOne(registry')
  <2>1. progress.next \in 0..Last
    BY DEF Inv, TypeOK
  <2>2. progress.next < Last
    BY DEF Inv, Walking, Loop
  <2>3. Current \in Prds
    BY <2>1, <2>2, QueueAssumption DEF Current, Prds
  <2> QED
    BY <1>1, <1>3, <2>3 DEF OfOne, Own
<1>5. \A t : Passed(t)' => Passed(t)
  BY <1>1 DEF Passed, Loop
<1> QED
  BY <1>1, <1>2, <1>3, <1>4, <1>5 DEF Judging

LEMMA RecoverJudges ==
  ASSUME Judging, Inv, Recover
  PROVE  Judging'
<1>1. /\ pc = "recover" /\ pc' = "cycle" /\ registry' \in AtStartup(registry)
      /\ UNCHANGED Evidence /\ UNCHANGED jobVars /\ progress' = progress
  BY DEF Recover, Evidence, Keep, gitVars
<1>2. Legible(registry') /\ \A t \in Work \cap OnBranch : registry'.st[t] \in {"absent", "merged"}
  BY <1>1, StartupRead
<1>3. jobs = {} /\ merging = {}
  BY <1>1 DEF Judging, Loop
<1> QED
  BY <1>1, <1>2, <1>3, ReadJudges DEF Loop

LEMMA CycleJudges ==
  ASSUME Judging, Inv, Cycle
  PROVE  Judging'
<1>1. /\ pc = "cycle" /\ pc' = "work" /\ registry' \in Synced(registry)
      /\ UNCHANGED Evidence /\ UNCHANGED jobVars /\ progress' = progress
  BY DEF Cycle, Evidence, Keep, gitVars
<1>2. Legible(registry') /\ SameWork(FromPrd(registry), registry')
  BY <1>1, SyncedRead, SyncedSame
<1>3. FromPrd(registry).st = registry.st
  BY <1>1, KnownSynced DEF Judging, Loop
<1>4. \A t \in Work : \/ registry'.st[t] = registry.st[t]
                      \/ {registry'.st[t], registry.st[t]} \subseteq {"todo", "depblocked"}
  BY <1>2, <1>3 DEF SameWork
<1>5. \A t \in Work : Judges(t)
  BY DEF Judging
<1>6. pc \in Loop \cup {"recover"} /\ pc' \in Loop /\ pc \in Loop
  BY <1>1 DEF Loop
<1>7. /\ \A t \in Work : t \in jobs => registry'.st[t] = "working"
      /\ \A t \in Work : t \in merging => registry'.st[t] = "queued"
  BY <1>4, <1>5 DEF Judges
<1>8. \A t \in Work \cap OnBranch :
        registry'.st[t] \in {"absent", "merged"} \/ (registry'.st[t] = "queued" /\ t \in landed)
  BY <1>4, <1>5, <1>6 DEF Judges
<1> QED
  BY <1>1, <1>2, <1>6, <1>7, <1>8, ReadJudges

\* A registry in which one task has been moved.
OnlyMoves(t, r) ==
  /\ r \in Registries
  /\ \A u \in Tasks \ {t} :
       r.st[u] = registry.st[u] /\ (u \in r.ok <=> u \in registry.ok)
  /\ r.st[t] # "absent" /\ registry.st[t] # "absent"

LEMMA OneTaskJudges ==
  ASSUME Judging, Inv, NEW t \in Work, NEW r, OnlyMoves(t, r), registry' \in {r, WithBlocks(r)},
         UNCHANGED <<progress, pc, rev, judged, ledger, cli>>, pc \in Loop,
         \A u \in Tasks \ {t} : /\ draft'[u] = draft[u] /\ (u \in jobs' <=> u \in jobs)
                               /\ (u \in merging' <=> u \in merging)
                               /\ (u \in landed' <=> u \in landed),
         t \in jobs' => r.st[t] = "working",
         t \in merging' => r.st[t] = "queued",
         t \in OnBranch => r.st[t] = "merged" \/ (r.st[t] = "queued" /\ t \in landed'),
         t \in Judged =>
           /\ r.st[t] \in {"phase", "queued"} =>
                draft'[t] = IF t \in r.ok THEN "accepted" ELSE "rejected"
           /\ r.st[t] = "merged" /\ t \in r.ok => judged[t] = "accepted"
           /\ t \in landed' => judged[t] = draft'[t]
  PROVE  Judging'
<1>0. Judged \subseteq Work /\ Work \subseteq Tasks
  BY QueueAssumption DEF Work
<1>1. SameWork(r, registry')
  BY WithBlocksSame DEF SameWork, OnlyMoves
<1>2. OnBranch' = OnBranch /\ Own' = Own /\ \A u : Passed(u)' <=> Passed(u)
  BY DEF OnBranch, Own, Current, Passed
<1>3. Present(registry') = Present(registry)
  BY <1>1 DEF SameWork, Present, OnlyMoves
<1>4. Judges(t)'
  BY <1>0, <1>1, <1>2 DEF Judges, Judging, Spoken, SameWork
<1>5. ASSUME NEW u \in Work, u # t
      PROVE  Judges(u)'
  <2>1. /\ registry'.st[u] = registry.st[u]
             \/ {registry'.st[u], registry.st[u]} \subseteq {"todo", "depblocked"}
        /\ u \in registry'.ok <=> u \in registry.ok
    BY <1>0, <1>1, <1>5 DEF SameWork, OnlyMoves
  <2>2. /\ draft'[u] = draft[u] /\ (u \in jobs' <=> u \in jobs)
        /\ (u \in merging' <=> u \in merging) /\ (u \in landed' <=> u \in landed)
    BY <1>0, <1>5
  <2>3. Judges(u)
    BY DEF Judging
  <2> QED
    BY <1>2, <2>1, <2>2, <2>3 DEF Judges, Spoken
<1>6. OfOne(registry') /\ Present(registry') = Own'
  BY <1>2, <1>3 DEF Judging, OfOne
<1> QED
  BY <1>2, <1>4, <1>5, <1>6 DEF Judging

LEMMA PerformJudges ==
  ASSUME Judging, Inv, NEW t \in Work, Perform(t)
  PROVE  Judging'
<1>1. PICK v : /\ v \in IF t \in Judged THEN {"accepted", "rejected"} ELSE {"none"}
               /\ draft' = [draft EXCEPT ![t] = v]
               /\ registry' = WithBlocks(Performed(t, v))
  BY DEF Perform
<1> DEFINE r == Performed(t, v)
<1>2. /\ pc = "work" /\ t \in jobs /\ jobs' = jobs \ {t} /\ pc \in Loop
      /\ UNCHANGED <<progress, pc, merging, landed, rev, judged, ledger, cli>>
  BY DEF Perform, KeepRun, Loop
<1>3. registry.st[t] = "working" /\ t \notin merging /\ t \notin OnBranch
  BY <1>2 DEF Judging, Judges
<1>4. /\ t \in Tasks /\ registry \in Registries
      /\ draft \in [Tasks -> {"none", "accepted", "rejected"}] /\ landed \subseteq merging
  BY TaskFacts
<1>5. /\ r.st = [registry.st EXCEPT ![t] = "phase"]
      /\ r.ok = IF v = "accepted" THEN registry.ok \cup {t} ELSE registry.ok \ {t}
  BY <1>3, <1>4 DEF Performed, Moved, Registries
<1>6. r \in Registries
  BY PerformedIs DEF Sound
<1> HIDE DEF r
<1>7. OnlyMoves(t, r)
  BY <1>3, <1>4, <1>5, <1>6 DEF OnlyMoves, Registries
<1>8. r.st[t] = "phase" /\ draft'[t] = v /\ \A u \in Tasks \ {t} : draft'[u] = draft[u]
  BY <1>1, <1>4, <1>5 DEF Registries
<1>9. t \in Judged => draft'[t] = IF t \in r.ok THEN "accepted" ELSE "rejected"
  BY <1>1, <1>5, <1>8
<1>10. registry' \in {r, WithBlocks(r)}
  BY <1>1 DEF r
<1> QED
  BY <1>2, <1>3, <1>4, <1>7, <1>8, <1>9, <1>10, OneTaskJudges

LEMMA QueueJudges ==
  ASSUME Judging, Inv, NEW t \in Work, Queue(t)
  PROVE  Judging'
<1> DEFINE r == Moved(registry, t, "queued")
<1>1. /\ pc = "work" /\ t \notin merging /\ registry.st[t] \in {"phase", "queued"} /\ pc \in Loop
      /\ registry' = r /\ merging' = merging \cup {t} /\ UNCHANGED <<jobs, landed>>
      /\ UNCHANGED <<progress, pc, rev, judged, draft, ledger, cli>>
  BY DEF Queue, KeepRun, Keep, gitVars, Loop
<1>2. t \in Tasks /\ registry \in Registries /\ landed \subseteq merging
  BY TaskFacts
<1>3. /\ r.st = [registry.st EXCEPT ![t] = "queued"] /\ r.ok = registry.ok
      /\ r \in Registries
  BY <1>1, <1>2, MovedSound, TaskFacts DEF Moved, Registries, States, Active, Sound
<1> HIDE DEF r
<1>4. Judges(t)
  BY DEF Judging
<1>5. OnlyMoves(t, r) /\ r.st[t] = "queued"
  BY <1>1, <1>2, <1>3 DEF OnlyMoves, Registries
<1>6. t \notin landed /\ t \notin jobs /\ t \notin OnBranch
  BY <1>1, <1>2, <1>4 DEF Judges
<1>7. t \in Judged => draft[t] = IF t \in r.ok THEN "accepted" ELSE "rejected"
  BY <1>1, <1>3, <1>4 DEF Judges, Spoken
<1> QED
  BY <1>1, <1>5, <1>6, <1>7, OneTaskJudges

LEMMA RecordJudges ==
  ASSUME Judging, Inv, NEW t \in Work, Record(t)
  PROVE  Judging'
<1> DEFINE r == Merged(t)
<1>1. /\ pc = "work" /\ t \in landed /\ registry' = WithBlocks(r) /\ pc \in Loop
      /\ merging' = merging \ {t} /\ landed' = landed \ {t}
      /\ UNCHANGED <<progress, pc, jobs, rev, judged, draft, ledger, cli>>
  BY DEF Record, KeepRun, Keep, gitVars, Loop
<1>2. t \in Tasks /\ registry \in Registries /\ landed \subseteq merging
  BY TaskFacts
<1>3. /\ r.st = [registry.st EXCEPT ![t] = "merged"] /\ r.ok = registry.ok
      /\ r \in Registries
  BY <1>2, MergedIs DEF Merged, Moved, Registries
<1> HIDE DEF r
<1>4. Judges(t) /\ t \in merging
  BY <1>1, <1>2 DEF Judging
<1>5. registry.st[t] = "queued" /\ t \notin jobs
  BY <1>4 DEF Judges
<1>6. OnlyMoves(t, r) /\ r.st[t] = "merged"
  BY <1>2, <1>3, <1>5 DEF OnlyMoves, Registries
<1>7. t \in Judged /\ t \in r.ok => judged[t] = "accepted"
  BY <1>1, <1>3, <1>4, <1>5 DEF Judges, Spoken
<1> QED
  BY <1>1, <1>5, <1>6, <1>7, OneTaskJudges

LEMMA DroppedJudges ==
  ASSUME Judging, Inv, NEW t \in Work, Fail(t) \/ Ghost(t)
  PROVE  Judging'
<1>1. PICK r \in Dropped(t, {"todo", "blocked"}) : registry' = r \/ registry' = WithBlocks(r)
  BY GivenUp
<1>2. PICK s \in {"todo", "blocked"}, kept \in SUBSET ({t} \cap registry.att) :
        r = [Moved(registry, t, s) EXCEPT !.att = (@ \ {t}) \cup kept]
  BY DroppedIs
<1>3. t \in Tasks /\ registry \in Registries /\ landed \subseteq merging
  BY TaskFacts
<1>4. /\ r.st = [registry.st EXCEPT ![t] = s] /\ r.ok = registry.ok /\ r \in Registries
  BY <1>2, <1>3, DroppedSound DEF Moved, Registries, Sound
<1>5. Judges(t)
  BY DEF Judging
<1>6. /\ pc = "work" /\ pc \in Loop
      /\ UNCHANGED <<progress, pc, landed, rev, judged, draft, ledger, cli>>
      /\ jobs' \in {jobs, jobs \ {t}} /\ merging' \in {merging, merging \ {t}}
  BY DEF Fail, Ghost, KeepRun, Keep, gitVars, jobVars, Loop
<1>7. /\ t \notin jobs' /\ t \notin merging' /\ t \notin landed
      /\ registry.st[t] \in {"working", "queued"}
  BY <1>3, <1>5 DEF Fail, Ghost, Judges, jobVars
<1>8. OnlyMoves(t, r) /\ r.st[t] \in {"todo", "blocked"}
  BY <1>3, <1>4, <1>7 DEF OnlyMoves, Registries
<1>9. t \notin OnBranch
  BY <1>5, <1>6, <1>7 DEF Judges
<1> QED
  BY <1>1, <1>6, <1>7, <1>8, <1>9, OneTaskJudges

LEMMA PickJudges ==
  ASSUME Judging, Inv, NEW t \in Work, Pick(t)
  PROVE  Judging'
<1> DEFINE m == Moved(registry, t, "working")
           r == [m EXCEPT !.att = @ \cup {t}]
<1>1. /\ pc = "pick" /\ registry.st[t] = "todo" /\ registry' = r /\ pc \in Loop
      /\ jobs' = jobs \cup {t} /\ UNCHANGED <<merging, landed>>
      /\ UNCHANGED <<progress, pc, rev, judged, draft, ledger, cli>>
  BY DEF Pick, Ready, KeepRun, Keep, gitVars, Loop
<1>2. t \in Tasks /\ registry \in Registries /\ landed \subseteq merging
  BY TaskFacts
<1>3. m \in Registries
  BY TaskFacts, MovedSound DEF States, Active, Sound
<1>4. r \in Registries /\ r.st = [registry.st EXCEPT ![t] = "working"] /\ r.ok = registry.ok
  BY <1>2, <1>3 DEF Moved, Registries
<1> HIDE DEF r
<1>5. Judges(t)
  BY DEF Judging
<1>6. t \notin merging /\ t \notin landed /\ t \notin OnBranch
  BY <1>1, <1>2, <1>5 DEF Judges
<1>7. OnlyMoves(t, r) /\ r.st[t] = "working"
  BY <1>1, <1>2, <1>4 DEF OnlyMoves, Registries
<1> QED
  BY <1>1, <1>6, <1>7, OneTaskJudges

\* A new commit carries the verdict of the work that is merged.
LEMMA PublishJudges ==
  ASSUME Judging, Inv, NEW t \in Work, Publish(t)
  PROVE  Judging'
<1>1. /\ t \in merging \ landed /\ landed' = landed \cup {t}
      /\ UNCHANGED <<progress, pc, registry, jobs, merging, draft, ledger, cli>>
  BY DEF Publish, KeepRun
<1>2. /\ t \in Tasks /\ rev \in [Tasks -> Nat]
      /\ judged \in [Tasks -> {"none", "accepted", "rejected"}]
  BY TaskFacts
<1>3. pc \in Loop /\ registry.st[t] = "queued" /\ t \notin jobs
  BY <1>1 DEF Judging, Judges
<1>4. t \notin OnBranch
  BY <1>1, <1>3 DEF Judging, Judges
<1>5. rev' = [rev EXCEPT ![t] = @ + 1] /\ judged' = [judged EXCEPT ![t] = draft[t]]
  BY <1>4 DEF Publish
<1>6. OnBranch' = OnBranch \cup {t} /\ \A u : u # t => judged'[u] = judged[u]
  BY <1>2, <1>5 DEF OnBranch
<1>7. ASSUME NEW u \in Work
      PROVE  Judges(u)'
  <2>1. Judges(u)
    BY DEF Judging
  <2>2. CASE u = t
    BY <1>1, <1>2, <1>3, <1>5, <2>1, <2>2 DEF Judges, Spoken
  <2>3. CASE u # t
    BY <1>1, <1>6, <2>1, <2>3 DEF Judges, Spoken
  <2> QED
    BY <2>2, <2>3
<1>8. ~Passed(t)
  <2>1. t \in Own /\ progress.next \in 0..Last /\ pc # "advance"
    BY <1>2, <1>3 DEF Judging, Present, Inv, TypeOK, Loop
  <2> QED
    BY <2>1 DEF Passed, Own, Current
<1>9. Own' = Own /\ \A u : Passed(u)' <=> Passed(u)
  BY <1>1 DEF Own, Current, Passed
<1> QED
  BY <1>1, <1>6, <1>7, <1>8, <1>9 DEF Judging

LEMMA ReviseJudges ==
  ASSUME Judging, Inv, NEW t \in Work, Revise(t)
  PROVE  Judging'
<1>1. /\ t \in OnBranch /\ rev' = [rev EXCEPT ![t] = @ + 1]
      /\ UNCHANGED <<progress, pc, registry, jobs, merging, landed, judged, draft, ledger, cli>>
  BY DEF Revise, KeepProcess, jobVars
<1>2. OnBranch' = OnBranch
  BY <1>1, TaskFacts DEF OnBranch
<1>3. Own' = Own /\ \A u : Passed(u)' <=> Passed(u)
  BY <1>1 DEF Own, Current, Passed
<1>4. \A u \in Work : Judges(u)'
  BY <1>1, <1>2 DEF Judging, Judges, Spoken
<1> QED
  BY <1>1, <1>3, <1>4 DEF Judging

LEMMA EndJudges ==
  ASSUME Judging, NEW s, EndRun(s)
  PROVE  Judging'
<1>1. /\ UNCHANGED Evidence /\ UNCHANGED <<registry, progress>>
      /\ jobs' = {} /\ merging' = {} /\ landed' = {} /\ pc' = "judge"
  BY DEF EndRun, Evidence, Keep, gitVars
<1> QED
  BY <1>1, QuietJudges DEF Loop

\* Decisions are counted, and not uncounted.
LEMMA Unspent ==
  ASSUME Inv
  PROVE  /\ [Next]_vars /\ spent'["decide"] = 0 => spent["decide"] = 0
         /\ Spend("decide") => spent'["decide"] # 0
<1>1. spent \in [Kinds -> Nat] /\ "decide" \in Kinds
  BY DEF Inv, TypeOK, Kinds
<1>2. \A k \in Kinds : Spend(k) => spent'["decide"] >= spent["decide"]
  <2> SUFFICES ASSUME NEW k \in Kinds, Spend(k) PROVE spent'["decide"] >= spent["decide"]
    OBVIOUS
  <2>1. spent' = [spent EXCEPT ![k] = @ + 1]
    BY DEF Spend
  <2> QED
    BY <1>1, <2>1
<1>3. Spend("decide") => spent'["decide"] = spent["decide"] + 1
  BY <1>1 DEF Spend
<1>4. [Next]_vars => spent' = spent \/ \E k \in Kinds : Spend(k)
  <2> SUFFICES ASSUME [Next]_vars PROVE spent' = spent \/ \E k \in Kinds : Spend(k)
    OBVIOUS
  <2>1. CASE UNCHANGED vars
    BY <2>1 DEF vars
  <2>2. CASE Queued
    BY <2>2 DEF Queued, Launch, ChangedFile, UnsafeRegistry, OpenEntry, Mark, Judge, Deliver,
                Advance, FailEntry
  <2>3. CASE Running
    BY <2>3 DEF Running, StartRun, Recover, StopRun, Cycle, Dispatch, Picked, Finish, Again
  <2>4. CASE \E t \in Work : OneTask(t)
    BY <2>4 DEF OneTask, Moves, Perform, Queue, Record, Misplaced, Ghost, Pick, Publish, Fail,
                KeepRun, Kinds
  <2>5. CASE Outside
    BY <2>5 DEF Outside, Stop, Interrupt, Crash, Reset, Edit, Revise, Decide, SaveDecision, Age,
                Kinds
  <2> QED
    BY <2>1, <2>2, <2>3, <2>4, <2>5 DEF Next
<1> QED
  BY <1>1, <1>2, <1>3, <1>4

LEMMA InitJudges == Init => Judging
<1> SUFFICES ASSUME Init PROVE Judging
  OBVIOUS
<1>1. OnBranch = {} /\ cli = <<>> /\ jobs = {} /\ merging = {} /\ landed = {} /\ pc = "off"
  BY DEF Init, OnBranch
<1>2. progress.next = 0
  BY DEF Init, NoProgress
<1>3. ledger = Nobody
  BY Zenon DEF Init, Nobody
<1>4. Present(registry) = {} /\ \A t \in Tasks : registry.st[t] = "absent"
  BY DEF Init, Present
<1>5. \A t \in Judged : ~Passed(t)
  <2>1. \A t \in Judged : PrdOf[t] \in 1..Last
    BY QueueAssumption DEF Prds, Work
  <2> QED
    BY <1>1, <1>2, <2>1, QueueAssumption DEF Passed
<1>6. \A t \in Work : Judges(t)
  BY <1>1, <1>4 DEF Judges, Spoken, Work
<1> QED
  BY <1>1, <1>3, <1>4, <1>5, <1>6 DEF Judging, OfOne, Loop

\* The cursor moves past a PRD whose verdicts are all accepted.
LEMMA DeliverJudges ==
  ASSUME Judging, Inv, Deliver
  PROVE  Judging'
<1>1. /\ UNCHANGED Evidence /\ UNCHANGED <<jobs, merging, landed, registry>>
      /\ progress'.next = progress.next /\ pc = "deliver" /\ pc' \in {"advance", "off"}
  BY DEF Deliver, FailEntry, Halt, Evidence, Keep, gitVars, jobVars, Inv, TypeOK
<1>2. CASE pc' = "off"
  BY <1>1, <1>2, QuietJudges DEF Loop, jobVars
<1>3. CASE pc' = "advance"
  <2>1. Own \subseteq DeliveredIn(registry)
    BY <1>1, <1>3 DEF Deliver, FailEntry, Halt, Incomplete
  <2>2. \A t \in Judged \cap Own : judged[t] = "accepted"
    BY <2>1, QueueAssumption DEF DeliveredIn, Accepted, Judging, Judges, Spoken, Own
  <2>3. /\ OnBranch' = OnBranch /\ Own' = Own /\ pc \notin Loop /\ pc' \notin Loop
        /\ UNCHANGED <<rev, judged, draft, ledger, cli>>
    BY <1>1, <1>3 DEF OnBranch, Own, Current, Loop, Evidence
  <2>4. \A t \in Work : Judges(t)'
    BY <1>1, <2>3 DEF Judging, Judges, Spoken
  <2>5. \A t \in Judged : Passed(t)' => judged'[t] = "accepted"
    BY <1>1, <2>2, <2>3 DEF Passed, Judging
  <2> QED
    BY <1>1, <2>3, <2>4, <2>5 DEF Judging
<1> QED
  BY <1>1, <1>2, <1>3

LEMMA AdvanceJudges ==
  ASSUME Judging, Inv, Advance
  PROVE  Judging'
<1>1. /\ UNCHANGED Evidence /\ UNCHANGED <<jobs, merging, landed, registry>>
      /\ progress'.next = Current /\ pc = "advance" /\ pc' \in {"off", "next"}
  BY DEF Advance, Current, Evidence, Keep, gitVars, jobVars, Inv, TypeOK
<1>2. /\ OnBranch' = OnBranch /\ pc \notin Loop /\ pc' \notin Loop
      /\ UNCHANGED <<rev, judged, draft, ledger, cli>>
  BY <1>1 DEF OnBranch, Loop, Evidence
<1>3. \A t \in Work : Judges(t)'
  BY <1>1, <1>2 DEF Judging, Judges, Spoken
<1>4. ASSUME NEW t \in Judged, Passed(t)'
      PROVE  Passed(t)
  <2>1. PrdOf[t] \in Nat /\ progress.next \in Nat /\ PrdOf[t] <= progress.next + 1 /\ t \in Tasks
    BY <1>1, <1>4, QueueAssumption DEF Passed, Current, Inv, TypeOK, Prds, Work
  <2> QED
    BY <1>1, <2>1 DEF Passed, Own, Current
<1> QED
  BY <1>1, <1>2, <1>3, <1>4 DEF Judging

LEMMA ResetJudges ==
  ASSUME Judging, Inv, Reset
  PROVE  Judging'
<1>1. /\ UNCHANGED Evidence /\ UNCHANGED <<jobs, merging, landed, registry, pc>>
      /\ progress'.next = 0 /\ pc = "off"
  BY DEF Reset, NoProgress, Evidence, Keep, gitVars, jobVars
<1>2. /\ OnBranch' = OnBranch /\ pc \notin Loop
      /\ UNCHANGED <<rev, judged, draft, ledger, cli>>
  BY <1>1 DEF OnBranch, Loop, Evidence
<1>3. \A t \in Work : Judges(t)'
  BY <1>1, <1>2 DEF Judging, Judges, Spoken
<1>4. \A t \in Judged : ~Passed(t)'
  <2>1. \A t \in Judged : PrdOf[t] \in 1..Last
    BY QueueAssumption DEF Prds, Work
  <2> QED
    BY <1>1, <2>1, QueueAssumption DEF Passed
<1> QED
  BY <1>1, <1>2, <1>3, <1>4 DEF Judging

\* Steps of the queue and of a run that do not change what is known of a task.
LEMMA QueuedJudges ==
  ASSUME Judging, Inv, Queued
  PROVE  Judging'
<1>1. CASE Launch \/ ChangedFile \/ UnsafeRegistry \/ OpenEntry \/ Mark \/ Judge
  <2>1. /\ UNCHANGED Evidence /\ UNCHANGED <<jobs, merging, landed>>
    BY <1>1 DEF Launch, ChangedFile, UnsafeRegistry, OpenEntry, Mark, Judge, FailEntry, Halt,
                Evidence, Keep, gitVars, jobVars
  <2>3. progress'.next = progress.next
    BY <1>1 DEF Launch, ChangedFile, UnsafeRegistry, OpenEntry, Mark, Judge, FailEntry, Halt,
                Inv, TypeOK
  <2>4. registry'.st = registry.st /\ registry'.ok = registry.ok
    BY <1>1 DEF Launch, ChangedFile, UnsafeRegistry, OpenEntry, Mark, Judge, FailEntry, Halt,
                Inv, TypeOK, Registries
  <2>2. pc \notin Loop /\ pc' \notin Loop \cup {"advance"}
    BY <1>1 DEF Launch, ChangedFile, UnsafeRegistry, OpenEntry, Mark, Judge, FailEntry, Halt, Loop
  <2> QED
    BY <2>1, <2>2, <2>3, <2>4, QuietJudges DEF jobVars
<1> QED
  BY <1>1, DeliverJudges, AdvanceJudges DEF Queued

LEMMA RunningJudges ==
  ASSUME Judging, Inv, Running
  PROVE  Judging'
<1>1. CASE StartRun \/ Dispatch \/ Picked \/ Again
  <2>1. /\ UNCHANGED Evidence /\ UNCHANGED <<jobs, merging, landed, registry, progress>>
    BY <1>1 DEF StartRun, Dispatch, Picked, Again, Evidence, Keep, gitVars, jobVars
  <2>2. pc \in Loop <=> pc' \in Loop
    BY <1>1 DEF StartRun, Dispatch, Picked, Again, Loop
  <2>3. pc' # "advance"
    BY <1>1 DEF StartRun, Dispatch, Picked, Again
  <2> QED
    BY <2>1, <2>2, <2>3, QuietJudges DEF jobVars
<1>2. CASE StopRun \/ Finish
  <2>1. PICK s : EndRun(s)
    BY <1>2 DEF StopRun, Finish
  <2> QED
    BY <1>2, <2>1, EndJudges
<1> QED
  BY <1>1, <1>2, RecoverJudges, CycleJudges DEF Running

LEMMA OutsideJudges ==
  ASSUME Judging, Inv, Outside, spent'["decide"] = 0
  PROVE  Judging'
<1>1. ASSUME NEW g \in Gates, NEW seat \in Seats, NEW what, Decide(g, seat, what)
      PROVE  FALSE
  BY <1>1, Unspent DEF Decide
<1>2. ~SaveDecision
  BY DEF SaveDecision, Judging
<1>3. ASSUME NEW g \in Gates, NEW seat \in Seats, Age(g, seat)
      PROVE  FALSE
  BY <1>3 DEF Age, Judging, Nobody, Silent
<1>4. CASE (\E kind \in {"draining", "graceful_stopping", "force_stopping"} : Stop(kind))
             \/ \E i \in Prds : Edit(i)
  <2>1. UNCHANGED Evidence /\ UNCHANGED <<jobs, merging, landed, registry, progress, pc>>
    BY <1>4 DEF Stop, Edit, Evidence, Keep, KeepProcess, gitVars, jobVars
  <2> QED
    BY <2>1, QuietJudges DEF jobVars
<1>5. CASE Interrupt
  BY <1>5, EndJudges DEF Interrupt
<1>6. CASE Crash
  <2>1. /\ UNCHANGED Evidence /\ UNCHANGED <<registry, progress>>
        /\ jobs' = {} /\ merging' = {} /\ landed' = {} /\ pc' = "off"
    BY <1>6 DEF Crash, Evidence, Keep, gitVars
  <2> QED
    BY <2>1, QuietJudges DEF Loop
<1> QED
  BY <1>1, <1>2, <1>3, <1>4, <1>5, <1>6, ResetJudges, ReviseJudges DEF Outside

LEMMA TasksJudge ==
  ASSUME Judging, Inv, NEW t \in Work, OneTask(t)
  PROVE  Judging'
<1>1. CASE Misplaced(t)
  BY <1>1, EndJudges DEF Misplaced
<1> QED
  BY <1>1, PerformJudges, QueueJudges, RecordJudges, DroppedJudges, PickJudges, PublishJudges
     DEF OneTask, Moves

-----------------------------------------------------------------------------
(* The theorems.                                                           *)

LEMMA Invariance == Spec => []Inv
<1>1. Init => Inv
  BY InitKeeps
<1>2. Inv /\ [Next]_vars => Inv'
  BY StepKeeps
<1> QED
  BY <1>1, <1>2, PTL DEF Spec

\* Every state of the queue, of its control table and of the registry is one the
\* variables are declared for.
THEOREM Typed == Spec => []TypeOK
<1>1. Inv => TypeOK
  BY DEF Inv
<1> QED
  BY <1>1, Invariance, PTL

\* Every task of the PRDs that the queue has moved past is work on the reference
\* branch, whatever the bounds on the events are.
THEOREM CursorHeld == Spec => []CursorBehind
<1>1. Inv => CursorBehind
  BY DEF Inv, Delivering
<1> QED
  BY <1>1, Invariance, PTL

\* A process that was told to stop while its run was up does not go on with the queue.
THEOREM StopHeld == Spec => []StopHonoured
<1>1. Inv => StopHonoured
  BY DEF Inv, Stopping, StopHonoured, RunUp, Loop
<1> QED
  BY <1>1, Invariance, PTL

\* Every verdict that a gate asks for, of a PRD the queue has moved past, is the one on
\* the branch, as long as no decision command has run (incomplete_tasks).
THEOREM VerdictsHeld == Spec => []CursorJudged
<1> DEFINE JInv == Inv /\ (spent["decide"] = 0 => Judging)
<1>1. Init => JInv
  BY InitKeeps, InitJudges
<1>2. JInv /\ [Next]_vars => JInv'
  <2> SUFFICES ASSUME JInv, [Next]_vars PROVE JInv'
    OBVIOUS
  <2>1. Inv'
    BY StepKeeps
  <2>2. SUFFICES ASSUME spent'["decide"] = 0 PROVE Judging'
    BY <2>1
  <2>3. Judging
    BY <2>2, Unspent
  <2>4. CASE UNCHANGED vars
    <3>1. UNCHANGED Evidence /\ UNCHANGED <<jobs, merging, landed, registry, progress, pc>>
      BY <2>4 DEF vars, Evidence
    <3> QED
      BY <2>3, <3>1, QuietJudges DEF jobVars
  <2>5. CASE Next
    BY <2>2, <2>3, <2>5, QueuedJudges, RunningJudges, OutsideJudges, TasksJudge DEF Next
  <2> QED
    BY <2>4, <2>5
<1>3. JInv => CursorJudged
  BY DEF CursorJudged, Judging, Passed
<1> QED
  BY <1>1, <1>2, <1>3, PTL DEF Spec

\* The steps that write the state of a gate.
LEMMA ApprovingSteps ==
  ASSUME Inv, [Next]_vars, NEW g \in Gates,
         registry.st[g] # "approved", registry'.st[g] = "approved"
  PROVE  Recover \/ Cycle \/ SaveDecision
<1>1. Gates \cap Work = {} /\ Gates \subseteq Tasks
  BY QueueAssumption DEF Work
<1>2. registry' # registry
  OBVIOUS
<1>3. CASE OpenEntry
  BY <1>3 DEF OpenEntry, Inv, TypeOK, Registries
<1>4. CASE \E t \in Work : OneTask(t)
  <2>1. PICK t \in Work : OneTask(t)
    BY <1>4
  <2>2. registry \in Registries /\ t # g
    BY <1>1 DEF Inv, TypeOK
  <2>3. CASE Perform(t)
    <3>1. PICK v : registry' = WithBlocks(Performed(t, v))
      BY <2>3 DEF Perform
    <3>2. Sound(Performed(t, v), OnBranch) /\ Performed(t, v).st[g] = registry.st[g]
      BY <2>2, <2>3, <1>1, PerformedIs
    <3> QED
      BY <3>1, <3>2, <1>1, WithBlocksIs DEF Sound
  <2>4. CASE Queue(t) \/ Pick(t)
    BY <2>2, <2>4, <1>1 DEF Queue, Pick, Moved, Registries
  <2>5. CASE Record(t)
    <3>1. Merged(t) \in Registries /\ Merged(t).st[g] = registry.st[g]
      BY <2>2, <2>5, <1>1, MergedIs
    <3> QED
      BY <3>1, <2>5, <1>1, WithBlocksIs DEF Record
  <2>6. CASE Fail(t) \/ Ghost(t)
    <3>1. PICK r \in Dropped(t, {"todo", "blocked"}) : registry' = r \/ registry' = WithBlocks(r)
      BY <2>6, GivenUp
    <3>2. PICK s, kept : r = [Moved(registry, t, s) EXCEPT !.att = (@ \ {t}) \cup kept]
      BY DroppedIs
    <3>3. r \in Registries
      <4>1. Sound(r, OnBranch)
        BY DroppedSound
      <4> QED
        BY <4>1 DEF Sound
    <3>4. r.st[g] = registry.st[g]
      BY <2>2, <3>2, <1>1 DEF Moved, Registries
    <3> QED
      BY <3>1, <3>3, <3>4, <1>1, WithBlocksIs
  <2>7. CASE Publish(t) \/ Misplaced(t)
    BY <1>2, <2>7 DEF Publish, Misplaced, EndRun
  <2> QED
    BY <2>1, <2>3, <2>4, <2>5, <2>6, <2>7 DEF OneTask, Moves
<1>5. CASE Launch \/ ChangedFile \/ UnsafeRegistry \/ Mark \/ Judge \/ Deliver \/ Advance
  BY <1>2, <1>5 DEF Launch, ChangedFile, UnsafeRegistry, Mark, Judge, Deliver, Advance,
                    FailEntry
<1>6. CASE StartRun \/ StopRun \/ Dispatch \/ Picked \/ Finish \/ Again
  BY <1>2, <1>6 DEF StartRun, StopRun, Dispatch, Picked, Finish, Again, EndRun
<1>7. CASE Outside /\ ~SaveDecision
  BY <1>2, <1>7 DEF Outside, Stop, Interrupt, Crash, Reset, Edit, Revise, Decide, Age, EndRun
<1>8. CASE UNCHANGED vars
  BY <1>2, <1>8 DEF vars
<1>9. [Next]_vars
  OBVIOUS
<1> QED
  BY <1>3, <1>4, <1>5, <1>6, <1>7, <1>8, <1>9 DEF Next, Queued, Running

\* A gate is approved only with a quorum for one revision of its subject, against
\* which no rejection stands.
THEOREM QuorumHeld == Spec => ApprovedByQuorum
<1>1. Inv /\ [Next]_vars =>
        [\A g \in Gates :
           registry.st[g] # "approved" /\ registry'.st[g] = "approved" => Backed(g)]_vars
  <2> SUFFICES ASSUME Inv, [Next]_vars, NEW g \in Gates,
                      registry.st[g] # "approved", registry'.st[g] = "approved"
               PROVE  Backed(g)
    OBVIOUS
  <2>1. Recover \/ Cycle \/ SaveDecision
    BY ApprovingSteps
  <2>2. CASE Recover \/ Cycle
    BY <2>2, RecoverFit, CycleFit DEF Fit
  <2>3. CASE SaveDecision
    <3>1. cli # <<>> /\ registry' = cli[1] /\ cli \in Seq(Registries)
      BY <2>3 DEF SaveDecision, Inv, TypeOK
    <3>2. 1 \in 1..Len(cli)
      BY <3>1
    <3> QED
      BY <3>1, <3>2 DEF Inv, Approvals
  <2> QED
    BY <2>1, <2>2, <2>3
<1> QED
  BY <1>1, Invariance, PTL DEF Spec, ApprovedByQuorum


\* Commits are not taken back.
LEMMA BranchOnlyGrows ==
  ASSUME Inv, [Next]_vars
  PROVE  \A t \in Tasks : rev[t] > 0 => rev'[t] > 0
<1>1. rev \in [Tasks -> Nat]
  BY TaskFacts
<1>2. CASE \E t \in Work : Publish(t) \/ Revise(t)
  BY <1>1, <1>2 DEF Publish, Revise, Work
<1>3. CASE rev' = rev
  BY <1>3
<1>4. \/ rev' = rev
      \/ \E t \in Work : Publish(t) \/ Revise(t)
  <2>1. CASE Queued
    BY <2>1 DEF Queued, Launch, ChangedFile, UnsafeRegistry, OpenEntry, Mark, Judge, Deliver,
                Advance, FailEntry, Keep, gitVars
  <2>2. CASE Running
    BY <2>2, Zenon DEF Running, StartRun, Recover, StopRun, Cycle, Dispatch, Picked, Finish,
                Again, EndRun, Keep, gitVars
  <2>3. CASE \E t \in Work : OneTask(t)
    BY <2>3 DEF OneTask, Moves, Perform, Queue, Record, Misplaced, Fail, Ghost, Pick, EndRun,
                Keep, gitVars
  <2>4. CASE Outside
    BY <2>4, Zenon DEF Outside, Stop, Interrupt, Crash, Reset, Edit, Decide, SaveDecision, Age,
                EndRun, Keep, gitVars
  <2>5. CASE UNCHANGED vars
    BY <2>5 DEF vars
  <2> QED
    BY <2>1, <2>2, <2>3, <2>4, <2>5 DEF Next
<1> QED
  BY <1>2, <1>3, <1>4

\* What the refinement shows of a task.
LEMMA ShownIs ==
  ASSUME NEW t \in Work
  PROVE  /\ Shown(t) \in {"waiting", "working", "stuck", "merged"}
         /\ Shown(t) = "merged" <=> t \in OnBranch
         /\ Shown(t) = "working" <=> t \notin OnBranch /\ registry.st[t] \in Active
<1>1. CASE t \in OnBranch
  <2>1. Shown(t) = "merged"
    BY <1>1, Zenon DEF Shown
  <2> QED
    BY <1>1, <2>1
<1>2. CASE t \notin OnBranch /\ registry.st[t] \in Active
  <2>1. ~(registry.st[t] \in {"blocked", "depblocked"})
    BY <1>2 DEF Active
  <2>2. Shown(t) = "working"
    BY <1>2, <2>1, Zenon DEF Shown
  <2> QED
    BY <1>2, <2>2
<1>3. CASE t \notin OnBranch /\ registry.st[t] \in {"blocked", "depblocked"}
  <2>1. ~(registry.st[t] \in Active)
    BY <1>3 DEF Active
  <2>2. Shown(t) = "stuck"
    BY <1>3, <2>1, Zenon DEF Shown
  <2> QED
    BY <1>3, <2>1, <2>2
<1>4. CASE /\ t \notin OnBranch /\ registry.st[t] \notin Active
           /\ registry.st[t] \notin {"blocked", "depblocked"}
  <2>1. Shown(t) = "waiting"
    BY <1>4, Zenon DEF Shown
  <2> QED
    BY <1>4, <2>1
<1> QED
  BY <1>1, <1>2, <1>3, <1>4

\* The same, after a step.
LEMMA ShownNext ==
  ASSUME NEW t \in Work
  PROVE  /\ Shown(t)' \in {"waiting", "working", "stuck", "merged"}
         /\ Shown(t)' = "merged" <=> t \in OnBranch'
         /\ Shown(t)' = "working" <=> t \notin OnBranch' /\ registry'.st[t] \in Active
<1>1. CASE t \in OnBranch'
  <2>1. Shown(t)' = "merged"
    BY <1>1, Zenon DEF Shown
  <2> QED
    BY <1>1, <2>1
<1>2. CASE t \notin OnBranch' /\ registry'.st[t] \in Active
  <2>1. ~(registry'.st[t] \in {"blocked", "depblocked"})
    BY <1>2 DEF Active
  <2>2. Shown(t)' = "working"
    BY <1>2, <2>1, Zenon DEF Shown
  <2> QED
    BY <1>2, <2>2
<1>3. CASE t \notin OnBranch' /\ registry'.st[t] \in {"blocked", "depblocked"}
  <2>1. ~(registry'.st[t] \in Active)
    BY <1>3 DEF Active
  <2>2. Shown(t)' = "stuck"
    BY <1>3, <2>1, Zenon DEF Shown
  <2> QED
    BY <1>3, <2>1, <2>2
<1>4. CASE /\ t \notin OnBranch' /\ registry'.st[t] \notin Active
           /\ registry'.st[t] \notin {"blocked", "depblocked"}
  <2>1. Shown(t)' = "waiting"
    BY <1>4, Zenon DEF Shown
  <2> QED
    BY <1>4, <2>1
<1> QED
  BY <1>1, <1>2, <1>3, <1>4

LEMMA StepIsPromised ==
  ASSUME Inv, InOrder, [Next]_vars
  PROVE  Promise!Next
<1>1. /\ OnBranch \subseteq OnBranch' /\ OnBranch' \subseteq Work
      /\ Ordered(registry', OnBranch') /\ (registry' = registry \/ OnBranch' = OnBranch)
  <2>1. InOrder' /\ (registry' = registry \/ rev' = rev)
    BY StepInOrder
  <2>2. \A t \in Tasks : rev[t] > 0 => rev'[t] > 0
    BY BranchOnlyGrows
  <2> QED
    BY <2>1, <2>2 DEF InOrder, OnBranch
<1>2. \A t \in Work : shown[t] = Shown(t) /\ shown'[t] = Shown(t)' /\ before[t] = Before(t)
  BY DEF shown, before
<1>3. shown' \in [Work -> {"waiting", "working", "stuck", "merged"}]
  BY ShownNext DEF shown
<1>4. ASSUME NEW t \in Work
      PROVE  Promise!May(t, shown'[t])
  <2>1. CASE Shown(t)' = "merged"
    <3>1. t \in OnBranch'
      BY <2>1, ShownNext
    <3> QED
      BY <1>2, <2>1, <3>1, Zenon DEF Promise!May
  <2>2. CASE Shown(t)' = "working"
    <3>1. t \notin OnBranch' /\ t \notin OnBranch /\ registry'.st[t] \in Active
      BY <1>1, <2>2, ShownNext
    <3>2. Shown(t) = "working" \/ Before(t) \subseteq OnBranch
      BY <1>1, <3>1, ShownIs DEF Ordered
    <3>3. shown[t] \in {"working", "stuck"} \/ (shown[t] = "waiting" /\ Promise!MayStart(t))
      <4>1. CASE Shown(t) = "working"
        BY <1>2, <4>1
      <4>2. CASE Before(t) \subseteq OnBranch
        <5>1. \A d \in before[t] : shown[d] = "merged"
          BY <1>2, <4>2, ShownIs DEF Before
        <5>2. Promise!MayStart(t)
          BY <5>1 DEF Promise!MayStart
        <5>3. shown[t] \in {"waiting", "working", "stuck"}
          BY <1>2, <3>1, ShownIs
        <5> QED
          BY <5>2, <5>3
      <4> QED
        BY <3>2, <4>1, <4>2
    <3>4. shown'[t] = "working"
      BY <1>2, <2>2
    <3> QED
      BY <3>3, <3>4, Zenon DEF Promise!May
  <2>3. CASE Shown(t)' \in {"waiting", "stuck"}
    <3>1. shown[t] # "merged" /\ shown'[t] \in {"waiting", "stuck"}
          /\ shown'[t] # "merged" /\ shown'[t] # "working"
      BY <1>1, <1>2, <2>3, ShownIs, ShownNext
    <3> QED
      BY <3>1, Zenon DEF Promise!May
  <2> QED
    BY <2>1, <2>2, <2>3, ShownNext
<1> QED
  BY <1>1, <1>3, <1>4 DEF Promise!Next

\* Over all PRDs, whatever is reset, edited, saved late or done twice: work on a task
\* starts when the work of the tasks it rests on is on the reference branch, and what
\* is on it stays. The queue implements module Backlog.
THEOREM QueueOrdered == Spec => QueueOrder
<1>1. Init => Inv /\ InOrder
  BY InitKeeps, InitInOrder
<1>2. Inv /\ InOrder /\ [Next]_vars => Inv' /\ InOrder'
  BY StepKeeps, StepInOrder
<1>3. Inv /\ InOrder /\ [Next]_vars => [Promise!Next]_(Promise!vars)
  BY StepIsPromised
<1>4. Init => Promise!Init
  <2> SUFFICES ASSUME Init PROVE Promise!Init
    OBVIOUS
  <2>1. OnBranch = {} /\ \A t \in Work : registry.st[t] = "absent" /\ t \notin OnBranch
    BY DEF Init, OnBranch, Work
  <2>2. \A t \in Work : Shown(t) = "waiting"
    <3> SUFFICES ASSUME NEW t \in Work PROVE Shown(t) = "waiting"
      OBVIOUS
    <3>1. t \notin OnBranch /\ registry.st[t] \notin Active
          /\ registry.st[t] \notin {"blocked", "depblocked"}
      BY <2>1 DEF Active
    <3> QED
      BY <3>1, Zenon DEF Shown
  <2> QED
    BY <2>1, <2>2 DEF Promise!Init, shown
<1> QED
  BY <1>1, <1>2, <1>3, <1>4, PTL DEF Spec, QueueOrder


=============================================================================
