----------------------------- MODULE HumanGate -----------------------------
(***************************************************************************)
(* What the decisions recorded for a human approval gate amount to         *)
(* (coordinator/approval.rs, TaskGate of coordinator/model.rs). A gate     *)
(* names the approvers it needs; a decision counts for the revision of the *)
(* subject it was taken on, until it is superseded or too old.             *)
(***************************************************************************)
EXTENDS Naturals, FiniteSets

CONSTANTS
  Gates,    \* the tasks that are human approval gates
  Actors,   \* the people who decide
  Roles,    \* the roles they decide in
  Need,     \* required_approvers: how many of each role a gate wants, 0 for none
  Rule,     \* quorum: "all", "any" or "count" ...
  Total,    \* ... and the number of approvals, for "count"
  Expiring  \* the gates with expires_after_days

Seats == Actors \X Roles

ASSUME GatesAssumption ==
  /\ IsFiniteSet(Gates) /\ IsFiniteSet(Actors) /\ IsFiniteSet(Roles)
  /\ Need \in [Gates -> [Roles -> Nat]] /\ Total \in [Gates -> Nat]
  /\ Rule \in [Gates -> {"all", "any", "count"}] /\ Expiring \subseteq Gates

\* validate_human_approval: a gate names somebody and asks for what can be given.
ASSUME PolicyAssumption ==
  \A g \in Gates :
    /\ \E ro \in Roles : Need[g][ro] > 0
    /\ Rule[g] = "count" => Total[g] > 0

Says == {"approve", "reject", "changes"}

\* The last decision of an actor in a role, or that there is none.
Silent == [says |-> "none", rev |-> 0, old |-> FALSE]
Entries == [says : Says \cup {"none"}, rev : Nat, old : BOOLEAN]

Declared(g) == {ro \in Roles : Need[g][ro] > 0}

\* Mutant: a decision counts whatever revision it names.
BoundToAny(book, rv) == {s \in Seats : book[s].says # "none"}

\* Decisions taken on another revision do not count. Revisions only move forward,
\* so that the last decision of a seat is its last one on the current revision.
Bound(book, rv) == {s \in Seats : book[s].says # "none" /\ book[s].rev = rv}

Live(g, book, rv) == {s \in Bound(book, rv) : g \in Expiring => ~book[s].old}

Saying(book, seats, what) == {s \in seats : book[s].says = what}

\* quorum_met: distinct people per role, or distinct decisions in declared roles.
QuorumMet(g, seats) ==
  LET Enough(ro) == Cardinality({s \in seats : s[2] = ro}) >= Need[g][ro]
  IN CASE Rule[g] = "all"   -> \A ro \in Declared(g) : Enough(ro)
       [] Rule[g] = "any"   -> \E ro \in Declared(g) : Enough(ro)
       [] Rule[g] = "count" ->
            Cardinality({s \in seats : s[2] \in Declared(g)}) >= Total[g]

\* evaluate_gate, once the dependencies of the gate are delivered: a live rejection
\* outranks a quorum, and a quorum that got too old is not one that was never met.
Verdict(g, book, rv) ==
  LET live == Live(g, book, rv)
  IN CASE Saying(book, live, "reject") # {}                      -> "rejected"
       [] Saying(book, live, "reject") = {}
            /\ QuorumMet(g, Saying(book, live, "approve"))       -> "approved"
       [] OTHER ->
            IF Saying(book, Bound(book, rv) \ live, "approve") # {}
            THEN "expired" ELSE "waiting"
=============================================================================
