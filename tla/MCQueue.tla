------------------------------ MODULE MCQueue ------------------------------
EXTENDS PrdQueue, TLC

CONSTANTS a, b, c, g, ann, bob, owner, Once, Twice

\* A task with a verdict, the task behind it, the gate that approves this one and a
\* task behind the gate; all but the first may be in a PRD of their own.
PrdMC == [t \in Tasks |-> IF t = a THEN 1 ELSE Last]
DepsMC == [t \in Tasks |-> CASE t = b -> {a} [] t = g -> {b} [] t = c -> {g}
                              [] OTHER -> {}]

\* Two people have to approve the same commit.
SubjectMC == [x \in Gates |-> b]
NeedMC == [x \in Gates |-> [ro \in Roles |-> 2]]
RuleMC == [x \in Gates |-> "all"]
TotalMC == [x \in Gates |-> 0]
MaxMC == [k \in Kinds |-> CASE k \in Once -> 1 [] k \in Twice -> 2 [] OTHER -> 0]
============================================================================
