------------------------------ MODULE Backlog ------------------------------
(***************************************************************************)
(* What the coordinator promises about the tasks of a PRD, with nothing of *)
(* how it keeps the promise: work on a task starts only when the tasks it  *)
(* depends on are merged, a task is merged only once its work is on the    *)
(* base branch, and what is merged or published stays so.                  *)
(***************************************************************************)
CONSTANTS Tasks, Deps, Delivered

VARIABLES
  state,      \* "waiting", "working", "stuck" or "merged", per task
  published   \* the tasks whose work is on the base branch

vars == <<state, published>>

Init ==
  /\ state = [t \in Tasks |-> "waiting"]
  /\ published = Delivered

MayStart(t) == \A d \in Deps[t] : state[d] = "merged"

\* A step of one task. Parked and given-up work may be taken up again.
May(t, next) ==
  CASE next = "merged"  -> state[t] = "merged" \/ t \in published'
    [] next = "working" -> state[t] \in {"working", "stuck"}
                             \/ (state[t] = "waiting" /\ MayStart(t))
    [] next \in {"waiting", "stuck"} -> state[t] # "merged"

\* Several tasks may move at once: a blocked task blocks those behind it.
Next ==
  /\ published \subseteq published' /\ published' \subseteq Tasks
  /\ state' \in [Tasks -> {"waiting", "working", "stuck", "merged"}]
  /\ \A t \in Tasks : May(t, state'[t])

Spec == Init /\ [][Next]_vars
=============================================================================
