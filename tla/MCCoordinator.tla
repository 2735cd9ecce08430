--------------------------- MODULE MCCoordinator ---------------------------
(* Constants of the model-checking runs of module Coordinator.             *)
EXTENDS Coordinator, TLC

CONSTANTS ta, tb, tc    \* the tasks of a run

Independent == [t \in Tasks |-> {}]
\* tc waits for tb; ta is on its own.
Forked      == [t \in Tasks |-> IF t = tc THEN {tb} ELSE {}]
=============================================================================
