----------------------------- MODULE TaskFence -----------------------------
(***************************************************************************)
(* What the owner of background tasks promises (tasks.go:125-129, 236-237; *)
(* task.go:295-297, 319-324): generations of a task follow each other and  *)
(* only the newest can be worked on; a generation has one holder at a      *)
(* time, never the same worker twice, and once it is closed it is closed.  *)
(***************************************************************************)
EXTENDS Naturals

CONSTANTS Gen, Worker
VARIABLES
    status, \* none, open (claimable, now or later), held, closed
    held    \* the workers that hold or held the generation

vars == <<status, held>>

Init == status = [g \in Gen |-> "none"] /\ held = [g \in Gen |-> {}]

\* A new generation closes the one before it.
Issue(g) ==
    /\ status[g] = "none" /\ \A h \in Gen : h < g => status[h] # "none"
    /\ status' = [h \in Gen |-> IF h = g THEN "open" ELSE IF h < g THEN "closed" ELSE status[h]]
    /\ UNCHANGED held

\* A worker takes the newest generation, also over from another worker.
Take(g, w) ==
    /\ status[g] \in {"open", "held"} /\ w \notin held[g]
    /\ \A h \in Gen : h > g => status[h] = "none"
    /\ status' = [status EXCEPT ![g] = "held"]
    /\ held' = [held EXCEPT ![g] = @ \cup {w}]

Release(g) ==
    /\ status[g] = "held" /\ status' = [status EXCEPT ![g] = "open"] /\ UNCHANGED held

Close(g) ==
    /\ status[g] \in {"open", "held"} /\ status' = [status EXCEPT ![g] = "closed"] /\ UNCHANGED held

Next == \E g \in Gen : Issue(g) \/ Release(g) \/ Close(g) \/ \E w \in Worker : Take(g, w)

Spec == Init /\ [][Next]_vars
=============================================================================
