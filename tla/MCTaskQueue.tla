----------------------------- MODULE MCTaskQueue -----------------------------
(* Constants of TaskQueue for the model checker: two producers, and a task    *)
(* that pushes another.                                                       *)
EXTENDS TaskQueue

CONSTANTS p1, p2, t1, t2, t3, t4

MCProducers == {p1, p2}
MCTasks == {t1, t2, t3, t4}
MCRoots == [p \in MCProducers |-> IF p = p1 THEN {t1} ELSE {t2, t4}]
MCChildren == [t \in MCTasks |-> IF t = t1 THEN {t3} ELSE {}]
==============================================================================
