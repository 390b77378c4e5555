------------------------------ MODULE MCOsEvent ------------------------------
(* OsEvent with two tasks and one event or two.                            *)
EXTENDS OsEvent

CONSTANTS app, t1, t2, e1, e2

TwoTasks == {app, t1, t2}

TwoEvents == {e1, e2}
OneEvent == {e1}

\* A mutex beside a semaphore.
Mixed == [e \in Event |-> IF e = e1 THEN "mutex" ELSE "semaphore"]
Semaphores == [e \in Event |-> "semaphore"]
=============================================================================
