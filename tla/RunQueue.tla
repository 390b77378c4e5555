------------------------------ MODULE RunQueue ------------------------------
(***************************************************************************)
(* What the kernel core promises the tasks, with no pointers: a queue of   *)
(* the active tasks in the order the scheduler will visit them.  A visit   *)
(* moves the head to the end, a task that is disabled leaves the queue     *)
(* wherever it is, and a task that is enabled enters it somewhere, while   *)
(* the others keep their order.                                            *)
(*                                                                         *)
(* OsCoreRefinement shows that the active process list of OsCore           *)
(* implements this queue, and says where a task enters.                    *)
(***************************************************************************)
EXTENDS Naturals, Sequences, SequencesExt

CONSTANTS Tasks, Idle

VARIABLES
  queue,   \* the active tasks, the next one to visit first
  turn     \* the process visited last

vars == <<queue, turn>>

Init == queue = <<>> /\ turn = Idle

Enter(t) ==
  /\ t \notin ToSet(queue)
  /\ \E i \in 1 .. Len(queue) + 1 : queue' = InsertAt(queue, i, t)
  /\ turn' = turn

Leave(t) ==
  /\ \E i \in 1 .. Len(queue) : queue[i] = t /\ queue' = RemoveAt(queue, i)
  /\ turn' = turn

Visit ==
  IF queue = <<>>
  THEN queue' = queue /\ turn' = Idle
  ELSE queue' = Append(Tail(queue), Head(queue)) /\ turn' = Head(queue)

Next == Visit \/ \E t \in Tasks : Enter(t) \/ Leave(t)

Spec == Init /\ [][Next]_vars
=============================================================================
