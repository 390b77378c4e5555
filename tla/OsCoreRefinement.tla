-------------------------- MODULE OsCoreRefinement --------------------------
(***************************************************************************)
(* The active process list of OsCore implements the queue of RunQueue: the *)
(* queue is the list read along `next` from the process after the current  *)
(* one.                                                                    *)
(***************************************************************************)
EXTENDS OsCore, FiniteSets, SequencesExt

ActiveTasks(l) == Active(l) \ {App}

\* q is what a walk along the list l meets after the process p.
Follows(q, l, p) ==
  \A i \in 1 .. Len(q) : q[i] = l.next[IF i = 1 THEN p ELSE q[i - 1]]

\* The active tasks of l in the order in which they come after p.
OrderAfter(l, p) ==
  CHOOSE q \in [1 .. Cardinality(ActiveTasks(l)) -> ActiveTasks(l)] : Follows(q, l, p)

Order == OrderAfter(list, cur)

RQ == INSTANCE RunQueue WITH Tasks <- Task, Idle <- App,
                             queue <- Order, turn <- cur

\* Every step of the kernel core is a step of the queue or changes nothing
\* in it: no call and no tick ever loses, doubles or reorders a task.
ImplementsRunQueue == RQ!Spec

-----------------------------------------------------------------------------
(* Where a task enters.                                                    *)

\* The place the kernel gives a task enabled while c runs and q is the order
\* of the others.  With FIFO it is the last one only for a caller that is off
\* the list: after the caller otherwise, in front of all the others.
PlaceInOrder(q, c) ==
  CASE Fifo /\ c \notin ToSet(q)        -> Len(q) + 1
    [] Fifo /\ c \in ToSet(q)           -> 1
    [] ~Fifo /\ q \in {<<>>, <<c>>}     -> 1
    [] ~Fifo /\ q \notin {<<>>, <<c>>}  -> 2

\* A task that is enabled in this step, and no other, enters at its place.
Enters ==
  \A p \in Task :
    ~Enabled(list, p) /\ Enabled(list', p)
      => Order' = InsertAt(Order, PlaceInOrder(Order, cur), p)

\* What __os_process_enable_naked does to the order, with and without FIFO.
EntersAtPlace == [][Enters]_vars

\* The active tasks but the one that runs, the next one to visit first.
Others == SelectSeq(Order, LAMBDA t : t # cur)

\* CONFIG_OS_PROCESS_ENABLE_FIFO "will bring enabled process at the end of
\* the active process list.  The last process enabled will be the last called
\* by the scheduler": after every other task but, at most, the one that runs.
EnabledLast ==
  [][\A p \in Task :
       ~Enabled(list, p) /\ Enabled(list', p) => Others'[Len(Others')] = p]_vars
=============================================================================
