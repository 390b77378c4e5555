---------------------------- MODULE ProcessQueue ----------------------------
(***************************************************************************)
(* The singly linked process queues of os/os_queue.c and os/os_queue.h, as *)
(* sequences of processes: the queue elements live on the stacks of the    *)
(* processes that wait, one each, so an element is named by its process.   *)
(* Links has the same queues in memory.                                    *)
(***************************************************************************)
EXTENDS ProcessList, Sequences, SequencesExt, FiniteSetsExt

\* Mutant: every element goes to the front.
PlaceFirst(q, p, level) == 1

\* Mutant: `<` for `<=` in the comparison, an element goes in front of those
\* with the same priority.
PlaceBeforeEquals(q, p, level) ==
  Min({i \in 1 .. Len(q) : level[q[i]] >= level[p]} \cup {Len(q) + 1})

\* Where the walk of os_queue_add_sort stops: at the first element that
\* os_queue_process_sort_priority does not place before the new one.  With
\* all levels equal this is os_queue_sort_fifo, the end of the queue.
Place(q, p, level) ==
  Min({i \in 1 .. Len(q) : level[q[i]] > level[p]} \cup {Len(q) + 1})

\* os_queue_process_add.
Added(q, p, level) == InsertAt(q, Place(q, p, level), p)

\* What is left of s when a walk along it keeps the elements in S.  (A
\* function and not SelectSeq, which the proofs could not look into.)
Kept(s, S) ==
  LET kept[i \in 0 .. Len(s)] ==
        IF i = 0 THEN <<>>
        ELSE IF s[i] \in S THEN Append(kept[i - 1], s[i]) ELSE kept[i - 1]
  IN kept[Len(s)]

\* The highest priority first, the lowest value.
Sorted(q, level) ==
  \A i, j \in 1 .. Len(q) : i < j => level[q[i]] <= level[q[j]]

\* What is left of a queue without the element of p.
Without(q, p) == Kept(q, Task \ {p})

\* OS_QUEUE_DEFINE, OS_QUEUE_DOUBLY_DEFINE: the queues of processes are
\* queues, whose elements hold a process each.
Links == INSTANCE OsQueue WITH Element <- Task

\* The pointer to a first element is no element, and null is neither.
ASSUME LinksAssumption == Links!First \notin Proc \cup {Null}
=============================================================================
