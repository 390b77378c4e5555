------------------------------- MODULE OsQueue -------------------------------
(***************************************************************************)
(* The queues of eeOS with their links (os/os_queue.c, os/os_queue.h).  A  *)
(* queue in memory is a record of the `next` and `prev` fields of cells:   *)
(* its elements, the pointer to its first element, which stands before the *)
(* first element as a cell whose only field is `next`, and the null        *)
(* pointer, whose `prev` the doubly linked queue writes.  Singly linked    *)
(* queues use `next` only.  Each operator on the memory is a function of   *)
(* the code; ProcessQueue has the sequence it is meant to compute.         *)
(***************************************************************************)
EXTENDS Naturals, Sequences, SequencesExt, FiniteSets

CONSTANTS
  Element,   \* the queue elements; an element is named by its process
  Null

First == "first_elt"

Cell == Element \cup {First, Null}

\* What a walk along the queue q meets, from the pointer to the null pointer.
Line(q) == <<First>> \o q \o <<Null>>

\* The memory of the queue q, every other field holding junk.
Linked(q, junk) ==
  LET place(c) == CHOOSE i \in 1 .. Len(q) + 2 : Line(q)[i] = c IN
  [next |-> [c \in Cell |-> IF c \in {First} \cup ToSet(q) THEN Line(q)[place(c) + 1]
                            ELSE junk],
   prev |-> [c \in Cell |-> IF c \in ToSet(q) THEN Line(q)[place(c) - 1] ELSE junk]]

\* The walk along next meets q and ends.
Represents(m, q) == \A i \in 1 .. Len(q) + 1 : m.next[Line(q)[i]] = Line(q)[i + 1]

\* And each element of q has its way back.
DoublyRepresents(m, q) ==
  /\ Represents(m, q)
  /\ \A i \in 1 .. Len(q) : m.prev[q[i]] = Line(q)[i]

-----------------------------------------------------------------------------
(* Singly linked queues.                                                   *)

Pop(m) == [m EXCEPT !.next[First] = m.next[m.next[First]]]

InsertFirst(m, e) ==
  [m EXCEPT !.next = [@ EXCEPT ![e] = m.next[First], ![First] = e]]

\* Mutant: the two stores in the wrong order.
InsertAfterSwapped(m, c, e) == [m EXCEPT !.next = [@ EXCEPT ![c] = e, ![e] = e]]

InsertAfter(m, c, e) ==
  [m EXCEPT !.next = [@ EXCEPT ![e] = m.next[c], ![c] = e]]

\* prev_elt at the end of a loop along the queue that goes on past the
\* elements in Past; no queue is longer than there are elements.
WalkEnd(m, Past) ==
  LET prev_elt[i \in 0 .. Cardinality(Element)] ==
        IF i = 0 THEN First
        ELSE IF m.next[prev_elt[i - 1]] \in Past THEN m.next[prev_elt[i - 1]]
        ELSE prev_elt[i - 1]
  IN prev_elt[Cardinality(Element)]

\* prev_elt where the loop of os_queue_add_sort ends, with the comparison of
\* os_queue_process_sort_priority; with one level, os_queue_sort_fifo.
Before(m, e, level) == WalkEnd(m, {c \in Element : level[c] <= level[e]})

AddSort(m, e, level) ==
  LET c == Before(m, e, level) IN
  IF c = First THEN InsertFirst(m, e) ELSE InsertAfter(m, c, e)

\* os_queue_remove, of an element that may not be in the queue.
QueueRemove(m, e) ==
  LET c == WalkEnd(m, Element \ {e}) IN
  IF m.next[c] # e THEN m
  ELSE IF c = First THEN Pop(m)
  ELSE [m EXCEPT !.next[c] = m.next[e]]

-----------------------------------------------------------------------------
(* Doubly linked queues.                                                   *)

\* Mutant: the new first element keeps its way back to the one that left.
DoublyPopOneWay(m) == Pop(m)

\* Of the last element: a store through the null pointer.
DoublyPop(m) ==
  LET first == m.next[First] IN
  [next |-> [m.next EXCEPT ![First] = m.next[first]],
   prev |-> [m.prev EXCEPT ![m.next[first]] = m.prev[first]]]

\* Into an empty queue: a store through the null pointer.
DoublyInsertFirst(m, e) ==
  [next |-> [m.next EXCEPT ![e] = m.next[First], ![First] = e],
   prev |-> [m.prev EXCEPT ![e] = First, ![m.next[First]] = e]]

DoublyInsertAfter(m, c, e) ==
  [next |-> [m.next EXCEPT ![e] = m.next[c], ![c] = e],
   prev |-> [x \in Cell |-> IF x = e THEN c
                            ELSE IF x # Null /\ x = m.next[c] THEN e
                            ELSE m.prev[x]]]

DoublyAddSort(m, e, level) ==
  LET c == Before(m, e, level) IN
  IF c = First THEN DoublyInsertFirst(m, e) ELSE DoublyInsertAfter(m, c, e)

\* The element before the first is the pointer to the first, so that the
\* first element can be removed without the queue being known.
DoublyRemove(m, e) ==
  [next |-> [x \in Cell |-> IF x # Null /\ x = m.prev[e] THEN m.next[e] ELSE m.next[x]],
   prev |-> [x \in Cell |-> IF x # Null /\ x = m.next[e] THEN m.prev[e] ELSE m.prev[x]]]

DoublyRemoveEx(m, e) ==
  IF m.next[First] = e THEN DoublyPop(m) ELSE DoublyRemove(m, e)
=============================================================================
