----------------------------- MODULE EventBoard -----------------------------
(***************************************************************************)
(* What events and the objects behind them promise the tasks, with no      *)
(* kernel and no event scheduler.  A user asks for several objects at once *)
(* and gets one: an object it asked for, that was free, and for which it   *)
(* was the first of those who ask; from then on it asks for nothing.  Or a *)
(* user waits in the line of one object, which goes along that line before *)
(* anybody who asks gets it.  Nobody has two objects, no object is lost.   *)
(***************************************************************************)
EXTENDS Naturals, Sequences, SequencesExt

CONSTANTS
  Users,
  Objects,
  None,
  Pieces    \* how many pieces of each object there are

VARIABLES
  free,     \* how many pieces of each object are free
  has,      \* the object each user has, or None
  asking,   \* those who ask for each object, the first one in front
  line,     \* those in the line of each object
  level     \* the priorities; the highest is the lowest number

vars == <<free, has, asking, line, level>>

Queues == [Objects -> Seq(Users)]

Init ==
  /\ free = Pieces
  /\ has = [u \in Users |-> None]
  /\ asking = [o \in Objects |-> <<>>]
  /\ line = [o \in Objects |-> <<>>]

Waits(u) == \E o \in Objects : u \in ToSet(asking[o]) \cup ToSet(line[o])

Idle(u) == has[u] = None /\ ~Waits(u)

\* The place of u in q: behind everybody with the same or a higher priority,
\* in front of the others.
Turn(q, u) ==
  {k \in 1 .. Len(q) + 1 : \A i \in 1 .. Len(q) : i < k <=> level[q[i]] <= level[u]}

Ask(u, some) ==
  /\ Idle(u)
  /\ asking' \in Queues
  /\ \A o \in some : \E k \in Turn(asking[o], u) :
       asking'[o] = InsertAt(asking[o], k, u)
  /\ \A o \in Objects \ some : asking'[o] = asking[o]
  /\ UNCHANGED <<free, has, line, level>>

Get(u, o) ==
  /\ asking[o] # <<>> /\ u = Head(asking[o]) /\ line[o] = <<>>
  /\ free[o] > 0
  /\ free' = [free EXCEPT ![o] = @ - 1]
  /\ has' = [has EXCEPT ![u] = o]
  /\ asking' \in Queues
  /\ \A x \in Objects :
       IF u \notin ToSet(asking[x]) THEN asking'[x] = asking[x]
       ELSE \E k \in 1 .. Len(asking[x]) :
              asking[x][k] = u /\ asking'[x] = RemoveAt(asking[x], k)
  /\ UNCHANGED <<line, level>>

Take(u, o) ==
  /\ Idle(u) /\ line[o] = <<>>
  /\ free[o] > 0
  /\ free' = [free EXCEPT ![o] = @ - 1]
  /\ has' = [has EXCEPT ![u] = o]
  /\ UNCHANGED <<asking, line, level>>

Join(u, o) ==
  /\ Idle(u)
  /\ free[o] = 0
  /\ \E k \in Turn(line[o], u) : line' = [line EXCEPT ![o] = InsertAt(@, k, u)]
  /\ UNCHANGED <<free, has, asking, level>>

Give(u, o) ==
  /\ has[u] = o
  /\ \/ /\ line[o] # <<>>
        /\ line' = [line EXCEPT ![o] = Tail(@)]
        /\ has' = [has EXCEPT ![u] = None, ![Head(line[o])] = o]
        /\ free' = free
     \/ /\ line[o] = <<>>
        /\ free' = [free EXCEPT ![o] = @ + 1]
        /\ has' = [has EXCEPT ![u] = None]
        /\ line' = line
  /\ UNCHANGED <<asking, level>>

\* A priority changes, of a user that does not wait.
Relevel ==
  /\ \A u \in Users : Waits(u) => level'[u] = level[u]
  /\ UNCHANGED <<free, has, asking, line>>

Next ==
  \/ Relevel
  \/ \E u \in Users :
       \/ \E some \in SUBSET Objects : some # {} /\ Ask(u, some)
       \/ \E o \in Objects : Get(u, o) \/ Take(u, o) \/ Join(u, o) \/ Give(u, o)

Spec == Init /\ [][Next]_vars
=============================================================================
