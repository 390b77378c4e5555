----------------------------- MODULE TokenPool ------------------------------
(***************************************************************************)
(* What a mutex and a semaphore promise the tasks, with no kernel and no   *)
(* list: tokens, each of them free or held by somebody, and a line of      *)
(* those who wait for one.  Nobody waits for a token that is free; a token *)
(* that comes free while somebody waits goes to the first in line and to   *)
(* nobody else; nobody joins the line in front of one with the same or a   *)
(* higher priority, and nobody leaves it without a token.                  *)
(*                                                                         *)
(* OsMutex implements it with one token, OsSemaphore with several.         *)
(***************************************************************************)
EXTENDS Naturals, Sequences, SequencesExt

CONSTANTS
  Users,
  Tokens,    \* no more than that are ever free
  Signals    \* a token may come out of nothing, and one is dropped when
             \* Tokens are free

VARIABLES
  free,      \* how many tokens are free
  holding,   \* the users that have one, by taking it or by being given it
  line,      \* the users that wait, the first one in front
  level      \* their priorities; the highest is the lowest number

vars == <<free, holding, line, level>>

Init == free \in 0 .. Tokens /\ holding = {} /\ line = <<>>

Take(u) ==
  /\ u \notin holding /\ line = <<>>
  /\ free > 0
  /\ free' = free - 1
  /\ holding' = holding \cup {u}
  /\ UNCHANGED <<line, level>>

Join(u) ==
  /\ u \notin holding \cup ToSet(line)
  /\ free = 0
  /\ \E k \in 1 .. Len(line) + 1 :
       /\ \A i \in 1 .. Len(line) : i < k <=> level[line[i]] <= level[u]
       /\ line' = InsertAt(line, k, u)
  /\ UNCHANGED <<free, holding, level>>

\* A token comes free that is none of those of `rest`.
Freed(rest) ==
  /\ \/ /\ line # <<>>
        /\ line' = Tail(line)
        /\ holding' = rest \cup {Head(line)}
        /\ free' = free
     \/ /\ line = <<>> /\ free < Tokens
        /\ free' = free + 1
        /\ holding' = rest
        /\ line' = line
     \/ /\ line = <<>> /\ free = Tokens /\ Signals
        /\ holding' = rest
        /\ UNCHANGED <<free, line>>
  /\ UNCHANGED level

Give(u) == u \in holding /\ Freed(holding \ {u})

Signal == Signals /\ Freed(holding)

\* A priority changes, of a user that does not wait.
Relevel ==
  /\ \A u \in ToSet(line) : level'[u] = level[u]
  /\ UNCHANGED <<free, holding, line>>

Next == Signal \/ Relevel \/ \E u \in Users : Take(u) \/ Join(u) \/ Give(u)

Spec == Init /\ [][Next]_vars
=============================================================================
