----------------------------- MODULE OsSemaphore -----------------------------
(***************************************************************************)
(* One counting semaphore (os/os_semaphore.c, os/os_semaphore.h) on the    *)
(* kernel core.  Tasks take it and give back what they took; tasks and the *)
(* idle hook also release it without having taken it, to signal a task, as *)
(* often as MaxSignals allows.  Both calls are one critical section each.  *)
(***************************************************************************)
EXTENDS OsCore, ProcessQueue

CONSTANTS
  MaxCount,     \* the `counter` argument of os_semaphore_create, sem->max
  MaxSignals    \* bound: releases without a take

ASSUME SemaphoreAssumption == MaxCount \in Nat /\ MaxSignals \in Nat

VARIABLES
  sem,      \* see Semaphore
  pc,       \* "out", "waiting" in os_semaphore_take, or "in": took one
  resumed,  \* the waiting tasks a release has enabled
  tally     \* history: the initial count, the signals, the releases that
            \* found the counter at its limit

svars == <<list, cur, mode, started, created, prio, pcnt, write,
           sem, pc, resumed, tally>>

Counter == 0 .. MaxCount

\* struct os_semaphore; its field max is MaxCount.
Semaphore == [counter : Counter, queue : Seq(Task)]

SemaphoreTypeOK ==
  /\ TypeOK
  /\ sem \in Semaphore
  /\ pc \in [Task -> {"out", "waiting", "in"}]
  /\ resumed \in SUBSET Task
  /\ tally \in [initial : Counter, signals : 0 .. MaxSignals, lost : Nat]

\* os_semaphore_create(sem, MaxCount, initial), initial within the limit.
SemaphoreInit ==
  /\ Init
  /\ \E initial \in Counter :
       /\ sem = [counter |-> initial, queue |-> <<>>]
       /\ tally = [initial |-> initial, signals |-> 0, lost |-> 0]
  /\ pc = [p \in Task |-> "out"]
  /\ resumed = {}

-----------------------------------------------------------------------------
(* The calls on the semaphore.                                             *)

At(p, position) == Calling /\ cur = p /\ pc[p] = position

Take(p) ==
  /\ At(p, "out")
  /\ \/ /\ sem.counter > 0
        /\ sem' = [sem EXCEPT !.counter = @ - 1]
        /\ pc' = [pc EXCEPT ![p] = "in"]
        /\ UNCHANGED <<list, mode>>
     \/ /\ sem.counter = 0
        /\ Edit(DisableNaked(list, p), ~HasPred(list.next, p), "sched")
        /\ sem' = [sem EXCEPT !.queue = Added(@, p, prio)]
        /\ pc' = [pc EXCEPT ![p] = "waiting"]
  /\ UNCHANGED <<cur, started, created, prio, pcnt, write, resumed, tally>>

\* A suspended task has been scheduled again: os_semaphore_take returns and
\* does not look at the counter.
TakeReturn(p) ==
  /\ At(p, "waiting")
  /\ pc' = [pc EXCEPT ![p] = "in"]
  /\ resumed' = resumed \ {p}
  /\ UNCHANGED <<vars, sem, tally>>

\* Mutant: the limit is one too high.
FullLate == sem.queue = <<>> /\ sem.counter > MaxCount

\* Nobody waits and the counter is at its limit.
Full == sem.queue = <<>> /\ sem.counter >= MaxCount

\* Mutant: the token that goes to a waiting task is counted as well.
ReleaseTwice ==
  \/ /\ sem.queue # <<>>
     /\ sem' = [counter |-> sem.counter + 1, queue |-> Tail(sem.queue)]
     /\ resumed' = resumed \cup {Head(sem.queue)}
     /\ Edit(EnableNaked(list, cur, Head(sem.queue)),
             ~InsertionFound(list, cur), "run")
  \/ /\ sem.queue = <<>>
     /\ sem' = [sem EXCEPT !.counter = IF Full THEN @ ELSE @ + 1]
     /\ UNCHANGED <<list, mode, resumed>>

\* Mutant: the queue is not looked at.
ReleaseForgets ==
  /\ sem' = [sem EXCEPT !.counter = IF @ < MaxCount THEN @ + 1 ELSE @]
  /\ UNCHANGED <<list, mode, resumed>>

\* os_semaphore_release: the token goes to the first waiting task, to the
\* counter, or, at the limit, nowhere.
ReleaseToken ==
  \/ /\ sem.queue # <<>>
     /\ sem' = [sem EXCEPT !.queue = Tail(@)]
     /\ resumed' = resumed \cup {Head(sem.queue)}
     /\ Edit(EnableNaked(list, cur, Head(sem.queue)),
             ~InsertionFound(list, cur), "run")
  \/ /\ sem.queue = <<>>
     /\ ~Full
     /\ sem' = [sem EXCEPT !.counter = @ + 1]
     /\ UNCHANGED <<list, mode, resumed>>
  \/ /\ Full
     /\ UNCHANGED <<sem, list, mode, resumed>>

\* A task gives back the token it took.
Release(p) ==
  /\ At(p, "in")
  /\ ReleaseToken
  /\ pc' = [pc EXCEPT ![p] = "out"]
  /\ tally' = [tally EXCEPT !.lost = IF Full THEN @ + 1 ELSE @]
  /\ UNCHANGED <<cur, started, created, prio, pcnt, write>>

\* Any process releases without a take.
Signal ==
  /\ Calling
  /\ cur \in Task => pc[cur] # "waiting"
  /\ tally.signals < MaxSignals
  /\ ReleaseToken
  /\ tally' = [tally EXCEPT !.signals = @ + 1,
                            !.lost = IF Full THEN @ + 1 ELSE @]
  /\ UNCHANGED <<cur, started, created, prio, pcnt, write, pc>>

-----------------------------------------------------------------------------
(* The rest of what happens; main() sets the priorities.                   *)

CoreStep ==
  /\ \/ cur = App /\ \E p \in Task : Create(p, TRUE)
     \/ cur = App /\ \E p \in Task, v \in Level :
                       pc[p] # "waiting" /\ SetPriority(p, v)
     \/ SetPriorityCounter
     \/ created = Task /\ Start
     \/ (cur \in Task => pc[cur] # "waiting") /\ Yield
     \/ Tick
     \/ Schedule
  /\ UNCHANGED <<sem, pc, resumed, tally>>

SemaphoreNext ==
  \/ CoreStep
  \/ Signal
  \/ \E p \in Task : Take(p) \/ TakeReturn(p) \/ Release(p)

SemaphoreSpec == SemaphoreInit /\ [][SemaphoreNext]_svars

\* A task that holds a token goes on when it has the processor, and gives
\* the token back.
SemaphoreFairSpec ==
  /\ SemaphoreSpec
  /\ WF_svars(Schedule /\ UNCHANGED <<sem, pc, resumed, tally>>)
  /\ WF_svars(Tick /\ UNCHANGED <<sem, pc, resumed, tally>>)
  /\ \A p \in Task : SF_svars(TakeReturn(p) \/ Release(p))

\* Cooperative multi-tasking: a process that keeps the processor yields.
SemaphoreCooperativeSpec ==
  SemaphoreFairSpec /\ WF_svars(Yield /\ UNCHANGED <<sem, pc, resumed, tally>>)

-----------------------------------------------------------------------------
(* Safety.                                                                 *)

\* The tasks that have a token: they hold it, or a release has resumed them
\* and os_semaphore_take has still to return.
Holders == {p \in Task : pc[p] = "in"} \cup resumed

\* Tokens are neither made nor lost, through every hand-over and whatever
\* tasks run in between, but for releases at the limit of the counter; and
\* a release is dropped there only if someone has signalled: tasks that give
\* back what they took are never turned away.
TokensConserved ==
  /\ sem.counter + Cardinality(Holders) + tally.lost
       = tally.initial + tally.signals
  /\ tally.lost <= tally.signals

\* No task waits while there is a token; the queue holds exactly the tasks
\* that take has suspended and release has not resumed, once each, and none
\* of them is on the active list.
NobodyLeftBehind ==
  LET suspended == {p \in Task : pc[p] = "waiting"} \ resumed IN
  /\ sem.queue # <<>> => sem.counter = 0
  /\ ToSet(sem.queue) = suspended
  /\ Len(sem.queue) = Cardinality(suspended)
  /\ \A p \in suspended : ~Enabled(list, p)

\* The queue stays in the order of the priorities (os_queue.h, "the highest
\* priority goes first") as long as no priority of a waiting task changes.
\* Its elements are on the stacks of the tasks that wait, and linked: adding
\* one, popping the first and removing any leaves the links of the
\* sequence the model has, whatever a field that is not yet written holds:
\* a way back to the beginning here.
QueueLinks ==
  LET q == sem.queue
      m == Links!Linked(q, Links!First)
  IN
  /\ Sorted(q, prio)
  /\ \A p \in Task \ ToSet(q) :
       Links!Represents(Links!AddSort(m, p, prio), Added(q, p, prio))
  /\ q # <<>> => Links!Represents(Links!Pop(m), Tail(q))
  /\ \A p \in Task :
       Links!Represents(Links!QueueRemove(m, p), Without(q, p))

-----------------------------------------------------------------------------
(* The promise.                                                            *)

Pool == INSTANCE TokenPool WITH
          Users <- Task, Tokens <- MaxCount, Signals <- TRUE,
          free <- sem.counter, holding <- Holders, line <- sem.queue,
          level <- [p \in Task |-> prio[p]]

\* Through every hand-over, whatever the kernel does in between, a token
\* goes where TokenPool says: to the first in line, in the order of the
\* priorities and first come first served, and to nobody past the line.
ImplementsPool == Pool!Spec

-----------------------------------------------------------------------------
(* Liveness, under SemaphoreFairSpec.                                      *)

\* The kernel runs, and nobody changes a priority.
Steady == started /\ \A p \in Proc : write[p] = NoWrite

\* "Round-robin multi-tasking": a task that is on the active list for ever
\* is given the processor for ever (os_core.h: "after each ticks the
\* scheduler will switch between the different processes in the list").
EveryActiveTaskRuns ==
  <>[]Steady => \A p \in Task : []<>(Running(p) \/ ~Enabled(list, p))

\* There is at least one token, and the levels are equal.
Quiet ==
  /\ Steady
  /\ tally.initial + tally.signals > tally.lost
  /\ \A p \in Proc : prio[p] = prio[App]

\* "If no semaphore is available, wait until it gets free": each task that
\* waits gets a token.
EveryWaiterServed ==
  <>[]Quiet => \A p \in Task : pc[p] = "waiting" ~> pc[p] = "in"
=============================================================================
