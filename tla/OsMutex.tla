------------------------------- MODULE OsMutex -------------------------------
(***************************************************************************)
(* One mutex (os/os_mutex.c, os/os_mutex.h) on the kernel core, and the    *)
(* tasks that lock and unlock it.  The tasks also yield, change their      *)
(* priorities, and suspend and resume tasks that do not wait; ticks fall   *)
(* anywhere, also between the owner check of os_mutex_unlock and its       *)
(* critical section.                                                       *)
(***************************************************************************)
EXTENDS OsCore, ProcessQueue

CONSTANTS
  OnceEach,   \* a task unlocks once for each lock; FALSE: it may call
              \* os_mutex_unlock at any time
  Suspends    \* tasks call os_task_disable and os_task_enable

ASSUME MutexAssumption == OnceEach \in BOOLEAN /\ Suspends \in BOOLEAN

VARIABLES
  mutex,   \* see Mutex
  pc       \* where each task is, see Position

mvars == <<list, cur, mode, started, created, prio, pcnt, write, mutex, pc>>

\* "out"     does not hold the mutex
\* "waiting" inside os_mutex_lock, suspended there
\* "in"      os_mutex_lock has returned
\* "unlock"  inside os_mutex_unlock of a lock it holds, past the owner check
\* "again"   the same, of a lock it had released already
Position == {"out", "waiting", "in", "unlock", "again"}

\* struct os_mutex.
Mutex == [locked : BOOLEAN, process : Task \cup {Null}, queue : Seq(Task)]

MutexTypeOK ==
  /\ TypeOK
  /\ mutex \in Mutex
  /\ pc \in [Task -> Position]

\* os_mutex_create does not write the field `process`.
MutexInit ==
  /\ Init
  /\ \E p \in Task \cup {Null} :
       mutex = [locked |-> FALSE, process |-> p, queue |-> <<>>]
  /\ pc = [p \in Task |-> "out"]

-----------------------------------------------------------------------------
(* The calls on the mutex, of the running task p.                          *)

At(p, position) == Calling /\ cur = p /\ pc[p] = position

\* Mutant: the process is recorded before the flag is tested.
LockRecordsWaiter(p) ==
  /\ At(p, "out")
  /\ \/ /\ ~mutex.locked
        /\ mutex' = [mutex EXCEPT !.locked = TRUE, !.process = p]
        /\ pc' = [pc EXCEPT ![p] = "in"]
        /\ UNCHANGED <<list, mode>>
     \/ /\ mutex.locked
        /\ Edit(DisableNaked(list, p), ~HasPred(list.next, p), "sched")
        /\ mutex' = [mutex EXCEPT !.process = p, !.queue = Added(@, p, prio)]
        /\ pc' = [pc EXCEPT ![p] = "waiting"]
  /\ UNCHANGED <<cur, started, created, prio, pcnt, write>>

Lock(p) ==
  /\ At(p, "out")
  /\ \/ /\ ~mutex.locked
        /\ mutex' = [mutex EXCEPT !.locked = TRUE, !.process = p]
        /\ pc' = [pc EXCEPT ![p] = "in"]
        /\ UNCHANGED <<list, mode>>
     \/ /\ mutex.locked
        /\ Edit(DisableNaked(list, p), ~HasPred(list.next, p), "sched")
        /\ mutex' = [mutex EXCEPT !.queue = Added(@, p, prio)]
        /\ pc' = [pc EXCEPT ![p] = "waiting"]
  /\ UNCHANGED <<cur, started, created, prio, pcnt, write>>

\* A suspended task has been scheduled again: os_mutex_lock returns, and
\* does not look at the mutex.
LockReturn(p) ==
  /\ At(p, "waiting")
  /\ pc' = [pc EXCEPT ![p] = "in"]
  /\ UNCHANGED <<vars, mutex>>

\* The owner check, in no critical section.
UnlockCheck(p) ==
  /\ \E from \in IF OnceEach THEN {"in"} ELSE {"in", "out"} :
       /\ At(p, from)
       /\ pc' = [pc EXCEPT ![p] = IF mutex.process # p THEN "out"
                                  ELSE IF from = "in" THEN "unlock"
                                  ELSE "again"]
  /\ UNCHANGED <<vars, mutex>>

\* Mutant: the flag is cleared when the mutex is handed over too.
UnlockClears(p) ==
  /\ At(p, "unlock") \/ At(p, "again")
  /\ \/ /\ mutex.queue # <<>>
        /\ LET next == Head(mutex.queue) IN
           /\ mutex' = [locked |-> FALSE, process |-> next,
                        queue |-> Tail(mutex.queue)]
           /\ Edit(EnableNaked(list, cur, next),
                   ~InsertionFound(list, cur), "run")
     \/ /\ mutex.queue = <<>>
        /\ mutex' = [mutex EXCEPT !.locked = FALSE]
        /\ UNCHANGED <<list, mode>>
  /\ pc' = [pc EXCEPT ![p] = "out"]
  /\ UNCHANGED <<cur, started, created, prio, pcnt, write>>

\* Mutant: the queue is not looked at.
UnlockForgets(p) ==
  /\ At(p, "unlock") \/ At(p, "again")
  /\ mutex' = [mutex EXCEPT !.locked = FALSE]
  /\ pc' = [pc EXCEPT ![p] = "out"]
  /\ UNCHANGED <<list, cur, mode, started, created, prio, pcnt, write>>

Unlock(p) ==
  /\ At(p, "unlock") \/ At(p, "again")
  /\ \/ /\ mutex.queue # <<>>
        /\ LET next == Head(mutex.queue) IN
           /\ mutex' = [mutex EXCEPT !.process = next, !.queue = Tail(@)]
           /\ Edit(EnableNaked(list, cur, next),
                   ~InsertionFound(list, cur), "run")
     \/ /\ mutex.queue = <<>>
        /\ mutex' = [mutex EXCEPT !.locked = FALSE]
        /\ UNCHANGED <<list, mode>>
  /\ pc' = [pc EXCEPT ![p] = "out"]
  /\ UNCHANGED <<cur, started, created, prio, pcnt, write>>

-----------------------------------------------------------------------------
(* The rest of what happens: main() creates the tasks and starts the       *)
(* kernel, tasks make other calls, ticks fall, the scheduler runs.         *)

\* Not inside a call on the mutex.
AtLarge == cur \in Task => pc[cur] \in {"out", "in"}

CoreStep ==
  /\ \/ cur = App /\ \E p \in Task : Create(p, TRUE)
     \/ created = Task /\ Start
     \/ AtLarge /\ Yield
     \/ AtLarge /\ \E p \in Task : /\ pc[p] # "waiting"
                                   /\ \/ Suspends /\ EnableCall(p)
                                      \/ Suspends /\ DisableCall(p)
     \/ cur = App /\ \E p \in Task, v \in Level :
                       pc[p] # "waiting" /\ SetPriority(p, v)
     \/ SetPriorityCounter
     \/ Tick
     \/ Schedule
  /\ UNCHANGED <<mutex, pc>>

MutexNext ==
  \/ CoreStep
  \/ \E p \in Task : \/ Lock(p)
                     \/ LockReturn(p)
                     \/ UnlockCheck(p)
                     \/ Unlock(p)

MutexSpec == MutexInit /\ [][MutexNext]_mvars

\* A task in its critical section goes on when it has the processor, and
\* leaves it.
MutexFairSpec ==
  /\ MutexSpec
  /\ WF_mvars(Schedule /\ UNCHANGED <<mutex, pc>>)
  /\ WF_mvars(Tick /\ UNCHANGED <<mutex, pc>>)
  /\ \A p \in Task : SF_mvars(LockReturn(p) \/ UnlockCheck(p) \/ Unlock(p))

-----------------------------------------------------------------------------
(* Safety.                                                                 *)

Inside(p) == pc[p] \in {"in", "unlock"}

\* At most one task is between the return of os_mutex_lock and the critical
\* section of its os_mutex_unlock, and it is the one the mutex records.
MutualExclusion ==
  \A p \in Task : Inside(p) =>
    /\ mutex.locked /\ mutex.process = p
    /\ \A q \in Task \ {p} : ~Inside(q)

\* Tasks that os_mutex_lock has suspended and os_mutex_unlock has not
\* resumed.
Suspended == {p \in Task : pc[p] = "waiting" /\ mutex.process # p}

\* No task is left behind: the suspended tasks are exactly those in the
\* queue, once each, off the active list, and then some task holds the
\* mutex or has been handed it, so an unlock is still to come.
NobodyLeftBehind ==
  /\ ToSet(mutex.queue) = Suspended
  /\ Len(mutex.queue) = Cardinality(Suspended)
  /\ \A p \in Suspended : ~Enabled(list, p)
  /\ Suspended # {} =>
       \E p \in Task : Inside(p) \/ (pc[p] = "waiting" /\ mutex.process = p)

\* "Only the process which locked the mutex can unlock it" (os_mutex.c): the
\* mutex is released or handed over only by the task it is recorded for.
OnlyOwnerUnlocks ==
  [][mutex.locked /\ (~mutex'.locked \/ mutex'.process # mutex.process)
       => cur = mutex.process]_mvars

-----------------------------------------------------------------------------
(* The promise.                                                            *)

\* The tasks that have the mutex: they are inside, or an unlock has resumed
\* them and os_mutex_lock has still to return.
Holders ==
  {p \in Task : Inside(p) \/ (pc[p] = "waiting" /\ mutex.process = p)}

Pool == INSTANCE TokenPool WITH
          Users <- Task, Tokens <- 1, Signals <- FALSE,
          free <- IF mutex.locked THEN 0 ELSE 1, holding <- Holders,
          line <- mutex.queue, level <- [p \in Task |-> prio[p]]

\* One token, of which nothing is lost and which nobody gets past the line.
ImplementsPool == Pool!Spec

-----------------------------------------------------------------------------
(* Liveness, under MutexFairSpec.                                          *)

\* From now on no task stays suspended by another, and the levels are equal.
Quiet ==
  /\ started
  /\ \A p \in Task : /\ write[p] = NoWrite
                     /\ Enabled(list, p) \/ p \in Suspended
                     /\ prio[p] = prio[App]

\* "If the mutex is already locked, wait until it gets unlocked": each task
\* that waits gets the mutex.
EveryWaiterServed ==
  <>[]Quiet => \A p \in Task : pc[p] = "waiting" ~> pc[p] = "in"
=============================================================================
