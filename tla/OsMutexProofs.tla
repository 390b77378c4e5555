---------------------------- MODULE OsMutexProofs ----------------------------
(***************************************************************************)
(* The safety properties of OsMutex for every set of tasks, every number   *)
(* of priority levels and both insertion points, as long as main() and the *)
(* idle hook disable no task.                                              *)
(*                                                                         *)
(* Two invariants.  QueueInv needs no discipline of the callers: the tasks *)
(* in the queue are suspended in os_mutex_lock, once each and the highest  *)
(* priority first, so that the two edits of the list that os_mutex.c makes *)
(* behind the checks of os_core.c are calls os_core.c could have made      *)
(* itself.  OwnerInv holds when tasks unlock once for each lock: it ties   *)
(* the owner to the flag, and the queue to the tasks that wait.            *)
(***************************************************************************)
EXTENDS OsMutex, OsCoreProofs

QueueInv ==
  /\ KernelInv
  /\ MutexTypeOK
  /\ IsInjective(mutex.queue)
  /\ Sorted(mutex.queue, prio)
  /\ \A p \in ToSet(mutex.queue) : pc[p] = "waiting" /\ ~Enabled(list, p)
  /\ \A p \in Task : pc[p] # "out" => p \in created

OwnerInv ==
  /\ \A p \in Task : pc[p] # "again"
  /\ \A p \in Task : Inside(p) => mutex.locked /\ mutex.process = p
  /\ \A p \in Task : pc[p] = "waiting" /\ mutex.process = p => mutex.locked
  /\ mutex.locked => \E p \in Task : mutex.process = p /\ pc[p] # "out"
  /\ ToSet(mutex.queue) = Suspended
  /\ mutex.queue # <<>> => mutex.locked

(***************************************************************************)
(* A task that finds the mutex locked leaves the list as it would with     *)
(* os_task_disable: it runs, so it is on the list, and the check that      *)
(* os_mutex_lock skips would not stop it.                                  *)
(***************************************************************************)
LEMMA LockIsDisable ==
  ASSUME KernelInv, NEW p \in Task, Lock(p), mutex.locked
  PROVE  DisableCall(p)
<1>1. Calling /\ cur = p /\ mode = "run"
  BY DEF Lock, At, Calling
<1>2. Enabled(list, p) /\ p \in created /\ p # App
  BY <1>1, KernelRunning DEF KernelInv, Task
<1> QED
  BY <1>1, <1>2 DEF Lock, DisableCall, Disable, DisableHangs

(***************************************************************************)
(* The task that os_mutex_unlock resumes enters the list as it would with  *)
(* os_task_enable: it is in the queue, so it is not on the list yet.       *)
(***************************************************************************)
LEMMA UnlockIsEnable ==
  ASSUME QueueInv, NEW p \in Task, Unlock(p), mutex.queue # <<>>
  PROVE  /\ Head(mutex.queue) \in Task
         /\ EnableCall(Head(mutex.queue))
<1> DEFINE next == Head(mutex.queue)
<1>1. mutex.queue \in Seq(Task)
  BY DEF QueueInv, MutexTypeOK, Mutex
<1>2. next \in Task /\ next \in ToSet(mutex.queue)
  BY <1>1, TailElements
<1>3. ~Enabled(list, next) /\ next \in created
  BY <1>2 DEF QueueInv
<1> QED
  BY <1>2, <1>3 DEF Unlock, At, EnableCall, Enable, EnableHangs

(***************************************************************************)
(* Every step of the tasks on the mutex is a step of the kernel core.      *)
(***************************************************************************)
LEMMA MutexStepIsCoreStep ==
  ASSUME QueueInv, [MutexNext]_mvars
  PROVE  [Next]_vars
<1>1. CASE CoreStep
  BY <1>1 DEF CoreStep, Next
<1>2. ASSUME NEW p \in Task, Lock(p) PROVE [Next]_vars
  <2>1. CASE mutex.locked
    BY <1>2, <2>1, LockIsDisable DEF QueueInv, Next
  <2>2. CASE ~mutex.locked
    BY <1>2, <2>2 DEF Lock, vars
  <2> QED BY <2>1, <2>2
<1>3. ASSUME NEW p \in Task, LockReturn(p) \/ UnlockCheck(p)
      PROVE  [Next]_vars
  BY <1>3 DEF LockReturn, UnlockCheck
<1>4. ASSUME NEW p \in Task, Unlock(p) PROVE [Next]_vars
  <2>1. CASE mutex.queue # <<>>
    BY <1>4, <2>1, UnlockIsEnable DEF Next
  <2>2. CASE mutex.queue = <<>>
    BY <1>4, <2>2 DEF Unlock, vars
  <2> QED BY <2>1, <2>2
<1>5. CASE UNCHANGED mvars
  BY <1>5 DEF mvars, vars
<1> QED BY <1>1, <1>2, <1>3, <1>4, <1>5 DEF MutexNext

(***************************************************************************)
(* What the other calls, the tick and the scheduler leave alone: the tasks *)
(* that are suspended in os_mutex_lock.                                    *)
(***************************************************************************)
LEMMA CoreStepSparesWaiters ==
  ASSUME ~AppMayDisable, QueueInv, CoreStep
  PROVE  /\ UNCHANGED <<mutex, pc>>
         /\ created \subseteq created'
         /\ \A p \in Task : pc[p] = "waiting" =>
              /\ ~Enabled(list, p) => ~Enabled(list', p)
              /\ prio'[p] = prio[p]
<1> DEFINE Spared ==
      /\ created \subseteq created'
      /\ \A p \in Task : pc[p] = "waiting" =>
           /\ ~Enabled(list, p) => ~Enabled(list', p)
           /\ prio'[p] = prio[p]
<1>1. UNCHANGED <<mutex, pc>>
  BY DEF CoreStep
<1>2. /\ \A p \in Task : pc[p] = "waiting" => p \in created
      /\ prio \in [Proc -> Level] /\ Task \subseteq Proc
  BY DEF QueueInv, KernelInv, TypeOK, Task
<1>3. ASSUME NEW p \in Task, Create(p, TRUE) PROVE Spared
  <2>1. /\ p \notin created /\ created \subseteq created'
        /\ prio' = [prio EXCEPT ![p] = DefaultLevel]
    BY <1>3 DEF Create
  <2>2. \A q \in Task : Enabled(list', q) <=> Enabled(list, q) \/ q = p
    BY <1>3, CreateKeeps DEF QueueInv
  <2> QED BY <1>2, <2>1, <2>2
<1>4. ASSUME NEW p \in Task, pc[p] # "waiting", EnableCall(p) PROVE Spared
  BY <1>4, EnableCallKeeps DEF QueueInv, EnableCall
<1>5. ASSUME NEW p \in Task, pc[p] # "waiting", DisableCall(p) PROVE Spared
  <2>1. cur \in Task
    BY <1>5 DEF DisableCall, QueueInv, KernelInv, TypeOK, Task
  <2> QED BY <1>5, <2>1, DisableCallKeeps DEF QueueInv, DisableCall
<1>6. ASSUME NEW p \in Task, NEW v \in Level, pc[p] # "waiting",
             SetPriority(p, v)
      PROVE  Spared
  BY <1>2, <1>6 DEF SetPriority
<1>7. CASE Start \/ Yield \/ SetPriorityCounter \/ Tick \/ Schedule
  <2>1. UNCHANGED <<list, created, prio>>
    BY <1>7 DEF Start, Yield, SetPriorityCounter, Tick, Schedule
  <2> QED BY <1>1, <2>1
<1>8. \/ \E p \in Task : Create(p, TRUE)
      \/ \E p \in Task : pc[p] # "waiting" /\ (EnableCall(p) \/ DisableCall(p))
      \/ Start \/ Yield \/ SetPriorityCounter \/ Tick \/ Schedule
      \/ \E p \in Task, v \in Level : pc[p] # "waiting" /\ SetPriority(p, v)
  BY DEF CoreStep
<1>9. Spared
  <2>1. CASE \E p \in Task : Create(p, TRUE)
    BY <1>3, <2>1
  <2>2. CASE \E p \in Task : /\ pc[p] # "waiting"
                             /\ EnableCall(p) \/ DisableCall(p)
    BY <1>4, <1>5, <2>2
  <2>3. CASE \E p \in Task, v \in Level :
               pc[p] # "waiting" /\ SetPriority(p, v)
    BY <1>6, <2>3
  <2> QED BY <1>7, <1>8, <2>1, <2>2, <2>3
<1> QED BY <1>1, <1>9

(***************************************************************************)
(* The levels os_queue_process_sort_priority compares.                     *)
(***************************************************************************)
LEMMA TaskLevels ==
  ASSUME KernelInv
  PROVE  \A p \in Task : prio[p] \in Nat
<1>1. prio \in [Proc -> Level] /\ Task \subseteq Proc
  BY DEF KernelInv, TypeOK, Task
<1>2. Level \subseteq Nat
  BY CoreAssumption DEF Level
<1> QED BY <1>1, <1>2

(***************************************************************************)
(* QueueInv is inductive, whatever discipline the callers keep.            *)
(***************************************************************************)
LEMMA InitQueueInv == MutexInit => QueueInv
<1> SUFFICES ASSUME MutexInit PROVE QueueInv
  OBVIOUS
<1>1. KernelInv
  BY InitKernelInv DEF MutexInit
<1>2. mutex \in Mutex /\ mutex.queue = <<>> /\ pc = [p \in Task |-> "out"]
  BY DEF MutexInit, Mutex
<1>3. /\ ToSet(mutex.queue) = {} /\ IsInjective(mutex.queue)
      /\ Sorted(mutex.queue, prio)
  BY <1>2 DEF ToSet, IsInjective, Sorted
<1>4. MutexTypeOK
  BY <1>1, <1>2 DEF MutexTypeOK, KernelInv, Position
<1> QED BY <1>1, <1>2, <1>3, <1>4 DEF QueueInv

LEMMA StepQueueInv ==
  ASSUME ~AppMayDisable, QueueInv, [MutexNext]_mvars
  PROVE  QueueInv'
<1>1. /\ KernelInv
      /\ mutex \in Mutex /\ mutex.queue \in Seq(Task)
      /\ pc \in [Task -> Position]
      /\ IsInjective(mutex.queue) /\ Sorted(mutex.queue, prio)
      /\ \A p \in ToSet(mutex.queue) : pc[p] = "waiting" /\ ~Enabled(list, p)
      /\ \A p \in Task : pc[p] # "out" => p \in created
  BY DEF QueueInv, MutexTypeOK, Mutex
<1>2. KernelInv' /\ TypeOK'
  BY StepKernelInv, MutexStepIsCoreStep DEF QueueInv, KernelInv
<1>3. ToSet(mutex.queue) \subseteq Task
  BY <1>1 DEF ToSet
<1>4. CASE CoreStep
  <2>1. /\ UNCHANGED <<mutex, pc>> /\ created \subseteq created'
        /\ \A p \in Task : pc[p] = "waiting" =>
             /\ ~Enabled(list, p) => ~Enabled(list', p)
             /\ prio'[p] = prio[p]
    BY <1>4, CoreStepSparesWaiters
  <2>2. \A i \in 1 .. Len(mutex.queue) :
          prio'[mutex.queue[i]] = prio[mutex.queue[i]]
    BY <1>1, <1>3, <2>1 DEF ToSet
  <2>3. Sorted(mutex.queue, prio')
    BY <1>1, <2>2 DEF Sorted
  <2> QED BY <1>1, <1>2, <1>3, <2>1, <2>3 DEF QueueInv, MutexTypeOK
<1>5. ASSUME NEW p \in Task, Lock(p) PROVE QueueInv'
  <2>1. cur = p /\ mode = "run" /\ pc[p] = "out"
        /\ UNCHANGED <<created, prio>>
    BY <1>5 DEF Lock, At, Calling
  <2>2. Enabled(list, p) /\ p \in created
    BY <1>1, <2>1, KernelRunning DEF KernelInv
  <2>3. CASE ~mutex.locked
    <3>1. /\ mutex' = [mutex EXCEPT !.locked = TRUE, !.process = p]
          /\ pc' = [pc EXCEPT ![p] = "in"] /\ list' = list
      BY <1>5, <2>3 DEF Lock
    <3>2. mutex' \in Mutex /\ mutex'.queue = mutex.queue
      BY <1>1, <3>1 DEF Mutex
    <3>3. pc' \in [Task -> Position]
      BY <1>1, <3>1 DEF Position
    <3> QED
      BY <1>1, <1>2, <1>3, <2>1, <2>2, <3>1, <3>2, <3>3
         DEF QueueInv, MutexTypeOK
  <2>4. CASE mutex.locked
    <3> DEFINE r == Added(mutex.queue, p, prio)
    <3>1. /\ mutex' = [mutex EXCEPT !.queue = r]
          /\ pc' = [pc EXCEPT ![p] = "waiting"]
      BY <1>5, <2>4 DEF Lock
    <3>2. p \notin ToSet(mutex.queue)
      BY <1>1, <2>1
    <3>3. /\ r \in Seq(Task) /\ IsInjective(r) /\ Sorted(r, prio)
          /\ ToSet(r) = ToSet(mutex.queue) \cup {p}
      BY <1>1, <3>2, TaskLevels, AddedElements
    <3> HIDE DEF r
    <3>4. mutex' \in Mutex /\ mutex'.queue = r
      BY <1>1, <3>1, <3>3 DEF Mutex
    <3>5. pc' \in [Task -> Position]
      BY <1>1, <3>1 DEF Position
    <3>6. \A q \in Task : Enabled(list', q) <=> Enabled(list, q) /\ q # p
      BY <1>1, <1>5, <2>1, <2>4, LockIsDisable, DisableCallKeeps
    <3> QED
      BY <1>1, <1>2, <1>3, <2>1, <2>2, <3>1, <3>3, <3>4, <3>5, <3>6
         DEF QueueInv, MutexTypeOK
  <2> QED BY <2>3, <2>4
<1>6. ASSUME NEW p \in Task, LockReturn(p) PROVE QueueInv'
  <2>1. /\ cur = p /\ mode = "run" /\ pc[p] = "waiting"
        /\ pc' = [pc EXCEPT ![p] = "in"]
        /\ UNCHANGED <<list, created, prio, mutex>>
    BY <1>6 DEF LockReturn, At, Calling, vars
  <2>2. Enabled(list, p)
    BY <1>1, <2>1, KernelRunning
  <2>3. pc' \in [Task -> Position]
    BY <1>1, <2>1 DEF Position
  <2> QED BY <1>1, <1>2, <1>3, <2>1, <2>2, <2>3 DEF QueueInv, MutexTypeOK
<1>7. ASSUME NEW p \in Task, UnlockCheck(p) PROVE QueueInv'
  <2>1. /\ cur = p /\ mode = "run" /\ pc[p] # "waiting"
        /\ \E to \in Position : pc' = [pc EXCEPT ![p] = to]
        /\ UNCHANGED <<list, created, prio, mutex>>
    BY <1>7 DEF UnlockCheck, At, Calling, vars, Position
  <2>2. p \in created
    BY <1>1, <2>1, KernelRunning DEF KernelInv
  <2>3. pc' \in [Task -> Position]
    BY <1>1, <2>1
  <2> QED BY <1>1, <1>2, <1>3, <2>1, <2>2, <2>3 DEF QueueInv, MutexTypeOK
<1>8. ASSUME NEW p \in Task, Unlock(p) PROVE QueueInv'
  <2>1. /\ pc[p] # "waiting" /\ pc' = [pc EXCEPT ![p] = "out"]
        /\ UNCHANGED <<created, prio>>
    BY <1>8 DEF Unlock, At
  <2>2. pc' \in [Task -> Position]
    BY <1>1, <2>1 DEF Position
  <2>3. CASE mutex.queue = <<>>
    <3>1. mutex' = [mutex EXCEPT !.locked = FALSE] /\ list' = list
      BY <1>8, <2>3 DEF Unlock
    <3>2. mutex' \in Mutex /\ mutex'.queue = mutex.queue
      BY <1>1, <3>1 DEF Mutex
    <3> QED
      BY <1>1, <1>2, <1>3, <2>1, <2>2, <3>1, <3>2 DEF QueueInv, MutexTypeOK
  <2>4. CASE mutex.queue # <<>>
    <3> DEFINE next == Head(mutex.queue)
               r == Tail(mutex.queue)
    <3>1. mutex' = [mutex EXCEPT !.process = next, !.queue = r]
      BY <1>8, <2>4 DEF Unlock
    <3>2. /\ next \in Task /\ r \in Seq(Task)
          /\ IsInjective(r) /\ Sorted(r, prio)
          /\ ToSet(mutex.queue) = ToSet(r) \cup {next}
          /\ next \notin ToSet(r)
      BY <1>1, <2>4, TailElements
    <3>3. \A q \in Task : Enabled(list', q) <=> Enabled(list, q) \/ q = next
      BY <1>1, <1>8, <2>4, UnlockIsEnable, EnableCallKeeps
    <3> HIDE DEF next, r
    <3>4. mutex' \in Mutex /\ mutex'.queue = r
      BY <1>1, <3>1, <3>2 DEF Mutex
    <3> QED
      BY <1>1, <1>2, <1>3, <2>1, <2>2, <3>2, <3>3, <3>4
         DEF QueueInv, MutexTypeOK
  <2> QED BY <2>3, <2>4
<1>9. CASE UNCHANGED mvars
  BY <1>1, <1>2, <1>9 DEF QueueInv, MutexTypeOK, mvars
<1> QED BY <1>4, <1>5, <1>6, <1>7, <1>8, <1>9 DEF MutexNext

LEMMA QueueInvariant == ~AppMayDisable => (MutexSpec => []QueueInv)
<1> SUFFICES ASSUME ~AppMayDisable PROVE MutexSpec => []QueueInv
  OBVIOUS
<1>1. QueueInv /\ [MutexNext]_mvars => QueueInv'
  BY StepQueueInv
<1> QED BY <1>1, InitQueueInv, PTL DEF MutexSpec

(***************************************************************************)
(* OwnerInv is inductive beside QueueInv, when each task unlocks once for  *)
(* each lock.                                                              *)
(***************************************************************************)
LEMMA InitOwnerInv == MutexInit => OwnerInv
<1> SUFFICES ASSUME MutexInit PROVE OwnerInv
  OBVIOUS
<1>1. mutex.queue = <<>> /\ ~mutex.locked /\ \A p \in Task : pc[p] = "out"
  BY DEF MutexInit
<1>2. ToSet(mutex.queue) = {} /\ Suspended = {}
  BY <1>1 DEF ToSet, Suspended
<1> QED BY <1>1, <1>2 DEF OwnerInv, Inside

LEMMA StepOwnerInv ==
  ASSUME OnceEach, QueueInv, OwnerInv, [MutexNext]_mvars
  PROVE  OwnerInv'
<1>1. /\ KernelInv
      /\ mutex \in Mutex /\ mutex.queue \in Seq(Task)
      /\ pc \in [Task -> Position]
      /\ IsInjective(mutex.queue)
  BY DEF QueueInv, MutexTypeOK, Mutex
<1>2. /\ \A p \in Task : pc[p] # "again"
      /\ \A p \in Task : pc[p] \in {"in", "unlock"}
                           => mutex.locked /\ mutex.process = p
      /\ \A p \in Task : pc[p] = "waiting" /\ mutex.process = p => mutex.locked
      /\ mutex.locked => \E p \in Task : mutex.process = p /\ pc[p] # "out"
      /\ \A p \in Task : p \in ToSet(mutex.queue)
                           <=> pc[p] = "waiting" /\ mutex.process # p
      /\ mutex.queue # <<>> => mutex.locked
  BY DEF OwnerInv, Inside, Suspended
<1>3. ToSet(mutex.queue) \subseteq Task
  BY <1>1 DEF ToSet
<1>4. ASSUME ToSet(mutex.queue)' \subseteq Task,
             \A p \in Task : pc[p]' # "again",
             \A p \in Task : pc[p]' \in {"in", "unlock"}
                               => mutex.locked' /\ mutex.process' = p,
             \A p \in Task : pc[p]' = "waiting" /\ mutex.process' = p
                               => mutex.locked',
             mutex.locked' =>
               \E p \in Task : mutex.process' = p /\ pc[p]' # "out",
             \A p \in Task : p \in ToSet(mutex.queue)'
                               <=> pc[p]' = "waiting" /\ mutex.process' # p,
             mutex.queue' # <<>> => mutex.locked'
      PROVE  OwnerInv'
  BY <1>4 DEF OwnerInv, Inside, Suspended
<1>5. CASE UNCHANGED <<mutex, pc>>
  BY <1>2, <1>3, <1>4, <1>5
<1>6. ASSUME NEW p \in Task, Lock(p) PROVE OwnerInv'
  <2>1. pc[p] = "out"
    BY <1>6 DEF Lock, At
  <2>2. CASE ~mutex.locked
    <3>1. /\ mutex' = [mutex EXCEPT !.locked = TRUE, !.process = p]
          /\ pc' = [pc EXCEPT ![p] = "in"]
      BY <1>6, <2>2 DEF Lock
    <3>2. mutex'.locked /\ mutex'.process = p /\ mutex'.queue = mutex.queue
      BY <1>1, <3>1 DEF Mutex
    <3>3. /\ pc'[p] = "in" /\ \A q \in Task \ {p} : pc'[q] = pc[q]
          /\ \A q \in Task \ {p} : mutex.process = q => pc[q] # "waiting"
          /\ \A q \in Task : pc[q] \notin {"in", "unlock"}
      BY <1>1, <1>2, <2>2, <3>1
    <3> QED BY <1>2, <1>3, <1>4, <2>1, <3>2, <3>3
  <2>3. CASE mutex.locked
    <3> DEFINE r == Added(mutex.queue, p, prio)
    <3>1. /\ mutex' = [mutex EXCEPT !.queue = r]
          /\ pc' = [pc EXCEPT ![p] = "waiting"]
      BY <1>6, <2>3 DEF Lock
    <3>2. ToSet(r) = ToSet(mutex.queue) \cup {p}
      <4>1. mutex.queue \in Seq(Task) /\ \A q \in Task : prio[q] \in Nat
        BY <1>1, TaskLevels
      <4> QED BY <4>1, AddedElements
    <3> HIDE DEF r
    <3>3. /\ mutex'.locked /\ mutex'.process = mutex.process
          /\ mutex'.queue = r
      BY <1>1, <2>3, <3>1 DEF Mutex
    <3>4. /\ pc'[p] = "waiting" /\ \A q \in Task \ {p} : pc'[q] = pc[q]
          /\ mutex.process # p
      BY <1>1, <1>2, <2>1, <2>3, <3>1
    <3> QED BY <1>2, <1>3, <1>4, <2>1, <2>3, <3>2, <3>3, <3>4
  <2> QED BY <2>2, <2>3
<1>7. ASSUME NEW p \in Task, LockReturn(p) PROVE OwnerInv'
  <2>1. /\ cur = p /\ mode = "run" /\ pc[p] = "waiting"
        /\ pc' = [pc EXCEPT ![p] = "in"] /\ mutex' = mutex
    BY <1>7 DEF LockReturn, At, Calling
  <2>2. p \notin ToSet(mutex.queue)
    BY <1>1, <2>1, KernelRunning DEF QueueInv
  <2>3. mutex.process = p /\ mutex.locked
    BY <1>2, <2>1, <2>2
  <2>4. pc'[p] = "in" /\ \A q \in Task \ {p} : pc'[q] = pc[q]
    BY <1>1, <2>1
  <2> QED BY <1>2, <1>3, <1>4, <2>1, <2>2, <2>3, <2>4
<1>8. ASSUME NEW p \in Task, UnlockCheck(p) PROVE OwnerInv'
  <2>1. At(p, "in") /\ mutex' = mutex
    BY <1>8 DEF UnlockCheck
  <2>2. mutex.process = p /\ mutex.locked /\ pc[p] = "in"
    BY <1>2, <2>1 DEF At
  <2>3. pc' = [pc EXCEPT ![p] = "unlock"]
    BY <1>8, <2>2 DEF UnlockCheck
  <2>4. pc'[p] = "unlock" /\ \A q \in Task \ {p} : pc'[q] = pc[q]
    BY <1>1, <2>3
  <2> QED BY <1>2, <1>3, <1>4, <2>1, <2>2, <2>4
<1>9. ASSUME NEW p \in Task, Unlock(p) PROVE OwnerInv'
  <2>1. pc[p] = "unlock" /\ pc' = [pc EXCEPT ![p] = "out"]
    BY <1>2, <1>9 DEF Unlock, At
  <2>2. mutex.locked /\ mutex.process = p
    BY <1>2, <2>1
  <2>3. pc'[p] = "out" /\ \A q \in Task \ {p} : pc'[q] = pc[q]
    BY <1>1, <2>1
  <2>4. \A q \in Task \ {p} : pc[q] \notin {"in", "unlock"}
    BY <1>2, <2>2
  <2>5. CASE mutex.queue = <<>>
    <3>1. mutex' = [mutex EXCEPT !.locked = FALSE]
      BY <1>9, <2>5 DEF Unlock
    <3>2. /\ mutex'.queue = mutex.queue /\ mutex'.process = p
          /\ ~mutex'.locked
      BY <1>1, <2>2, <3>1 DEF Mutex
    <3>3. ToSet(mutex.queue) = {}
      BY <2>5 DEF ToSet
    <3> QED BY <1>2, <1>4, <2>1, <2>2, <2>3, <2>4, <2>5, <3>2, <3>3
  <2>6. CASE mutex.queue # <<>>
    <3> DEFINE next == Head(mutex.queue)
               r == Tail(mutex.queue)
    <3>1. mutex' = [mutex EXCEPT !.process = next, !.queue = r]
      BY <1>9, <2>6 DEF Unlock
    <3>2. /\ next \in Task
          /\ ToSet(mutex.queue) = ToSet(r) \cup {next}
          /\ next \notin ToSet(r)
      BY <1>1, <2>6, TailElements
    <3> HIDE DEF next, r
    <3>3. mutex'.queue = r /\ mutex'.process = next /\ mutex'.locked
      BY <1>1, <2>2, <3>1 DEF Mutex
    <3>4. pc[next] = "waiting" /\ next # p
      BY <1>2, <2>1, <3>2
    <3> QED BY <1>2, <1>3, <1>4, <2>1, <2>2, <2>3, <2>4, <3>2, <3>3, <3>4
  <2> QED BY <2>5, <2>6
<1> QED
  BY <1>5, <1>6, <1>7, <1>8, <1>9 DEF MutexNext, CoreStep, mvars

LEMMA OwnerInvariant ==
  ~AppMayDisable /\ OnceEach => (MutexSpec => []OwnerInv)
<1> SUFFICES ASSUME ~AppMayDisable, OnceEach PROVE MutexSpec => []OwnerInv
  OBVIOUS
<1>1. QueueInv /\ OwnerInv /\ [MutexNext]_mvars => OwnerInv'
  BY StepOwnerInv
<1> QED BY <1>1, InitOwnerInv, QueueInvariant, PTL DEF MutexSpec

(***************************************************************************)
(* The state of the kernel and of the mutex always has its type.           *)
(***************************************************************************)
THEOREM MutexTypes == ~AppMayDisable => (MutexSpec => []MutexTypeOK)
<1>1. QueueInv => MutexTypeOK
  BY DEF QueueInv
<1> QED BY <1>1, QueueInvariant, PTL

(***************************************************************************)
(* os_mutex.c, which edits the active list without the checks of           *)
(* os_core.c, does nothing to the kernel that the kernel's own calls could *)
(* not do: all that is proved of OsCore holds with a mutex, also when      *)
(* tasks unlock a mutex they do not hold.                                  *)
(***************************************************************************)
THEOREM MutexImplementsCore == ~AppMayDisable => (MutexSpec => Spec)
<1> SUFFICES ASSUME ~AppMayDisable PROVE MutexSpec => Spec
  OBVIOUS
<1>1. MutexInit => Init
  BY DEF MutexInit
<1>2. QueueInv /\ [MutexNext]_mvars => [Next]_vars
  BY MutexStepIsCoreStep
<1> QED BY <1>1, <1>2, QueueInvariant, PTL DEF MutexSpec, Spec

(***************************************************************************)
(* At most one task is between the return of os_mutex_lock and the         *)
(* critical section of os_mutex_unlock, and the mutex records it.          *)
(***************************************************************************)
THEOREM MutexExcludes ==
  ~AppMayDisable /\ OnceEach => (MutexSpec => []MutualExclusion)
<1>1. OwnerInv => MutualExclusion
  BY DEF OwnerInv, MutualExclusion, Inside
<1> QED BY <1>1, OwnerInvariant, PTL

(***************************************************************************)
(* The tasks that os_mutex_lock has suspended are those in the queue, once *)
(* each, and while there are some an unlock is still to come.              *)
(***************************************************************************)
THEOREM MutexLeavesNobody ==
  ~AppMayDisable /\ OnceEach => (MutexSpec => []NobodyLeftBehind)
<1>1. ASSUME QueueInv, OwnerInv PROVE NobodyLeftBehind
  <2>1. mutex.queue \in Seq(Task) /\ pc \in [Task -> Position]
    BY <1>1 DEF QueueInv, MutexTypeOK, Mutex
  <2>2. ToSet(mutex.queue) = Suspended
    BY <1>1 DEF OwnerInv
  <2>3. Len(mutex.queue) = Cardinality(Suspended)
    BY <1>1, <2>1, <2>2, QueueLength DEF QueueInv
  <2>4. \A p \in Suspended : ~Enabled(list, p)
    BY <1>1, <2>2 DEF QueueInv
  <2>5. ASSUME Suspended # {}
        PROVE  \E p \in Task :
                 Inside(p) \/ (pc[p] = "waiting" /\ mutex.process = p)
    <3>1. mutex.queue # <<>>
      BY <2>2, <2>5 DEF ToSet
    <3>2. PICK p \in Task : mutex.process = p /\ pc[p] # "out"
      BY <1>1, <3>1 DEF OwnerInv
    <3>3. pc[p] \in {"waiting", "in", "unlock"}
      BY <1>1, <2>1, <3>2 DEF OwnerInv, Position
    <3> QED BY <3>2, <3>3 DEF Inside
  <2> QED BY <2>2, <2>3, <2>4, <2>5 DEF NobodyLeftBehind
<1> QED BY <1>1, QueueInvariant, OwnerInvariant, PTL

(***************************************************************************)
(* "Only the process which locked the mutex can unlock it": with one       *)
(* unlock for each lock, the owner check of os_mutex_unlock is enough      *)
(* though it is made outside the critical section.                         *)
(***************************************************************************)
THEOREM MutexOwnerUnlocks ==
  ~AppMayDisable /\ OnceEach => (MutexSpec => OnlyOwnerUnlocks)
<1> DEFINE ByOwner ==
      mutex.locked /\ (~mutex'.locked \/ mutex'.process # mutex.process)
        => cur = mutex.process
<1> SUFFICES ASSUME ~AppMayDisable, OnceEach
             PROVE  MutexSpec => OnlyOwnerUnlocks
  OBVIOUS
<1>1. ASSUME QueueInv, OwnerInv, MutexNext PROVE ByOwner
  <2> SUFFICES ASSUME mutex.locked, mutex' # mutex
               PROVE  \/ mutex'.locked /\ mutex'.process = mutex.process
                      \/ cur = mutex.process
    OBVIOUS
  <2>1. mutex \in Mutex
    BY <1>1 DEF QueueInv, MutexTypeOK
  <2>2. ASSUME NEW p \in Task, Lock(p)
        PROVE  mutex'.locked /\ mutex'.process = mutex.process
    BY <2>1, <2>2 DEF Lock, Mutex
  <2>3. ASSUME NEW p \in Task, Unlock(p) PROVE cur = mutex.process
    BY <1>1, <2>3 DEF Unlock, At, OwnerInv, Inside
  <2> QED
    BY <1>1, <2>2, <2>3 DEF MutexNext, CoreStep, LockReturn, UnlockCheck
<1>2. QueueInv /\ OwnerInv /\ [MutexNext]_mvars => [ByOwner]_mvars
  BY <1>1
<1> QED
  BY <1>2, QueueInvariant, OwnerInvariant, PTL DEF MutexSpec, OnlyOwnerUnlocks

(***************************************************************************)
(* Every step of the mutex is a step of the one token of TokenPool, which  *)
(* an unlock passes to the first in line, or a stuttering step of it.      *)
(***************************************************************************)
LEMMA StepMutexPool ==
  ASSUME ~AppMayDisable, OnceEach, QueueInv, OwnerInv, [MutexNext]_mvars
  PROVE  [Pool!Next]_Pool!vars
<1>1. /\ KernelInv
      /\ mutex \in Mutex /\ mutex.queue \in Seq(Task)
      /\ pc \in [Task -> Position]
      /\ Sorted(mutex.queue, prio)
      /\ \A p \in ToSet(mutex.queue) : pc[p] = "waiting" /\ ~Enabled(list, p)
  BY DEF QueueInv, MutexTypeOK, Mutex
<1>2. /\ \A p \in Task : pc[p] # "again"
      /\ \A p \in Task : pc[p] \in {"in", "unlock"}
                           => mutex.locked /\ mutex.process = p
      /\ \A p \in Task : pc[p] = "waiting" /\ mutex.process = p => mutex.locked
      /\ \A p \in Task : p \in ToSet(mutex.queue)
                           <=> pc[p] = "waiting" /\ mutex.process # p
      /\ mutex.locked => \E p \in Task : mutex.process = p /\ pc[p] # "out"
      /\ mutex.queue # <<>> => mutex.locked
  BY DEF OwnerInv, Inside, Suspended
<1>3. Holders = {p \in Task : \/ pc[p] \in {"in", "unlock"}
                              \/ pc[p] = "waiting" /\ mutex.process = p}
  BY DEF Holders, Inside
<1>4. Holders' = {p \in Task : \/ pc'[p] \in {"in", "unlock"}
                               \/ pc'[p] = "waiting" /\ mutex'.process = p}
  BY DEF Holders, Inside
<1>5. Pool!ToSet(mutex.queue) = ToSet(mutex.queue)
  BY DEF Pool!ToSet, ToSet
<1>6. CASE CoreStep
  <2>1. /\ UNCHANGED <<mutex, pc>>
        /\ \A p \in Task : pc[p] = "waiting" => prio'[p] = prio[p]
    BY <1>6, CoreStepSparesWaiters
  <2>2. Holders' = Holders
    BY <1>3, <1>4, <2>1
  <2>3. \A p \in ToSet(mutex.queue) : p \in Task /\ pc[p] = "waiting"
    BY <1>1 DEF ToSet
  <2>4. Pool!Relevel
    BY <1>5, <2>1, <2>2, <2>3 DEF Pool!Relevel
  <2> QED BY <2>4 DEF Pool!Next
<1>7. ASSUME NEW p \in Task, Lock(p) PROVE [Pool!Next]_Pool!vars
  <2>1. pc[p] = "out" /\ prio' = prio
    BY <1>7 DEF Lock, At
  <2>2. p \notin Holders \cup ToSet(mutex.queue)
    BY <1>2, <1>3, <2>1
  <2>3. CASE ~mutex.locked
    <3>1. /\ mutex' = [mutex EXCEPT !.locked = TRUE, !.process = p]
          /\ pc' = [pc EXCEPT ![p] = "in"]
      BY <1>7, <2>3 DEF Lock
    <3>2. /\ mutex'.locked /\ mutex'.queue = mutex.queue
          /\ mutex.queue = <<>>
      BY <1>1, <1>2, <2>3, <3>1 DEF Mutex
    <3>3. Holders = {}
      BY <1>2, <1>3, <2>3
    <3>4. \A q \in Task : q # p => pc'[q] = pc[q] /\ pc[q] \notin {"in", "unlock", "waiting"}
      BY <1>1, <1>2, <2>3, <3>1, <3>2 DEF ToSet
    <3>5. Holders' = Holders \cup {p}
      BY <1>1, <1>4, <3>1, <3>3, <3>4
    <3>6. Pool!Take(p)
      BY <2>1, <2>2, <2>3, <3>2, <3>5 DEF Pool!Take
    <3> QED BY <3>6 DEF Pool!Next
  <2>4. CASE mutex.locked
    <3> DEFINE r == Added(mutex.queue, p, prio)
               level == [x \in Task |-> prio[x]]
    <3>1. /\ mutex' = [mutex EXCEPT !.queue = r]
          /\ pc' = [pc EXCEPT ![p] = "waiting"]
          /\ mutex.process # p
      BY <1>2, <1>7, <2>1, <2>4 DEF Lock
    <3>2. /\ mutex'.queue = r /\ mutex'.locked
          /\ mutex'.process = mutex.process
      BY <1>1, <2>4, <3>1 DEF Mutex
    <3>3. Holders' = Holders
      BY <1>1, <1>3, <1>4, <2>1, <3>1, <3>2
    <3>4. PICK k \in 1 .. Len(mutex.queue) + 1 :
            /\ \A i \in 1 .. Len(mutex.queue) :
                 i < k <=> prio[mutex.queue[i]] <= prio[p]
            /\ r = InsertAt(mutex.queue, k, p)
      BY <1>1, AddedInTurn, TaskLevels
    <3> HIDE DEF r
    <3>5. \A i \in 1 .. Len(mutex.queue) :
            i < k <=> level[mutex.queue[i]] <= level[p]
      BY <1>1, <3>4
    <3>6. r = Pool!InsertAt(mutex.queue, k, p)
      BY <3>4 DEF Pool!InsertAt, InsertAt
    <3>7. Pool!Join(p)
      BY <1>5, <2>1, <2>2, <2>4, <3>2, <3>3, <3>5, <3>6 DEF Pool!Join
    <3> QED BY <3>7 DEF Pool!Next
  <2> QED BY <2>3, <2>4
<1>8. ASSUME NEW p \in Task, LockReturn(p) PROVE UNCHANGED Pool!vars
  <2>1. /\ cur = p /\ mode = "run" /\ pc[p] = "waiting"
        /\ pc' = [pc EXCEPT ![p] = "in"]
        /\ UNCHANGED <<prio, mutex>>
    BY <1>8 DEF LockReturn, At, Calling, vars
  <2>2. Enabled(list, p)
    BY <1>1, <2>1, KernelRunning
  <2>3. mutex.process = p
    BY <1>1, <1>2, <2>1, <2>2
  <2>4. Holders' = Holders
    BY <1>1, <1>3, <1>4, <2>1, <2>3
  <2> QED BY <2>1, <2>4 DEF Pool!vars
<1>9. ASSUME NEW p \in Task, UnlockCheck(p) PROVE UNCHANGED Pool!vars
  <2>1. pc[p] = "in" /\ UNCHANGED <<prio, mutex>>
    BY <1>9 DEF UnlockCheck, At, vars
  <2>2. mutex.process = p
    BY <1>2, <2>1
  <2>3. pc' = [pc EXCEPT ![p] = "unlock"]
    BY <1>9, <2>1, <2>2 DEF UnlockCheck, At
  <2>4. Holders' = Holders
    BY <1>1, <1>3, <1>4, <2>1, <2>3
  <2> QED BY <2>1, <2>4 DEF Pool!vars
<1>10. ASSUME NEW p \in Task, Unlock(p) PROVE Pool!Give(p)
  <2>1. /\ pc[p] = "unlock" /\ pc' = [pc EXCEPT ![p] = "out"]
        /\ prio' = prio
    BY <1>2, <1>10 DEF Unlock, At
  <2>2. mutex.locked /\ mutex.process = p
    BY <1>2, <2>1
  <2>3. Holders = {p}
    BY <1>2, <1>3, <2>1, <2>2
  <2>4. \A q \in Task : q # p => pc'[q] = pc[q] /\ pc[q] \notin {"in", "unlock"}
    BY <1>1, <1>2, <2>1, <2>2
  <2>5. CASE mutex.queue = <<>>
    <3>1. mutex' = [mutex EXCEPT !.locked = FALSE]
      BY <1>10, <2>5 DEF Unlock
    <3>2. /\ mutex'.queue = mutex.queue /\ mutex'.process = p
          /\ ~mutex'.locked
      BY <1>1, <2>2, <3>1 DEF Mutex
    <3>3. Holders' = {}
      BY <1>1, <1>4, <2>1, <2>4, <3>2
    <3> QED
      BY <2>1, <2>2, <2>3, <2>5, <3>2, <3>3 DEF Pool!Give, Pool!Freed
  <2>6. CASE mutex.queue # <<>>
    <3> DEFINE next == Head(mutex.queue)
               r == Tail(mutex.queue)
    <3>1. mutex' = [mutex EXCEPT !.process = next, !.queue = r]
      BY <1>10, <2>6 DEF Unlock
    <3>2. next \in Task /\ next \in ToSet(mutex.queue)
      BY <1>1, <2>6, TailElements
    <3>3. mutex'.queue = r /\ mutex'.process = next /\ mutex'.locked
      BY <1>1, <2>2, <3>1 DEF Mutex
    <3>4. pc[next] = "waiting" /\ next # p
      BY <1>1, <2>1, <3>2
    <3>5. Holders' = {next}
      <4> HIDE DEF next
      <4> QED BY <1>1, <1>4, <2>1, <2>4, <3>2, <3>3, <3>4
    <3>6. Pool!Freed(Holders \ {p})
      BY <2>1, <2>2, <2>3, <2>6, <3>3, <3>5 DEF Pool!Freed
    <3> QED BY <2>3, <3>6 DEF Pool!Give
  <2> QED BY <2>5, <2>6
<1>11. CASE UNCHANGED mvars
  BY <1>3, <1>4, <1>11 DEF mvars, Pool!vars
<1> QED
  BY <1>6, <1>7, <1>8, <1>9, <1>10, <1>11 DEF MutexNext, Pool!Next

(***************************************************************************)
(* A mutex that each task unlocks once for each lock keeps the promise of  *)
(* TokenPool with one token, for any number of tasks and levels: an unlock *)
(* passes it to the first in line, whatever the others do until            *)
(* os_mutex_lock returns there, and the line is in the order of the        *)
(* priorities and, within one priority, of the calls.                      *)
(***************************************************************************)
THEOREM MutexImplementsPool ==
  ~AppMayDisable /\ OnceEach => (MutexSpec => ImplementsPool)
<1> SUFFICES ASSUME ~AppMayDisable, OnceEach
             PROVE  MutexSpec => ImplementsPool
  OBVIOUS
<1>1. ASSUME MutexInit PROVE Pool!Init
  <2>1. /\ mutex.queue = <<>> /\ ~mutex.locked
        /\ \A p \in Task : pc[p] = "out"
    BY <1>1 DEF MutexInit
  <2>2. Holders = {}
    BY <2>1 DEF Holders, Inside
  <2> QED BY <2>1, <2>2 DEF Pool!Init
<1>2. QueueInv /\ OwnerInv /\ [MutexNext]_mvars => [Pool!Next]_Pool!vars
  BY StepMutexPool
<1> QED
  BY <1>1, <1>2, QueueInvariant, OwnerInvariant, PTL
     DEF MutexSpec, Pool!Spec, ImplementsPool
=============================================================================
