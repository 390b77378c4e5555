-------------------------- MODULE OsSemaphoreProofs --------------------------
(***************************************************************************)
(* The safety properties of OsSemaphore for every set of tasks, every      *)
(* limit of the counter, every number of signals and of priority levels    *)
(* and both insertion points, as long as main() and the idle hook disable  *)
(* no task.  The set of tasks need not be finite: those that have a token  *)
(* are.                                                                    *)
(*                                                                         *)
(* WaitInv says who waits and why the edits of the list that               *)
(* os_semaphore.c makes behind the checks of os_core.c are sound; TokenInv *)
(* counts the tokens.                                                      *)
(***************************************************************************)
EXTENDS OsSemaphore, OsCoreProofs

WaitInv ==
  /\ KernelInv
  /\ SemaphoreTypeOK
  /\ IsInjective(sem.queue)
  /\ ToSet(sem.queue) = {p \in Task : pc[p] = "waiting"} \ resumed
  /\ \A p \in ToSet(sem.queue) : ~Enabled(list, p)
  /\ \A p \in resumed : pc[p] = "waiting"
  /\ \A p \in Task : pc[p] # "out" => p \in created
  /\ sem.queue # <<>> => sem.counter = 0
  /\ Sorted(sem.queue, prio)

TokenInv ==
  /\ IsFiniteSet(Holders)
  /\ sem.counter + Cardinality(Holders) + tally.lost
       = tally.initial + tally.signals
  /\ tally.lost <= tally.signals

(***************************************************************************)
(* The levels os_queue_process_sort_priority compares are numbers.         *)
(***************************************************************************)
LEMMA TaskLevels ==
  ASSUME KernelInv
  PROVE  \A p \in Task : prio[p] \in Nat
<1>1. prio \in [Proc -> Level] /\ Task \subseteq Proc
  BY DEF KernelInv, TypeOK, Task
<1>2. Level \subseteq Nat
  BY CoreAssumption DEF Level
<1> QED BY <1>1, <1>2

(***************************************************************************)
(* A task that finds no token leaves the list as it would with             *)
(* os_task_disable, and the task that a release resumes enters it as it    *)
(* would with os_task_enable.                                              *)
(***************************************************************************)
LEMMA TakeIsDisable ==
  ASSUME KernelInv, NEW p \in Task, Take(p), sem.counter = 0
  PROVE  DisableCall(p)
<1>1. Calling /\ cur = p /\ mode = "run"
  BY DEF Take, At, Calling
<1>2. Enabled(list, p) /\ p \in created /\ p # App
  BY <1>1, KernelRunning DEF KernelInv, Task
<1>3. ~(sem.counter > 0)
  OBVIOUS
<1> QED
  BY <1>1, <1>2, <1>3 DEF Take, DisableCall, Disable, DisableHangs

LEMMA ReleaseIsEnable ==
  ASSUME WaitInv, Calling, ReleaseToken, sem.queue # <<>>,
         UNCHANGED <<cur, started, created, prio, pcnt, write>>
  PROVE  /\ Head(sem.queue) \in Task
         /\ EnableCall(Head(sem.queue))
<1> DEFINE next == Head(sem.queue)
<1>1. sem.queue \in Seq(Task)
  BY DEF WaitInv, SemaphoreTypeOK, Semaphore
<1>2. next \in Task /\ next \in ToSet(sem.queue)
  BY <1>1, TailElements
<1>3. ~Enabled(list, next) /\ next \in created
  BY <1>2 DEF WaitInv
<1> QED
  BY <1>2, <1>3 DEF ReleaseToken, Full, EnableCall, Enable, EnableHangs

(***************************************************************************)
(* Every step on the semaphore is a step of the kernel core.               *)
(***************************************************************************)
LEMMA SemaphoreStepIsCoreStep ==
  ASSUME WaitInv, [SemaphoreNext]_svars
  PROVE  [Next]_vars
<1>1. CASE CoreStep
  BY <1>1 DEF CoreStep, Next
<1>2. ASSUME NEW p \in Task, Take(p) PROVE [Next]_vars
  <2>1. CASE sem.counter = 0
    BY <1>2, <2>1, TakeIsDisable DEF WaitInv, Next
  <2>2. CASE sem.counter # 0
    BY <1>2, <2>2 DEF Take, vars
  <2> QED BY <2>1, <2>2
<1>3. ASSUME NEW p \in Task, TakeReturn(p) PROVE [Next]_vars
  BY <1>3 DEF TakeReturn
<1>4. ASSUME Signal \/ \E p \in Task : Release(p) PROVE [Next]_vars
  <2>1. /\ Calling /\ ReleaseToken
        /\ UNCHANGED <<cur, started, created, prio, pcnt, write>>
    BY <1>4 DEF Signal, Release, At
  <2>2. CASE sem.queue # <<>>
    BY <2>1, <2>2, ReleaseIsEnable DEF Next
  <2>3. CASE sem.queue = <<>>
    BY <2>1, <2>3 DEF ReleaseToken, vars
  <2> QED BY <2>2, <2>3
<1>5. CASE UNCHANGED svars
  BY <1>5 DEF svars, vars
<1> QED BY <1>1, <1>2, <1>3, <1>4, <1>5 DEF SemaphoreNext

(***************************************************************************)
(* What the other calls, the tick and the scheduler leave alone: the tasks *)
(* in the queue stay off the list and keep their priorities.               *)
(***************************************************************************)
LEMMA CoreStepSparesWaiters ==
  ASSUME WaitInv, CoreStep
  PROVE  /\ UNCHANGED <<sem, pc, resumed, tally>>
         /\ created \subseteq created'
         /\ \A p \in Task : pc[p] = "waiting" =>
              /\ ~Enabled(list, p) => ~Enabled(list', p)
              /\ prio'[p] = prio[p]
<1>1. UNCHANGED <<sem, pc, resumed, tally>>
  BY DEF CoreStep
<1>2. /\ \A p \in Task : pc[p] = "waiting" => p \in created
      /\ prio \in [Proc -> Level] /\ Task \subseteq Proc
  BY DEF WaitInv, KernelInv, TypeOK, Task
<1>3. ASSUME NEW p \in Task, Create(p, TRUE)
      PROVE  /\ created \subseteq created'
             /\ \A q \in Task : pc[q] = "waiting" =>
                  /\ ~Enabled(list, q) => ~Enabled(list', q)
                  /\ prio'[q] = prio[q]
  <2>1. /\ p \notin created /\ created \subseteq created'
        /\ prio' = [prio EXCEPT ![p] = DefaultLevel]
    BY <1>3 DEF Create
  <2>2. \A q \in Task : Enabled(list', q) <=> Enabled(list, q) \/ q = p
    BY <1>3, CreateKeeps DEF WaitInv
  <2> QED BY <1>2, <2>1, <2>2
<1>4. ASSUME NEW p \in Task, NEW v \in Level, pc[p] # "waiting",
             SetPriority(p, v)
      PROVE  /\ UNCHANGED <<list, created>>
             /\ \A q \in Task : pc[q] = "waiting" => prio'[q] = prio[q]
  BY <1>2, <1>4 DEF SetPriority
<1>5. CASE Start \/ Yield \/ SetPriorityCounter \/ Tick \/ Schedule
  <2>1. UNCHANGED <<list, created, prio>>
    BY <1>5 DEF Start, Yield, SetPriorityCounter, Tick, Schedule
  <2> QED BY <1>1, <2>1
<1>6. \/ \E p \in Task : Create(p, TRUE)
      \/ \E p \in Task, v \in Level : pc[p] # "waiting" /\ SetPriority(p, v)
      \/ Start \/ Yield \/ SetPriorityCounter \/ Tick \/ Schedule
  BY DEF CoreStep
<1> QED BY <1>1, <1>3, <1>4, <1>5, <1>6

(***************************************************************************)
(* WaitInv is inductive.                                                   *)
(***************************************************************************)
LEMMA InitWaitInv == SemaphoreInit => WaitInv
<1> SUFFICES ASSUME SemaphoreInit PROVE WaitInv
  OBVIOUS
<1>1. KernelInv
  BY InitKernelInv DEF SemaphoreInit
<1>2. /\ sem.queue = <<>> /\ resumed = {}
      /\ sem.counter \in Counter
      /\ pc = [p \in Task |-> "out"]
  BY DEF SemaphoreInit
<1>3. /\ ToSet(sem.queue) = {} /\ IsInjective(sem.queue)
      /\ Sorted(sem.queue, prio)
  BY <1>2 DEF ToSet, IsInjective, Sorted
<1>4. 0 \in 0 .. MaxSignals /\ 0 \in Nat
  BY SemaphoreAssumption
<1>5. SemaphoreTypeOK
  BY <1>1, <1>2, <1>4 DEF SemaphoreTypeOK, SemaphoreInit, Semaphore, KernelInv
<1> QED BY <1>1, <1>2, <1>3, <1>5 DEF WaitInv

(***************************************************************************)
(* What a release does to the tasks that wait: the first of them, if there *)
(* is one, is resumed and leaves the queue.                                *)
(***************************************************************************)
LEMMA ReleaseKeeps ==
  ASSUME WaitInv, Calling, ReleaseToken,
         UNCHANGED <<cur, started, created, prio, pcnt, write>>
  PROVE  /\ sem' \in Semaphore
         /\ resumed' \in SUBSET Task
         /\ IsInjective(sem.queue')
         /\ Sorted(sem.queue', prio)
         /\ ToSet(sem.queue') = {p \in Task : pc[p] = "waiting"} \ resumed'
         /\ \A p \in ToSet(sem.queue') : ~Enabled(list', p)
         /\ \A p \in resumed' : pc[p] = "waiting"
         /\ sem.queue' # <<>> => sem.counter' = 0
<1>1. /\ KernelInv
      /\ sem \in Semaphore /\ sem.queue \in Seq(Task)
      /\ sem.counter \in 0 .. MaxCount /\ MaxCount \in Nat
      /\ resumed \in SUBSET Task
      /\ IsInjective(sem.queue)
      /\ ToSet(sem.queue) = {p \in Task : pc[p] = "waiting"} \ resumed
      /\ \A p \in ToSet(sem.queue) : ~Enabled(list, p)
      /\ \A p \in resumed : pc[p] = "waiting"
      /\ sem.queue # <<>> => sem.counter = 0
      /\ Sorted(sem.queue, prio)
  BY SemaphoreAssumption DEF WaitInv, SemaphoreTypeOK, Semaphore, Counter
<1>2. CASE sem.queue = <<>>
  <2>1. /\ resumed' = resumed /\ list' = list
        /\ \/ sem' = [sem EXCEPT !.counter = @ + 1] /\ sem.counter < MaxCount
           \/ sem' = sem
    BY <1>1, <1>2 DEF ReleaseToken, Full
  <2>2. sem' \in Semaphore /\ sem'.queue = sem.queue
    BY <1>1, <2>1 DEF Semaphore, Counter
  <2> QED BY <1>1, <1>2, <2>1, <2>2
<1>3. CASE sem.queue # <<>>
  <2> DEFINE next == Head(sem.queue)
             r == Tail(sem.queue)
  <2>1. sem' = [sem EXCEPT !.queue = r] /\ resumed' = resumed \cup {next}
    BY <1>3 DEF ReleaseToken, Full
  <2>2. /\ next \in Task /\ r \in Seq(Task)
        /\ ToSet(sem.queue) = ToSet(r) \cup {next}
        /\ IsInjective(r) /\ next \notin ToSet(r)
        /\ Sorted(r, prio)
    BY <1>1, <1>3, TailElements
  <2>3. \A q \in Task : Enabled(list', q) <=> Enabled(list, q) \/ q = next
    BY <1>1, <1>3, ReleaseIsEnable, EnableCallKeeps
  <2> HIDE DEF next, r
  <2>4. sem' \in Semaphore /\ sem'.queue = r /\ sem'.counter = sem.counter
    BY <1>1, <2>1, <2>2 DEF Semaphore
  <2> QED BY <1>1, <1>3, <2>1, <2>2, <2>3, <2>4
<1> QED BY <1>2, <1>3

LEMMA StepWaitInv ==
  ASSUME ~AppMayDisable, WaitInv, [SemaphoreNext]_svars
  PROVE  WaitInv'
<1>1. /\ KernelInv
      /\ sem \in Semaphore /\ sem.queue \in Seq(Task)
      /\ sem.counter \in 0 .. MaxCount /\ MaxCount \in Nat
      /\ MaxSignals \in Nat
      /\ pc \in [Task -> {"out", "waiting", "in"}]
      /\ resumed \in SUBSET Task
      /\ tally \in [initial : Counter, signals : 0 .. MaxSignals, lost : Nat]
      /\ IsInjective(sem.queue)
      /\ ToSet(sem.queue) = {p \in Task : pc[p] = "waiting"} \ resumed
      /\ \A p \in ToSet(sem.queue) : ~Enabled(list, p)
      /\ \A p \in resumed : pc[p] = "waiting"
      /\ \A p \in Task : pc[p] # "out" => p \in created
      /\ sem.queue # <<>> => sem.counter = 0
      /\ Sorted(sem.queue, prio)
  BY SemaphoreAssumption DEF WaitInv, SemaphoreTypeOK, Semaphore, Counter
<1>2. KernelInv' /\ TypeOK'
  BY StepKernelInv, SemaphoreStepIsCoreStep DEF WaitInv, KernelInv
<1>3. CASE CoreStep
  <2>1. /\ UNCHANGED <<sem, pc, resumed, tally>>
        /\ created \subseteq created'
        /\ \A p \in Task : pc[p] = "waiting" =>
             /\ ~Enabled(list, p) => ~Enabled(list', p)
             /\ prio'[p] = prio[p]
    BY <1>3, CoreStepSparesWaiters
  <2>2. Sorted(sem.queue, prio)'
    <3>1. \A i \in 1 .. Len(sem.queue) :
            sem.queue[i] \in Task /\ pc[sem.queue[i]] = "waiting"
      <4>1. \A i \in 1 .. Len(sem.queue) : sem.queue[i] \in ToSet(sem.queue)
        BY <1>1 DEF ToSet
      <4> QED BY <1>1, <4>1
    <3>2. \A i \in 1 .. Len(sem.queue) :
            prio'[sem.queue[i]] = prio[sem.queue[i]]
      BY <2>1, <3>1
    <3> QED BY <1>1, <2>1, <3>2 DEF Sorted
  <2> QED BY <1>1, <1>2, <2>1, <2>2 DEF WaitInv, SemaphoreTypeOK
<1>4. ASSUME NEW p \in Task, Take(p) PROVE WaitInv'
  <2>1. /\ cur = p /\ mode = "run" /\ pc[p] = "out"
        /\ created' = created /\ prio' = prio
        /\ UNCHANGED <<resumed, tally>>
    BY <1>4 DEF Take, At, Calling
  <2>2. Enabled(list, p) /\ p \in created
    BY <1>1, <2>1, KernelRunning DEF KernelInv
  <2>3. CASE sem.counter > 0
    <3>1. /\ sem' = [sem EXCEPT !.counter = @ - 1]
          /\ pc' = [pc EXCEPT ![p] = "in"] /\ list' = list
      BY <1>4, <2>3 DEF Take
    <3>2. /\ sem' \in Semaphore /\ sem'.queue = sem.queue
          /\ sem.queue = <<>>
      BY <1>1, <2>3, <3>1 DEF Semaphore, Counter
    <3> QED
      BY <1>1, <1>2, <2>1, <2>2, <3>1, <3>2 DEF WaitInv, SemaphoreTypeOK
  <2>4. CASE sem.counter = 0
    <3> DEFINE r == Added(sem.queue, p, prio)
    <3>1. /\ sem' = [sem EXCEPT !.queue = r]
          /\ pc' = [pc EXCEPT ![p] = "waiting"]
      BY <1>1, <1>4, <2>4 DEF Take
    <3>2. /\ p \notin ToSet(sem.queue) /\ p \notin resumed
          /\ \A q \in Task : prio[q] \in Nat
      BY <1>1, <2>1, TaskLevels
    <3>3. /\ r \in Seq(Task) /\ IsInjective(r) /\ Sorted(r, prio)
          /\ ToSet(r) = ToSet(sem.queue) \cup {p}
      <4>1. sem.queue \in Seq(Task) /\ IsInjective(sem.queue) /\ Sorted(sem.queue, prio)
        BY <1>1
      <4> QED BY <3>2, <4>1, AddedElements
    <3> HIDE DEF r
    <3>4. sem' \in Semaphore /\ sem'.queue = r /\ sem'.counter = 0
      BY <1>1, <2>4, <3>1, <3>3 DEF Semaphore
    <3>5. \A q \in Task : Enabled(list', q) <=> Enabled(list, q) /\ q # p
      BY <1>1, <1>4, <2>1, <2>4, TakeIsDisable, DisableCallKeeps
    <3> QED
      BY <1>1, <1>2, <2>1, <2>2, <3>1, <3>2, <3>3, <3>4, <3>5
         DEF WaitInv, SemaphoreTypeOK
  <2> QED BY <1>1, <2>3, <2>4
<1>5. ASSUME NEW p \in Task, TakeReturn(p) PROVE WaitInv'
  <2>1. /\ cur = p /\ mode = "run" /\ pc[p] = "waiting"
        /\ pc' = [pc EXCEPT ![p] = "in"]
        /\ resumed' = resumed \ {p}
        /\ UNCHANGED <<list, created, prio, sem, tally>>
    BY <1>5 DEF TakeReturn, At, Calling, vars
  <2>2. Enabled(list, p)
    BY <1>1, <2>1, KernelRunning
  <2>3. p \notin ToSet(sem.queue) /\ p \in resumed
    BY <1>1, <2>1, <2>2
  <2> QED BY <1>1, <1>2, <2>1, <2>3 DEF WaitInv, SemaphoreTypeOK
<1>6. ASSUME NEW p \in Task, Release(p) PROVE WaitInv'
  <2>1. /\ Calling /\ ReleaseToken /\ pc[p] = "in"
        /\ UNCHANGED <<cur, started, created, prio, pcnt, write>>
        /\ pc' = [pc EXCEPT ![p] = "out"]
        /\ tally' = [tally EXCEPT !.lost = IF Full THEN @ + 1 ELSE @]
    BY <1>6 DEF Release, At
  <2>2. tally' \in [initial : Counter, signals : 0 .. MaxSignals, lost : Nat]
    BY <1>1, <2>1
  <2>3. /\ sem' \in Semaphore
        /\ resumed' \in SUBSET Task
        /\ IsInjective(sem.queue')
        /\ Sorted(sem.queue', prio)
        /\ ToSet(sem.queue') = {q \in Task : pc[q] = "waiting"} \ resumed'
        /\ \A q \in ToSet(sem.queue') : ~Enabled(list', q)
        /\ \A q \in resumed' : pc[q] = "waiting"
        /\ sem.queue' # <<>> => sem.counter' = 0
    BY <2>1, ReleaseKeeps
  <2>4. \A q \in Task : pc'[q] = "waiting" <=> pc[q] = "waiting"
    BY <1>1, <2>1
  <2> QED
    BY <1>1, <1>2, <2>1, <2>2, <2>3, <2>4 DEF WaitInv, SemaphoreTypeOK
<1>7. CASE Signal
  <2>1. /\ Calling /\ ReleaseToken /\ tally.signals < MaxSignals
        /\ UNCHANGED <<cur, started, created, prio, pcnt, write, pc>>
        /\ tally' = [tally EXCEPT !.signals = @ + 1,
                                  !.lost = IF Full THEN @ + 1 ELSE @]
    BY <1>7 DEF Signal
  <2>2. tally' \in [initial : Counter, signals : 0 .. MaxSignals, lost : Nat]
    <3>1. /\ tally.signals + 1 \in 0 .. MaxSignals
          /\ tally.lost \in Nat /\ tally.lost + 1 \in Nat
      BY <1>1, <2>1
    <3> QED BY <1>1, <2>1, <3>1
  <2>3. /\ sem' \in Semaphore
        /\ resumed' \in SUBSET Task
        /\ IsInjective(sem.queue')
        /\ Sorted(sem.queue', prio)
        /\ ToSet(sem.queue') = {q \in Task : pc[q] = "waiting"} \ resumed'
        /\ \A q \in ToSet(sem.queue') : ~Enabled(list', q)
        /\ \A q \in resumed' : pc[q] = "waiting"
        /\ sem.queue' # <<>> => sem.counter' = 0
    BY <2>1, ReleaseKeeps
  <2> QED
    BY <1>1, <1>2, <2>1, <2>2, <2>3 DEF WaitInv, SemaphoreTypeOK
<1>8. CASE UNCHANGED svars
  BY <1>1, <1>2, <1>8 DEF WaitInv, SemaphoreTypeOK, svars
<1> QED BY <1>3, <1>4, <1>5, <1>6, <1>7, <1>8 DEF SemaphoreNext

LEMMA WaitInvariant == ~AppMayDisable => (SemaphoreSpec => []WaitInv)
<1> SUFFICES ASSUME ~AppMayDisable PROVE SemaphoreSpec => []WaitInv
  OBVIOUS
<1>1. WaitInv /\ [SemaphoreNext]_svars => WaitInv'
  BY StepWaitInv
<1> QED BY <1>1, InitWaitInv, PTL DEF SemaphoreSpec

(***************************************************************************)
(* TokenInv is inductive beside WaitInv.  A release is lost only at the    *)
(* limit; a task that gives back what it took is a holder, so the counter  *)
(* is at its limit only if someone has signalled.                          *)
(***************************************************************************)
LEMMA InitTokenInv == SemaphoreInit => TokenInv
<1> SUFFICES ASSUME SemaphoreInit PROVE TokenInv
  OBVIOUS
<1>1. Holders = {}
  BY DEF SemaphoreInit, Holders
<1>2. IsFiniteSet(Holders) /\ Cardinality(Holders) = 0
  BY <1>1, FS_EmptySet
<1>3. PICK initial \in 0 .. MaxCount :
        /\ sem.counter = initial
        /\ tally = [initial |-> initial, signals |-> 0, lost |-> 0]
  BY DEF SemaphoreInit, Counter
<1> QED BY <1>2, <1>3, SemaphoreAssumption DEF TokenInv

LEMMA StepTokenInv ==
  ASSUME WaitInv, TokenInv, [SemaphoreNext]_svars
  PROVE  TokenInv'
<1> DEFINE C == Cardinality(Holders)
<1>1. /\ KernelInv
      /\ sem \in Semaphore /\ sem.queue \in Seq(Task)
      /\ sem.counter \in Nat /\ MaxCount \in Nat
      /\ pc \in [Task -> {"out", "waiting", "in"}]
      /\ resumed \in SUBSET Task
      /\ tally \in [initial : Counter, signals : 0 .. MaxSignals, lost : Nat]
      /\ tally.initial \in Nat /\ tally.initial <= MaxCount
      /\ tally.signals \in Nat /\ tally.lost \in Nat
      /\ \A p \in ToSet(sem.queue) : pc[p] = "waiting" /\ p \notin resumed
      /\ \A p \in resumed : pc[p] = "waiting"
      /\ sem.queue # <<>> => sem.counter = 0
  BY SemaphoreAssumption DEF WaitInv, SemaphoreTypeOK, Semaphore, Counter
<1>2. /\ IsFiniteSet(Holders) /\ C \in Nat
      /\ sem.counter \in Nat /\ tally.initial \in Nat
      /\ tally.signals \in Nat /\ tally.lost \in Nat
      /\ sem.counter + C + tally.lost = tally.initial + tally.signals
      /\ tally.lost <= tally.signals
  BY <1>1, FS_CardinalityType DEF TokenInv
<1>3. CASE UNCHANGED <<sem, pc, resumed, tally>>
  <2>1. Holders' = Holders
    BY <1>3 DEF Holders
  <2> QED BY <1>2, <1>3, <2>1 DEF TokenInv
<1>4. ASSUME NEW p \in Task, Take(p) PROVE TokenInv'
  <2>1. pc[p] = "out" /\ UNCHANGED <<resumed, tally>>
    BY <1>4 DEF Take, At
  <2>2. p \notin Holders
    BY <1>1, <2>1 DEF Holders
  <2>3. CASE sem.counter > 0
    <3>1. /\ sem' = [sem EXCEPT !.counter = @ - 1]
          /\ pc' = [pc EXCEPT ![p] = "in"]
      BY <1>4, <2>3 DEF Take
    <3>2. sem'.counter = sem.counter - 1
      BY <1>1, <3>1 DEF Semaphore
    <3>3. Holders' = Holders \cup {p}
      BY <1>1, <2>1, <3>1 DEF Holders
    <3>4. IsFiniteSet(Holders') /\ Cardinality(Holders') = C + 1
      BY <1>2, <2>2, <3>3, FS_AddElement
    <3> QED BY <1>1, <1>2, <2>1, <3>2, <3>4 DEF TokenInv
  <2>4. CASE sem.counter = 0
    <3>1. /\ sem' = [sem EXCEPT !.queue = Added(@, p, prio)]
          /\ pc' = [pc EXCEPT ![p] = "waiting"]
      BY <1>4, <2>4 DEF Take
    <3>2. sem'.counter = sem.counter
      BY <1>1, <3>1 DEF Semaphore
    <3>3. Holders' = Holders
      BY <1>1, <2>1, <3>1 DEF Holders
    <3> QED BY <1>2, <2>1, <3>2, <3>3 DEF TokenInv
  <2> QED BY <1>1, <2>3, <2>4
<1>5. ASSUME NEW p \in Task, TakeReturn(p) PROVE TokenInv'
  <2>1. /\ cur = p /\ mode = "run" /\ pc[p] = "waiting"
        /\ pc' = [pc EXCEPT ![p] = "in"]
        /\ resumed' = resumed \ {p}
        /\ UNCHANGED <<sem, tally>>
    BY <1>5 DEF TakeReturn, At, Calling
  <2>2. p \in resumed
    BY <1>1, <2>1, KernelRunning DEF WaitInv
  <2>3. Holders' = Holders
    BY <1>1, <2>1, <2>2 DEF Holders
  <2> QED BY <1>2, <2>1, <2>3 DEF TokenInv
<1>6. ASSUME ReleaseToken
      PROVE  \/ /\ sem.queue # <<>> /\ ~Full
                /\ sem'.counter = sem.counter
                /\ \E q \in Task : /\ q \notin Holders /\ pc[q] = "waiting"
                                   /\ resumed' = resumed \cup {q}
             \/ /\ ~Full /\ resumed' = resumed
                /\ sem'.counter = sem.counter + 1
             \/ /\ Full /\ resumed' = resumed
                /\ sem'.counter = sem.counter
                /\ sem.counter >= MaxCount
  <2>1. CASE sem.queue # <<>>
    <3>1. /\ sem' = [sem EXCEPT !.queue = Tail(@)]
          /\ resumed' = resumed \cup {Head(sem.queue)} /\ ~Full
      BY <1>6, <2>1 DEF ReleaseToken, Full
    <3>2. Head(sem.queue) \in Task /\ Head(sem.queue) \in ToSet(sem.queue)
      BY <1>1, <2>1, TailElements
    <3>3. Head(sem.queue) \notin Holders /\ pc[Head(sem.queue)] = "waiting"
      BY <1>1, <3>2 DEF Holders
    <3>4. sem'.counter = sem.counter
      BY <1>1, <3>1 DEF Semaphore
    <3> QED BY <2>1, <3>1, <3>2, <3>3, <3>4
  <2>2. CASE sem.queue = <<>>
    BY <1>1, <1>6, <2>2 DEF ReleaseToken, Full, Semaphore
  <2> QED BY <2>1, <2>2
<1>7. ASSUME NEW p \in Task, Release(p) PROVE TokenInv'
  <2>1. /\ ReleaseToken /\ pc[p] = "in"
        /\ pc' = [pc EXCEPT ![p] = "out"]
        /\ tally' = [tally EXCEPT !.lost = IF Full THEN @ + 1 ELSE @]
    BY <1>7 DEF Release, At
  <2>2. p \in Holders /\ p \notin resumed
    BY <1>1, <2>1 DEF Holders
  <2>3. IsFiniteSet(Holders \ {p}) /\ Cardinality(Holders \ {p}) = C - 1
    BY <1>2, <2>2, FS_RemoveElement
  <2>4. /\ tally'.initial = tally.initial /\ tally'.signals = tally.signals
        /\ tally'.lost = IF Full THEN tally.lost + 1 ELSE tally.lost
    BY <1>1, <2>1
  <2>5. ASSUME NEW q \in Task, q \notin Holders, pc[q] = "waiting", ~Full,
               sem'.counter = sem.counter, resumed' = resumed \cup {q}
        PROVE  TokenInv'
    <3>1. Holders' = (Holders \ {p}) \cup {q}
      BY <1>1, <2>1, <2>2, <2>5 DEF Holders
    <3>2. IsFiniteSet(Holders') /\ Cardinality(Holders') = C - 1 + 1
      BY <2>3, <2>5, <3>1, FS_AddElement
    <3> QED BY <1>1, <1>2, <2>4, <2>5, <3>2 DEF TokenInv
  <2>6. ASSUME resumed' = resumed
        PROVE  IsFiniteSet(Holders') /\ Cardinality(Holders') = C - 1
    <3>1. Holders' = Holders \ {p}
      BY <1>1, <2>1, <2>2, <2>6 DEF Holders
    <3> QED BY <2>3, <3>1
  <2>7. ASSUME ~Full, resumed' = resumed, sem'.counter = sem.counter + 1
        PROVE  TokenInv'
    <3>1. tally'.lost = tally.lost
      BY <2>4, <2>7
    <3> QED BY <1>2, <2>4, <2>6, <2>7, <3>1 DEF TokenInv
  <2>8. ASSUME Full, resumed' = resumed, sem'.counter = sem.counter,
               sem.counter >= MaxCount
        PROVE  TokenInv'
    <3>1. tally.lost + 1 <= tally.signals
      <4>1. C - 1 \in Nat
        BY <2>3, FS_CardinalityType
      <4> QED BY <1>1, <1>2, <2>8, <4>1
    <3>2. tally'.lost = tally.lost + 1
      BY <2>4, <2>8
    <3> QED BY <1>2, <2>4, <2>6, <2>8, <3>1, <3>2 DEF TokenInv
  <2> QED BY <1>6, <2>1, <2>5, <2>7, <2>8
<1>8. CASE Signal
  <2>1. /\ ReleaseToken /\ pc' = pc
        /\ tally' = [tally EXCEPT !.signals = @ + 1,
                                  !.lost = IF Full THEN @ + 1 ELSE @]
    BY <1>8 DEF Signal
  <2>2. /\ tally'.initial = tally.initial
        /\ tally'.signals = tally.signals + 1
        /\ tally'.lost = IF Full THEN tally.lost + 1 ELSE tally.lost
    BY <1>1, <2>1
  <2>3. ASSUME NEW q \in Task, q \notin Holders, ~Full,
               sem'.counter = sem.counter, resumed' = resumed \cup {q}
        PROVE  TokenInv'
    <3>1. Holders' = Holders \cup {q}
      BY <2>1, <2>3 DEF Holders
    <3>2. IsFiniteSet(Holders') /\ Cardinality(Holders') = C + 1
      BY <1>2, <2>3, <3>1, FS_AddElement
    <3>3. tally'.lost = tally.lost
      BY <2>2, <2>3
    <3> QED BY <1>2, <2>2, <2>3, <3>2, <3>3 DEF TokenInv
  <2>4. ASSUME resumed' = resumed PROVE Holders' = Holders
    BY <2>1, <2>4 DEF Holders
  <2>5. ASSUME ~Full, resumed' = resumed, sem'.counter = sem.counter + 1
        PROVE  TokenInv'
    <3>1. tally'.lost = tally.lost
      BY <2>2, <2>5
    <3> QED BY <1>2, <2>2, <2>4, <2>5, <3>1 DEF TokenInv
  <2>6. ASSUME Full, resumed' = resumed, sem'.counter = sem.counter
        PROVE  TokenInv'
    <3>1. tally'.lost = tally.lost + 1
      BY <2>2, <2>6
    <3> QED BY <1>2, <2>2, <2>4, <2>6, <3>1 DEF TokenInv
  <2> QED BY <1>6, <2>1, <2>3, <2>5, <2>6
<1> QED
  BY <1>3, <1>4, <1>5, <1>7, <1>8 DEF SemaphoreNext, CoreStep, svars

LEMMA TokenInvariant == ~AppMayDisable => (SemaphoreSpec => []TokenInv)
<1> SUFFICES ASSUME ~AppMayDisable PROVE SemaphoreSpec => []TokenInv
  OBVIOUS
<1>1. WaitInv /\ TokenInv /\ [SemaphoreNext]_svars => TokenInv'
  BY StepTokenInv
<1> QED BY <1>1, InitTokenInv, WaitInvariant, PTL DEF SemaphoreSpec

(***************************************************************************)
(* The state of the kernel and of the semaphore always has its type: in    *)
(* particular the counter stays within its limit.                          *)
(***************************************************************************)
THEOREM SemaphoreTypes == ~AppMayDisable => (SemaphoreSpec => []SemaphoreTypeOK)
<1>1. WaitInv => SemaphoreTypeOK
  BY DEF WaitInv
<1> QED BY <1>1, WaitInvariant, PTL

(***************************************************************************)
(* os_semaphore.c, which edits the active list without the checks of       *)
(* os_core.c, does nothing to the kernel that the kernel's own calls could *)
(* not do: all that is proved of OsCore holds with a semaphore.            *)
(***************************************************************************)
THEOREM SemaphoreImplementsCore == ~AppMayDisable => (SemaphoreSpec => Spec)
<1> SUFFICES ASSUME ~AppMayDisable PROVE SemaphoreSpec => Spec
  OBVIOUS
<1>1. SemaphoreInit => Init
  BY DEF SemaphoreInit
<1>2. WaitInv /\ [SemaphoreNext]_svars => [Next]_vars
  BY SemaphoreStepIsCoreStep
<1> QED BY <1>1, <1>2, WaitInvariant, PTL DEF SemaphoreSpec, Spec

(***************************************************************************)
(* Tokens are neither made nor lost but for releases at the limit, and     *)
(* there are no more of those than signals.                                *)
(***************************************************************************)
THEOREM SemaphoreConserves == ~AppMayDisable => (SemaphoreSpec => []TokensConserved)
<1>1. TokenInv => TokensConserved
  BY DEF TokenInv, TokensConserved
<1> QED BY <1>1, TokenInvariant, PTL

(***************************************************************************)
(* No task waits while there is a token, and the queue holds the tasks     *)
(* that are suspended, once each.                                          *)
(***************************************************************************)
THEOREM SemaphoreLeavesNobody ==
  ~AppMayDisable => (SemaphoreSpec => []NobodyLeftBehind)
<1>1. ASSUME WaitInv PROVE NobodyLeftBehind
  <2>1. sem.queue \in Seq(Task) /\ IsInjective(sem.queue)
    BY <1>1 DEF WaitInv, SemaphoreTypeOK, Semaphore
  <2>2. Len(sem.queue) = Cardinality(ToSet(sem.queue))
    BY <2>1, QueueLength
  <2> QED BY <1>1, <2>2 DEF WaitInv, NobodyLeftBehind
<1> QED BY <1>1, WaitInvariant, PTL

(***************************************************************************)
(* "The highest priority goes first": the queue stays sorted by the        *)
(* priorities of the tasks that wait, as long as nobody changes those.     *)
(***************************************************************************)
THEOREM SemaphoreQueueSorted ==
  ~AppMayDisable => (SemaphoreSpec => []Sorted(sem.queue, prio))
<1>1. WaitInv => Sorted(sem.queue, prio)
  BY DEF WaitInv
<1> QED BY <1>1, WaitInvariant, PTL

(***************************************************************************)
(* Whatever the tasks do, the elements on their stacks are linked as the   *)
(* queue says, and each call of os_queue.c on them leaves the links of the *)
(* queue it means.  An element is a place in memory: there are finitely    *)
(* many, which is why a loop along a queue comes to its end.               *)
(***************************************************************************)
THEOREM SemaphoreLinks ==
  ~AppMayDisable /\ IsFiniteSet(Task) => (SemaphoreSpec => []QueueLinks)
<1> SUFFICES ASSUME ~AppMayDisable, IsFiniteSet(Task)
             PROVE  SemaphoreSpec => []QueueLinks
  OBVIOUS
<1>1. ASSUME WaitInv PROVE QueueLinks
  <2> DEFINE q == sem.queue
             m == Links!Linked(q, Links!First)
  <2>1. /\ q \in Seq(Task) /\ IsInjective(q) /\ Sorted(q, prio)
        /\ \A p \in Task : prio[p] \in Nat
    BY <1>1, TaskLevels DEF WaitInv, SemaphoreTypeOK, Semaphore
  <2>2. Links!First \in Links!Cell
    BY DEF Links!Cell
  <2> HIDE DEF q
  <2>3. /\ m \in [next : [Links!Cell -> Links!Cell], prev : [Links!Cell -> Links!Cell]]
        /\ Links!Represents(m, q)
    BY <2>1, <2>2, LinkedIsQueue DEF Links!DoublyRepresents
  <2> HIDE DEF m
  <2>4. /\ \A p \in Task \ ToSet(q) :
             Links!Represents(Links!AddSort(m, p, prio), Added(q, p, prio))
        /\ q # <<>> => Links!Represents(Links!Pop(m), Tail(q))
        /\ \A p \in Task : Links!Represents(Links!QueueRemove(m, p), Without(q, p))
    BY <2>1, <2>3, SinglyLinked
  <2> QED BY <2>1, <2>4 DEF QueueLinks, q, m
<1> QED BY <1>1, WaitInvariant, PTL

-----------------------------------------------------------------------------
(* The promise.                                                            *)

(***************************************************************************)
(* A release frees a token in the sense of TokenPool, for whoever else     *)
(* holds one.                                                              *)
(***************************************************************************)
LEMMA ReleaseFrees ==
  ASSUME WaitInv, ReleaseToken, prio' = prio, NEW rest,
         Holders' = rest \cup (resumed' \ resumed)
  PROVE  Pool!Freed(rest)
<1>1. /\ sem \in Semaphore /\ sem.queue \in Seq(Task)
      /\ sem.counter \in 0 .. MaxCount /\ MaxCount \in Nat
      /\ ToSet(sem.queue) = {p \in Task : pc[p] = "waiting"} \ resumed
  BY SemaphoreAssumption DEF WaitInv, SemaphoreTypeOK, Semaphore, Counter
<1>2. CASE sem.queue # <<>>
  <2>1. /\ sem' = [sem EXCEPT !.queue = Tail(@)]
        /\ resumed' = resumed \cup {Head(sem.queue)}
    BY <1>2 DEF ReleaseToken, Full
  <2>2. Head(sem.queue) \in ToSet(sem.queue)
    BY <1>1, <1>2, TailElements
  <2>3. resumed' \ resumed = {Head(sem.queue)}
    BY <1>1, <2>1, <2>2
  <2>4. sem'.queue = Tail(sem.queue) /\ sem'.counter = sem.counter
    BY <1>1, <2>1 DEF Semaphore
  <2> QED BY <1>2, <2>3, <2>4 DEF Pool!Freed
<1>3. CASE sem.queue = <<>>
  <2>1. /\ resumed' = resumed
        /\ \/ sem' = [sem EXCEPT !.counter = @ + 1] /\ sem.counter < MaxCount
           \/ sem' = sem /\ sem.counter = MaxCount
    BY <1>1, <1>3 DEF ReleaseToken, Full
  <2>2. Holders' = rest
    BY <2>1
  <2>3. /\ sem'.queue = sem.queue
        /\ \/ sem'.counter = sem.counter + 1 /\ sem.counter < MaxCount
           \/ sem'.counter = sem.counter /\ sem.counter = MaxCount
    BY <1>1, <2>1 DEF Semaphore
  <2> QED BY <1>3, <2>2, <2>3 DEF Pool!Freed
<1> QED BY <1>2, <1>3

LEMMA StepPool ==
  ASSUME WaitInv, [SemaphoreNext]_svars
  PROVE  [Pool!Next]_Pool!vars
<1>1. /\ KernelInv
      /\ sem \in Semaphore /\ sem.queue \in Seq(Task)
      /\ sem.counter \in 0 .. MaxCount /\ MaxCount \in Nat
      /\ pc \in [Task -> {"out", "waiting", "in"}]
      /\ resumed \in SUBSET Task
      /\ ToSet(sem.queue) = {p \in Task : pc[p] = "waiting"} \ resumed
      /\ \A p \in ToSet(sem.queue) : ~Enabled(list, p)
      /\ \A p \in resumed : pc[p] = "waiting"
      /\ sem.queue # <<>> => sem.counter = 0
      /\ Sorted(sem.queue, prio)
  BY SemaphoreAssumption DEF WaitInv, SemaphoreTypeOK, Semaphore, Counter
<1>2. Pool!ToSet(sem.queue) = ToSet(sem.queue)
  BY DEF Pool!ToSet, ToSet
<1>3. CASE CoreStep
  <2>1. /\ UNCHANGED <<sem, pc, resumed>>
        /\ \A p \in Task : pc[p] = "waiting" => prio'[p] = prio[p]
    BY <1>3, CoreStepSparesWaiters
  <2>2. Holders' = Holders
    BY <2>1 DEF Holders
  <2>3. Pool!Relevel
    BY <1>1, <1>2, <2>1, <2>2 DEF Pool!Relevel
  <2> QED BY <2>3 DEF Pool!Next
<1>4. ASSUME NEW p \in Task, Take(p) PROVE [Pool!Next]_Pool!vars
  <2>1. pc[p] = "out" /\ UNCHANGED <<prio, resumed>>
    BY <1>4 DEF Take, At
  <2>2. p \notin Holders \cup ToSet(sem.queue)
    BY <1>1, <2>1 DEF Holders
  <2>3. CASE sem.counter > 0
    <3>1. /\ sem' = [sem EXCEPT !.counter = @ - 1]
          /\ pc' = [pc EXCEPT ![p] = "in"]
      BY <1>4, <2>3 DEF Take
    <3>2. sem.queue = <<>> /\ sem'.queue = sem.queue /\ sem'.counter = sem.counter - 1
      BY <1>1, <2>3, <3>1 DEF Semaphore
    <3>3. Holders' = Holders \cup {p}
      BY <1>1, <2>1, <3>1 DEF Holders
    <3>4. Pool!Take(p)
      BY <2>1, <2>2, <2>3, <3>2, <3>3 DEF Pool!Take
    <3> QED BY <3>4 DEF Pool!Next
  <2>4. CASE sem.counter = 0
    <3> DEFINE r == Added(sem.queue, p, prio)
               level == [x \in Task |-> prio[x]]
    <3>1. sem' = [sem EXCEPT !.queue = r] /\ pc' = [pc EXCEPT ![p] = "waiting"]
      BY <1>1, <1>4, <2>4 DEF Take
    <3>2. sem'.queue = r /\ sem'.counter = sem.counter
      BY <1>1, <3>1 DEF Semaphore
    <3>3. Holders' = Holders
      BY <1>1, <2>1, <3>1 DEF Holders
    <3>4. PICK k \in 1 .. Len(sem.queue) + 1 :
            /\ \A i \in 1 .. Len(sem.queue) :
                 i < k <=> prio[sem.queue[i]] <= prio[p]
            /\ r = InsertAt(sem.queue, k, p)
      BY <1>1, AddedInTurn, TaskLevels
    <3> HIDE DEF r
    <3>5. \A i \in 1 .. Len(sem.queue) :
            i < k <=> level[sem.queue[i]] <= level[p]
      BY <1>1, <3>4
    <3>6. r = Pool!InsertAt(sem.queue, k, p)
      BY <3>4 DEF Pool!InsertAt, InsertAt
    <3>7. Pool!Join(p)
      BY <1>2, <2>1, <2>2, <2>4, <3>2, <3>3, <3>5, <3>6 DEF Pool!Join
    <3> QED BY <3>7 DEF Pool!Next
  <2> QED BY <1>1, <2>3, <2>4
<1>5. ASSUME NEW p \in Task, TakeReturn(p) PROVE UNCHANGED Pool!vars
  <2>1. /\ cur = p /\ mode = "run" /\ pc[p] = "waiting"
        /\ pc' = [pc EXCEPT ![p] = "in"] /\ resumed' = resumed \ {p}
        /\ UNCHANGED <<prio, sem>>
    BY <1>5 DEF TakeReturn, At, Calling, vars
  <2>2. Enabled(list, p)
    BY <1>1, <2>1, KernelRunning
  <2>3. p \in resumed
    BY <1>1, <2>1, <2>2
  <2>4. Holders' = Holders
    BY <1>1, <2>1, <2>3 DEF Holders
  <2> QED BY <2>1, <2>4 DEF Pool!vars
<1>6. ASSUME NEW p \in Task, Release(p) PROVE Pool!Give(p)
  <2>1. /\ ReleaseToken /\ pc[p] = "in" /\ prio' = prio
        /\ pc' = [pc EXCEPT ![p] = "out"]
    BY <1>6 DEF Release, At
  <2>2. resumed \subseteq resumed'
    BY <2>1 DEF ReleaseToken
  <2>3. p \in Holders /\ p \notin resumed
    BY <1>1, <2>1 DEF Holders
  <2>4. Holders' = (Holders \ {p}) \cup (resumed' \ resumed)
    <3>1. {q \in Task : pc'[q] = "in"} = {q \in Task : pc[q] = "in"} \ {p}
      BY <1>1, <2>1
    <3> QED BY <2>2, <2>3, <3>1 DEF Holders
  <2>5. Pool!Freed(Holders \ {p})
    BY <2>1, <2>4, ReleaseFrees
  <2> QED BY <2>3, <2>5 DEF Pool!Give
<1>7. ASSUME Signal PROVE Pool!Signal
  <2>1. ReleaseToken /\ UNCHANGED <<prio, pc>>
    BY <1>7 DEF Signal
  <2>2. resumed \subseteq resumed'
    BY <2>1 DEF ReleaseToken
  <2>3. Holders' = Holders \cup (resumed' \ resumed)
    BY <2>1, <2>2 DEF Holders
  <2>4. Pool!Freed(Holders)
    BY <2>1, <2>3, ReleaseFrees
  <2> QED BY <2>4 DEF Pool!Signal
<1>8. CASE UNCHANGED svars
  <2>1. UNCHANGED <<sem, pc, resumed, prio>>
    BY <1>8 DEF svars
  <2> QED BY <2>1 DEF Pool!vars, Holders
<1> QED BY <1>3, <1>4, <1>5, <1>6, <1>7, <1>8 DEF SemaphoreNext, Pool!Next

(***************************************************************************)
(* The semaphore keeps the promise of TokenPool with any number of tasks,  *)
(* tokens and levels: through every hand-over and whatever runs between a  *)
(* release and the return of the take it ends, a token goes to the first   *)
(* in line, and the line is in the order of the priorities and, within one *)
(* priority, of the calls.                                                 *)
(***************************************************************************)
THEOREM SemaphoreImplementsPool ==
  ~AppMayDisable => (SemaphoreSpec => ImplementsPool)
<1> SUFFICES ASSUME ~AppMayDisable PROVE SemaphoreSpec => ImplementsPool
  OBVIOUS
<1>1. ASSUME SemaphoreInit PROVE Pool!Init
  <2>1. /\ sem.queue = <<>> /\ resumed = {} /\ sem.counter \in Counter
        /\ pc = [p \in Task |-> "out"]
    BY <1>1 DEF SemaphoreInit
  <2> QED BY <2>1 DEF Pool!Init, Holders, Counter
<1>2. WaitInv /\ [SemaphoreNext]_svars => [Pool!Next]_Pool!vars
  BY StepPool
<1> QED
  BY <1>1, <1>2, WaitInvariant, PTL DEF SemaphoreSpec, Pool!Spec, ImplementsPool
=============================================================================
