# A verification of eeOS

eeOS is a small real-time kernel for one processor (`os/`): tasks scheduled
round robin, mutexes, semaphores, events and software interrupts. Its state is
made of linked structures edited with interrupts masked; its hard part is what
happens between two critical sections, and what the pointers look like after a
long sequence of legal calls. This directory models the kernel in TLA+, checks
the models with TLC and proves theorems about them with TLAPS.

## 1. Inventory

| Part | State | Operations | Acts on |
|---|---|---|---|
| kernel core (`os_core.c`, `os_core.h`) | the *active process list*, a cycle of processes linked by `next`; `__os_current_process`; `status`, `type`, `priority`, `priority_counter` of a process; `os_app`, the process of `main()` | enable, disable, yield, start, set priority, scheduler, tick | everything runs on it |
| tasks (`os_task.*`) | stack, options | create, delete, enable, disable, priority, delay | core |
| mutex (`os_mutex.*`) | `is_locked`, `process`, queue of waiting processes | lock, unlock, event trigger | core, queues |
| semaphore (`os_semaphore.*`) | `counter`, `max`, queue of waiting processes | take, release, event trigger | core, queues |
| queues (`os_queue.*`) | singly and doubly linked elements on the waiting processes' stacks | sorted add, pop, remove | - |
| events (`os_event.*`) | list of active events, one doubly linked queue of sleeping processes each, ring of the elements of one sleeper | sleep, register, event scheduler | core, queues; calls the triggers of mutex and semaphore |
| software interrupts (`os_interrupt.*`) | a process without a stack | trigger, handler | core |
| statistics, trace (`os_statistics.*`, `os_debug.*`) | cycle counters, a log | queries | reads core |
| port (`os/port/avr32_uc3`) | registers, timer | context switch by `scall`, by the tick | calls the scheduler |

How they interact. All parts share the active list. A call that blocks takes
the running process off the list (`__os_process_disable_naked`), puts an
element on its own stack in a queue and switches; whoever unlocks, releases or
triggers pops the element and puts its process back
(`__os_process_enable_naked`). The blocked call then returns without looking
at the mutex or semaphore again: ownership is *handed over*. `os_app` is on the
list only while no task is active, as the application process, or, while tasks
sleep on events, as the event process.

What is hard, and what correctness means for each part:

- *Core.* The running process may be off the list (`os_app` beside a task, or a
  task that has just disabled itself), its `next` pointer then decides who runs.
  Searches and the scheduler loop have no exit but success, with interrupts
  masked. Correct: the list is always one cycle of exactly the active processes;
  nothing that is disabled runs; every loop ends; every active task gets turns.
- *Mutex.* The owner check is not in the critical section; a hand-over is in
  flight until the new owner is scheduled. Correct: mutual exclusion, no task
  left behind, only the owner unlocks, every waiter is served.
- *Semaphore.* A token handed over is in no counter; a release at the limit is
  dropped. Correct: tokens are conserved, nobody waits beside a free token.
- *Queues.* Sorted by priority, first come first served within a priority,
  fixed when the element is added.
- *Events.* A task sleeps in several queues at once; the scheduler of events
  edits queues while it walks them. Correct: a pending task is in the queue of
  each of its events and nowhere else once woken; a pass ends.
- *Interrupts.* A software interrupt is a process without a stack: it starts
  below the saved stack of `os_app`, with interrupts enabled, and leaves the
  list in its handler. Correct: nothing overwrites it while a tick has
  preempted it, neither another interrupt nor `os_app`, which has the same stack;
  a handler that has emptied the list finds a way back; each
  trigger is followed by a call.
- *Life of a task.* `os_task_create` allocates the stack in no critical section
  and enables the task in one; `os_task_delete` disables the task in a critical
  section and frees the stack after it. Correct: nobody runs on a stack that is
  freed, is about to be, or is another's; a stack is lost only with a task that
  deletes itself, or that is deleted in the middle of one of these calls.
- *Delay.* The tick counter wraps and is read several times. Correct: a delay is
  long enough, and ends.
- *Statistics.* A walk around the list, in no critical section, while the list
  changes. Correct: it ends, and is exact when the list did not change.

`PROJECT.json` lists the hazards line by line, with the properties that cover
them.

## 2. Modules

```
ProcessList  <-- OsCore <-- OsCoreRefinement --(instance)--> RunQueue
     ^             ^  ^
     |             |  +-- OsMutex     --> ProcessQueue    --(instance)--> TokenPool
     |             |  +-- OsSemaphore --> ProcessQueue    --(instance)--> TokenPool
     |             |  +-- OsEvent     --> ProcessQueue    --(instance)--> EventBoard
     |             |  +-- OsInterrupt <-- OsInterruptEvent
     |             |  +-- OsTask
     |             +----- OsDelay
     +-- ProcessQueue --(instance)--> OsQueue

ProcessProofs <-- OsCoreProofs <-- OsMutexProofs, OsSemaphoreProofs, OsTaskProofs,
                                   OsDelayProofs, OsInterruptProofs, OsEventProofs
```

Each module of proofs also extends the module it is about; `OsCoreProofs`
extends `OsCoreRefinement`.

**ProcessList** is the active list as data: a record of `next`, `status` and the
type of `os_app`. The functions of `os_core.c` are operators from a list to the
list after the call, so that the modules above compose them in one step, as the
code does inside one critical section. Nothing assumes a well formed list: the
loops that search it are modelled by `Reach` (what a walk along `next` meets),
`HasPred` (the search ends) and `Pred` (where it ends). `next` of a process
that leaves the list keeps its value, as in the code.

**OsCore** adds who runs. `mode` is `run` while `cur` executes code,
`sched` inside `__os_scheduler`, and `hung` in a search without end.

| action | code |
|---|---|
| `Create(p, enable)` | `os_task_create`, with or without `OS_TASK_DISABLE` |
| `EnableCall`, `DisableCall` | `os_task_enable`, `os_task_disable` and the switch of a task that disables itself |
| `Yield`, `Start` | `os_yield`, `os_start` |
| `SetPriority`, `SetPriorityCounter` | the two stores of `__os_process_set_priority`, in no critical section, each its own step |
| `Tick` | `os_switch_context_int_handler`, between any two steps of the running process |
| `Schedule` | one pass of the loop of `__os_scheduler`: its termination is checked, not assumed |

A critical section is one step, because interrupts are masked. With
`MaxLevel = 0` the scheduler is the one of the build without priorities.

**RunQueue** is the promise of the core without pointers: a queue of tasks, a
visit that moves the head to the end, tasks that enter and leave anywhere while
the others keep their order. **OsCoreRefinement** reads that queue off the list
and states `ImplementsRunQueue`. `Order` is the sequence of the active tasks, each
once for as many as there are, that a walk along `next` from the current process
meets (`Follows`). Where a task enters is a matter of its own, and the code and
its documentation differ on it: `EntersAtPlace` is what the code does
(`PlaceInOrder`), which is proved; `EnabledLast` is what `os_core.h` says of
`CONFIG_OS_PROCESS_ENABLE_FIFO`, which fails (finding 1).

**ProcessQueue** is the sorted insertion of `os_queue_add_sort` on sequences
of processes (`Place`, `Added`), and the removal of elements (`Kept`,
`Without`). **OsQueue** has the same queues in memory: the `next` and `prev`
fields of the elements, of the pointer to the first one, and of the null
pointer; one operator per function of `os_queue.c` and `os_queue.h`. A loop along
a queue is `WalkEnd`: it goes on past the elements it is told to, as often as
there are processes, which no queue is longer than. The two are
tied by invariants of the modules that use queues, `QueueLinks` of OsSemaphore and
`EventLinks` of OsEvent: in every reachable queue, each operation on the links
gives the links of the sequence that the operation on sequences gives, whatever
is held by the fields that the code has not written yet.

**TokenPool** and **EventBoard** are what the objects promise the tasks, with no
list, no kernel and no steps inside a call. In TokenPool there are tokens and a
line: a token that comes free while somebody waits goes to the first in line and
to nobody else, and nobody joins the line in front of one with the same or a
higher priority. A mutex implements it with one token, a semaphore with
several (`ImplementsPool` of OsMutex and of OsSemaphore; `Holders`, who has a
token, is read off the positions of the tasks, the hand-over in flight
included). In EventBoard users ask for several objects at once and get one, in
their turn, leaving all the other queues in the same step; the line of an object goes
before those who ask for it. OsEvent implements it (`ImplementsBoard`; `Had` is
read off `with` and the queues of the mutexes).

**OsMutex** and **OsSemaphore** each add one object and the position of each
task in its calls. `Lock`, `Unlock`, `Take`, `ReleaseToken` are the critical
sections; the return of a blocked call (`LockReturn`, `TakeReturn`) and the
owner check (`UnlockCheck`) are steps of their own, since ticks fall around
them. `CoreStep` says which calls of the core are made beside them. `tally` and
`resumed` of OsSemaphore are history, for the properties.

**OsEvent** puts the event process on the core: `queue[e]` is the queue of
event `e`, `active` the list from `__os_current_event`, `relation[p]` the other
elements of a sleeper, `pass` the locals of the event scheduler and `at` where
`os_app` is in the loop of `os_start`. Behind each event is one mutex or one
semaphore, which tasks also lock directly.

| action | code |
|---|---|
| `Sleep(p, es)` | `__os_process_sleep` on the events `es`, in order: disable, mark pending, register each event (`os_app` becomes the event process), switch |
| `SleepReturn` | its end, once the task runs again |
| `CallScheduler` | the test in the loop of `os_start` |
| `BeginPass` | the event scheduler up to its outer loop; with no event left it disables its own process and is switched away right there (`at = "resume"`) |
| `Examine` | one pass of the inner loop: trigger, wake, unlink the other elements |
| `EndPass` | the collection of empty events and the switch, also of an `os_app` that comes back from "resume" |
| `Lock`, `Unlock`, `Release` | direct calls on the objects, with hand-over |

The steps of OsCore in between (`CoreStep`) are the ones of a program whose
`main()` or idle hook sets the priorities, of tasks that wait for nothing.

Interrupts stay masked from `BeginPass` to the switch of `EndPass` (`mode =
"events"`), yet each pass of the loop is a step, so that its end is checked
(`PassEnds`). The queues are sequences here; `EventLinks` says that the doubly
linked queue is such a sequence. It writes through a null pointer when it pops
its last or inserts its first element (`os_queue.h:386`, `:429`): the cell
`Null` of OsQueue takes that store, and no link is ever read from it. On the
UC3, where the internal memory begins at address 0, a word of memory may be
overwritten; what is in it is not modelled.

**OsInterrupt** adds software interrupts. `at[i]` is where the handler is, `sp`
which interrupts have a stack pointer, `frame` what lies below the stack pointer
saved in `os_app`.

| action | code |
|---|---|
| `CreateInterrupt`, `Trigger` | `os_interrupt_create`, `os_interrupt_trigger` |
| `HandlerEnter` | `__os_interrupt_handler` up to the user's function: critical section, off the list |
| `HandlerCall` | the user's function enables a process, at most `HandlerCalls` times, itself included |
| `HandlerEnd` | the switch at its end, with the post hook, which forgets the stack pointer |
| `ScheduleHooked` | the scheduler with the pre hook, which starts an interrupt that has no stack pointer |
| `TickUnmasked` | a tick, also between the first instruction of the handler and its critical section |

In OsInterrupt no task sleeps on events, so that `os_app` is on the list as the
application process only, alone. **OsInterruptEvent** adds tasks that sleep
(`Sleep`) and the passes of the event scheduler (`EventPass`, and `EventResume` for
one that was switched away inside `__os_process_event_disable`): `os_app` is then on
the list beside others, and its frames are where a started interrupt has its
context. A pass wakes any sleeper or none; the events themselves are OsEvent's.

**OsTask** is the life of tasks and a walk of the statistics. `os_task_create` is
two steps: `Allocate`, up to the return of `os_malloc`, which gives a block from
the heap or nothing, and `CreateTask`, the critical section that enables the task
with the initialisation before it, which nobody else can see. `os_task_delete` is
two steps, `Delete` and `FreeStack`, since the call of `os_free` is in no critical
section. Between them ticks fall, other tasks make the same calls, and the caller
may itself be deleted. `creates[p]` is the task whose stack `p` has allocated,
`frees[p]` the one whose stack it still has to free. The walk,
`WalkStart` and one `WalkStep` for each pass, goes on while tasks are created
and deleted. `lost` and the fields `sum` and `same` of a walk are history.

**OsDelay** adds `os_tick_counter`, a number modulo `TickRange`, and
`os_task_delay`: each of its reads of the counter is a step (`DelayStart`,
`DelayRead`, `DelayFirst`, `DelaySecond`), the loops yield between two of them.
`left` is history: the ticks still missing.

Operators whose comment begins with "Mutant" are deliberate errors; nothing
refers to them. Each shows that the property it is listed with in
`PROJECT.json` can fail.

## 3. Runs

| run | shows |
|---|---|
| `core_prio` | two tasks, two levels, every call and tick in any order: the list stays one cycle, `os_app` only alone; no disabled task runs; every search and the scheduler end; round robin |
| `mutex` | three tasks: exclusion, nobody left behind, only the owner releases, every waiter served; the mutex implements `TokenPool`, and the list, with FIFO insertion, `RunQueue` |
| `semaphore` | three tasks, two tokens, two levels, one signal: conservation, the limit drops only signals, nobody waits beside a token, the queue in order and its links whole, every active task runs, every waiter served; the semaphore implements `TokenPool` |
| `event` | two tasks, two levels, a mutex event and a semaphore event, sleeping on either or both in any order, direct locks, suspension and ticks beside: the ring with its third kind of process, no sleeper unseen, no element of a task that has woken, each object held once, the links of the event queues, each pass ends, every sleeper wakes; all of it implements `EventBoard` |
| `interrupt` | one software interrupt, two tasks, two levels: the ring, an interrupt preempted at its entry comes back and one triggered again starts anew, the way back to the list, every trigger runs the handler |
| `task` | three tasks, three stacks, a walk: no stack in use is freed or given twice, a stack is lost only with a task that deletes itself or is deleted in a call that creates or deletes, the walk is exact on a list that stays, and ends on one that changed |
| `delay` | two tasks, a counter of six values: no delay clear of the wrap is too short, each ends |
| `core_fifo` | *violated*: see finding 1 |
| `event_hang` | *violated*: see finding 2 |
| `interrupt_lost` | *violated*: see finding 3 |
| `interrupt_overwritten` | *violated*: see finding 4 |
| `delay_early` | *violated*: see finding 5 |

The types of OsMutex, OsDelay and OsEvent are in no run; they are proved.
OsInterruptEvent is there for the run that fails; it has no passing run.

### Findings

1. `EnabledLast`. `os_core.h:251` says that with `CONFIG_OS_PROCESS_ENABLE_FIFO`
   the process enabled goes to the end of the list and is called last. The
   loop that looks for the end (`os_core.c:131`) stops at the process in front of
   `__os_current_process->next`, which is the current process itself when it is on
   the list. In the counterexample `t1` and `t2` are active, `t1` runs and enables
   `t3`: the scheduler calls `t3` before `t2`. The documented order holds only for a
   caller off the list, as `main()` is. Without FIFO `os_core.h:257`
   draws the process enabled as the first one; the code inserts it behind the next
   one, as the second, whoever calls, unless no other task is active (`PlaceInOrder`).
2. `PassEnds`. The inner loop of the event scheduler repeats while `status` is
   `OS_EVENT_OK_CONTINUE`, and writes `status` only while the event has a
   sleeper. A semaphore event that wakes its last sleeper with tokens left
   answers CONTINUE, and the loop has no end, with interrupts masked. With
   mutexes and semaphores of one token, as in the run `event`, it ends. (In the
   counterexample the system stands still: the pass changes nothing.)
3. `RingIntact`. Whether the list is empty is read off the type of the process at
   the insertion point. A handler that was alone on the list leaves it pointing
   to `os_app`, whose type does not change when a task takes its place: the
   second task the handler enables takes that place again, looped alone, and the
   first is active and never scheduled. With one call per handler, as in the run
   `interrupt`, this cannot happen; nor when the handler is not alone.
4. `ContextIntact`. `os_interrupt.h` says that a software interrupt "will not be
   interrupted by the process scheduler" and that it uses the stack of the
   application process. But it starts with interrupts enabled, and a tick may
   switch it away before its handler masks them. In the counterexample `i1` is
   parked at its entry, below the stack pointer saved in `os_app`; `i2` is picked
   next and started from the same pointer (`os_interrupt.h:55`), over what is kept of
   `i1`, which is active and will go on from there. One interrupt is enough
   when tasks sleep on events: `os_app` is on the list as the event process, is picked
   while the interrupt is parked below it, and runs on over it (with
   `MCInterrupt == {i1}` and `i1` and a task alone, `interrupt_overwritten` fails that way).
   What cannot happen is proved: without events only the start of another
   interrupt overwrites a context (`OnlyStartsOverwrite`), without ticks nothing does.
5. `DelaysLongEnough`. When `start + n` wraps, the first loop waits while the
   counter is above `start`. It is not, until the first tick, and the
   second loop's end is already behind: the delay returns at once. Otherwise no
   delay is too short: `UnwrappedLongEnough` in the run `delay`.

More disagreements show under values of the constants that no listed
configuration takes; each is a change of a few lines of a configuration:

- `OnceEach = FALSE` in `mutex.cfg`, with `Suspends = FALSE` and `MutexSpec`:
  `OnlyOwnerUnlocks` fails. "Only the process which locked the mutex can unlock it",
  says `os_mutex.c:84`, but the check on the next line is made outside the
  critical section, on a field that `os_mutex_create` does not write and
  `os_mutex_unlock` does not clear. In the shortest trace the field names, from the
  start, a task that has never locked: it unlocks, passes the check, is preempted
  before the critical section, and releases the mutex that another task has locked by
  then. A surplus unlock by a former owner passes the check in the same way. With
  one unlock for each lock neither can happen: the run `mutex`.
- `AppMayDisable = TRUE` in `core_prio.cfg`: `OnlyEnabledRuns` and `RingIntact`
  fail. When `main()` or the idle hook disables a task, `os_app` is off the list and may
  still point to it; the next switch runs it, until its next switch.
  `os_core.h:412` says of it that "it is simply disabled". A task that is
  deleted so may run on a stack that is freed.
- `Wakes = TRUE` in `event.cfg`, with the invariant `AllPending`: "This should never
  happen", says `os_event.c:212` of a process in an event queue that is not
  pending; `os_task_enable` of a sleeping task makes it happen.
- `Fifo = TRUE` in `semaphore.cfg`, with `Preemptive = FALSE` and
  `SemaphoreCooperativeSpec`: `EveryActiveTaskRuns` fails. Two tasks that resume
  each other are inserted next to the current process and shut out a third.

### Bounds

- Two tasks in `core_prio`: the list operations tell apart the current process,
  the one inserted or removed, its neighbour and `os_app`; `core_fifo`, `mutex`
  and `semaphore` have three, the least with which an order can be wrong and a
  third task be shut out. The proofs of section 5 have no bound.
- `MaxLevel = 1`: a process either takes its turn or passes once. `core_fifo`,
  `mutex`, `task` and `delay` have one level, since priorities only choose among
  visits there, or do nothing; the order by priority is checked in `semaphore` and
  `event`, and first come first served within a priority in all three.
- `MaxCount = 2`, `MaxSignals = 1`, any initial count: tokens that are scarce, in
  excess, and dropped at the limit. `MaxSignals` is the one bound on a counter.
- `event`: two tasks and two events are the least in which a sleeper has a
  second element to unlink, an event has a second sleeper, and the list of
  events is collected in the middle; each event is in front of the other in
  some order of arguments. That a direct lock waits beside a sleeper of the
  same mutex takes a third task and is not reached: with three the state space
  is too large for a run, and it is left to the proofs. `MaxCount = 1` keeps clear
  of finding 2. The priorities are set by `main()` and the idle hook only, as in
  `mutex` and `semaphore`.
- `interrupt`: one interrupt and two tasks, so that it may be alone, first, or
  between them; its properties hold for any number of interrupts, by section 5, and
  what two do to each other is finding 4. `HandlerCalls = 1`
  keeps clear of finding 3, and is enough for a handler that triggers itself.
- `task`: three tasks and as many blocks: the one who deletes, the one deleted,
  and one created in the block that comes free, or whose creator is deleted; a walk by one task
  (`Walkers`). Two walks do not meet: a walk writes nothing but its locals.
- `delay`: six values of the counter and delays of one and two ticks: the delay
  may start anywhere before the wrap, at it, and after it. `Margin = 3` is the number of
  values among which a task sees one, two tasks and `os_app` taking turns; with
  2 the property fails. Nearer to the wrap a delay may miss every value
  between its end and the wrap, and go on for another round of the counter.
- The tasks of `mutex` and `semaphore` are created and given their priorities
  by `main()` or the idle hook, and nobody calls `os_task_enable` for a task
  that waits: what happens then is among the open hazards.

### Fairness

- `WF(Schedule)`: the processor executes the loop it is in.
- `WF(Tick)`: the timer is periodic and its request stays pending while
  interrupts are masked, so a process that runs is preempted in the end.
- `MutexFairSpec`, `SemaphoreFairSpec`: `SF` of the steps by which a task that
  has the mutex or a token goes on and gives it back. A task is enabled to step
  only while it has the processor, which preemption takes away again and again,
  so weak fairness would say nothing. Nothing makes a task lock or take.
- `EventFairSpec`: `WF(Examine \/ EndPass)`, the loop of the event scheduler,
  which nothing interrupts; `SF` of the steps of `os_app` in its loop and of
  tasks that hold an object, for the same reason. `EverySleeperWakes` is stated
  for runs in which, in the end, tasks outside the calls only sleep: a task
  that keeps locking directly may take the mutex each time before the
  event scheduler looks.
- `InterruptFairSpec`: `SF(HandlerEnter)`, since a tick may preempt the handler at
  its entry each time; `WF(HandlerEnd)`, since nothing preempts it inside.
- `TaskFairSpec`, `DelayFairSpec`: `SF` of the steps of a walk and of a
  delay, for the same reason as for locks. `SF(CountTick)`: a tick requested
  while interrupts are masked is taken when they are enabled. `fresh` says that
  a task that is resumed inside `os_task_delay` executes something before the next
  tick: the period of the tick is longer than a read and a compare.
- `SemaphoreCooperativeSpec`: `WF(Yield)`, the contract of cooperative tasks.
- `RoundRobin` and `EveryWaiterServed` are stated for runs that become quiet:
  priorities no longer change, tasks suspend each other no longer. A task that
  others suspend for ever, or that sits behind a counter that is set again
  before each of its turns, is owed nothing.

## 4. What the properties are not

`OnlyEnabledRuns` exempts `os_app`: `main()` goes on after it has made the
first task active, off the list. The order in `QueueLinks`, `ImplementsPool` and
`ImplementsBoard` holds while no priority of a waiting task changes. `StacksOwned` and `NothingElseLeaks` are for
callers that give a structure to `os_task_create` only while no other call creates or
deletes the task in it, and delete no task that waits in a queue; `lost` says
which blocks are lost, so that `NothingElseLeaks` fails for any other.
`EveryTriggerRuns` and `EveryDelayEnds` are for runs in which, in the end, priorities
or the list stay as they are. `ShareExact` is for the build without priorities:
with them the code divides by a counter that may be zero. `EveryWaiterServed`
is for equal levels: with levels, a waiting task can be overtaken by more urgent ones for ever, as the sort intends;
`EverySleeperWakes`, checked with two levels, is for runs in which they become equal (`Quiet`), for the same reason.
`ImplementsPool` and `ImplementsBoard` say who gets what, not that anybody gets anything: that is `EveryWaiterServed` and
`EverySleeperWakes`.
`mutex->process` starts arbitrary, as `os_mutex_create` leaves it.

## 5. Proofs

The theorems hold for every finite or infinite set of processes, every number
of levels, both insertion points (`Fifo`) and both schedulers, under the
hypotheses in the second column. But for *F*, each hypothesis excludes a
configuration in which the property is false:

- *N*: `~AppMayDisable`, `main()` and the idle hook disable no task (section 3).
- *O*: `OnceEach`, one unlock for each lock (section 3, after the findings).
- *H*: `HandlerCalls \in 0 .. 1`, a handler enables at most one process (finding 3).
- *W*: `~Wakes`, no task enables one that sleeps on events (section 3).
- *F*: `IsFiniteSet(Task)`. An element of a queue is a place in memory, and a
  loop along the links is bounded by their number.
- *C*: `~Preemptive`, the cooperative build, with no ticks (finding 4).

| theorem | under | property |
|---|---|---|
| `KernelTypes`, `KernelRing`, `KernelRunsEnabled`, `KernelSearchesEnd`, `KernelAppLast` | N | of OsCore: `TypeOK`; `RingIntact`, one cycle, the application process only alone; `OnlyEnabledRuns`; `NoEndlessSearch`; the action property `AppRunsLast` |
| `KernelImplementsQueue` | N | `ImplementsRunQueue`: `Spec => RQ!Spec` |
| `KernelEnters` | N | the action property `EntersAtPlace` |
| `MutexTypes` | N | `MutexTypeOK` |
| `MutexExcludes`, `MutexLeavesNobody`, `MutexOwnerUnlocks` | N, O | `MutualExclusion`, `NobodyLeftBehind`, the action property `OnlyOwnerUnlocks` |
| `MutexImplementsCore` | N | `MutexSpec => Spec` of OsCore, surplus unlocks included |
| `SemaphoreTypes`, `SemaphoreConserves`, `SemaphoreLeavesNobody` | N | `SemaphoreTypeOK`, `TokensConserved`, `NobodyLeftBehind` |
| `MutexImplementsPool` | N, O | `ImplementsPool` of OsMutex: `MutexSpec => Pool!Spec` |
| `SemaphoreImplementsPool` | N | `ImplementsPool` of OsSemaphore: `SemaphoreSpec => Pool!Spec` |
| `SemaphoreQueueSorted` | N | `Sorted(sem.queue, prio)`, the order of `QueueLinks` and of the line |
| `SemaphoreLinks` | N, F | `QueueLinks` |
| `SemaphoreImplementsCore` | N | `SemaphoreSpec => Spec` |
| `TaskTypes`, `TaskRing` | N | `TaskTypeOK`; the invariants of the core while tasks are deleted |
| `TaskStacks`, `TaskLeaks`, `TaskShare` | N | `StacksOwned`, `NothingElseLeaks`, the action property `ShareExact` |
| `DelayImplementsCore`, `DelayLongEnough` | - | `DelaySpec => Spec`; the action property `UnwrappedLongEnough` |
| `DelayTypes` | N | `DelayTypeOK` |
| `InterruptTypes`, `InterruptRing`, `InterruptWayBack` | N, H | `InterruptTypeOK`; `RingIntact` and `NoEndlessSearch` of OsCore; `BackOnRing` |
| `InterruptStartsAnew`, `InterruptOverwrites` | N, H | `StartsAnew`; the action property `OnlyStartsOverwrite` |
| `InterruptContext` | C | `ContextIntact` |
| `EventTypes`, `EventKeepsRing`, `SleepersArePolled`, `ElementsAreLive`, `ObjectsAreConserved` | W | of OsEvent: `EventTypeOK`, `EventRing`, `SleepersPolled`, `ElementsLive`, `ObjectsConserved` |
| `EventImplementsBoard` | W | `ImplementsBoard`: `EventSpec => Board!Spec` |
| `QueuesAreLinked` | W, F | `EventLinks` |
| `AllMetPending` | W | `AllPending` |

`OsEvent` needs a finite set of events, since a sleep has an argument for each;
that the processes may be infinitely many stands there too. N plays no part in
it: `os_app` calls `os_task_disable` in no step of that module.

**The list and the queues** (`ProcessProofs`). A cycle is an injective `next`
of which no proper part is closed (`OneCycle`), so inserting after a member and
removing a member are proved to keep it one cycle whatever its length, with no
induction: `PredOfActive` (a search that starts on the cycle ends, on the
cycle), `InsertionPointActive`, `EnableNakedKeeps`, `DisableNakedKeeps`. What is
needed of queues is that `Added` adds one process, keeps the others once each
and sorted (`AddedElements`), that a pop takes one (`TailElements`), and that a removal
keeps the rest (`KeptElements`). `Kept` is a recursive function: that its
equation has a solution at all, and what it is, is proved with the first length
for which it would fail. `MinOfNaturals` gets that minimum, and the one in
`Place`, from the well-founded order of finite sets, since no backend
instantiates the induction theorems.

**The links.** In memory a queue is the links between consecutive places of
`Line(q)`: the pointer to the first element, the elements, the null pointer. The
proof has one fact for each shape of edit, whatever function makes it:
`LinkedAt`, an element linked in behind place `k`, and `UnlinkedAt`, the element
at `k` unlinked, leave the links of the sequence with that element inserted or
removed, and the way back if it was there before. `WalkEnds` says where a loop
along the links stops: at the first place whose element it does not go past,
because no place is met twice and no queue has more elements than there are passes. `SinglyLinked` and
`DoublyLinked` then take the functions of `os_queue.c` one by one, with
`Place` (`AddedAt`) and `Without` (`WithoutOne`) for what the sequence does;
the stores through the null pointer fall on a cell that is in no place of the
line. `SemaphoreLinks` and `QueuesAreLinked` apply them to the reachable queues.

**The core.** `RingIntact` alone is not inductive: where a process is inserted
depends on the current process, which may be off the list. `KernelInv` adds that
the `next` of the current process is an active process, whether it is
active itself, `os_app`, or on its way out; the type of `os_app`;
`OnlyEnabledRuns`; that no search hangs; that enabled tasks are created.

**The queue the core promises.** A step of the list is a step of `RunQueue` once
it is known that the list has an order at all: a sequence `q` with every active
task once, each after its predecessor along `next`, the first after the current
process (`Ordered`). There is at most one (`OrderIs`: two walks that start
together never part) and it goes all the way around (`OrderCloses`: the last is
linked to the first, and the current process, when it is on the list, is the
last), so `Order` is it as soon as one is exhibited. `OrderInv` adds that to
`KernelInv` and is inductive: `EnterOrder` finds the place at which
`__os_process_enable_naked` has put the task, one case for each place of
`PlaceInOrder`, `LeaveOrder` the one from which `__os_process_disable_naked` has
taken it, and `VisitOrder` turns the order by one. `MutexImplementsCore`, `SemaphoreImplementsCore` and
`DelayImplementsCore` carry the result over to those modules.

**Mutex and semaphore.** `os_mutex.c` and `os_semaphore.c` edit the list with
the naked calls, without the checks of `os_core.c`. That each of their steps
is one of the core's needs that a task taken from a queue is created and not
enabled: `QueueInv` and `WaitInv` (what waits is suspended, once, and is in no
other call). With that, `MutexImplementsCore` and `SemaphoreImplementsCore` map
`Lock` to a `DisableCall`, `Unlock` to an `EnableCall`, and the rest to core
steps or stutters, and the invariant of the core is inherited instead of proved
again. `OwnerInv` ties `locked`, `process` and the positions of the tasks: one
task at most is between a hand-over and its unlock, the one `process` names, so
that the owner check, made before the critical section, still holds in it. `TokenInv` counts:
the counter, the tasks with a token, the tasks resumed with one and the dropped
signals add up.

**The pool.** The holders are a set read off the positions of the tasks, so each
step has to be shown to change it by one task and no other: with `OwnerInv` the
holder of a mutex is the one task `process` names, with `WaitInv` a task that a
semaphore has resumed is in no queue. `AddedInTurn` says that the place found by the
walk is the one the promise allows, which takes a queue that is sorted
already; so `Sorted` is part of `QueueInv` and `WaitInv`, and inductive because
`CoreStep` changes the priority of no task that waits. `StepPool` and `StepMutexPool` map each action.

**Life of a task.** `Delete` is no step of the core, which never takes a task
out of `created`, so `OsTaskProofs` proves the core's invariant again for it and
cites `OsCoreProofs` for the other actions.
`MemoryInv` adds in whose hands each block is: a created task, a call that is
about to enable its task or to free it (`Subject`), or nobody (`lost`), one of them
and once. `WalkInv` says what an unprotected walk stands on: a process that
was linked keeps a link (`EnableKeepsLinks`, `DisableKeepsLinks`), and, while
the list is the same, the tasks counted are those between the start and the
process at hand (`Counted`).

**Delay.** `DelayInv`: as long as neither the end of the delay nor the counter
has wrapped, the ticks still missing are the end minus the counter, and each
read is a value the counter had. `EndOfDelay` does the arithmetic modulo
`TickRange`, for every range.

**Interrupts.** The handler runs while off the list, so no step of it is a core
step either. `BackInv` weakens the core's fact about the current process to what
the handler leaves: its `next` is on the list, or it is `os_app` and that of
`os_app` is (`BehindApp`), which one more call would break (finding 3). An
interrupt parked at its entry is on the list, so that the handler that leaves
`BehindApp` has left none parked: this is why the scheduler never gives `os_app`, the
application process, its stack back while an interrupt is below it, and only a start
overwrites another's context (`StepOverwrites`). Without ticks `UninterruptedInv` is
enough: an interrupt that has started is the running process until it ends.

**Events.** The event process joins the cycle beside tasks (`EventProcessEnters`)
and leaves it from inside its own call (`EventProcessLeaves`), which may leave no
active process at all, so that the core's invariant does not hold. `RingInv` states it of
`Awake(list)`: an empty list is linked as if `os_app` were alone on it, and
insertion into it gives what insertion into that one gives (`EnableOnAwake`).
`SleepInv` is the agreement of three descriptions of who sleeps: the queues, `relation`
with the positions of the tasks, and the `pending` status, together with the
active event list; with it, the branch of the event scheduler for a
process that is not pending is dead. `ObjectInv` counts, for each event, what is free
and the tasks that have the object or were handed it (`Holders`). That a direct lock
waits beside a sleeper of the same mutex, which the run `event` does not reach
(section 3), is among the states the proof covers.

**The board.** `TurnInv` adds to that what the order of service needs: all queues are
sorted, and an object with a line is a mutex that is not free. The second half is
why the event scheduler, which looks only at whether the mutex is free, never
takes it for a sleeper before a task in the line; and why `os_semaphore_release` need not
look at a line. In `StepBoard` each step of the kernel and of the loops around the
event scheduler leaves the board alone (`BoardLeft`); a sleep asks for its objects
(`BoardSleep`), a pass that wakes takes the task out of every queue it is in, from
the front of one and from anywhere in the others (`BoardWake`,
`RemovedInTurn`), and `BoardLock`, `BoardUnlock`, `BoardRelease` are the direct calls.

**Only model-checked.** Liveness (`SchedulerReturns`, `RoundRobin`,
`EveryWaiterServed`, `EveryActiveTaskRuns`, `PassEnds`, `EverySleeperWakes`,
`EveryTriggerRuns`, `EveryDelayEnds`, `EveryWalkEnds`), out of reach of the
provers. Every invariant, action property and refinement of a passing run is
stated by a theorem above.

## 6. Not modelled

Registers and the setup of the timers (hardware); the trace and debug log and
the accounting of processor cycles (they feed nothing back); the getters of the
priority; the LIFO order of a queue, which nothing uses; the examples (users of
the kernel); the allocator, which is not part of eeOS: each call of it is a
step, though nothing keeps tasks from entering it twice; the optional sort and
start functions of an event, which no event of the kernel has; events made by
`os_event_create_from_function`, which keeps the address of a local variable, so
that what is called is anything; `os_interrupt_trigger_on_event`, an empty
stub; the statistics with priorities, where `os_core.h:660` returns a counter that
may be zero and the code divides by it.

## 7. Plan

Order, by how much can go wrong and how little a test would show:

1. *Done*: ProcessList, OsCore, RunQueue and its refinement, OsMutex,
   OsSemaphore and their refinement of TokenPool, OsEvent and its refinement of
   EventBoard, OsQueue, OsInterrupt, OsInterruptEvent, OsTask, OsDelay, and the proofs of section 5.
2. Tasks enabled or deleted while they wait for a mutex or semaphore;
   priorities that change while their task waits; an owner that locks again.
3. What an interrupt does whose context has been overwritten; events of OsEvent and
   software interrupts in one module.
