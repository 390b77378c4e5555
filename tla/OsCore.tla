------------------------------- MODULE OsCore -------------------------------
(***************************************************************************)
(* The kernel core of eeOS: the active process list, the scheduler, the    *)
(* calls that enable, disable and yield, and the tick interrupt            *)
(* (os/os_core.c, os/os_core.h, the public wrappers of os/os_task.h and    *)
(* the two context switches of os/port/avr32_uc3/uc3_port.c).              *)
(*                                                                         *)
(* A critical section (interrupts masked) is one action.  The scheduler's  *)
(* loop is not: each pass is an action, so that its termination is         *)
(* something to check.  Between two actions of the running process a tick  *)
(* may preempt it.                                                         *)
(***************************************************************************)
EXTENDS ProcessList

CONSTANTS
  MaxLevel,        \* priority values are 0 .. MaxLevel (enum os_priority)
  DefaultLevel,    \* CONFIG_OS_TASK_DEFAULT_PRIORITY
  Preemptive,      \* FALSE for CONFIG_OS_SCHEDULER_COOPERATIVE: no tick
  AppMayDisable    \* main() or HOOK_OS_IDLE may call os_task_disable

ASSUME CoreAssumption ==
  /\ MaxLevel \in Nat
  /\ DefaultLevel \in 0 .. MaxLevel
  /\ Preemptive \in BOOLEAN
  /\ AppMayDisable \in BOOLEAN

Level == 0 .. MaxLevel

VARIABLES
  list,      \* the active process list, see ProcessList
  cur,       \* __os_current_process
  mode,      \* "run": cur executes, "sched": __os_scheduler loops,
             \* "hung": a search of the list never ends, interrupts masked
  started,   \* os_start has been called
  created,   \* the tasks os_task_create has initialised
  prio,      \* process->priority
  pcnt,      \* process->priority_counter
  write      \* the second store of __os_process_set_priority a process owes

vars == <<list, cur, mode, started, created, prio, pcnt, write>>

\* What a pending second store is: the process written to and the value.
NoWrite == [proc |-> Null, level |-> 0]

TypeOK ==
  /\ list \in List
  /\ cur \in Proc
  /\ mode \in {"run", "sched", "hung"}
  /\ started \in BOOLEAN
  /\ created \in SUBSET Task
  /\ prio \in [Proc -> Level]
  /\ pcnt \in [Proc -> Level]
  /\ write \in [Proc -> [proc : Proc \cup {Null}, level : Level]]

Init ==
  /\ list = InitList
  /\ cur = App
  /\ mode = "run"
  /\ started = FALSE
  /\ created = {}
  /\ prio = [p \in Proc |-> 0]
  /\ pcnt = [p \in Proc |-> 0]
  /\ write = [p \in Proc |-> NoWrite]

-----------------------------------------------------------------------------
(* Calls of the running process.                                           *)

\* The running process is at a point where it may call the kernel.
Calling == mode = "run" /\ write[cur] = NoWrite

\* The list part of a call: the edited list, or a search without end.
Edit(l, hangs, next) ==
  /\ list' = IF hangs THEN list ELSE l
  /\ mode' = IF hangs THEN "hung" ELSE next

\* os_task_create: the structure is initialised, in one step since no other
\* process refers to the task yet, then enabled unless the
\* caller gave OS_TASK_DISABLE.  A failed allocation changes nothing.
Create(p, enable) ==
  LET fresh == ProcessCreate(list, p) IN
  /\ Calling
  /\ p \in Task \ created
  /\ created' = created \cup {p}
  /\ prio' = [prio EXCEPT ![p] = DefaultLevel]
  /\ pcnt' = [pcnt EXCEPT ![p] = DefaultLevel]
  /\ IF enable
     THEN Edit(Enable(fresh, cur, p), EnableHangs(fresh, cur, p), "run")
     ELSE list' = fresh /\ mode' = mode
  /\ UNCHANGED <<cur, started, write>>

\* os_task_enable, __os_process_enable.
EnableCall(p) ==
  /\ Calling
  /\ p \in created
  /\ Edit(Enable(list, cur, p), EnableHangs(list, cur, p), "run")
  /\ UNCHANGED <<cur, started, created, prio, pcnt, write>>

\* Mutant: a process that disables itself goes on.
DisableCallStays(p) ==
  /\ Calling
  /\ p \in created
  /\ cur = App => AppMayDisable
  /\ Edit(Disable(list, p), DisableHangs(list, p), "run")
  /\ UNCHANGED <<cur, started, created, prio, pcnt, write>>

\* os_task_disable, __os_process_disable: a process that disables itself
\* switches away.
DisableCall(p) ==
  /\ Calling
  /\ p \in created
  /\ cur = App => AppMayDisable
  /\ Edit(Disable(list, p), DisableHangs(list, p),
          IF p = cur THEN "sched" ELSE "run")
  /\ UNCHANGED <<cur, started, created, prio, pcnt, write>>

\* os_yield.
Yield ==
  /\ Calling
  /\ started
  /\ mode' = "sched"
  /\ UNCHANGED <<list, cur, started, created, prio, pcnt, write>>

\* os_start: set the tick up and yield for the first time.
Start ==
  /\ Calling
  /\ cur = App
  /\ ~started
  /\ started' = TRUE
  /\ mode' = "sched"
  /\ UNCHANGED <<list, cur, created, prio, pcnt, write>>

\* __os_process_set_priority: two stores, in no critical section.
SetPriority(p, v) ==
  /\ Calling
  /\ p \in created
  /\ prio' = [prio EXCEPT ![p] = v]
  /\ write' = [write EXCEPT ![cur] = [proc |-> p, level |-> v]]
  /\ UNCHANGED <<list, cur, mode, started, created, pcnt>>

SetPriorityCounter ==
  /\ mode = "run"
  /\ write[cur] # NoWrite
  /\ pcnt' = [pcnt EXCEPT ![write[cur].proc] = write[cur].level]
  /\ write' = [write EXCEPT ![cur] = NoWrite]
  /\ UNCHANGED <<list, cur, mode, started, created, prio>>

-----------------------------------------------------------------------------
(* The tick and the scheduler.                                             *)

\* os_switch_context_int_handler: the tick preempts the running process
\* anywhere, between the two stores of SetPriority too.
Tick ==
  /\ Preemptive
  /\ started
  /\ mode = "run"
  /\ mode' = "sched"
  /\ UNCHANGED <<list, cur, started, created, prio, pcnt, write>>

\* Mutant: the counter is decremented before it is tested.
ScheduleCountsFirst ==
  LET p == list.next[cur] IN
  /\ mode = "sched"
  /\ cur' = p
  /\ pcnt' = [pcnt EXCEPT ![p] = @ - 1]
  /\ mode' = IF pcnt[p] = 1 THEN "run" ELSE mode
  /\ UNCHANGED <<list, started, created, prio, write>>

\* Mutant: a process that is passed over keeps its counter.
ScheduleNoCountdown ==
  LET p == list.next[cur] IN
  /\ mode = "sched"
  /\ cur' = p
  /\ mode' = IF pcnt[p] = 0 THEN "run" ELSE mode
  /\ pcnt' = IF pcnt[p] = 0 THEN [pcnt EXCEPT ![p] = prio[p]] ELSE pcnt
  /\ UNCHANGED <<list, started, created, prio, write>>

\* Mutant: a process whose counter is zero keeps the processor.
ScheduleStays ==
  LET p == IF pcnt[cur] = 0 THEN cur ELSE list.next[cur] IN
  /\ mode = "sched"
  /\ cur' = p
  /\ \/ /\ pcnt[p] = 0
        /\ pcnt' = [pcnt EXCEPT ![p] = prio[p]]
        /\ mode' = "run"
     \/ /\ pcnt[p] # 0
        /\ pcnt' = [pcnt EXCEPT ![p] = @ - 1]
        /\ mode' = mode
  /\ UNCHANGED <<list, started, created, prio, write>>

\* One pass of the loop of __os_scheduler.
Schedule ==
  LET p == list.next[cur] IN
  /\ mode = "sched"
  /\ cur' = p
  /\ \/ /\ pcnt[p] = 0
        /\ pcnt' = [pcnt EXCEPT ![p] = prio[p]]
        /\ mode' = "run"
     \/ /\ pcnt[p] # 0
        /\ pcnt' = [pcnt EXCEPT ![p] = @ - 1]
        /\ mode' = mode
  /\ UNCHANGED <<list, started, created, prio, write>>

Next ==
  \/ \E p \in Task : \/ \E enable \in BOOLEAN : Create(p, enable)
                     \/ EnableCall(p)
                     \/ DisableCall(p)
                     \/ \E v \in Level : SetPriority(p, v)
  \/ SetPriorityCounter
  \/ Yield
  \/ Start
  \/ Tick
  \/ Schedule

Spec == Init /\ [][Next]_vars

\* The processor executes the scheduler's loop, and the tick is periodic:
\* its request stays pending while interrupts are masked.
FairSpec == Spec /\ WF_vars(Schedule) /\ WF_vars(Tick)

-----------------------------------------------------------------------------
(* Safety.                                                                 *)

\* Whatever processes call and wherever ticks fall, the active processes
\* form exactly one cycle, without the application process when a task is
\* active.  A process lost from the cycle is never scheduled again; a cycle
\* that skips its entry point is a search without end.
RingIntact == WellFormed(list)

\* The process that executes is on the list, or is os_app, which goes on
\* until its next switch after it has made the first task active.  The
\* status of a disabled process (os_core.h, enum os_process_status) promises
\* that it does not run.
OnlyEnabledRuns == mode = "run" => Enabled(list, cur) \/ cur = App

\* The kernel never enters a search of the list that has no end.
NoEndlessSearch == mode # "hung"

\* The application process is given the processor only when no task is
\* active (os_core.h, section_os_application).
AppRunsLast ==
  [][mode = "sched" /\ mode' = "run" /\ cur' = App => Active(list) = {App}]_vars

-----------------------------------------------------------------------------
(* Liveness, under FairSpec.                                               *)

\* The infinite loop of __os_scheduler always returns a process: "at least
\* 1 process should be on the active process list all the time".
SchedulerReturns == mode = "sched" ~> mode = "run"

\* Round robin: once processes stop changing the list and the priorities,
\* every active process is given the processor again and again.
Running(p) == cur = p /\ mode = "run"

RoundRobin ==
  (<>[]started /\ <>[][UNCHANGED <<list, write>>]_vars)
     => \A p \in Task : []<>(Running(p) \/ ~Enabled(list, p))
=============================================================================
