----------------------------- MODULE OsInterrupt -----------------------------
(***************************************************************************)
(* The software interrupts of eeOS (os/os_interrupt.c, os/os_interrupt.h)  *)
(* on the kernel core.  A software interrupt is a process without a stack: *)
(* when the scheduler picks it, the hook of os_interrupt.h gives it the    *)
(* memory below the saved stack pointer of os_app and loads a context that *)
(* starts __os_interrupt_handler.  The handler takes its process off the   *)
(* list and calls the user's function, interrupts masked; between its      *)
(* first instruction and os_enter_critical a tick may still fall.          *)
(*                                                                         *)
(* What the user's function may do is enable processes: tasks, or software *)
(* interrupts, its own included.                                           *)
(*                                                                         *)
(* No task sleeps on events in this module, so that os_app is on the list  *)
(* as the application process only.  OsInterruptEvent adds tasks that do,  *)
(* and os_app as the event process, which may be picked beside others.     *)
(***************************************************************************)
EXTENDS OsCore

CONSTANTS
  Interrupt,      \* the processes that are software interrupts
  HandlerCalls    \* how often a handler may call an enable function

ASSUME InterruptAssumption ==
  /\ Interrupt \subseteq Task
  /\ HandlerCalls \in Nat

VARIABLES
  at,      \* where each software interrupt is: "out" of its handler, at its
           \* "entry", interrupts enabled, or "inside", interrupts masked
  sp,      \* process->sp of an interrupt is not null
  frame,   \* the process whose frames are below the stack pointer saved in
           \* os_app, or on top of it: an interrupt, or os_app
  calls    \* calls made by the handler that runs

ivars == <<list, cur, mode, started, created, prio, pcnt, write,
           at, sp, frame, calls>>

context == <<at, sp, frame, calls>>

InterruptTypeOK ==
  /\ TypeOK
  /\ at \in [Interrupt -> {"out", "entry", "inside"}]
  /\ sp \in [Interrupt -> BOOLEAN]
  /\ frame \in Interrupt \cup {App}
  /\ calls \in 0 .. HandlerCalls

InterruptInit ==
  /\ Init
  /\ at = [i \in Interrupt |-> "out"]
  /\ sp = [i \in Interrupt |-> FALSE]
  /\ frame = App
  /\ calls = 0

-----------------------------------------------------------------------------
(* The scheduler with the hooks of os_interrupt.h.                         *)

\* __os_process_is_interrupt.
IsInterrupt(p) == p \in Interrupt

\* os_process_context_load: the context that starts the handler is written
\* below the stack pointer of os_app.
ContextLoad(p) ==
  /\ at' = [at EXCEPT ![p] = "entry"]
  /\ frame' = p

\* OS_SCHEDULER_PRE_INTERRUPT_HOOK, for the process picked: one that has a
\* stack pointer goes on with the stack it has.
Load(p) ==
  \/ /\ IsInterrupt(p) /\ ~sp[p]
     /\ sp' = [sp EXCEPT ![p] = TRUE]
     /\ ContextLoad(p)
  \/ /\ IsInterrupt(p) => sp[p]
     /\ frame' = IF p = App THEN App ELSE frame
     /\ UNCHANGED <<at, sp>>

\* A pass of the scheduler, which ends with the hook when it picks.
ScheduleHooked ==
  /\ Schedule
  /\ IF mode' = "run" THEN Load(cur') ELSE UNCHANGED <<at, sp, frame>>
  /\ UNCHANGED calls

\* Mutant: the hook is left out, the process keeps its stack pointer.
UnloadNot(p) == sp

\* OS_SCHEDULER_POST_INTERRUPT_HOOK, in the switch that a process asks for
\* (os_switch_context) and not in the one of the tick.
Unload(p) == [i \in Interrupt |-> sp[i] /\ i # p]

\* os_switch_context(true): nothing is saved, the post hook, the scheduler.
SwitchContext ==
  /\ mode' = "sched"
  /\ sp' = Unload(cur)

-----------------------------------------------------------------------------
(* The calls of tasks and of os_app.                                       *)

\* os_interrupt_create.
CreateInterrupt(i) ==
  /\ Calling
  /\ cur \notin Interrupt
  /\ i \in Interrupt \ created
  /\ created' = created \cup {i}
  /\ list' = ProcessCreate(list, i)
  /\ prio' = [prio EXCEPT ![i] = 0]
  /\ pcnt' = [pcnt EXCEPT ![i] = 0]
  /\ sp' = [sp EXCEPT ![i] = FALSE]
  /\ UNCHANGED <<cur, mode, started, write, at, frame, calls>>

\* os_interrupt_trigger.
Trigger(i) == i \in Interrupt /\ EnableCall(i) /\ UNCHANGED context

\* A process that asks for a switch passes the post hook, which clears
\* nothing of a task.
CallOfTask ==
  /\ cur \notin Interrupt
  /\ \/ cur = App /\ \E p \in Task \ Interrupt : Create(p, TRUE)
     \/ \E p \in Task \ Interrupt : EnableCall(p) \/ DisableCall(p)
     \/ \E i \in Interrupt, v \in Level : SetPriority(i, v)
     \/ SetPriorityCounter
     \/ created = Task /\ Start
     \/ Yield
  /\ UNCHANGED context

-----------------------------------------------------------------------------
(* The handler.                                                            *)

\* __os_interrupt_handler up to the call of the user's function.  Where an
\* interrupt goes on whose context has been overwritten is not described.
HandlerEnter(i) ==
  /\ mode = "run"
  /\ cur = i
  /\ at[i] = "entry"
  /\ frame = i
  /\ Edit(DisableNaked(list, i), ~HasPred(list.next, i), "run")
  /\ at' = [at EXCEPT ![i] = "inside"]
  /\ calls' = 0
  /\ UNCHANGED <<cur, started, created, prio, pcnt, write, sp, frame>>

\* The user's function enables a task or triggers a software interrupt.
HandlerCall(i, p) ==
  /\ cur = i
  /\ at[i] = "inside"
  /\ calls < HandlerCalls
  /\ EnableCall(p)
  /\ calls' = calls + 1
  /\ UNCHANGED <<at, sp, frame>>

\* The user's function returns, and __os_interrupt_handler ends.
HandlerEnd(i) ==
  /\ mode = "run"
  /\ cur = i
  /\ at[i] = "inside"
  /\ SwitchContext
  /\ at' = [at EXCEPT ![i] = "out"]
  /\ UNCHANGED <<list, cur, started, created, prio, pcnt, write, frame, calls>>

Handler(i) == HandlerEnter(i) \/ (\E p \in Task : HandlerCall(i, p)) \/ HandlerEnd(i)

\* A tick falls unless the handler has masked it; it saves the context of
\* the process it preempts, an interrupt included.
TickUnmasked ==
  /\ cur \in Interrupt => at[cur] # "inside"
  /\ Tick
  /\ UNCHANGED context

InterruptNext ==
  \/ \E i \in Interrupt : CreateInterrupt(i) \/ (cur \notin Interrupt /\ Trigger(i))
  \/ CallOfTask
  \/ \E i \in Interrupt : Handler(i)
  \/ TickUnmasked
  \/ ScheduleHooked

InterruptSpec == InterruptInit /\ [][InterruptNext]_ivars

\* The scheduler's loop goes on, the tick is periodic, and a handler that
\* is given the processor again and again reaches its critical section,
\* and from there its end.
InterruptFairSpec ==
  /\ InterruptSpec
  /\ WF_ivars(ScheduleHooked)
  /\ WF_ivars(TickUnmasked)
  /\ \A i \in Interrupt : SF_ivars(HandlerEnter(i)) /\ WF_ivars(HandlerEnd(i))

-----------------------------------------------------------------------------
(* Safety.                                                                 *)

\* "A software interrupt is a process which will not be interrupted by the
\* process scheduler.  An interrupt uses the same stack as the application
\* process": what is kept of one that has started is below the saved stack
\* pointer of os_app, and nothing else may be there until its handler ends.
ContextIntact == \A i \in Interrupt : at[i] # "out" => frame = i

\* Who can overwrite it: an interrupt that starts meanwhile, and nobody else;
\* os_app, as long as it is the application process, is never picked then.
OnlyStartsOverwrite ==
  [][\A i \in Interrupt :
       at[i] # "out" /\ frame = i /\ frame' # i
         => \E j \in Interrupt : at[j] = "out" /\ at'[j] = "entry"]_ivars

\* An interrupt that has been switched away at its entry is on the list, and
\* so is picked again; one in its user's function is never switched away; and
\* one that is triggered again after its end starts anew and is not resumed
\* where the switch at its end has left it.
StartsAnew ==
  /\ \A i \in Interrupt : at[i] = "entry" /\ mode # "hung" => Enabled(list, i)
  /\ \A i \in Interrupt : at[i] = "inside" => cur = i
  /\ mode = "run" /\ cur \in Interrupt => at[cur] # "out"

\* Only an interrupt in the user's function, and os_app from the call that
\* makes the first task active to the next switch, run off the list.  Such a
\* process still knows the way back: the process after it, or after os_app
\* when a handler that emptied the list has it next, is active.  The scheduler
\* never enters a list that is gone.
BackOnRing ==
  /\ mode = "run" => \/ Enabled(list, cur)
                     \/ cur = App
                     \/ cur \in Interrupt /\ at[cur] = "inside"
  /\ mode # "hung" =>
       LET p == list.next[cur] IN
       Enabled(list, p) \/ (p = App /\ Enabled(list, list.next[App]))

-----------------------------------------------------------------------------
(* Liveness, under InterruptFairSpec.                                      *)

\* "Manually trigger a software interrupt": each trigger is followed by a
\* call of the user's function, once nobody changes its priority.
EveryTriggerRuns ==
  <>[][UNCHANGED write]_ivars
    => \A i \in Interrupt : Enabled(list, i) /\ started ~> at[i] = "inside"
=============================================================================
