------------------------------- MODULE OsEvent -------------------------------
(***************************************************************************)
(* The events of eeOS (os/os_event.c, os/os_event.h) on the kernel core:   *)
(* tasks that sleep on several events at once, the event scheduler, which  *)
(* runs in the process os_app, and the events made from mutexes and from   *)
(* semaphores, one object behind each event.                               *)
(*                                                                         *)
(* A sleeping task has one queue element for each event it sleeps on, on   *)
(* its stack; the element of task p for event e is p in the queue of e.    *)
(*                                                                         *)
(* The event scheduler runs with interrupts masked.  Each pass of its main *)
(* loop is an action, so that its termination is something to check.       *)
(***************************************************************************)
EXTENDS OsCore, ProcessQueue

CONSTANTS
  Event,
  Kind,       \* what is behind an event: a mutex or a semaphore
  MaxCount,   \* the limit and initial count of the semaphores
  Wakes       \* tasks call os_task_enable for a task that sleeps

ASSUME EventAssumption ==
  /\ IsFiniteSet(Event)
  /\ Null \notin Event
  /\ Kind \in [Event -> {"mutex", "semaphore"}]
  /\ MaxCount \in Nat
  /\ Wakes \in BOOLEAN

VARIABLES
  queue,      \* event->queue, a sequence of tasks
  active,     \* the active event list, from __os_current_event
  pass,       \* the locals of __os_event_scheduler: the events still to
              \* examine, the one examined first, and `status`
  at,         \* where os_app is in the loop of os_start
  pc,         \* where each task is
  relation,   \* the events of the elements linked by `relation`
  with,       \* the event whose object a task has or waits for; for a
              \* task that sleeps, *event_triggered
  free,       \* sem->counter; for a mutex 0 when is_locked
  waiters,    \* mutex->queue
  owner       \* mutex->process

evars == <<list, cur, mode, started, created, prio, pcnt, write,
           queue, active, pass, at, pc, relation, with, free, waiters, owner>>

objects == <<free, waiters, owner>>
sleepers == <<pc, relation, with>>

\* enum os_event_status.
EventAnswer == {"none", "stop", "continue"}

EventTypeOK ==
  /\ list \in List
  /\ cur \in Proc
  /\ mode \in {"run", "sched", "events", "hung"}
  /\ pcnt \in [Proc -> Level]
  /\ queue \in [Event -> Seq(Task)]
  /\ active \in Seq(Event)
  /\ pass \in [todo : Seq(Event), status : EventAnswer]
  /\ at \in {"loop", "event", "resume"}
  /\ pc \in [Task -> {"out", "locking", "asleep", "in"}]
  /\ relation \in [Task -> SUBSET Event]
  /\ with \in [Task -> Event \cup {Null}]
  /\ free \in [Event -> 0 .. MaxCount + 1]
  /\ waiters \in [Event -> Seq(Task)]
  /\ owner \in [Event -> Task \cup {Null}]

Initially(e) == IF Kind[e] = "mutex" THEN 1 ELSE MaxCount

EventInit ==
  /\ Init
  /\ queue = [e \in Event |-> <<>>]
  /\ active = <<>>
  /\ pass = [todo |-> <<>>, status |-> "none"]
  /\ at = "loop"
  /\ pc = [p \in Task |-> "out"]
  /\ relation = [p \in Task |-> {}]
  /\ with = [p \in Task |-> Null]
  /\ free = [e \in Event |-> Initially(e)]
  /\ waiters = [e \in Event |-> <<>>]
  /\ owner = [e \in Event |-> Null]

\* __os_event_is_empty, and the opposite of __os_event_is_enabled.
IsEmpty(e) == queue[e] = <<>>

\* __os_process_is_pending.
IsPending(p) == list.status[p] = "pending"

\* __os_process_is_event, of os_app.
IsEvent(l) == l.appType = "event"

At(p, position) == Calling /\ cur = p /\ pc[p] = position

-----------------------------------------------------------------------------
(* The event process.                                                      *)

\* Mutant: the type of os_app is not set.
EventEnableUntyped(l) == Enable(l, cur, App)

\* Mutant: os_app is inserted without a look at its status.
EventEnableUnchecked(l) == [EnableNaked(l, cur, App) EXCEPT !.appType = "event"]

\* __os_process_application_enable.
ApplicationEnable(l) == [Enable(l, cur, App) EXCEPT !.appType = "application"]

\* __os_process_event_enable.
EventEnable(l) == [ApplicationEnable(l) EXCEPT !.appType = "event"]

\* __os_process_event_disable, but for the switch.
EventDisable(l) == IF IsEvent(l) THEN Disable(l, App) ELSE l

-----------------------------------------------------------------------------
(* Sleeping.                                                               *)

\* __os_event_register of p on each of the events es.
Registered(p, es) ==
  [e \in Event |-> IF e \in ToSet(es) THEN Added(queue[e], p, prio) ELSE queue[e]]

\* __os_event_enable of each of the events es that is not enabled: the last
\* one becomes the first of the active event list.
Activated(es) == Reverse(Kept(es, {e \in Event : IsEmpty(e)})) \o active

\* __os_process_sleep of the running task p on the events es, in the order
\* of the arguments.
Sleep(p, es) ==
  LET disabled == Disable(list, p)
      pending  == [disabled EXCEPT !.status[p] = "pending"]
  IN
  /\ At(p, "out")
  /\ \A e \in Event : p \notin ToSet(queue[e])
  /\ Edit(EventEnable(pending),
          DisableHangs(list, p) \/ EnableHangs(pending, cur, App), "sched")
  /\ queue' = Registered(p, es)
  /\ active' = Activated(es)
  /\ pc' = [pc EXCEPT ![p] = "asleep"]
  /\ relation' = [relation EXCEPT ![p] = ToSet(es)]
  /\ with' = [with EXCEPT ![p] = Null]
  /\ UNCHANGED <<cur, started, created, prio, pcnt, write, pass, at, objects>>

\* __os_process_sleep returns the event that has triggered, or null.
SleepReturn(p) ==
  /\ At(p, "asleep")
  /\ pc' = [pc EXCEPT ![p] = IF with[p] = Null THEN "out" ELSE "in"]
  /\ relation' = [relation EXCEPT ![p] = {}]
  /\ UNCHANGED <<vars, queue, active, pass, at, with, objects>>

-----------------------------------------------------------------------------
(* The calls on the objects.                                               *)

\* os_mutex_lock of the mutex behind e.
Lock(p, e) ==
  /\ At(p, "out")
  /\ Kind[e] = "mutex"
  /\ with' = [with EXCEPT ![p] = e]
  /\ \/ /\ free[e] = 1
        /\ free' = [free EXCEPT ![e] = 0]
        /\ owner' = [owner EXCEPT ![e] = p]
        /\ pc' = [pc EXCEPT ![p] = "in"]
        /\ UNCHANGED <<list, mode, waiters>>
     \/ /\ free[e] = 0
        /\ Edit(DisableNaked(list, p), ~HasPred(list.next, p), "sched")
        /\ waiters' = [waiters EXCEPT ![e] = Added(@, p, prio)]
        /\ pc' = [pc EXCEPT ![p] = "locking"]
        /\ UNCHANGED <<free, owner>>
  /\ UNCHANGED <<cur, started, created, prio, pcnt, write,
                 queue, active, pass, at, relation>>

LockReturn(p) ==
  /\ At(p, "locking")
  /\ pc' = [pc EXCEPT ![p] = "in"]
  /\ UNCHANGED <<vars, queue, active, pass, at, relation, with, objects>>

\* os_mutex_unlock.  The owner check and the critical section are one step:
\* the caller holds the mutex, and nobody else writes its owner meanwhile
\* (OnlyOwnerUnlocks of OsMutex).
Unlock(p) ==
  LET e == with[p] IN
  /\ At(p, "in")
  /\ Kind[e] = "mutex"
  /\ \/ owner[e] # p /\ UNCHANGED <<list, mode, objects>>
     \/ /\ owner[e] = p
        /\ waiters[e] # <<>>
        /\ owner' = [owner EXCEPT ![e] = Head(waiters[e])]
        /\ waiters' = [waiters EXCEPT ![e] = Tail(@)]
        /\ Edit(EnableNaked(list, cur, Head(waiters[e])),
                ~InsertionFound(list, cur), "run")
        /\ UNCHANGED free
     \/ /\ owner[e] = p
        /\ waiters[e] = <<>>
        /\ free' = [free EXCEPT ![e] = 1]
        /\ UNCHANGED <<list, mode, waiters, owner>>
  /\ pc' = [pc EXCEPT ![p] = "out"]
  /\ with' = [with EXCEPT ![p] = Null]
  /\ UNCHANGED <<cur, started, created, prio, pcnt, write,
                 queue, active, pass, at, relation>>

\* os_semaphore_release of a semaphore that tasks take by its event only.
Release(p) ==
  LET e == with[p] IN
  /\ At(p, "in")
  /\ Kind[e] = "semaphore"
  /\ free' = [free EXCEPT ![e] = IF @ < MaxCount THEN @ + 1 ELSE @]
  /\ pc' = [pc EXCEPT ![p] = "out"]
  /\ with' = [with EXCEPT ![p] = Null]
  /\ UNCHANGED <<vars, queue, active, pass, at, relation, waiters, owner>>

-----------------------------------------------------------------------------
(* The triggers of mutex and semaphore: what is_triggered of event e        *)
(* answers for process p, and what it then does to the object.             *)

Answer(e) == IF free[e] = 0 THEN "none"
             ELSE IF free[e] = 1 THEN "stop"
             ELSE "continue"

\* Mutant: the trigger does not take what it found free.
TriggerUntaken(e, p) ==
  /\ owner' = [owner EXCEPT ![e] = IF Kind[e] = "mutex" THEN p ELSE @]
  /\ UNCHANGED <<free, waiters>>

Trigger(e, p) ==
  /\ free' = [free EXCEPT ![e] = @ - 1]
  /\ owner' = [owner EXCEPT ![e] = IF Kind[e] = "mutex" THEN p ELSE @]
  /\ UNCHANGED waiters

-----------------------------------------------------------------------------
(* The event scheduler.                                                    *)

\* The loop of os_start: os_app runs the event scheduler when its type says
\* so, and the idle hook otherwise.
CallScheduler ==
  /\ Calling
  /\ cur = App
  /\ started
  /\ at = "loop"
  /\ IsEvent(list)
  /\ at' = "event"
  /\ UNCHANGED <<vars, queue, active, pass, sleepers, objects>>

\* __os_event_scheduler enters its critical section.  With no active event
\* it disables the event process, and is switched away inside that call.
BeginPass ==
  /\ Calling
  /\ cur = App
  /\ at = "event"
  /\ \/ /\ active # <<>>
        /\ pass' = [todo |-> active, status |-> "none"]
        /\ mode' = "events"
        /\ UNCHANGED <<list, at>>
     \/ /\ active = <<>>
        /\ Edit(EventDisable(list),
                IsEvent(list) /\ DisableHangs(list, App), "sched")
        /\ at' = IF IsEvent(list) THEN "resume" ELSE "loop"
        /\ UNCHANGED pass
  /\ UNCHANGED <<cur, started, created, prio, pcnt, write,
                 queue, active, sleepers, objects>>

\* Mutant: only "none" ends the loop.
AfterStop(status) ==
  [todo |-> IF status = "none" THEN Tail(pass.todo) ELSE pass.todo,
   status |-> status]

\* What is left of the event at hand once `status` is known: the loop goes
\* on with it only on "continue".
After(status) ==
  [todo |-> IF status = "continue" THEN pass.todo ELSE Tail(pass.todo),
   status |-> status]

\* Mutant: the other elements of the process that wakes stay queued.
WakeKeepsRelation(e, p) ==
  /\ with' = [with EXCEPT ![p] = e]
  /\ queue' = [queue EXCEPT ![e] = Tail(@)]
  /\ Edit(EnableNaked(list, cur, p), ~InsertionFound(list, cur), "events")
  /\ Trigger(e, p)

\* The process p at the head of the queue of e wakes: its elements leave all
\* queues and it is enabled.
Wake(e, p) ==
  /\ with' = [with EXCEPT ![p] = e]
  /\ queue' = [f \in Event |-> IF f = e THEN Tail(queue[e])
                               ELSE IF f \in relation[p] THEN Without(queue[f], p)
                               ELSE queue[f]]
  /\ Edit(EnableNaked(list, cur, p), ~InsertionFound(list, cur), "events")
  /\ Trigger(e, p)

\* One pass of the inner loop, for the event at hand.  An empty queue
\* leaves `status` as it is.
Examine ==
  LET e == Head(pass.todo)
      p == Head(queue[e])
  IN
  /\ mode = "events"
  /\ pass.todo # <<>>
  /\ IF IsEmpty(e)
     THEN pass' = After(pass.status) /\ UNCHANGED <<list, mode, queue, with, objects>>
     ELSE IF ~IsPending(p)
     THEN /\ queue' = [queue EXCEPT ![e] = Tail(@)]
          /\ pass' = After("continue")
          /\ UNCHANGED <<list, mode, with, objects>>
     ELSE /\ pass' = After(Answer(e))
          /\ IF Answer(e) = "none" THEN UNCHANGED <<list, mode, queue, with, objects>>
             ELSE Wake(e, p)
  /\ UNCHANGED <<cur, started, created, prio, pcnt, write,
                 active, at, pc, relation>>

\* The garbage collector: events with an empty queue leave the list.
Collected == Kept(active, {e \in Event : ~IsEmpty(e)})

\* The end of __os_event_scheduler: collect, switch, return to the loop.
\* os_app also comes here when it resumes, interrupts still masked, from
\* the switch inside __os_process_event_disable.
EndPass ==
  /\ \/ mode = "events" /\ pass.todo = <<>>
     \/ mode = "run" /\ cur = App /\ at = "resume"
  /\ active' = Collected
  /\ pass' = [todo |-> <<>>, status |-> "none"]
  /\ mode' = "sched"
  /\ at' = "loop"
  /\ UNCHANGED <<list, cur, started, created, prio, pcnt, write,
                 queue, sleepers, objects>>

-----------------------------------------------------------------------------
(* The rest of what happens: main() creates the tasks and starts the       *)
(* kernel, tasks yield, disable themselves and are enabled again, ticks    *)
(* fall unless interrupts are masked.                                      *)

Unmasked == ~(cur = App /\ at = "resume")

\* The running process may make calls of its own: a task outside the calls
\* of this module, or the idle hook.
Free == \/ cur \in Task /\ pc[cur] \in {"out", "in"}
        \/ cur = App /\ started /\ at = "loop" /\ list.appType = "application"

CoreStep ==
  /\ \/ ~started /\ \E p \in Task : Create(p, TRUE)
     \/ created = Task /\ Start
     \/ Free /\ cur \in Task /\ Yield
     \/ /\ cur = App /\ (Free \/ ~started)
        /\ \E p \in Task, v \in Level : pc[p] \in {"out", "in"} /\ SetPriority(p, v)
     \/ SetPriorityCounter
     \/ \E p \in Task : At(p, "out") /\ DisableCall(p)
     \/ \E p \in Task : /\ Free
                        /\ pc[p] = "out" \/ (Wakes /\ pc[p] = "asleep")
                        /\ EnableCall(p)
     \/ Unmasked /\ Tick
     \/ Schedule
  /\ UNCHANGED <<queue, active, pass, at, sleepers, objects>>

\* The argument lists of a sleep: some of the events, in any order.
Arguments == {es \in UNION {[1 .. n -> Event] : n \in 1 .. Cardinality(Event)} :
              IsInjective(es)}

EventNext ==
  \/ CoreStep
  \/ CallScheduler
  \/ BeginPass
  \/ Examine
  \/ EndPass
  \/ \E p \in Task : \/ \E es \in Arguments : Sleep(p, es)
                     \/ SleepReturn(p)
                     \/ \E e \in Event : Lock(p, e)
                     \/ LockReturn(p)
                     \/ Unlock(p)
                     \/ Release(p)

EventSpec == EventInit /\ [][EventNext]_evars

rest == <<queue, active, pass, at, pc, relation, with, free, waiters, owner>>

\* The processor executes the loops it is in; the tick is periodic; a
\* process that keeps getting the processor goes on: os_app in its loop, a
\* task that has an object to give back.
EventFairSpec ==
  /\ EventSpec
  /\ WF_evars(Schedule /\ UNCHANGED rest)
  /\ WF_evars(Unmasked /\ Tick /\ UNCHANGED rest)
  /\ WF_evars(Examine \/ EndPass)
  /\ SF_evars(CallScheduler \/ BeginPass)
  /\ \A p \in Task :
       SF_evars(SleepReturn(p) \/ LockReturn(p) \/ Unlock(p) \/ Release(p))

-----------------------------------------------------------------------------
(* Safety.                                                                 *)

\* The processes the scheduler goes around.
Ring == Reach(list.next, list.next[cur])

\* Whatever the tasks do, the scheduler goes around one cycle: the active
\* tasks, with os_app when it is enabled or when there is nobody else, and
\* with the application process only alone.
EventRing ==
  /\ \A p \in Ring : list.next[p] \in Ring
  /\ \A p, q \in Ring : list.next[p] = list.next[q] => p = q
  /\ Ring \ {App} = Active(list) \ {App}
  /\ App \in Ring <=> Enabled(list, App) \/ Active(list) = {}
  /\ Enabled(list, App) /\ list.appType = "application" => Ring = {App}

\* A task is never asleep unseen: while some task is queued on an event,
\* os_app is scheduled, as the event process, and the event is on the
\* active event list, which holds each event once.
SleepersPolled ==
  /\ \A e \in Event : queue[e] # <<>> =>
       App \in Ring /\ list.appType = "event" /\ e \in ToSet(active)
  /\ \A i, j \in 1 .. Len(active) : active[i] = active[j] => i = j
  /\ mode # "events" => \A e \in ToSet(active) : queue[e] # <<>>

\* A task that sleeps is pending and queued, once, on each of its events; a
\* task that an event has woken, or that does not sleep, is queued nowhere:
\* it has the stack its elements are on.
ElementsLive ==
  \A p \in Task :
    LET sleeps == pc[p] = "asleep" /\ with[p] = Null IN
    /\ sleeps => list.status[p] = "pending"
    /\ \A e \in Event :
         Cardinality({i \in 1 .. Len(queue[e]) : queue[e][i] = p})
           = IF sleeps /\ e \in relation[p] THEN 1 ELSE 0

\* Each object is free or belongs to somebody, and to one task only when it
\* is a mutex, through hand-overs by unlock and by the event scheduler.
Holders(e) == {p \in Task : with[p] = e /\ p \notin ToSet(waiters[e])}

ObjectsConserved ==
  \A e \in Event :
    /\ free[e] + Cardinality(Holders(e)) = Initially(e)
    /\ Kind[e] = "mutex" => \A p \in Holders(e) : owner[e] = p

\* The queue of an event is doubly linked and starts with the pointer in the
\* event.  Adding an element, popping the first and removing any, as Wake
\* does through `relation`, leaves the links of the sequence the model has;
\* what the first insertion and the last pop store through the null pointer
\* is never read as a link.
EventLinks ==
  \A e \in Event, junk \in {Links!First, Null} :
    LET q == queue[e]
        m == Links!Linked(q, junk)
        is(l, s) == Links!DoublyRepresents(l, s)
    IN
    /\ \A p \in Task \ ToSet(q) :
         is(Links!DoublyAddSort(m, p, prio), Added(q, p, prio))
    /\ q # <<>> => is(Links!DoublyPop(m), Tail(q))
    /\ \A p \in ToSet(q) : /\ is(Links!DoublyRemove(m, p), Without(q, p))
                           /\ is(Links!DoublyRemoveEx(m, p), Without(q, p))

\* "If a process is not pending [...]  This should never happen."
\* (os_event.c): every process the event scheduler meets is pending.
AllPending ==
  mode = "events" =>
    \A e \in Event : \A p \in ToSet(queue[e]) : list.status[p] = "pending"

-----------------------------------------------------------------------------
(* The promise.                                                            *)

\* The object a task has: it waits for none of the events any more, or an
\* unlock has taken it out of the line.
Had == [p \in Task |-> IF with[p] # Null /\ p \notin ToSet(waiters[with[p]])
                       THEN with[p] ELSE Null]

Board == INSTANCE EventBoard WITH
           Users <- Task, Objects <- Event, None <- Null,
           Pieces <- [e \in Event |-> Initially(e)],
           has <- Had, asking <- queue, line <- waiters,
           level <- [p \in Task |-> prio[p]]

\* Through registration, passes of the event scheduler, direct locks and
\* hand-overs, each task that sleeps gets one object of those it sleeps on,
\* in its turn, and leaves the queues of the others.
ImplementsBoard == Board!Spec

-----------------------------------------------------------------------------
(* Liveness, under EventFairSpec.                                          *)

\* The event scheduler, which runs with interrupts masked, comes to its
\* end: "Loop until the status of the current event is stop" (os_event.c).
PassEnds == mode = "events" ~> mode # "events"

\* The kernel runs, and the levels are equal and stay so.
Quiet == started /\ \A p \in Proc : write[p] = NoWrite /\ prio[p] = prio[App]

\* Once no task locks a mutex directly, each task that sleeps is woken.
EverySleeperWakes ==
  (<>[]Quiet /\ <>[][\A p \in Task : pc[p] = "out" =>
                       pc'[p] \in {"out", "asleep"}]_evars)
     => \A p \in Task : pc[p] = "asleep" ~> pc[p] # "asleep"
=============================================================================
