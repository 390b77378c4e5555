-------------------------- MODULE OsInterruptEvent --------------------------
(***************************************************************************)
(* Software interrupts beside tasks that sleep on events.  os_app is then  *)
(* on the list as the event process and is given the processor among the   *)
(* others (os/os_event.c), on the stack below which software interrupts    *)
(* keep their context (os/os_core.h, section "Usage").                     *)
(*                                                                         *)
(* Of events only what moves processes is described: which event wakes     *)
(* whom is OsEvent's subject, here a pass of the event scheduler wakes any *)
(* one of the sleepers, or none.                                           *)
(***************************************************************************)
EXTENDS OsInterrupt

VARIABLE
  resumes   \* os_app has been switched away inside __os_process_event_disable

evars == <<list, cur, mode, started, created, prio, pcnt, write,
           at, sp, frame, calls, resumes>>

EventInit == InterruptInit /\ resumes = FALSE

\* __os_process_is_event, of os_app.
IsEvent(l) == l.appType = "event"

\* The tasks that sleep.
Pending(l) == {p \in Task : l.status[p] = "pending"}

\* __os_process_event_enable.
EventEnable(l) == [Enable(l, cur, App) EXCEPT !.appType = "event"]

\* __os_process_sleep of the running task.
Sleep(p) ==
  LET pending == [Disable(list, p) EXCEPT !.status[p] = "pending"] IN
  /\ Calling
  /\ cur = p
  /\ p \notin Interrupt
  /\ Edit(EventEnable(pending),
          DisableHangs(list, p) \/ EnableHangs(pending, cur, App), "sched")
  /\ UNCHANGED <<cur, started, created, prio, pcnt, write, resumes, context>>

\* __os_event_scheduler, from the loop of os_start: while somebody sleeps it
\* wakes one of them or none and switches; with nobody left it disables its
\* own process, and is switched away in there.
EventPass ==
  /\ Calling
  /\ cur = App
  /\ started
  /\ IsEvent(list)
  /\ ~resumes
  /\ \/ /\ Pending(list) # {}
        /\ mode' = "sched"
        /\ UNCHANGED <<list, resumes>>
     \/ /\ \E p \in Pending(list) :
             Edit(EnableNaked(list, cur, p), ~InsertionFound(list, cur), "sched")
        /\ UNCHANGED resumes
     \/ /\ Pending(list) = {}
        /\ Edit(Disable(list, App), DisableHangs(list, App), "sched")
        /\ resumes' = TRUE
  /\ UNCHANGED <<cur, started, created, prio, pcnt, write, context>>

\* The rest of a pass that was switched away in the middle: it switches.
EventResume ==
  /\ mode = "run"
  /\ cur = App
  /\ resumes
  /\ mode' = "sched"
  /\ resumes' = FALSE
  /\ UNCHANGED <<list, cur, started, created, prio, pcnt, write, context>>

\* The steps of OsInterrupt in between.  The idle hook runs only while os_app
\* is the application process; nobody enables or disables a task that sleeps.
OtherStep ==
  /\ InterruptNext
  /\ mode = "run" /\ cur = App => ~resumes /\ (IsEvent(list) => Tick)
  /\ Pending(list') = Pending(list)
  /\ UNCHANGED resumes

EventNext ==
  \/ \E p \in Task : Sleep(p)
  \/ EventPass
  \/ EventResume
  \/ OtherStep

EventSpec == EventInit /\ [][EventNext]_evars
=============================================================================
