---------------------------- MODULE ProcessList ----------------------------
(***************************************************************************)
(* The active process list of eeOS (os/os_core.c, os/os_core.h) as data:   *)
(* the `next` pointers of the processes, their status, and the type of the *)
(* process os_app, which is the application process or, while tasks sleep  *)
(* on events, the event process.  The functions of os_core.c that edit the *)
(* list run in a critical section; each is an operator from the list       *)
(* before the call to the list after it, so that a caller can compose them *)
(* in one step.                                                            *)
(*                                                                         *)
(* A list is a record [next, status, appType].  Nothing here assumes that  *)
(* the list is well formed: the walks of the code are modelled on any      *)
(* graph of pointers, and a walk that never meets its goal is a hang.      *)
(***************************************************************************)
EXTENDS Naturals

CONSTANTS
  Proc,   \* the process structures: tasks, software interrupts and os_app
  App,    \* os_app, the process main() runs in
  Null,   \* the null pointer, in a structure that was never linked
  Fifo    \* CONFIG_OS_PROCESS_ENABLE_FIFO

ASSUME ProcessAssumption ==
  /\ App \in Proc
  /\ Null \notin Proc
  /\ Fifo \in BOOLEAN

Task == Proc \ {App}

Status  == {"idle", "active", "pending"}
AppType == {"application", "event"}

List == [next : [Proc -> Proc \cup {Null}],
         status : [Proc -> Status],
         appType : AppType]

-----------------------------------------------------------------------------
(* Walking the pointers.                                                   *)

\* S is closed under next: a walk that enters S stays in S.
Closed(next, S) == \A x \in S \cap Proc : next[x] \in S

\* The processes a walk along next meets when it starts at p, p included.
Reach(next, p) ==
  {x \in Proc : \A S \in SUBSET (Proc \cup {Null}) :
                    p \in S /\ Closed(next, S) => x \in S}

\* The loop "while (last->next != p) last = last->next", started on the way
\* around to p, ends; and the process it ends at.
HasPred(next, p) == \E q \in Reach(next, p) : next[q] = p
Pred(next, p)    == CHOOSE q \in Reach(next, p) : next[q] = p

-----------------------------------------------------------------------------
(* The operations of os_core.c.                                            *)

Enabled(l, p) == l.status[p] = "active"

Active(l) == {p \in Proc : Enabled(l, p)}

\* __os_process_create, of a process that is on no list.
ProcessCreate(l, p) == [l EXCEPT !.status[p] = "idle"]

\* __os_process_is_application, of a process met on the list.
IsApplication(l, p) == p = App /\ l.appType = "application"

\* Mutant: last_proc starts, and stays, at the current process.
InsertionAtCurrent(l, cur) == cur

\* last_proc in __os_process_enable_naked: where a process is inserted.
InsertionPoint(l, cur) ==
  IF Fifo THEN Pred(l.next, l.next[cur]) ELSE l.next[cur]

\* The search of the FIFO configuration ends.
InsertionFound(l, cur) == Fifo => HasPred(l.next, l.next[cur])

\* Mutant: the application process stays on the list.
EnableBesideApplication(l, cur, p) ==
  LET last == InsertionPoint(l, cur) IN
  [l EXCEPT !.next   = [@ EXCEPT ![p] = l.next[last], ![last] = p],
            !.status = [@ EXCEPT ![p] = "active"]]

EnableNaked(l, cur, p) ==
  LET last == InsertionPoint(l, cur) IN
  IF IsApplication(l, last)
  THEN [l EXCEPT !.next   = [@ EXCEPT ![p] = p, ![last] = p],
                 !.status = [@ EXCEPT ![App] = "idle", ![p] = "active"]]
  ELSE [l EXCEPT !.next   = [@ EXCEPT ![p] = l.next[last], ![last] = p],
                 !.status = [@ EXCEPT ![p] = "active"]]

\* Mutant: the last process leaves and os_app does not take its place.
DisableUnreplaced(l, p) ==
  LET last == Pred(l.next, p) IN
  [l EXCEPT !.next   = [@ EXCEPT ![last] = l.next[p]],
            !.status = [@ EXCEPT ![p] = "idle"]]

DisableNaked(l, p) ==
  LET last == Pred(l.next, p) IN
  IF last = p
  THEN [next    |-> [l.next EXCEPT ![App] = App, ![p] = App],
        status  |-> [l.status EXCEPT ![App] = "active", ![p] = "idle"],
        appType |-> "application"]
  ELSE [l EXCEPT !.next   = [@ EXCEPT ![last] = l.next[p]],
                 !.status = [@ EXCEPT ![p] = "idle"]]

\* Mutant: a process that is enabled is inserted once more.
EnableUnchecked(l, cur, p) == EnableNaked(l, cur, p)

\* __os_process_enable: nothing is done to a process that is enabled.
Enable(l, cur, p) == IF Enabled(l, p) THEN l ELSE EnableNaked(l, cur, p)
EnableHangs(l, cur, p) == ~Enabled(l, p) /\ ~InsertionFound(l, cur)

\* The part of __os_process_disable that edits the list.
Disable(l, p) == IF Enabled(l, p) THEN DisableNaked(l, p) ELSE l
DisableHangs(l, p) == Enabled(l, p) /\ ~HasPred(l.next, p)

\* os_app as the linker places it: alone on the list.
InitList ==
  [next    |-> [p \in Proc |-> IF p = App THEN App ELSE Null],
   status  |-> [p \in Proc |-> IF p = App THEN "active" ELSE "idle"],
   appType |-> "application"]

-----------------------------------------------------------------------------
(* What a well formed list is.                                             *)

\* The active processes form one cycle: next maps them one-to-one into
\* themselves and no proper part of them is closed under next.
OneCycle(l) ==
  /\ Active(l) # {}
  /\ \A p \in Active(l) : l.next[p] \in Active(l)
  /\ \A p, q \in Active(l) : l.next[p] = l.next[q] => p = q
  /\ \A S \in SUBSET Active(l) :
       S # {} /\ (\A p \in S : l.next[p] \in S) => S = Active(l)

\* "The application process will run only if no process are running."
AppAlone(l) ==
  Enabled(l, App) /\ l.appType = "application" => Active(l) = {App}

WellFormed(l) == OneCycle(l) /\ AppAlone(l)
=============================================================================
