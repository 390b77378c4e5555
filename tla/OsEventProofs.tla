---------------------------- MODULE OsEventProofs ----------------------------
(***************************************************************************)
(* The safety properties of OsEvent for every set of tasks, every finite   *)
(* set of events on mutexes and semaphores, every limit of those, and both *)
(* insertion points, as long as no task enables one that sleeps.           *)
(*                                                                         *)
(* The event process is a third kind of process on the list, and it leaves *)
(* the list empty when it was the last one, so that no step of OsCore      *)
(* answers to it.  RingInv is about the list; SleepInv ties the queues of  *)
(* the events to the tasks that sleep and to the event process; ObjectInv  *)
(* counts what is behind the events.                                       *)
(***************************************************************************)
EXTENDS OsEvent, OsCoreProofs

\* A list that the event process has left empty takes processes as if
\* os_app were on it: it is linked to itself and is the application process.
Awake(l) == IF Active(l) = {} THEN [l EXCEPT !.status[App] = "active"] ELSE l

RingInv ==
  /\ created \in SUBSET Task
  /\ prio \in [Proc -> Level]
  /\ WellFormed(Awake(list))
  /\ Active(list) = {} => list.appType = "application"
  /\ list.next[cur] \in Active(Awake(list))
  /\ mode # "hung"
  /\ mode = "run" => \/ Enabled(list, cur)
                     \/ cur = App /\ list.appType = "application"
  /\ mode = "events" => cur = App /\ at = "event"
  /\ at = "event" => Enabled(list, App) /\ list.appType = "event"
  /\ \A p \in Task : Enabled(list, p) \/ pc[p] # "out" => p \in created

WriteOK == write \in [Proc -> [proc : Proc \cup {Null}, level : Level]]

Sleeping(p) == pc[p] = "asleep" /\ with[p] = Null

SleepInv ==
  /\ \A e \in Event : IsInjective(queue[e])
  /\ \A p \in Task, e \in Event :
       p \in ToSet(queue[e]) <=> Sleeping(p) /\ e \in relation[p]
  /\ \A p \in Task : Sleeping(p) => list.status[p] = "pending"
  /\ IsInjective(active)
  /\ \A e \in Event : queue[e] # <<>> =>
       e \in ToSet(active) /\ Enabled(list, App) /\ list.appType = "event"
  /\ mode # "events" => \A e \in ToSet(active) : queue[e] # <<>>

ObjectInv ==
  /\ \A p \in Task : /\ pc[p] = "out" => with[p] = Null
                     /\ pc[p] \in {"in", "locking"} => with[p] \in Event
  /\ \A e \in Event :
       /\ IsInjective(waiters[e])
       /\ \A p \in ToSet(waiters[e]) :
            pc[p] = "locking" /\ with[p] = e /\ ~Enabled(list, p)
       /\ IsFiniteSet(Holders(e))
       /\ free[e] + Cardinality(Holders(e)) = Initially(e)
       /\ Kind[e] = "mutex" => \A p \in Holders(e) : owner[e] = p

-----------------------------------------------------------------------------
(* The list.                                                               *)

(***************************************************************************)
(* A task is enabled on a list that may be empty, by a process that is on  *)
(* the list or is os_app.                                                  *)
(***************************************************************************)
LEMMA EnableOnAwake ==
  ASSUME NEW l \in List, WellFormed(Awake(l)),
         Active(l) = {} => l.appType = "application",
         NEW c \in Active(l) \cup {App}, l.next[c] \in Active(Awake(l)),
         NEW p \in Task, ~Enabled(l, p)
  PROVE  LET r == EnableNaked(l, c, p) IN
         /\ InsertionFound(l, c)
         /\ r \in List
         /\ WellFormed(r) /\ Awake(r) = r /\ Active(r) # {}
         /\ r.next[c] \in Active(r)
         /\ r.appType = l.appType
         /\ Enabled(r, p)
         /\ \A q \in Task \ {p} : r.status[q] = l.status[q]
         /\ l.appType = "event" => (Enabled(r, App) <=> Enabled(l, App))
<1> DEFINE w == Awake(l)
           r == EnableNaked(l, c, p)
<1>1. /\ App \in Proc /\ p \in Proc /\ p # App /\ c \in Proc
      /\ l.status \in [Proc -> Status]
  BY ProcessAssumption DEF Task, Active, List
<1>2. /\ w \in List /\ w.next = l.next /\ w.appType = l.appType
      /\ ~Enabled(w, p)
      /\ Active(l) # {} => w = l
      /\ Active(l) = {} => Active(w) = {App}
  BY <1>1 DEF Awake, List, Status, Enabled, Active
<1>3. c \in Active(w) \cup {App} /\ w.next[c] \in Active(w)
  BY <1>2
<1>4. r = EnableNaked(w, c, p)
  <2>1. CASE Active(l) # {}
    BY <1>2, <2>1
  <2>2. CASE Active(l) = {}
    <3> DEFINE last == InsertionPoint(w, c)
    <3>1. last \in Active(w)
      BY <1>1, <1>2, <1>3, InsertionPointActive DEF WellFormed
    <3>2. last = App /\ last = InsertionPoint(l, c)
      BY <1>2, <2>2, <3>1 DEF InsertionPoint
    <3>3. IsApplication(w, last) /\ IsApplication(l, last)
      BY <1>2, <2>2, <3>2 DEF IsApplication
    <3>4. [l.status EXCEPT ![App] = "idle", ![p] = "active"]
            = [w.status EXCEPT ![App] = "idle", ![p] = "active"]
      BY <1>1, <2>2 DEF Awake
    <3> HIDE DEF last, w
    <3>5. ASSUME NEW x \in {l, w}
          PROVE  EnableNaked(x, c, p)
                   = [next    |-> [x.next EXCEPT ![p] = p, ![App] = p],
                      status  |-> [x.status EXCEPT ![App] = "idle", ![p] = "active"],
                      appType |-> x.appType]
      <4>1. x \in List /\ InsertionPoint(x, c) = App /\ IsApplication(x, App)
        BY <1>2, <3>2, <3>3 DEF last
      <4> QED BY <4>1 DEF EnableNaked, List
    <3> QED BY <1>2, <3>4, <3>5
  <2> QED BY <2>1, <2>2
<1>5. /\ r \in List /\ WellFormed(r)
      /\ r.appType = w.appType
      /\ Enabled(r, p)
      /\ Active(r) \subseteq Active(w) \cup {p}
      /\ r.next[c] \in Active(r)
  BY <1>2, <1>3, <1>4, EnableNakedKeeps, ProcessAssumption
<1>6. InsertionFound(l, c)
  BY <1>1, <1>2, <1>3, InsertionPointActive DEF WellFormed, InsertionFound
<1>7. \A q \in Task \ {p} : r.status[q] = l.status[q]
  BY <1>1, OtherStatuses DEF Task
<1>8. ASSUME l.appType = "event" PROVE Enabled(r, App) <=> Enabled(l, App)
  <2>1. r.status = [l.status EXCEPT ![p] = "active"]
    BY <1>8 DEF EnableNaked, IsApplication
  <2> QED BY <1>1, <2>1 DEF Enabled
<1> QED BY <1>2, <1>5, <1>6, <1>7, <1>8 DEF Awake, Active

(***************************************************************************)
(* A task leaves the list; the event process stays when it is there.       *)
(***************************************************************************)
LEMMA DisableOnList ==
  ASSUME NEW l \in List, WellFormed(l), NEW p \in Task, Enabled(l, p)
  PROVE  LET r == DisableNaked(l, p) IN
         /\ HasPred(l.next, p)
         /\ r \in List
         /\ WellFormed(r) /\ Awake(r) = r /\ Active(r) # {}
         /\ r.next[p] \in Active(r)
         /\ ~Enabled(r, p)
         /\ \A q \in Task \ {p} : r.status[q] = l.status[q]
         /\ Enabled(l, App) /\ l.appType = "event"
              => Enabled(r, App) /\ r.appType = "event"
<1> DEFINE r == DisableNaked(l, p)
<1>1. /\ HasPred(l.next, p)
      /\ r \in List /\ WellFormed(r)
      /\ ~Enabled(r, p)
      /\ r.next[p] \in Active(r)
  BY DisableNakedKeeps, ProcessAssumption
<1>2. p \in Proc /\ p # App /\ App \in Proc /\ p \in Active(l)
  BY ProcessAssumption DEF Task, Active
<1>3. \A q \in Task \ {p} : r.status[q] = l.status[q]
  BY <1>2, OtherStatuses DEF Task
<1>4. ASSUME Enabled(l, App), l.appType = "event"
      PROVE  Enabled(r, App) /\ r.appType = "event"
  <2>1. l.next[Pred(l.next, p)] = p
    BY <1>2, PredOfActive DEF WellFormed
  <2>2. Pred(l.next, p) # p
    <3> SUFFICES ASSUME l.next[p] = p PROVE FALSE
      BY <2>1
    <3>1. {p} \in SUBSET Active(l) /\ {p} # {} /\ \A x \in {p} : l.next[x] \in {p}
      BY <1>2
    <3>2. {p} = Active(l)
      BY <3>1 DEF WellFormed, OneCycle
    <3> QED BY <1>2, <1>4, <3>2 DEF Active
  <2>3. r.status = [l.status EXCEPT ![p] = "idle"] /\ r.appType = l.appType
    BY <2>2 DEF DisableNaked, List
  <2> QED BY <1>2, <1>4, <2>3 DEF Enabled, List
<1> QED BY <1>1, <1>3, <1>4 DEF Awake

(***************************************************************************)
(* __os_process_event_enable: os_app is on the list afterwards, as the     *)
(* event process, among the others.                                        *)
(***************************************************************************)
LEMMA EventProcessEnters ==
  ASSUME NEW l \in List, WellFormed(l), cur \in Proc, l.next[cur] \in Active(l)
  PROVE  LET r == EventEnable(l) IN
         /\ ~EnableHangs(l, cur, App)
         /\ r \in List
         /\ WellFormed(r) /\ Awake(r) = r
         /\ r.next[cur] \in Active(r)
         /\ Enabled(r, App) /\ r.appType = "event"
         /\ \A q \in Task : r.status[q] = l.status[q]
<1> DEFINE n == Enable(l, cur, App)
           r == EventEnable(l)
<1>1. App \in Proc /\ App \notin Task /\ Task \subseteq Proc
  BY ProcessAssumption DEF Task
<1>2. /\ ~EnableHangs(l, cur, App)
      /\ n \in List
      /\ OneCycle(n) /\ n.next[cur] \in Active(n)
      /\ Enabled(n, App)
      /\ \A q \in Task : n.status[q] = l.status[q]
  <2>1. CASE Enabled(l, App)
    BY <2>1 DEF Enable, EnableHangs, WellFormed
  <2>2. CASE ~Enabled(l, App)
    <3> DEFINE last == InsertionPoint(l, cur)
    <3>1. /\ InsertionFound(l, cur) /\ last \in Active(l) /\ last \in Proc
          /\ App \notin Active(l)
      BY <2>2, InsertionPointActive DEF WellFormed, Active
    <3>2. n = [l EXCEPT !.next   = [@ EXCEPT ![App] = l.next[last], ![last] = App],
                        !.status = [@ EXCEPT ![App] = "active"]]
      BY <2>2, <3>1 DEF Enable, EnableNaked, IsApplication
    <3> HIDE DEF last, n
    <3>3. /\ l.next \in [Proc -> Proc \cup {Null}]
          /\ l.status \in [Proc -> Status]
          /\ l.appType \in AppType
      BY DEF List
    <3>4. /\ n.next = [l.next EXCEPT ![App] = l.next[last], ![last] = App]
          /\ n.status = [l.status EXCEPT ![App] = "active"]
          /\ n.appType = l.appType
      BY <3>2 DEF List
    <3>5. n \in List
      <4>1. n.next \in [Proc -> Proc \cup {Null}]
        BY <1>1, <3>1, <3>3, <3>4
      <4>2. n.status \in [Proc -> Status]
        BY <3>3, <3>4 DEF Status
      <4> QED BY <3>2, <3>3, <3>4, <4>1, <4>2 DEF List
    <3>6. Active(n) = Active(l) \cup {App}
      BY <1>1, <3>3, <3>4 DEF Active, Enabled
    <3>7. /\ n.next[App] = l.next[last] /\ n.next[last] = App
          /\ \A x \in Active(l) : x # last => n.next[x] = l.next[x]
      BY <1>1, <3>1, <3>3, <3>4 DEF Active
    <3>8. OneCycle(n)
      BY <1>1, <3>1, <3>6, <3>7, LinkedCycle DEF WellFormed
    <3>9. n.next[cur] \in Active(n)
      <4>1. l.next[last] \in Active(l)
        BY <3>1 DEF WellFormed, OneCycle
      <4>2. n.next[cur] \in {App, l.next[last], l.next[cur]}
        BY <1>1, <3>1, <3>3, <3>4
      <4> QED BY <3>6, <4>1, <4>2
    <3> QED
      BY <1>1, <3>1, <3>3, <3>4, <3>5, <3>6, <3>8, <3>9
         DEF EnableHangs, Active, Enabled
  <2> QED BY <2>1, <2>2
<1> HIDE DEF n
<1>3. /\ r.next = n.next /\ r.status = n.status /\ r.appType = "event"
      /\ r \in List
  BY <1>2 DEF EventEnable, ApplicationEnable, n, List, AppType
<1>4. Active(r) = Active(n)
  BY <1>3 DEF Active, Enabled
<1>5. OneCycle(r) /\ AppAlone(r)
  BY <1>2, <1>3, <1>4 DEF OneCycle, AppAlone
<1> QED
  BY <1>2, <1>3, <1>4, <1>5 DEF WellFormed, Awake, OneCycle, Enabled

(***************************************************************************)
(* __os_process_event_disable: os_app leaves the list, which may leave it  *)
(* empty, with os_app the application process and linked to itself.        *)
(***************************************************************************)
LEMMA EventProcessLeaves ==
  ASSUME NEW l \in List, WellFormed(l), Enabled(l, App), l.appType = "event"
  PROVE  LET r == Disable(l, App) IN
         /\ ~DisableHangs(l, App)
         /\ r \in List
         /\ WellFormed(Awake(r))
         /\ Active(r) = {} => r.appType = "application"
         /\ r.next[App] \in Active(Awake(r))
         /\ \A q \in Task : r.status[q] = l.status[q]
<1> DEFINE r == Disable(l, App)
           last == Pred(l.next, App)
<1>1. /\ App \in Proc /\ App \notin Task /\ Task \subseteq Proc
      /\ App \in Active(l)
  BY ProcessAssumption DEF Task, Active
<1>2. /\ HasPred(l.next, App) /\ last \in Active(l) /\ l.next[last] = App
      /\ r = DisableNaked(l, App)
  BY <1>1, PredOfActive DEF WellFormed, Disable
<1>3. /\ l.next \in [Proc -> Proc \cup {Null}]
      /\ l.status \in [Proc -> Status]
      /\ l.appType \in AppType
  BY DEF List
<1>4. CASE last = App
  <2>1. Active(l) = {App}
    <3>1. /\ {App} \in SUBSET Active(l) /\ {App} # {}
          /\ \A x \in {App} : l.next[x] \in {App}
      BY <1>1, <1>2, <1>4
    <3> QED BY <3>1 DEF WellFormed, OneCycle
  <2>2. r = [next    |-> [l.next EXCEPT ![App] = App],
             status  |-> [l.status EXCEPT ![App] = "idle"],
             appType |-> "application"]
    BY <1>1, <1>2, <1>3, <1>4 DEF DisableNaked
  <2> HIDE DEF r
  <2>3. r \in List
    BY <1>1, <1>3, <2>2 DEF List, Status, AppType
  <2>4. Active(r) = {} /\ \A q \in Task : r.status[q] = l.status[q]
    BY <1>1, <1>3, <2>1, <2>2 DEF Active, Enabled
  <2> DEFINE w == Awake(r)
  <2>5. w.next[App] = App /\ r.next[App] = App /\ Active(w) = {App}
    BY <1>1, <1>3, <2>2, <2>4 DEF Awake, Active, Enabled
  <2>6. OneCycle(w) /\ AppAlone(w)
    BY <2>5 DEF OneCycle, AppAlone
  <2> QED
    BY <1>2, <2>2, <2>3, <2>4, <2>5, <2>6 DEF WellFormed, DisableHangs, r
<1>5. CASE last # App
  <2>1. r = [l EXCEPT !.next   = [@ EXCEPT ![last] = l.next[App]],
                      !.status = [@ EXCEPT ![App] = "idle"]]
    BY <1>2, <1>5 DEF DisableNaked
  <2> HIDE DEF r
  <2>2. /\ r.next = [l.next EXCEPT ![last] = l.next[App]]
        /\ r.status = [l.status EXCEPT ![App] = "idle"]
        /\ r.appType = l.appType
    BY <2>1 DEF List
  <2>3. last \in Proc /\ l.next[App] \in Proc
    BY <1>1, <1>2 DEF WellFormed, OneCycle, Active
  <2>4. r \in List
    <3>1. r.next \in [Proc -> Proc \cup {Null}]
      BY <1>3, <2>2, <2>3
    <3>2. r.status \in [Proc -> Status]
      BY <1>3, <2>2 DEF Status
    <3> QED BY <1>3, <2>1, <2>2, <3>1, <3>2 DEF List
  <2>5. Active(r) = Active(l) \ {App}
    BY <1>1, <1>3, <2>2 DEF Active, Enabled
  <2>6. /\ r.next[last] = l.next[App]
        /\ r.next[App] = l.next[App]
        /\ \A x \in Active(l) : x # last => r.next[x] = l.next[x]
    BY <1>1, <1>3, <1>5, <2>2, <2>3 DEF Active
  <2>7. OneCycle(r) /\ l.next[App] \in Active(r)
    BY <1>1, <1>2, <1>5, <2>5, <2>6, UnlinkedCycle DEF WellFormed
  <2>8. Awake(r) = r /\ Active(r) # {}
    BY <2>7 DEF Awake
  <2>9. AppAlone(r)
    BY <2>2 DEF AppAlone
  <2> QED
    BY <1>1, <1>2, <1>3, <2>2, <2>4, <2>6, <2>7, <2>8, <2>9
       DEF WellFormed, DisableHangs, r
<1> QED BY <1>4, <1>5

-----------------------------------------------------------------------------
(* The steps on the list.                                                  *)

EventInv == EventTypeOK /\ RingInv /\ SleepInv /\ ObjectInv

\* A step that keeps the list whole, changes the status of no task but p,
\* and leaves the event process on the list.
ListStep(p) ==
  /\ list' \in List
  /\ RingInv'
  /\ \A q \in Task \ {p} : list'.status[q] = list.status[q]
  /\ Enabled(list, App) /\ list.appType = "event"
       => Enabled(list', App) /\ list'.appType = "event"

(***************************************************************************)
(* What the invariant says of the process that executes.                   *)
(***************************************************************************)
LEMMA EventRunning ==
  ASSUME EventTypeOK, RingInv, mode \in {"run", "events"}
  PROVE  /\ list \in List /\ cur \in Proc
         /\ cur \in Active(list) \cup {App}
         /\ Active(list) # {} => WellFormed(list) /\ list.next[cur] \in Active(list)
         /\ cur \in Task =>
              Enabled(list, cur) /\ Active(list) # {} /\ cur \in created
         /\ InsertionFound(list, cur)
         /\ cur \in Task => HasPred(list.next, cur)
<1> DEFINE w == Awake(list)
<1>1. list \in List /\ cur \in Proc
  BY DEF EventTypeOK
<1>2. Enabled(list, cur) \/ cur = App
  BY DEF RingInv
<1>3. /\ Active(list) # {} => WellFormed(list) /\ list.next[cur] \in Active(list)
      /\ cur \in Task => Enabled(list, cur) /\ Active(list) # {} /\ cur \in created
  BY <1>1, <1>2 DEF RingInv, Awake, Active, Task
<1>4. w \in List /\ w.next = list.next
  BY <1>1 DEF Awake, List, Status
<1>5. InsertionFound(list, cur)
  BY <1>1, <1>4, InsertionPointActive DEF RingInv, WellFormed, InsertionFound
<1>6. cur \in Task => HasPred(list.next, cur)
  BY <1>1, <1>3, PredOfActive DEF WellFormed, Active
<1> QED BY <1>1, <1>2, <1>3, <1>5, <1>6 DEF Active

(***************************************************************************)
(* A task that is created enters the list, from a call of the process that *)
(* executes or of the event scheduler.                                     *)
(***************************************************************************)
LEMMA StepEnables ==
  ASSUME EventTypeOK, RingInv, mode \in {"run", "events"},
         NEW p \in Task, ~Enabled(list, p), p \in created',
         list' = EnableNaked(list, cur, p),
         UNCHANGED <<cur, mode, at>>,
         created \subseteq created', created' \in SUBSET Task,
         prio' \in [Proc -> Level],
         \A q \in Task : pc'[q] # "out" => q \in created
  PROVE  ListStep(p)
<1>1. /\ list \in List /\ cur \in Proc
      /\ cur \in Active(list) \cup {App}
  BY EventRunning
<1>2. /\ InsertionFound(list, cur)
      /\ list' \in List
      /\ WellFormed(list') /\ Awake(list') = list' /\ Active(list') # {}
      /\ list'.next[cur] \in Active(list')
      /\ list'.appType = list.appType
      /\ \A q \in Task \ {p} : list'.status[q] = list.status[q]
      /\ list.appType = "event" => (Enabled(list', App) <=> Enabled(list, App))
  BY <1>1, EnableOnAwake DEF RingInv
<1>3. list.appType \in AppType
  BY <1>1 DEF List
<1>4. mode' = "run" => \/ Enabled(list', cur')
                       \/ cur' = App /\ list'.appType = "application"
  <2>1. CASE cur \in Task
    BY <1>2, <2>1 DEF RingInv, Enabled
  <2>2. CASE cur = App
    BY <1>2, <1>3, <2>2 DEF RingInv, AppType
  <2> QED BY <1>1, <2>1, <2>2 DEF Task
<1>5. \A q \in Task : Enabled(list', q) \/ pc'[q] # "out" => q \in created'
  BY <1>2 DEF RingInv, Enabled
<1>6. RingInv'
  BY <1>2, <1>4, <1>5 DEF RingInv
<1> QED BY <1>2, <1>6 DEF ListStep

(***************************************************************************)
(* A task takes itself off the list.                                       *)
(***************************************************************************)
LEMMA StepDisables ==
  ASSUME EventTypeOK, RingInv, mode = "run", cur \in Task,
         list' = DisableNaked(list, cur), mode' = "sched",
         UNCHANGED <<cur, created, prio, at>>,
         \A q \in Task : pc'[q] # "out" => q \in created
  PROVE  ListStep(cur) /\ ~Enabled(list', cur)
<1>1. list \in List /\ WellFormed(list) /\ Enabled(list, cur)
  BY EventRunning
<1>2. /\ HasPred(list.next, cur)
      /\ list' \in List
      /\ WellFormed(list') /\ Awake(list') = list' /\ Active(list') # {}
      /\ list'.next[cur] \in Active(list')
      /\ ~Enabled(list', cur)
      /\ \A q \in Task \ {cur} : list'.status[q] = list.status[q]
      /\ Enabled(list, App) /\ list.appType = "event"
           => Enabled(list', App) /\ list'.appType = "event"
  BY <1>1, DisableOnList
<1>3. \A q \in Task : Enabled(list', q) \/ pc'[q] # "out" => q \in created'
  BY <1>2 DEF RingInv, Enabled
<1>4. RingInv'
  BY <1>2, <1>3 DEF RingInv
<1> QED BY <1>2, <1>4 DEF ListStep

(***************************************************************************)
(* A step that does not touch the list.                                    *)
(***************************************************************************)
LEMMA StepLeavesList ==
  ASSUME EventTypeOK, RingInv, UNCHANGED <<list, created>>,
         prio' = prio \/ prio' \in [Proc -> Level],
         \A q \in Task : pc'[q] # "out" => q \in created,
         \/ UNCHANGED <<cur, mode, at>>
         \/ Schedule /\ UNCHANGED at
         \/ mode' = "sched" /\ UNCHANGED <<cur, at>>
  PROVE  \A p : ListStep(p)
<1>1. list \in List /\ list' \in List
  BY DEF EventTypeOK
<1>2. CASE UNCHANGED <<cur, mode, at>>
  BY <1>1, <1>2 DEF RingInv, ListStep
<1>3. CASE mode' = "sched" /\ UNCHANGED <<cur, at>>
  BY <1>1, <1>3 DEF RingInv, ListStep
<1>4. CASE Schedule /\ UNCHANGED at
  <2> DEFINE w == Awake(list)
  <2>1. cur' \in Active(w) /\ mode' \in {"run", "sched"} /\ w.next = list.next
    BY <1>1, <1>4 DEF RingInv, Schedule, Awake, List
  <2>2. list'.next[cur'] \in Active(Awake(list'))
    BY <2>1 DEF RingInv, WellFormed, OneCycle
  <2>3. Enabled(list', cur') \/ (cur' = App /\ list'.appType = "application")
    <3>1. CASE Active(list) = {}
      <4>1. cur' = App
        BY <1>1, <2>1, <3>1, ProcessAssumption DEF Awake, Active, Enabled, List
      <4> QED BY <3>1, <4>1 DEF RingInv
    <3>2. CASE Active(list) # {}
      BY <2>1, <3>2 DEF Awake, Active
    <3> QED BY <3>1, <3>2
  <2>4. RingInv'
    BY <1>4, <2>1, <2>2, <2>3 DEF RingInv
  <2> QED BY <1>1, <2>4 DEF ListStep
<1> QED BY <1>2, <1>3, <1>4

(***************************************************************************)
(* A step of the kernel beside the calls of this module touches no task    *)
(* that is inside one of them.                                             *)
(***************************************************************************)
LEMMA CoreStepOnList ==
  ASSUME ~Wakes, EventTypeOK, RingInv, WriteOK, CoreStep
  PROVE  /\ \E p \in Proc : ListStep(p) /\ (p \in Task => pc[p] = "out")
         /\ cur' \in Proc /\ mode' \in {"run", "sched"} /\ mode # "events"
         /\ pcnt' \in [Proc -> Level]
         /\ UNCHANGED <<queue, active, pass, at, sleepers, objects>>
         /\ \A p \in Task : pc[p] \in {"asleep", "locking"} => prio'[p] = prio[p]
<1> USE DEF Level
<1>1. UNCHANGED <<queue, active, pass, at, sleepers, objects>>
  BY DEF CoreStep
<1>2. /\ list \in List /\ cur \in Proc
      /\ Task \subseteq Proc /\ App \in Proc /\ App \notin Task
      /\ prio \in [Proc -> Level] /\ pcnt \in [Proc -> Level]
      /\ created \in SUBSET Task /\ MaxLevel \in Nat /\ DefaultLevel \in Level
      /\ \A q \in Task : pc'[q] # "out" => q \in created
  BY <1>1, CoreAssumption, ProcessAssumption
     DEF EventTypeOK, RingInv, sleepers, Task
<1> DEFINE Goal == /\ \E p \in Proc : ListStep(p) /\ (p \in Task => pc[p] = "out")
                   /\ cur' \in Proc /\ mode' \in {"run", "sched"}
                   /\ mode # "events"
                   /\ pcnt' \in [Proc -> Level]
                   /\ \A q \in Task : pc[q] \in {"asleep", "locking"}
                                        => prio'[q] = prio[q]
<1>3. ASSUME NEW p \in Task, Create(p, TRUE) PROVE Goal
  <2> DEFINE fresh == ProcessCreate(list, p)
  <2>1. /\ mode = "run" /\ p \notin created /\ ~Enabled(list, p) /\ pc[p] = "out"
        /\ created' = created \cup {p} /\ UNCHANGED cur
    BY <1>3 DEF Create, Calling, RingInv
  <2>2. /\ prio' \in [Proc -> Level] /\ pcnt' \in [Proc -> Level]
        /\ \A q \in Task : q # p => prio'[q] = prio[q]
    BY <1>2, <1>3 DEF Create
  <2>3. /\ fresh.next = list.next /\ fresh.appType = list.appType
        /\ fresh.status = [list.status EXCEPT ![p] = "idle"]
        /\ fresh \in List
    BY <1>2 DEF ProcessCreate, List, Status
  <2>4. p \in Proc /\ p # App /\ list.status \in [Proc -> Status]
    BY <1>2 DEF Task, List
  <2>5. ~Enabled(fresh, p) /\ InsertionFound(fresh, cur)
    <3>1. InsertionFound(list, cur)
      BY <2>1, EventRunning
    <3> QED BY <2>3, <2>4, <3>1 DEF Enabled, InsertionFound
  <2>6. EnableNaked(fresh, cur, p) = EnableNaked(list, cur, p)
    <3> DEFINE last == InsertionPoint(list, cur)
    <3>1. /\ InsertionPoint(fresh, cur) = last
          /\ IsApplication(fresh, last) <=> IsApplication(list, last)
      BY <2>3 DEF InsertionPoint, IsApplication
    <3>2. /\ [fresh.status EXCEPT ![p] = "active"] = [list.status EXCEPT ![p] = "active"]
          /\ [fresh.status EXCEPT ![App] = "idle", ![p] = "active"]
               = [list.status EXCEPT ![App] = "idle", ![p] = "active"]
      BY <2>3, <2>4
    <3> HIDE DEF fresh, last
    <3>3. CASE IsApplication(list, last)
      <4>1. ASSUME NEW x \in {list, fresh}
            PROVE  EnableNaked(x, cur, p)
                     = [next    |-> [x.next EXCEPT ![p] = p, ![last] = p],
                        status  |-> [x.status EXCEPT ![App] = "idle", ![p] = "active"],
                        appType |-> x.appType]
        <5>1. /\ x \in List /\ InsertionPoint(x, cur) = last
              /\ IsApplication(x, last)
          BY <1>2, <2>3, <3>1, <3>3 DEF last
        <5> QED BY <5>1 DEF EnableNaked, List
      <4> QED BY <2>3, <3>2, <4>1
    <3>4. CASE ~IsApplication(list, last)
      <4>1. ASSUME NEW x \in {list, fresh}
            PROVE  EnableNaked(x, cur, p)
                     = [next    |-> [x.next EXCEPT ![p] = x.next[last], ![last] = p],
                        status  |-> [x.status EXCEPT ![p] = "active"],
                        appType |-> x.appType]
        <5>1. /\ x \in List /\ InsertionPoint(x, cur) = last
              /\ ~IsApplication(x, last)
          BY <1>2, <2>3, <3>1, <3>4 DEF last
        <5> QED BY <5>1 DEF EnableNaked, List
      <4> QED BY <2>3, <3>2, <4>1
    <3> QED BY <3>3, <3>4
  <2>7. list' = EnableNaked(list, cur, p) /\ UNCHANGED mode
    <3>1. Enable(fresh, cur, p) = EnableNaked(list, cur, p)
          /\ ~EnableHangs(fresh, cur, p)
      BY <2>5, <2>6 DEF Enable, EnableHangs
    <3> QED BY <1>3, <2>1, <3>1 DEF Create, Edit
  <2>8. ListStep(p)
    BY <1>1, <1>2, <2>1, <2>2, <2>7, StepEnables
  <2> QED BY <1>2, <2>1, <2>2, <2>7, <2>8
<1>4. ASSUME NEW p \in Task, pc[p] = "out", EnableCall(p) PROVE Goal
  <2>1. /\ mode = "run" /\ p \in created
        /\ UNCHANGED <<cur, created, prio, pcnt>>
        /\ InsertionFound(list, cur)
    BY <1>4, EventRunning DEF EnableCall, Calling
  <2>2. CASE Enabled(list, p)
    <3>1. UNCHANGED <<list, mode>>
      BY <1>4, <2>1, <2>2 DEF EnableCall, Edit, Enable, EnableHangs
    <3> QED BY <1>1, <1>2, <2>1, <3>1, StepLeavesList
  <2>3. CASE ~Enabled(list, p)
    <3>1. list' = EnableNaked(list, cur, p) /\ UNCHANGED mode
      BY <1>4, <2>1, <2>3 DEF EnableCall, Edit, Enable, EnableHangs
    <3>2. ListStep(p)
      BY <1>1, <1>2, <2>1, <2>3, <3>1, StepEnables
    <3> QED BY <1>2, <1>4, <2>1, <3>1, <3>2
  <2> QED BY <2>2, <2>3
<1>5. ASSUME NEW p \in Task, At(p, "out"), DisableCall(p) PROVE Goal
  <2>1. /\ mode = "run" /\ cur = p /\ pc[p] = "out"
        /\ UNCHANGED <<cur, created, prio, pcnt>>
        /\ Enabled(list, p) /\ HasPred(list.next, p)
    BY <1>5, EventRunning DEF At, Calling, DisableCall
  <2>2. list' = DisableNaked(list, cur) /\ mode' = "sched"
    BY <1>5, <2>1 DEF DisableCall, Edit, Disable, DisableHangs
  <2>3. ListStep(p)
    BY <1>1, <1>2, <2>1, <2>2, StepDisables
  <2> QED BY <1>2, <2>1, <2>2, <2>3
<1>6. CASE Yield \/ Start \/ Tick
  <2>1. /\ UNCHANGED <<list, cur, created, prio, pcnt>> /\ mode' = "sched"
        /\ mode = "run"
    BY <1>6 DEF Yield, Start, Tick, Calling
  <2> QED BY <1>1, <1>2, <2>1, StepLeavesList
<1>7. CASE Schedule
  <2>1. /\ UNCHANGED <<list, created, prio>> /\ cur' = list.next[cur]
        /\ mode = "sched" /\ mode' \in {"run", "sched"}
    BY <1>7 DEF Schedule
  <2>2. cur' \in Proc
    BY <1>2, <2>1 DEF RingInv, Active
  <2>3. pcnt' \in [Proc -> Level]
    <3>1. \/ pcnt' = [pcnt EXCEPT ![cur'] = prio[cur']]
          \/ pcnt[cur'] # 0 /\ pcnt' = [pcnt EXCEPT ![cur'] = pcnt[cur'] - 1]
      BY <1>7 DEF Schedule
    <3>2. pcnt[cur'] # 0 => pcnt[cur'] - 1 \in Level
      BY <1>2, <2>2
    <3> QED BY <1>2, <2>2, <3>1, <3>2
  <2>4. ListStep(App)
    BY <1>1, <1>2, <1>7, <2>1, StepLeavesList
  <2> QED BY <1>1, <1>2, <2>1, <2>2, <2>3, <2>4
<1>8. ASSUME NEW p \in Task, NEW v \in Level, pc[p] \in {"out", "in"},
             SetPriority(p, v)
      PROVE  Goal
  <2>1. /\ UNCHANGED <<list, cur, mode, created, pcnt>> /\ mode = "run"
        /\ prio' = [prio EXCEPT ![p] = v]
    BY <1>8 DEF SetPriority, Calling
  <2>2. /\ prio' \in [Proc -> Level]
        /\ \A q \in Task : pc[q] \in {"asleep", "locking"} => prio'[q] = prio[q]
    BY <1>2, <1>8, <2>1
  <2>3. ListStep(App) /\ App \in Proc /\ App \notin Task
    BY <1>1, <1>2, <2>1, <2>2, StepLeavesList
  <2>4. cur' \in Proc /\ mode' \in {"run", "sched"} /\ mode # "events"
    BY <1>2, <2>1
  <2>5. pcnt' \in [Proc -> Level]
    BY <1>2, <2>1
  <2> QED BY <2>2, <2>3, <2>4, <2>5
<1>9. CASE SetPriorityCounter
  <2>1. /\ UNCHANGED <<list, cur, mode, created, prio>> /\ mode = "run"
        /\ pcnt' = [pcnt EXCEPT ![write[cur].proc] = write[cur].level]
    BY <1>9 DEF SetPriorityCounter
  <2>2. pcnt' \in [Proc -> Level]
    BY <1>2, <2>1 DEF WriteOK
  <2>3. ListStep(App) /\ App \in Proc /\ App \notin Task
    BY <1>1, <1>2, <2>1, StepLeavesList
  <2>4. cur' \in Proc /\ mode' \in {"run", "sched"} /\ mode # "events"
    BY <1>2, <2>1
  <2>5. \A q \in Task : pc[q] \in {"asleep", "locking"} => prio'[q] = prio[q]
    BY <2>1
  <2>6. \E p \in Proc : ListStep(p) /\ (p \in Task => pc[p] = "out")
    BY <2>3
  <2> QED BY <1>1, <2>2, <2>4, <2>5, <2>6
<1>10. Goal
  BY <1>3, <1>4, <1>5, <1>6, <1>7, <1>8, <1>9 DEF CoreStep
<1> QED BY <1>1, <1>10

-----------------------------------------------------------------------------
(* The steps on the queues and the objects.                                *)

(***************************************************************************)
(* A step that leaves the queues of the events, and the tasks in them,     *)
(* alone.                                                                  *)
(***************************************************************************)
LEMMA QueuesLeft ==
  ASSUME SleepInv, UNCHANGED <<queue, active>>,
         mode # "events" \/ mode' = "events",
         \A q \in Task : /\ Sleeping(q)' <=> Sleeping(q)
                         /\ Sleeping(q) => /\ relation'[q] = relation[q]
                                           /\ list'.status[q] = list.status[q],
         \/ \A e \in Event : queue[e] = <<>>
         \/ Enabled(list, App) /\ list.appType = "event"
              => Enabled(list', App) /\ list'.appType = "event"
  PROVE  SleepInv'
BY DEF SleepInv

(***************************************************************************)
(* A step that leaves the objects alone.                                   *)
(***************************************************************************)
LEMMA ObjectsLeft ==
  ASSUME ObjectInv, UNCHANGED <<with, objects>>,
         \A q \in Task : /\ pc'[q] = "out" => with[q] = Null
                         /\ pc'[q] \in {"in", "locking"} => with[q] \in Event,
         \A e \in Event : \A q \in ToSet(waiters[e]) :
           pc'[q] = "locking" /\ ~Enabled(list', q)
  PROVE  ObjectInv'
BY DEF ObjectInv, Holders, objects

(***************************************************************************)
(* A sequence without elements is empty.                                   *)
(***************************************************************************)
LEMMA NoElements ==
  ASSUME NEW S, NEW q \in Seq(S)
  PROVE  q = <<>> <=> ToSet(q) = {}
<1>1. CASE q = <<>>
  BY <1>1 DEF ToSet
<1>2. CASE q # <<>>
  BY <1>2, TailElements
<1> QED BY <1>1, <1>2

LEMMA CoreStepKeeps ==
  ASSUME ~Wakes, EventInv, WriteOK, CoreStep
  PROVE  EventInv'
<1>1. /\ UNCHANGED <<queue, active, pass, at, sleepers, objects>>
      /\ cur' \in Proc /\ mode' \in {"run", "sched"} /\ mode # "events"
      /\ pcnt' \in [Proc -> Level]
  BY CoreStepOnList DEF EventInv
<1>2. PICK p \in Proc : ListStep(p) /\ (p \in Task => pc[p] = "out")
  BY CoreStepOnList DEF EventInv
<1>3. EventTypeOK' /\ RingInv'
  BY <1>1, <1>2 DEF EventInv, EventTypeOK, ListStep, sleepers, objects
<1>4. \A q \in Task : pc[q] # "out" => list'.status[q] = list.status[q]
  BY <1>2 DEF ListStep
<1>5. SleepInv'
  <2>1. \A q \in Task : Sleeping(q)' <=> Sleeping(q)
    BY <1>1 DEF sleepers, Sleeping
  <2>2. \A q \in Task : Sleeping(q) => list'.status[q] = list.status[q]
    BY <1>4 DEF Sleeping
  <2> QED
    BY <1>1, <1>2, <2>1, <2>2, QueuesLeft DEF EventInv, ListStep, sleepers
<1>6. ObjectInv'
  <2>1. \A e \in Event : \A q \in ToSet(waiters[e]) :
          pc[q] = "locking" /\ ~Enabled(list, q) /\ q \in Task
    BY DEF EventInv, ObjectInv, EventTypeOK, ToSet
  <2>2. \A e \in Event : \A q \in ToSet(waiters[e]) :
          pc'[q] = "locking" /\ ~Enabled(list', q)
    BY <1>1, <1>4, <2>1 DEF sleepers, Enabled
  <2> QED
    BY <1>1, <2>2, ObjectsLeft DEF EventInv, ObjectInv, sleepers
<1> QED BY <1>3, <1>5, <1>6 DEF EventInv

(***************************************************************************)
(* The levels os_queue_process_sort_priority compares are numbers.         *)
(***************************************************************************)
LEMMA SleeperLevels ==
  ASSUME RingInv
  PROVE  \A p \in Task : prio[p] \in Nat
<1>1. prio \in [Proc -> Level] /\ Task \subseteq Proc
  BY DEF RingInv, Task
<1>2. Level \subseteq Nat
  BY CoreAssumption DEF Level
<1> QED BY <1>1, <1>2

(***************************************************************************)
(* The argument list of a sleep is a list of events without repetition.    *)
(***************************************************************************)
LEMMA ArgumentList ==
  ASSUME NEW es \in Arguments
  PROVE  es \in Seq(Event) /\ IsInjective(es)
<1>1. Cardinality(Event) \in Nat
  BY EventAssumption, FS_CardinalityType
<1>2. PICK n \in 1 .. Cardinality(Event) : es \in [1 .. n -> Event]
  BY DEF Arguments
<1>3. es \in Seq(Event)
  BY <1>1, <1>2, SeqDef
<1> QED BY <1>3 DEF Arguments

(***************************************************************************)
(* __os_process_sleep leaves a list with the event process, and without    *)
(* the task, which is pending.                                             *)
(***************************************************************************)
LEMMA SleepOnList ==
  ASSUME EventInv, NEW p \in Task, NEW es \in Arguments, Sleep(p, es)
  PROVE  /\ ListStep(p)
         /\ list'.status[p] = "pending"
         /\ Enabled(list', App) /\ list'.appType = "event"
         /\ mode' = "sched"
<1> DEFINE d == Disable(list, p)
           b == [d EXCEPT !.status[p] = "pending"]
           r == EventEnable(b)
<1>1. /\ mode = "run" /\ cur = p /\ pc[p] = "out" /\ p \in Proc
      /\ UNCHANGED <<cur, created, prio, at>>
      /\ pc' = [pc EXCEPT ![p] = "asleep"]
      /\ pc \in [Task -> {"out", "locking", "asleep", "in"}]
  BY DEF Sleep, At, Calling, EventInv, EventTypeOK, Task
<1>2. /\ list \in List /\ WellFormed(list) /\ Enabled(list, p)
      /\ HasPred(list.next, p) /\ p \in created
  BY <1>1, EventRunning DEF EventInv
<1>3. d = DisableNaked(list, p) /\ ~DisableHangs(list, p)
  BY <1>2 DEF Disable, DisableHangs
<1>4. /\ d \in List /\ WellFormed(d)
      /\ d.next[p] \in Active(d)
      /\ ~Enabled(d, p)
      /\ \A q \in Task \ {p} : d.status[q] = list.status[q]
  BY <1>2, <1>3, DisableOnList
<1> HIDE DEF d
<1>5. /\ b.next = d.next /\ b.appType = d.appType
      /\ b.status = [d.status EXCEPT ![p] = "pending"]
      /\ b \in List
  BY <1>1, <1>4 DEF List, Status
<1>6. /\ b.status[p] = "pending"
      /\ \A q \in Task \ {p} : b.status[q] = list.status[q]
      /\ Active(b) = Active(d)
  <2>1. d.status \in [Proc -> Status]
    BY <1>4 DEF List
  <2> QED BY <1>1, <1>4, <1>5, <2>1 DEF Active, Enabled, Task
<1>7. WellFormed(b)
  <2>1. Enabled(b, App) => Enabled(d, App)
    BY <1>6, ProcessAssumption DEF Active
  <2> QED BY <1>4, <1>5, <1>6, <2>1 DEF WellFormed, OneCycle, AppAlone
<1> HIDE DEF b
<1>8. /\ ~EnableHangs(b, cur, App)
      /\ r \in List
      /\ WellFormed(r) /\ Awake(r) = r
      /\ r.next[cur] \in Active(r)
      /\ Enabled(r, App) /\ r.appType = "event"
      /\ \A q \in Task : r.status[q] = b.status[q]
  <2>1. cur \in Proc /\ b.next[cur] \in Active(b)
    BY <1>1, <1>4, <1>5, <1>6
  <2> QED BY <1>5, <1>7, <2>1, EventProcessEnters
<1> HIDE DEF r
<1>9. list' = r /\ mode' = "sched"
  BY <1>3, <1>8 DEF Sleep, Edit, b, d, r
<1>10. RingInv'
  <2>1. \A q \in Task : Enabled(list', q) \/ pc'[q] # "out" => q \in created'
    BY <1>1, <1>2, <1>6, <1>8, <1>9 DEF EventInv, RingInv, Enabled
  <2>2. Active(list') # {}
    BY <1>8, <1>9
  <2> QED BY <1>1, <1>8, <1>9, <2>1, <2>2 DEF EventInv, RingInv
<1> QED BY <1>6, <1>8, <1>9, <1>10 DEF ListStep

LEMMA SleepKeeps ==
  ASSUME EventInv, NEW p \in Task, NEW es \in Arguments, Sleep(p, es)
  PROVE  EventInv'
<1> DEFINE empty == {e \in Event : IsEmpty(e)}
           new == Kept(es, empty)
<1>1. /\ mode = "run" /\ cur = p /\ pc[p] = "out" /\ p \in Proc
      /\ \A e \in Event : p \notin ToSet(queue[e])
      /\ queue' = Registered(p, es)
      /\ active' = Reverse(new) \o active
      /\ pc' = [pc EXCEPT ![p] = "asleep"]
      /\ relation' = [relation EXCEPT ![p] = ToSet(es)]
      /\ with' = [with EXCEPT ![p] = Null]
      /\ UNCHANGED <<cur, pcnt, pass, at, objects>>
  BY DEF Sleep, At, Calling, Task, Activated
<1>2. /\ ListStep(p) /\ list'.status[p] = "pending"
      /\ Enabled(list', App) /\ list'.appType = "event"
      /\ mode' = "sched"
  BY SleepOnList
<1>3. es \in Seq(Event) /\ IsInjective(es) /\ ToSet(es) \subseteq Event
  BY ArgumentList DEF ToSet
<1>4. /\ queue \in [Event -> Seq(Task)] /\ active \in Seq(Event)
      /\ pc \in [Task -> {"out", "locking", "asleep", "in"}]
      /\ relation \in [Task -> SUBSET Event]
      /\ with \in [Task -> Event \cup {Null}]
      /\ with[p] = Null
  BY <1>1 DEF EventInv, EventTypeOK, ObjectInv
<1>5. ASSUME NEW e \in Event
      PROVE  /\ queue'[e] \in Seq(Task)
             /\ IsInjective(queue'[e])
             /\ ToSet(queue'[e]) = IF e \in ToSet(es) THEN ToSet(queue[e]) \cup {p}
                                   ELSE ToSet(queue[e])
             /\ e \in ToSet(es) => queue'[e] # <<>>
             /\ e \notin ToSet(es) => queue'[e] = queue[e]
  <2>1. queue'[e] = IF e \in ToSet(es) THEN Added(queue[e], p, prio) ELSE queue[e]
    BY <1>1 DEF Registered
  <2>2. queue[e] \in Seq(Task) /\ IsInjective(queue[e]) /\ p \notin ToSet(queue[e])
    BY <1>1, <1>4 DEF EventInv, SleepInv
  <2>3. \A x \in Task : prio[x] \in Nat
    BY SleeperLevels DEF EventInv
  <2> DEFINE added == Added(queue[e], p, prio)
  <2>4. /\ added \in Seq(Task) /\ added # <<>> /\ IsInjective(added)
        /\ ToSet(added) = ToSet(queue[e]) \cup {p}
    BY <2>2, <2>3, AddedElements
  <2> HIDE DEF added
  <2>5. queue'[e] = IF e \in ToSet(es) THEN added ELSE queue[e]
    BY <2>1 DEF added
  <2> QED BY <2>2, <2>4, <2>5
<1>6. queue' \in [Event -> Seq(Task)]
  BY <1>1, <1>5 DEF Registered
<1>7. /\ new \in Seq(Event) /\ IsInjective(new)
      /\ ToSet(new) = ToSet(es) \cap empty
  BY <1>3, KeptElements
<1>8. IsInjective(active) /\ \A e \in ToSet(active) : queue[e] # <<>>
  BY <1>1 DEF EventInv, SleepInv
<1>9. /\ active' \in Seq(Event)
      /\ IsInjective(active')
      /\ ToSet(active') = (ToSet(es) \cap empty) \cup ToSet(active)
  <2>1. ToSet(new) \cap ToSet(active) = {}
    BY <1>7, <1>8 DEF IsEmpty
  <2> HIDE DEF new
  <2> QED BY <1>1, <1>4, <1>7, <1>8, <2>1, ReverseInFront
<1>10. EventTypeOK'
  <2>1. relation' \in [Task -> SUBSET Event]
    BY <1>1, <1>3, <1>4
  <2> QED
    BY <1>1, <1>2, <1>4, <1>6, <1>9, <2>1
       DEF EventInv, EventTypeOK, ListStep, objects
<1>11. SleepInv'
  <2>1. ASSUME NEW q \in Task
        PROVE  /\ Sleeping(q)' <=> Sleeping(q) \/ q = p
               /\ relation'[q] = IF q = p THEN ToSet(es) ELSE relation[q]
    BY <1>1, <1>4 DEF Sleeping
  <2>2. ASSUME NEW q \in Task, NEW e \in Event
        PROVE  q \in ToSet(queue'[e]) <=> Sleeping(q)' /\ e \in relation'[q]
    <3>1. q \in ToSet(queue[e]) <=> Sleeping(q) /\ e \in relation[q]
      BY DEF EventInv, SleepInv
    <3> QED BY <1>1, <1>5, <2>1, <3>1
  <2>3. ASSUME NEW q \in Task, Sleeping(q)' PROVE list'.status[q] = "pending"
    <3>1. CASE q = p
      BY <1>2, <3>1
    <3>2. CASE q # p
      BY <1>2, <2>1, <2>3, <3>2 DEF EventInv, SleepInv, ListStep
    <3> QED BY <3>1, <3>2
  <2>4. ASSUME NEW e \in Event, queue'[e] # <<>> PROVE e \in ToSet(active')
    <3>1. CASE e \in ToSet(es) /\ queue[e] = <<>>
      BY <1>9, <3>1 DEF IsEmpty
    <3>2. CASE e \notin ToSet(es) \/ queue[e] # <<>>
      BY <1>5, <1>9, <2>4, <3>2 DEF EventInv, SleepInv
    <3> QED BY <3>1, <3>2
  <2>5. ASSUME NEW e \in ToSet(active') PROVE queue'[e] # <<>>
    <3>1. e \in Event
      BY <1>9 DEF ToSet
    <3>2. CASE e \in ToSet(es)
      BY <1>5, <3>1, <3>2
    <3>3. CASE e \notin ToSet(es)
      BY <1>5, <1>8, <1>9, <3>1, <3>3
    <3> QED BY <3>2, <3>3
  <2> QED
    BY <1>2, <1>5, <1>9, <2>2, <2>3, <2>4, <2>5 DEF SleepInv
<1>12. ObjectInv'
  <2>1. with' = with
    BY <1>1, <1>4
  <2>2. ASSUME NEW e \in Event, NEW q \in ToSet(waiters[e])
        PROVE  pc'[q] = "locking" /\ ~Enabled(list', q)
    <3>1. q \in Task /\ pc[q] = "locking" /\ ~Enabled(list, q)
      BY DEF EventInv, ObjectInv, EventTypeOK, ToSet
    <3>2. q # p
      BY <1>1, <3>1
    <3> QED BY <1>1, <1>2, <1>4, <3>1, <3>2 DEF ListStep, Enabled
  <2>3. \A q \in Task : /\ pc'[q] = "out" => with[q] = Null
                        /\ pc'[q] \in {"in", "locking"} => with[q] \in Event
    BY <1>1, <1>4 DEF EventInv, ObjectInv
  <2> QED BY <1>1, <2>1, <2>2, <2>3, ObjectsLeft DEF EventInv
<1> QED BY <1>2, <1>10, <1>11, <1>12 DEF EventInv, ListStep

(***************************************************************************)
(* What the invariant says of a task inside a call, and of one that runs:  *)
(* it waits for nothing.                                                   *)
(***************************************************************************)
LEMMA CallerFacts ==
  ASSUME EventInv, mode = "run", cur \in Task
  PROVE  /\ Enabled(list, cur) /\ cur \in created
         /\ ~Sleeping(cur)
         /\ \A e \in Event : cur \notin ToSet(waiters[e])
         /\ mode # "events"
         /\ \A q \in Task : pc[q] # "out" => q \in created
<1>1. Enabled(list, cur) /\ cur \in created
  BY EventRunning DEF EventInv
<1>2. ~Sleeping(cur)
  BY <1>1 DEF EventInv, SleepInv, Enabled
<1> QED BY <1>1, <1>2 DEF EventInv, ObjectInv, RingInv

LEMMA ReturnsKeep ==
  ASSUME EventInv, NEW p \in Task, SleepReturn(p) \/ LockReturn(p)
  PROVE  EventInv'
<1>1. /\ mode = "run" /\ cur = p
      /\ UNCHANGED <<vars, queue, active, pass, at, with, objects>>
      /\ \A q \in Task : q # p => pc'[q] = pc[q] /\ relation'[q] = relation[q]
      /\ pc' \in [Task -> {"out", "locking", "asleep", "in"}]
      /\ relation' \in [Task -> SUBSET Event]
      /\ with \in [Task -> Event \cup {Null}]
  BY DEF SleepReturn, LockReturn, At, Calling, EventInv, EventTypeOK
<1>2. /\ Enabled(list, p) /\ p \in created
      /\ ~Sleeping(p)
      /\ \A e \in Event : p \notin ToSet(waiters[e])
      /\ mode # "events"
      /\ \A q \in Task : pc[q] # "out" => q \in created
  BY <1>1, CallerFacts
<1>3. /\ with[p] \in Event
      /\ pc'[p] = "in"
  <2>1. CASE SleepReturn(p)
    <3>1. pc[p] = "asleep" /\ pc' = [pc EXCEPT ![p] = IF with[p] = Null THEN "out" ELSE "in"]
      BY <2>1 DEF SleepReturn, At
    <3>2. with[p] # Null
      BY <1>2, <3>1 DEF Sleeping
    <3> QED BY <1>1, <3>1, <3>2 DEF EventInv, EventTypeOK
  <2>2. CASE LockReturn(p)
    <3>1. pc[p] = "locking" /\ pc' = [pc EXCEPT ![p] = "in"]
      BY <2>2 DEF LockReturn, At
    <3> QED BY <3>1 DEF EventInv, EventTypeOK, ObjectInv
  <2> QED BY <2>1, <2>2
<1>4. ListStep(p)
  <2>1. \A q \in Task : pc'[q] # "out" => q \in created
    BY <1>1, <1>2
  <2> QED BY <1>1, <2>1, StepLeavesList DEF EventInv, vars
<1>5. EventTypeOK'
  BY <1>1 DEF EventInv, EventTypeOK, vars, objects
<1>6. SleepInv'
  <2>1. ASSUME NEW q \in Task
        PROVE  /\ Sleeping(q)' <=> Sleeping(q)
               /\ Sleeping(q) => relation'[q] = relation[q]
    BY <1>1, <1>2, <1>3 DEF Sleeping
  <2> QED BY <1>1, <1>2, <2>1, QueuesLeft DEF EventInv, vars
<1>7. ObjectInv'
  <2>1. ASSUME NEW q \in Task
        PROVE  /\ pc'[q] = "out" => with[q] = Null
               /\ pc'[q] \in {"in", "locking"} => with[q] \in Event
    BY <1>1, <1>3 DEF EventInv, ObjectInv
  <2>2. ASSUME NEW e \in Event, NEW q \in ToSet(waiters[e])
        PROVE  pc'[q] = "locking" /\ ~Enabled(list', q)
    <3>1. q \in Task /\ pc[q] = "locking" /\ ~Enabled(list, q) /\ q # p
      BY <1>2 DEF EventInv, ObjectInv, EventTypeOK, ToSet
    <3> QED BY <1>1, <3>1 DEF vars
  <2> QED BY <1>1, <2>1, <2>2, ObjectsLeft DEF EventInv
<1> QED BY <1>4, <1>5, <1>6, <1>7 DEF EventInv, ListStep

(***************************************************************************)
(* A step that gives or takes one object, behind event e: the counts of    *)
(* the others stand.                                                       *)
(***************************************************************************)
LEMMA OthersKeepTheirs ==
  ASSUME ObjectInv, NEW e \in Event,
         \A f \in Event \ {e} : /\ free'[f] = free[f] /\ waiters'[f] = waiters[f]
                                /\ owner'[f] = owner[f] /\ Holders(f)' = Holders(f)
                                /\ \A p \in ToSet(waiters[f]) :
                                     /\ pc'[p] = "locking" /\ with'[p] = f
                                     /\ ~Enabled(list', p),
         \A p \in Task : /\ pc'[p] = "out" => with'[p] = Null
                         /\ pc'[p] \in {"in", "locking"} => with'[p] \in Event,
         IsInjective(waiters'[e]),
         \A p \in ToSet(waiters'[e]) :
           pc'[p] = "locking" /\ with'[p] = e /\ ~Enabled(list', p),
         IsFiniteSet(Holders(e)'),
         free'[e] + Cardinality(Holders(e)') = Initially(e),
         Kind[e] = "mutex" => \A p \in Holders(e)' : owner'[e] = p
  PROVE  ObjectInv'
<1>1. ASSUME NEW f \in Event
      PROVE  /\ IsInjective(waiters'[f])
             /\ \A p \in ToSet(waiters'[f]) :
                  pc'[p] = "locking" /\ with'[p] = f /\ ~Enabled(list', p)
             /\ IsFiniteSet(Holders(f)')
             /\ free'[f] + Cardinality(Holders(f)') = Initially(f)
             /\ Kind[f] = "mutex" => \A p \in Holders(f)' : owner'[f] = p
  BY DEF ObjectInv
<1> QED BY <1>1 DEF ObjectInv, Initially

(***************************************************************************)
(* At most one task holds a mutex, and the mutex is free when none does.   *)
(***************************************************************************)
LEMMA MutexHolder ==
  ASSUME EventInv, NEW e \in Event, Kind[e] = "mutex"
  PROVE  /\ free[e] = 1 => Holders(e) = {}
         /\ \A p \in Holders(e) : free[e] = 0 /\ owner[e] = p /\ Holders(e) = {p}
<1>1. /\ IsFiniteSet(Holders(e))
      /\ free[e] + Cardinality(Holders(e)) = 1
      /\ \A p \in Holders(e) : owner[e] = p
      /\ free[e] \in Nat
  BY EventAssumption DEF EventInv, ObjectInv, Initially, EventTypeOK
<1>2. Cardinality(Holders(e)) \in Nat
  BY <1>1, FS_CardinalityType
<1>3. free[e] = 1 => Holders(e) = {}
  BY <1>1, <1>2, FS_EmptySet
<1>4. ASSUME NEW p \in Holders(e)
      PROVE  free[e] = 0 /\ owner[e] = p /\ Holders(e) = {p}
  <2>1. Cardinality(Holders(e)) # 0
    BY <1>1, FS_EmptySet
  <2> QED BY <1>1, <1>2, <2>1
<1> QED BY <1>3, <1>4

(***************************************************************************)
(* os_mutex_lock, of a mutex that is free and of one that is not.          *)
(***************************************************************************)
LEMMA LockKeeps ==
  ASSUME EventInv, NEW p \in Task, NEW e \in Event, Lock(p, e)
  PROVE  EventInv'
<1>1. /\ mode = "run" /\ cur = p /\ pc[p] = "out" /\ Kind[e] = "mutex"
      /\ with' = [with EXCEPT ![p] = e]
      /\ UNCHANGED <<cur, created, prio, pcnt, queue, active, pass, at, relation>>
      /\ with[p] = Null
  BY DEF Lock, At, Calling, EventInv, ObjectInv
<1>2. /\ pc \in [Task -> {"out", "locking", "asleep", "in"}]
      /\ with \in [Task -> Event \cup {Null}]
      /\ waiters \in [Event -> Seq(Task)]
      /\ owner \in [Event -> Task \cup {Null}]
      /\ free \in [Event -> 0 .. MaxCount + 1]
      /\ MaxCount \in Nat /\ Null \notin Event
  BY EventAssumption DEF EventInv, EventTypeOK
<1>3. /\ Enabled(list, p) /\ p \in created /\ HasPred(list.next, p)
      /\ ~Sleeping(p)
      /\ \A f \in Event : p \notin ToSet(waiters[f])
      /\ mode # "events"
      /\ \A q \in Task : pc[q] # "out" => q \in created
  BY <1>1, CallerFacts, EventRunning DEF EventInv
<1>4. \A f \in Event : \A q \in ToSet(waiters[f]) :
        q \in Task /\ q # p /\ pc[q] = "locking" /\ with[q] = f /\ ~Enabled(list, q)
  BY <1>3 DEF EventInv, ObjectInv, EventTypeOK, ToSet
<1>5. CASE free[e] = 1 /\ free' = [free EXCEPT ![e] = 0]
           /\ owner' = [owner EXCEPT ![e] = p] /\ pc' = [pc EXCEPT ![p] = "in"]
           /\ UNCHANGED <<list, mode, waiters>>
  <2>1. ListStep(p)
    BY <1>1, <1>2, <1>3, <1>5, StepLeavesList DEF EventInv
  <2>2. EventTypeOK'
    BY <1>1, <1>2, <1>5 DEF EventInv, EventTypeOK
  <2>3. SleepInv'
    <3>1. \A q \in Task : Sleeping(q)' <=> Sleeping(q)
      BY <1>1, <1>2, <1>3, <1>5 DEF Sleeping
    <3> QED BY <1>1, <1>3, <1>5, <3>1, QueuesLeft DEF EventInv
  <2>4. Holders(e)' = {p}
    <3>1. Holders(e) = {}
      BY <1>1, <1>5, MutexHolder
    <3> QED BY <1>1, <1>2, <1>3, <1>5, <3>1 DEF Holders
  <2>5. \A f \in Event \ {e} : Holders(f)' = Holders(f)
    BY <1>1, <1>2, <1>5 DEF Holders
  <2>6. IsFiniteSet(Holders(e)') /\ free'[e] + Cardinality(Holders(e)') = Initially(e)
    <3>1. IsFiniteSet({p}) /\ Cardinality({p}) = 1
      BY FS_Singleton
    <3>2. free'[e] = 0 /\ Initially(e) = 1
      BY <1>1, <1>2, <1>5 DEF Initially
    <3> QED BY <2>4, <3>1, <3>2
  <2>7. \A f \in Event : \A q \in ToSet(waiters'[f]) :
          pc'[q] = "locking" /\ with'[q] = f /\ ~Enabled(list', q)
    BY <1>1, <1>2, <1>4, <1>5
  <2>8. \A q \in Task : /\ pc'[q] = "out" => with'[q] = Null
                        /\ pc'[q] \in {"in", "locking"} => with'[q] \in Event
    BY <1>1, <1>2, <1>5 DEF EventInv, ObjectInv
  <2>9. \A f \in Event \ {e} : /\ free'[f] = free[f] /\ waiters'[f] = waiters[f]
                               /\ owner'[f] = owner[f]
    BY <1>2, <1>5
  <2>10. IsInjective(waiters'[e]) /\ \A q \in Holders(e)' : owner'[e] = q
    BY <1>2, <1>5, <2>4 DEF EventInv, ObjectInv
  <2>11. ObjectInv'
    BY <1>5, <2>5, <2>6, <2>7, <2>8, <2>9, <2>10, OthersKeepTheirs DEF EventInv
  <2> QED BY <2>1, <2>2, <2>3, <2>11 DEF EventInv, ListStep
<1>6. CASE free[e] = 0 /\ Edit(DisableNaked(list, p), ~HasPred(list.next, p), "sched")
           /\ waiters' = [waiters EXCEPT ![e] = Added(@, p, prio)]
           /\ pc' = [pc EXCEPT ![p] = "locking"] /\ UNCHANGED <<free, owner>>
  <2>1. list' = DisableNaked(list, p) /\ mode' = "sched"
    BY <1>3, <1>6 DEF Edit
  <2>2. ListStep(p) /\ ~Enabled(list', p)
    BY <1>1, <1>2, <1>3, <1>6, <2>1, StepDisables DEF EventInv
  <2> DEFINE added == Added(waiters[e], p, prio)
  <2>3. /\ added \in Seq(Task) /\ IsInjective(added)
        /\ ToSet(added) = ToSet(waiters[e]) \cup {p}
    <3>1. waiters[e] \in Seq(Task) /\ IsInjective(waiters[e]) /\ p \notin ToSet(waiters[e])
      BY <1>2, <1>3 DEF EventInv, ObjectInv
    <3>2. \A x \in Task : prio[x] \in Nat
      BY SleeperLevels DEF EventInv
    <3> QED BY <3>1, <3>2, AddedElements
  <2>4. /\ waiters' \in [Event -> Seq(Task)] /\ waiters'[e] = added
        /\ \A f \in Event \ {e} : waiters'[f] = waiters[f]
    <3>1. waiters' = [waiters EXCEPT ![e] = added]
      BY <1>6
    <3> HIDE DEF added
    <3> QED BY <1>2, <2>3, <3>1
  <2> HIDE DEF added
  <2>5. EventTypeOK'
    BY <1>1, <1>2, <1>6, <2>1, <2>2, <2>4 DEF EventInv, EventTypeOK, ListStep
  <2>6. SleepInv'
    <3>1. \A q \in Task : /\ Sleeping(q)' <=> Sleeping(q)
                          /\ Sleeping(q) => list'.status[q] = list.status[q]
      BY <1>1, <1>2, <1>3, <1>6, <2>2 DEF Sleeping, ListStep
    <3> QED BY <1>1, <1>3, <2>2, <3>1, QueuesLeft DEF EventInv, ListStep
  <2>7. \A f \in Event : Holders(f)' = Holders(f)
    <3>1. Holders(e)' = Holders(e)
      BY <1>1, <1>2, <2>3, <2>4 DEF Holders
    <3>2. \A f \in Event \ {e} : Holders(f)' = Holders(f)
      BY <1>1, <1>2, <2>4 DEF Holders
    <3> QED BY <3>1, <3>2
  <2>8. \A f \in Event : \A q \in ToSet(waiters'[f]) :
          pc'[q] = "locking" /\ with'[q] = f /\ ~Enabled(list', q)
    <3> SUFFICES ASSUME NEW f \in Event, NEW q \in ToSet(waiters'[f])
                 PROVE  pc'[q] = "locking" /\ with'[q] = f /\ ~Enabled(list', q)
      OBVIOUS
    <3>1. CASE q = p
      <4>1. f = e
        BY <1>3, <2>4, <3>1
      <4> QED BY <1>1, <1>2, <1>6, <2>2, <3>1, <4>1
    <3>2. CASE q # p
      <4>1. q \in ToSet(waiters[f])
        BY <2>3, <2>4, <3>2
      <4> QED BY <1>1, <1>2, <1>4, <1>6, <2>2, <3>2, <4>1 DEF ListStep, Enabled
    <3> QED BY <3>1, <3>2
  <2>9. \A q \in Task : /\ pc'[q] = "out" => with'[q] = Null
                        /\ pc'[q] \in {"in", "locking"} => with'[q] \in Event
    BY <1>1, <1>2, <1>6 DEF EventInv, ObjectInv
  <2>10. ObjectInv'
    BY <1>6, <2>3, <2>4, <2>7, <2>8, <2>9 DEF EventInv, ObjectInv, Initially
  <2> QED BY <2>2, <2>5, <2>6, <2>10 DEF EventInv, ListStep
<1> QED BY <1>5, <1>6 DEF Lock

(***************************************************************************)
(* os_mutex_unlock: the mutex goes to the first task that waits, or is     *)
(* free.                                                                   *)
(***************************************************************************)
LEMMA UnlockKeeps ==
  ASSUME EventInv, NEW p \in Task, Unlock(p)
  PROVE  EventInv'
<1>0. PICK e \in Event : e = with[p]
  BY DEF Unlock, At, EventInv, ObjectInv
<1> DEFINE h == Head(waiters[e])
<1>1. /\ mode = "run" /\ cur = p /\ pc[p] = "in" /\ Kind[e] = "mutex"
      /\ with' = [with EXCEPT ![p] = Null]
      /\ pc' = [pc EXCEPT ![p] = "out"]
      /\ UNCHANGED <<cur, created, prio, pcnt, queue, active, pass, at, relation>>
      /\ e = with[p]
  BY <1>0 DEF Unlock, At, Calling
<1>2. /\ pc \in [Task -> {"out", "locking", "asleep", "in"}]
      /\ with \in [Task -> Event \cup {Null}]
      /\ waiters \in [Event -> Seq(Task)]
      /\ owner \in [Event -> Task \cup {Null}]
      /\ free \in [Event -> 0 .. MaxCount + 1]
      /\ MaxCount \in Nat /\ Null \notin Event
  BY EventAssumption DEF EventInv, EventTypeOK
<1>3. /\ Enabled(list, p) /\ p \in created
      /\ InsertionFound(list, cur)
      /\ \A f \in Event : p \notin ToSet(waiters[f])
      /\ mode # "events"
      /\ \A q \in Task : pc[q] # "out" => q \in created
  BY <1>1, CallerFacts, EventRunning DEF EventInv
<1>4. \A f \in Event : \A q \in ToSet(waiters[f]) :
        q \in Task /\ q # p /\ pc[q] = "locking" /\ with[q] = f /\ ~Enabled(list, q)
  BY <1>3 DEF EventInv, ObjectInv, EventTypeOK, ToSet
<1>5. Holders(e) = {p} /\ free[e] = 0 /\ owner[e] = p
  <2>1. p \in Holders(e)
    BY <1>1, <1>3 DEF Holders
  <2> QED BY <1>1, <2>1, MutexHolder
<1>6. \A q \in Task : /\ Sleeping(q)' <=> Sleeping(q)
                      /\ Sleeping(q) => pc[q] = "asleep"
  BY <1>1, <1>2 DEF Sleeping
<1>7. \A q \in Task : /\ pc'[q] = "out" => with'[q] = Null
                      /\ pc'[q] \in {"in", "locking"} => with'[q] \in Event
  BY <1>1, <1>2 DEF EventInv, ObjectInv
<1>8. CASE /\ waiters[e] # <<>>
           /\ owner' = [owner EXCEPT ![e] = h]
           /\ waiters' = [waiters EXCEPT ![e] = Tail(@)]
           /\ Edit(EnableNaked(list, cur, h), ~InsertionFound(list, cur), "run")
           /\ UNCHANGED free
  <2> DEFINE rest1 == Tail(waiters[e])
  <2>1. /\ h \in Task /\ rest1 \in Seq(Task)
        /\ ToSet(waiters[e]) = ToSet(rest1) \cup {h}
        /\ IsInjective(rest1) /\ h \notin ToSet(rest1)
    <3>1. waiters[e] \in Seq(Task) /\ IsInjective(waiters[e]) /\ waiters[e] # <<>>
      BY <1>1, <1>2, <1>8 DEF EventInv, ObjectInv
    <3> QED BY <3>1, TailElements
  <2>2. /\ waiters' \in [Event -> Seq(Task)] /\ waiters'[e] = rest1
        /\ \A f \in Event \ {e} : waiters'[f] = waiters[f]
    <3>1. waiters' = [waiters EXCEPT ![e] = rest1]
      BY <1>8
    <3> HIDE DEF rest1
    <3> QED BY <1>1, <1>2, <2>1, <3>1
  <2> HIDE DEF h, rest1
  <2>3. h # p /\ pc[h] = "locking" /\ with[h] = e /\ ~Enabled(list, h) /\ h \in created
    BY <1>1, <1>3, <1>4, <2>1
  <2>4. list' = EnableNaked(list, cur, h) /\ mode' = "run"
    BY <1>3, <1>8 DEF Edit
  <2>5. ListStep(h)
    <3>1. \A q \in Task : pc'[q] # "out" => q \in created
      BY <1>1, <1>2, <1>3
    <3>2. created' \in SUBSET Task /\ prio' \in [Proc -> Level]
      BY <1>1 DEF EventInv, RingInv
    <3> QED BY <1>1, <2>1, <2>3, <2>4, <3>1, <3>2, StepEnables DEF EventInv
  <2>6. EventTypeOK'
    <3>1. owner' \in [Event -> Task \cup {Null}]
      BY <1>2, <1>8, <2>1
    <3> QED
      BY <1>1, <1>2, <1>8, <2>2, <2>4, <2>5, <3>1 DEF EventInv, EventTypeOK, ListStep
  <2>7. SleepInv'
    <3>1. \A q \in Task : Sleeping(q) => list'.status[q] = list.status[q]
      BY <1>6, <2>3, <2>5 DEF ListStep
    <3> QED BY <1>1, <1>3, <1>6, <2>5, <3>1, QueuesLeft DEF EventInv, ListStep
  <2>8. Holders(e)' = {h}
    <3>1. ASSUME NEW q \in Task PROVE q \in Holders(e)' <=> q = h
      <4>1. q \in Holders(e)' <=> with'[q] = e /\ q \notin ToSet(rest1)
        BY <2>2 DEF Holders
      <4>2. CASE q = p
        BY <1>1, <1>2, <2>3, <4>1, <4>2
      <4>3. CASE q = h
        BY <1>1, <1>2, <2>1, <2>3, <4>1, <4>3
      <4>4. CASE q # p /\ q # h
        BY <1>1, <1>2, <1>5, <2>1, <4>1, <4>4 DEF Holders
      <4> QED BY <4>2, <4>3, <4>4
    <3> QED BY <2>1, <3>1 DEF Holders
  <2>9. \A f \in Event \ {e} : Holders(f)' = Holders(f)
    BY <1>1, <1>2, <2>2 DEF Holders
  <2>10. IsFiniteSet(Holders(e)') /\ free'[e] + Cardinality(Holders(e)') = Initially(e)
    <3>1. IsFiniteSet({h}) /\ Cardinality({h}) = 1
      BY FS_Singleton
    <3>2. free'[e] = 0 /\ Initially(e) = 1
      BY <1>1, <1>5, <1>8 DEF Initially
    <3> QED BY <2>8, <3>1, <3>2
  <2>11. \A f \in Event : \A q \in ToSet(waiters'[f]) :
           pc'[q] = "locking" /\ with'[q] = f /\ ~Enabled(list', q)
    <3> SUFFICES ASSUME NEW f \in Event, NEW q \in ToSet(waiters'[f])
                 PROVE  pc'[q] = "locking" /\ with'[q] = f /\ ~Enabled(list', q)
      OBVIOUS
    <3>1. q \in ToSet(waiters[f]) /\ q # h
      BY <1>4, <2>1, <2>2, <2>3
    <3>2. q \in Task /\ q # p /\ pc[q] = "locking" /\ with[q] = f /\ ~Enabled(list, q)
      BY <1>4, <3>1
    <3>3. list'.status[q] = list.status[q]
      BY <2>5, <3>1, <3>2 DEF ListStep
    <3> QED BY <1>1, <1>2, <3>2, <3>3 DEF Enabled
  <2>12. /\ \A f \in Event \ {e} : /\ free'[f] = free[f] /\ waiters'[f] = waiters[f]
                                   /\ owner'[f] = owner[f]
         /\ IsInjective(waiters'[e]) /\ \A q \in Holders(e)' : owner'[e] = q
    BY <1>1, <1>2, <1>8, <2>1, <2>2, <2>8
  <2>13. ObjectInv'
    <3>1. \A f \in Event \ {e} : \A q \in ToSet(waiters[f]) :
            pc'[q] = "locking" /\ with'[q] = f /\ ~Enabled(list', q)
      BY <2>11, <2>12
    <3> QED
      BY <1>1, <1>7, <2>9, <2>10, <2>11, <2>12, <3>1, OthersKeepTheirs DEF EventInv
  <2> QED BY <2>5, <2>6, <2>7, <2>13 DEF EventInv, ListStep
<1>9. CASE /\ waiters[e] = <<>>
           /\ free' = [free EXCEPT ![e] = 1]
           /\ UNCHANGED <<list, mode, waiters, owner>>
  <2>1. ListStep(p)
    BY <1>1, <1>2, <1>3, <1>9, StepLeavesList DEF EventInv
  <2>2. EventTypeOK'
    BY <1>1, <1>2, <1>9 DEF EventInv, EventTypeOK
  <2>3. SleepInv'
    BY <1>1, <1>3, <1>6, <1>9, QueuesLeft DEF EventInv
  <2>4. Holders(e)' = {}
    BY <1>1, <1>2, <1>5, <1>9 DEF Holders
  <2>5. \A f \in Event \ {e} : Holders(f)' = Holders(f)
    BY <1>1, <1>2, <1>9 DEF Holders
  <2>6. IsFiniteSet(Holders(e)') /\ free'[e] + Cardinality(Holders(e)') = Initially(e)
    <3>1. IsFiniteSet({}) /\ Cardinality({}) = 0
      BY FS_EmptySet
    <3>2. free'[e] = 1 /\ Initially(e) = 1
      BY <1>1, <1>2, <1>9 DEF Initially
    <3> QED BY <2>4, <3>1, <3>2
  <2>7. \A f \in Event : \A q \in ToSet(waiters'[f]) :
          pc'[q] = "locking" /\ with'[q] = f /\ ~Enabled(list', q)
    BY <1>1, <1>2, <1>4, <1>9
  <2>8. /\ \A f \in Event \ {e} : /\ free'[f] = free[f] /\ waiters'[f] = waiters[f]
                                  /\ owner'[f] = owner[f]
        /\ IsInjective(waiters'[e]) /\ \A q \in Holders(e)' : owner'[e] = q
    BY <1>1, <1>2, <1>9, <2>4 DEF EventInv, ObjectInv
  <2>9. ObjectInv'
    BY <1>1, <1>7, <1>9, <2>5, <2>6, <2>7, <2>8, OthersKeepTheirs DEF EventInv
  <2> QED BY <2>1, <2>2, <2>3, <2>9 DEF EventInv, ListStep
<1> QED BY <1>1, <1>5, <1>8, <1>9 DEF Unlock

(***************************************************************************)
(* os_semaphore_release: the counter is below its limit while a task has a *)
(* token.                                                                  *)
(***************************************************************************)
LEMMA ReleaseKeeps ==
  ASSUME EventInv, NEW p \in Task, Release(p)
  PROVE  EventInv'
<1>0. PICK e \in Event : e = with[p]
  BY DEF Release, At, EventInv, ObjectInv
<1>1. /\ mode = "run" /\ cur = p /\ pc[p] = "in" /\ Kind[e] = "semaphore"
      /\ with' = [with EXCEPT ![p] = Null]
      /\ pc' = [pc EXCEPT ![p] = "out"]
      /\ free' = [free EXCEPT ![e] = IF @ < MaxCount THEN @ + 1 ELSE @]
      /\ UNCHANGED <<vars, queue, active, pass, at, relation, waiters, owner>>
      /\ e = with[p]
  BY <1>0 DEF Release, At, Calling
<1>2. /\ pc \in [Task -> {"out", "locking", "asleep", "in"}]
      /\ with \in [Task -> Event \cup {Null}]
      /\ free \in [Event -> 0 .. MaxCount + 1]
      /\ MaxCount \in Nat /\ Null \notin Event
  BY EventAssumption DEF EventInv, EventTypeOK
<1>3. /\ \A f \in Event : p \notin ToSet(waiters[f])
      /\ mode # "events"
      /\ \A q \in Task : pc[q] # "out" => q \in created
  BY <1>1, CallerFacts DEF EventInv
<1>4. \A f \in Event : \A q \in ToSet(waiters[f]) :
        q \in Task /\ q # p /\ pc[q] = "locking" /\ with[q] = f /\ ~Enabled(list, q)
  BY <1>3 DEF EventInv, ObjectInv, EventTypeOK, ToSet
<1>5. p \in Holders(e)
  BY <1>1, <1>3 DEF Holders
<1>6. /\ IsFiniteSet(Holders(e)) /\ free[e] + Cardinality(Holders(e)) = MaxCount
      /\ Cardinality(Holders(e)) \in Nat /\ free[e] \in Nat
      /\ Cardinality(Holders(e)) # 0
  <2>1. IsFiniteSet(Holders(e)) /\ free[e] + Cardinality(Holders(e)) = MaxCount
    BY <1>1 DEF EventInv, ObjectInv, Initially
  <2> QED BY <1>1, <1>2, <1>5, <2>1, FS_CardinalityType, FS_EmptySet
<1>7. free'[e] = free[e] + 1 /\ free[e] < MaxCount
  BY <1>1, <1>2, <1>6
<1>8. Holders(e)' = Holders(e) \ {p}
  BY <1>1, <1>2 DEF Holders
<1>9. \A f \in Event \ {e} : Holders(f)' = Holders(f)
  BY <1>1, <1>2 DEF Holders
<1>10. IsFiniteSet(Holders(e)') /\ free'[e] + Cardinality(Holders(e)') = Initially(e)
  <2>1. /\ IsFiniteSet(Holders(e)')
        /\ Cardinality(Holders(e)') = Cardinality(Holders(e)) - 1
    BY <1>5, <1>6, <1>8, FS_RemoveElement
  <2> QED BY <1>1, <1>6, <1>7, <2>1 DEF Initially
<1>11. \A q \in Task : /\ pc'[q] = "out" => with'[q] = Null
                       /\ pc'[q] \in {"in", "locking"} => with'[q] \in Event
  BY <1>1, <1>2 DEF EventInv, ObjectInv
<1>12. ListStep(p)
  BY <1>1, <1>2, <1>3, StepLeavesList DEF EventInv, vars
<1>13. EventTypeOK'
  <2>1. free' \in [Event -> 0 .. MaxCount + 1]
    BY <1>1, <1>2
  <2> QED BY <1>1, <1>2, <2>1 DEF EventInv, EventTypeOK, vars
<1>14. SleepInv'
  <2>1. \A q \in Task : Sleeping(q)' <=> Sleeping(q)
    BY <1>1, <1>2 DEF Sleeping
  <2> QED BY <1>1, <1>3, <2>1, QueuesLeft DEF EventInv, vars
<1>15. ObjectInv'
  <2>1. \A f \in Event : \A q \in ToSet(waiters'[f]) :
          pc'[q] = "locking" /\ with'[q] = f /\ ~Enabled(list', q)
    BY <1>1, <1>2, <1>4 DEF vars
  <2>2. /\ \A f \in Event \ {e} : /\ free'[f] = free[f] /\ waiters'[f] = waiters[f]
                                  /\ owner'[f] = owner[f]
        /\ IsInjective(waiters'[e])
        /\ Kind[e] # "mutex"
    BY <1>1, <1>2 DEF EventInv, ObjectInv
  <2> QED
    BY <1>1, <1>9, <1>10, <1>11, <2>1, <2>2, OthersKeepTheirs DEF EventInv
<1> QED BY <1>12, <1>13, <1>14, <1>15 DEF EventInv, ListStep

-----------------------------------------------------------------------------
(* The event scheduler.                                                    *)

(***************************************************************************)
(* os_app calls the event scheduler, which begins a pass with the events   *)
(* that are active.                                                        *)
(***************************************************************************)
LEMMA EntryKeeps ==
  ASSUME EventInv,
         \/ CallScheduler
         \/ BeginPass /\ active # <<>>
  PROVE  EventInv'
<1>1. /\ mode = "run" /\ cur = App /\ at' = "event"
      /\ mode' \in {"run", "events"}
      /\ UNCHANGED <<list, cur, created, prio, pcnt,
                     queue, active, sleepers, objects>>
      /\ pass' = pass \/ pass' = [todo |-> active, status |-> "none"]
  BY DEF CallScheduler, BeginPass, Calling, vars
<1>2. Enabled(list, App) /\ list.appType = "event"
  <2>1. list.appType = "event"
    BY DEF CallScheduler, BeginPass, IsEvent, EventInv, RingInv
  <2> QED BY <1>1, <2>1 DEF EventInv, RingInv
<1>3. EventTypeOK'
  BY <1>1 DEF EventInv, EventTypeOK, EventAnswer, sleepers, objects
<1>4. RingInv'
  BY <1>1, <1>2 DEF EventInv, RingInv, sleepers
<1>5. SleepInv'
  BY <1>1 DEF EventInv, SleepInv, Sleeping, sleepers
<1>6. ObjectInv'
  BY <1>1 DEF EventInv, ObjectInv, Holders, sleepers, objects
<1> QED BY <1>3, <1>4, <1>5, <1>6 DEF EventInv

(***************************************************************************)
(* With no active event os_app takes itself off the list.                  *)
(***************************************************************************)
LEMMA GoingKeeps ==
  ASSUME EventInv, BeginPass, active = <<>>
  PROVE  EventInv'
<1>1. /\ mode = "run" /\ cur = App /\ at = "event"
      /\ Edit(EventDisable(list), IsEvent(list) /\ DisableHangs(list, App), "sched")
      /\ at' = IF IsEvent(list) THEN "resume" ELSE "loop"
      /\ UNCHANGED <<cur, created, prio, pcnt,
                     queue, active, pass, sleepers, objects>>
  BY DEF BeginPass, Calling
<1>2. /\ Enabled(list, App) /\ list.appType = "event"
      /\ list \in List /\ WellFormed(list)
  <2>1. Enabled(list, App) /\ list.appType = "event"
    BY <1>1 DEF EventInv, RingInv
  <2>2. Active(list) # {}
    BY <2>1, ProcessAssumption DEF Active
  <2> QED BY <1>1, <2>1, <2>2, EventRunning DEF EventInv
<1> DEFINE r == Disable(list, App)
<1>3. /\ ~DisableHangs(list, App)
      /\ r \in List
      /\ WellFormed(Awake(r))
      /\ Active(r) = {} => r.appType = "application"
      /\ r.next[App] \in Active(Awake(r))
      /\ \A q \in Task : r.status[q] = list.status[q]
  BY <1>2, EventProcessLeaves
<1>4. list' = r /\ mode' = "sched" /\ at' = "resume"
  BY <1>1, <1>2, <1>3 DEF Edit, EventDisable, IsEvent
<1> HIDE DEF r
<1>5. EventTypeOK'
  BY <1>1, <1>3, <1>4 DEF EventInv, EventTypeOK, sleepers, objects
<1>6. RingInv'
  BY <1>1, <1>3, <1>4 DEF EventInv, RingInv, Enabled, sleepers
<1>7. \A e \in Event : queue[e] = <<>>
  <2>1. ToSet(active) = {}
    BY DEF ToSet
  <2> QED BY <2>1 DEF EventInv, SleepInv
<1>8. SleepInv'
  <2>1. \A q \in Task : /\ Sleeping(q)' <=> Sleeping(q)
                        /\ relation'[q] = relation[q]
                        /\ list'.status[q] = list.status[q]
    BY <1>1, <1>3, <1>4 DEF Sleeping, sleepers
  <2> QED BY <1>1, <1>7, <2>1, QueuesLeft DEF EventInv
<1>9. ObjectInv'
  <2>1. ASSUME NEW e \in Event, NEW q \in ToSet(waiters[e])
        PROVE  pc'[q] = "locking" /\ ~Enabled(list', q)
    <3>1. q \in Task /\ pc[q] = "locking" /\ ~Enabled(list, q)
      BY DEF EventInv, ObjectInv, EventTypeOK, ToSet
    <3> QED BY <1>1, <1>3, <1>4, <3>1 DEF Enabled, sleepers
  <2>2. /\ UNCHANGED <<pc, with, objects>>
        /\ \A q \in Task : /\ pc'[q] = "out" => with[q] = Null
                           /\ pc'[q] \in {"in", "locking"} => with[q] \in Event
    BY <1>1 DEF EventInv, ObjectInv, sleepers
  <2> QED BY <2>1, <2>2, ObjectsLeft DEF EventInv
<1> QED BY <1>5, <1>6, <1>8, <1>9 DEF EventInv

(***************************************************************************)
(* The process at the head of a queue wakes.                               *)
(***************************************************************************)
LEMMA WakeKeeps ==
  ASSUME EventInv, mode = "events", NEW e \in Event, ~IsEmpty(e),
         Answer(e) # "none", Wake(e, Head(queue[e])),
         pass' \in [todo : Seq(Event), status : EventAnswer],
         UNCHANGED <<cur, created, prio, pcnt, active, at, pc, relation>>
  PROVE  EventInv'
<1>0. PICK p : p = Head(queue[e])
  OBVIOUS
<1>1. /\ queue \in [Event -> Seq(Task)]
      /\ pc \in [Task -> {"out", "locking", "asleep", "in"}]
      /\ with \in [Task -> Event \cup {Null}]
      /\ waiters \in [Event -> Seq(Task)]
      /\ owner \in [Event -> Task \cup {Null}]
      /\ free \in [Event -> 0 .. MaxCount + 1]
      /\ MaxCount \in Nat /\ Null \notin Event
      /\ queue[e] # <<>>
  BY EventAssumption DEF EventInv, EventTypeOK, IsEmpty
<1>2. /\ p \in Task /\ Sleeping(p)
      /\ list.status[p] = "pending" /\ ~Enabled(list, p)
  <2>1. p \in Task /\ p \in ToSet(queue[e])
    BY <1>0, <1>1, TailElements
  <2> QED BY <2>1 DEF EventInv, SleepInv, Enabled
<1>3. /\ pc[p] = "asleep" /\ with[p] = Null /\ p \in created
      /\ \A q \in Task : pc[q] # "out" => q \in created
      /\ InsertionFound(list, cur)
  BY <1>2, EventRunning DEF EventInv, RingInv, Sleeping
<1>4. /\ with' = [with EXCEPT ![p] = e]
      /\ queue' = [f \in Event |-> IF f = e THEN Tail(queue[e])
                                   ELSE IF f \in relation[p] THEN Without(queue[f], p)
                                   ELSE queue[f]]
      /\ list' = EnableNaked(list, cur, p) /\ mode' = "events"
      /\ free' = [free EXCEPT ![e] = @ - 1]
      /\ owner' = [owner EXCEPT ![e] = IF Kind[e] = "mutex" THEN p ELSE @]
      /\ UNCHANGED waiters
  BY <1>0, <1>3 DEF Wake, Trigger, Edit
<1>5. ListStep(p)
  <2>1. /\ created' \in SUBSET Task /\ prio' \in [Proc -> Level]
        /\ created \subseteq created' /\ p \in created'
        /\ \A q \in Task : pc'[q] # "out" => q \in created
    BY <1>3 DEF EventInv, RingInv
  <2> QED BY <1>2, <1>4, <2>1, StepEnables DEF EventInv
<1>6. ASSUME NEW f \in Event
      PROVE  /\ queue'[f] \in Seq(Task)
             /\ IsInjective(queue'[f])
             /\ ToSet(queue'[f]) = ToSet(queue[f]) \ {p}
  <2>1. queue[f] \in Seq(Task) /\ IsInjective(queue[f])
    BY <1>1 DEF EventInv, SleepInv
  <2>2. CASE f = e
    BY <1>0, <1>1, <1>4, <2>1, <2>2, TailElements
  <2>3. CASE f # e /\ f \in relation[p]
    <3> DEFINE kept == Kept(queue[f], Task \ {p})
    <3>1. /\ kept \in Seq(Task) /\ IsInjective(kept)
          /\ ToSet(kept) = ToSet(queue[f]) \cap (Task \ {p})
      BY <2>1, KeptElements
    <3>2. queue'[f] = kept
      BY <1>4, <2>3 DEF Without
    <3> HIDE DEF kept
    <3>3. ToSet(queue[f]) \subseteq Task
      BY <2>1 DEF ToSet
    <3> QED BY <3>1, <3>2, <3>3
  <2>4. CASE f # e /\ f \notin relation[p]
    <3>1. queue'[f] = queue[f] /\ p \notin ToSet(queue[f])
      BY <1>2, <1>4, <2>4 DEF EventInv, SleepInv
    <3> QED BY <2>1, <3>1
  <2> QED BY <2>2, <2>3, <2>4
<1>7. free[e] \in Nat \ {0} /\ free'[e] = free[e] - 1
      /\ free' \in [Event -> 0 .. MaxCount + 1]
  <2>1. free[e] # 0
    BY DEF Answer
  <2> QED BY <1>1, <1>4, <2>1
<1>8. EventTypeOK'
  <2>1. queue' \in [Event -> Seq(Task)]
    BY <1>4, <1>6
  <2>2. owner' \in [Event -> Task \cup {Null}] /\ with' \in [Task -> Event \cup {Null}]
    BY <1>1, <1>2, <1>4
  <2> QED BY <1>1, <1>4, <1>5, <1>7, <2>1, <2>2 DEF EventInv, EventTypeOK, ListStep
<1>9. SleepInv'
  <2>1. ASSUME NEW q \in Task PROVE Sleeping(q)' <=> Sleeping(q) /\ q # p
    BY <1>1, <1>2, <1>4 DEF Sleeping
  <2>2. ASSUME NEW q \in Task, NEW f \in Event
        PROVE  q \in ToSet(queue'[f]) <=> Sleeping(q)' /\ f \in relation'[q]
    BY <1>6, <2>1 DEF EventInv, SleepInv
  <2>3. ASSUME NEW q \in Task, Sleeping(q)' PROVE list'.status[q] = "pending"
    BY <1>5, <2>1, <2>3 DEF EventInv, SleepInv, ListStep
  <2>4. ASSUME NEW f \in Event, queue'[f] # <<>>
        PROVE  f \in ToSet(active') /\ Enabled(list', App) /\ list'.appType = "event"
    <3>1. queue[f] # <<>>
      <4>1. ToSet(queue'[f]) # {}
        BY <1>6, <2>4, NoElements
      <4>2. queue[f] \in Seq(Task) /\ ToSet(queue[f]) # {}
        BY <1>1, <1>6, <4>1
      <4> QED BY <4>2, NoElements
    <3> QED BY <1>5, <3>1 DEF EventInv, SleepInv, ListStep
  <2> QED BY <1>4, <1>6, <2>2, <2>3, <2>4 DEF EventInv, SleepInv
<1>10. \A f \in Event : \A q \in ToSet(waiters[f]) :
         q \in Task /\ q # p /\ pc[q] = "locking" /\ with[q] = f /\ ~Enabled(list, q)
  BY <1>3 DEF EventInv, ObjectInv, EventTypeOK, ToSet
<1>11. /\ Holders(e)' = Holders(e) \cup {p} /\ p \notin Holders(e)
       /\ \A f \in Event \ {e} : Holders(f)' = Holders(f)
  <2>1. \A f \in Event : p \notin ToSet(waiters[f])
    BY <1>10
  <2>2. ASSUME NEW f \in Event, NEW q \in Task
        PROVE  q \in Holders(f)' <=> q \in Holders(f) \/ (q = p /\ f = e)
    BY <1>1, <1>2, <1>3, <1>4, <2>1 DEF Holders
  <2>3. p \notin Holders(e)
    BY <1>1, <1>3 DEF Holders
  <2> QED BY <1>2, <2>2, <2>3 DEF Holders
<1>12. IsFiniteSet(Holders(e)') /\ free'[e] + Cardinality(Holders(e)') = Initially(e)
  <2>1. /\ IsFiniteSet(Holders(e)) /\ free[e] + Cardinality(Holders(e)) = Initially(e)
        /\ Cardinality(Holders(e)) \in Nat
    BY FS_CardinalityType DEF EventInv, ObjectInv
  <2>2. /\ IsFiniteSet(Holders(e)')
        /\ Cardinality(Holders(e)') = Cardinality(Holders(e)) + 1
    BY <1>11, <2>1, FS_AddElement
  <2> DEFINE n == Cardinality(Holders(e))
             m == Cardinality(Holders(e)')
  <2>3. n \in Nat /\ m = n + 1 /\ free[e] + n = Initially(e)
    BY <2>1, <2>2
  <2> HIDE DEF n, m
  <2>4. free'[e] + m = Initially(e)
    <3>1. \A i, j \in Nat : (i - 1) + (j + 1) = i + j
      OBVIOUS
    <3>2. free[e] \in Nat /\ free'[e] = free[e] - 1
      BY <1>7
    <3> QED BY <2>3, <3>1, <3>2
  <2> QED BY <2>2, <2>4 DEF m
<1>13. Kind[e] = "mutex" => \A q \in Holders(e)' : owner'[e] = q
  <2> SUFFICES ASSUME Kind[e] = "mutex", NEW q \in Holders(e)'
               PROVE  owner'[e] = q
    OBVIOUS
  <2>1. Holders(e) = {}
    BY <1>7, MutexHolder
  <2> QED BY <1>1, <1>4, <1>11, <2>1
<1>14. ObjectInv'
  <2>1. \A f \in Event : \A q \in ToSet(waiters[f]) :
          pc'[q] = "locking" /\ with'[q] = f /\ ~Enabled(list', q)
    BY <1>1, <1>4, <1>5, <1>10 DEF ListStep, Enabled
  <2>2. /\ \A f \in Event \ {e} : /\ free'[f] = free[f] /\ waiters'[f] = waiters[f]
                                  /\ owner'[f] = owner[f]
        /\ IsInjective(waiters'[e])
        /\ \A q \in ToSet(waiters'[e]) :
             pc'[q] = "locking" /\ with'[q] = e /\ ~Enabled(list', q)
    BY <1>1, <1>4, <2>1 DEF EventInv, ObjectInv
  <2>3. \A q \in Task : /\ pc'[q] = "out" => with'[q] = Null
                        /\ pc'[q] \in {"in", "locking"} => with'[q] \in Event
    BY <1>1, <1>3, <1>4 DEF EventInv, ObjectInv
  <2> QED
    BY <1>11, <1>12, <1>13, <2>1, <2>2, <2>3, OthersKeepTheirs DEF EventInv
<1> QED BY <1>5, <1>8, <1>9, <1>14 DEF EventInv, ListStep

(***************************************************************************)
(* A pass over the event at hand; the process it meets is pending.         *)
(***************************************************************************)
LEMMA ExamineKeeps ==
  ASSUME EventInv, Examine
  PROVE  EventInv'
<1> DEFINE e == Head(pass.todo)
           p == Head(queue[e])
<1>1. /\ mode = "events" /\ e \in Event
      /\ pass.todo \in Seq(Event) /\ Tail(pass.todo) \in Seq(Event)
      /\ pass.status \in EventAnswer
      /\ UNCHANGED <<cur, created, prio, pcnt, active, at, pc, relation>>
  <2>1. mode = "events" /\ pass.todo # <<>> /\ pass.todo \in Seq(Event)
        /\ pass.status \in EventAnswer
    BY DEF Examine, EventInv, EventTypeOK
  <2> QED BY <2>1, TailElements DEF Examine
<1>2. \A s \in EventAnswer : After(s) \in [todo : Seq(Event), status : EventAnswer]
  BY <1>1 DEF After
<1>3. Answer(e) \in EventAnswer
  BY DEF Answer, EventAnswer
<1>4. ~IsEmpty(e) => IsPending(p)
  <2> SUFFICES ASSUME ~IsEmpty(e) PROVE IsPending(p)
    OBVIOUS
  <2>1. queue[e] \in Seq(Task) /\ queue[e] # <<>>
    BY <1>1 DEF IsEmpty, EventInv, EventTypeOK
  <2>2. p \in Task /\ p \in ToSet(queue[e])
    BY <2>1, TailElements
  <2> QED BY <1>1, <2>2 DEF IsPending, EventInv, SleepInv
<1>5. CASE UNCHANGED <<list, mode, queue, with, objects>>
           /\ pass' \in [todo : Seq(Event), status : EventAnswer]
  <2>1. EventTypeOK'
    BY <1>1, <1>5 DEF EventInv, EventTypeOK, objects
  <2>2. RingInv'
    BY <1>1, <1>5 DEF EventInv, RingInv
  <2>3. SleepInv'
    BY <1>1, <1>5 DEF EventInv, SleepInv, Sleeping
  <2>4. ObjectInv'
    <3>1. UNCHANGED <<list, pc, with, free, waiters, owner>>
      BY <1>1, <1>5 DEF objects
    <3> QED BY <3>1 DEF EventInv, ObjectInv, Holders
  <2> QED BY <2>1, <2>2, <2>3, <2>4 DEF EventInv
<1>6. CASE ~IsEmpty(e) /\ pass' = After(Answer(e)) /\ Answer(e) # "none" /\ Wake(e, p)
  BY <1>1, <1>2, <1>3, <1>6, WakeKeeps
<1>7. \/ IsEmpty(e) /\ pass' = After(pass.status)
         /\ UNCHANGED <<list, mode, queue, with, objects>>
      \/ ~IsEmpty(e) /\ pass' = After(Answer(e)) /\ Answer(e) = "none"
         /\ UNCHANGED <<list, mode, queue, with, objects>>
      \/ ~IsEmpty(e) /\ pass' = After(Answer(e)) /\ Answer(e) # "none" /\ Wake(e, p)
  BY <1>4 DEF Examine
<1> QED BY <1>1, <1>2, <1>3, <1>5, <1>6, <1>7

(***************************************************************************)
(* The garbage collector leaves the events with a queue on the list.       *)
(***************************************************************************)
LEMMA EndPassKeeps ==
  ASSUME EventInv, EndPass
  PROVE  EventInv'
<1>1. /\ active' = Kept(active, {e \in Event : ~IsEmpty(e)})
      /\ pass' = [todo |-> <<>>, status |-> "none"]
      /\ mode' = "sched" /\ at' = "loop"
      /\ UNCHANGED <<list, cur, created, prio, pcnt,
                     queue, pc, relation, with, objects>>
  BY DEF EndPass, Collected, sleepers
<1>2. /\ active \in Seq(Event) /\ IsInjective(active)
  BY DEF EventInv, EventTypeOK, SleepInv
<1> DEFINE busy == {e \in Event : ~IsEmpty(e)}
           kept == Kept(active, busy)
<1>3. /\ kept \in Seq(Event) /\ IsInjective(kept)
      /\ ToSet(kept) = ToSet(active) \cap busy
  BY <1>2, KeptElements
<1>4. active' = kept
  BY <1>1
<1> HIDE DEF kept
<1>5. EventTypeOK'
  BY <1>1, <1>3, <1>4 DEF EventInv, EventTypeOK, EventAnswer, objects
<1>6. RingInv'
  BY <1>1 DEF EventInv, RingInv
<1>7. SleepInv'
  <2>1. \A e \in Event : queue[e] # <<>> => e \in ToSet(active')
    BY <1>3, <1>4 DEF EventInv, SleepInv, IsEmpty
  <2>2. \A e \in ToSet(active') : queue[e] # <<>>
    BY <1>3, <1>4 DEF IsEmpty
  <2> QED BY <1>1, <1>3, <1>4, <2>1, <2>2 DEF EventInv, SleepInv, Sleeping
<1>8. ObjectInv'
  BY <1>1 DEF EventInv, ObjectInv, Holders, objects
<1> QED BY <1>5, <1>6, <1>7, <1>8 DEF EventInv

-----------------------------------------------------------------------------
(* The invariant.                                                          *)

LEMMA InitEventInv == EventInit => EventInv
<1> SUFFICES ASSUME EventInit PROVE EventInv
  OBVIOUS
<1>1. /\ list = InitList /\ cur = App /\ mode = "run" /\ created = {}
      /\ prio = [p \in Proc |-> 0] /\ pcnt = [p \in Proc |-> 0]
      /\ queue = [e \in Event |-> <<>>] /\ active = <<>>
      /\ pass = [todo |-> <<>>, status |-> "none"] /\ at = "loop"
      /\ pc = [p \in Task |-> "out"] /\ relation = [p \in Task |-> {}]
      /\ with = [p \in Task |-> Null]
      /\ free = [e \in Event |-> Initially(e)]
      /\ waiters = [e \in Event |-> <<>>] /\ owner = [e \in Event |-> Null]
  BY DEF EventInit, Init
<1>2. /\ App \in Proc /\ 0 \in Level /\ MaxCount \in Nat /\ Null \notin Event
      /\ \A e \in Event : Initially(e) \in 0 .. MaxCount + 1
  BY ProcessAssumption, CoreAssumption, EventAssumption DEF Level, Initially
<1>3. /\ ToSet(<<>>) = {} /\ IsInjective(<<>>)
      /\ \A S : <<>> \in Seq(S)
  BY DEF ToSet, IsInjective
<1>4. EventTypeOK
  BY <1>1, <1>2, <1>3, InitListOK DEF EventTypeOK, EventAnswer
<1>5. RingInv
  <2>1. /\ Awake(list) = list /\ Active(list) = {App} /\ Enabled(list, App)
        /\ WellFormed(list) /\ list.next[cur] = App
    BY <1>1, InitListOK DEF Awake, Active
  <2>2. \A p \in Task : ~Enabled(list, p)
    BY <2>1 DEF Active, Task
  <2> QED BY <1>1, <1>2, <2>1, <2>2 DEF RingInv
<1>6. SleepInv
  BY <1>1, <1>3 DEF SleepInv, Sleeping
<1>7. ObjectInv
  <2>1. \A e \in Event : Holders(e) = {}
    BY <1>1, <1>2 DEF Holders
  <2>2. IsFiniteSet({}) /\ Cardinality({}) = 0
    BY FS_EmptySet
  <2>3. \A e \in Event : free[e] + Cardinality(Holders(e)) = Initially(e)
    <3> SUFFICES ASSUME NEW e \in Event
                 PROVE  free[e] + Cardinality(Holders(e)) = Initially(e)
      OBVIOUS
    <3>1. free[e] = Initially(e) /\ Initially(e) \in Nat
      BY <1>1, <1>2
    <3>2. Cardinality(Holders(e)) = 0
      BY <2>1, <2>2
    <3> QED BY <3>1, <3>2
  <2> QED BY <1>1, <1>3, <2>1, <2>2, <2>3 DEF ObjectInv
<1> QED BY <1>4, <1>5, <1>6, <1>7 DEF EventInv

LEMMA StepEventInv ==
  ASSUME ~Wakes, EventInv, WriteOK, [EventNext]_evars
  PROVE  EventInv'
<1>1. CASE UNCHANGED evars
  <2>1. EventTypeOK' /\ RingInv'
    BY <1>1 DEF EventInv, evars, EventTypeOK, RingInv
  <2>2. SleepInv'
    BY <1>1 DEF EventInv, evars, SleepInv, Sleeping
  <2>3. ObjectInv'
    BY <1>1 DEF EventInv, evars, ObjectInv, Holders
  <2> QED BY <2>1, <2>2, <2>3 DEF EventInv
<1>2. CASE CoreStep
  BY <1>2, CoreStepKeeps
<1>3. CASE CallScheduler
  BY <1>3, EntryKeeps
<1>4. CASE BeginPass
  BY <1>4, EntryKeeps, GoingKeeps
<1>5. CASE Examine
  BY <1>5, ExamineKeeps
<1>6. CASE EndPass
  BY <1>6, EndPassKeeps
<1>7. ASSUME NEW p \in Task, NEW es \in Arguments, Sleep(p, es) PROVE EventInv'
  BY <1>7, SleepKeeps
<1>8. ASSUME NEW p \in Task, SleepReturn(p) \/ LockReturn(p) PROVE EventInv'
  BY <1>8, ReturnsKeep
<1>9. ASSUME NEW p \in Task, NEW e \in Event, Lock(p, e) PROVE EventInv'
  BY <1>9, LockKeeps
<1>10. ASSUME NEW p \in Task, Unlock(p) PROVE EventInv'
  BY <1>10, UnlockKeeps
<1>11. ASSUME NEW p \in Task, Release(p) PROVE EventInv'
  BY <1>11, ReleaseKeeps
<1> QED
  BY <1>1, <1>2, <1>3, <1>4, <1>5, <1>6, <1>7, <1>8, <1>9, <1>10, <1>11
     DEF EventNext

(***************************************************************************)
(* What a process is about to write into a counter is a level, whoever     *)
(* else runs in between.                                                   *)
(***************************************************************************)
LEMMA WritesAreLevels == EventSpec => []WriteOK
<1>1. ASSUME EventInit PROVE WriteOK
  <2>1. write = [p \in Proc |-> NoWrite]
    BY <1>1 DEF EventInit, Init
  <2>2. NoWrite \in [proc : Proc \cup {Null}, level : Level]
    BY CoreAssumption DEF NoWrite, Level
  <2> QED BY <2>1, <2>2 DEF WriteOK
<1>2. ASSUME WriteOK, [EventNext]_evars PROVE WriteOK'
  <2> DEFINE Writes == [proc : Proc \cup {Null}, level : Level]
  <2>1. CASE UNCHANGED write
    BY <1>2, <2>1 DEF WriteOK
  <2>2. CASE \E x \in Writes : write' = [write EXCEPT ![cur] = x]
    BY <1>2, <2>2 DEF WriteOK
  <2>3. ASSUME NEW p \in Task, NEW v \in Level, SetPriority(p, v)
        PROVE  \E x \in Writes : write' = [write EXCEPT ![cur] = x]
    <3>1. write' = [write EXCEPT ![cur] = [proc |-> p, level |-> v]]
      BY <2>3 DEF SetPriority
    <3> QED BY <3>1 DEF Task
  <2>4. ASSUME SetPriorityCounter
        PROVE  \E x \in Writes : write' = [write EXCEPT ![cur] = x]
    <3>1. write' = [write EXCEPT ![cur] = NoWrite]
      BY <2>4 DEF SetPriorityCounter
    <3>2. NoWrite \in Writes
      BY CoreAssumption DEF NoWrite, Level
    <3> QED BY <3>1, <3>2
  <2>5. CASE CoreStep
    <3>1. ASSUME NEW p \in Task, Create(p, TRUE) \/ EnableCall(p) \/ DisableCall(p)
          PROVE  UNCHANGED write
      BY <3>1 DEF Create, EnableCall, DisableCall
    <3>2. Yield \/ Start \/ Tick \/ Schedule => UNCHANGED write
      BY DEF Yield, Start, Tick, Schedule
    <3> QED BY <2>1, <2>2, <2>3, <2>4, <2>5, <3>1, <3>2 DEF CoreStep
  <2>6. ASSUME NEW p \in Task, NEW es \in Arguments, Sleep(p, es)
        PROVE  UNCHANGED write
    BY <2>6 DEF Sleep
  <2>7. ASSUME NEW p \in Task, NEW e \in Event, Lock(p, e)
        PROVE  UNCHANGED write
    BY <2>7 DEF Lock
  <2>8. ASSUME NEW p \in Task,
               SleepReturn(p) \/ LockReturn(p) \/ Unlock(p) \/ Release(p)
        PROVE  UNCHANGED write
    BY <2>8 DEF SleepReturn, LockReturn, Unlock, Release, vars
  <2>9. CallScheduler \/ BeginPass \/ Examine \/ EndPass \/ UNCHANGED evars
          => UNCHANGED write
    BY DEF CallScheduler, BeginPass, Examine, EndPass, evars, vars
  <2> QED
    BY <1>2, <2>1, <2>5, <2>6, <2>7, <2>8, <2>9 DEF EventNext
<1> QED BY <1>1, <1>2, PTL DEF EventSpec

LEMMA EventInvariant == ~Wakes => (EventSpec => []EventInv)
<1> SUFFICES ASSUME ~Wakes PROVE EventSpec => []EventInv
  OBVIOUS
<1>1. EventInv /\ WriteOK /\ [EventNext]_evars => EventInv'
  BY StepEventInv
<1> QED BY InitEventInv, WritesAreLevels, <1>1, PTL DEF EventSpec

-----------------------------------------------------------------------------
(* The properties.                                                         *)

(***************************************************************************)
(* Every variable keeps its type: no queue, active list or pass holds      *)
(* anything but tasks and events, and no counter leaves its range.         *)
(***************************************************************************)
THEOREM EventTypes == ~Wakes => (EventSpec => []EventTypeOK)
<1>1. EventInv => EventTypeOK
  BY DEF EventInv
<1> QED BY <1>1, EventInvariant, PTL

(***************************************************************************)
(* Whatever tasks sleep, wake and pass the objects on, the scheduler goes  *)
(* around one cycle, of the active tasks and of os_app when it is needed:  *)
(* as the event process beside them, as the application process alone.     *)
(***************************************************************************)
THEOREM EventKeepsRing == ~Wakes => (EventSpec => []EventRing)
<1>1. ASSUME EventInv PROVE EventRing
  <2> DEFINE w == Awake(list)
  <2>1. /\ list \in List /\ WellFormed(w) /\ list.next[cur] \in Active(w)
    BY <1>1 DEF EventInv, EventTypeOK, RingInv
  <2>2. /\ w \in List /\ w.next = list.next
        /\ Active(list) # {} => w = list
        /\ Active(list) = {} => Active(w) = {App}
    BY <2>1, ProcessAssumption DEF Awake, List, Status, Active, Enabled
  <2>3. Ring = Active(w)
    <3>1. Reach(w.next, list.next[cur]) = Active(w)
      BY <2>1, <2>2, ReachOfActive DEF WellFormed
    <3> QED BY <2>2, <3>1 DEF Ring
  <2>4. /\ \A p \in Ring : list.next[p] \in Ring
        /\ \A p, q \in Ring : list.next[p] = list.next[q] => p = q
    BY <2>1, <2>2, <2>3 DEF WellFormed, OneCycle
  <2>5. /\ Ring \ {App} = Active(list) \ {App}
        /\ App \in Ring <=> Enabled(list, App) \/ Active(list) = {}
        /\ Enabled(list, App) => App \in Active(list)
    <3>1. App \in Active(list) <=> Enabled(list, App)
      BY ProcessAssumption DEF Active
    <3> QED BY <2>2, <2>3, <3>1
  <2>6. Enabled(list, App) /\ list.appType = "application" => Ring = {App}
    BY <2>1, <2>2, <2>3, <2>5 DEF WellFormed, AppAlone
  <2> QED BY <2>4, <2>5, <2>6 DEF EventRing
<1> QED BY <1>1, EventInvariant, PTL

(***************************************************************************)
(* A task that sleeps on an event keeps os_app on the list as the event    *)
(* process and the event on the active event list, which holds each event  *)
(* once and, outside a pass, only events with a queue.                     *)
(***************************************************************************)
THEOREM SleepersArePolled == ~Wakes => (EventSpec => []SleepersPolled)
<1>1. ASSUME EventInv PROVE SleepersPolled
  <2>1. \A e \in Event : queue[e] # <<>> =>
          /\ e \in ToSet(active) /\ list.appType = "event"
          /\ App \in Active(list) /\ Awake(list) = list
    BY <1>1, ProcessAssumption DEF EventInv, SleepInv, Active, Awake
  <2>2. Active(list) # {} => Ring = Active(list)
    <3>1. ASSUME Active(list) # {} PROVE Ring = Active(list)
      <4>1. /\ list \in List /\ OneCycle(list) /\ list.next[cur] \in Active(list)
        BY <1>1, <3>1 DEF EventInv, EventTypeOK, RingInv, Awake, WellFormed
      <4> QED BY <4>1, ReachOfActive DEF Ring
    <3> QED BY <3>1
  <2>3. \A i, j \in 1 .. Len(active) : active[i] = active[j] => i = j
    <3>1. active \in Seq(Event) /\ IsInjective(active)
      BY <1>1 DEF EventInv, EventTypeOK, SleepInv
    <3>2. DOMAIN active = 1 .. Len(active)
      BY <3>1
    <3> QED BY <3>1, <3>2 DEF IsInjective
  <2>4. mode # "events" => \A e \in ToSet(active) : queue[e] # <<>>
    BY <1>1 DEF EventInv, SleepInv
  <2> QED BY <2>1, <2>2, <2>3, <2>4 DEF SleepersPolled
<1> QED BY <1>1, EventInvariant, PTL

(***************************************************************************)
(* A task that sleeps is pending and has one element in the queue of each  *)
(* of its events; nobody else has one, so no queue points into a stack     *)
(* frame that has been left.                                               *)
(***************************************************************************)
THEOREM ElementsAreLive == ~Wakes => (EventSpec => []ElementsLive)
<1>1. ASSUME EventInv PROVE ElementsLive
  <2> SUFFICES ASSUME NEW p \in Task
               PROVE  /\ Sleeping(p) => list.status[p] = "pending"
                      /\ \A e \in Event :
                           Cardinality({i \in 1 .. Len(queue[e]) : queue[e][i] = p})
                             = IF Sleeping(p) /\ e \in relation[p] THEN 1 ELSE 0
    BY DEF ElementsLive, Sleeping
  <2>1. Sleeping(p) => list.status[p] = "pending"
    BY <1>1 DEF EventInv, SleepInv
  <2>2. ASSUME NEW e \in Event
        PROVE  Cardinality({i \in 1 .. Len(queue[e]) : queue[e][i] = p})
                 = IF Sleeping(p) /\ e \in relation[p] THEN 1 ELSE 0
    <3> DEFINE places == {i \in 1 .. Len(queue[e]) : queue[e][i] = p}
    <3>1. /\ queue[e] \in Seq(Task) /\ IsInjective(queue[e])
          /\ p \in ToSet(queue[e]) <=> Sleeping(p) /\ e \in relation[p]
      BY <1>1 DEF EventInv, EventTypeOK, SleepInv
    <3>2. DOMAIN queue[e] = 1 .. Len(queue[e])
      BY <3>1
    <3>3. CASE p \in ToSet(queue[e])
      <4>1. PICK i \in 1 .. Len(queue[e]) : queue[e][i] = p
        BY <3>2, <3>3 DEF ToSet
      <4>2. places = {i}
        BY <3>1, <3>2, <4>1 DEF IsInjective
      <4> QED BY <3>1, <3>3, <4>2, FS_Singleton
    <3>4. CASE p \notin ToSet(queue[e])
      <4>1. places = {}
        BY <3>2, <3>4 DEF ToSet
      <4> QED BY <3>1, <3>4, <4>1, FS_EmptySet
    <3> QED BY <3>3, <3>4
  <2> QED BY <2>1, <2>2
<1> QED BY <1>1, EventInvariant, PTL

(***************************************************************************)
(* What is free behind an event and what tasks have make up what it had    *)
(* initially, through hand-overs by unlock and by the event scheduler; the *)
(* mutex records the task that has it.                                     *)
(***************************************************************************)
THEOREM ObjectsAreConserved == ~Wakes => (EventSpec => []ObjectsConserved)
<1>1. EventInv => ObjectsConserved
  BY DEF EventInv, ObjectInv, ObjectsConserved
<1> QED BY <1>1, EventInvariant, PTL

(***************************************************************************)
(* "If a process is not pending [...]  This should never happen.": every   *)
(* process the event scheduler meets in a queue is pending.                *)
(***************************************************************************)
THEOREM AllMetPending == ~Wakes => (EventSpec => []AllPending)
<1>1. ASSUME EventInv PROVE AllPending
  <2> SUFFICES ASSUME NEW e \in Event, NEW p \in ToSet(queue[e])
               PROVE  list.status[p] = "pending"
    BY DEF AllPending
  <2>1. p \in Task
    BY <1>1 DEF EventInv, EventTypeOK, ToSet
  <2> QED BY <1>1, <2>1 DEF EventInv, SleepInv
<1> QED BY <1>1, EventInvariant, PTL

(***************************************************************************)
(* Through sleeping, waking and the passing on of objects, the elements of *)
(* an event are linked both ways, and each call of os_queue.c on them,     *)
(* Wake's of a queue it has not found through the event among them, leaves *)
(* the links of the queue it means.  What fields hold that nobody has      *)
(* written yet does not matter.                                            *)
(***************************************************************************)
THEOREM QueuesAreLinked ==
  ~Wakes /\ IsFiniteSet(Task) => (EventSpec => []EventLinks)
<1> SUFFICES ASSUME ~Wakes, IsFiniteSet(Task)
             PROVE  EventSpec => []EventLinks
  OBVIOUS
<1>1. ASSUME EventInv PROVE EventLinks
  <2> SUFFICES
        ASSUME NEW e \in Event, NEW junk \in {Links!First, Null}
        PROVE  LET q == queue[e]
                   m == Links!Linked(q, junk)
                   is(l, s) == Links!DoublyRepresents(l, s)
               IN
               /\ \A p \in Task \ ToSet(q) :
                    is(Links!DoublyAddSort(m, p, prio), Added(q, p, prio))
               /\ q # <<>> => is(Links!DoublyPop(m), Tail(q))
               /\ \A p \in ToSet(q) : /\ is(Links!DoublyRemove(m, p), Without(q, p))
                                      /\ is(Links!DoublyRemoveEx(m, p), Without(q, p))
    BY DEF EventLinks
  <2> DEFINE q == queue[e]
             m == Links!Linked(q, junk)
  <2>1. q \in Seq(Task) /\ IsInjective(q) /\ \A p \in Task : prio[p] \in Nat
    BY <1>1, SleeperLevels DEF EventInv, EventTypeOK, SleepInv
  <2>2. junk \in Links!Cell
    BY DEF Links!Cell
  <2> HIDE DEF q
  <2>3. /\ m \in [next : [Links!Cell -> Links!Cell], prev : [Links!Cell -> Links!Cell]]
        /\ Links!DoublyRepresents(m, q)
    BY <2>1, <2>2, LinkedIsQueue
  <2> HIDE DEF m
  <2>4. /\ \A p \in Task \ ToSet(q) :
             Links!DoublyRepresents(Links!DoublyAddSort(m, p, prio), Added(q, p, prio))
        /\ q # <<>> => Links!DoublyRepresents(Links!DoublyPop(m), Tail(q))
        /\ \A p \in ToSet(q) :
             /\ Links!DoublyRepresents(Links!DoublyRemove(m, p), Without(q, p))
             /\ Links!DoublyRepresents(Links!DoublyRemoveEx(m, p), Without(q, p))
    BY <2>1, <2>3, DoublyLinked
  <2> QED BY <2>4 DEF q, m
<1> QED BY <1>1, EventInvariant, PTL
-----------------------------------------------------------------------------
(* The board of EventBoard.                                                *)

\* In its queues nobody waits behind a lower priority, and an object that
\* somebody waits in line for is a mutex and is not free.
TurnInv ==
  \A e \in Event :
    /\ Sorted(queue[e], prio)
    /\ Sorted(waiters[e], prio)
    /\ waiters[e] # <<>> => free[e] = 0 /\ Kind[e] = "mutex"

(***************************************************************************)
(* A queue that is sorted stays so without one of its elements.            *)
(***************************************************************************)
LEMMA RemovedInTurn ==
  ASSUME NEW S, NEW q \in Seq(S), NEW k \in 1 .. Len(q),
         NEW level, \A x \in S : level[x] \in Nat, Sorted(q, level)
  PROVE  Sorted(RemoveAt(q, k), level)
<1> DEFINE r == RemoveAt(q, k)
<1>0. /\ Len(r) = Len(q) - 1
      /\ \A i \in 1 .. k - 1 : r[i] = q[i]
      /\ \A i \in k .. Len(q) - 1 : r[i] = q[i + 1]
  BY RemovedAt, Zenon
<1> HIDE DEF r
<1>1. /\ Len(r) = Len(q) - 1 /\ Len(q) \in Nat
      /\ \A i \in 1 .. k - 1 : r[i] = q[i]
      /\ \A i \in k .. Len(q) - 1 : r[i] = q[i + 1]
  BY <1>0
<1> SUFFICES ASSUME NEW i \in 1 .. Len(r), NEW j \in 1 .. Len(r), i < j
             PROVE  level[r[i]] <= level[r[j]]
  BY DEF Sorted, r
<1> DEFINE from(x) == IF x < k THEN x ELSE x + 1
<1>2. ASSUME NEW x \in 1 .. Len(r)
      PROVE  from(x) \in 1 .. Len(q) /\ r[x] = q[from(x)]
  <2>1. CASE x < k
    <3>1. x \in 1 .. k - 1 /\ x \in 1 .. Len(q)
      BY <1>1, <2>1
    <3> QED BY <1>1, <2>1, <3>1
  <2>2. CASE ~(x < k)
    <3>1. x \in k .. Len(q) - 1
      BY <1>1, <2>2
    <3> QED BY <1>1, <2>2, <3>1
  <2> QED BY <2>1, <2>2
<1>3. from(i) < from(j)
  BY <1>1
<1> HIDE DEF from
<1> QED BY <1>2, <1>3 DEF Sorted

(***************************************************************************)
(* Those who wait on the board are asleep or in os_mutex_lock.             *)
(***************************************************************************)
LEMMA BoardWaits ==
  ASSUME EventInv, NEW p \in Task
  PROVE  /\ Board!Waits(p) => pc[p] \in {"asleep", "locking"}
         /\ mode = "run" /\ cur = p /\ pc[p] = "out" => Board!Idle(p)
<1>1. /\ \A e \in Event : p \in ToSet(queue[e]) => pc[p] = "asleep"
      /\ \A e \in Event : p \in ToSet(waiters[e]) => pc[p] = "locking"
      /\ pc[p] = "out" => with[p] = Null
  BY DEF EventInv, SleepInv, ObjectInv, Sleeping
<1>2. Board!Waits(p) <=> \E e \in Event : p \in ToSet(queue[e]) \cup ToSet(waiters[e])
  BY DEF Board!Waits, Board!ToSet, ToSet
<1>3. pc[p] = "out" => Had[p] = Null
  BY <1>1 DEF Had
<1> QED BY <1>1, <1>2, <1>3 DEF Board!Idle

(***************************************************************************)
(* A step that leaves the queues and the objects alone, and the priorities *)
(* of those who wait.                                                      *)
(***************************************************************************)
LEMMA BoardLeft ==
  ASSUME EventInv, TurnInv, UNCHANGED <<queue, waiters, free, with>>,
         \A p \in Task : pc[p] \in {"asleep", "locking"} => prio'[p] = prio[p]
  PROVE  TurnInv' /\ Board!Relevel
<1>1. \A e \in Event : /\ queue[e] \in Seq(Task) /\ waiters[e] \in Seq(Task)
                       /\ \A p \in ToSet(queue[e]) \cup ToSet(waiters[e]) :
                            pc[p] \in {"asleep", "locking"}
  BY DEF EventInv, EventTypeOK, SleepInv, ObjectInv, Sleeping, ToSet
<1>2. ASSUME NEW q \in Seq(Task), Sorted(q, prio),
             \A p \in ToSet(q) : pc[p] \in {"asleep", "locking"}
      PROVE  Sorted(q, prio')
  <2>1. \A i \in 1 .. Len(q) : q[i] \in Task /\ q[i] \in ToSet(q)
    BY DEF ToSet
  <2>2. \A i \in 1 .. Len(q) : prio'[q[i]] = prio[q[i]]
    BY <1>2, <2>1
  <2> QED BY <1>2, <2>2 DEF Sorted
<1>3. TurnInv'
  BY <1>1, <1>2 DEF TurnInv
<1>4. Had' = Had
  BY DEF Had
<1>5. \A p \in Task : Board!Waits(p) =>
        [x \in Task |-> prio[x]]'[p] = [x \in Task |-> prio[x]][p]
  BY BoardWaits
<1> QED BY <1>3, <1>4, <1>5 DEF Board!Relevel

(***************************************************************************)
(* The place of a task in a queue is its turn on the board.                *)
(***************************************************************************)
LEMMA BoardTurn ==
  ASSUME EventInv, NEW p \in Task, NEW q \in Seq(Task), Sorted(q, prio)
  PROVE  /\ Added(q, p, prio) \in Seq(Task)
         /\ Sorted(Added(q, p, prio), prio)
         /\ \E k \in Board!Turn(q, p) : Added(q, p, prio) = Board!InsertAt(q, k, p)
<1> DEFINE r == Added(q, p, prio)
           level == [x \in Task |-> prio[x]]
<1>1. \A x \in Task : prio[x] \in Nat
  BY SleeperLevels DEF EventInv
<1>2. r \in Seq(Task) /\ Sorted(r, prio)
  BY <1>1, AddedElements
<1>3. PICK k \in 1 .. Len(q) + 1 :
        /\ \A i \in 1 .. Len(q) : i < k <=> prio[q[i]] <= prio[p]
        /\ r = InsertAt(q, k, p)
  BY <1>1, AddedInTurn
<1> HIDE DEF r
<1>4. \A i \in 1 .. Len(q) : i < k <=> level[q[i]] <= level[p]
  BY <1>3
<1>5. k \in Board!Turn(q, p)
  BY <1>4 DEF Board!Turn
<1>6. r = Board!InsertAt(q, k, p)
  BY <1>3 DEF Board!InsertAt, InsertAt
<1> QED BY <1>2, <1>5, <1>6 DEF r

(***************************************************************************)
(* A sleep asks for the objects behind its events.                         *)
(***************************************************************************)
LEMMA BoardSleep ==
  ASSUME EventInv, TurnInv, NEW p \in Task, NEW es \in Arguments, Sleep(p, es)
  PROVE  TurnInv' /\ Board!Ask(p, ToSet(es)) /\ ToSet(es) \in (SUBSET Event) \ {{}}
<1>1. /\ mode = "run" /\ cur = p /\ pc[p] = "out"
      /\ queue' = Registered(p, es)
      /\ with' = [with EXCEPT ![p] = Null]
      /\ UNCHANGED <<prio, free, waiters>>
  BY DEF Sleep, At, Calling, objects
<1>2. /\ queue \in [Event -> Seq(Task)]
      /\ with \in [Task -> Event \cup {Null}]
      /\ with[p] = Null
  BY <1>1 DEF EventInv, EventTypeOK, ObjectInv
<1>3. ToSet(es) \subseteq Event /\ ToSet(es) # {}
  <2>1. es \in Seq(Event)
    BY ArgumentList
  <2>2. 1 \in 1 .. Len(es)
    <3>1. PICK n \in 1 .. Cardinality(Event) : es \in [1 .. n -> Event]
      BY DEF Arguments
    <3>2. n \in Nat \ {0}
      BY <3>1, EventAssumption, FS_CardinalityType
    <3> QED BY <3>1, <3>2
  <2>3. DOMAIN es = 1 .. Len(es) /\ \A i \in 1 .. Len(es) : es[i] \in Event
    BY <2>1
  <2> QED BY <2>2, <2>3 DEF ToSet
<1>4. \A e \in ToSet(es) : queue'[e] = Added(queue[e], p, prio)
  BY <1>1, <1>3 DEF Registered
<1>5. \A e \in Event \ ToSet(es) : queue'[e] = queue[e]
  BY <1>1 DEF Registered
<1>6. \A e \in Event : Sorted(queue[e], prio)
  BY DEF TurnInv
<1>7. \A e \in ToSet(es) :
        /\ queue'[e] \in Seq(Task)
        /\ Sorted(queue'[e], prio)
        /\ \E k \in Board!Turn(queue[e], p) : queue'[e] = Board!InsertAt(queue[e], k, p)
  BY <1>2, <1>3, <1>4, <1>6, BoardTurn
<1>8. TurnInv'
  BY <1>1, <1>5, <1>7 DEF TurnInv
<1>9. Board!Idle(p)
  BY <1>1, BoardWaits
<1>10. Had' = Had
  <2>1. with' = with
    BY <1>1, <1>2
  <2> QED BY <1>1, <2>1 DEF Had
<1>11. queue' \in [Event -> Seq(Task)]
  BY <1>1, <1>2, <1>5, <1>7 DEF Registered
<1>12. Board!Ask(p, ToSet(es))
  BY <1>1, <1>5, <1>7, <1>9, <1>10, <1>11 DEF Board!Ask, Board!Queues
<1> QED BY <1>3, <1>8, <1>12

(***************************************************************************)
(* os_mutex_lock takes the mutex, or joins its line.                       *)
(***************************************************************************)
LEMMA BoardLock ==
  ASSUME EventInv, TurnInv, NEW p \in Task, NEW e \in Event, Lock(p, e)
  PROVE  TurnInv' /\ (Board!Take(p, e) \/ Board!Join(p, e))
<1>1. /\ mode = "run" /\ cur = p /\ pc[p] = "out" /\ Kind[e] = "mutex"
      /\ with' = [with EXCEPT ![p] = e]
      /\ UNCHANGED <<prio, queue>>
  BY DEF Lock, At, Calling
<1>2. /\ free \in [Event -> 0 .. MaxCount + 1] /\ MaxCount \in Nat
      /\ waiters \in [Event -> Seq(Task)]
      /\ with \in [Task -> Event \cup {Null}]
      /\ with[p] = Null /\ Null \notin Event
      /\ \A f \in Event : p \notin ToSet(waiters[f])
  BY <1>1, CallerFacts, EventAssumption DEF EventInv, EventTypeOK, ObjectInv
<1>3. Board!Idle(p)
  BY <1>1, BoardWaits
<1>4. CASE free[e] = 1 /\ free' = [free EXCEPT ![e] = 0] /\ UNCHANGED waiters
  <2>1. waiters[e] = <<>>
    BY <1>4 DEF TurnInv
  <2>2. Had' = [Had EXCEPT ![p] = e]
    BY <1>1, <1>2, <1>4 DEF Had
  <2>3. free' = [free EXCEPT ![e] = @ - 1] /\ free[e] > 0
    BY <1>2, <1>4
  <2>4. Board!Take(p, e)
    BY <1>1, <1>3, <1>4, <2>1, <2>2, <2>3 DEF Board!Take
  <2>5. TurnInv'
    BY <1>1, <1>2, <1>4, <2>1 DEF TurnInv
  <2> QED BY <2>4, <2>5
<1>5. CASE /\ free[e] = 0 /\ UNCHANGED free
           /\ waiters' = [waiters EXCEPT ![e] = Added(@, p, prio)]
  <2> DEFINE r == Added(waiters[e], p, prio)
  <2>1. waiters' = [waiters EXCEPT ![e] = r]
    BY <1>5
  <2>2. waiters[e] \in Seq(Task) /\ Sorted(waiters[e], prio) /\ IsInjective(waiters[e])
    BY <1>2 DEF TurnInv, EventInv, ObjectInv
  <2>3. ToSet(r) = ToSet(waiters[e]) \cup {p}
    BY <2>2, SleeperLevels, AddedElements DEF EventInv
  <2>4. /\ r \in Seq(Task) /\ Sorted(r, prio)
        /\ \E k \in Board!Turn(waiters[e], p) : r = Board!InsertAt(waiters[e], k, p)
    BY <2>2, BoardTurn
  <2> HIDE DEF r
  <2>5. waiters'[e] = r /\ \A f \in Event \ {e} : waiters'[f] = waiters[f]
    BY <1>2, <2>1
  <2>6. Had' = Had
    <3>1. ASSUME NEW q \in Task, q # p PROVE Had'[q] = Had[q]
      <4>1. with'[q] = with[q]
        BY <1>1, <1>2, <3>1
      <4>2. with[q] # Null =>
              (q \in ToSet(waiters'[with[q]]) <=> q \in ToSet(waiters[with[q]]))
        BY <1>2, <2>3, <2>5, <3>1
      <4> QED BY <4>1, <4>2 DEF Had
    <3>2. Had'[p] = Null /\ Had[p] = Null
      BY <1>1, <1>2, <2>3, <2>5 DEF Had
    <3> QED BY <3>1, <3>2 DEF Had
  <2>7. Board!Join(p, e)
    BY <1>1, <1>3, <1>5, <2>1, <2>4, <2>6 DEF Board!Join
  <2>8. TurnInv'
    BY <1>1, <1>5, <2>4, <2>5 DEF TurnInv
  <2> QED BY <2>7, <2>8
<1> QED BY <1>4, <1>5 DEF Lock

(***************************************************************************)
(* os_mutex_unlock gives the mutex to the first in its line, or frees it.  *)
(***************************************************************************)
LEMMA BoardUnlock ==
  ASSUME EventInv, TurnInv, NEW p \in Task, NEW e \in Event, e = with[p],
         Unlock(p)
  PROVE  TurnInv' /\ Board!Give(p, e)
<1> DEFINE h == Head(waiters[e])
           r == Tail(waiters[e])
<1>1. /\ mode = "run" /\ cur = p /\ pc[p] = "in" /\ Kind[e] = "mutex"
      /\ with' = [with EXCEPT ![p] = Null]
      /\ UNCHANGED <<prio, queue>>
  BY DEF Unlock, At, Calling
<1>2. /\ free \in [Event -> 0 .. MaxCount + 1] /\ MaxCount \in Nat
      /\ waiters \in [Event -> Seq(Task)]
      /\ with \in [Task -> Event \cup {Null}]
      /\ Null \notin Event
      /\ \A f \in Event : p \notin ToSet(waiters[f])
  BY <1>1, CallerFacts, EventAssumption DEF EventInv, EventTypeOK, ObjectInv
<1>3. p \in Holders(e) /\ owner[e] = p /\ free[e] = 0
  <2>1. p \in Holders(e)
    BY <1>2 DEF Holders
  <2> QED BY <1>1, <2>1, MutexHolder
<1>4. Had[p] = e
  BY <1>2 DEF Had
<1>5. CASE waiters[e] # <<>> /\ waiters' = [waiters EXCEPT ![e] = Tail(@)]
           /\ UNCHANGED free
  <2>1. waiters[e] \in Seq(Task) /\ IsInjective(waiters[e]) /\ Sorted(waiters[e], prio)
    BY <1>2 DEF TurnInv, EventInv, ObjectInv
  <2>2. /\ h \in Task /\ r \in Seq(Task)
        /\ ToSet(waiters[e]) = ToSet(r) \cup {h} /\ h \notin ToSet(r)
    BY <1>5, <2>1, TailElements
  <2>3. Sorted(r, prio)
    <3>1. 1 \in 1 .. Len(waiters[e])
      BY <1>5, <2>1
    <3>2. Tail(waiters[e]) = RemoveAt(waiters[e], 1)
      BY <1>5, <2>1, WithoutOne
    <3>3. Sorted(RemoveAt(waiters[e], 1), prio)
      BY <2>1, <3>1, SleeperLevels, RemovedInTurn DEF EventInv
    <3> QED BY <3>2, <3>3
  <2>4. h # p /\ with[h] = e
    BY <1>2, <2>2 DEF EventInv, ObjectInv
  <2>5. waiters' = [waiters EXCEPT ![e] = r]
    BY <1>5
  <2> HIDE DEF h, r
  <2>6. waiters'[e] = r /\ \A f \in Event \ {e} : waiters'[f] = waiters[f]
    BY <1>2, <2>5
  <2>7. Had' = [Had EXCEPT ![p] = Null, ![h] = e]
    <3>1. Had'[p] = Null
      BY <1>1, <1>2 DEF Had
    <3>2. Had'[h] = e
      BY <1>1, <1>2, <2>2, <2>4, <2>6 DEF Had
    <3>3. ASSUME NEW q \in Task, q # p, q # h PROVE Had'[q] = Had[q]
      <4>1. with'[q] = with[q]
        BY <1>1, <1>2, <3>3
      <4>2. \A f \in Event : q \in ToSet(waiters'[f]) <=> q \in ToSet(waiters[f])
        BY <2>2, <2>6, <3>3
      <4>3. with[q] # Null => with[q] \in Event
        BY <1>2
      <4> QED BY <4>1, <4>2, <4>3 DEF Had
    <3> QED BY <2>2, <2>4, <3>1, <3>2, <3>3 DEF Had
  <2>8. Board!Give(p, e)
    BY <1>1, <1>4, <1>5, <2>7 DEF Board!Give, h
  <2>9. TurnInv'
    <3> SUFFICES ASSUME NEW f \in Event
                 PROVE  /\ Sorted(queue[f], prio)
                        /\ Sorted(waiters'[f], prio)
                        /\ waiters'[f] # <<>> => free[f] = 0 /\ Kind[f] = "mutex"
      BY <1>1, <1>5 DEF TurnInv
    <3>1. CASE f = e
      BY <1>1, <1>3, <2>3, <2>6, <3>1 DEF TurnInv
    <3>2. CASE f # e
      BY <2>6, <3>2 DEF TurnInv
    <3> QED BY <3>1, <3>2
  <2> QED BY <2>8, <2>9
<1>6. CASE waiters[e] = <<>> /\ free' = [free EXCEPT ![e] = 1] /\ UNCHANGED waiters
  <2>1. Had' = [Had EXCEPT ![p] = Null]
    BY <1>1, <1>2, <1>6 DEF Had
  <2>2. free' = [free EXCEPT ![e] = @ + 1]
    BY <1>3, <1>6
  <2>3. Board!Give(p, e)
    BY <1>1, <1>4, <1>6, <2>1, <2>2 DEF Board!Give
  <2>4. TurnInv'
    BY <1>1, <1>2, <1>6 DEF TurnInv
  <2> QED BY <2>3, <2>4
<1>7. \/ waiters[e] # <<>> /\ waiters' = [waiters EXCEPT ![e] = Tail(@)] /\ UNCHANGED free
      \/ waiters[e] = <<>> /\ free' = [free EXCEPT ![e] = 1] /\ UNCHANGED waiters
  BY <1>3 DEF Unlock
<1> QED BY <1>5, <1>6, <1>7

(***************************************************************************)
(* os_semaphore_release gives a token back, and no line waits for it.      *)
(***************************************************************************)
LEMMA BoardRelease ==
  ASSUME EventInv, TurnInv, NEW p \in Task, NEW e \in Event, e = with[p],
         Release(p)
  PROVE  TurnInv' /\ Board!Give(p, e)
<1>1. /\ mode = "run" /\ cur = p /\ pc[p] = "in" /\ Kind[e] = "semaphore"
      /\ with' = [with EXCEPT ![p] = Null]
      /\ free' = [free EXCEPT ![e] = IF @ < MaxCount THEN @ + 1 ELSE @]
      /\ UNCHANGED <<prio, queue, waiters>>
  BY DEF Release, At, Calling, vars
<1>2. /\ free \in [Event -> 0 .. MaxCount + 1] /\ MaxCount \in Nat
      /\ with \in [Task -> Event \cup {Null}]
      /\ Null \notin Event
      /\ \A f \in Event : p \notin ToSet(waiters[f])
  BY <1>1, CallerFacts, EventAssumption DEF EventInv, EventTypeOK
<1>3. free[e] < MaxCount
  <2>1. p \in Holders(e)
    BY <1>2 DEF Holders
  <2>2. IsFiniteSet(Holders(e)) /\ free[e] + Cardinality(Holders(e)) = MaxCount
    BY <1>1 DEF EventInv, ObjectInv, Initially
  <2>3. Cardinality(Holders(e)) \in Nat \ {0}
    BY <2>1, <2>2, FS_CardinalityType, FS_EmptySet
  <2>4. free[e] \in Nat
    BY <1>2
  <2> DEFINE n == Cardinality(Holders(e))
  <2>5. n \in Nat \ {0} /\ free[e] + n = MaxCount
    BY <2>2, <2>3
  <2> HIDE DEF n
  <2> QED BY <1>2, <2>4, <2>5
<1>4. waiters[e] = <<>>
  BY <1>1 DEF TurnInv
<1>5. free' = [free EXCEPT ![e] = @ + 1]
  BY <1>1, <1>3
<1>6. Had[p] = e /\ Had' = [Had EXCEPT ![p] = Null]
  BY <1>1, <1>2 DEF Had
<1>7. Board!Give(p, e)
  BY <1>1, <1>4, <1>5, <1>6 DEF Board!Give
<1>8. TurnInv'
  BY <1>1, <1>2, <1>4, <1>5 DEF TurnInv
<1> QED BY <1>7, <1>8

(***************************************************************************)
(* The event scheduler wakes the first task of a queue: it has the object, *)
(* and asks for no other.                                                  *)
(***************************************************************************)
LEMMA BoardWake ==
  ASSUME EventInv, TurnInv, mode = "events", NEW e \in Event, ~IsEmpty(e),
         Answer(e) # "none", Wake(e, Head(queue[e])), UNCHANGED prio
  PROVE  TurnInv' /\ Head(queue[e]) \in Task /\ Board!Get(Head(queue[e]), e)
<1>0. PICK p : p = Head(queue[e])
  OBVIOUS
<1>1. /\ queue \in [Event -> Seq(Task)]
      /\ with \in [Task -> Event \cup {Null}]
      /\ free \in [Event -> 0 .. MaxCount + 1]
      /\ MaxCount \in Nat /\ Null \notin Event
      /\ queue[e] # <<>> /\ queue[e] \in Seq(Task)
      /\ \A f \in Event : IsInjective(queue[f])
  BY EventAssumption DEF EventInv, EventTypeOK, SleepInv, IsEmpty
<1>2. p \in Task /\ p \in ToSet(queue[e]) /\ p = queue[e][1]
  BY <1>0, <1>1, TailElements
<1>3. Sleeping(p)
  BY <1>2 DEF EventInv, SleepInv
<1>4. \A f \in Event : p \notin ToSet(waiters[f])
  BY <1>2, <1>3 DEF EventInv, ObjectInv, Sleeping
<1>5. /\ with' = [with EXCEPT ![p] = e]
      /\ queue' = [f \in Event |-> IF f = e THEN Tail(queue[e])
                                   ELSE IF f \in relation[p] THEN Without(queue[f], p)
                                   ELSE queue[f]]
      /\ free' = [free EXCEPT ![e] = @ - 1]
      /\ UNCHANGED waiters
  BY <1>0 DEF Wake, Trigger
<1>6. free[e] > 0 /\ waiters[e] = <<>>
  <2>1. free[e] # 0
    BY DEF Answer
  <2> QED BY <1>1, <2>1 DEF TurnInv
<1>7. Had' = [Had EXCEPT ![p] = e]
  <2>1. Had'[p] = e
    BY <1>1, <1>2, <1>4, <1>5 DEF Had
  <2>2. ASSUME NEW q \in Task, q # p PROVE Had'[q] = Had[q]
    BY <1>1, <1>5, <2>2 DEF Had
  <2> QED BY <1>2, <2>1, <2>2 DEF Had
<1>8. ASSUME NEW f \in Event
      PROVE  /\ queue'[f] \in Seq(Task)
             /\ Sorted(queue'[f], prio)
             /\ IF p \notin ToSet(queue[f]) THEN queue'[f] = queue[f]
                ELSE \E k \in 1 .. Len(queue[f]) :
                       queue[f][k] = p /\ queue'[f] = RemoveAt(queue[f], k)
  <2>1. /\ queue[f] \in Seq(Task) /\ IsInjective(queue[f])
        /\ Sorted(queue[f], prio)
        /\ p \in ToSet(queue[f]) <=> f \in relation[p]
    BY <1>1, <1>2, <1>3 DEF EventInv, SleepInv, TurnInv
  <2>2. CASE p \notin ToSet(queue[f])
    <3>1. queue'[f] = queue[f]
      BY <1>2, <1>5, <2>1, <2>2
    <3> QED BY <2>1, <2>2, <3>1
  <2>3. CASE p \in ToSet(queue[f])
    <3>1. PICK k \in 1 .. Len(queue[f]) :
            queue[f][k] = p /\ queue'[f] = RemoveAt(queue[f], k)
      <4>1. CASE f = e
        <5>1. queue'[f] = RemoveAt(queue[f], 1) /\ 1 \in 1 .. Len(queue[f])
          BY <1>1, <1>5, <2>1, <4>1, WithoutOne
        <5> QED BY <1>2, <4>1, <5>1
      <4>2. CASE f # e
        <5>1. PICK k \in 1 .. Len(queue[f]) : queue[f][k] = p
          BY <2>1, <2>3 DEF ToSet
        <5>2. queue'[f] = Without(queue[f], p)
          BY <1>5, <2>1, <2>3, <4>2
        <5>3. Without(queue[f], queue[f][k]) = RemoveAt(queue[f], k)
          BY <2>1, WithoutOne
        <5> QED BY <5>1, <5>2, <5>3
      <4> QED BY <4>1, <4>2
    <3>2. RemoveAt(queue[f], k) \in Seq(Task)
      BY <2>1, RemovedAt
    <3>3. Sorted(RemoveAt(queue[f], k), prio)
      BY <2>1, SleeperLevels, RemovedInTurn DEF EventInv
    <3> QED BY <2>3, <3>1, <3>2, <3>3
  <2> QED BY <2>2, <2>3
<1>9. TurnInv'
  <2>1. \A f \in Event : waiters[f] # <<>> => f # e /\ free'[f] = free[f]
    BY <1>1, <1>5, <1>6
  <2> QED BY <1>5, <1>8, <2>1 DEF TurnInv
<1>10. queue' \in [Event -> Seq(Task)]
  BY <1>5, <1>8
<1>11. ASSUME NEW f \in Event
       PROVE  IF p \notin Board!ToSet(queue[f]) THEN queue'[f] = queue[f]
              ELSE \E k \in 1 .. Len(queue[f]) :
                     queue[f][k] = p /\ queue'[f] = Board!RemoveAt(queue[f], k)
  BY <1>8 DEF Board!ToSet, ToSet, Board!RemoveAt, RemoveAt
<1>12. Board!Get(p, e)
  BY <1>0, <1>1, <1>5, <1>6, <1>7, <1>10, <1>11 DEF Board!Get, Board!Queues
<1> QED BY <1>0, <1>2, <1>9, <1>12

LEMMA StepBoard ==
  ASSUME ~Wakes, EventInv, WriteOK, TurnInv, [EventNext]_evars
  PROVE  TurnInv' /\ [Board!Next]_Board!vars
<1>1. CASE UNCHANGED evars
  BY <1>1, BoardLeft DEF evars, Board!Next
<1>2. CASE CoreStep
  <2>1. /\ UNCHANGED <<queue, sleepers, objects>>
        /\ \A p \in Task : pc[p] \in {"asleep", "locking"} => prio'[p] = prio[p]
    BY <1>2, CoreStepOnList DEF EventInv
  <2> QED BY <2>1, BoardLeft DEF sleepers, objects, Board!Next
<1>3. CASE CallScheduler \/ BeginPass \/ EndPass
  <2>1. UNCHANGED <<queue, sleepers, objects, prio>>
    BY <1>3 DEF CallScheduler, BeginPass, EndPass, vars
  <2> QED BY <2>1, BoardLeft DEF sleepers, objects, Board!Next
<1>4. CASE Examine
  <2> DEFINE e == Head(pass.todo)
             p == Head(queue[e])
  <2>1. mode = "events" /\ e \in Event /\ prio' = prio
    <3>1. mode = "events" /\ pass.todo # <<>> /\ pass.todo \in Seq(Event) /\ prio' = prio
      BY <1>4 DEF Examine, EventInv, EventTypeOK
    <3> QED BY <3>1, TailElements
  <2>2. ~IsEmpty(e) => IsPending(p)
    <3> SUFFICES ASSUME ~IsEmpty(e) PROVE IsPending(p)
      OBVIOUS
    <3>1. queue[e] \in Seq(Task) /\ queue[e] # <<>>
      BY <2>1 DEF IsEmpty, EventInv, EventTypeOK
    <3>2. p \in Task /\ p \in ToSet(queue[e])
      BY <3>1, TailElements
    <3> QED BY <2>1, <3>2 DEF IsPending, EventInv, SleepInv
  <2>3. \/ UNCHANGED <<queue, with, objects>>
        \/ ~IsEmpty(e) /\ Answer(e) # "none" /\ Wake(e, p)
    BY <1>4, <2>2 DEF Examine
  <2>4. CASE UNCHANGED <<queue, with, objects>>
    BY <2>1, <2>4, BoardLeft DEF objects, Board!Next
  <2>5. CASE ~IsEmpty(e) /\ Answer(e) # "none" /\ Wake(e, p)
    BY <2>1, <2>5, BoardWake DEF Board!Next
  <2> QED BY <2>3, <2>4, <2>5
<1>5. ASSUME NEW p \in Task, NEW es \in Arguments, Sleep(p, es)
      PROVE  TurnInv' /\ Board!Next
  <2>1. TurnInv' /\ Board!Ask(p, ToSet(es)) /\ ToSet(es) \in (SUBSET Event) \ {{}}
    BY <1>5, BoardSleep
  <2> QED BY <2>1 DEF Board!Next
<1>6. ASSUME NEW p \in Task, SleepReturn(p) \/ LockReturn(p)
      PROVE  TurnInv' /\ Board!Next
  <2>1. UNCHANGED <<queue, with, objects, prio>>
    BY <1>6 DEF SleepReturn, LockReturn, vars
  <2> QED BY <2>1, BoardLeft DEF objects, Board!Next
<1>7. ASSUME NEW p \in Task, NEW e \in Event, Lock(p, e)
      PROVE  TurnInv' /\ Board!Next
  BY <1>7, BoardLock DEF Board!Next
<1>8. ASSUME NEW p \in Task, Unlock(p) \/ Release(p)
      PROVE  TurnInv' /\ Board!Next
  <2>1. PICK e \in Event : e = with[p]
    BY <1>8 DEF Unlock, Release, At, EventInv, ObjectInv
  <2>2. TurnInv' /\ Board!Give(p, e)
    BY <1>8, <2>1, BoardUnlock, BoardRelease
  <2> QED BY <2>2 DEF Board!Next
<1> QED
  BY <1>1, <1>2, <1>3, <1>4, <1>5, <1>6, <1>7, <1>8 DEF EventNext

(***************************************************************************)
(* A task that sleeps gets one object of those it sleeps on, when it is    *)
(* the first to ask for it, and leaves the other queues at that moment;    *)
(* one that locks a mutex gets it in its turn in the line, which goes      *)
(* before the sleepers.  The event scheduler, the direct calls and the     *)
(* hand-overs implement EventBoard, for any number of tasks, of events and *)
(* of levels.                                                              *)
(***************************************************************************)
THEOREM EventImplementsBoard == ~Wakes => (EventSpec => ImplementsBoard)
<1> SUFFICES ASSUME ~Wakes PROVE EventSpec => ImplementsBoard
  OBVIOUS
<1>1. ASSUME EventInit PROVE TurnInv /\ Board!Init
  <2>1. /\ queue = [e \in Event |-> <<>>]
        /\ waiters = [e \in Event |-> <<>>]
        /\ free = [e \in Event |-> Initially(e)]
        /\ with = [p \in Task |-> Null]
    BY <1>1 DEF EventInit
  <2>2. Had = [p \in Task |-> Null]
    BY <2>1 DEF Had
  <2>3. TurnInv
    BY <2>1 DEF TurnInv, Sorted
  <2> QED BY <2>1, <2>2, <2>3 DEF Board!Init
<1>2. EventInv /\ WriteOK /\ TurnInv /\ [EventNext]_evars
        => TurnInv' /\ [Board!Next]_Board!vars
  BY StepBoard
<1> QED
  BY <1>1, <1>2, EventInvariant, WritesAreLevels, PTL
     DEF EventSpec, Board!Spec, ImplementsBoard
=============================================================================
