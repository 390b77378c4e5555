---------------------------- MODULE OsCoreProofs ----------------------------
(***************************************************************************)
(* The safety properties of OsCore for every set of tasks, every number of *)
(* priority levels and every configuration, as long as main() and the idle *)
(* hook disable no task (AppMayDisable; see the README for what happens    *)
(* when they do).                                                          *)
(*                                                                         *)
(* KernelInv is inductive.  RingIntact alone is not: an edit of the list   *)
(* starts from the successor of the current process, so it must be known   *)
(* that this successor is on the list even while the current process,      *)
(* os_app or a task that has just disabled itself, is not.                 *)
(***************************************************************************)
EXTENDS OsCoreRefinement, ProcessProofs

KernelInv ==
  /\ TypeOK
  /\ WellFormed(list)
  /\ list.appType = "application"
  /\ list.next[cur] \in Active(list)
  /\ mode # "hung"
  /\ OnlyEnabledRuns
  /\ \A p \in Task : Enabled(list, p) => p \in created

(***************************************************************************)
(* The linker's list is well formed.                                       *)
(***************************************************************************)
LEMMA InitListOK ==
  /\ InitList \in List
  /\ WellFormed(InitList)
  /\ Active(InitList) = {App}
  /\ InitList.next[App] = App
<1>1. InitList \in List
  BY ProcessAssumption DEF InitList, List, Status, AppType
<1>2. Active(InitList) = {App}
  BY ProcessAssumption DEF InitList, Active, Enabled
<1>3. InitList.next[App] = App
  BY ProcessAssumption DEF InitList
<1>4. OneCycle(InitList) /\ AppAlone(InitList)
  BY <1>2, <1>3 DEF OneCycle, AppAlone
<1> QED BY <1>1, <1>2, <1>3, <1>4 DEF WellFormed

LEMMA InitKernelInv == Init => KernelInv
<1> SUFFICES ASSUME Init PROVE KernelInv
  OBVIOUS
<1>1. TypeOK
  <2>1. 0 \in Level
    BY CoreAssumption DEF Level
  <2>2. /\ prio \in [Proc -> Level]
        /\ pcnt \in [Proc -> Level]
        /\ write \in [Proc -> [proc : Proc \cup {Null}, level : Level]]
    BY <2>1 DEF Init, NoWrite
  <2> QED
    BY <2>2, InitListOK, ProcessAssumption DEF Init, TypeOK
<1>2. /\ WellFormed(list) /\ list.appType = "application"
      /\ list.next[cur] \in Active(list)
      /\ OnlyEnabledRuns
      /\ \A p \in Task : ~Enabled(list, p)
  BY InitListOK, ProcessAssumption
     DEF Init, InitList, OnlyEnabledRuns, Task, Active
<1> QED BY <1>1, <1>2 DEF KernelInv, Init

(***************************************************************************)
(* Enabling and disabling one task, as the calls use them: nothing hangs,  *)
(* the list and the successor of the current process stay well formed, and *)
(* no other task is enabled or disabled.                                   *)
(***************************************************************************)
LEMMA EnableKeeps ==
  ASSUME NEW l \in List, WellFormed(l), NEW c \in Active(l) \cup {App},
         l.next[c] \in Active(l), NEW p \in Task
  PROVE  LET r == Enable(l, c, p) IN
         /\ ~EnableHangs(l, c, p)
         /\ r \in List
         /\ WellFormed(r)
         /\ r.appType = l.appType
         /\ r.next[c] \in Active(r)
         /\ \A q \in Task : Enabled(r, q) <=> Enabled(l, q) \/ q = p
<1>1. CASE Enabled(l, p)
  BY <1>1 DEF Enable, EnableHangs
<1>2. CASE ~Enabled(l, p)
  <2> DEFINE r == EnableNaked(l, c, p)
  <2>1. c \in Proc
    BY ProcessAssumption DEF Active
  <2>2. InsertionFound(l, c)
    BY <2>1, InsertionPointActive DEF WellFormed
  <2>3. /\ r \in List /\ WellFormed(r)
        /\ r.appType = l.appType
        /\ Enabled(r, p)
        /\ Active(r) \subseteq Active(l) \cup {p}
        /\ \A q \in Task : Enabled(l, q) => Enabled(r, q)
        /\ r.next[c] \in Active(r)
    BY <1>2, EnableNakedKeeps, ProcessAssumption
  <2>4. \A q \in Task : Enabled(r, q) <=> Enabled(l, q) \/ q = p
    BY <2>3 DEF Active, Task
  <2> QED
    BY <1>2, <2>2, <2>3, <2>4 DEF Enable, EnableHangs
<1> QED BY <1>1, <1>2

LEMMA DisableKeeps ==
  ASSUME NEW l \in List, WellFormed(l), l.appType = "application",
         NEW c \in Task, Enabled(l, c), NEW p \in Task
  PROVE  LET r == Disable(l, p) IN
         /\ ~DisableHangs(l, p)
         /\ r \in List
         /\ WellFormed(r)
         /\ r.appType = "application"
         /\ r.next[c] \in Active(r)
         /\ \A q \in Task : Enabled(r, q) <=> Enabled(l, q) /\ q # p
<1> DEFINE r == Disable(l, p)
<1>1. CASE ~Enabled(l, p)
  BY <1>1 DEF Disable, DisableHangs, WellFormed, OneCycle, Active, Task
<1>2. CASE Enabled(l, p)
  <2>1. /\ HasPred(l.next, p)
        /\ r = DisableNaked(l, p)
        /\ r \in List /\ WellFormed(r)
        /\ r.appType = "application"
        /\ ~Enabled(r, p)
        /\ Active(r) \subseteq Active(l) \cup {App}
        /\ \A q \in Task \ {p} : Enabled(l, q) => Enabled(r, q)
        /\ r.next[p] \in Active(r)
    BY <1>2, DisableNakedKeeps, ProcessAssumption DEF Disable
  <2>2. \A q \in Task : Enabled(r, q) <=> Enabled(l, q) /\ q # p
    BY <2>1 DEF Active, Task
  <2>3. c # p => c \in Active(r)
    BY <2>2 DEF Active, Task
  <2>4. r.next[c] \in Active(r)
    BY <2>1, <2>3 DEF WellFormed, OneCycle
  <2> QED BY <2>1, <2>2, <2>4 DEF DisableHangs
<1> QED BY <1>1, <1>2

(***************************************************************************)
(* What the invariant says of the running process.                         *)
(***************************************************************************)
LEMMA KernelRunning ==
  ASSUME KernelInv, mode = "run"
  PROVE  /\ list \in List /\ WellFormed(list)
         /\ list.appType = "application"
         /\ cur \in Active(list) \cup {App}
         /\ list.next[cur] \in Active(list)
         /\ cur \in Task => Enabled(list, cur)
<1>1. cur \in Proc /\ (Enabled(list, cur) \/ cur = App)
  BY DEF KernelInv, TypeOK, OnlyEnabledRuns
<1> QED BY <1>1 DEF KernelInv, TypeOK, Active, Task

(***************************************************************************)
(* Initialising the structure of a process that is on no list changes      *)
(* nothing on the list.                                                    *)
(***************************************************************************)
LEMMA FreshKeeps ==
  ASSUME NEW l \in List, WellFormed(l), NEW p \in Task, ~Enabled(l, p)
  PROVE  LET fresh == ProcessCreate(l, p) IN
         /\ fresh \in List
         /\ WellFormed(fresh)
         /\ fresh.next = l.next
         /\ fresh.appType = l.appType
         /\ Active(fresh) = Active(l)
<1> DEFINE fresh == ProcessCreate(l, p)
<1>1. /\ fresh.next = l.next
      /\ fresh.status = [l.status EXCEPT ![p] = "idle"]
      /\ fresh.appType = l.appType
      /\ l.status \in [Proc -> Status]
      /\ p \in Proc
  BY DEF List, ProcessCreate, Task
<1>2. fresh \in List /\ Active(fresh) = Active(l)
  BY <1>1 DEF List, Status, Active, Enabled, ProcessCreate
<1>3. WellFormed(fresh)
  BY <1>1, <1>2, ProcessAssumption
     DEF WellFormed, OneCycle, AppAlone, Active
<1> QED BY <1>1, <1>2, <1>3

(***************************************************************************)
(* The three calls that edit the list preserve the invariant and enable or *)
(* disable the task they name and no other.                                *)
(***************************************************************************)
LEMMA CreateKeeps ==
  ASSUME KernelInv, NEW p \in Task, NEW enable \in BOOLEAN, Create(p, enable)
  PROVE  /\ KernelInv'
         /\ \A q \in Task :
              Enabled(list', q) <=> Enabled(list, q) \/ (enable /\ q = p)
<1> DEFINE fresh == ProcessCreate(list, p)
<1>1. /\ mode = "run" /\ p \notin created /\ ~Enabled(list, p) /\ p \in Proc
  BY DEF KernelInv, Create, Calling, Task
<1>2. /\ list \in List /\ WellFormed(list)
      /\ list.appType = "application"
      /\ cur \in Active(list) \cup {App}
      /\ list.next[cur] \in Active(list)
      /\ cur \in Task => Enabled(list, cur)
  BY <1>1, KernelRunning
<1>3. /\ fresh \in List /\ WellFormed(fresh)
      /\ fresh.next = list.next
      /\ fresh.appType = list.appType
      /\ Active(fresh) = Active(list)
  BY <1>1, <1>2, FreshKeeps
<1>4. \A q \in Task : Enabled(fresh, q) <=> Enabled(list, q)
  BY <1>3 DEF Active, Task
<1>5. /\ list' \in List /\ WellFormed(list')
      /\ list'.appType = "application"
      /\ list'.next[cur] \in Active(list')
      /\ \A q \in Task :
           Enabled(list', q) <=> Enabled(list, q) \/ (enable /\ q = p)
      /\ mode' = "run"
  <2>1. CASE enable
    <3> DEFINE r == Enable(fresh, cur, p)
    <3>1. /\ ~EnableHangs(fresh, cur, p)
          /\ r \in List /\ WellFormed(r) /\ r.appType = fresh.appType
          /\ r.next[cur] \in Active(r)
          /\ \A q \in Task : Enabled(r, q) <=> Enabled(fresh, q) \/ q = p
      BY <1>2, <1>3, EnableKeeps
    <3>2. list' = r /\ mode' = "run"
      BY <2>1, <3>1 DEF Create, Edit
    <3> QED BY <1>2, <1>3, <1>4, <2>1, <3>1, <3>2
  <2>2. CASE ~enable
    BY <1>1, <1>2, <1>3, <1>4, <2>2 DEF Create
  <2> QED BY <2>1, <2>2
<1>6. TypeOK'
  BY <1>1, <1>5, CoreAssumption DEF KernelInv, TypeOK, Create, Level
<1>7. OnlyEnabledRuns' /\ cur' = cur
  BY <1>2, <1>5, <1>6 DEF OnlyEnabledRuns, Create, Task, TypeOK
<1>8. \A q \in Task : Enabled(list', q) => q \in created'
  BY <1>5 DEF KernelInv, Create
<1> QED BY <1>5, <1>6, <1>7, <1>8 DEF KernelInv

LEMMA EnableCallKeeps ==
  ASSUME KernelInv, NEW p \in Task, EnableCall(p)
  PROVE  /\ KernelInv'
         /\ \A q \in Task : Enabled(list', q) <=> Enabled(list, q) \/ q = p
<1>1. mode = "run" /\ p \in created
  BY DEF EnableCall, Calling
<1>2. /\ list \in List /\ WellFormed(list)
      /\ list.appType = "application"
      /\ cur \in Active(list) \cup {App}
      /\ list.next[cur] \in Active(list)
      /\ cur \in Task => Enabled(list, cur)
  BY <1>1, KernelRunning
<1>3. /\ list' \in List /\ WellFormed(list')
      /\ list'.appType = "application"
      /\ list'.next[cur] \in Active(list')
      /\ \A q \in Task : Enabled(list', q) <=> Enabled(list, q) \/ q = p
      /\ mode' = "run"
  BY <1>2, EnableKeeps DEF EnableCall, Edit
<1>4. TypeOK'
  BY <1>3 DEF KernelInv, TypeOK, EnableCall
<1>5. OnlyEnabledRuns' /\ cur' = cur
  BY <1>2, <1>3, <1>4 DEF OnlyEnabledRuns, EnableCall, Task, TypeOK
<1>6. \A q \in Task : Enabled(list', q) => q \in created'
  BY <1>1, <1>3 DEF KernelInv, EnableCall
<1> QED BY <1>3, <1>4, <1>5, <1>6 DEF KernelInv

LEMMA DisableCallKeeps ==
  ASSUME KernelInv, cur \in Task, NEW p \in Task, DisableCall(p)
  PROVE  /\ KernelInv'
         /\ \A q \in Task : Enabled(list', q) <=> Enabled(list, q) /\ q # p
<1>1. mode = "run"
  BY DEF DisableCall, Calling
<1>2. /\ list \in List /\ WellFormed(list)
      /\ list.appType = "application"
      /\ Enabled(list, cur)
  BY <1>1, KernelRunning
<1>3. /\ list' \in List /\ WellFormed(list')
      /\ list'.appType = "application"
      /\ list'.next[cur] \in Active(list')
      /\ \A q \in Task : Enabled(list', q) <=> Enabled(list, q) /\ q # p
      /\ mode' = IF p = cur THEN "sched" ELSE "run"
  BY <1>2, DisableKeeps DEF DisableCall, Edit
<1>4. TypeOK'
  BY <1>3 DEF KernelInv, TypeOK, DisableCall
<1>5. OnlyEnabledRuns' /\ cur' = cur
  BY <1>2, <1>3 DEF OnlyEnabledRuns, DisableCall
<1>6. \A q \in Task : Enabled(list', q) => q \in created'
  BY <1>3 DEF KernelInv, DisableCall
<1> QED BY <1>3, <1>4, <1>5, <1>6 DEF KernelInv

(***************************************************************************)
(* A pass of the scheduler's loop keeps the counters in their range.       *)
(***************************************************************************)
LEMMA ScheduleKeepsTypes ==
  ASSUME TypeOK, Schedule, list.next[cur] \in Proc
  PROVE  TypeOK'
<1> USE DEF Level
<1>1. /\ cur' \in Proc /\ list' = list /\ mode' \in {"run", "sched"}
      /\ pcnt \in [Proc -> Level] /\ prio \in [Proc -> Level] /\ MaxLevel \in Nat
  BY CoreAssumption DEF TypeOK, Schedule
<1>2. \/ pcnt' = [pcnt EXCEPT ![cur'] = prio[cur']]
      \/ /\ pcnt[cur'] # 0
         /\ pcnt' = [pcnt EXCEPT ![cur'] = pcnt[cur'] - 1]
  BY DEF Schedule
<1>3. pcnt[cur'] # 0 => pcnt[cur'] - 1 \in Level
  BY <1>1
<1>4. pcnt' \in [Proc -> Level]
  BY <1>1, <1>2, <1>3
<1> QED BY <1>1, <1>4 DEF TypeOK, Schedule

(***************************************************************************)
(* Every step preserves the invariant, one lemma step per action.          *)
(***************************************************************************)
LEMMA StepKernelInv ==
  ASSUME ~AppMayDisable, KernelInv, [Next]_vars
  PROVE  KernelInv'
<1> USE DEF Level
<1>1. /\ TypeOK /\ list \in List /\ cur \in Proc
      /\ WellFormed(list) /\ list.appType = "application"
      /\ list.next[cur] \in Active(list)
  BY DEF KernelInv, TypeOK
<1>2. ASSUME NEW p \in Task, NEW enable \in BOOLEAN, Create(p, enable)
      PROVE  KernelInv'
  BY <1>2, CreateKeeps
<1>3. ASSUME NEW p \in Task, EnableCall(p)
      PROVE  KernelInv'
  BY <1>3, EnableCallKeeps
<1>4. ASSUME NEW p \in Task, DisableCall(p)
      PROVE  KernelInv'
  BY <1>1, <1>4, DisableCallKeeps DEF DisableCall, Task
<1>5. ASSUME NEW p \in Task, NEW v \in Level, SetPriority(p, v)
      PROVE  KernelInv'
  <2>1. TypeOK'
    BY <1>1, <1>5, ProcessAssumption DEF TypeOK, SetPriority, Task
  <2> QED
    BY <1>1, <1>5, <2>1 DEF KernelInv, OnlyEnabledRuns, SetPriority
<1>6. CASE SetPriorityCounter
  <2>1. pcnt' \in [Proc -> Level]
    BY <1>1, <1>6 DEF TypeOK, SetPriorityCounter
  <2>2. write' \in [Proc -> [proc : Proc \cup {Null}, level : Level]]
    <3>1. NoWrite \in [proc : Proc \cup {Null}, level : Level]
      BY CoreAssumption DEF NoWrite
    <3> QED BY <1>1, <1>6, <3>1 DEF TypeOK, SetPriorityCounter
  <2>3. TypeOK'
    BY <1>1, <1>6, <2>1, <2>2 DEF TypeOK, SetPriorityCounter
  <2> QED
    BY <1>1, <1>6, <2>3 DEF KernelInv, OnlyEnabledRuns, SetPriorityCounter
<1>7. CASE Yield \/ Start \/ Tick
  BY <1>1, <1>7 DEF KernelInv, TypeOK, OnlyEnabledRuns, Yield, Start, Tick
<1>8. CASE Schedule
  <2>1. /\ cur' \in Active(list) /\ list' = list
        /\ mode' \in {"run", "sched"}
    BY <1>1, <1>8 DEF Schedule
  <2>2. list.next[cur'] \in Active(list) /\ cur' \in Proc
    BY <1>1, <2>1 DEF WellFormed, OneCycle, Active
  <2>4. TypeOK'
    BY <1>1, <1>8, <2>1, <2>2, ScheduleKeepsTypes DEF Schedule, Active
  <2>5. OnlyEnabledRuns'
    BY <2>1 DEF OnlyEnabledRuns, Active
  <2> QED
    BY <1>1, <1>8, <2>1, <2>2, <2>4, <2>5 DEF KernelInv, Schedule
<1>9. CASE UNCHANGED vars
  BY <1>1, <1>9 DEF KernelInv, TypeOK, OnlyEnabledRuns, vars
<1> QED
  BY <1>2, <1>3, <1>4, <1>5, <1>6, <1>7, <1>8, <1>9 DEF Next

LEMMA KernelInvariant == ~AppMayDisable => (Spec => []KernelInv)
<1> SUFFICES ASSUME ~AppMayDisable PROVE Spec => []KernelInv
  OBVIOUS
<1>1. Init => KernelInv
  BY InitKernelInv
<1>2. KernelInv /\ [Next]_vars => KernelInv'
  BY StepKernelInv
<1> QED BY <1>1, <1>2, PTL DEF Spec

(***************************************************************************)
(* The state always has its type: in particular the current process is a   *)
(* process, never the null pointer of a structure that was not linked.     *)
(***************************************************************************)
THEOREM KernelTypes == ~AppMayDisable => (Spec => []TypeOK)
<1>1. KernelInv => TypeOK
  BY DEF KernelInv
<1> QED BY <1>1, KernelInvariant, PTL

(***************************************************************************)
(* The active processes always form one cycle, without the application     *)
(* process when a task is active.                                          *)
(***************************************************************************)
THEOREM KernelRing == ~AppMayDisable => (Spec => []RingIntact)
<1>1. KernelInv => RingIntact
  BY DEF KernelInv, RingIntact
<1> QED BY <1>1, KernelInvariant, PTL

(***************************************************************************)
(* A disabled task never executes.                                         *)
(***************************************************************************)
THEOREM KernelRunsEnabled == ~AppMayDisable => (Spec => []OnlyEnabledRuns)
<1>1. KernelInv => OnlyEnabledRuns
  BY DEF KernelInv
<1> QED BY <1>1, KernelInvariant, PTL

(***************************************************************************)
(* The searches of the list, in the insertion of the FIFO configuration    *)
(* and in the removal, always end.                                         *)
(***************************************************************************)
THEOREM KernelSearchesEnd == ~AppMayDisable => (Spec => []NoEndlessSearch)
<1>1. KernelInv => NoEndlessSearch
  BY DEF KernelInv, NoEndlessSearch
<1> QED BY <1>1, KernelInvariant, PTL

(***************************************************************************)
(* The application process is given the processor only when no task is     *)
(* active.                                                                 *)
(***************************************************************************)
THEOREM KernelAppLast == ~AppMayDisable => (Spec => AppRunsLast)
<1> SUFFICES ASSUME ~AppMayDisable PROVE Spec => AppRunsLast
  OBVIOUS
<1> DEFINE AppLast == mode = "sched" /\ mode' = "run" /\ cur' = App
                     => Active(list) = {App}
<1>1. KernelInv /\ [Next]_vars => [AppLast]_vars
  <2> SUFFICES ASSUME KernelInv, Next, mode = "sched", cur' = App
               PROVE  Active(list) = {App}
    OBVIOUS
  <2>1. Schedule
    BY DEF Next, Create, EnableCall, DisableCall, SetPriority, Calling,
           SetPriorityCounter, Yield, Start, Tick
  <2>2. App \in Active(list)
    BY <2>1 DEF Schedule, KernelInv
  <2> QED
    BY <2>2 DEF KernelInv, WellFormed, AppAlone, Active
<1> QED BY <1>1, KernelInvariant, PTL DEF Spec, AppRunsLast

-----------------------------------------------------------------------------
(* The list implements the queue of RunQueue.                              *)

\* q is the active tasks of l in the order in which they come after p.
Ordered(q, l, p) ==
  /\ q \in Seq(Task)
  /\ IsInjective(q)
  /\ ToSet(q) = ActiveTasks(l)
  /\ Follows(q, l, p)

(***************************************************************************)
(* There is one such order: two walks that start together never part.      *)
(***************************************************************************)
LEMMA OrderIs ==
  ASSUME NEW l, NEW c, NEW q, Ordered(q, l, c)
  PROVE  OrderAfter(l, c) = q
<1> DEFINE n == Len(q)
           A == ActiveTasks(l)
           r == OrderAfter(l, c)
<1>1. /\ q \in Seq(Task) /\ IsInjective(q) /\ ToSet(q) = A /\ Follows(q, l, c)
      /\ n \in Nat
  BY DEF Ordered
<1>2. n = Cardinality(A)
  BY <1>1, QueueLength
<1>3. q \in [1 .. n -> A]
  BY <1>1 DEF ToSet
<1>4. r \in [1 .. n -> A] /\ Follows(r, l, c)
  BY <1>1, <1>2, <1>3 DEF OrderAfter
<1> HIDE DEF r
<1>5. r \in Seq(A) /\ Len(r) = n
  BY <1>1, <1>4, SeqDef, LenProperties
<1> DEFINE bad == {i \in 1 .. n : r[i] # q[i]}
<1>6. bad = {}
  <2> SUFFICES ASSUME bad # {} PROVE FALSE
    OBVIOUS
  <2> DEFINE m == Min(bad)
  <2>1. m \in bad /\ \A y \in bad : m <= y
    <3>1. bad \in SUBSET Nat
      OBVIOUS
    <3> HIDE DEF bad
    <3> QED BY <3>1, MinOfNaturals
  <2> HIDE DEF m
  <2>2. m \in 1 .. n /\ r[m] # q[m]
    BY <2>1
  <2>3. CASE m = 1
    BY <1>1, <1>4, <1>5, <2>2, <2>3 DEF Follows
  <2>4. CASE m # 1
    <3>1. m - 1 \in 1 .. n /\ m - 1 \notin bad
      BY <1>1, <2>1, <2>2, <2>4
    <3>2. r[m - 1] = q[m - 1]
      BY <3>1
    <3>3. r[m] = l.next[r[m - 1]] /\ q[m] = l.next[q[m - 1]]
      BY <1>1, <1>4, <1>5, <2>2, <2>4 DEF Follows
    <3> QED BY <2>2, <3>2, <3>3
  <2> QED BY <2>3, <2>4
<1>7. \A i \in 1 .. n : r[i] = q[i]
  BY <1>6
<1> QED BY <1>3, <1>4, <1>7 DEF r

(***************************************************************************)
(* The order goes around the whole list: the last task is followed by the  *)
(* first, and the current process, when it is on the list, is the last.    *)
(***************************************************************************)
LEMMA OrderCloses ==
  ASSUME NEW l \in List, WellFormed(l), l.appType = "application",
         NEW c, l.next[c] \in Active(l),
         NEW q, Ordered(q, l, c), q # <<>>
  PROVE  /\ Len(q) \in Nat \ {0}
         /\ \A i \in 1 .. Len(q) : q[i] \in Active(l)
         /\ Active(l) = ToSet(q) /\ App \notin Active(l)
         /\ l.next[c] = q[1]
         /\ l.next[q[Len(q)]] = q[1]
         /\ c \in Active(l) => c = q[Len(q)]
<1> DEFINE n == Len(q)
<1>1. /\ q \in Seq(Task) /\ IsInjective(q) /\ ToSet(q) = ActiveTasks(l)
      /\ Follows(q, l, c)
      /\ n \in Nat \ {0} /\ DOMAIN q = 1 .. n
  BY EmptySeq DEF Ordered
<1>2. \A i \in 1 .. n : q[i] \in Active(l) /\ q[i] # App
  BY <1>1 DEF ToSet, ActiveTasks
<1>3. App \notin Active(l)
  <2> SUFFICES ASSUME App \in Active(l) PROVE FALSE
    OBVIOUS
  <2>1. Active(l) = {App}
    BY DEF WellFormed, AppAlone, Active
  <2> QED BY <1>1, <1>2, <2>1
<1>4. Active(l) = ToSet(q)
  BY <1>1, <1>3 DEF ActiveTasks
<1>5. l.next[c] = q[1]
  BY <1>1 DEF Follows
<1>6. \A i \in 2 .. n : q[i] = l.next[q[i - 1]]
  BY <1>1 DEF Follows
<1>7. \A x, y \in Active(l) : l.next[x] = l.next[y] => x = y
  BY DEF WellFormed, OneCycle
<1>8. l.next[q[n]] = q[1]
  <2>1. q[n] \in Active(l)
    BY <1>1, <1>2
  <2>2. l.next[q[n]] \in ToSet(q)
    BY <1>4, <2>1 DEF WellFormed, OneCycle
  <2>3. PICK j \in 1 .. n : l.next[q[n]] = q[j]
    BY <1>1, <2>2 DEF ToSet
  <2>4. CASE j # 1
    <3>1. j \in 2 .. n /\ j - 1 \in 1 .. n
      BY <1>1, <2>4
    <3>2. q[j - 1] = q[n]
      BY <1>2, <1>6, <1>7, <2>1, <2>3, <3>1
    <3>3. j - 1 = n
      BY <1>1, <3>1, <3>2 DEF IsInjective
    <3> QED BY <1>1, <3>3
  <2> QED BY <2>3, <2>4
<1>9. c \in Active(l) => c = q[n]
  BY <1>1, <1>2, <1>5, <1>7, <1>8
<1> QED BY <1>1, <1>2, <1>3, <1>4, <1>5, <1>8, <1>9

(***************************************************************************)
(* A task linked behind the process in front of place k enters the order   *)
(* at that place.                                                          *)
(***************************************************************************)
LEMMA EntersAt ==
  ASSUME NEW l \in List, WellFormed(l), l.appType = "application",
         NEW c, l.next[c] \in Active(l),
         NEW q, Ordered(q, l, c), q # <<>>,
         NEW p \in Task, p \notin Active(l), c # p,
         NEW k \in 1 .. Len(q) + 1, NEW last,
         IF k = 1 THEN last = c /\ c \in Active(l) ELSE last = q[k - 1] /\ last # c,
         NEW r, ActiveTasks(r) = ActiveTasks(l) \cup {p},
         r.next[p] = l.next[last], r.next[last] = p,
         \A x \in Active(l) \cup {c} : x # last => r.next[x] = l.next[x]
  PROVE  Ordered(InsertAt(q, k, p), r, c)
<1> DEFINE n == Len(q)
           s == InsertAt(q, k, p)
<1>1. /\ n \in Nat \ {0} /\ k \in 1 .. n + 1
      /\ \A i \in 1 .. n : q[i] \in Active(l)
      /\ l.next[c] = q[1]
      /\ l.next[q[n]] = q[1]
      /\ c \in Active(l) => c = q[n]
  BY OrderCloses
<1>2. /\ q \in Seq(Task) /\ DOMAIN q = 1 .. n
      /\ \A i, j \in 1 .. n : q[i] = q[j] => i = j
      /\ ToSet(q) = ActiveTasks(l)
      /\ \A i \in 2 .. n : q[i] = l.next[q[i - 1]]
  BY DEF Ordered, IsInjective, Follows
<1>3. /\ s \in Seq(Task)
      /\ Len(s) = n + 1 /\ DOMAIN s = 1 .. n + 1
      /\ \A i \in 1 .. k - 1 : s[i] = q[i]
      /\ s[k] = p
      /\ \A i \in k + 1 .. n + 1 : s[i] = q[i - 1]
  <2>1. /\ s \in Seq(Task)
        /\ Len(s) = n + 1
        /\ \A i \in 1 .. k - 1 : s[i] = q[i]
        /\ s[k] = p
        /\ \A i \in k + 1 .. n + 1 : s[i] = q[i - 1]
    <3>1. q \in Seq(Task)
      BY <1>2
    <3> QED BY <3>1, InsertedAt
  <2> HIDE DEF s
  <2> QED BY <2>1
<1> HIDE DEF s
<1>4. \A i \in 1 .. n : q[i] # p
  BY <1>1
<1>5. IsInjective(s)
  <2> SUFFICES ASSUME NEW i \in 1 .. n + 1, NEW j \in 1 .. n + 1, s[i] = s[j]
               PROVE  i = j
    BY <1>3 DEF IsInjective
  <2> DEFINE from(h) == IF h < k THEN h ELSE h - 1
  <2>1. ASSUME NEW h \in 1 .. n + 1, h # k
        PROVE  s[h] = q[from(h)] /\ from(h) \in 1 .. n
    <3>1. CASE h < k
      <4>1. h \in 1 .. k - 1 /\ h \in 1 .. n
        BY <1>1, <3>1
      <4> QED BY <1>3, <3>1, <4>1
    <3>2. CASE ~(h < k)
      <4>1. h \in k + 1 .. n + 1 /\ h - 1 \in 1 .. n
        BY <1>1, <2>1, <3>2
      <4> QED BY <1>3, <3>2, <4>1
    <3> QED BY <3>1, <3>2
  <2>2. CASE i = k \/ j = k
    <3>1. \A h \in 1 .. n + 1 : h # k => s[h] # p
      <4> HIDE DEF from
      <4> QED BY <1>4, <2>1
    <3> QED BY <1>3, <2>2, <3>1
  <2>3. CASE i # k /\ j # k
    <3>1. from(i) = from(j)
      <4> HIDE DEF from
      <4> QED BY <1>2, <2>1, <2>3
    <3> QED BY <1>1, <2>3, <3>1
  <2> QED BY <2>2, <2>3
<1>6. ToSet(s) = ActiveTasks(r)
  <2>1. ASSUME NEW x \in ToSet(s) PROVE x \in ToSet(q) \cup {p}
    <3>1. PICK i \in 1 .. n + 1 : s[i] = x
      BY <1>3 DEF ToSet
    <3>2. \/ i \in 1 .. n /\ x = q[i]
          \/ x = p
          \/ i - 1 \in 1 .. n /\ x = q[i - 1]
      BY <1>1, <1>3, <3>1
    <3> QED BY <1>2, <3>2 DEF ToSet
  <2>2. ASSUME NEW x \in ToSet(q) \cup {p} PROVE x \in ToSet(s)
    <3>1. CASE x = p
      BY <1>1, <1>3, <3>1 DEF ToSet
    <3>2. CASE x # p
      <4>1. PICK i \in 1 .. n : q[i] = x
        BY <1>2, <2>2, <3>2 DEF ToSet
      <4>2. \/ i \in 1 .. n + 1 /\ s[i] = x
            \/ i + 1 \in 1 .. n + 1 /\ s[i + 1] = x
        <5>1. CASE i < k
          BY <1>1, <1>3, <4>1, <5>1
        <5>2. CASE ~(i < k)
          <6>1. i + 1 \in k + 1 .. n + 1 /\ (i + 1) - 1 = i
            BY <1>1, <5>2
          <6> QED BY <1>1, <1>3, <4>1, <6>1
        <5> QED BY <5>1, <5>2
      <4> QED BY <1>3, <4>2 DEF ToSet
    <3> QED BY <3>1, <3>2
  <2> QED BY <1>2, <2>1, <2>2
<1>7. Follows(s, r, c)
  <2> SUFFICES ASSUME NEW i \in 1 .. n + 1
               PROVE  s[i] = r.next[IF i = 1 THEN c ELSE s[i - 1]]
    BY <1>3 DEF Follows
  <2>1. CASE k = 1
    <3>1. last = c /\ c = q[n] /\ s[1] = p
      BY <1>1, <1>3, <2>1
    <3>2. CASE i = 1
      BY <3>1, <3>2
    <3>3. CASE i = 2
      BY <1>1, <1>3, <2>1, <3>1, <3>3
    <3>4. CASE i > 2
      <4>1. /\ i - 1 \in 2 .. n /\ i - 2 \in 1 .. n /\ i - 2 # n
            /\ (i - 1) - 1 = i - 2
            /\ i \in k + 1 .. n + 1 /\ i - 1 \in k + 1 .. n + 1
        BY <1>1, <2>1, <3>4
      <4>2. s[i] = q[i - 1] /\ s[i - 1] = q[i - 2]
        BY <1>3, <4>1
      <4>3. q[i - 1] = l.next[q[i - 2]] /\ q[i - 2] # last
        BY <1>1, <1>2, <3>1, <4>1
      <4> QED BY <1>1, <3>4, <4>1, <4>2, <4>3
    <3> QED BY <3>2, <3>3, <3>4
  <2>2. CASE k # 1
    <3>1. last = q[k - 1] /\ last # c /\ k - 1 \in 1 .. n
      BY <1>1, <2>2
    <3>2. CASE i = 1
      BY <1>1, <1>3, <2>2, <3>1, <3>2
    <3>3. CASE i > 1 /\ i < k
      <4>1. i \in 2 .. n /\ i \in 1 .. k - 1 /\ i - 1 \in 1 .. k - 1 /\ i - 1 \in 1 .. n
            /\ i - 1 # k - 1
        BY <1>1, <3>3
      <4>2. s[i] = q[i] /\ s[i - 1] = q[i - 1]
        BY <1>3, <4>1
      <4>3. q[i - 1] # last
        BY <1>2, <3>1, <4>1
      <4> QED BY <1>1, <1>2, <3>3, <4>1, <4>2, <4>3
    <3>4. CASE i = k
      <4>1. k - 1 \in 1 .. k - 1
        BY <1>1, <2>2
      <4> QED BY <1>3, <2>2, <3>1, <3>4, <4>1
    <3>5. CASE i = k + 1
      <4>1. k \in 2 .. n /\ i \in k + 1 .. n + 1 /\ i - 1 = k /\ i # 1
        BY <1>1, <2>2, <3>5
      <4> QED BY <1>2, <1>3, <3>1, <4>1
    <3>6. CASE i > k + 1
      <4>1. /\ i - 1 \in 2 .. n /\ i - 2 \in 1 .. n /\ i - 2 # k - 1
            /\ (i - 1) - 1 = i - 2 /\ i # 1
            /\ i \in k + 1 .. n + 1 /\ i - 1 \in k + 1 .. n + 1
        BY <1>1, <2>2, <3>6
      <4>2. s[i] = q[i - 1] /\ s[i - 1] = q[i - 2]
        BY <1>3, <4>1
      <4>3. q[i - 1] = l.next[q[i - 2]] /\ q[i - 2] # last
        BY <1>2, <3>1, <4>1
      <4> QED BY <1>1, <4>1, <4>2, <4>3
    <3> QED BY <1>1, <3>2, <3>3, <3>4, <3>5, <3>6
  <2> QED BY <2>1, <2>2
<1> QED BY <1>3, <1>5, <1>6, <1>7 DEF Ordered, s

(***************************************************************************)
(* The two ends of a queue are places to insert at.                        *)
(***************************************************************************)
LEMMA InsertedAtEnds ==
  ASSUME NEW S, NEW q \in Seq(S), NEW p \in S
  PROVE  /\ Append(q, p) = InsertAt(q, Len(q) + 1, p)
         /\ <<p>> \o q = InsertAt(q, 1, p)
<1> DEFINE n == Len(q)
           a == InsertAt(q, n + 1, p)
           b == InsertAt(q, 1, p)
<1>1. n \in Nat /\ 1 \in 1 .. n + 1 /\ n + 1 \in 1 .. n + 1
  OBVIOUS
<1>2. a \in Seq(S) /\ Len(a) = n + 1 /\ a[n + 1] = p /\ \A i \in 1 .. n : a[i] = q[i]
  <2>1. /\ a \in Seq(S) /\ Len(a) = n + 1 /\ a[n + 1] = p
        /\ \A i \in 1 .. (n + 1) - 1 : a[i] = q[i]
    BY <1>1, InsertedAt
  <2> QED BY <1>1, <2>1
<1>3. b \in Seq(S) /\ Len(b) = n + 1 /\ b[1] = p /\ \A i \in 2 .. n + 1 : b[i] = q[i - 1]
  <2>1. /\ b \in Seq(S) /\ Len(b) = n + 1 /\ b[1] = p
        /\ \A i \in 1 + 1 .. n + 1 : b[i] = q[i - 1]
    BY <1>1, InsertedAt
  <2> QED BY <1>1, <2>1
<1> HIDE DEF a, b
<1>4. Append(q, p) = a
  <2> DEFINE r == Append(q, p)
  <2>1. /\ r \in Seq(S) /\ Len(r) = n + 1 /\ r[n + 1] = p
        /\ \A i \in 1 .. n : r[i] = q[i]
    BY AppendProperties
  <2> HIDE DEF r
  <2>2. \A i \in 1 .. n + 1 : r[i] = a[i]
    BY <1>1, <1>2, <2>1
  <2>3. r = a
    BY <1>2, <2>1, <2>2, SeqEqual
  <2> QED BY <2>3 DEF r
<1>5. <<p>> \o q = b
  <2> DEFINE r == <<p>> \o q
  <2>1. /\ r \in Seq(S) /\ Len(r) = n + 1 /\ r[1] = p
        /\ \A i \in 2 .. n + 1 : r[i] = q[i - 1]
    OBVIOUS
  <2> HIDE DEF r
  <2>2. \A i \in 1 .. n + 1 : r[i] = b[i]
    BY <1>1, <1>3, <2>1
  <2>3. r = b
    BY <1>3, <2>1, <2>2, SeqEqual
  <2> QED BY <2>3 DEF r
<1> QED BY <1>4, <1>5 DEF a, b

(***************************************************************************)
(* __os_process_enable_naked puts the task at its place in the order.      *)
(***************************************************************************)
LEMMA EnterOrder ==
  ASSUME NEW l \in List, WellFormed(l), l.appType = "application",
         NEW c \in Active(l) \cup {App}, l.next[c] \in Active(l),
         NEW q, Ordered(q, l, c),
         NEW p \in Task, ~Enabled(l, p)
  PROVE  /\ p \notin ToSet(q)
         /\ PlaceInOrder(q, c) \in 1 .. Len(q) + 1
         /\ Ordered(InsertAt(q, PlaceInOrder(q, c), p), EnableNaked(l, c, p), c)
<1> DEFINE r == EnableNaked(l, c, p)
           last == InsertionPoint(l, c)
           n == Len(q)
           k == PlaceInOrder(q, c)
<1>1. /\ p \in Proc /\ p # App /\ c \in Proc /\ p \notin Active(l) /\ c # p
      /\ q \in Seq(Task) /\ IsInjective(q) /\ ToSet(q) = ActiveTasks(l)
      /\ Follows(q, l, c)
  BY ProcessAssumption DEF Task, Active, Ordered
<1>2. p \notin ToSet(q)
  BY <1>1 DEF ActiveTasks
<1>3. last \in Active(l) /\ last \in Proc
  BY <1>1, InsertionPointActive DEF WellFormed, Active
<1>4. l.next \in [Proc -> Proc \cup {Null}] /\ l.status \in [Proc -> Status]
  BY DEF List
<1>5. CASE q = <<>>
  <2>1. ActiveTasks(l) = {}
    BY <1>1, <1>5 DEF ToSet
  <2>2. last = App /\ c = App
    BY <1>3, <2>1 DEF ActiveTasks
  <2>3. IsApplication(l, last)
    BY <2>2 DEF IsApplication
  <2>4. /\ r.next = [l.next EXCEPT ![p] = p, ![last] = p]
        /\ r.status = [l.status EXCEPT ![App] = "idle", ![p] = "active"]
    BY <2>3 DEF EnableNaked
  <2>5. r.next[c] = p /\ ActiveTasks(r) = {p}
    BY <1>1, <1>4, <2>1, <2>2, <2>4 DEF ActiveTasks, Active, Enabled
  <2>6. k = 1 /\ Len(q) = 0 /\ InsertAt(q, 1, p) = <<p>>
    <3>1. ToSet(<<>>) = {} /\ Len(<<>>) = 0
      BY DEF ToSet
    <3>2. <<p>> \o <<>> = <<p>>
      OBVIOUS
    <3>3. <<p>> \o q = InsertAt(q, 1, p)
      BY <1>1, InsertedAtEnds
    <3>4. k = 1
      BY <1>5, <3>1, ProcessAssumption DEF PlaceInOrder
    <3> QED BY <1>5, <3>1, <3>2, <3>3, <3>4
  <2>7. Ordered(<<p>>, r, c)
    <3>1. <<p>> \in Seq(Task) /\ Len(<<p>>) = 1 /\ DOMAIN <<p>> = 1 .. 1
          /\ <<p>>[1] = p
      OBVIOUS
    <3>2. ToSet(<<p>>) = {p} /\ IsInjective(<<p>>)
      BY DEF ToSet, IsInjective
    <3> QED BY <2>5, <3>1, <3>2 DEF Ordered, Follows
  <2> QED BY <1>2, <2>6, <2>7
<1>6. CASE q # <<>>
  <2>1. /\ n \in Nat \ {0}
        /\ \A i \in 1 .. n : q[i] \in Active(l)
        /\ Active(l) = ToSet(q) /\ App \notin Active(l)
        /\ l.next[c] = q[1]
        /\ l.next[q[n]] = q[1]
        /\ c \in Active(l) => c = q[n]
    BY <1>6, OrderCloses
  <2>2. DOMAIN q = 1 .. n /\ \A i, j \in 1 .. n : q[i] = q[j] => i = j
    BY <1>1 DEF IsInjective
  <2>3. ~IsApplication(l, last)
    BY <1>3, <2>1 DEF IsApplication
  <2>4. /\ r.next = [l.next EXCEPT ![p] = l.next[last], ![last] = p]
        /\ r.status = [l.status EXCEPT ![p] = "active"]
    BY <2>3 DEF EnableNaked
  <2>5. /\ r.next[p] = l.next[last] /\ r.next[last] = p
        /\ \A x \in Active(l) \cup {c} : x # last => r.next[x] = l.next[x]
    BY <1>1, <1>3, <1>4, <2>4 DEF Active
  <2>6. ActiveTasks(r) = ActiveTasks(l) \cup {p}
    BY <1>1, <1>4, <2>4 DEF ActiveTasks, Active, Enabled
  <2>7. Fifo => last = q[n]
    <3>1. Fifo => l.next[last] = l.next[c]
      BY <1>1, <2>1, PredOfActive DEF InsertionPoint, WellFormed
    <3>2. q[n] \in Active(l)
      BY <2>1
    <3> QED BY <1>3, <2>1, <3>1, <3>2 DEF WellFormed, OneCycle
  <2>8. ~Fifo => last = q[1]
    BY <2>1 DEF InsertionPoint
  <2>9. /\ k \in 1 .. n + 1
        /\ IF k = 1 THEN last = c /\ c \in Active(l)
           ELSE last = q[k - 1] /\ last # c
    <3>1. CASE Fifo /\ c \notin ToSet(q)
      <4>1. k = n + 1
        BY <3>1 DEF PlaceInOrder
      <4>2. last # c
        BY <1>3, <2>1, <3>1
      <4>3. n + 1 \in 1 .. n + 1 /\ n + 1 # 1 /\ (n + 1) - 1 = n
        BY <2>1
      <4> HIDE DEF k, last
      <4> QED BY <2>7, <3>1, <4>1, <4>2, <4>3
    <3>2. CASE Fifo /\ c \in ToSet(q)
      <4>1. k = 1
        BY <3>2 DEF PlaceInOrder
      <4> HIDE DEF k, last
      <4> QED BY <2>1, <2>7, <3>2, <4>1
    <3>3. CASE ~Fifo /\ q = <<c>>
      <4>1. k = 1
        BY <3>3 DEF PlaceInOrder
      <4>2. q[1] = c /\ 1 \in 1 .. n
        BY <2>1, <3>3
      <4> HIDE DEF k, last
      <4> QED BY <2>1, <2>8, <3>3, <4>1, <4>2
    <3>4. CASE ~Fifo /\ q # <<c>>
      <4>1. k = 2
        BY <1>6, <3>4 DEF PlaceInOrder
      <4>2. last # c
        <5> SUFFICES ASSUME last = c PROVE FALSE
          OBVIOUS
        <5>1. q[1] = c /\ q[n] = c
          BY <1>3, <2>1, <2>8, <3>4
        <5>2. n = 1
          BY <2>1, <2>2, <5>1
        <5>3. q = <<c>>
          BY <1>1, <5>1, <5>2
        <5> QED BY <3>4, <5>3
      <4>3. 2 \in 1 .. n + 1 /\ 2 # 1 /\ 2 - 1 = 1
        BY <2>1
      <4> HIDE DEF k, last
      <4> QED BY <2>8, <3>4, <4>1, <4>2, <4>3
    <3> QED BY <3>1, <3>2, <3>3, <3>4
  <2> HIDE DEF r, last, k
  <2>10. Ordered(InsertAt(q, k, p), r, c)
    BY <1>1, <1>6, <2>5, <2>6, <2>9, EntersAt
  <2> QED BY <1>2, <2>9, <2>10 DEF r, k
<1> QED BY <1>5, <1>6

(***************************************************************************)
(* __os_process_disable_naked takes the task out of the order, wherever it *)
(* is.                                                                     *)
(***************************************************************************)
LEMMA LeaveOrder ==
  ASSUME NEW l \in List, WellFormed(l), l.appType = "application",
         NEW c \in Task, Enabled(l, c),
         NEW q, Ordered(q, l, c),
         NEW p \in Task, Enabled(l, p)
  PROVE  \E k \in 1 .. Len(q) :
            q[k] = p /\ Ordered(RemoveAt(q, k), DisableNaked(l, p), c)
<1> DEFINE r == DisableNaked(l, p)
           last == Pred(l.next, p)
           n == Len(q)
<1>1. /\ p \in Proc /\ p # App /\ c \in Proc /\ c \in Active(l) /\ p \in Active(l)
      /\ l.next[c] \in Active(l)
      /\ q \in Seq(Task) /\ IsInjective(q) /\ ToSet(q) = ActiveTasks(l)
      /\ Follows(q, l, c)
  BY DEF Task, Active, Ordered, WellFormed, OneCycle
<1>2. n \in Nat /\ DOMAIN q = 1 .. n /\ \A i, j \in 1 .. n : q[i] = q[j] => i = j
  BY <1>1 DEF IsInjective
<1>3. PICK k \in 1 .. n : q[k] = p
  BY <1>1, <1>2 DEF ToSet, ActiveTasks
<1>4. q # <<>>
  BY <1>2, <1>3
<1>5. /\ n \in Nat \ {0}
      /\ \A i \in 1 .. n : q[i] \in Active(l)
      /\ Active(l) = ToSet(q) /\ App \notin Active(l)
      /\ l.next[c] = q[1] /\ l.next[q[n]] = q[1]
      /\ c = q[n]
  BY <1>1, <1>4, OrderCloses
<1>6. \A i \in 2 .. n : q[i] = l.next[q[i - 1]]
  BY <1>1 DEF Follows
<1>7. last \in Active(l) /\ l.next[last] = p /\ last \in Proc
  BY <1>1, PredOfActive DEF WellFormed, Active
<1>8. \A x, y \in Active(l) : l.next[x] = l.next[y] => x = y
  BY DEF WellFormed, OneCycle
<1>9. last = IF k = 1 THEN q[n] ELSE q[k - 1]
  <2>1. CASE k = 1
    <3>1. q[n] \in Active(l)
      BY <1>5
    <3> QED BY <1>3, <1>5, <1>7, <1>8, <2>1, <3>1
  <2>2. CASE k # 1
    <3>1. k \in 2 .. n /\ k - 1 \in 1 .. n
      BY <1>5, <2>2
    <3>2. q[k - 1] \in Active(l) /\ l.next[q[k - 1]] = p
      BY <1>3, <1>5, <1>6, <3>1
    <3> QED BY <1>7, <1>8, <2>2, <3>2
  <2> QED BY <2>1, <2>2
<1>10. l.next \in [Proc -> Proc \cup {Null}] /\ l.status \in [Proc -> Status]
  BY DEF List
<1> DEFINE s == RemoveAt(q, k)
<1>11. /\ s \in Seq(Task) /\ Len(s) = n - 1
       /\ \A i \in 1 .. k - 1 : s[i] = q[i]
       /\ \A i \in k .. n - 1 : s[i] = q[i + 1]
  BY <1>1, RemovedAt
<1> HIDE DEF s
<1>12. DOMAIN s = 1 .. n - 1
  BY <1>11
<1> DEFINE from(i) == IF i < k THEN i ELSE i + 1
<1>13. ASSUME NEW i \in 1 .. n - 1
       PROVE  s[i] = q[from(i)] /\ from(i) \in 1 .. n /\ from(i) # k
  <2>1. CASE i < k
    <3>1. i \in 1 .. k - 1 /\ i \in 1 .. n
      BY <1>5, <2>1
    <3> QED BY <1>11, <2>1, <3>1
  <2>2. CASE ~(i < k)
    <3>1. i \in k .. n - 1 /\ i + 1 \in 1 .. n /\ i + 1 # k
      BY <1>5, <2>2
    <3> QED BY <1>11, <2>2, <3>1
  <2> QED BY <2>1, <2>2
<1>14. ASSUME NEW j \in 1 .. n, j # k
       PROVE  \E i \in 1 .. n - 1 : from(i) = j
  <2>1. CASE j < k
    BY <1>5, <2>1
  <2>2. CASE ~(j < k)
    <3>1. j - 1 \in 1 .. n - 1 /\ ~(j - 1 < k) /\ (j - 1) + 1 = j
      BY <1>5, <1>14, <2>2
    <3> QED BY <3>1
  <2> QED BY <2>1, <2>2
<1>15. IsInjective(s)
  <2> SUFFICES ASSUME NEW i \in 1 .. n - 1, NEW j \in 1 .. n - 1, s[i] = s[j]
               PROVE  i = j
    BY <1>12 DEF IsInjective
  <2>1. from(i) = from(j)
    <3> HIDE DEF from
    <3> QED BY <1>2, <1>13
  <2> QED BY <1>5, <2>1
<1>16. ToSet(s) = ToSet(q) \ {p}
  <2> HIDE DEF from
  <2>1. ASSUME NEW i \in 1 .. n - 1 PROVE s[i] \in ToSet(q) \ {p}
    BY <1>2, <1>3, <1>13 DEF ToSet
  <2>2. ASSUME NEW x \in ToSet(q) \ {p} PROVE x \in ToSet(s)
    <3>1. PICK j \in 1 .. n : q[j] = x
      BY <1>2 DEF ToSet
    <3>2. PICK i \in 1 .. n - 1 : from(i) = j
      BY <1>3, <1>14, <2>2, <3>1
    <3> QED BY <1>12, <1>13, <3>1, <3>2 DEF ToSet
  <2> QED BY <1>12, <2>1, <2>2 DEF ToSet
<1>17. CASE last = p
  <2>1. r.status = [l.status EXCEPT ![App] = "active", ![p] = "idle"]
    BY <1>17 DEF DisableNaked
  <2>2. ActiveTasks(r) = ActiveTasks(l) \ {p}
    BY <1>1, <1>10, <2>1, ProcessAssumption DEF ActiveTasks, Active, Enabled
  <2>3. n = 1
    <3>1. k = 1 => n = 1
      BY <1>2, <1>3, <1>5, <1>9, <1>17
    <3>2. k # 1 => k - 1 \in 1 .. n /\ k - 1 = k
      <4>1. k # 1 => k - 1 \in 1 .. n
        BY <1>5
      <4> QED BY <1>2, <1>3, <1>9, <1>17, <4>1
    <3> QED BY <3>1, <3>2
  <2>4. Follows(s, r, c)
    BY <1>11, <2>3 DEF Follows
  <2> QED BY <1>1, <1>3, <1>11, <1>15, <1>16, <2>2, <2>4 DEF Ordered, s
<1>18. CASE last # p
  <2>1. /\ r.next = [l.next EXCEPT ![last] = l.next[p]]
        /\ r.status = [l.status EXCEPT ![p] = "idle"]
    BY <1>18 DEF DisableNaked
  <2>2. ActiveTasks(r) = ActiveTasks(l) \ {p}
    BY <1>1, <1>10, <2>1 DEF ActiveTasks, Active, Enabled
  <2>3. /\ r.next[last] = l.next[p]
        /\ \A x \in Active(l) : x # last => r.next[x] = l.next[x]
    BY <1>7, <1>10, <2>1 DEF Active
  <2> HIDE DEF r, last
  <2>4. Follows(s, r, c)
    <3> SUFFICES ASSUME NEW i \in 1 .. n - 1
                 PROVE  s[i] = r.next[IF i = 1 THEN c ELSE s[i - 1]]
      BY <1>11 DEF Follows
    <3>1. CASE i = 1 /\ k = 1
      <4>1. s[1] = q[2] /\ 2 \in 2 .. n
        BY <1>5, <1>13, <3>1
      <4>2. q[2] = l.next[q[1]]
        BY <1>6, <4>1
      <4> QED BY <1>3, <1>5, <1>9, <2>3, <3>1, <4>1, <4>2
    <3>2. CASE i = 1 /\ k # 1
      <4>1. s[1] = q[1] /\ k - 1 \in 1 .. n /\ k - 1 # n /\ n \in 1 .. n
        BY <1>5, <1>13, <3>2
      <4>2. c # last
        BY <1>2, <1>5, <1>9, <3>2, <4>1
      <4> QED BY <1>1, <1>5, <2>3, <3>2, <4>1, <4>2
    <3>3. CASE i # 1 /\ i < k
      <4>1. /\ i \in 2 .. n /\ i - 1 \in 1 .. n /\ i - 1 # k - 1 /\ k # 1 /\ k - 1 \in 1 .. n
            /\ i - 1 < k /\ i - 1 \in 1 .. n - 1
        BY <1>5, <3>3
      <4>2. s[i] = q[i] /\ s[i - 1] = q[i - 1]
        BY <1>13, <3>3, <4>1
      <4>3. q[i - 1] # last /\ q[i - 1] \in Active(l) /\ q[i] = l.next[q[i - 1]]
        BY <1>2, <1>5, <1>6, <1>9, <4>1
      <4> QED BY <2>3, <3>3, <4>2, <4>3
    <3>4. CASE i # 1 /\ i = k
      <4>1. /\ k + 1 \in 2 .. n /\ (k + 1) - 1 = k /\ ~(i < k) /\ i - 1 < k
            /\ i - 1 \in 1 .. n - 1
        BY <1>5, <3>4
      <4>2. s[i] = q[k + 1] /\ s[i - 1] = q[k - 1]
        BY <1>13, <3>4, <4>1
      <4>3. q[k + 1] = l.next[p] /\ last = q[k - 1]
        BY <1>3, <1>6, <1>9, <3>4, <4>1
      <4> QED BY <2>3, <3>4, <4>2, <4>3
    <3>5. CASE i # 1 /\ i > k
      <4>1. /\ i + 1 \in 2 .. n /\ (i + 1) - 1 = i /\ ~(i < k) /\ ~(i - 1 < k)
            /\ i - 1 \in 1 .. n - 1 /\ (i - 1) + 1 = i /\ i \in 1 .. n
            /\ i # n /\ i # k - 1
        BY <1>5, <3>5
      <4>2. s[i] = q[i + 1] /\ s[i - 1] = q[i]
        BY <1>13, <4>1
      <4>3. q[i] # last
        <5>1. k # 1 => k - 1 \in 1 .. n
          BY <1>5
        <5>2. n \in 1 .. n
          BY <1>5
        <5> QED BY <1>2, <1>9, <4>1, <5>1, <5>2
      <4>4. q[i] \in Active(l) /\ q[i + 1] = l.next[q[i]]
        BY <1>5, <1>6, <4>1
      <4> QED BY <2>3, <3>5, <4>2, <4>3, <4>4
    <3> QED BY <1>5, <3>1, <3>2, <3>3, <3>4, <3>5
  <2> QED BY <1>1, <1>3, <1>11, <1>15, <1>16, <2>2, <2>4 DEF Ordered, s, r
<1> QED BY <1>17, <1>18

(***************************************************************************)
(* A pass of the scheduler moves the first of the order to the end.        *)
(***************************************************************************)
LEMMA VisitOrder ==
  ASSUME NEW l \in List, WellFormed(l), l.appType = "application",
         NEW c, l.next[c] \in Active(l), NEW q, Ordered(q, l, c)
  PROVE  IF q = <<>>
         THEN l.next[c] = App /\ Ordered(q, l, App)
         ELSE /\ l.next[c] = Head(q)
              /\ Ordered(Append(Tail(q), Head(q)), l, Head(q))
<1>1. /\ q \in Seq(Task) /\ IsInjective(q) /\ ToSet(q) = ActiveTasks(l)
      /\ Follows(q, l, c)
  BY DEF Ordered
<1>2. CASE q = <<>>
  BY <1>1, <1>2 DEF ToSet, ActiveTasks, Ordered, Follows
<1>3. CASE q # <<>>
  <2> DEFINE n == Len(q)
             t == Tail(q)
             h == Head(q)
             s == Append(t, h)
  <2>1. /\ n \in Nat \ {0} /\ l.next[c] = q[1] /\ l.next[q[n]] = q[1]
    BY <1>3, OrderCloses
  <2>2. \A i \in 2 .. n : q[i] = l.next[q[i - 1]]
    BY <1>1 DEF Follows
  <2>3. /\ h \in Task /\ h = q[1]
        /\ t \in Seq(Task) /\ Len(t) = n - 1
        /\ \A i \in 1 .. n - 1 : t[i] = q[i + 1]
    BY <1>1, <1>3, HeadTailProperties
  <2>4. /\ ToSet(q) = ToSet(t) \cup {h}
        /\ IsInjective(t) /\ h \notin ToSet(t)
    BY <1>1, <1>3, TailElements
  <2> HIDE DEF t, h
  <2>5. /\ s \in Seq(Task) /\ Len(s) = n /\ DOMAIN s = 1 .. n
        /\ \A i \in 1 .. n - 1 : s[i] = t[i]
        /\ s[n] = h
    <3>1. /\ s \in Seq(Task) /\ Len(s) = Len(t) + 1
          /\ \A i \in 1 .. Len(t) : s[i] = t[i]
          /\ s[Len(t) + 1] = h
      BY <2>3, AppendProperties
    <3> HIDE DEF s
    <3> QED BY <2>1, <2>3, <3>1
  <2> HIDE DEF s
  <2>6. \A i \in 1 .. n : (i \in 1 .. n - 1 /\ s[i] = q[i + 1]) \/ (i = n /\ s[i] = q[1])
    BY <2>1, <2>3, <2>5
  <2>7. DOMAIN t = 1 .. n - 1
    BY <2>3
  <2>8. ToSet(s) = ActiveTasks(l)
    <3>1. \A i \in 1 .. n : i \in 1 .. n - 1 \/ i = n
      BY <2>1
    <3>2. 1 .. n - 1 \subseteq 1 .. n /\ n \in 1 .. n
      BY <2>1
    <3> QED BY <1>1, <2>4, <2>5, <2>7, <3>1, <3>2 DEF ToSet
  <2>9. IsInjective(s)
    <3>1. \A i \in 1 .. n : i \in 1 .. n - 1 \/ i = n
      BY <2>1
    <3> QED BY <2>4, <2>5, <2>7, <3>1 DEF IsInjective, ToSet
  <2>10. Follows(s, l, h)
    <3> SUFFICES ASSUME NEW i \in 1 .. n
                 PROVE  s[i] = l.next[IF i = 1 THEN h ELSE s[i - 1]]
      BY <2>5 DEF Follows
    <3>1. (IF i = 1 THEN h ELSE s[i - 1]) = q[i]
      <4>1. CASE i = 1
        BY <2>3, <4>1
      <4>2. CASE i # 1
        <5>1. i - 1 \in 1 .. n - 1 /\ i - 1 \in 1 .. n /\ (i - 1) + 1 = i
          BY <2>1, <4>2
        <5>2. s[i - 1] = q[(i - 1) + 1]
          BY <2>3, <2>5, <5>1
        <5> QED BY <4>2, <5>1, <5>2
      <4> QED BY <4>1, <4>2
    <3>2. CASE i = n
      BY <2>1, <2>6, <3>1, <3>2
    <3>3. CASE i # n
      <4>1. i \in 1 .. n - 1 /\ i + 1 \in 2 .. n /\ (i + 1) - 1 = i
        BY <2>1, <3>3
      <4>2. s[i] = q[i + 1]
        BY <2>3, <2>5, <4>1
      <4>3. q[i + 1] = l.next[q[(i + 1) - 1]]
        BY <2>2, <4>1
      <4> QED BY <3>1, <4>1, <4>2, <4>3
    <3> QED BY <3>2, <3>3
  <2>11. Ordered(s, l, h)
    BY <2>5, <2>8, <2>9, <2>10 DEF Ordered
  <2> QED BY <1>3, <2>1, <2>3, <2>11 DEF s, t, h
<1> QED BY <1>2, <1>3

(***************************************************************************)
(* The list always has an order: with KernelInv this is inductive, and it  *)
(* is what a step of the list needs to be a step of the queue.             *)
(***************************************************************************)
OrderInv == KernelInv /\ Ordered(Order, list, cur)

LEMMA InitOrder == Init => OrderInv /\ RQ!Init
<1> SUFFICES ASSUME Init PROVE OrderInv /\ RQ!Init
  OBVIOUS
<1>1. KernelInv /\ list = InitList /\ cur = App
  BY InitKernelInv DEF Init
<1>2. Ordered(<<>>, list, cur)
  BY <1>1, InitListOK DEF Ordered, Follows, ActiveTasks, ToSet, IsInjective
<1>3. Order = <<>>
  BY <1>2, OrderIs DEF Order
<1> QED BY <1>1, <1>2, <1>3 DEF OrderInv, RQ!Init

\* A step that leaves the list and the current process alone.
LEMMA OrderStays ==
  ASSUME OrderInv, KernelInv', list' = list, cur' = cur
  PROVE  OrderInv' /\ UNCHANGED RQ!vars
<1>1. Order' = Order
  BY DEF Order
<1> QED BY <1>1 DEF OrderInv, RQ!vars

\* An edit of the list that enables a task, from any list that has the order.
LEMMA OrderEnter ==
  ASSUME OrderInv, KernelInv', cur' = cur,
         NEW l \in List, WellFormed(l), l.appType = "application",
         cur \in Active(l) \cup {App}, l.next[cur] \in Active(l),
         Ordered(Order, l, cur),
         NEW p \in Task, ~Enabled(l, p), list' = EnableNaked(l, cur, p)
  PROVE  /\ OrderInv' /\ RQ!Enter(p)
         /\ Order' = InsertAt(Order, PlaceInOrder(Order, cur), p)
         /\ \A t \in Task : Enabled(list', t) => t = p \/ Enabled(l, t)
<1> DEFINE k == PlaceInOrder(Order, cur)
           s == InsertAt(Order, k, p)
<1>1. p \notin ToSet(Order) /\ k \in 1 .. Len(Order) + 1 /\ Ordered(s, list', cur)
  BY EnterOrder
<1> HIDE DEF k
<1>2. OrderAfter(list', cur) = s
  BY <1>1, OrderIs
<1>3. Order' = s
  BY <1>2 DEF Order
<1>4. s = RQ!InsertAt(Order, k, p)
  BY DEF RQ!InsertAt, InsertAt
<1> HIDE DEF s
<1>5. p \notin RQ!ToSet(Order)
  BY <1>1 DEF RQ!ToSet, ToSet
<1>6. OrderInv' /\ RQ!Enter(p)
  BY <1>1, <1>3, <1>4, <1>5 DEF OrderInv, RQ!Enter
<1>7. ASSUME NEW t \in Task, Enabled(list', t), t # p
      PROVE  Enabled(l, t)
  <2>1. /\ l.status \in [Proc -> Status] /\ t \in Proc /\ t # App
        /\ p \in Proc
    BY DEF List, Task
  <2>2. \/ list'.status = [l.status EXCEPT ![App] = "idle", ![p] = "active"]
        \/ list'.status = [l.status EXCEPT ![p] = "active"]
    BY DEF EnableNaked
  <2> QED BY <1>7, <2>1, <2>2 DEF Enabled
<1> QED BY <1>3, <1>6, <1>7 DEF s, k

(***************************************************************************)
(* Every step of the kernel is a step of the queue or changes nothing in   *)
(* it, one lemma step per action that edits the list or moves the turn.    *)
(***************************************************************************)
LEMMA StepOrder ==
  ASSUME ~AppMayDisable, OrderInv, [Next]_vars
  PROVE  OrderInv' /\ [RQ!Next]_RQ!vars /\ Enters
<1>1. KernelInv /\ KernelInv' /\ Ordered(Order, list, cur)
  BY StepKernelInv DEF OrderInv
<1>2. /\ list \in List /\ WellFormed(list) /\ list.appType = "application"
      /\ list.next[cur] \in Active(list)
  BY <1>1 DEF KernelInv, TypeOK
<1>3. ASSUME NEW p \in Task, NEW enable \in BOOLEAN, Create(p, enable)
      PROVE  OrderInv' /\ [RQ!Next]_RQ!vars /\ Enters
  <2> DEFINE fresh == ProcessCreate(list, p)
  <2>1. mode = "run" /\ ~Enabled(list, p) /\ cur' = cur
    BY <1>1, <1>3 DEF KernelInv, Create, Calling
  <2>2. cur \in Active(list) \cup {App}
    BY <1>1, <2>1, KernelRunning
  <2>3. /\ fresh \in List /\ WellFormed(fresh)
        /\ fresh.next = list.next
        /\ fresh.appType = "application"
        /\ Active(fresh) = Active(list)
    BY <1>2, <2>1, FreshKeeps
  <2> HIDE DEF fresh
  <2>4. Ordered(Order, fresh, cur)
    BY <1>1, <2>3 DEF Ordered, ActiveTasks, Follows
  <2>5. ~Enabled(fresh, p)
    BY <2>1, <2>3 DEF Active, Task
  <2>6. CASE enable
    <3>1. list' \in {list, Enable(fresh, cur, p)} /\ mode' # "hung"
      BY <1>1, <1>3, <2>6 DEF Create, Edit, KernelInv, fresh
    <3>2. list' = EnableNaked(fresh, cur, p)
      BY <1>3, <2>5, <2>6, <3>1 DEF Create, Edit, Enable, fresh
    <3>3. /\ OrderInv' /\ RQ!Enter(p)
          /\ Order' = InsertAt(Order, PlaceInOrder(Order, cur), p)
          /\ \A t \in Task : Enabled(list', t) => t = p \/ Enabled(fresh, t)
      BY <1>1, <1>2, <2>1, <2>2, <2>3, <2>4, <2>5, <3>2, OrderEnter
    <3>4. Enters
      BY <2>3, <3>3 DEF Enters, Active, Task
    <3> QED BY <3>3, <3>4 DEF RQ!Next
  <2>7. CASE ~enable
    <3>1. list' = fresh
      BY <1>3, <2>7 DEF Create, fresh
    <3>2. OrderAfter(list', cur) = Order
      BY <2>4, <3>1, OrderIs
    <3>3. Order' = Order
      BY <2>1, <3>2 DEF Order
    <3>4. Enters
      BY <2>3, <3>1 DEF Enters, Active, Task
    <3> QED BY <1>1, <2>1, <2>4, <3>1, <3>3, <3>4 DEF OrderInv, RQ!vars
  <2> QED BY <2>6, <2>7
<1>4. ASSUME NEW p \in Task, EnableCall(p)
      PROVE  OrderInv' /\ [RQ!Next]_RQ!vars /\ Enters
  <2>1. mode = "run" /\ cur' = cur /\ mode' # "hung"
    BY <1>1, <1>4 DEF KernelInv, EnableCall, Calling
  <2>2. cur \in Active(list) \cup {App}
    BY <1>1, <2>1, KernelRunning
  <2>3. list' = Enable(list, cur, p)
    BY <1>4, <2>1 DEF EnableCall, Edit
  <2>4. CASE Enabled(list, p)
    <3>1. list' = list
      BY <2>3, <2>4 DEF Enable
    <3> QED BY <1>1, <2>1, <3>1, OrderStays DEF OrderInv, Enters
  <2>5. CASE ~Enabled(list, p)
    <3>1. list' = EnableNaked(list, cur, p)
      BY <2>3, <2>5 DEF Enable
    <3>2. /\ OrderInv' /\ RQ!Enter(p)
          /\ Order' = InsertAt(Order, PlaceInOrder(Order, cur), p)
          /\ \A t \in Task : Enabled(list', t) => t = p \/ Enabled(list, t)
      BY <1>1, <1>2, <2>1, <2>2, <2>5, <3>1, OrderEnter
    <3>3. Enters
      BY <3>2 DEF Enters
    <3> QED BY <3>2, <3>3 DEF RQ!Next
  <2> QED BY <2>4, <2>5
<1>5. ASSUME NEW p \in Task, DisableCall(p)
      PROVE  OrderInv' /\ [RQ!Next]_RQ!vars /\ Enters
  <2>1. mode = "run" /\ cur' = cur /\ mode' # "hung" /\ cur # App
    BY <1>1, <1>5 DEF KernelInv, DisableCall, Calling
  <2>2. cur \in Task /\ Enabled(list, cur)
    BY <1>1, <2>1, KernelRunning DEF KernelInv, TypeOK, Task
  <2>3. list' = Disable(list, p)
    BY <1>5, <2>1 DEF DisableCall, Edit
  <2>4. CASE ~Enabled(list, p)
    <3>1. list' = list
      BY <2>3, <2>4 DEF Disable
    <3> QED BY <1>1, <2>1, <3>1, OrderStays DEF OrderInv, Enters
  <2>5. CASE Enabled(list, p)
    <3>1. list' = DisableNaked(list, p)
      BY <2>3, <2>5 DEF Disable
    <3>2. PICK k \in 1 .. Len(Order) :
             Order[k] = p /\ Ordered(RemoveAt(Order, k), list', cur)
      BY <1>1, <1>2, <2>2, <2>5, <3>1, LeaveOrder
    <3>3. OrderAfter(list', cur) = RemoveAt(Order, k)
      BY <3>2, OrderIs
    <3>4. Order' = RemoveAt(Order, k)
      BY <2>1, <3>3 DEF Order
    <3>5. RQ!Leave(p)
      BY <2>1, <3>2, <3>4 DEF RQ!Leave, RQ!RemoveAt, RemoveAt
    <3>6. ASSUME NEW t \in Task, Enabled(list', t) PROVE Enabled(list, t)
      <4>1. list.status \in [Proc -> Status] /\ t \in Proc /\ t # App
        BY <1>2 DEF List, Task
      <4>2. \/ list'.status = [list.status EXCEPT ![App] = "active", ![p] = "idle"]
            \/ list'.status = [list.status EXCEPT ![p] = "idle"]
        BY <3>1 DEF DisableNaked
      <4> QED BY <2>5, <3>6, <4>1, <4>2 DEF Enabled
    <3>7. Enters
      BY <3>6 DEF Enters
    <3> QED BY <1>1, <2>1, <3>2, <3>4, <3>5, <3>7 DEF OrderInv, RQ!Next
  <2> QED BY <2>4, <2>5
<1>6. CASE Schedule
  <2>1. list' = list /\ cur' = list.next[cur]
    BY <1>6 DEF Schedule
  <2>2. CASE Order = <<>>
    <3>1. cur' = App /\ Ordered(Order, list, App)
      BY <1>1, <1>2, <2>1, <2>2, VisitOrder
    <3>2. Order' = Order
      BY <2>1, <3>1, OrderIs DEF Order
    <3>3. RQ!Visit
      BY <2>2, <3>1, <3>2 DEF RQ!Visit
    <3> QED BY <1>1, <2>1, <3>1, <3>2, <3>3 DEF OrderInv, RQ!Next, Enters
  <2>3. CASE Order # <<>>
    <3> DEFINE s == Append(Tail(Order), Head(Order))
    <3>1. cur' = Head(Order) /\ Ordered(s, list, Head(Order))
      BY <1>1, <1>2, <2>1, <2>3, VisitOrder
    <3> HIDE DEF s
    <3>2. OrderAfter(list', cur') = s
      BY <2>1, <3>1, OrderIs
    <3>3. Order' = s
      BY <3>2 DEF Order
    <3>4. RQ!Visit
      BY <2>3, <3>1, <3>3 DEF RQ!Visit, s
    <3> QED BY <1>1, <2>1, <3>1, <3>3, <3>4 DEF OrderInv, RQ!Next, Enters
  <2> QED BY <2>2, <2>3
<1>7. ASSUME list' = list, cur' = cur
      PROVE  OrderInv' /\ [RQ!Next]_RQ!vars /\ Enters
  BY <1>1, <1>7, OrderStays DEF OrderInv, Enters
<1>8. ASSUME NEW p \in Task, NEW v \in Level, SetPriority(p, v)
      PROVE  list' = list /\ cur' = cur
  BY <1>8 DEF SetPriority
<1>9. CASE SetPriorityCounter \/ Yield \/ Start \/ Tick \/ UNCHANGED vars
  BY <1>7, <1>9 DEF SetPriorityCounter, Yield, Start, Tick, vars
<1> QED BY <1>3, <1>4, <1>5, <1>6, <1>7, <1>8, <1>9 DEF Next

(***************************************************************************)
(* The active process list implements the queue of RunQueue: no call and   *)
(* no tick, in any order, loses, doubles or reorders a task, whatever the  *)
(* configuration.                                                          *)
(***************************************************************************)
THEOREM KernelImplementsQueue == ~AppMayDisable => (Spec => ImplementsRunQueue)
<1> SUFFICES ASSUME ~AppMayDisable PROVE Spec => ImplementsRunQueue
  OBVIOUS
<1>1. Init => OrderInv /\ RQ!Init
  BY InitOrder
<1>2. OrderInv /\ [Next]_vars => OrderInv' /\ [RQ!Next]_RQ!vars
  BY StepOrder
<1> QED BY <1>1, <1>2, PTL DEF Spec, RQ!Spec, ImplementsRunQueue

(***************************************************************************)
(* Where __os_process_enable_naked puts a task depends on FIFO and on who  *)
(* calls, as PlaceInOrder says: at the end only for a caller off the list. *)
(***************************************************************************)
THEOREM KernelEnters == ~AppMayDisable => (Spec => EntersAtPlace)
<1> SUFFICES ASSUME ~AppMayDisable PROVE Spec => EntersAtPlace
  OBVIOUS
<1>1. Init => OrderInv
  BY InitOrder
<1>2. OrderInv /\ [Next]_vars => OrderInv' /\ [Enters]_vars
  BY StepOrder
<1> QED BY <1>1, <1>2, PTL DEF Spec, EntersAtPlace
=============================================================================
