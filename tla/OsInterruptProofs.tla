-------------------------- MODULE OsInterruptProofs --------------------------
(***************************************************************************)
(* The safety properties of OsInterrupt for every set of tasks, every      *)
(* number of levels and both insertion points, as long as a handler makes  *)
(* at most one call that enables a process (a second one may lose the      *)
(* first, see the README), and main() disables no task.                    *)
(*                                                                         *)
(* KernelInv does not hold here: a handler runs off the list, and after    *)
(* its call the process behind it may be os_app, off the list as well.     *)
(* BackInv is inductive: it says where the running process is, and that    *)
(* one or two steps along the pointers lead back to the list.              *)
(***************************************************************************)
EXTENDS OsInterrupt, OsCoreProofs

\* The handler has emptied the list and then enabled a process: the process
\* after it is os_app, and the one after that is active.
BehindApp ==
  /\ cur \in Interrupt /\ at[cur] # "entry"
  /\ list.next[cur] = App /\ list.next[App] \in Active(list)
  /\ at[cur] = "inside" => calls = HandlerCalls
  /\ \A i \in Interrupt : at[i] # "entry"

BackInv ==
  /\ InterruptTypeOK
  /\ WellFormed(list)
  /\ list.appType = "application"
  /\ mode # "hung"
  /\ \A p \in Task : Enabled(list, p) => p \in created
  /\ list.next[cur] \in Active(list) \/ BehindApp
  /\ mode = "run" => \/ Enabled(list, cur)
                     \/ cur = App
                     \/ cur \in Interrupt /\ at[cur] = "inside"
  /\ mode = "run" /\ cur \in Interrupt => at[cur] # "out"
  /\ \A i \in Interrupt :
       /\ sp[i] <=> at[i] # "out"
       /\ at[i] = "entry" => Enabled(list, i)
       /\ at[i] = "inside" => cur = i /\ mode = "run"

\* In the cooperative build an interrupt that has started runs to its end:
\* nobody is picked meanwhile.
UninterruptedInv ==
  /\ at \in [Interrupt -> {"out", "entry", "inside"}]
  /\ \A i \in Interrupt : at[i] # "out" => cur = i /\ mode # "sched" /\ frame = i

(***************************************************************************)
(* Enabling a process from a handler, which is not on the list: the list   *)
(* stays one cycle, and the pointer of the handler leads back to it, over  *)
(* os_app when the process enabled has just taken the place of os_app.     *)
(***************************************************************************)
LEMMA EnableOffList ==
  ASSUME NEW l \in List, WellFormed(l), l.appType = "application",
         NEW c \in Task, ~Enabled(l, c), l.next[c] \in Active(l), NEW p \in Task
  PROVE  LET r == Enable(l, c, p) IN
         /\ ~EnableHangs(l, c, p)
         /\ r \in List /\ WellFormed(r)
         /\ r.appType = "application"
         /\ \A q \in Task : Enabled(r, q) <=> Enabled(l, q) \/ q = p
         /\ \/ r.next[c] \in Active(r)
            \/ r.next[c] = App /\ r.next[App] \in Active(r) /\ Enabled(l, App)
<1>1. CASE Enabled(l, p)
  BY <1>1 DEF Enable, EnableHangs
<1>2. CASE ~Enabled(l, p)
  <2> DEFINE d == Pred(l.next, l.next[c])
             last == InsertionPoint(l, c)
             r == Enable(l, c, p)
  <2>1. d \in Active(l) /\ l.next[d] = l.next[c]
    BY PredOfActive DEF WellFormed
  <2>2. /\ InsertionPoint(l, d) = last
        /\ r = Enable(l, d, p)
        /\ EnableHangs(l, c, p) <=> EnableHangs(l, d, p)
    BY <2>1 DEF InsertionPoint, Enable, EnableNaked, EnableHangs, InsertionFound
  <2>3. /\ ~EnableHangs(l, c, p)
        /\ r \in List /\ WellFormed(r)
        /\ r.appType = "application"
        /\ \A q \in Task : Enabled(r, q) <=> Enabled(l, q) \/ q = p
    <3>1. d \in Active(l) \cup {App} /\ l.next[d] \in Active(l)
      BY <2>1
    <3> HIDE DEF d, r
    <3> QED BY <2>2, <3>1, EnableKeeps
  <2>4. /\ last \in Active(l) /\ last \in Proc /\ c \in Proc /\ p \in Proc
        /\ c # last /\ c # App /\ p # App /\ App \in Proc
    BY InsertionPointActive, ProcessAssumption DEF WellFormed, Task, Active
  <2>5. l.next \in [Proc -> Proc \cup {Null}] /\ r = EnableNaked(l, c, p)
    BY <1>2 DEF List, Enable
  <2>6. CASE IsApplication(l, last)
    <3>1. last = App /\ l.next[c] = App
      BY <2>4, <2>6 DEF IsApplication, WellFormed, AppAlone, Active
    <3>2. r.next = [l.next EXCEPT ![p] = p, ![App] = p]
      BY <2>5, <2>6, <3>1 DEF EnableNaked
    <3>3. p \in Active(r)
      BY <2>3, <2>4 DEF Active
    <3> HIDE DEF r
    <3>4. r.next[App] = p /\ (c = p => r.next[c] = p) /\ (c # p => r.next[c] = App)
      BY <2>4, <2>5, <3>1, <3>2
    <3>5. \/ r.next[c] \in Active(r)
          \/ r.next[c] = App /\ r.next[App] \in Active(r)
      BY <3>3, <3>4
    <3>6. Enabled(l, App)
      BY <2>4, <3>1 DEF Active
    <3> QED BY <2>3, <3>5, <3>6 DEF r
  <2>7. CASE ~IsApplication(l, last)
    <3>1. r.next = [l.next EXCEPT ![p] = l.next[last], ![last] = p]
      BY <2>5, <2>7 DEF EnableNaked
    <3>2. ~Enabled(l, App)
      BY <2>4, <2>7 DEF IsApplication, WellFormed, AppAlone, Active
    <3>3. Active(l) \subseteq Active(r)
      BY <2>3, <3>2 DEF Active, Task
    <3>4. l.next[last] \in Active(l)
      BY <2>4 DEF WellFormed, OneCycle
    <3> HIDE DEF r
    <3>5. r.next[c] \in {l.next[last], l.next[c]}
      BY <2>4, <2>5, <3>1
    <3>6. r.next[c] \in Active(r)
      BY <3>3, <3>4, <3>5
    <3> QED BY <2>3, <3>6 DEF r
  <2> QED BY <2>6, <2>7
<1> QED BY <1>1, <1>2

(***************************************************************************)
(* A process that is on the list, or os_app while it runs, finds the       *)
(* kernel as OsCore has it; so does the scheduler, but for the pass after  *)
(* such a handler.                                                         *)
(***************************************************************************)
LEMMA BackIsKernel ==
  ASSUME BackInv, list.next[cur] \in Active(list),
         mode = "run" => cur \notin Interrupt \/ at[cur] # "inside"
  PROVE  KernelInv
BY DEF BackInv, InterruptTypeOK, KernelInv, OnlyEnabledRuns

LEMMA TaskIsKernel ==
  ASSUME BackInv, mode = "run",
         cur \notin Interrupt \/ at[cur] = "entry"
  PROVE  KernelInv
<1>1. list.next[cur] \in Active(list)
  BY DEF BackInv, BehindApp
<1> QED BY <1>1, BackIsKernel

(***************************************************************************)
(* A step of such a process that is a step of the kernel core, and takes   *)
(* no interrupt off the list.                                              *)
(***************************************************************************)
LEMMA KernelIsBack ==
  ASSUME BackInv, KernelInv', mode = "run", cur' = cur, UNCHANGED context,
         cur \notin Interrupt \/ at[cur] = "entry",
         \A i \in Interrupt : Enabled(list, i) => Enabled(list', i)
  PROVE  BackInv'
<1>1. \A i \in Interrupt : at[i] # "inside"
  BY DEF BackInv
<1>2. UNCHANGED <<at, sp, frame, calls>>
  BY DEF context
<1>3. InterruptTypeOK'
  BY <1>2 DEF BackInv, InterruptTypeOK, KernelInv
<1> QED
  BY <1>1, <1>2, <1>3 DEF BackInv, KernelInv, OnlyEnabledRuns

LEMMA InitBackInv == InterruptInit => BackInv
<1> SUFFICES ASSUME InterruptInit PROVE BackInv
  OBVIOUS
<1>1. KernelInv
  BY InitKernelInv DEF InterruptInit
<1>2. InterruptTypeOK
  BY <1>1, InterruptAssumption DEF InterruptInit, InterruptTypeOK, KernelInv
<1>3. \A i \in Interrupt : ~sp[i] /\ at[i] = "out"
  BY DEF InterruptInit
<1>4. cur = App /\ cur \notin Interrupt
  BY InterruptAssumption DEF InterruptInit, Init, Task
<1> QED BY <1>1, <1>2, <1>3, <1>4 DEF KernelInv, BackInv

(***************************************************************************)
(* The calls of tasks and of os_app, and the tick.                         *)
(***************************************************************************)
LEMMA CallKeepsBack ==
  ASSUME ~AppMayDisable, BackInv,
         CallOfTask \/ TickUnmasked
           \/ \E i \in Interrupt : cur \notin Interrupt /\ Trigger(i)
  PROVE  BackInv'
<1>1. /\ mode = "run" /\ UNCHANGED context
      /\ cur \notin Interrupt \/ at[cur] = "entry"
  <2>1. CASE CallOfTask
    BY <2>1 DEF CallOfTask, Create, EnableCall, DisableCall, SetPriority,
                SetPriorityCounter, Start, Yield, Calling
  <2>2. CASE TickUnmasked
    BY <2>2 DEF TickUnmasked, Tick, BackInv, InterruptTypeOK
  <2>3. CASE \E i \in Interrupt : cur \notin Interrupt /\ Trigger(i)
    BY <2>3 DEF Trigger, EnableCall, Calling
  <2> QED BY <2>1, <2>2, <2>3
<1>2. KernelInv
  BY <1>1, TaskIsKernel
<1>3. Interrupt \subseteq Task
  BY InterruptAssumption
<1>4. ASSUME NEW p \in Task, EnableCall(p) \/ Create(p, TRUE) PROVE BackInv'
  <2>1. /\ KernelInv' /\ cur' = cur
        /\ \A q \in Task : Enabled(list, q) => Enabled(list', q)
    BY <1>2, <1>4, EnableCallKeeps, CreateKeeps DEF EnableCall, Create
  <2> QED BY <1>1, <1>3, <2>1, KernelIsBack
<1>5. ASSUME NEW p \in Task \ Interrupt, cur \notin Interrupt, DisableCall(p)
      PROVE  BackInv'
  <2>1. cur \in Task
    BY <1>2, <1>5 DEF DisableCall, KernelInv, TypeOK, Task
  <2>2. /\ KernelInv' /\ cur' = cur
        /\ \A q \in Task : Enabled(list', q) <=> Enabled(list, q) /\ q # p
    BY <1>2, <1>5, <2>1, DisableCallKeeps DEF DisableCall
  <2> QED BY <1>1, <1>3, <2>2, KernelIsBack
<1>6. ASSUME [Next]_vars, list' = list, cur' = cur PROVE BackInv'
  <2>1. KernelInv'
    BY <1>2, <1>6, StepKernelInv
  <2> QED BY <1>1, <1>6, <2>1, KernelIsBack
<1>7. ASSUME NEW i \in Interrupt, NEW v \in Level, SetPriority(i, v)
      PROVE  BackInv'
  BY <1>3, <1>6, <1>7 DEF Next, SetPriority
<1>8. CASE SetPriorityCounter \/ Start \/ Yield \/ Tick
  BY <1>6, <1>8 DEF Next, SetPriorityCounter, Start, Yield, Tick
<1>9. CASE CallOfTask
  BY <1>3, <1>4, <1>5, <1>7, <1>8, <1>9 DEF CallOfTask
<1>10. CASE TickUnmasked
  BY <1>8, <1>10 DEF TickUnmasked
<1>11. CASE \E i \in Interrupt : cur \notin Interrupt /\ Trigger(i)
  BY <1>3, <1>4, <1>11 DEF Trigger
<1> QED BY <1>9, <1>10, <1>11

LEMMA CreateInterruptKeepsBack ==
  ASSUME BackInv, NEW i \in Interrupt, CreateInterrupt(i)
  PROVE  BackInv'
<1>1. /\ mode = "run" /\ cur \notin Interrupt /\ i \in Task \ created
      /\ created' = created \cup {i}
      /\ list' = ProcessCreate(list, i)
      /\ prio' = [prio EXCEPT ![i] = 0]
      /\ pcnt' = [pcnt EXCEPT ![i] = 0]
      /\ UNCHANGED <<cur, mode, started, write, at, frame, calls>>
  BY InterruptAssumption DEF CreateInterrupt, Calling
<1>2. KernelInv /\ ~Enabled(list, i)
  BY <1>1, TaskIsKernel DEF BackInv
<1>3. /\ list \in List /\ WellFormed(list)
      /\ list.appType = "application"
      /\ list.next[cur] \in Active(list)
  BY <1>1, <1>2, KernelRunning
<1>4. /\ list' \in List /\ WellFormed(list')
      /\ list'.appType = "application"
      /\ list'.next = list.next
      /\ Active(list') = Active(list)
  BY <1>1, <1>2, <1>3, FreshKeeps
<1>5. \A p \in Proc : Enabled(list', p) <=> Enabled(list, p)
  BY <1>4 DEF Active
<1>6. TypeOK'
  <2>1. 0 \in Level
    BY CoreAssumption DEF Level
  <2> QED BY <1>1, <1>2, <1>4, <2>1 DEF KernelInv, TypeOK
<1>7. KernelInv'
  <2>1. cur \in Proc
    BY <1>2 DEF KernelInv, TypeOK
  <2> QED
    BY <1>1, <1>2, <1>3, <1>4, <1>5, <1>6, <2>1
       DEF KernelInv, OnlyEnabledRuns, Task
<1>8. ~sp[i]
  <2>1. at[i] = "out"
    BY <1>1, <1>2 DEF BackInv, InterruptTypeOK
  <2> QED BY <2>1 DEF BackInv
<1>9. UNCHANGED context
  <2>1. sp \in [Interrupt -> BOOLEAN] /\ sp' = [sp EXCEPT ![i] = FALSE]
    BY DEF CreateInterrupt, BackInv, InterruptTypeOK
  <2>2. sp' = sp
    BY <1>8, <2>1
  <2> QED BY <1>1, <2>2 DEF context
<1>10. \A j \in Interrupt : Enabled(list, j) => Enabled(list', j)
  BY <1>5, InterruptAssumption DEF Task
<1> QED BY <1>1, <1>7, <1>9, <1>10, KernelIsBack

(***************************************************************************)
(* The handler: it takes its process off the list, calls, and switches.    *)
(***************************************************************************)
LEMMA EnterKeepsBack ==
  ASSUME BackInv, NEW i \in Interrupt, HandlerEnter(i)
  PROVE  BackInv'
<1>1. /\ mode = "run" /\ cur = i /\ at[i] = "entry" /\ i \in Task
      /\ Enabled(list, i)
      /\ at' = [at EXCEPT ![i] = "inside"]
      /\ calls' = 0
      /\ UNCHANGED <<cur, started, created, prio, pcnt, write, sp, frame>>
  BY InterruptAssumption DEF HandlerEnter, BackInv
<1>2. KernelInv /\ list \in List
  BY <1>1, TaskIsKernel DEF KernelInv, TypeOK
<1>3. /\ HasPred(list.next, i)
      /\ list' = DisableNaked(list, i) /\ mode' = "run"
      /\ list' \in List /\ WellFormed(list')
      /\ list'.appType = "application"
      /\ ~Enabled(list', i)
      /\ Active(list') \subseteq Active(list) \cup {App}
      /\ \A q \in Task \ {i} : Enabled(list, q) => Enabled(list', q)
      /\ list'.next[i] \in Active(list')
  BY <1>1, <1>2, ProcessAssumption, DisableNakedKeeps
     DEF KernelInv, HandlerEnter, Edit
<1>4. \A q \in Task : Enabled(list', q) <=> Enabled(list, q) /\ q # i
  BY <1>3 DEF Active, Task
<1>5. /\ at' \in [Interrupt -> {"out", "entry", "inside"}]
      /\ at'[i] = "inside"
      /\ \A j \in Interrupt \ {i} : at'[j] = at[j]
  BY <1>1 DEF BackInv, InterruptTypeOK
<1>6. calls' \in 0 .. HandlerCalls
  BY <1>1, InterruptAssumption
<1>7. InterruptTypeOK'
  BY <1>1, <1>2, <1>3, <1>5, <1>6
     DEF KernelInv, TypeOK, BackInv, InterruptTypeOK
<1>8. \A j \in Interrupt :
        /\ sp'[j] <=> at'[j] # "out"
        /\ at'[j] = "entry" => Enabled(list', j)
        /\ at'[j] = "inside" => cur' = j /\ mode' = "run"
  BY <1>1, <1>3, <1>4, <1>5, InterruptAssumption DEF BackInv
<1>9. \A q \in Task : Enabled(list', q) => q \in created'
  BY <1>1, <1>4 DEF BackInv
<1> QED BY <1>1, <1>3, <1>5, <1>7, <1>8, <1>9 DEF BackInv

LEMMA HandlerCallKeepsBack ==
  ASSUME HandlerCalls \in 0 .. 1, BackInv,
         NEW i \in Interrupt, NEW p \in Task, HandlerCall(i, p)
  PROVE  BackInv'
<1>1. /\ mode = "run" /\ cur = i /\ at[i] = "inside" /\ i \in Task
      /\ p \in created
      /\ calls < HandlerCalls /\ calls' = calls + 1 /\ calls \in Nat
      /\ UNCHANGED <<cur, started, created, prio, pcnt, write, at, sp, frame>>
  BY InterruptAssumption
     DEF HandlerCall, EnableCall, Calling, BackInv, InterruptTypeOK
<1>2. calls = 0 /\ calls' = HandlerCalls
  BY <1>1
<1>3. /\ list \in List /\ WellFormed(list)
      /\ list.appType = "application"
      /\ list.next[i] \in Active(list)
      /\ i \in Active(list) \/ ~Enabled(list, i)
  BY <1>1, <1>2 DEF BackInv, BehindApp, InterruptTypeOK, TypeOK, Active
<1> DEFINE r == Enable(list, i, p)
<1>4. /\ ~EnableHangs(list, i, p)
      /\ r \in List /\ WellFormed(r)
      /\ r.appType = "application"
      /\ \A q \in Task : Enabled(r, q) <=> Enabled(list, q) \/ q = p
      /\ \/ r.next[i] \in Active(r)
         \/ r.next[i] = App /\ r.next[App] \in Active(r) /\ Enabled(list, App)
  <2>1. CASE i \in Active(list)
    <3>1. i \in Active(list) \cup {App}
      BY <2>1
    <3> QED BY <1>3, <3>1, EnableKeeps
  <2>2. CASE ~Enabled(list, i)
    BY <1>1, <1>3, <2>2, EnableOffList
  <2> QED BY <1>3, <2>1, <2>2
<1> HIDE DEF r
<1>5. list' = r /\ mode' = "run"
  BY <1>1, <1>4 DEF HandlerCall, EnableCall, Edit, r
<1>6. calls' \in 0 .. HandlerCalls
  BY <1>2
<1>7. InterruptTypeOK'
  BY <1>1, <1>4, <1>5, <1>6 DEF BackInv, InterruptTypeOK, TypeOK
<1>8. list'.next[cur'] \in Active(list') \/ BehindApp'
  <2>1. CASE Enabled(list, App)
    <3>1. \A j \in Interrupt : at'[j] # "entry"
      BY <1>1, <1>3, <2>1, InterruptAssumption
         DEF BackInv, WellFormed, AppAlone, Active, Task
    <3> QED BY <1>1, <1>2, <1>4, <1>5, <3>1 DEF BehindApp
  <2>2. CASE ~Enabled(list, App)
    BY <1>1, <1>4, <1>5, <2>2
  <2> QED BY <2>1, <2>2
<1>9. \A q \in Task : Enabled(list', q) => q \in created'
  BY <1>1, <1>4, <1>5 DEF BackInv
<1>10. \A j \in Interrupt :
        /\ sp'[j] <=> at'[j] # "out"
        /\ at'[j] = "entry" => Enabled(list', j)
        /\ at'[j] = "inside" => cur' = j /\ mode' = "run"
  BY <1>1, <1>4, <1>5, InterruptAssumption DEF BackInv
<1> QED BY <1>1, <1>4, <1>5, <1>7, <1>8, <1>9, <1>10 DEF BackInv

LEMMA EndKeepsBack ==
  ASSUME BackInv, NEW i \in Interrupt, HandlerEnd(i)
  PROVE  BackInv'
<1>1. /\ cur = i /\ at[i] = "inside" /\ mode' = "sched"
      /\ sp' = [j \in Interrupt |-> sp[j] /\ j # i]
      /\ at' = [at EXCEPT ![i] = "out"]
      /\ UNCHANGED <<list, cur, started, created, prio, pcnt, write, frame, calls>>
  BY DEF HandlerEnd, SwitchContext, Unload
<1>2. /\ at' \in [Interrupt -> {"out", "entry", "inside"}]
      /\ at'[i] = "out" /\ \A j \in Interrupt \ {i} : at'[j] = at[j]
  BY <1>1 DEF BackInv, InterruptTypeOK
<1>3. sp' \in [Interrupt -> BOOLEAN]
  BY <1>1
<1>4. InterruptTypeOK'
  BY <1>1, <1>2, <1>3 DEF BackInv, InterruptTypeOK, TypeOK
<1>5. list'.next[cur'] \in Active(list') \/ BehindApp'
  BY <1>1, <1>2 DEF BackInv, BehindApp
<1>6. \A j \in Interrupt : /\ sp'[j] <=> at'[j] # "out"
                           /\ at'[j] = "entry" => Enabled(list', j)
                           /\ at'[j] # "inside"
  BY <1>1, <1>2 DEF BackInv
<1> QED BY <1>1, <1>4, <1>5, <1>6 DEF BackInv

(***************************************************************************)
(* A pass of the scheduler's loop with the hook of os_interrupt.h.         *)
(***************************************************************************)
LEMMA ScheduleKeepsBack ==
  ASSUME BackInv, ScheduleHooked
  PROVE  BackInv'
<1>1. /\ mode = "sched" /\ cur' = list.next[cur] /\ mode' \in {"run", "sched"}
      /\ UNCHANGED <<list, started, created, prio, write, calls>>
      /\ Schedule
  BY DEF ScheduleHooked, Schedule
<1>2. /\ TypeOK /\ WellFormed(list) /\ list.appType = "application"
      /\ at \in [Interrupt -> {"out", "entry", "inside"}]
      /\ sp \in [Interrupt -> BOOLEAN]
      /\ frame \in Interrupt \cup {App}
      /\ calls \in 0 .. HandlerCalls
  BY DEF BackInv, InterruptTypeOK
<1>3. /\ cur' \in Active(list) \/ (cur' = App /\ list.next[App] \in Active(list))
      /\ App \in Proc
  BY <1>1, ProcessAssumption DEF BackInv, BehindApp
<1>4. cur' \in Proc /\ list'.next[cur'] \in Active(list')
  BY <1>1, <1>2, <1>3 DEF WellFormed, OneCycle, Active
<1>5. TypeOK'
  BY <1>1, <1>2, <1>4, ScheduleKeepsTypes
<1>6. cur' = App \/ Enabled(list', cur')
  BY <1>1, <1>3 DEF Active
<1>7. \A i \in Interrupt : /\ sp[i] <=> at[i] # "out"
                           /\ at[i] = "entry" => Enabled(list, i)
                           /\ at[i] # "inside"
  BY <1>1 DEF BackInv
<1>8. /\ at' \in [Interrupt -> {"out", "entry", "inside"}]
      /\ sp' \in [Interrupt -> BOOLEAN]
      /\ frame' \in Interrupt \cup {App}
      /\ \A i \in Interrupt : /\ sp'[i] <=> at'[i] # "out"
                              /\ at'[i] = "entry" => Enabled(list', i)
                              /\ at'[i] # "inside"
      /\ mode' = "run" /\ cur' \in Interrupt => at'[cur'] # "out"
  <2>1. CASE mode' # "run"
    <3>1. UNCHANGED <<at, sp, frame>>
      BY <2>1 DEF ScheduleHooked
    <3> QED BY <1>1, <1>2, <1>7, <2>1, <3>1
  <2>2. CASE mode' = "run" /\ cur' \in Interrupt /\ ~sp[cur']
    <3>1. /\ sp' = [sp EXCEPT ![cur'] = TRUE]
          /\ at' = [at EXCEPT ![cur'] = "entry"]
          /\ frame' = cur'
      BY <2>2 DEF ScheduleHooked, Load, IsInterrupt, ContextLoad
    <3>2. Enabled(list', cur')
      BY <1>6, <2>2, InterruptAssumption DEF Task
    <3>3. /\ at'[cur'] = "entry" /\ sp'[cur']
          /\ \A i \in Interrupt \ {cur'} : at'[i] = at[i] /\ (sp'[i] <=> sp[i])
      BY <1>2, <2>2, <3>1
    <3>4. /\ at' \in [Interrupt -> {"out", "entry", "inside"}]
          /\ sp' \in [Interrupt -> BOOLEAN]
      BY <1>2, <3>1
    <3>5. ASSUME NEW i \in Interrupt
          PROVE  /\ sp'[i] <=> at'[i] # "out"
                 /\ at'[i] = "entry" => Enabled(list', i)
                 /\ at'[i] # "inside"
      <4>1. CASE i = cur'
        BY <3>2, <3>3, <4>1
      <4>2. CASE i # cur'
        BY <1>1, <1>7, <3>3, <4>2
      <4> QED BY <4>1, <4>2
    <3> QED BY <2>2, <3>1, <3>3, <3>4, <3>5
  <2>3. CASE mode' = "run" /\ (cur' \in Interrupt => sp[cur'])
    <3>1. /\ UNCHANGED <<at, sp>>
          /\ frame' = IF cur' = App THEN App ELSE frame
      BY <2>3 DEF ScheduleHooked, Load, IsInterrupt
    <3>2. cur' \in Interrupt => at[cur'] # "out"
      BY <1>7, <2>3
    <3>3. frame' \in Interrupt \cup {App}
      BY <1>2, <3>1
    <3> QED BY <1>1, <1>2, <1>7, <3>1, <3>2, <3>3
  <2> QED BY <2>1, <2>2, <2>3
<1>9. InterruptTypeOK'
  BY <1>1, <1>2, <1>5, <1>8 DEF InterruptTypeOK
<1> QED BY <1>1, <1>2, <1>4, <1>6, <1>8, <1>9 DEF BackInv

LEMMA StepBackInv ==
  ASSUME ~AppMayDisable, HandlerCalls \in 0 .. 1, BackInv, [InterruptNext]_ivars
  PROVE  BackInv'
<1>1. ASSUME NEW i \in Interrupt, Handler(i) PROVE BackInv'
  BY <1>1, EnterKeepsBack, HandlerCallKeepsBack, EndKeepsBack DEF Handler
<1>2. CASE UNCHANGED ivars
  BY <1>2 DEF ivars, BackInv, InterruptTypeOK, TypeOK, BehindApp
<1> QED
  BY <1>1, <1>2, CallKeepsBack, CreateInterruptKeepsBack, ScheduleKeepsBack
     DEF InterruptNext

LEMMA BackInvariant ==
  ~AppMayDisable /\ HandlerCalls \in 0 .. 1 => (InterruptSpec => []BackInv)
<1> SUFFICES ASSUME ~AppMayDisable, HandlerCalls \in 0 .. 1
             PROVE  InterruptSpec => []BackInv
  OBVIOUS
<1>1. InterruptInit => BackInv
  BY InitBackInv
<1>2. BackInv /\ [InterruptNext]_ivars => BackInv'
  BY StepBackInv
<1> QED BY <1>1, <1>2, PTL DEF InterruptSpec

(***************************************************************************)
(* The memory below the stack pointer of os_app.  The scheduler picks      *)
(* os_app only while no interrupt is on the list, or after one that has    *)
(* just ended, so only the start of an interrupt can overwrite another.    *)
(***************************************************************************)
LEMMA StepOverwrites ==
  ASSUME BackInv, [InterruptNext]_ivars,
         NEW i \in Interrupt, at[i] # "out", frame = i, frame' # i
  PROVE  \E j \in Interrupt : at[j] = "out" /\ at'[j] = "entry"
<1>1. at \in [Interrupt -> {"out", "entry", "inside"}]
  BY DEF BackInv, InterruptTypeOK
<1>2. CASE CallOfTask \/ TickUnmasked
           \/ \E j \in Interrupt : CreateInterrupt(j) \/ Trigger(j) \/ Handler(j)
  BY <1>2 DEF CallOfTask, TickUnmasked, CreateInterrupt, Trigger, context,
              Handler, HandlerEnter, HandlerCall, HandlerEnd
<1>3. CASE ScheduleHooked
  <2>1. mode = "sched" /\ cur' = list.next[cur] /\ mode' = "run"
    BY <1>3 DEF ScheduleHooked, Schedule
  <2>2. CASE cur' = App
    <3>1. at[i] = "entry" /\ Enabled(list, i) /\ i \in Task
      BY <1>1, <2>1, InterruptAssumption DEF BackInv
    <3>2. App \notin Active(list)
      BY <3>1 DEF BackInv, WellFormed, AppAlone, Active, Task
    <3> QED BY <2>1, <2>2, <3>1, <3>2 DEF BackInv, BehindApp
  <2>3. CASE cur' # App
    <3>1. cur' \in Interrupt /\ ~sp[cur'] /\ at' = [at EXCEPT ![cur'] = "entry"]
      BY <1>3, <2>1, <2>3 DEF ScheduleHooked, Load, IsInterrupt, ContextLoad
    <3>2. at[cur'] = "out" /\ at'[cur'] = "entry"
      BY <1>1, <3>1 DEF BackInv
    <3> QED BY <3>1, <3>2
  <2> QED BY <2>2, <2>3
<1>4. CASE UNCHANGED ivars
  BY <1>4 DEF ivars
<1> QED BY <1>2, <1>3, <1>4 DEF InterruptNext

LEMMA StepUninterrupted ==
  ASSUME ~Preemptive, UninterruptedInv, [InterruptNext]_ivars
  PROVE  UninterruptedInv'
<1>1. ASSUME \A i \in Interrupt : at[i] = "out", UNCHANGED at
      PROVE  UninterruptedInv'
  BY <1>1 DEF UninterruptedInv
<1>2. ASSUME UNCHANGED <<at, frame, cur>>, mode' # "sched"
      PROVE  UninterruptedInv'
  BY <1>2 DEF UninterruptedInv
<1>3. CASE CallOfTask \/ TickUnmasked
           \/ \E i \in Interrupt : CreateInterrupt(i) \/ (cur \notin Interrupt /\ Trigger(i))
  <2>1. ~TickUnmasked
    BY DEF TickUnmasked, Tick
  <2>2. cur \notin Interrupt /\ UNCHANGED at
    BY <1>3, <2>1 DEF CallOfTask, CreateInterrupt, Trigger, context
  <2>3. \A i \in Interrupt : at[i] = "out"
    BY <2>2 DEF UninterruptedInv
  <2> QED BY <1>1, <2>2, <2>3
<1>4. ASSUME NEW i \in Interrupt, HandlerEnter(i) PROVE UninterruptedInv'
  <2>1. /\ cur = i /\ cur' = i /\ frame = i /\ frame' = i /\ mode' # "sched"
        /\ at' = [at EXCEPT ![i] = "inside"]
    BY <1>4 DEF HandlerEnter, Edit
  <2> QED BY <2>1 DEF UninterruptedInv
<1>5. ASSUME NEW i \in Interrupt, NEW p \in Task, HandlerCall(i, p)
      PROVE  UninterruptedInv'
  BY <1>2, <1>5 DEF HandlerCall, EnableCall, Edit
<1>6. ASSUME NEW i \in Interrupt, HandlerEnd(i) PROVE UninterruptedInv'
  <2>1. cur = i /\ at' = [at EXCEPT ![i] = "out"]
    BY <1>6 DEF HandlerEnd
  <2>2. \A j \in Interrupt : at'[j] = "out"
    BY <2>1 DEF UninterruptedInv
  <2> QED BY <2>1, <2>2 DEF UninterruptedInv
<1>7. CASE ScheduleHooked
  <2>1. \A i \in Interrupt : at[i] = "out"
    BY <1>7 DEF ScheduleHooked, Schedule, UninterruptedInv
  <2>2. CASE UNCHANGED at
    BY <1>1, <2>1, <2>2
  <2>3. CASE mode' = "run" /\ cur' \in Interrupt /\ ContextLoad(cur')
    BY <2>1, <2>3 DEF ContextLoad, UninterruptedInv
  <2> QED BY <1>7, <2>2, <2>3 DEF ScheduleHooked, Load, IsInterrupt
<1>8. CASE UNCHANGED ivars
  BY <1>8 DEF ivars, UninterruptedInv
<1> QED BY <1>3, <1>4, <1>5, <1>6, <1>7, <1>8 DEF InterruptNext, Handler

(***************************************************************************)
(* The state always has its type.                                          *)
(***************************************************************************)
THEOREM InterruptTypes ==
  ~AppMayDisable /\ HandlerCalls \in 0 .. 1 => (InterruptSpec => []InterruptTypeOK)
<1>1. BackInv => InterruptTypeOK
  BY DEF BackInv
<1> QED BY <1>1, BackInvariant, PTL

(***************************************************************************)
(* The active processes form one cycle, though handlers run off the list   *)
(* and enable processes from there.                                        *)
(***************************************************************************)
THEOREM InterruptRing ==
  ~AppMayDisable /\ HandlerCalls \in 0 .. 1
    => (InterruptSpec => [](RingIntact /\ NoEndlessSearch))
<1>1. BackInv => RingIntact /\ NoEndlessSearch
  BY DEF BackInv, RingIntact, NoEndlessSearch
<1> QED BY <1>1, BackInvariant, PTL

(***************************************************************************)
(* A process that runs off the list, a handler or os_app, still knows the  *)
(* way back to it.                                                         *)
(***************************************************************************)
THEOREM InterruptWayBack ==
  ~AppMayDisable /\ HandlerCalls \in 0 .. 1 => (InterruptSpec => []BackOnRing)
<1>1. BackInv => BackOnRing
  BY DEF BackInv, BehindApp, BackOnRing, Active
<1> QED BY <1>1, BackInvariant, PTL

(***************************************************************************)
(* An interrupt that is triggered starts anew, and one switched away at    *)
(* its entry comes back, for any number of interrupts.                     *)
(***************************************************************************)
THEOREM InterruptStartsAnew ==
  ~AppMayDisable /\ HandlerCalls \in 0 .. 1 => (InterruptSpec => []StartsAnew)
<1>1. BackInv => StartsAnew
  BY DEF BackInv, StartsAnew
<1> QED BY <1>1, BackInvariant, PTL

(***************************************************************************)
(* With ticks, for any number of interrupts: the context of one that has   *)
(* started is overwritten by the start of another and by nothing else; the *)
(* scheduler never gives os_app, the application process, its stack back   *)
(* while an interrupt is below it.                                         *)
(***************************************************************************)
THEOREM InterruptOverwrites ==
  ~AppMayDisable /\ HandlerCalls \in 0 .. 1 => (InterruptSpec => OnlyStartsOverwrite)
<1> DEFINE Step == \A i \in Interrupt :
                     at[i] # "out" /\ frame = i /\ frame' # i
                       => \E j \in Interrupt : at[j] = "out" /\ at'[j] = "entry"
<1>1. BackInv /\ [InterruptNext]_ivars => [Step]_ivars
  BY StepOverwrites
<1>2. OnlyStartsOverwrite <=> [][Step]_ivars
  BY DEF OnlyStartsOverwrite
<1> QED BY <1>1, <1>2, BackInvariant, PTL DEF InterruptSpec

(***************************************************************************)
(* Without ticks no interrupt is interrupted, as os_interrupt.h says:      *)
(* whatever the handlers call, and for any number of interrupts, the       *)
(* context of each is its own until it ends.                               *)
(***************************************************************************)
THEOREM InterruptContext == ~Preemptive => (InterruptSpec => []ContextIntact)
<1> SUFFICES ASSUME ~Preemptive PROVE InterruptSpec => []ContextIntact
  OBVIOUS
<1>1. InterruptInit => UninterruptedInv
  BY DEF InterruptInit, UninterruptedInv
<1>2. UninterruptedInv /\ [InterruptNext]_ivars => UninterruptedInv'
  BY StepUninterrupted
<1>3. UninterruptedInv => ContextIntact
  BY DEF UninterruptedInv, ContextIntact
<1> QED BY <1>1, <1>2, <1>3, PTL DEF InterruptSpec
=============================================================================
