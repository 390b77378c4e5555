----------------------------- MODULE OsTaskProofs -----------------------------
(***************************************************************************)
(* The safety properties of OsTask for every set of tasks, every heap and  *)
(* both insertion points, as long as main() and the idle hook disable and  *)
(* delete no task.                                                         *)
(*                                                                         *)
(* Deleting a task is no step of OsCore, which never takes a task out of   *)
(* `created`, so that the invariant of the kernel is proved once more      *)
(* here.  MemoryInv says who owns each block; WalkInv says where the       *)
(* unprotected walks of os_statistics_task_cpu_allocation are, and, while  *)
(* the list has not changed, what they have counted.                       *)
(***************************************************************************)
EXTENDS OsTask, OsCoreProofs

MemoryInv ==
  /\ stack \in [Task -> Block \cup {Null}]
  /\ used \in SUBSET Block
  /\ creates \in [Proc -> Task \cup {Null}]
  /\ frees \in [Proc -> Task \cup {Null}]
  /\ \A q \in Proc : creates[q] = Null \/ frees[q] = Null
  /\ lost \in SUBSET used
  /\ \A p \in created : stack[p] \in used \ lost
  /\ \A p, q \in created : stack[p] = stack[q] => p = q
  /\ \A q \in Proc : Subject(q) # Null =>
       /\ q \in created \cup {App} /\ Subject(q) \notin created
       /\ stack[Subject(q)] \in used \ lost
  /\ \A p, q \in Proc : Subject(p) # Null /\ Subject(q) # Null =>
       (stack[Subject(p)] = stack[Subject(q)] => p = q)
  /\ \A p \in created, q \in Proc :
       Subject(q) # Null => stack[Subject(q)] # stack[p]
  /\ \A b \in used \ lost :
       \/ \E p \in created : stack[p] = b
       \/ \E q \in Proc : Subject(q) # Null /\ stack[Subject(q)] = b

Walk == [task : Task \cup {Null}, last : Proc \cup {Null},
         sum : Nat, same : BOOLEAN]

\* V are the processes the walk w has counted on the list l, from its task
\* up to and without its last.
Counted(l, w, V) ==
  /\ V \subseteq Active(l)
  /\ IsFiniteSet(V) /\ w.sum = Cardinality(V)
  /\ w.task \in V
  /\ \A x \in V : l.next[x] \in V \cup {w.last}
  /\ \A x \in V \ {w.task} : \E y \in V : l.next[y] = x
  /\ \E y \in V : l.next[y] = w.last
  /\ w.last \in V => w.last = w.task

WalkInv ==
  /\ Linked(list)
  /\ walk \in [Proc -> Walk]
  /\ \A p \in Proc : walk[p] # NoWalk =>
       /\ walk[p].task \in Task
       /\ walk[p].last \in Proc
       /\ list.next[walk[p].last] # Null
  /\ \A p \in Proc : walk[p].same =>
       /\ p = App \/ Enabled(list, p)
       /\ \E V \in SUBSET Active(list) : Counted(list, walk[p], V)

(***************************************************************************)
(* The critical section of os_task_delete is a call of os_task_disable but *)
(* for the end of the task: the kernel's invariant is preserved.           *)
(***************************************************************************)
LEMMA DeleteKeeps ==
  ASSUME ~AppMayDisable, KernelInv, NEW p \in Task, Delete(p)
  PROVE  /\ cur \in Task /\ Enabled(list, cur)
         /\ KernelInv'
         /\ \A q \in Task : Enabled(list', q) <=> Enabled(list, q) /\ q # p
<1>1. mode = "run" /\ cur \in Task
  BY DEF Delete, Free, Calling, KernelInv, TypeOK, Task
<1>2. /\ list \in List /\ WellFormed(list)
      /\ list.appType = "application"
      /\ Enabled(list, cur)
  BY <1>1, KernelRunning
<1>3. /\ list' \in List /\ WellFormed(list')
      /\ list'.appType = "application"
      /\ list'.next[cur] \in Active(list')
      /\ \A q \in Task : Enabled(list', q) <=> Enabled(list, q) /\ q # p
      /\ mode' = IF p = cur THEN "sched" ELSE "run"
  BY <1>1, <1>2, DisableKeeps DEF Delete, Edit
<1>4. TypeOK'
  BY <1>3 DEF KernelInv, TypeOK, Delete
<1>5. OnlyEnabledRuns' /\ cur' = cur
  BY <1>1, <1>2, <1>3 DEF OnlyEnabledRuns, Delete
<1>6. \A q \in Task : Enabled(list', q) => q \in created'
  BY <1>3 DEF KernelInv, Delete
<1> QED BY <1>1, <1>2, <1>3, <1>4, <1>5, <1>6 DEF KernelInv

(***************************************************************************)
(* All other steps are steps of the kernel core.                           *)
(***************************************************************************)
LEMMA OtherStepIsCoreStep ==
  ASSUME [TaskNext]_tvars, \A p \in Task : ~Delete(p)
  PROVE  [Next]_vars
<1>1. CASE CoreStep
  BY <1>1 DEF CoreStep, Next
<1>2. CASE FreeStack \/ WalkStep \/ \E p \in Task : Allocate(p) \/ WalkStart(p)
  BY <1>2 DEF FreeStack, WalkStep, Allocate, WalkStart
<1>3. ASSUME NEW p \in Task, CreateTask(p) PROVE [Next]_vars
  BY <1>3 DEF CreateTask, Next
<1>4. CASE UNCHANGED tvars
  BY <1>4 DEF tvars, vars
<1> QED BY <1>1, <1>2, <1>3, <1>4 DEF TaskNext

LEMMA TaskStepKernelInv ==
  ASSUME ~AppMayDisable, KernelInv, [TaskNext]_tvars
  PROVE  KernelInv'
<1>1. CASE \E p \in Task : Delete(p)
  BY <1>1, DeleteKeeps
<1>2. CASE \A p \in Task : ~Delete(p)
  BY <1>2, OtherStepIsCoreStep, StepKernelInv
<1> QED BY <1>1, <1>2

(***************************************************************************)
(* MemoryInv is inductive beside KernelInv.                                *)
(***************************************************************************)
LEMMA InitMemoryInv == TaskInit => MemoryInv
BY DEF TaskInit, Init, MemoryInv, Subject

\* A process takes part in a call that creates or deletes a task, or leaves it.
LEMMA SubjectType ==
  ASSUME MemoryInv, NEW p \in Proc
  PROVE  /\ Subject(p) \in Task \cup {Null}
         /\ Subject(p) = Null => creates[p] = Null /\ frees[p] = Null
         /\ creates[p] # Null => Subject(p) = creates[p]
BY DEF MemoryInv, Subject

LEMMA AllocateKeeps ==
  ASSUME KernelInv, MemoryInv, NEW p \in Task, Allocate(p)
  PROVE  MemoryInv'
<1>1. created \in SUBSET Task /\ cur \in Proc /\ Null \notin Task /\ App \notin Task
  BY ProcessAssumption DEF KernelInv, TypeOK, Task
<1>2. /\ p \notin created /\ cur \in created \cup {App}
      /\ \A q \in Proc : Subject(q) # p
      /\ creates' = [creates EXCEPT ![cur] = p]
      /\ UNCHANGED <<frees, lost, created>>
  BY <1>1, KernelRunning DEF Allocate, Free, Calling, vars, KernelInv, TypeOK, Task
<1>3. PICK b \in Block \ used :
        used' = used \cup {b} /\ stack' = [stack EXCEPT ![p] = b]
  BY DEF Allocate
<1>4. /\ stack'[p] = b /\ stack' \in [Task -> Block \cup {Null}]
      /\ \A q \in Task \ {p} : stack'[q] = stack[q]
  BY <1>3 DEF MemoryInv
<1>5. Subject(cur) = Null /\ creates[cur] = Null /\ frees[cur] = Null
  BY <1>1, SubjectType DEF Allocate, Free
<1>6. /\ creates' \in [Proc -> Task \cup {Null}] /\ creates'[cur] = p
      /\ \A q \in Proc \ {cur} : creates'[q] = creates[q]
  BY <1>1, <1>2 DEF MemoryInv
<1>7. \A q \in Proc : Subject(q)' = IF q = cur THEN p ELSE Subject(q)
  BY <1>1, <1>2, <1>5, <1>6 DEF Subject
<1>8. \A q \in created : q # p /\ stack'[q] = stack[q]
  BY <1>1, <1>2, <1>4
<1>9. \A q \in Proc \ {cur} :
        Subject(q)' # Null => stack'[Subject(q)'] = stack[Subject(q)]
  BY <1>2, <1>4, <1>7, SubjectType
<1>10. \A q \in Proc : creates'[q] = Null \/ frees'[q] = Null
  BY <1>2, <1>5, <1>6 DEF MemoryInv
<1>11. \A q \in created : stack'[q] \in used \ lost
  BY <1>8 DEF MemoryInv
<1>12. \A q \in Proc \ {cur} : Subject(q)' # Null => stack'[Subject(q)'] \in used \ lost
  BY <1>7, <1>9 DEF MemoryInv
<1>13. \A q, r \in created : stack'[q] = stack'[r] => q = r
  BY <1>8 DEF MemoryInv
<1>14. \A q \in Proc : Subject(q)' # Null =>
         /\ q \in created \cup {App} /\ Subject(q)' \notin created
         /\ stack'[Subject(q)'] \in used' \ lost
  BY <1>2, <1>3, <1>4, <1>7, <1>12 DEF MemoryInv
<1>15. \A q, r \in Proc : Subject(q)' # Null /\ Subject(r)' # Null =>
         (stack'[Subject(q)'] = stack'[Subject(r)'] => q = r)
  BY <1>3, <1>4, <1>7, <1>9, <1>12 DEF MemoryInv
<1>16. \A q \in created, r \in Proc :
         Subject(r)' # Null => stack'[Subject(r)'] # stack'[q]
  BY <1>3, <1>4, <1>7, <1>8, <1>9, <1>11 DEF MemoryInv
<1>17. \A c \in used' \ lost :
         \/ \E q \in created : stack'[q] = c
         \/ \E q \in Proc : Subject(q)' # Null /\ stack'[Subject(q)'] = c
  BY <1>1, <1>3, <1>4, <1>5, <1>7, <1>8, <1>9 DEF MemoryInv
<1>18. used' \in SUBSET Block /\ lost \in SUBSET used'
  BY <1>3 DEF MemoryInv
<1> QED
  BY <1>2, <1>3, <1>4, <1>6, <1>10, <1>11, <1>13, <1>14, <1>15, <1>16, <1>17,
     <1>18 DEF MemoryInv

LEMMA CreateTaskKeeps ==
  ASSUME KernelInv, MemoryInv, NEW p \in Task, CreateTask(p)
  PROVE  MemoryInv'
<1>1. created \in SUBSET Task /\ cur \in Proc /\ Null \notin Task
  BY ProcessAssumption DEF KernelInv, TypeOK, Task
<1>2. /\ p \notin created /\ created' = created \cup {p}
      /\ creates[cur] = p
      /\ creates' = [creates EXCEPT ![cur] = Null]
      /\ UNCHANGED <<stack, used, frees, lost>>
  BY DEF CreateTask, Create
<1>3. Subject(cur) = p /\ frees[cur] = Null
  BY <1>1, <1>2, SubjectType DEF MemoryInv
<1>4. /\ creates' \in [Proc -> Task \cup {Null}] /\ creates'[cur] = Null
      /\ \A q \in Proc \ {cur} : creates'[q] = creates[q]
  BY <1>1, <1>2 DEF MemoryInv
<1>5. \A q \in Proc : Subject(q)' = IF q = cur THEN Null ELSE Subject(q)
  BY <1>1, <1>2, <1>3, <1>4 DEF Subject
<1>6. /\ stack[p] \in used \ lost
      /\ \A q \in created : stack[q] # stack[p]
      /\ \A q \in Proc \ {cur} : Subject(q) # Null => stack[Subject(q)] # stack[p]
  BY <1>1, <1>3 DEF MemoryInv
<1>7. \A q \in Proc : creates'[q] = Null \/ frees[q] = Null
  BY <1>4 DEF MemoryInv
<1>8. \A q, r \in created' : stack[q] = stack[r] => q = r
  BY <1>2, <1>6 DEF MemoryInv
<1>9. \A q \in Proc : Subject(q)' # Null =>
        /\ q \in created' \cup {App} /\ Subject(q)' \notin created'
        /\ stack[Subject(q)'] \in used \ lost
  BY <1>2, <1>5, <1>6 DEF MemoryInv
<1>10. \A q, r \in Proc : Subject(q)' # Null /\ Subject(r)' # Null =>
         (stack[Subject(q)'] = stack[Subject(r)'] => q = r)
  BY <1>5 DEF MemoryInv
<1>11. \A q \in created', r \in Proc :
         Subject(r)' # Null => stack[Subject(r)'] # stack[q]
  BY <1>2, <1>5, <1>6 DEF MemoryInv
<1>12. \A c \in used \ lost :
         \/ \E q \in created' : stack[q] = c
         \/ \E q \in Proc : Subject(q)' # Null /\ stack[Subject(q)'] = c
  BY <1>2, <1>3, <1>5 DEF MemoryInv
<1> QED
  BY <1>2, <1>4, <1>6, <1>7, <1>8, <1>9, <1>10, <1>11, <1>12 DEF MemoryInv

LEMMA FreeStackKeeps ==
  ASSUME KernelInv, MemoryInv, FreeStack
  PROVE  MemoryInv'
<1> DEFINE b == stack[frees[cur]]
<1>1. /\ frees[cur] # Null /\ cur \in Proc
      /\ used' = used \ {b}
      /\ frees' = [frees EXCEPT ![cur] = Null]
      /\ UNCHANGED <<stack, creates, lost, created>>
  BY DEF FreeStack, vars, KernelInv, TypeOK
<1>2. Subject(cur) = frees[cur] /\ creates[cur] = Null
  BY <1>1 DEF Subject, MemoryInv
<1>3. /\ b \in used \ lost
      /\ \A p \in created : stack[p] # b
      /\ \A q \in Proc \ {cur} : Subject(q) # Null => stack[Subject(q)] # b
  BY <1>1, <1>2 DEF MemoryInv
<1>4. /\ frees'[cur] = Null /\ frees' \in [Proc -> Task \cup {Null}]
      /\ \A q \in Proc \ {cur} : frees'[q] = frees[q]
  BY <1>1 DEF MemoryInv
<1>5. \A q \in Proc : Subject(q)' = IF q = cur THEN Null ELSE Subject(q)
  BY <1>1, <1>2, <1>4 DEF Subject
<1>6. \A q \in Proc : creates[q] = Null \/ frees'[q] = Null
  BY <1>4 DEF MemoryInv
<1>7. \A c \in used' \ lost :
        \/ \E q \in created : stack[q] = c
        \/ \E q \in Proc : Subject(q)' # Null /\ stack[Subject(q)'] = c
  BY <1>1, <1>2, <1>5 DEF MemoryInv
<1> HIDE DEF b
<1>8. \A q \in Proc : Subject(q)' # Null =>
        /\ q \in created \cup {App} /\ Subject(q)' \notin created
        /\ stack[Subject(q)'] \in used' \ lost
  BY <1>1, <1>3, <1>5 DEF MemoryInv
<1>9. \A q, r \in Proc : Subject(q)' # Null /\ Subject(r)' # Null =>
        (stack[Subject(q)'] = stack[Subject(r)'] => q = r)
  BY <1>5 DEF MemoryInv
<1>10. \A q \in created, r \in Proc :
         Subject(r)' # Null => stack[Subject(r)'] # stack[q]
  BY <1>5 DEF MemoryInv
<1> QED BY <1>1, <1>3, <1>4, <1>6, <1>7, <1>8, <1>9, <1>10 DEF MemoryInv

LEMMA DeleteKeepsMemory ==
  ASSUME ~AppMayDisable, KernelInv, MemoryInv, NEW p \in Task, Delete(p)
  PROVE  MemoryInv'
<1>1. created \in SUBSET Task /\ Task \subseteq Proc /\ Null \notin Task /\ App \notin Task
  BY ProcessAssumption DEF KernelInv, TypeOK, Task
<1>2. /\ cur \in created /\ cur \in Proc /\ Subject(cur) = Null
      /\ p \in created /\ p \in Proc
      /\ created' = created \ {p}
      /\ lost' = lost \cup Abandoned(p)
      /\ creates' = [creates EXCEPT ![p] = Null]
      /\ frees' = [frees EXCEPT ![p] = Null,
                                ![cur] = IF p = cur THEN Null ELSE p]
      /\ UNCHANGED <<stack, used>>
  <2>1. cur \in Task /\ Enabled(list, cur)
    BY DeleteKeeps
  <2> QED BY <1>1, <2>1 DEF Delete, Free, Calling, KernelInv
<1>3. /\ frees' \in [Proc -> Task \cup {Null}]
      /\ frees'[cur] = IF p = cur THEN Null ELSE p
      /\ p # cur => frees'[p] = Null
      /\ \A q \in Proc \ {p, cur} : frees'[q] = frees[q]
      /\ creates' \in [Proc -> Task \cup {Null}] /\ creates'[p] = Null
      /\ \A q \in Proc \ {p} : creates'[q] = creates[q]
  BY <1>2 DEF MemoryInv
<1>4. creates[cur] = Null /\ frees[cur] = Null
  BY <1>2, SubjectType
<1>5. \A q \in Proc :
        Subject(q)' = IF q = cur /\ q # p THEN p
                      ELSE IF q = p THEN Null ELSE Subject(q)
  BY <1>1, <1>2, <1>3, <1>4 DEF Subject
<1>6. \A q \in Proc : creates'[q] = Null \/ frees'[q] = Null
  BY <1>2, <1>3, <1>4 DEF MemoryInv
<1>7. Abandoned(p) \subseteq used \ lost
  BY <1>2 DEF Abandoned, MemoryInv
<1>8. \A q \in created' : stack[q] \notin Abandoned(p)
  BY <1>2 DEF Abandoned, MemoryInv
<1>9. \A q \in Proc : Subject(q)' # Null => stack[Subject(q)'] \notin Abandoned(p)
  BY <1>1, <1>2, <1>5 DEF Abandoned, MemoryInv
<1>10. \A q \in created' : stack[q] \in used \ lost'
  BY <1>2, <1>8 DEF MemoryInv
<1>11. \A q \in Proc : Subject(q)' # Null =>
         /\ q \in created' \cup {App} /\ Subject(q)' \notin created'
         /\ stack[Subject(q)'] \in used \ lost'
  BY <1>1, <1>2, <1>5, <1>9 DEF MemoryInv
<1>12. \A q, r \in Proc : Subject(q)' # Null /\ Subject(r)' # Null =>
         (stack[Subject(q)'] = stack[Subject(r)'] => q = r)
  BY <1>1, <1>2, <1>5 DEF MemoryInv
<1>13. \A q \in created', r \in Proc :
         Subject(r)' # Null => stack[Subject(r)'] # stack[q]
  BY <1>1, <1>2, <1>5 DEF MemoryInv
<1>14. ASSUME NEW c \in used \ lost'
       PROVE  \/ \E q \in created' : stack[q] = c
              \/ \E q \in Proc : Subject(q)' # Null /\ stack[Subject(q)'] = c
  <2>1. c \in used \ lost /\ c \notin Abandoned(p)
    BY <1>2
  <2>2. CASE \E q \in created : stack[q] = c
    BY <1>1, <1>2, <1>5, <2>1, <2>2 DEF Abandoned
  <2>3. CASE \E q \in Proc : Subject(q) # Null /\ stack[Subject(q)] = c
    BY <1>2, <1>5, <2>1, <2>3 DEF Abandoned
  <2> QED BY <2>1, <2>2, <2>3 DEF MemoryInv
<1>15. lost' \in SUBSET used
  BY <1>2, <1>7 DEF MemoryInv
<1> QED
  BY <1>2, <1>3, <1>6, <1>10, <1>11, <1>12, <1>13, <1>14, <1>15 DEF MemoryInv

LEMMA StepMemoryInv ==
  ASSUME ~AppMayDisable, KernelInv, MemoryInv, [TaskNext]_tvars
  PROVE  MemoryInv'
<1>1. CASE UNCHANGED <<memory, created>>
  BY <1>1 DEF MemoryInv, memory, Subject
<1>2. CASE CoreStep
  BY <1>1, <1>2 DEF CoreStep, Start, Yield, Tick, Schedule, EnableCall,
                    DisableCall
<1>3. CASE WalkStep \/ \E p \in Task : WalkStart(p)
  BY <1>1, <1>3 DEF WalkStep, WalkStart, vars
<1>4. CASE UNCHANGED tvars
  BY <1>1, <1>4 DEF tvars, memory
<1> QED
  BY <1>2, <1>3, <1>4, AllocateKeeps, CreateTaskKeeps, FreeStackKeeps,
     DeleteKeepsMemory DEF TaskNext

(***************************************************************************)
(* No step of a task unlinks a process: the pointers a walk that was led   *)
(* astray can follow stay pointers to linked processes.                    *)
(***************************************************************************)
LEMMA StepLinks ==
  ASSUME KernelInv, Linked(list), [TaskNext]_tvars
  PROVE  LinksKept(list, list')
<1>1. /\ list \in List /\ WellFormed(list) /\ cur \in Proc
      /\ list.next[cur] \in Active(list)
  BY DEF KernelInv, TypeOK
<1>2. CASE UNCHANGED list
  BY <1>2 DEF LinksKept
<1>3. ASSUME NEW p \in Task, EnableCall(p) PROVE LinksKept(list, list')
  <2>1. LinksKept(list, Enable(list, cur, p))
    BY <1>1, EnableKeepsLinks
  <2>2. list' = list \/ list' = Enable(list, cur, p)
    BY <1>3 DEF EnableCall, Edit
  <2> QED BY <1>2, <2>1, <2>2
<1>4. ASSUME NEW p \in Task, DisableCall(p) \/ Delete(p)
      PROVE  LinksKept(list, list')
  <2>1. LinksKept(list, Disable(list, p))
    BY <1>1, DisableKeepsLinks
  <2>2. list' = list \/ list' = Disable(list, p)
    BY <1>4 DEF DisableCall, Delete, Edit
  <2> QED BY <1>2, <2>1, <2>2
<1>5. ASSUME NEW p \in Task, CreateTask(p) PROVE LinksKept(list, list')
  <2> DEFINE fresh == ProcessCreate(list, p)
  <2>1. ~Enabled(list, p)
    BY <1>5 DEF CreateTask, Create, KernelInv
  <2>2. /\ fresh \in List /\ WellFormed(fresh)
        /\ fresh.next = list.next
        /\ Active(fresh) = Active(list)
    BY <1>1, <2>1, FreshKeeps
  <2>3. Linked(fresh) /\ fresh.next[cur] \in Active(fresh)
    BY <1>1, <2>2 DEF Linked
  <2>4. LinksKept(fresh, Enable(fresh, cur, p))
    BY <1>1, <2>2, <2>3, EnableKeepsLinks
  <2>5. list' = list \/ list' = Enable(fresh, cur, p)
    BY <1>5 DEF CreateTask, Create, Edit
  <2> QED BY <1>2, <2>2, <2>4, <2>5 DEF LinksKept
<1>6. CASE CoreStep
  <2>1. CASE \E p \in Task : EnableCall(p) \/ DisableCall(p)
    BY <1>3, <1>4, <2>1
  <2>2. CASE Start \/ Yield \/ Tick \/ Schedule
    BY <1>2, <2>2 DEF Start, Yield, Tick, Schedule
  <2> QED BY <1>6, <2>1, <2>2 DEF CoreStep
<1>7. CASE FreeStack \/ WalkStep \/ \E p \in Task : Allocate(p) \/ WalkStart(p)
  BY <1>2, <1>7 DEF FreeStack, WalkStep, Allocate, WalkStart, vars
<1>8. CASE UNCHANGED tvars
  BY <1>2, <1>8 DEF tvars
<1> QED BY <1>3, <1>4, <1>5, <1>6, <1>7, <1>8 DEF TaskNext

(***************************************************************************)
(* What one walk has counted: the start of a walk, one pass of its loop,   *)
(* and its end, where everything that is active has been counted.          *)
(***************************************************************************)
LEMMA CountedStart ==
  ASSUME NEW l \in List, NEW p \in Active(l), NEW w \in Walk,
         w.task = p, w.last = l.next[p], w.sum = 1
  PROVE  Counted(l, w, {p})
BY FS_Singleton DEF Counted

LEMMA CountedStep ==
  ASSUME NEW l \in List, WellFormed(l), NEW w \in Walk, NEW v \in Walk,
         NEW V \in SUBSET Active(l), Counted(l, w, V), w.last # w.task,
         v.task = w.task, v.last = l.next[w.last], v.sum = w.sum + 1
  PROVE  Counted(l, v, V \cup {w.last})
<1> DEFINE x == w.last
           W == V \cup {x}
<1>1. x \in Active(l) /\ x \notin V
  BY DEF Counted, WellFormed, OneCycle
<1>2. IsFiniteSet(W) /\ v.sum = Cardinality(W)
  BY <1>1, FS_AddElement DEF Counted
<1>3. /\ W \subseteq Active(l) /\ v.task \in W
      /\ \A y \in W : l.next[y] \in W \cup {v.last}
      /\ \A y \in W \ {v.task} : \E z \in V : l.next[z] = y
      /\ l.next[x] = v.last
  BY <1>1 DEF Counted
<1>4. v.last \in W => v.last = v.task
  <2> SUFFICES ASSUME v.last \in W, v.last # v.task PROVE FALSE
    OBVIOUS
  <2>1. PICK z \in V : l.next[z] = v.last
    BY <1>3
  <2>2. z = x
    BY <1>1, <1>3, <2>1 DEF WellFormed, OneCycle
  <2> QED BY <1>1, <2>1, <2>2
<1> HIDE DEF W
<1>5. /\ V \subseteq W /\ x \in W
  BY DEF W
<1>6. Counted(l, v, W)
  BY <1>2, <1>3, <1>4, <1>5 DEF Counted
<1> QED BY <1>6 DEF W

LEMMA CountedAll ==
  ASSUME NEW l \in List, WellFormed(l), l.appType = "application",
         NEW w \in Walk, w.task \in Task,
         NEW V \in SUBSET Active(l), Counted(l, w, V), w.last = w.task
  PROVE  w.sum = Cardinality(Active(l) \ {App})
<1>1. V # {} /\ \A x \in V : l.next[x] \in V
  BY DEF Counted
<1>2. V = Active(l)
  BY <1>1 DEF WellFormed, OneCycle
<1>3. App \notin Active(l)
  BY <1>2 DEF Counted, WellFormed, AppAlone, Active, Task
<1> QED BY <1>2, <1>3 DEF Counted

(***************************************************************************)
(* A task that walks and has seen no change of the list is enabled: if it  *)
(* is disabled, or deleted, the list changes.                              *)
(***************************************************************************)
LEMMA DeleteEndsNoExactWalk ==
  ASSUME ~AppMayDisable, KernelInv, WalkInv, NEW p \in Task, Delete(p),
         list' = list
  PROVE  ~walk[p].same
<1>1. ~Enabled(list, p)
  BY DeleteKeeps
<1> QED BY <1>1 DEF WalkInv, Task

LEMMA InitWalkInv == TaskInit => WalkInv
<1> SUFFICES ASSUME TaskInit PROVE WalkInv
  OBVIOUS
<1>1. Linked(list)
  BY ProcessAssumption DEF TaskInit, Init, InitList, Linked
<1>2. NoWalk \in Walk /\ ~NoWalk.same
  BY DEF NoWalk, Walk
<1>3. /\ walk \in [Proc -> Walk]
      /\ \A p \in Proc : walk[p] = NoWalk /\ ~walk[p].same
  BY <1>2 DEF TaskInit
<1> QED BY <1>1, <1>3 DEF WalkInv

(***************************************************************************)
(* The two ways a walk is updated: an edit of the list ends its count, a   *)
(* pass of its loop moves it on.                                           *)
(***************************************************************************)
LEMMA CountEnded ==
  ASSUME NEW w \in Walk
  PROVE  LET v == [w EXCEPT !.same = FALSE, !.sum = 0] IN
         /\ v \in Walk /\ ~v.same
         /\ v.task = w.task /\ v.last = w.last
         /\ w = NoWalk => v = NoWalk
<1> DEFINE v == [w EXCEPT !.same = FALSE, !.sum = 0]
<1>1. v \in Walk
  BY DEF Walk
<1>2. v.task = w.task /\ v.last = w.last /\ v.sum = 0 /\ v.same = FALSE
  BY DEF Walk
<1> HIDE DEF v
<1>3. v = [task |-> v.task, last |-> v.last, sum |-> v.sum, same |-> v.same]
  BY <1>1 DEF Walk
<1>4. w = NoWalk => v = NoWalk
  BY <1>2, <1>3 DEF NoWalk
<1> QED BY <1>1, <1>2, <1>4 DEF v

LEMMA PassMade ==
  ASSUME NEW w \in Walk, NEW n \in Nat, NEW p \in Proc
  PROVE  LET v == [w EXCEPT !.sum = @ + n, !.last = p] IN
         /\ v \in Walk
         /\ v.task = w.task /\ v.last = p /\ v.same = w.same /\ v.sum = w.sum + n
<1>1. PICK k \in Nat : k = w.sum + n
  BY DEF Walk
<1>2. [w EXCEPT !.sum = k, !.last = p] \in Walk
  BY DEF Walk
<1> QED BY <1>1, <1>2 DEF Walk

(***************************************************************************)
(* WalkInv is inductive beside KernelInv.  A step that edits the list ends *)
(* every count and keeps the pointers of the walks linked; one that does   *)
(* not keeps what has been counted.                                        *)
(***************************************************************************)
LEMMA WalkInvEdited ==
  ASSUME WalkInv, LinksKept(list, list'), list' # list,
         NEW w \in [Proc -> Walk], Walks(w),
         \A p \in Proc : w[p] = walk[p] \/ w[p] = NoWalk
  PROVE  WalkInv'
<1>1. walk' = [p \in Proc |-> [w[p] EXCEPT !.same = FALSE, !.sum = 0]]
  BY DEF Walks
<1>2. ASSUME NEW p \in Proc
      PROVE  /\ walk'[p] \in Walk /\ ~walk'[p].same
             /\ walk'[p].task = w[p].task /\ walk'[p].last = w[p].last
             /\ w[p] = NoWalk => walk'[p] = NoWalk
  BY <1>1, CountEnded
<1>3. walk' \in [Proc -> Walk]
  BY <1>1, <1>2
<1>4. ASSUME NEW p \in Proc, walk'[p] # NoWalk
      PROVE  /\ walk'[p].task \in Task
             /\ walk'[p].last \in Proc
             /\ list'.next[walk'[p].last] # Null
  <2>1. walk[p] # NoWalk /\ w[p] = walk[p]
    BY <1>2, <1>4
  <2>2. /\ walk[p].task \in Task /\ walk[p].last \in Proc
        /\ list.next[walk[p].last] # Null
    BY <2>1 DEF WalkInv
  <2> QED BY <1>2, <2>1, <2>2 DEF LinksKept
<1>5. Linked(list')
  BY DEF LinksKept
<1> QED BY <1>2, <1>3, <1>4, <1>5 DEF WalkInv

LEMMA WalkInvUnedited ==
  ASSUME WalkInv, list' = list, walk' \in [Proc -> Walk],
         \A p \in Proc : walk'[p] = walk[p] \/ walk'[p] = NoWalk
  PROVE  WalkInv'
<1>1. ~NoWalk.same
  BY DEF NoWalk
<1> QED BY <1>1 DEF WalkInv

LEMMA StepWalkInv ==
  ASSUME ~AppMayDisable, KernelInv, WalkInv, [TaskNext]_tvars
  PROVE  WalkInv'
<1>1. /\ list \in List /\ WellFormed(list) /\ cur \in Proc
      /\ App \in Proc /\ Null \notin Proc
  BY ProcessAssumption DEF KernelInv, TypeOK
<1>2. walk \in [Proc -> Walk] /\ NoWalk \in Walk
  BY DEF WalkInv, NoWalk, Walk
<1>3. ASSUME Walks(walk) PROVE WalkInv'
  BY <1>2, <1>3, StepLinks, WalkInvEdited, WalkInvUnedited DEF Walks, WalkInv
<1>4. CASE UNCHANGED <<list, walk>>
  BY <1>3, <1>4 DEF Walks
<1>5. ASSUME NEW p \in Task, Delete(p) PROVE WalkInv'
  <2> DEFINE w == [walk EXCEPT ![p] = NoWalk]
  <2>1. /\ w \in [Proc -> Walk] /\ Walks(w)
        /\ \A q \in Proc : w[q] = walk[q] \/ w[q] = NoWalk
    BY <1>2, <1>5 DEF Delete
  <2>2. CASE list' # list
    BY <1>5, <2>1, <2>2, StepLinks, WalkInvEdited DEF WalkInv
  <2>3. CASE list' = list
    BY <2>1, <2>3, WalkInvUnedited DEF Walks
  <2> QED BY <2>2, <2>3
<1>6. ASSUME NEW p \in Task, WalkStart(p) PROVE WalkInv'
  <2> DEFINE w == [task |-> p, last |-> list.next[p], sum |-> 1, same |-> TRUE]
  <2>1. /\ p \in Active(list) /\ list.next[p] \in Active(list)
        /\ list.next[p] \in Proc /\ list.next[list.next[p]] # Null
    BY <1>1, <1>6 DEF WalkStart, Active, WellFormed, OneCycle, Task
  <2>2. cur = App \/ Enabled(list, cur)
    BY <1>6 DEF WalkStart, Free, Calling, KernelInv, OnlyEnabledRuns
  <2>3. w \in Walk
    BY <2>1 DEF Walk, Active
  <2>4. Counted(list, w, {p})
    <3>1. w.task = p /\ w.last = list.next[p] /\ w.sum = 1
      OBVIOUS
    <3> HIDE DEF w
    <3> QED BY <1>1, <2>1, <2>3, <3>1, CountedStart
  <2>5. \E V \in SUBSET Active(list) : Counted(list, w, V)
    BY <2>1, <2>4
  <2>6. walk' = [walk EXCEPT ![cur] = w] /\ list' = list
    BY <1>6 DEF WalkStart, vars
  <2>7. w.task \in Task /\ w.last \in Proc /\ list.next[w.last] # Null
    BY <2>1
  <2> HIDE DEF w
  <2>8. /\ walk' \in [Proc -> Walk] /\ walk'[cur] = w
        /\ \A q \in Proc \ {cur} : walk'[q] = walk[q]
    BY <1>1, <1>2, <2>3, <2>6
  <2> QED BY <2>2, <2>5, <2>6, <2>7, <2>8 DEF WalkInv
<1>7. CASE WalkStep
  <2> DEFINE w == walk[cur]
             v == [w EXCEPT !.sum = @ + (IF w.same /\ IsTask(w.last) THEN 1 ELSE 0),
                            !.last = list.next[w.last]]
  <2>1. /\ w # NoWalk /\ list' = list
        /\ walk' = [walk EXCEPT ![cur] = IF w.last = w.task THEN NoWalk ELSE v]
    BY <1>7 DEF WalkStep, vars
  <2>2. CASE w.last = w.task
    <3>1. walk' = [walk EXCEPT ![cur] = NoWalk]
      BY <2>1, <2>2
    <3>2. /\ walk' \in [Proc -> Walk]
          /\ \A p \in Proc : walk'[p] = walk[p] \/ walk'[p] = NoWalk
      BY <1>1, <1>2, <3>1
    <3> QED BY <2>1, <3>2, WalkInvUnedited
  <2>3. CASE w.last # w.task
    <3>1. /\ w \in Walk /\ w.task \in Task /\ w.last \in Proc
          /\ list.next[w.last] # Null
      BY <1>1, <1>2, <2>1 DEF WalkInv
    <3>2. /\ list.next[w.last] \in Proc
          /\ list.next[list.next[w.last]] # Null
      BY <1>1, <3>1 DEF List, WalkInv, Linked
    <3>3. /\ v \in Walk /\ v.task = w.task /\ v.last = list.next[w.last]
          /\ v.same = w.same
          /\ w.same /\ w.last \in Task => v.sum = w.sum + 1
      <4> DEFINE k == IF w.same /\ IsTask(w.last) THEN 1 ELSE 0
      <4>1. k \in Nat /\ (w.same /\ w.last \in Task => k = 1)
        BY DEF IsTask
      <4>2. v = [w EXCEPT !.sum = @ + k, !.last = list.next[w.last]]
        OBVIOUS
      <4> HIDE DEF w, v, k
      <4>3. /\ v \in Walk
            /\ v.task = w.task /\ v.last = list.next[w.last]
            /\ v.same = w.same /\ v.sum = w.sum + k
        BY <3>1, <3>2, <4>1, <4>2, PassMade
      <4> QED BY <4>1, <4>3
    <3>4. ASSUME w.same
          PROVE  /\ cur = App \/ Enabled(list, cur)
                 /\ \E V \in SUBSET Active(list) : Counted(list, v, V)
      <4>1. PICK V \in SUBSET Active(list) : Counted(list, w, V)
        BY <1>1, <3>4 DEF WalkInv
      <4>2. w.last \in Active(list) /\ w.last # App
        BY <1>1, <3>1, <4>1
           DEF Counted, WellFormed, OneCycle, AppAlone, KernelInv, Active, Task
      <4>3. v.sum = w.sum + 1
        BY <3>1, <3>3, <3>4, <4>2 DEF Task
      <4>4. Counted(list, v, V \cup {w.last})
        BY <1>1, <2>3, <3>1, <3>3, <4>1, <4>3, CountedStep
      <4> QED BY <1>1, <3>4, <4>1, <4>2, <4>4 DEF WalkInv
    <3> HIDE DEF v
    <3>5. walk' = [walk EXCEPT ![cur] = v]
      BY <2>1, <2>3
    <3>6. /\ walk' \in [Proc -> Walk] /\ walk'[cur] = v
          /\ \A q \in Proc \ {cur} : walk'[q] = walk[q]
      BY <1>1, <1>2, <3>3, <3>5
    <3> QED
      BY <2>1, <3>1, <3>2, <3>3, <3>4, <3>6 DEF WalkInv
  <2> QED BY <2>2, <2>3
<1>8. ASSUME NEW p \in Task, CreateTask(p) PROVE WalkInv'
  BY <1>3, <1>8 DEF CreateTask
<1>9. CASE CoreStep
  BY <1>3, <1>4, <1>9 DEF CoreStep, Start, Yield, Tick, Schedule
<1>10. CASE FreeStack \/ \E p \in Task : Allocate(p)
  BY <1>4, <1>10 DEF FreeStack, Allocate, vars
<1>11. CASE UNCHANGED tvars
  BY <1>4, <1>11 DEF tvars
<1> QED BY <1>5, <1>6, <1>7, <1>8, <1>9, <1>10, <1>11 DEF TaskNext

(***************************************************************************)
(* The three together are invariant.                                       *)
(***************************************************************************)
LEMMA TaskInvariant ==
  ~AppMayDisable => (TaskSpec => [](KernelInv /\ MemoryInv /\ WalkInv))
<1> SUFFICES ASSUME ~AppMayDisable
             PROVE  TaskSpec => [](KernelInv /\ MemoryInv /\ WalkInv)
  OBVIOUS
<1>1. TaskInit => KernelInv
  BY InitKernelInv DEF TaskInit
<1>2. TaskInit => MemoryInv
  BY InitMemoryInv
<1>3. TaskInit => WalkInv
  BY InitWalkInv
<1>4. KernelInv /\ [TaskNext]_tvars => KernelInv'
  BY TaskStepKernelInv
<1>5. KernelInv /\ MemoryInv /\ [TaskNext]_tvars => MemoryInv'
  BY StepMemoryInv
<1>6. KernelInv /\ WalkInv /\ [TaskNext]_tvars => WalkInv'
  BY StepWalkInv
<1> QED BY <1>1, <1>2, <1>3, <1>4, <1>5, <1>6, PTL DEF TaskSpec

(***************************************************************************)
(* The state always has its type: in particular a walk that follows the    *)
(* pointers of processes that have left the list never meets the null      *)
(* pointer of a structure that was not linked.                             *)
(***************************************************************************)
THEOREM TaskTypes == ~AppMayDisable => (TaskSpec => []TaskTypeOK)
<1>1. KernelInv /\ MemoryInv /\ WalkInv => TaskTypeOK
  BY DEF KernelInv, MemoryInv, WalkInv, TaskTypeOK
<1> QED BY <1>1, TaskInvariant, PTL

(***************************************************************************)
(* Tasks that end leave the list one cycle: the critical section of        *)
(* os_task_delete keeps what OsCore promises of the other calls.           *)
(***************************************************************************)
THEOREM TaskRing ==
  ~AppMayDisable =>
    (TaskSpec => [](RingIntact /\ OnlyEnabledRuns /\ NoEndlessSearch))
<1>1. KernelInv => RingIntact /\ OnlyEnabledRuns /\ NoEndlessSearch
  BY DEF KernelInv, RingIntact, NoEndlessSearch
<1> QED BY <1>1, TaskInvariant, PTL

(***************************************************************************)
(* A task that can run has a stack of its own, allocated, that no call of  *)
(* os_task_delete is about to free and no call of os_task_create is about  *)
(* to hand to another, although os_malloc and os_free are called in no     *)
(* critical section.                                                       *)
(***************************************************************************)
THEOREM TaskStacks == ~AppMayDisable => (TaskSpec => []StacksOwned)
<1>1. KernelInv /\ MemoryInv => StacksOwned
  BY DEF KernelInv, MemoryInv, StacksOwned
<1> QED BY <1>1, TaskInvariant, PTL

(***************************************************************************)
(* Every block in use belongs to a task, is in the hands of a call that    *)
(* creates or deletes one, or was lost with a task that deleted itself or  *)
(* was deleted in such a call.                                             *)
(***************************************************************************)
THEOREM TaskLeaks == ~AppMayDisable => (TaskSpec => []NothingElseLeaks)
<1>1. ASSUME KernelInv, MemoryInv PROVE NothingElseLeaks
  <2> DEFINE busy == {q \in created \cup {App} : Subject(q) # Null}
             owned == {stack[p] : p \in created} \cup {stack[Subject(q)] : q \in busy}
  <2>1. created \subseteq Proc /\ App \in Proc
    BY <1>1, ProcessAssumption DEF KernelInv, TypeOK, Task
  <2>2. busy = {q \in Proc : Subject(q) # Null}
    BY <1>1, <2>1 DEF MemoryInv
  <2>3. owned \subseteq used
    BY <1>1, <2>2 DEF MemoryInv
  <2>4. used \ lost \subseteq owned
    BY <1>1, <2>2 DEF MemoryInv
  <2>5. lost \subseteq used
    BY <1>1 DEF MemoryInv
  <2>6. used = owned \cup lost
    <3> HIDE DEF owned
    <3> QED BY <2>3, <2>4, <2>5
  <2> QED BY <2>6 DEF NothingElseLeaks
<1> QED BY <1>1, TaskInvariant, PTL

(***************************************************************************)
(* A walk of os_statistics_task_cpu_allocation that has seen no change of  *)
(* the list has counted every active task, and each of them once.          *)
(***************************************************************************)
THEOREM TaskShare == ~AppMayDisable => (TaskSpec => ShareExact)
<1> SUFFICES ASSUME ~AppMayDisable PROVE TaskSpec => ShareExact
  OBVIOUS
<1> DEFINE Exact(p) == walk[p].same /\ walk'[p] = NoWalk /\ list' = list
                         => walk[p].sum = Cardinality(Active(list) \ {App})
<1>1. ASSUME KernelInv, WalkInv, TaskNext, NEW p \in Proc PROVE Exact(p)
  <2> SUFFICES ASSUME walk[p].same, walk'[p] = NoWalk, list' = list
               PROVE  walk[p].sum = Cardinality(Active(list) \ {App})
    OBVIOUS
  <2>1. /\ list \in List /\ WellFormed(list) /\ list.appType = "application"
        /\ walk \in [Proc -> Walk] /\ cur \in Proc
    BY <1>1 DEF KernelInv, TypeOK, WalkInv
  <2>2. walk[p] # NoWalk
    BY DEF NoWalk
  <2>3. walk'[p] # walk[p]
    BY <2>2
  <2>4. CASE WalkStep
    <3>1. p = cur
      BY <2>1, <2>3, <2>4 DEF WalkStep
    <3> DEFINE w == walk[p]
    <3>2. w \in Walk /\ w.task \in Task /\ w.last \in Proc
      BY <1>1, <2>1, <2>2 DEF WalkInv
    <3>3. w.last = w.task
      <4> SUFFICES ASSUME w.last # w.task PROVE FALSE
        OBVIOUS
      <4>1. walk'[p] =
              [w EXCEPT !.sum = @ + (IF w.same /\ IsTask(w.last) THEN 1 ELSE 0),
                        !.last = list.next[w.last]]
        BY <2>1, <2>4, <3>1 DEF WalkStep
      <4>2. walk'[p].task = w.task
        BY <3>2, <4>1 DEF Walk
      <4> QED BY <3>2, <4>2, ProcessAssumption DEF NoWalk, Task
    <3>4. PICK V \in SUBSET Active(list) : Counted(list, w, V)
      BY <1>1 DEF WalkInv
    <3> HIDE DEF w
    <3>5. w.sum = Cardinality(Active(list) \ {App})
      BY <2>1, <3>2, <3>3, <3>4, CountedAll
    <3> QED BY <3>5 DEF w
  <2>5. ASSUME NEW q \in Task, Delete(q) PROVE FALSE
    <3>1. ~walk[q].same
      BY <1>1, <2>5, DeleteEndsNoExactWalk
    <3>2. walk' = [walk EXCEPT ![q] = NoWalk]
      BY <2>5 DEF Delete, Walks
    <3> QED BY <2>1, <2>3, <3>1, <3>2
  <2>6. ASSUME NEW q \in Task, WalkStart(q) PROVE FALSE
    BY <2>1, <2>2, <2>6, ProcessAssumption
       DEF WalkStart, Free, NoWalk, Task
  <2>7. CASE CoreStep \/ FreeStack \/ \E q \in Task : Allocate(q) \/ CreateTask(q)
    BY <2>3, <2>7 DEF CoreStep, FreeStack, Allocate, CreateTask, Walks
  <2> QED BY <1>1, <2>4, <2>5, <2>6, <2>7 DEF TaskNext
<1>2. KernelInv /\ WalkInv /\ [TaskNext]_tvars
        => [\A p \in Proc : Exact(p)]_tvars
  <2> HIDE DEF Exact
  <2> QED BY <1>1
<1>3. TaskSpec => [](KernelInv /\ WalkInv)
  BY TaskInvariant, PTL
<1> QED BY <1>2, <1>3, PTL DEF TaskSpec, ShareExact
=============================================================================
