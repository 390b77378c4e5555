------------------------------- MODULE OsTask -------------------------------
(***************************************************************************)
(* The life of a task of eeOS on the kernel core: os_task_create, which    *)
(* allocates a stack in no critical section and enables the task in one,   *)
(* os_task_delete, which disables the task in a critical section and frees *)
(* its stack after it (os/os_task.c, os/os_task.h), and                    *)
(* os_statistics_task_cpu_allocation, which walks around the active list   *)
(* in no critical section (os/os_statistics.c), while tasks come and go.   *)
(*                                                                         *)
(* The allocator is not part of eeOS: it returns a free block, or none.    *)
(* Callers keep to what the calls need: a task that is deleted is not      *)
(* enabled, a structure is not given to os_task_create while another call  *)
(* creates or deletes the task in it, and the share of an active task only *)
(* is asked for.  The creator and the deleter may be deleted themselves.   *)
(***************************************************************************)
EXTENDS OsCore, FiniteSets

CONSTANTS
  Block,    \* what the heap has room for: stacks
  Walkers   \* bound: the processes that ask for the share of a task

ASSUME WalkersAssumption == Walkers \subseteq Proc

VARIABLES
  stack,   \* task->stack
  used,    \* the blocks that are allocated
  creates, \* the task a process is creating, its stack allocated
  frees,   \* the task whose stack a process owes a call of os_free
  lost,    \* history: the blocks nobody will free
  walk     \* the locals of os_statistics_task_cpu_allocation, its sum while
           \* (history) the list has not changed since the call

tvars == <<list, cur, mode, started, created, prio, pcnt, write,
           stack, used, creates, frees, lost, walk>>

memory == <<stack, used, creates, frees, lost>>

\* The task a process is creating or deleting.
Subject(p) == IF frees[p] = Null THEN creates[p] ELSE frees[p]

NoWalk == [task |-> Null, last |-> Null, sum |-> 0, same |-> FALSE]

TaskTypeOK ==
  /\ TypeOK
  /\ stack \in [Task -> Block \cup {Null}]
  /\ used \in SUBSET Block
  /\ creates \in [Proc -> Task \cup {Null}]
  /\ frees \in [Proc -> Task \cup {Null}]
  /\ lost \in SUBSET Block
  /\ \A p \in Proc :
       walk[p] = NoWalk \/ (walk[p].task \in Task /\ walk[p].last \in Proc)

TaskInit ==
  /\ Init
  /\ stack = [p \in Task |-> Null]
  /\ used = {}
  /\ creates = [p \in Proc |-> Null]
  /\ frees = [p \in Proc |-> Null]
  /\ lost = {}
  /\ walk = [p \in Proc |-> NoWalk]

\* The running process is in none of the calls of this module.
Free == Calling /\ Subject(cur) = Null /\ walk[cur] = NoWalk

\* What an edit of the list means to the walks.
Walks(w) ==
  walk' = IF list' = list THEN w
          ELSE [p \in Proc |-> [w[p] EXCEPT !.same = FALSE, !.sum = 0]]

-----------------------------------------------------------------------------
(* Creating and deleting.                                                  *)

\* os_task_create up to the return of os_malloc, in no critical section;
\* with no block left nothing happens.
Allocate(p) ==
  /\ Free
  /\ p \in Task \ created
  /\ \A q \in Proc : Subject(q) # p
  /\ \E b \in Block \ used :
       /\ used' = used \cup {b}
       /\ stack' = [stack EXCEPT ![p] = b]
  /\ creates' = [creates EXCEPT ![cur] = p]
  /\ UNCHANGED <<vars, frees, lost, walk>>

\* The rest of os_task_create: the task is initialised, which nobody else can
\* see, and enabled in a critical section.
CreateTask(p) ==
  /\ creates[cur] = p
  /\ Create(p, TRUE)
  /\ creates' = [creates EXCEPT ![cur] = Null]
  /\ Walks(walk)
  /\ UNCHANGED <<stack, used, frees, lost>>

\* What dies with a task that is deleted: its own stack when it deletes
\* itself, and the stack of the task it was about to enable or to free.
Abandoned(p) == (IF p = cur THEN {stack[p]} ELSE {})
                  \cup (IF Subject(p) = Null THEN {} ELSE {stack[Subject(p)]})

\* Mutant: the stack is freed first, and the task disabled after it.
DeleteFreesFirst(p) ==
  /\ Free
  /\ p \in created \ {cur}
  /\ \/ /\ stack[p] \in used
        /\ used' = used \ {stack[p]}
        /\ UNCHANGED <<vars, stack, creates, frees, lost, walk>>
     \/ /\ stack[p] \notin used
        /\ DisableCall(p)
        /\ Walks(walk)
        /\ UNCHANGED memory

\* os_task_delete up to the return of __os_process_disable.  A task that
\* deletes itself does not come back from there.
Delete(p) ==
  /\ Free
  /\ p \in created
  /\ cur = App => AppMayDisable
  /\ Edit(Disable(list, p), DisableHangs(list, p),
          IF p = cur THEN "sched" ELSE "run")
  /\ created' = created \ {p}
  /\ lost' = lost \cup Abandoned(p)
  /\ creates' = [creates EXCEPT ![p] = Null]
  /\ frees' = [frees EXCEPT ![p] = Null, ![cur] = IF p = cur THEN Null ELSE p]
  /\ Walks([walk EXCEPT ![p] = NoWalk])
  /\ UNCHANGED <<cur, started, prio, pcnt, write, stack, used>>

\* Mutant: os_free is left out.
FreeStackNot ==
  /\ Calling
  /\ frees[cur] # Null
  /\ frees' = [frees EXCEPT ![cur] = Null]
  /\ UNCHANGED <<vars, stack, used, creates, lost, walk>>

\* The rest of os_task_delete, in no critical section: os_free.
FreeStack ==
  /\ Calling
  /\ frees[cur] # Null
  /\ used' = used \ {stack[frees[cur]]}
  /\ frees' = [frees EXCEPT ![cur] = Null]
  /\ UNCHANGED <<vars, stack, creates, lost, walk>>

-----------------------------------------------------------------------------
(* os_statistics_task_cpu_allocation, without priorities.                  *)

\* __os_process_is_task.
IsTask(p) == p \in Task

WalkStart(p) ==
  /\ Free
  /\ cur \in Walkers
  /\ p \in created /\ Enabled(list, p)
  /\ walk' = [walk EXCEPT ![cur] = [task |-> p, last |-> list.next[p],
                                    sum |-> 1, same |-> TRUE]]
  /\ UNCHANGED <<vars, memory>>

\* Mutant: the walk follows the running process.
WalkStepFromSelf ==
  LET w == walk[cur] IN
  /\ Calling
  /\ w # NoWalk
  /\ walk' = [walk EXCEPT ![cur] =
       IF w.last = w.task THEN NoWalk
       ELSE [w EXCEPT !.sum = @ + (IF w.same /\ IsTask(w.last) THEN 1 ELSE 0),
                      !.last = list.next[cur]]]
  /\ UNCHANGED <<vars, memory>>

\* One pass of the loop; the sum is in shares of 100.
WalkStep ==
  LET w == walk[cur] IN
  /\ Calling
  /\ w # NoWalk
  /\ walk' = [walk EXCEPT ![cur] =
       IF w.last = w.task THEN NoWalk
       ELSE [w EXCEPT !.sum = @ + (IF w.same /\ IsTask(w.last) THEN 1 ELSE 0),
                      !.last = list.next[w.last]]]
  /\ UNCHANGED <<vars, memory>>

-----------------------------------------------------------------------------

CoreStep ==
  \/ /\ \/ Free /\ (Start \/ Yield)
        \/ Tick
        \/ Schedule
     /\ UNCHANGED <<memory, walk>>
  \/ /\ \E p \in Task : Free /\ (EnableCall(p) \/ DisableCall(p))
     /\ Walks(walk)
     /\ UNCHANGED memory

TaskNext ==
  \/ CoreStep
  \/ FreeStack
  \/ WalkStep
  \/ \E p \in Task : Allocate(p) \/ CreateTask(p) \/ Delete(p) \/ WalkStart(p)

TaskSpec == TaskInit /\ [][TaskNext]_tvars

\* The scheduler goes on, the tick is periodic, and a process that is given
\* the processor again and again goes on with its walk.
TaskFairSpec ==
  /\ TaskSpec
  /\ WF_tvars(Schedule /\ UNCHANGED <<memory, walk>>)
  /\ WF_tvars(Tick /\ UNCHANGED <<memory, walk>>)
  /\ \A p \in Walkers : SF_tvars(cur = p /\ WalkStep)

-----------------------------------------------------------------------------
(* Safety.                                                                 *)

\* Every task that can run has a stack of its own that is allocated and that
\* no other call is about to hand to a new task or to free, whoever is
\* deleted and whatever is created while a creation is between os_malloc and
\* its critical section, or a deletion between its own and os_free.
StacksOwned ==
  /\ \A p \in Task : Enabled(list, p) => p \in created
  /\ \A p \in created : stack[p] \in used \ lost
  /\ \A p, q \in created : stack[p] = stack[q] => p = q
  /\ \A p \in created, q \in Proc :
       Subject(q) # Null => stack[Subject(q)] # stack[p]
  /\ \A p, q \in Proc :
       Subject(p) # Null /\ Subject(q) # Null
         => (stack[Subject(p)] = stack[Subject(q)] => p = q)

\* Memory is lost only with a task that deletes itself, or that is deleted in
\* a call of os_task_create or os_task_delete: each other block in use has an
\* owner, a task or a call that will enable the task or free the block.
NothingElseLeaks ==
  LET busy == {q \in created \cup {App} : Subject(q) # Null} IN
  used = {stack[p] : p \in created} \cup {stack[Subject(q)] : q \in busy} \cup lost

\* The walk counts every active task once when the list stays as it is,
\* though the entry point of the list moves with each switch.
ShareExact ==
  [][\A p \in Proc :
       walk[p].same /\ walk'[p] = NoWalk /\ list' = list
         => walk[p].sum = Cardinality(Active(list) \ {App})]_tvars

-----------------------------------------------------------------------------
(* Liveness, under TaskFairSpec.                                           *)

\* A walk that a change of the list has led astray, on a process that left,
\* finds its way back to its task and ends, if that task stays active.
EveryWalkEnds ==
  <>[][UNCHANGED list]_tvars
    => \A p \in Walkers :
         walk[p] # NoWalk /\ Enabled(list, walk[p].task)
           ~> walk[p] = NoWalk \/ ~Enabled(list, p)
                \/ ~Enabled(list, walk[p].task)
=============================================================================
