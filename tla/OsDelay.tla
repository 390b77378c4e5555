------------------------------ MODULE OsDelay ------------------------------
(***************************************************************************)
(* os_task_delay of eeOS (os/os_task.c) on the kernel core: the tick       *)
(* counter, a number that wraps, is read twice and then compared with what *)
(* has been read, in two loops that yield.                                 *)
(***************************************************************************)
EXTENDS OsCore

CONSTANTS
  TickRange,   \* the number of values of os_tick_t
  Delays,      \* the arguments of os_task_delay
  Margin       \* the values of the counter among which a task in a delay,
               \* by its turns, sees one

ASSUME DelayAssumption ==
  /\ TickRange \in Nat \ {0}
  /\ Delays \subseteq 1 .. TickRange - 1
  /\ Margin \in Nat

VARIABLES
  tick,    \* os_tick_counter
  pc,      \* where each task is in os_task_delay
  local,   \* its start_tick, last_tick and argument
  left,    \* history: ticks that must still pass before the delay is over
  fresh    \* cur is in os_task_delay and has not gone on since it was picked

dvars == <<list, cur, mode, started, created, prio, pcnt, write,
           tick, pc, local, left, fresh>>

delaying == <<tick, pc, local, left, fresh>>

Ticks == 0 .. TickRange - 1

Positions == {"out", "read", "first", "first yield", "second", "second yield"}

DelayTypeOK ==
  /\ TypeOK
  /\ tick \in Ticks
  /\ pc \in [Task -> Positions]
  /\ local \in [Task -> [start : Ticks, last : Ticks, ticks : Delays \cup {0}]]
  /\ left \in [Task -> Delays \cup Ticks]
  /\ fresh \in BOOLEAN

NoDelay == [start |-> 0, last |-> 0, ticks |-> 0]

DelayInit ==
  /\ Init
  /\ tick = 0
  /\ pc = [p \in Task |-> "out"]
  /\ local = [p \in Task |-> NoDelay]
  /\ left = [p \in Task |-> 0]
  /\ fresh = FALSE

\* The running process is in no call.
Free == Calling /\ (cur \in Task => pc[cur] = "out")

-----------------------------------------------------------------------------
(* os_task_delay: the counter is read twice, then compared in two loops.   *)

At(p, position) == Calling /\ cur = p /\ pc[p] = position

Goto(p, position) == pc' = [pc EXCEPT ![p] = position] /\ fresh' = FALSE

\* The first read.
DelayStart(p, n) ==
  /\ Free
  /\ cur = p
  /\ local' = [local EXCEPT ![p] = [start |-> tick, last |-> 0, ticks |-> n]]
  /\ Goto(p, "read")
  /\ UNCHANGED <<vars, tick, left>>

\* Mutant: the end comes one tick too early.
DelayReadEarly(p) ==
  LET n    == local[p].ticks
      last == (tick + n - 1) % TickRange
  IN
  /\ At(p, "read")
  /\ local' = [local EXCEPT ![p] = [start |-> IF last < @.start THEN @.start ELSE 0,
                                    last |-> last, ticks |-> n]]
  /\ left' = [left EXCEPT ![p] = n]
  /\ Goto(p, IF last < local[p].start THEN "first" ELSE "second")
  /\ UNCHANGED <<vars, tick>>

\* The second read; the argument of the first loop's test is known then.
DelayRead(p) ==
  LET n    == local[p].ticks
      last == (tick + n) % TickRange
  IN
  /\ At(p, "read")
  /\ local' = [local EXCEPT ![p] = [start |-> IF last < @.start THEN @.start ELSE 0,
                                    last |-> last, ticks |-> n]]
  /\ left' = [left EXCEPT ![p] = n]
  /\ Goto(p, IF last < local[p].start THEN "first" ELSE "second")
  /\ UNCHANGED <<vars, tick>>

\* "Monitor the 1rst half".
DelayFirst(p) ==
  /\ At(p, "first")
  /\ Goto(p, IF tick > local[p].start THEN "first yield" ELSE "second")
  /\ local' = [local EXCEPT ![p].start = IF pc'[p] = "second" THEN 0 ELSE @]
  /\ UNCHANGED <<vars, tick, left>>

\* Mutant: the loop waits for the one value, not for the first after it.
DelaySecondLate(p) ==
  /\ At(p, "second")
  /\ Goto(p, IF tick # local[p].last THEN "second yield" ELSE "out")
  /\ local' = [local EXCEPT ![p] = IF pc'[p] = "out" THEN NoDelay ELSE @]
  /\ left' = [left EXCEPT ![p] = IF pc'[p] = "out" THEN 0 ELSE @]
  /\ UNCHANGED <<vars, tick>>

DelaySecond(p) ==
  /\ At(p, "second")
  /\ Goto(p, IF tick < local[p].last THEN "second yield" ELSE "out")
  /\ local' = [local EXCEPT ![p] = IF pc'[p] = "out" THEN NoDelay ELSE @]
  /\ left' = [left EXCEPT ![p] = IF pc'[p] = "out" THEN 0 ELSE @]
  /\ UNCHANGED <<vars, tick>>

DelayYield(p) ==
  /\ \/ At(p, "first yield") /\ Goto(p, "first")
     \/ At(p, "second yield") /\ Goto(p, "second")
  /\ Yield
  /\ UNCHANGED <<tick, local, left>>

Delaying(p) == DelayRead(p) \/ DelayFirst(p) \/ DelaySecond(p) \/ DelayYield(p)

\* __os_switch_context_int_handler_hook: the counter goes on with each tick.
\* The time between two ticks is long enough for a task that is resumed in
\* os_task_delay to execute something before the next one.
CountTick ==
  /\ ~fresh
  /\ Tick
  /\ tick' = (tick + 1) % TickRange
  /\ left' = [p \in Task |-> IF left[p] > 0 THEN left[p] - 1 ELSE 0]
  /\ UNCHANGED <<pc, local, fresh>>

-----------------------------------------------------------------------------

CoreStep ==
  /\ \/ Free /\ (Start \/ Yield)
     \/ \E p \in Task : Free /\ Create(p, TRUE)
     \/ \E p \in Task : Free /\ (EnableCall(p) \/ DisableCall(p))
  /\ UNCHANGED delaying

Pick ==
  /\ Schedule
  /\ fresh' = (mode' = "run" /\ cur' \in Task /\ pc[cur'] # "out")
  /\ UNCHANGED <<tick, pc, local, left>>

DelayNext ==
  \/ CoreStep
  \/ Pick
  \/ CountTick
  \/ \E p \in Task : \/ \E n \in Delays : DelayStart(p, n)
                     \/ Delaying(p)

DelaySpec == DelayInit /\ [][DelayNext]_dvars

\* The scheduler goes on; time passes, and a tick that falls while interrupts
\* are masked is taken when they are not; and a task that is given the
\* processor again and again goes on in os_task_delay.
DelayFairSpec ==
  /\ DelaySpec
  /\ WF_dvars(Pick)
  /\ SF_dvars(CountTick)
  /\ \A p \in Task : SF_dvars(Delaying(p))

-----------------------------------------------------------------------------
(* Safety.                                                                 *)

\* "Block the execution of a task until a number of ticks have passed"
\* (os_task.h): no delay ends before its last tick.
EndsEarly(p) ==
  pc[p] = "second" /\ pc'[p] = "out" /\ left[p] > 0

DelaysLongEnough == [][\A p \in Task : ~EndsEarly(p)]_dvars

\* A delay whose end is not past the wrap of the counter is never too short,
\* wherever it is preempted, between its two reads of the counter too.
UnwrappedLongEnough ==
  [][\A p \in Task : EndsEarly(p) => local[p].last < local[p].ticks]_dvars

-----------------------------------------------------------------------------
(* Liveness, under DelayFairSpec.                                          *)

\* The values of the counter that end each loop are enough of them.
Seen(p) ==
  /\ local[p].last + Margin <= TickRange
  /\ pc[p] = "first" => local[p].start + 1 >= Margin

\* A delay comes to its end, once the list of active tasks has settled, when
\* it is far enough from the wrap for the task to see the counter there: a
\* task that misses the values between its end and the wrap waits for them
\* once more, and yields in between.
EveryDelayEnds ==
  <>[][UNCHANGED list]_dvars
    => \A p \in Task : pc[p] \in {"first", "second"} /\ Seen(p)
                         ~> pc[p] = "out" \/ ~Enabled(list, p)
=============================================================================
