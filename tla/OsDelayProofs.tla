---------------------------- MODULE OsDelayProofs ----------------------------
(***************************************************************************)
(* The safety properties of OsDelay for every range of the tick counter,   *)
(* every set of arguments, every set of tasks and both insertion points.   *)
(*                                                                         *)
(* os_task_delay calls the kernel and edits nothing itself: OsDelay is     *)
(* shown to implement OsCore, whose theorems hold of it then.  DelayInv    *)
(* says how far the counter is from the end of a delay that is not past    *)
(* the wrap; it holds from the second read on, whatever the counter has    *)
(* done since the first.                                                   *)
(***************************************************************************)
EXTENDS OsDelay, OsCoreProofs

LocalType == [start : Ticks, last : Ticks, ticks : Delays \cup {0}]

\* The positions after the second read.
Looping(p) == pc[p] \in {"first", "first yield", "second", "second yield"}

DelayInv ==
  /\ tick \in Ticks
  /\ pc \in [Task -> Positions]
  /\ local \in [Task -> LocalType]
  /\ left \in [Task -> Ticks]
  /\ fresh \in BOOLEAN
  /\ \A p \in Task : pc[p] = "read" => local[p].ticks \in Delays
  /\ \A p \in Task : Looping(p) /\ local[p].last >= local[p].ticks /\ left[p] > 0
                       => tick + left[p] = local[p].last

(***************************************************************************)
(* Every step is a step of the kernel core, or leaves it alone.            *)
(***************************************************************************)
LEMMA DelayStepIsCoreStep == [DelayNext]_dvars => [Next]_vars
<1> SUFFICES ASSUME [DelayNext]_dvars PROVE [Next]_vars
  OBVIOUS
<1>1. CASE CoreStep
  BY <1>1 DEF CoreStep, Next
<1>2. CASE Pick \/ CountTick
  BY <1>2 DEF Pick, CountTick, Next
<1>3. ASSUME NEW p \in Task, \E n \in Delays : DelayStart(p, n)
      PROVE  [Next]_vars
  BY <1>3 DEF DelayStart
<1>4. ASSUME NEW p \in Task, Delaying(p) PROVE [Next]_vars
  BY <1>4 DEF Delaying, DelayRead, DelayFirst, DelaySecond, DelayYield, Next
<1>5. CASE UNCHANGED dvars
  BY <1>5 DEF dvars, vars
<1> QED BY <1>1, <1>2, <1>3, <1>4, <1>5 DEF DelayNext

(***************************************************************************)
(* A task in os_task_delay, its loops and the counter that goes on beside  *)
(* the scheduler are to the kernel core a task that yields: what is proved *)
(* of OsCore holds while tasks wait.                                       *)
(***************************************************************************)
THEOREM DelayImplementsCore == DelaySpec => Spec
<1>1. DelayInit => Init
  BY DEF DelayInit
<1>2. [DelayNext]_dvars => [Next]_vars
  BY DelayStepIsCoreStep
<1> QED BY <1>1, <1>2, PTL DEF DelaySpec, Spec

(***************************************************************************)
(* Counting modulo the range: the end of a delay is past the wrap exactly  *)
(* when it is less than the delay.                                         *)
(***************************************************************************)
LEMMA EndOfDelay ==
  ASSUME NEW t \in Ticks, NEW n \in 0 .. TickRange - 1
  PROVE  LET last == (t + n) % TickRange IN
         /\ last \in Ticks
         /\ last >= n => t + n = last
<1>1. /\ TickRange \in Nat \ {0} /\ t \in 0 .. TickRange - 1
  BY DelayAssumption DEF Ticks
<1>2. CASE t + n < TickRange
  <2>1. (t + n) % TickRange = t + n
    BY <1>1, <1>2
  <2> QED BY <1>1, <1>2, <2>1 DEF Ticks
<1>3. CASE t + n >= TickRange
  <2>1. (t + n) % TickRange = t + n - TickRange
    BY <1>1, <1>3
  <2> QED BY <1>1, <1>3, <2>1 DEF Ticks
<1> QED BY <1>1, <1>2, <1>3

(***************************************************************************)
(* DelayInv is inductive on its own.                                       *)
(***************************************************************************)
LEMMA InitDelayInv == DelayInit => DelayInv
<1> SUFFICES ASSUME DelayInit PROVE DelayInv
  OBVIOUS
<1>1. 0 \in Ticks
  BY DelayAssumption DEF Ticks
<1>2. local \in [Task -> LocalType]
  BY <1>1 DEF DelayInit, NoDelay, LocalType
<1> QED BY <1>1, <1>2 DEF DelayInit, DelayInv, Positions, Looping

LEMMA StepDelayInv ==
  ASSUME DelayInv, [DelayNext]_dvars
  PROVE  DelayInv'
<1> USE DEF LocalType
<1>1. /\ TickRange \in Nat \ {0} /\ Ticks = 0 .. TickRange - 1 /\ 0 \in Ticks
      /\ Delays \subseteq Ticks /\ \A n \in Delays : n \in Nat /\ n > 0
  BY DelayAssumption DEF Ticks
<1>2. CASE UNCHANGED <<tick, pc, local, left>> /\ fresh' \in BOOLEAN
  BY <1>2 DEF DelayInv, Looping
<1>3. ASSUME NEW p \in Task, NEW n \in Delays, DelayStart(p, n) PROVE DelayInv'
  <2> DEFINE x == [start |-> tick, last |-> 0, ticks |-> n]
  <2>1. x \in LocalType /\ x.ticks = n
    BY <1>1 DEF DelayInv
  <2>2. /\ pc' = [pc EXCEPT ![p] = "read"] /\ fresh' = FALSE
        /\ local' = [local EXCEPT ![p] = x]
        /\ UNCHANGED <<tick, left>>
    BY <1>3 DEF DelayStart, Goto
  <2> HIDE DEF x
  <2> QED BY <2>1, <2>2 DEF DelayInv, Looping, Positions
<1>4. ASSUME NEW p \in Task, DelayRead(p) PROVE DelayInv'
  <2> DEFINE n == local[p].ticks
             last == (tick + n) % TickRange
             start == IF last < local[p].start THEN local[p].start ELSE 0
             x == [start |-> start, last |-> last, ticks |-> n]
             next == IF last < local[p].start THEN "first" ELSE "second"
  <2>1. n \in Delays /\ local[p].start \in Ticks /\ tick \in Ticks
    BY <1>4 DEF DelayInv, DelayRead, At
  <2>2. last \in Ticks /\ (last >= n => tick + n = last)
    BY <1>1, <2>1, EndOfDelay
  <2>3. x \in LocalType /\ x.last = last /\ x.ticks = n /\ start \in Ticks
    <3> HIDE DEF last, n
    <3> QED BY <1>1, <2>1, <2>2
  <2>4. /\ pc' = [pc EXCEPT ![p] = next] /\ fresh' = FALSE
        /\ local' = [local EXCEPT ![p] = x]
        /\ left' = [left EXCEPT ![p] = n]
        /\ UNCHANGED tick
    BY <1>4 DEF DelayRead, Goto
  <2>5. next \in {"first", "second"}
    OBVIOUS
  <2> HIDE DEF n, last, x, next
  <2> QED BY <1>1, <2>1, <2>2, <2>3, <2>4, <2>5 DEF DelayInv, Looping, Positions
<1>5. ASSUME NEW p \in Task, DelayFirst(p) PROVE DelayInv'
  <2>1. /\ pc[p] = "first"
        /\ \E q \in {"first yield", "second"} : pc' = [pc EXCEPT ![p] = q]
        /\ fresh' = FALSE
        /\ \E v \in {0, local[p].start} : local' = [local EXCEPT ![p].start = v]
        /\ UNCHANGED <<tick, left>>
    BY <1>5 DEF DelayFirst, At, Goto
  <2>2. /\ local' \in [Task -> LocalType]
        /\ \A q \in Task : /\ local'[q].last = local[q].last
                           /\ local'[q].ticks = local[q].ticks
    <3>1. PICK v \in Ticks : local' = [local EXCEPT ![p].start = v]
      BY <1>1, <2>1 DEF DelayInv
    <3> DEFINE x == [local[p] EXCEPT !.start = v]
    <3>2. local[p] \in LocalType
      BY DEF DelayInv
    <3>3. x \in LocalType /\ x.last = local[p].last /\ x.ticks = local[p].ticks
      BY <3>2
    <3>4. local' = [local EXCEPT ![p] = x]
      BY <3>1
    <3> HIDE DEF x
    <3> QED BY <3>3, <3>4 DEF DelayInv
  <2> QED BY <2>1, <2>2 DEF DelayInv, Looping, Positions
<1>6. ASSUME NEW p \in Task, DelaySecond(p) PROVE DelayInv'
  <2>1. CASE pc' = [pc EXCEPT ![p] = "out"]
    <3>1. /\ local' = [local EXCEPT ![p] = NoDelay]
          /\ left' = [left EXCEPT ![p] = 0]
          /\ UNCHANGED tick /\ fresh' = FALSE
      BY <1>6, <2>1 DEF DelaySecond, At, Goto, DelayInv
    <3>2. NoDelay \in LocalType
      BY <1>1 DEF NoDelay
    <3> QED BY <1>1, <2>1, <3>1, <3>2 DEF DelayInv, Looping, Positions
  <2>2. CASE pc' = [pc EXCEPT ![p] = "second yield"]
    <3>1. /\ UNCHANGED <<tick, local, left>> /\ fresh' = FALSE
          /\ pc[p] = "second"
      BY <1>6, <2>2 DEF DelaySecond, At, Goto, DelayInv
    <3> QED BY <2>2, <3>1 DEF DelayInv, Looping, Positions
  <2> QED BY <1>6, <2>1, <2>2 DEF DelaySecond, Goto
<1>7. ASSUME NEW p \in Task, DelayYield(p) PROVE DelayInv'
  <2>1. /\ pc[p] \in {"first yield", "second yield"}
        /\ \E q \in {"first", "second"} : pc' = [pc EXCEPT ![p] = q]
        /\ fresh' = FALSE /\ UNCHANGED <<tick, local, left>>
    BY <1>7 DEF DelayYield, At, Goto
  <2> QED BY <2>1 DEF DelayInv, Looping, Positions
<1>8. CASE CountTick
  <2>1. /\ tick' = (tick + 1) % TickRange
        /\ left' = [p \in Task |-> IF left[p] > 0 THEN left[p] - 1 ELSE 0]
        /\ UNCHANGED <<pc, local, fresh>>
    BY <1>8 DEF CountTick
  <2>2. tick \in Ticks /\ tick' \in Ticks
    BY <1>1, <2>1 DEF DelayInv
  <2>3. left' \in [Task -> Ticks]
    BY <1>1, <2>1 DEF DelayInv
  <2>4. ASSUME NEW p \in Task, Looping(p), local[p].last >= local[p].ticks,
               left'[p] > 0
        PROVE  tick' + left'[p] = local[p].last
    <3>1. /\ left[p] \in Ticks /\ left'[p] = left[p] - 1 /\ left[p] > 1
          /\ local[p].last \in Ticks
      BY <1>1, <2>1, <2>4 DEF DelayInv
    <3>2. tick + left[p] = local[p].last
      BY <1>1, <2>4, <3>1 DEF DelayInv
    <3>3. /\ tick + 1 < TickRange /\ tick + 1 \in Nat
      BY <1>1, <2>2, <3>1, <3>2
    <3>4. \A n \in Nat : n < TickRange => n % TickRange = n
      BY <1>1
    <3>5. tick' = tick + 1
      BY <2>1, <3>3, <3>4
    <3> QED BY <1>1, <2>2, <3>1, <3>2, <3>5
  <2> QED BY <2>1, <2>2, <2>3, <2>4 DEF DelayInv, Looping
<1>9. CASE CoreStep \/ Pick
  BY <1>2, <1>9 DEF CoreStep, Pick, delaying, DelayInv
<1>10. CASE UNCHANGED dvars
  BY <1>2, <1>10 DEF dvars, DelayInv
<1> QED BY <1>3, <1>4, <1>5, <1>6, <1>7, <1>8, <1>9, <1>10 DEF DelayNext, Delaying

LEMMA DelayInvariant == DelaySpec => []DelayInv
<1>1. DelayInit => DelayInv
  BY InitDelayInv
<1>2. DelayInv /\ [DelayNext]_dvars => DelayInv'
  BY StepDelayInv
<1> QED BY <1>1, <1>2, PTL DEF DelaySpec

(***************************************************************************)
(* The state always has its type: the counter stays in its range, and no   *)
(* task owes more ticks than the range has.                                *)
(***************************************************************************)
THEOREM DelayTypes == ~AppMayDisable => (DelaySpec => []DelayTypeOK)
<1> SUFFICES ASSUME ~AppMayDisable PROVE DelaySpec => []DelayTypeOK
  OBVIOUS
<1>1. TypeOK /\ DelayInv => DelayTypeOK
  BY DEF DelayInv, DelayTypeOK, LocalType
<1> QED BY <1>1, DelayImplementsCore, KernelTypes, DelayInvariant, PTL

(***************************************************************************)
(* A delay that ends before its last tick is one whose end is past the     *)
(* wrap of the counter, wherever the task was preempted, between its two   *)
(* reads of the counter too.                                               *)
(***************************************************************************)
THEOREM DelayLongEnough == DelaySpec => UnwrappedLongEnough
<1>1. ASSUME DelayInv, DelayNext, NEW p \in Task, EndsEarly(p)
      PROVE  local[p].last < local[p].ticks
  <2>1. /\ local[p].last \in Nat /\ local[p].ticks \in Nat
        /\ tick \in Nat /\ left[p] \in Nat /\ left[p] > 0
    <3>1. /\ local[p] \in LocalType /\ tick \in Ticks /\ left[p] \in Ticks
          /\ left[p] > 0
      BY <1>1 DEF DelayInv, EndsEarly
    <3>2. Ticks \subseteq Nat /\ Delays \cup {0} \subseteq Nat
      BY DelayAssumption DEF Ticks
    <3>3. local[p].last \in Ticks /\ local[p].ticks \in Delays \cup {0}
      BY <3>1 DEF LocalType
    <3> QED BY <3>1, <3>2, <3>3
  <2>2. pc[p] = "second" /\ pc'[p] = "out"
    BY <1>1 DEF EndsEarly
  <2>3. CASE DelaySecond(p)
    <3>1. ~(tick < local[p].last)
      <4>1. pc' = [pc EXCEPT ![p] = IF tick < local[p].last
                                    THEN "second yield" ELSE "out"]
        BY <2>3 DEF DelaySecond, Goto
      <4>2. pc \in [Task -> Positions]
        BY <1>1 DEF DelayInv
      <4> QED BY <2>2, <4>1, <4>2
    <3>2. local[p].last >= local[p].ticks => tick + left[p] = local[p].last
      BY <1>1, <2>1, <2>2 DEF DelayInv, Looping
    <3> QED BY <2>1, <3>1, <3>2
  <2>4. ASSUME NEW q \in Task, ~DelaySecond(p),
               Delaying(q) \/ \E n \in Delays : DelayStart(q, n)
        PROVE  FALSE
    BY <1>1, <2>2, <2>4
       DEF Delaying, DelayRead, DelayFirst, DelaySecond, DelayYield, DelayStart,
           At, Goto, DelayInv
  <2>5. CASE CoreStep \/ Pick \/ CountTick
    BY <2>2, <2>5 DEF CoreStep, Pick, CountTick, delaying
  <2> QED BY <1>1, <2>3, <2>4, <2>5 DEF DelayNext
<1>2. DelayInv /\ [DelayNext]_dvars
        => [\A p \in Task : EndsEarly(p) => local[p].last < local[p].ticks]_dvars
  BY <1>1
<1> QED BY <1>2, DelayInvariant, PTL DEF DelaySpec, UnwrappedLongEnough
=============================================================================
