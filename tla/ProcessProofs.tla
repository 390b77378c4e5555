---------------------------- MODULE ProcessProofs ----------------------------
(***************************************************************************)
(* What the two edits of the active process list preserve, for every set   *)
(* of processes and both configurations of the insertion point, and what   *)
(* the two edits of a process queue preserve, for every queue and all      *)
(* levels.  The lemmas speak of lists and queues, not of the variables of  *)
(* one component, so that every module that composes the edits can cite    *)
(* them.                                                                   *)
(***************************************************************************)
EXTENDS ProcessList, ProcessQueue, SequenceTheorems, FiniteSetTheorems,
        WellFoundedInduction, TLAPS

(***************************************************************************)
(* A walk that starts on the cycle meets the active processes, all of them.*)
(***************************************************************************)
LEMMA ReachOfActive ==
  ASSUME NEW l \in List, OneCycle(l), NEW p \in Active(l)
  PROVE  Reach(l.next, p) = Active(l)
<1> DEFINE A == Active(l)
           R == Reach(l.next, p)
<1>1. A \subseteq Proc /\ R \subseteq Proc
  BY DEF Active, Reach
<1>2. \A x \in A : l.next[x] \in A
  BY DEF OneCycle
<1>3. R \subseteq A
  <2>1. A \in SUBSET (Proc \cup {Null}) /\ p \in A
    BY <1>1
  <2>2. Closed(l.next, A)
    BY <1>2 DEF Closed
  <2> QED BY <2>1, <2>2 DEF Reach
<1>4. p \in R
  BY <1>1 DEF Reach
<1>5. \A y \in R : l.next[y] \in R
  <2> SUFFICES ASSUME NEW y \in R, NEW S \in SUBSET (Proc \cup {Null}),
                      p \in S, Closed(l.next, S)
               PROVE  l.next[y] \in S
    BY <1>1, <1>2, <1>3 DEF Reach
  <2>1. y \in S /\ y \in Proc
    BY DEF Reach
  <2> QED BY <2>1 DEF Closed
<1> QED BY <1>3, <1>4, <1>5 DEF OneCycle

(***************************************************************************)
(* The search of __os_process_disable_naked (and of the FIFO insertion)    *)
(* ends, at the one active process whose successor is p.                   *)
(***************************************************************************)
LEMMA PredOfActive ==
  ASSUME NEW l \in List, OneCycle(l), NEW p \in Active(l)
  PROVE  /\ HasPred(l.next, p)
         /\ Pred(l.next, p) \in Active(l)
         /\ l.next[Pred(l.next, p)] = p
<1> DEFINE A == Active(l)
           R == Reach(l.next, p)
           Image == {l.next[x] : x \in A}
<1>1. \A x \in A : l.next[x] \in A
  BY DEF OneCycle
<1>2. PICK x \in A : l.next[x] = p
  <2>1. Image \in SUBSET A /\ Image # {}
    BY <1>1
  <2>2. \A y \in Image : l.next[y] \in Image
    BY <1>1
  <2>3. Image = A
    BY <2>1, <2>2 DEF OneCycle
  <2> QED BY <2>3
<1>3. R = A
  BY ReachOfActive
<1>4. \E q \in R : l.next[q] = p
  BY <1>2, <1>3
<1>5. Pred(l.next, p) \in R /\ l.next[Pred(l.next, p)] = p
  BY <1>4 DEF Pred
<1> QED BY <1>3, <1>4, <1>5 DEF HasPred

(***************************************************************************)
(* The insertion point is on the list, in both configurations.             *)
(***************************************************************************)
LEMMA InsertionPointActive ==
  ASSUME NEW l \in List, OneCycle(l),
         NEW cur \in Proc, l.next[cur] \in Active(l)
  PROVE  /\ InsertionFound(l, cur)
         /\ InsertionPoint(l, cur) \in Active(l)
BY PredOfActive DEF InsertionFound, InsertionPoint

(***************************************************************************)
(* Linking a process behind a member of the cycle, and unlinking a member, *)
(* keeps one cycle, whatever its length.                                   *)
(***************************************************************************)
LEMMA LinkedCycle ==
  ASSUME NEW l \in List, OneCycle(l), NEW last \in Active(l),
         NEW p \in Proc, p \notin Active(l),
         NEW r, Active(r) = Active(l) \cup {p},
         r.next[p] = l.next[last], r.next[last] = p,
         \A x \in Active(l) : x # last => r.next[x] = l.next[x]
  PROVE  OneCycle(r)
<1> DEFINE A == Active(l)
           B == Active(r)
<1>1. /\ \A x \in A : l.next[x] \in A
      /\ \A x, y \in A : l.next[x] = l.next[y] => x = y
  BY DEF OneCycle
<1>2. B # {} /\ \A x \in B : r.next[x] \in B
  BY <1>1
<1>3. ASSUME NEW x \in B, NEW y \in B, r.next[x] = r.next[y]
      PROVE  x = y
  BY <1>1, <1>3
<1>4. ASSUME NEW S \in SUBSET B, S # {}, \A x \in S : r.next[x] \in S
      PROVE  S = B
  <2> DEFINE T == S \ {p}
  <2>1. T \in SUBSET A
    OBVIOUS
  <2>2. T # {}
    BY <1>1, <1>4
  <2>3. \A x \in T : l.next[x] \in T
    BY <1>1, <1>4, <2>1
  <2>4. T = A
    BY <2>1, <2>2, <2>3 DEF OneCycle
  <2>5. p \in S
    BY <1>4, <2>4
  <2> QED BY <2>4, <2>5
<1> QED BY <1>2, <1>3, <1>4 DEF OneCycle

LEMMA UnlinkedCycle ==
  ASSUME NEW l \in List, OneCycle(l), NEW last \in Active(l),
         NEW p \in Active(l), l.next[last] = p, last # p,
         NEW r, Active(r) = Active(l) \ {p},
         r.next[last] = l.next[p],
         \A x \in Active(l) : x # last => r.next[x] = l.next[x]
  PROVE  OneCycle(r) /\ l.next[p] \in Active(r)
<1> DEFINE A == Active(l)
           B == Active(r)
<1>1. /\ \A x \in A : l.next[x] \in A
      /\ \A x, y \in A : l.next[x] = l.next[y] => x = y
  BY DEF OneCycle
<1>2. l.next[p] # p
  BY <1>1
<1>3. B # {} /\ \A x \in B : r.next[x] \in B
  BY <1>1, <1>2
<1>4. ASSUME NEW x \in B, NEW y \in B, r.next[x] = r.next[y]
      PROVE  x = y
  BY <1>1, <1>4
<1>5. ASSUME NEW S \in SUBSET B, S # {}, \A x \in S : r.next[x] \in S
      PROVE  S = B
  <2>1. CASE last \in S
    <3> DEFINE T == S \cup {p}
    <3>1. T \in SUBSET A /\ T # {}
      OBVIOUS
    <3>2. \A x \in T : l.next[x] \in T
      BY <1>5, <2>1
    <3>3. T = A
      BY <3>1, <3>2 DEF OneCycle
    <3> QED BY <3>3
  <2>2. CASE last \notin S
    <3>1. S \in SUBSET A /\ \A x \in S : l.next[x] \in S
      BY <1>5, <2>2
    <3>2. S = A
      BY <1>5, <3>1 DEF OneCycle
    <3> QED BY <2>2, <3>2
  <2> QED BY <2>1, <2>2
<1> QED BY <1>1, <1>2, <1>3, <1>4, <1>5 DEF OneCycle

(***************************************************************************)
(* Enabling a task that is not active keeps the list one cycle: the active *)
(* processes of before, the task, and not the application process.         *)
(***************************************************************************)
LEMMA EnableNakedKeeps ==
  ASSUME NEW l \in List, WellFormed(l), ProcessAssumption,
         NEW cur \in Active(l) \cup {App}, l.next[cur] \in Active(l),
         NEW p \in Task, ~Enabled(l, p)
  PROVE  LET r == EnableNaked(l, cur, p) IN
         /\ r \in List
         /\ WellFormed(r)
         /\ r.appType = l.appType
         /\ Enabled(r, p)
         /\ Active(r) \subseteq Active(l) \cup {p}
         /\ \A q \in Task : Enabled(l, q) => Enabled(r, q)
         /\ r.next[cur] \in Active(r)
<1> DEFINE r == EnableNaked(l, cur, p)
           last == InsertionPoint(l, cur)
           A == Active(l)
           B == Active(r)
<1>1. /\ last \in A /\ last # p /\ cur # p
      /\ A \subseteq Proc /\ cur \in Proc /\ p \in Proc /\ p # App
  BY InsertionPointActive DEF WellFormed, Task, Active, ProcessAssumption
<1>2. OneCycle(l) /\ AppAlone(l)
  BY DEF WellFormed
<1>3. CASE IsApplication(l, last)
  <2>1. last = App /\ l.appType = "application" /\ A = {App}
    BY <1>1, <1>2, <1>3 DEF IsApplication, AppAlone, Active
  <2>2. r = [l EXCEPT !.next   = [@ EXCEPT ![p] = p, ![App] = p],
                      !.status = [@ EXCEPT ![App] = "idle", ![p] = "active"]]
    BY <1>3, <2>1 DEF EnableNaked
  <2>3. /\ r.next = [l.next EXCEPT ![p] = p, ![App] = p]
        /\ r.status = [l.status EXCEPT ![App] = "idle", ![p] = "active"]
        /\ r.appType = l.appType
    BY <2>2 DEF List
  <2>4. r \in List
    <3>1. /\ l.next \in [Proc -> Proc \cup {Null}]
          /\ l.status \in [Proc -> Status]
          /\ l.appType \in AppType
      BY DEF List
    <3>2. r.next \in [Proc -> Proc \cup {Null}]
      BY <1>1, <2>3, <3>1
    <3>3. r.status \in [Proc -> Status]
      BY <1>1, <2>3, <3>1 DEF Status
    <3> QED
      BY <2>2, <2>3, <3>1, <3>2, <3>3 DEF List
  <2>5. B = {p}
    BY <1>1, <2>1, <2>3 DEF Active, Enabled, List, ProcessAssumption
  <2>6. r.next[p] = p /\ r.next[App] = p
    BY <1>1, <2>3 DEF List, ProcessAssumption
  <2>7. OneCycle(r)
    BY <2>5, <2>6 DEF OneCycle
  <2>8. AppAlone(r)
    BY <1>1, <2>5 DEF AppAlone, Active, ProcessAssumption
  <2>9. r.next[cur] \in B
    <3>1. cur = App
      BY <2>1
    <3> QED BY <2>5, <2>6, <3>1
  <2> QED
    BY <2>1, <2>3, <2>4, <2>5, <2>7, <2>8, <2>9
       DEF Active, WellFormed, Enabled, Task
<1>4. CASE ~IsApplication(l, last)
  <2>1. r = [l EXCEPT !.next   = [@ EXCEPT ![p] = l.next[last], ![last] = p],
                      !.status = [@ EXCEPT ![p] = "active"]]
    BY <1>4 DEF EnableNaked
  <2>2. /\ r.next = [l.next EXCEPT ![p] = l.next[last], ![last] = p]
        /\ r.status = [l.status EXCEPT ![p] = "active"]
        /\ r.appType = l.appType
    BY <2>1 DEF List
  <2>3. /\ l.next \in [Proc -> Proc \cup {Null}]
        /\ l.status \in [Proc -> Status]
        /\ l.appType \in AppType
    BY DEF List
  <2>4. r \in List
    <3>1. r.next \in [Proc -> Proc \cup {Null}]
      BY <1>1, <2>2, <2>3
    <3>2. r.status \in [Proc -> Status]
      BY <1>1, <2>2, <2>3 DEF Status
    <3> QED
      BY <2>1, <2>2, <2>3, <3>1, <3>2 DEF List
  <2>5. B = A \cup {p}
    BY <1>1, <2>2, <2>3 DEF Active, Enabled
  <2>6. p \notin A /\ \A x \in A : l.next[x] \in A
    BY <1>2 DEF Active, OneCycle
  <2>7. /\ r.next[p] = l.next[last]
        /\ r.next[last] = p
        /\ \A x \in A : x # last => r.next[x] = l.next[x]
    BY <1>1, <2>2, <2>3, <2>6
  <2>8. OneCycle(r)
    BY <1>1, <1>2, <2>5, <2>6, <2>7, LinkedCycle
  <2>9. AppAlone(r)
    <3> SUFFICES ASSUME Enabled(r, App), r.appType = "application"
                 PROVE  FALSE
      BY DEF AppAlone
    <3>1. App \in A
      BY <1>1, <2>5 DEF Active, ProcessAssumption
    <3>2. A = {App}
      BY <1>2, <2>2, <3>1 DEF AppAlone, Active
    <3> QED BY <1>1, <1>4, <2>2, <3>2 DEF IsApplication
  <2>10. r.next[cur] \in B
    BY <1>1, <2>2, <2>3, <2>5
  <2> QED
    BY <1>1, <2>2, <2>4, <2>5, <2>8, <2>9, <2>10
       DEF Active, WellFormed, Enabled, Task
<1> QED BY <1>3, <1>4

(***************************************************************************)
(* Disabling an active task keeps the list one cycle: the active processes *)
(* but the task, or the application process alone when there is no other.  *)
(* The task is left with a successor that is on the list, which is what    *)
(* the next switch needs when the task disables itself.                    *)
(***************************************************************************)
LEMMA DisableNakedKeeps ==
  ASSUME NEW l \in List, WellFormed(l), ProcessAssumption,
         NEW p \in Task, Enabled(l, p)
  PROVE  LET r == DisableNaked(l, p) IN
         /\ HasPred(l.next, p)
         /\ r \in List
         /\ WellFormed(r)
         /\ l.appType = "application" => r.appType = "application"
         /\ ~Enabled(r, p)
         /\ Active(r) \subseteq Active(l) \cup {App}
         /\ \A q \in Task \ {p} : Enabled(l, q) => Enabled(r, q)
         /\ r.next[p] \in Active(r)
<1> DEFINE r == DisableNaked(l, p)
           last == Pred(l.next, p)
           A == Active(l)
           B == Active(r)
<1>1. p \in A /\ p \in Proc /\ p # App /\ App \in Proc /\ A \subseteq Proc
  BY DEF Task, Active, ProcessAssumption
<1>2. OneCycle(l) /\ AppAlone(l)
  BY DEF WellFormed
<1>3. HasPred(l.next, p) /\ last \in A /\ l.next[last] = p
  BY <1>1, <1>2, PredOfActive
<1>4. /\ l.next \in [Proc -> Proc \cup {Null}]
      /\ l.status \in [Proc -> Status]
      /\ l.appType \in AppType
  BY DEF List
<1>5. CASE last = p
  <2>1. A = {p}
    <3>1. {p} \in SUBSET A /\ {p} # {} /\ \A x \in {p} : l.next[x] \in {p}
      BY <1>1, <1>3, <1>5
    <3> QED BY <1>2, <3>1 DEF OneCycle
  <2>2. r = [next    |-> [l.next EXCEPT ![App] = App, ![p] = App],
             status  |-> [l.status EXCEPT ![App] = "active", ![p] = "idle"],
             appType |-> "application"]
    BY <1>5 DEF DisableNaked
  <2>3. r \in List
    BY <1>1, <1>4, <2>2 DEF List, Status, AppType
  <2>4. B = {App}
    BY <1>1, <1>4, <2>1, <2>2 DEF Active, Enabled
  <2>5. r.next[App] = App /\ r.next[p] = App
    BY <1>1, <1>4, <2>2
  <2>6. OneCycle(r) /\ AppAlone(r)
    BY <2>4, <2>5 DEF OneCycle, AppAlone
  <2> QED
    BY <1>1, <1>3, <2>1, <2>2, <2>3, <2>4, <2>5, <2>6
       DEF Active, Enabled, WellFormed, Task
<1>6. CASE last # p
  <2>1. r = [l EXCEPT !.next   = [@ EXCEPT ![last] = l.next[p]],
                      !.status = [@ EXCEPT ![p] = "idle"]]
    BY <1>6 DEF DisableNaked
  <2>2. /\ r.next = [l.next EXCEPT ![last] = l.next[p]]
        /\ r.status = [l.status EXCEPT ![p] = "idle"]
        /\ r.appType = l.appType
    BY <2>1 DEF List
  <2>3. r \in List
    <3>1. r.next \in [Proc -> Proc \cup {Null}]
      BY <1>1, <1>3, <1>4, <2>2
    <3>2. r.status \in [Proc -> Status]
      BY <1>1, <1>4, <2>2 DEF Status
    <3> QED
      BY <1>4, <2>1, <2>2, <3>1, <3>2 DEF List
  <2>4. B = A \ {p}
    BY <1>1, <1>4, <2>2 DEF Active, Enabled
  <2>5. /\ r.next[last] = l.next[p]
        /\ \A x \in A : x # last => r.next[x] = l.next[x]
    BY <1>1, <1>3, <1>4, <2>2
  <2>6. /\ \A x \in A : l.next[x] \in A
        /\ \A x, y \in A : l.next[x] = l.next[y] => x = y
    BY <1>2 DEF OneCycle
  <2>7. OneCycle(r) /\ l.next[p] \in B
    BY <1>1, <1>2, <1>3, <1>6, <2>4, <2>5, UnlinkedCycle
  <2>8. AppAlone(r)
    <3> SUFFICES ASSUME Enabled(r, App), r.appType = "application"
                 PROVE  FALSE
      BY DEF AppAlone
    <3>1. App \in A
      BY <1>1, <2>4 DEF Active
    <3>2. A = {App}
      BY <1>2, <2>2, <3>1 DEF AppAlone, Active
    <3> QED BY <1>1, <3>2
  <2>9. r.next[p] \in B
    BY <1>1, <1>3, <1>6, <2>4, <2>5, <2>6
  <2> QED
    BY <1>1, <1>3, <2>2, <2>3, <2>4, <2>7, <2>8, <2>9
       DEF Active, Enabled, WellFormed, Task
<1> QED BY <1>5, <1>6

(***************************************************************************)
(* The edits of the list touch the status of the process they name and of  *)
(* os_app, and no other.                                                   *)
(***************************************************************************)
LEMMA OtherStatuses ==
  ASSUME NEW l \in List, NEW c \in Proc, NEW p \in Proc,
         NEW q \in Proc, q # p, q # App
  PROVE  /\ EnableNaked(l, c, p).status[q] = l.status[q]
         /\ DisableNaked(l, p).status[q] = l.status[q]
<1>1. l.status \in [Proc -> Status]
  BY DEF List
<1>2. EnableNaked(l, c, p).status[q] = l.status[q]
  <2>1. CASE IsApplication(l, InsertionPoint(l, c))
    <3>1. EnableNaked(l, c, p).status
            = [l.status EXCEPT ![App] = "idle", ![p] = "active"]
      BY <2>1 DEF EnableNaked
    <3> QED BY <1>1, <3>1
  <2>2. CASE ~IsApplication(l, InsertionPoint(l, c))
    <3>1. EnableNaked(l, c, p).status = [l.status EXCEPT ![p] = "active"]
      BY <2>2 DEF EnableNaked
    <3> QED BY <1>1, <3>1
  <2> QED BY <2>1, <2>2
<1>3. DisableNaked(l, p).status[q] = l.status[q]
  <2>1. CASE Pred(l.next, p) = p
    <3>1. DisableNaked(l, p).status
            = [l.status EXCEPT ![App] = "active", ![p] = "idle"]
      BY <2>1 DEF DisableNaked
    <3> QED BY <1>1, <3>1
  <2>2. CASE Pred(l.next, p) # p
    <3>1. DisableNaked(l, p).status = [l.status EXCEPT ![p] = "idle"]
      BY <2>2 DEF DisableNaked
    <3> QED BY <1>1, <3>1
  <2> QED BY <2>1, <2>2
<1> QED BY <1>2, <1>3

(***************************************************************************)
(* A walk along `next` that starts on a process that was once linked never *)
(* meets the null pointer, and neither edit takes a link away: a walk that *)
(* no critical section protects goes on after each edit.                   *)
(***************************************************************************)
Linked(l) ==
  \A x \in Proc : l.next[x] # Null => l.next[l.next[x]] # Null

LinksKept(l, r) ==
  /\ Linked(r)
  /\ \A x \in Proc : l.next[x] # Null => r.next[x] # Null

LEMMA EnableKeepsLinks ==
  ASSUME NEW l \in List, WellFormed(l), Linked(l),
         NEW c \in Proc, l.next[c] \in Active(l), NEW p \in Task
  PROVE  LinksKept(l, Enable(l, c, p))
<1> DEFINE last == InsertionPoint(l, c)
           r == EnableNaked(l, c, p)
<1>1. CASE Enabled(l, p)
  BY <1>1 DEF Enable, LinksKept
<1>2. CASE ~Enabled(l, p)
  <2>1. /\ last \in Active(l) /\ last \in Proc /\ p \in Proc
        /\ l.next[last] \in Active(l) /\ Null \notin Proc
    BY InsertionPointActive, ProcessAssumption
       DEF WellFormed, OneCycle, Active, Task
  <2>2. \A x \in Active(l) : x # Null /\ l.next[x] # Null
    BY <2>1 DEF WellFormed, OneCycle, Active
  <2>3. l.next \in [Proc -> Proc \cup {Null}]
    BY DEF List
  <2> HIDE DEF last
  <2>4. /\ r.next[p] # Null /\ r.next[last] = p
        /\ \A x \in Proc \ {p, last} : r.next[x] = l.next[x]
        /\ r.next[p] = p \/ (r.next[p] = l.next[last] /\ last # p)
    <3>1. last # p
      BY <1>2, <2>1 DEF Active
    <3>2. CASE IsApplication(l, last)
      <4>1. r.next = [l.next EXCEPT ![p] = p, ![last] = p]
        BY <3>2 DEF EnableNaked, last
      <4> QED BY <2>1, <2>3, <3>1, <4>1
    <3>3. CASE ~IsApplication(l, last)
      <4>1. r.next = [l.next EXCEPT ![p] = l.next[last], ![last] = p]
        BY <3>3 DEF EnableNaked, last
      <4> QED BY <2>1, <2>2, <2>3, <3>1, <4>1
    <3> QED BY <3>2, <3>3
  <2>5. \A x \in Proc : l.next[x] # Null => r.next[x] # Null
    BY <2>1, <2>4
  <2>6. ASSUME NEW x \in Proc, r.next[x] # Null
        PROVE  r.next[r.next[x]] # Null
    <3>1. CASE x = p
      BY <2>1, <2>2, <2>4, <2>5, <3>1 DEF Active
    <3>2. CASE x = last
      BY <2>4, <3>2
    <3>3. CASE x \notin {p, last}
      <4>1. r.next[x] = l.next[x] /\ l.next[x] \in Proc
        BY <2>3, <2>4, <2>6, <3>3
      <4> QED BY <2>5, <2>6, <4>1 DEF Linked
    <3> QED BY <3>1, <3>2, <3>3
  <2> QED BY <1>2, <2>5, <2>6 DEF Enable, LinksKept, Linked
<1> QED BY <1>1, <1>2

LEMMA DisableKeepsLinks ==
  ASSUME NEW l \in List, WellFormed(l), Linked(l), NEW p \in Task
  PROVE  LinksKept(l, Disable(l, p))
<1> DEFINE last == Pred(l.next, p)
           r == DisableNaked(l, p)
<1>1. CASE ~Enabled(l, p)
  BY <1>1 DEF Disable, LinksKept
<1>2. CASE Enabled(l, p)
  <2>1. /\ p \in Active(l) /\ p \in Proc /\ p # App
        /\ App \in Proc /\ Null \notin Proc
    BY <1>2, ProcessAssumption DEF Task, Active
  <2>2. last \in Active(l) /\ last \in Proc
    BY <2>1, PredOfActive DEF WellFormed, Active
  <2>3. /\ l.next \in [Proc -> Proc \cup {Null}]
        /\ l.next[p] \in Proc
    BY <2>1 DEF List, WellFormed, OneCycle, Active
  <2> HIDE DEF last
  <2>4. CASE last = p
    <3>1. r.next = [l.next EXCEPT ![App] = App, ![p] = App]
      BY <2>4 DEF DisableNaked, last
    <3>2. /\ r.next[App] = App /\ r.next[p] = App
          /\ \A x \in Proc \ {p, App} : r.next[x] = l.next[x]
      BY <2>1, <2>3, <3>1
    <3>3. \A x \in Proc : l.next[x] # Null => r.next[x] # Null
      BY <2>1, <3>2
    <3>4. ASSUME NEW x \in Proc, r.next[x] # Null
          PROVE  r.next[r.next[x]] # Null
      <4>1. CASE x \in {p, App}
        BY <2>1, <3>2, <4>1
      <4>2. CASE x \notin {p, App}
        BY <2>3, <3>2, <3>3, <3>4, <4>2 DEF Linked
      <4> QED BY <4>1, <4>2
    <3> QED BY <1>2, <3>3, <3>4 DEF Disable, LinksKept, Linked
  <2>5. CASE last # p
    <3>1. r.next = [l.next EXCEPT ![last] = l.next[p]]
      BY <2>5 DEF DisableNaked, last
    <3>2. /\ r.next[last] = l.next[p]
          /\ \A x \in Proc \ {last} : r.next[x] = l.next[x]
      BY <2>2, <2>3, <3>1
    <3>3. \A x \in Proc : l.next[x] # Null => r.next[x] # Null
      BY <2>1, <2>3, <3>2
    <3>4. ASSUME NEW x \in Proc, r.next[x] # Null
          PROVE  r.next[r.next[x]] # Null
      <4>1. CASE x = last
        BY <2>1, <2>3, <3>2, <3>3, <4>1 DEF Linked
      <4>2. CASE x # last
        BY <2>3, <3>2, <3>3, <3>4, <4>2 DEF Linked
      <4> QED BY <4>1, <4>2
    <3> QED BY <1>2, <3>3, <3>4 DEF Disable, LinksKept, Linked
  <2> QED BY <2>4, <2>5
<1> QED BY <1>1, <1>2

-----------------------------------------------------------------------------
(***************************************************************************)
(* A set of natural numbers has a minimum.                                 *)
(***************************************************************************)
LEMMA MinOfNaturals ==
  ASSUME NEW S \in SUBSET Nat, S # {}
  PROVE  /\ Min(S) \in S
         /\ \A y \in S : Min(S) <= y
<1> DEFINE T == {0 .. n : n \in S}
<1>1. T \subseteq FiniteSubsetsOf(Nat) /\ T # {}
  <2> SUFFICES ASSUME NEW n \in S PROVE 0 .. n \in FiniteSubsetsOf(Nat)
    OBVIOUS
  <2>1. n \in Int /\ 0 .. n \subseteq Nat
    OBVIOUS
  <2> QED BY <2>1, FS_Interval DEF FiniteSubsetsOf
<1> HIDE DEF T
<1>2. PICK t \in T : \A u \in T : <<u, t>> \notin StrictSubsetOrdering(Nat)
  BY <1>1, FS_StrictSubsetOrderingWellFounded, WFMin
<1> USE DEF T
<1>3. PICK x \in S : t = 0 .. x
  OBVIOUS
<1>4. ASSUME NEW y \in S PROVE x <= y
  <2> SUFFICES ASSUME y < x PROVE FALSE
    OBVIOUS
  <2>1. 0 .. y \subseteq 0 .. x /\ x \in 0 .. x /\ x \notin 0 .. y
    OBVIOUS
  <2>2. 0 .. y \in SUBSET Nat /\ 0 .. x \in SUBSET Nat
    OBVIOUS
  <2>3. <<0 .. y, 0 .. x>> \in StrictSubsetOrdering(Nat)
    BY <2>1, <2>2 DEF StrictSubsetOrdering
  <2> QED BY <1>2, <1>3, <2>3
<1> QED BY <1>4 DEF Min

(***************************************************************************)
(* The walk of os_queue_add_sort stops behind every element that goes first*)
(* when it is before the new one, and at one that does not, or the end.    *)
(***************************************************************************)
LEMMA PlaceBetween ==
  ASSUME NEW S, NEW q \in Seq(S), NEW p \in S,
         NEW level, \A x \in S : level[x] \in Nat
  PROVE  /\ Place(q, p, level) \in 1 .. Len(q) + 1
         /\ \A i \in 1 .. Len(q) : i < Place(q, p, level) => level[q[i]] <= level[p]
         /\ Place(q, p, level) <= Len(q) => level[q[Place(q, p, level)]] > level[p]
<1> DEFINE stops == {i \in 1 .. Len(q) : level[q[i]] > level[p]}
           k == Place(q, p, level)
<1>1. Len(q) \in Nat /\ \A i \in 1 .. Len(q) : q[i] \in S
  OBVIOUS
<1>2. stops \cup {Len(q) + 1} \in SUBSET Nat /\ stops \cup {Len(q) + 1} # {}
  BY <1>1
<1>3. /\ k \in stops \cup {Len(q) + 1}
      /\ \A i \in stops \cup {Len(q) + 1} : k <= i
  BY <1>2, MinOfNaturals DEF Place
<1> QED BY <1>1, <1>3

(***************************************************************************)
(* Insertion into a sequence moves no element past another.                *)
(***************************************************************************)
LEMMA InsertedAt ==
  ASSUME NEW S, NEW q \in Seq(S), NEW p \in S, NEW k \in 1 .. Len(q) + 1
  PROVE  LET r == InsertAt(q, k, p) IN
         /\ r \in Seq(S)
         /\ Len(r) = Len(q) + 1
         /\ \A i \in 1 .. k - 1 : r[i] = q[i]
         /\ r[k] = p
         /\ \A i \in k + 1 .. Len(q) + 1 : r[i] = q[i - 1]
<1> DEFINE a == SubSeq(q, 1, k - 1)
           b == <<p>>
           c == SubSeq(q, k, Len(q))
<1>1. /\ k \in 1 .. Len(q) + 1
      /\ Len(q) \in Nat /\ \A i \in 1 .. Len(q) : q[i] \in S
  OBVIOUS
<1>2. /\ a \in Seq(S) /\ Len(a) = k - 1
      /\ \A i \in 1 .. k - 1 : a[i] = q[i]
  <2>1. \A i \in 1 .. k - 1 : q[i] \in S
    BY <1>1
  <2>2. /\ a \in Seq(S)
        /\ Len(a) = IF 1 <= k - 1 THEN k - 1 - 1 + 1 ELSE 0
        /\ \A i \in 1 .. k - 1 - 1 + 1 : a[i] = q[1 + i - 1]
    BY <1>1, <2>1, SubSeqProperties
  <2>3. \A i \in 1 .. k - 1 : i \in 1 .. k - 1 - 1 + 1 /\ 1 + i - 1 = i
    BY <1>1
  <2>4. Len(a) = k - 1
    BY <1>1, <2>2
  <2> QED BY <2>2, <2>3, <2>4
<1>3. /\ c \in Seq(S) /\ Len(c) = Len(q) - k + 1
      /\ \A i \in 1 .. Len(q) - k + 1 : c[i] = q[k + i - 1]
  <2>1. \A i \in k .. Len(q) : q[i] \in S
    BY <1>1
  <2>2. /\ c \in Seq(S)
        /\ Len(c) = IF k <= Len(q) THEN Len(q) - k + 1 ELSE 0
        /\ \A i \in 1 .. Len(q) - k + 1 : c[i] = q[k + i - 1]
    BY <1>1, <2>1, SubSeqProperties
  <2>3. Len(c) = Len(q) - k + 1
    BY <1>1, <2>2
  <2> QED BY <2>2, <2>3
<1>4. b \in Seq(S) /\ Len(b) = 1 /\ b[1] = p
  OBVIOUS
<1> DEFINE d == a \o b
           r == d \o c
<1> HIDE DEF a, b, c
<1>5. /\ d \in Seq(S) /\ Len(d) = Len(a) + Len(b)
      /\ \A i \in 1 .. Len(a) + Len(b) :
           d[i] = IF i <= Len(a) THEN a[i] ELSE b[i - Len(a)]
  BY <1>2, <1>4, ConcatProperties
<1> HIDE DEF d
<1>6. /\ Len(d) = k
      /\ \A i \in 1 .. k - 1 : d[i] = q[i]
      /\ d[k] = p
  <2>1. \A i \in 1 .. k - 1 : d[i] = a[i]
    BY <1>1, <1>2, <1>4, <1>5
  <2>2. d[k] = b[k - (k - 1)]
    BY <1>1, <1>2, <1>4, <1>5
  <2>3. k - (k - 1) = 1 /\ (k - 1) + 1 = k
    BY <1>1
  <2> QED BY <1>2, <1>4, <1>5, <2>1, <2>2, <2>3
<1>7. /\ r \in Seq(S) /\ Len(r) = Len(d) + Len(c)
      /\ \A i \in 1 .. Len(d) + Len(c) :
           r[i] = IF i <= Len(d) THEN d[i] ELSE c[i - Len(d)]
  <2>1. d \in Seq(S) /\ c \in Seq(S)
    BY <1>3, <1>5
  <2> QED BY <2>1, ConcatProperties
<1>8. InsertAt(q, k, p) = r
  BY DEF InsertAt, a, b, c, d
<1> HIDE DEF r
<1>9. Len(r) = Len(q) + 1
  BY <1>1, <1>3, <1>6, <1>7
<1>10. \A i \in 1 .. k : r[i] = d[i]
  BY <1>1, <1>3, <1>6, <1>7
<1>11. ASSUME NEW i \in k + 1 .. Len(q) + 1 PROVE r[i] = q[i - 1]
  <2>1. r[i] = c[i - k]
    <3>1. i \in 1 .. Len(d) + Len(c) /\ ~(i <= Len(d))
      BY <1>1, <1>3, <1>6
    <3> QED BY <1>6, <1>7, <3>1
  <2>2. i - k \in 1 .. Len(q) - k + 1 /\ k + (i - k) - 1 = i - 1
    BY <1>1
  <2> QED BY <1>3, <2>1, <2>2
<1>12. (\A i \in 1 .. k - 1 : r[i] = q[i]) /\ r[k] = p
  <2>1. k \in 1 .. k /\ \A i \in 1 .. k - 1 : i \in 1 .. k
    BY <1>1
  <2> QED BY <1>6, <1>10, <2>1
<1> QED BY <1>7, <1>8, <1>9, <1>11, <1>12

(***************************************************************************)
(* Neither does the removal of an element.                                 *)
(***************************************************************************)
LEMMA RemovedAt ==
  ASSUME NEW S, NEW q \in Seq(S), NEW k \in 1 .. Len(q)
  PROVE  LET r == RemoveAt(q, k) IN
         /\ r \in Seq(S)
         /\ Len(r) = Len(q) - 1
         /\ \A i \in 1 .. k - 1 : r[i] = q[i]
         /\ \A i \in k .. Len(q) - 1 : r[i] = q[i + 1]
<1> DEFINE n == Len(q)
           a == SubSeq(q, 1, k - 1)
           c == SubSeq(q, k + 1, n)
           r == a \o c
<1>1. n \in Nat /\ k \in 1 .. n /\ \A i \in 1 .. n : q[i] \in S
  OBVIOUS
<1>2. /\ a \in Seq(S) /\ Len(a) = k - 1
      /\ \A i \in 1 .. k - 1 : a[i] = q[i]
  <2>1. \A i \in 1 .. k - 1 : q[i] \in S
    BY <1>1
  <2>2. /\ a \in Seq(S)
        /\ Len(a) = IF 1 <= k - 1 THEN k - 1 - 1 + 1 ELSE 0
        /\ \A i \in 1 .. k - 1 - 1 + 1 : a[i] = q[1 + i - 1]
    BY <1>1, <2>1, SubSeqProperties
  <2>3. \A i \in 1 .. k - 1 : i \in 1 .. k - 1 - 1 + 1 /\ 1 + i - 1 = i
    BY <1>1
  <2>4. Len(a) = k - 1
    BY <1>1, <2>2
  <2> QED BY <2>2, <2>3, <2>4
<1>3. /\ c \in Seq(S) /\ Len(c) = n - k
      /\ \A i \in 1 .. n - k : c[i] = q[k + i]
  <2>1. \A i \in k + 1 .. n : q[i] \in S
    BY <1>1
  <2>2. /\ c \in Seq(S)
        /\ Len(c) = IF k + 1 <= n THEN n - (k + 1) + 1 ELSE 0
        /\ \A i \in 1 .. n - (k + 1) + 1 : c[i] = q[(k + 1) + i - 1]
    BY <1>1, <2>1, SubSeqProperties
  <2>3. \A i \in 1 .. n - k : i \in 1 .. n - (k + 1) + 1 /\ (k + 1) + i - 1 = k + i
    BY <1>1
  <2>4. Len(c) = n - k
    BY <1>1, <2>2
  <2> QED BY <2>2, <2>3, <2>4
<1> HIDE DEF a, c
<1>4. /\ r \in Seq(S) /\ Len(r) = Len(a) + Len(c)
      /\ \A i \in 1 .. Len(a) + Len(c) :
           r[i] = IF i <= Len(a) THEN a[i] ELSE c[i - Len(a)]
  BY <1>2, <1>3, ConcatProperties
<1>5. RemoveAt(q, k) = r
  BY DEF RemoveAt, a, c
<1> HIDE DEF r, n
<1>6. Len(r) = n - 1
  BY <1>1, <1>2, <1>3, <1>4
<1>7. \A i \in 1 .. k - 1 : r[i] = q[i]
  BY <1>1, <1>2, <1>3, <1>4
<1>8. ASSUME NEW i \in k .. n - 1 PROVE r[i] = q[i + 1]
  <2>1. r[i] = c[i - (k - 1)]
    <3>1. i \in 1 .. Len(a) + Len(c) /\ ~(i <= Len(a))
      BY <1>1, <1>2, <1>3
    <3> QED BY <1>2, <1>4, <3>1
  <2>2. i - (k - 1) \in 1 .. n - k /\ k + (i - (k - 1)) = i + 1
    BY <1>1
  <2> QED BY <1>3, <2>1, <2>2
<1> QED BY <1>4, <1>5, <1>6, <1>7, <1>8 DEF n

(***************************************************************************)
(* os_queue_process_add moves no element past another.                     *)
(***************************************************************************)
LEMMA AddedAt ==
  ASSUME NEW S, NEW q \in Seq(S), NEW p \in S,
         NEW level, \A x \in S : level[x] \in Nat
  PROVE  LET k == Place(q, p, level)
             r == Added(q, p, level)
         IN
         /\ r \in Seq(S)
         /\ Len(r) = Len(q) + 1
         /\ \A i \in 1 .. k - 1 : r[i] = q[i]
         /\ r[k] = p
         /\ \A i \in k + 1 .. Len(q) + 1 : r[i] = q[i - 1]
<1> DEFINE k == Place(q, p, level)
<1>1. k \in 1 .. Len(q) + 1
  BY PlaceBetween
<1>2. Added(q, p, level) = InsertAt(q, k, p)
  BY DEF Added
<1> HIDE DEF k
<1>3. LET r == InsertAt(q, k, p) IN
      /\ r \in Seq(S)
      /\ Len(r) = Len(q) + 1
      /\ \A i \in 1 .. k - 1 : r[i] = q[i]
      /\ r[k] = p
      /\ \A i \in k + 1 .. Len(q) + 1 : r[i] = q[i - 1]
  BY <1>1, InsertedAt
<1> QED BY <1>2, <1>3 DEF k

(***************************************************************************)
(* In a sorted queue os_queue_process_add finds the one place behind every *)
(* process with the same or a higher priority and in front of the others.  *)
(***************************************************************************)
LEMMA AddedInTurn ==
  ASSUME NEW S, NEW q \in Seq(S), NEW p \in S,
         NEW level, \A x \in S : level[x] \in Nat, Sorted(q, level)
  PROVE  \E k \in 1 .. Len(q) + 1 :
           /\ \A i \in 1 .. Len(q) : i < k <=> level[q[i]] <= level[p]
           /\ Added(q, p, level) = InsertAt(q, k, p)
<1> DEFINE k == Place(q, p, level)
<1>1. /\ k \in 1 .. Len(q) + 1
      /\ \A i \in 1 .. Len(q) : i < k => level[q[i]] <= level[p]
      /\ k <= Len(q) => level[q[k]] > level[p]
  BY PlaceBetween
<1>2. Added(q, p, level) = InsertAt(q, k, p)
  BY DEF Added
<1>3. \A i \in 1 .. Len(q) : level[q[i]] \in Nat /\ level[p] \in Nat
  OBVIOUS
<1> HIDE DEF k
<1>4. ASSUME NEW i \in 1 .. Len(q), ~(i < k)
      PROVE  ~(level[q[i]] <= level[p])
  <2>1. k \in 1 .. Len(q) /\ k <= Len(q) /\ (i = k \/ k < i)
    BY <1>1, <1>4
  <2>2. level[q[k]] <= level[q[i]]
    BY <1>3, <2>1 DEF Sorted
  <2> QED BY <1>1, <1>3, <2>1, <2>2
<1> QED BY <1>1, <1>2, <1>4

(***************************************************************************)
(* Adding a process adds it alone and keeps a sorted queue sorted, and a   *)
(* queue with no process twice stays one when the process was not in it.   *)
(***************************************************************************)
LEMMA AddedElements ==
  ASSUME NEW S, NEW q \in Seq(S), NEW p \in S,
         NEW level, \A x \in S : level[x] \in Nat
  PROVE  LET r == Added(q, p, level) IN
         /\ r \in Seq(S)
         /\ r # <<>>
         /\ ToSet(r) = ToSet(q) \cup {p}
         /\ IsInjective(q) /\ p \notin ToSet(q) => IsInjective(r)
         /\ Sorted(q, level) => Sorted(r, level)
<1> DEFINE k == Place(q, p, level)
           r == Added(q, p, level)
<1>1. /\ k \in 1 .. Len(q) + 1
      /\ \A i \in 1 .. Len(q) : i < k => level[q[i]] <= level[p]
      /\ k <= Len(q) => level[q[k]] > level[p]
  BY PlaceBetween
<1>2. /\ r \in Seq(S) /\ Len(r) = Len(q) + 1 /\ Len(q) \in Nat
      /\ \A i \in 1 .. k - 1 : r[i] = q[i]
      /\ r[k] = p
      /\ \A i \in k + 1 .. Len(q) + 1 : r[i] = q[i - 1]
  BY AddedAt
<1>3. /\ DOMAIN q = 1 .. Len(q) /\ DOMAIN r = 1 .. Len(r)
      /\ \A i \in 1 .. Len(q) : q[i] \in S
  BY <1>2
<1> HIDE DEF k, r
<1>4. r # <<>>
  BY <1>2
<1>5. ASSUME NEW i \in 1 .. Len(r)
      PROVE  \/ i \in 1 .. k - 1 /\ i \in 1 .. Len(q)
             \/ i = k
             \/ i \in k + 1 .. Len(q) + 1 /\ i - 1 \in 1 .. Len(q)
  BY <1>1, <1>2
<1>6. ToSet(q) = {q[i] : i \in 1 .. Len(q)} /\ ToSet(r) = {r[i] : i \in 1 .. Len(r)}
  BY <1>3 DEF ToSet
<1>7. ToSet(r) = ToSet(q) \cup {p}
  <2>1. ASSUME NEW i \in 1 .. Len(r) PROVE r[i] \in ToSet(q) \cup {p}
    BY <1>2, <1>5, <1>6
  <2>2. k \in 1 .. Len(r)
    BY <1>1, <1>2
  <2>3. ASSUME NEW i \in 1 .. Len(q) PROVE q[i] \in ToSet(r)
    <3>1. CASE i < k
      <4>1. i \in 1 .. k - 1 /\ i \in 1 .. Len(r)
        BY <1>1, <1>2, <3>1
      <4> QED BY <1>2, <1>6, <4>1
    <3>2. CASE i >= k
      <4>1. i + 1 \in k + 1 .. Len(q) + 1 /\ i + 1 \in 1 .. Len(r) /\ (i + 1) - 1 = i
        BY <1>1, <1>2, <3>2
      <4>2. r[i + 1] = q[i]
        BY <1>2, <4>1
      <4> QED BY <1>6, <4>1, <4>2
    <3> QED BY <1>1, <3>1, <3>2
  <2>4. p \in ToSet(r)
    BY <1>2, <1>6, <2>2
  <2>5. ToSet(r) \subseteq ToSet(q) \cup {p}
    BY <1>6, <2>1
  <2>6. ToSet(q) \subseteq ToSet(r)
    BY <1>6, <2>3
  <2> QED BY <2>4, <2>5, <2>6
<1>8. ASSUME IsInjective(q), p \notin ToSet(q) PROVE IsInjective(r)
  <2>1. \A i \in 1 .. Len(q) : q[i] # p
    BY <1>6, <1>8
  <2>2. \A i, j \in 1 .. Len(q) : q[i] = q[j] => i = j
    BY <1>3, <1>8 DEF IsInjective
  <2> SUFFICES ASSUME NEW i \in 1 .. Len(r), NEW j \in 1 .. Len(r), r[i] = r[j]
               PROVE  i = j
    BY <1>3 DEF IsInjective
  <2>3. CASE i = k \/ j = k
    BY <1>2, <1>5, <2>1, <2>3
  <2>4. CASE i # k /\ j # k
    <3> DEFINE down(m) == IF m \in 1 .. k - 1 THEN m ELSE m - 1
    <3>1. ASSUME NEW m \in 1 .. Len(r), m # k
          PROVE  r[m] = q[down(m)] /\ down(m) \in 1 .. Len(q)
      <4>1. CASE m \in 1 .. k - 1
        <5>1. m \in 1 .. Len(q)
          BY <1>1, <1>2, <4>1
        <5> QED BY <1>2, <4>1, <5>1
      <4>2. CASE m \notin 1 .. k - 1
        BY <1>2, <1>5, <3>1, <4>2
      <4> QED BY <4>1, <4>2
    <3>2. down(i) = down(j)
      <4> HIDE DEF down
      <4> QED BY <2>2, <2>4, <3>1
    <3> QED BY <1>1, <1>2, <2>4, <3>2
  <2> QED BY <2>3, <2>4
<1>9. ASSUME Sorted(q, level) PROVE Sorted(r, level)
  <2> SUFFICES ASSUME NEW i \in 1 .. Len(r), NEW j \in 1 .. Len(r), i < j
               PROVE  level[r[i]] <= level[r[j]]
    BY DEF Sorted
  <2>1. \A m, n \in 1 .. Len(q) : m < n => level[q[m]] <= level[q[n]]
    BY <1>9 DEF Sorted
  <2>2. /\ level[p] \in Nat /\ \A m \in 1 .. Len(q) : level[q[m]] \in Nat
    BY <1>3
  <2>3. i < k => r[i] = q[i] /\ i \in 1 .. Len(q) /\ level[q[i]] <= level[p]
    <3> SUFFICES ASSUME i < k PROVE i \in 1 .. k - 1 /\ i \in 1 .. Len(q)
      BY <1>1, <1>2
    <3> QED BY <1>1, <1>2
  <2>4. j < k => r[j] = q[j] /\ j \in 1 .. Len(q)
    <3> SUFFICES ASSUME j < k PROVE j \in 1 .. k - 1 /\ j \in 1 .. Len(q)
      BY <1>1, <1>2
    <3> QED BY <1>1, <1>2
  <2>5. i > k => r[i] = q[i - 1] /\ i - 1 \in 1 .. Len(q)
    <3> SUFFICES ASSUME i > k
                 PROVE  i \in k + 1 .. Len(q) + 1 /\ i - 1 \in 1 .. Len(q)
      BY <1>1, <1>2
    <3> QED BY <1>1, <1>2
  <2>6. j > k => r[j] = q[j - 1] /\ j - 1 \in 1 .. Len(q) /\ level[q[j - 1]] > level[p]
    <3> SUFFICES ASSUME j > k
                 PROVE  /\ j \in k + 1 .. Len(q) + 1 /\ j - 1 \in 1 .. Len(q)
                        /\ level[q[j - 1]] > level[p]
      BY <1>1, <1>2
    <3>1. k \in 1 .. Len(q) /\ k <= Len(q) /\ j - 1 \in 1 .. Len(q) /\ (k < j - 1 \/ k = j - 1)
      BY <1>1, <1>2
    <3>2. level[q[k]] <= level[q[j - 1]]
      BY <2>1, <2>2, <3>1
    <3>3. level[q[j - 1]] > level[p]
      BY <1>1, <2>2, <3>1, <3>2
    <3> QED BY <1>1, <1>2, <3>1, <3>3
  <2>7. CASE j < k
    BY <1>1, <2>1, <2>3, <2>4, <2>7
  <2>8. CASE j = k
    BY <1>2, <2>3, <2>8
  <2>9. CASE j > k
    <3>1. CASE i < k
      BY <2>2, <2>3, <2>6, <2>9, <3>1
    <3>2. CASE i = k
      BY <1>2, <2>2, <2>6, <2>9, <3>2
    <3>3. CASE i > k
      <4>1. i - 1 < j - 1
        BY <1>2
      <4> QED BY <2>1, <2>5, <2>6, <2>9, <3>3, <4>1
    <3> QED BY <1>1, <1>2, <3>1, <3>2, <3>3
  <2> QED BY <1>1, <1>2, <2>7, <2>8, <2>9
<1> QED BY <1>2, <1>4, <1>7, <1>8, <1>9 DEF r

(***************************************************************************)
(* Taking the first process of a queue takes it alone and keeps the rest in*)
(* order.                                                                  *)
(***************************************************************************)
LEMMA TailElements ==
  ASSUME NEW S, NEW q \in Seq(S), q # <<>>
  PROVE  /\ Head(q) \in S
         /\ Tail(q) \in Seq(S)
         /\ ToSet(q) = ToSet(Tail(q)) \cup {Head(q)}
         /\ IsInjective(q) => IsInjective(Tail(q)) /\ Head(q) \notin ToSet(Tail(q))
         /\ \A level : Sorted(q, level) => Sorted(Tail(q), level)
<1> DEFINE r == Tail(q)
<1>1. /\ Head(q) \in S /\ Head(q) = q[1]
      /\ r \in Seq(S) /\ Len(r) = Len(q) - 1 /\ Len(q) \in Nat \ {0}
      /\ \A i \in 1 .. Len(r) : r[i] = q[i + 1]
  BY HeadTailProperties, EmptySeq
<1>2. DOMAIN q = 1 .. Len(q) /\ DOMAIN r = 1 .. Len(r)
  BY <1>1
<1> HIDE DEF r
<1>6. ToSet(q) = {q[i] : i \in 1 .. Len(q)} /\ ToSet(r) = {r[i] : i \in 1 .. Len(r)}
  BY <1>2 DEF ToSet
<1>3. ToSet(q) = ToSet(r) \cup {Head(q)}
  <2>1. ASSUME NEW i \in 1 .. Len(q) PROVE q[i] \in ToSet(r) \cup {Head(q)}
    <3>1. i = 1 \/ (i - 1 \in 1 .. Len(r) /\ r[i - 1] = q[i])
      BY <1>1
    <3> QED BY <1>1, <1>6, <3>1
  <2>2. ASSUME NEW i \in 1 .. Len(r) PROVE r[i] \in ToSet(q)
    <3>1. i + 1 \in 1 .. Len(q)
      BY <1>1
    <3> QED BY <1>1, <1>6, <3>1
  <2>3. Head(q) \in ToSet(q)
    BY <1>1, <1>6
  <2> QED BY <1>6, <2>1, <2>2, <2>3
<1>4. ASSUME IsInjective(q) PROVE IsInjective(r) /\ Head(q) \notin ToSet(r)
  <2>1. IsInjective(r)
    <3> SUFFICES ASSUME NEW i \in 1 .. Len(r), NEW j \in 1 .. Len(r), r[i] = r[j]
                 PROVE  i = j
      BY <1>2 DEF IsInjective
    <3>1. i + 1 \in 1 .. Len(q) /\ j + 1 \in 1 .. Len(q) /\ q[i + 1] = q[j + 1]
      BY <1>1
    <3>2. i + 1 = j + 1
      BY <1>2, <1>4, <3>1 DEF IsInjective
    <3> QED BY <1>1, <3>2
  <2>2. Head(q) \notin ToSet(r)
    BY <1>1, <1>2, <1>4 DEF IsInjective, ToSet
  <2> QED BY <2>1, <2>2
<1>5. ASSUME NEW level, Sorted(q, level) PROVE Sorted(r, level)
  BY <1>1, <1>5 DEF Sorted
<1> QED BY <1>1, <1>3, <1>4, <1>5 DEF r

(***************************************************************************)
(* A queue with no process twice is as long as it has processes.           *)
(***************************************************************************)
LEMMA QueueLength ==
  ASSUME NEW S, NEW q \in Seq(S), IsInjective(q)
  PROVE  /\ IsFiniteSet(ToSet(q))
         /\ Len(q) = Cardinality(ToSet(q))
<1>1. Len(q) \in Nat /\ DOMAIN q = 1 .. Len(q) /\ q \in [1 .. Len(q) -> S]
  OBVIOUS
<1>2. q \in [1 .. Len(q) -> ToSet(q)]
  BY <1>1 DEF ToSet
<1>3. q \in Bijection(1 .. Len(q), ToSet(q))
  BY <1>1, <1>2 DEF ToSet, IsInjective, Bijection, Injection, Surjection
<1>4. ExistsBijection(1 .. Len(q), ToSet(q))
  BY <1>3 DEF ExistsBijection
<1> QED BY <1>1, <1>4, FS_CountingElements, FS_NatBijection

(***************************************************************************)
(* A walk that keeps the elements in K keeps those, once each when they    *)
(* were there once.                                                        *)
(***************************************************************************)
LEMMA KeptElements ==
  ASSUME NEW S, NEW q \in Seq(S), NEW K
  PROVE  LET r == Kept(q, K) IN
         /\ r \in Seq(S)
         /\ ToSet(r) = ToSet(q) \cap K
         /\ IsInjective(q) => IsInjective(r)
<1> DEFINE n == Len(q)
           Step(f, i) == IF i = 0 THEN <<>>
                         ELSE IF q[i] \in K THEN Append(f[i - 1], q[i]) ELSE f[i - 1]
           Before(i) == {q[j] : j \in 1 .. i}
           Good(s, i) == /\ s \in Seq(S)
                         /\ ToSet(s) = Before(i) \cap K
                         /\ IsInjective(q) => IsInjective(s)
           IsKept(f, m) == \A i \in 0 .. m : f[i] = Step(f, i) /\ Good(f[i], i)
           Bad == {m \in 0 .. n : ~\E f \in [0 .. m -> Seq(S)] : IsKept(f, m)}
<1>1. n \in Nat /\ DOMAIN q = 1 .. n /\ \A i \in 1 .. n : q[i] \in S
  OBVIOUS
<1>2. ASSUME NEW i \in 1 .. n, NEW s, Good(s, i - 1)
      PROVE  Good(IF q[i] \in K THEN Append(s, q[i]) ELSE s, i)
  <2>1. Before(i) = Before(i - 1) \cup {q[i]}
    BY <1>1
  <2>2. CASE q[i] \notin K
    BY <1>2, <2>1, <2>2
  <2>3. CASE q[i] \in K
    <3> DEFINE t == Append(s, q[i])
    <3>1. /\ t \in Seq(S) /\ Len(t) = Len(s) + 1 /\ Len(s) \in Nat
          /\ DOMAIN t = 1 .. Len(t) /\ DOMAIN s = 1 .. Len(s)
          /\ \A j \in 1 .. Len(s) : t[j] = s[j]
          /\ t[Len(s) + 1] = q[i]
      BY <1>1, <1>2, AppendProperties
    <3> HIDE DEF t
    <3>2. ToSet(t) = ToSet(s) \cup {q[i]}
      <4>1. \A j \in 1 .. Len(t) : j \in 1 .. Len(s) \/ j = Len(s) + 1
        BY <3>1
      <4>2. 1 .. Len(s) \subseteq 1 .. Len(t) /\ Len(s) + 1 \in 1 .. Len(t)
        BY <3>1
      <4> QED BY <3>1, <4>1, <4>2 DEF ToSet
    <3>3. ASSUME IsInjective(q) PROVE IsInjective(t)
      <4>1. q[i] \notin Before(i - 1)
        BY <1>1, <3>3 DEF IsInjective
      <4>2. q[i] \notin ToSet(s) /\ IsInjective(s)
        BY <1>2, <3>3, <4>1
      <4>3. \A j \in 1 .. Len(s) : s[j] # q[i]
        BY <3>1, <4>2 DEF ToSet
      <4>4. \A j, k \in 1 .. Len(s) : s[j] = s[k] => j = k
        BY <3>1, <4>2 DEF IsInjective
      <4>5. \A j \in 1 .. Len(t) : j \in 1 .. Len(s) \/ j = Len(s) + 1
        BY <3>1
      <4> QED BY <3>1, <4>3, <4>4, <4>5 DEF IsInjective
    <3> QED BY <1>2, <2>1, <2>3, <3>1, <3>2, <3>3 DEF t
  <2> QED BY <2>2, <2>3
<1>3. Good(<<>>, 0)
  BY DEF ToSet, IsInjective
<1> HIDE DEF Good
<1>4. Bad = {}
  <2> SUFFICES ASSUME Bad # {} PROVE FALSE
    OBVIOUS
  <2> DEFINE m == Min(Bad)
  <2>1. Bad \in SUBSET Nat
    BY <1>1
  <2> HIDE DEF Bad
  <2>2. m \in Bad /\ \A y \in Bad : m <= y
    BY <2>1, MinOfNaturals
  <2> USE DEF Bad
  <2> HIDE DEF m
  <2>3. m \in 0 .. n /\ ~\E f \in [0 .. m -> Seq(S)] : IsKept(f, m)
    BY <2>2
  <2>4. CASE m = 0
    <3> DEFINE f == [i \in 0 .. 0 |-> <<>>]
    <3>1. f \in [0 .. 0 -> Seq(S)] /\ IsKept(f, 0)
      BY <1>3
    <3> QED BY <2>3, <2>4, <3>1
  <2>5. CASE m # 0
    <3>1. m - 1 \in 0 .. n /\ m - 1 \notin Bad /\ m \in 1 .. n
      <4>1. m - 1 \in 0 .. n /\ ~(m <= m - 1) /\ m \in 1 .. n
        BY <1>1, <2>3, <2>5
      <4> QED BY <2>2, <4>1
    <3>2. PICK f \in [0 .. m - 1 -> Seq(S)] : IsKept(f, m - 1)
      BY <3>1
    <3> DEFINE x == Step(f, m)
               g == [i \in 0 .. m |-> IF i = m THEN x ELSE f[i]]
    <3>3. Good(x, m)
      BY <1>2, <2>5, <3>1, <3>2
    <3>4. x \in Seq(S)
      BY <3>3 DEF Good
    <3>5. g \in [0 .. m -> Seq(S)]
      BY <1>1, <3>1, <3>2, <3>4
    <3>6. g[m] = x /\ \A i \in 0 .. m - 1 : g[i] = f[i]
      BY <3>1
    <3>7. ASSUME NEW i \in 0 .. m PROVE g[i] = Step(g, i) /\ Good(g[i], i)
      <4>1. Step(g, i) = Step(f, i)
        BY <3>1, <3>6
      <4>2. CASE i = m
        BY <3>3, <3>6, <4>1, <4>2
      <4>3. CASE i # m
        <5>1. i \in 0 .. m - 1
          BY <3>1, <4>3
        <5> QED BY <3>2, <3>6, <4>1, <5>1
      <4> QED BY <4>2, <4>3
    <3> QED BY <2>3, <3>5, <3>7
  <2> QED BY <2>4, <2>5
<1>5. PICK f \in [0 .. n -> Seq(S)] : IsKept(f, n)
  BY <1>1, <1>4
<1> DEFINE k == CHOOSE g : g = [i \in 0 .. n |-> Step(g, i)]
<1>6. k = [i \in 0 .. n |-> Step(k, i)]
  <2>1. f = [i \in 0 .. n |-> Step(f, i)]
    BY <1>5
  <2> QED BY <2>1
<1>7. Kept(q, K) = k[n]
  BY DEF Kept
<1> HIDE DEF k
<1> DEFINE Differ == {i \in 0 .. n : k[i] # f[i]}
<1>8. Differ = {}
  <2> SUFFICES ASSUME Differ # {} PROVE FALSE
    OBVIOUS
  <2> DEFINE m == Min(Differ)
  <2>1. Differ \in SUBSET Nat
    BY <1>1
  <2> HIDE DEF Differ
  <2>2. m \in Differ /\ \A y \in Differ : m <= y
    BY <2>1, MinOfNaturals
  <2> USE DEF Differ
  <2> HIDE DEF m
  <2>3. m \in 0 .. n /\ k[m] # f[m]
    BY <2>2
  <2>4. k[m] = Step(k, m) /\ f[m] = Step(f, m)
    BY <1>5, <1>6, <2>3
  <2>5. m # 0 => k[m - 1] = f[m - 1]
    <3> SUFFICES ASSUME m # 0, k[m - 1] # f[m - 1] PROVE FALSE
      OBVIOUS
    <3>1. m - 1 \in 0 .. n /\ ~(m <= m - 1)
      BY <1>1, <2>3
    <3> QED BY <2>2, <3>1
  <2> QED BY <2>3, <2>4, <2>5
<1>9. Good(Kept(q, K), n)
  BY <1>1, <1>5, <1>7, <1>8
<1> QED BY <1>1, <1>9 DEF Good, ToSet

(***************************************************************************)
(* Elements that are put, last first, in front of a list that has none of  *)
(* them.                                                                   *)
(***************************************************************************)
LEMMA ReverseInFront ==
  ASSUME NEW S, NEW q \in Seq(S), NEW s \in Seq(S),
         ToSet(q) \cap ToSet(s) = {}, IsInjective(q), IsInjective(s)
  PROVE  LET r == Reverse(q) \o s IN
         /\ r \in Seq(S)
         /\ ToSet(r) = ToSet(q) \cup ToSet(s)
         /\ IsInjective(r)
<1> DEFINE n == Len(q)
           m == Len(s)
           b == Reverse(q)
<1>1. /\ n \in Nat /\ DOMAIN q = 1 .. n /\ \A i \in 1 .. n : q[i] \in S
      /\ m \in Nat /\ DOMAIN s = 1 .. m /\ \A i \in 1 .. m : s[i] \in S
  OBVIOUS
<1>2. \A i \in 1 .. n : n - i + 1 \in 1 .. n
  BY <1>1
<1>3. b = [i \in 1 .. n |-> q[n - i + 1]]
  BY DEF Reverse
<1>4. b \in Seq(S) /\ Len(b) = n /\ \A i \in 1 .. n : b[i] = q[n - i + 1]
  <2>1. b \in [1 .. n -> S]
    BY <1>1, <1>2, <1>3
  <2>2. b \in Seq(S)
    BY <1>1, <2>1, SeqDef
  <2> QED BY <1>1, <1>3, <2>2
<1> HIDE DEF b
<1> DEFINE r == b \o s
<1>5. /\ r \in Seq(S) /\ Len(r) = n + m
      /\ \A i \in 1 .. n + m : r[i] = IF i <= n THEN b[i] ELSE s[i - n]
  <2>1. b \in Seq(S) /\ Len(b) = n /\ Len(s) = m
    BY <1>4
  <2> HIDE DEF n, m
  <2>2. /\ r \in Seq(S) /\ Len(r) = Len(b) + Len(s)
        /\ \A i \in 1 .. Len(b) + Len(s) :
             r[i] = IF i <= Len(b) THEN b[i] ELSE s[i - Len(b)]
    BY <2>1, ConcatProperties
  <2> QED BY <2>1, <2>2
<1> HIDE DEF r, n, m
<1>6. DOMAIN r = 1 .. n + m
  BY <1>5
<1>7. ASSUME NEW i \in 1 .. n
      PROVE  i \in 1 .. n + m /\ r[i] = q[n - i + 1] /\ n - i + 1 \in 1 .. n
  BY <1>1, <1>2, <1>4, <1>5
<1>8. ASSUME NEW i \in 1 .. m
      PROVE  n + i \in 1 .. n + m /\ r[n + i] = s[i]
  <2>1. n + i \in 1 .. n + m /\ ~(n + i <= n) /\ (n + i) - n = i
    BY <1>1
  <2>2. r[n + i] = s[(n + i) - n]
    BY <1>5, <2>1
  <2> QED BY <2>1, <2>2
<1>9. ASSUME NEW i \in 1 .. n + m
      PROVE  i \in 1 .. n \/ (i - n \in 1 .. m /\ i = n + (i - n))
  BY <1>1
<1>10. ToSet(r) = ToSet(q) \cup ToSet(s)
  <2>1. ASSUME NEW i \in 1 .. n + m PROVE r[i] \in ToSet(q) \cup ToSet(s)
    <3>1. CASE i \in 1 .. n
      BY <1>1, <1>7, <3>1 DEF ToSet
    <3>2. CASE i - n \in 1 .. m /\ i = n + (i - n)
      <4>1. r[i] = s[i - n]
        BY <1>8, <3>2
      <4> QED BY <1>1, <3>2, <4>1 DEF ToSet
    <3> QED BY <1>9, <3>1, <3>2
  <2>2. ASSUME NEW i \in 1 .. n PROVE q[i] \in ToSet(r)
    <3>1. n - (n - i + 1) + 1 = i
      BY <1>1
    <3>2. /\ n - i + 1 \in 1 .. n
          /\ n - i + 1 \in 1 .. n + m
          /\ r[n - i + 1] = q[n - (n - i + 1) + 1]
      BY <1>2, <1>7
    <3> QED BY <1>6, <3>1, <3>2 DEF ToSet
  <2>3. ASSUME NEW i \in 1 .. m PROVE s[i] \in ToSet(r)
    BY <1>6, <1>8 DEF ToSet
  <2>4. ToSet(r) \subseteq ToSet(q) \cup ToSet(s)
    BY <1>6, <2>1 DEF ToSet
  <2>5. ToSet(q) \subseteq ToSet(r) /\ ToSet(s) \subseteq ToSet(r)
    BY <1>1, <2>2, <2>3 DEF ToSet
  <2> QED BY <2>4, <2>5
<1>11. ASSUME NEW i \in 1 .. n + m, NEW j \in 1 .. n + m, r[i] = r[j]
       PROVE  i = j
  <2>1. CASE i \in 1 .. n /\ j \in 1 .. n
    <3>1. n - i + 1 = n - j + 1
      BY <1>1, <1>7, <1>11, <2>1 DEF IsInjective
    <3> QED BY <1>1, <3>1
  <2>2. CASE i \in 1 .. n /\ j \notin 1 .. n
    <3>1. r[j] \in ToSet(s) /\ r[i] \in ToSet(q)
      BY <1>1, <1>7, <1>8, <1>9, <2>2 DEF ToSet
    <3> QED BY <1>11, <3>1
  <2>3. CASE i \notin 1 .. n /\ j \in 1 .. n
    <3>1. r[i] \in ToSet(s) /\ r[j] \in ToSet(q)
      BY <1>1, <1>7, <1>8, <1>9, <2>3 DEF ToSet
    <3> QED BY <1>11, <3>1
  <2>4. CASE i \notin 1 .. n /\ j \notin 1 .. n
    <3>1. /\ i - n \in 1 .. m /\ i = n + (i - n)
          /\ j - n \in 1 .. m /\ j = n + (j - n)
      BY <1>9, <2>4
    <3>2. s[i - n] = s[j - n]
      BY <1>8, <1>11, <3>1
    <3>3. i - n = j - n
      BY <1>1, <3>1, <3>2 DEF IsInjective
    <3> QED BY <3>1, <3>3
  <2> QED BY <2>1, <2>2, <2>3, <2>4
<1> QED BY <1>5, <1>6, <1>10, <1>11 DEF IsInjective, b, r

LEMMA InsertedOnce ==
  ASSUME NEW S, NEW q \in Seq(S), IsInjective(q), NEW p \in S, p \notin ToSet(q),
         NEW k \in 1 .. Len(q) + 1
  PROVE  IsInjective(InsertAt(q, k, p))
<1> DEFINE n == Len(q)
           s == InsertAt(q, k, p)
           from(h) == IF h < k THEN h ELSE h - 1
<1>1. /\ n \in Nat /\ \A i, j \in 1 .. n : q[i] = q[j] => i = j
      /\ \A i \in 1 .. n : q[i] # p
  BY DEF IsInjective, ToSet
<1>2. /\ s \in Seq(S) /\ Len(s) = n + 1
      /\ \A i \in 1 .. k - 1 : s[i] = q[i]
      /\ s[k] = p
      /\ \A i \in k + 1 .. n + 1 : s[i] = q[i - 1]
  BY InsertedAt
<1> HIDE DEF s
<1>3. DOMAIN s = 1 .. n + 1
  BY <1>2
<1>4. ASSUME NEW h \in 1 .. n + 1, h # k
      PROVE  s[h] = q[from(h)] /\ from(h) \in 1 .. n
  <2>1. CASE h < k
    <3>1. h \in 1 .. k - 1 /\ h \in 1 .. n
      BY <1>1, <2>1
    <3> QED BY <1>2, <2>1, <3>1
  <2>2. CASE ~(h < k)
    <3>1. h \in k + 1 .. n + 1 /\ h - 1 \in 1 .. n
      BY <1>1, <1>4, <2>2
    <3> QED BY <1>2, <2>2, <3>1
  <2> QED BY <2>1, <2>2
<1>5. ASSUME NEW i \in 1 .. n + 1, NEW j \in 1 .. n + 1, s[i] = s[j]
      PROVE  i = j
  <2>1. CASE i = k \/ j = k
    <3>1. \A h \in 1 .. n + 1 : h # k => s[h] # p
      <4> HIDE DEF from
      <4> QED BY <1>1, <1>4
    <3> QED BY <1>2, <1>5, <2>1, <3>1
  <2>2. CASE i # k /\ j # k
    <3>1. from(i) = from(j)
      <4> HIDE DEF from
      <4> QED BY <1>1, <1>4, <1>5, <2>2
    <3> QED BY <1>1, <2>2, <3>1
  <2> QED BY <2>1, <2>2
<1> QED BY <1>3, <1>5 DEF IsInjective, s

-----------------------------------------------------------------------------
(* The links of a queue.                                                   *)

(***************************************************************************)
(* The line of a queue starts at the pointer to the first element, ends at *)
(* null, and meets no cell twice.                                          *)
(***************************************************************************)
LEMMA LineOfQueue ==
  ASSUME NEW q \in Seq(Task), IsInjective(q)
  PROVE  LET line == Links!Line(q)
             n == Len(q)
         IN
         /\ n \in Nat /\ Len(line) = n + 2
         /\ line \in Seq(Links!Cell)
         /\ line[1] = Links!First /\ line[n + 2] = Null
         /\ \A i \in 1 .. n : line[i + 1] = q[i]
         /\ \A i \in 2 .. n + 1 : line[i] = q[i - 1]
         /\ \A i \in 2 .. n + 1 : line[i] \in Task
         /\ \A i, j \in 1 .. n + 2 : line[i] = line[j] => i = j
<1> DEFINE n == Len(q)
           line == Links!Line(q)
           C == Links!Cell
<1>1. n \in Nat /\ DOMAIN q = 1 .. n /\ \A i \in 1 .. n : q[i] \in Task
  OBVIOUS
<1>2. Links!First \in C /\ Null \in C /\ Task \subseteq C
  BY DEF Links!Cell
<1>3. Links!First \notin Task /\ Null \notin Task /\ Links!First # Null
  BY LinksAssumption, ProcessAssumption DEF Task
<1> DEFINE f == Links!First
<1> HIDE DEF f
<1>4. /\ line = <<f>> \o q \o <<Null>>
      /\ f \in C /\ f \notin Task /\ f # Null
  BY <1>2, <1>3 DEF f, Links!Line
<1> HIDE DEF C
<1>5. q \in Seq(C)
  BY <1>1, <1>2, SeqDef
<1>6. /\ line \in Seq(C) /\ Len(line) = n + 2
      /\ line[1] = f /\ line[n + 2] = Null
      /\ \A i \in 2 .. n + 1 : line[i] = q[i - 1]
  <2> HIDE DEF line
  <2> DEFINE a == <<f>> \o q
  <2>1. /\ a \in Seq(C) /\ Len(a) = n + 1 /\ a[1] = f
        /\ \A i \in 2 .. n + 1 : a[i] = q[i - 1]
    BY <1>1, <1>4, <1>5
  <2>2. line = Append(a, Null)
    BY <1>2, <1>4, <2>1
  <2> HIDE DEF a
  <2>3. /\ line \in Seq(C) /\ Len(line) = Len(a) + 1
        /\ \A i \in 1 .. Len(a) : line[i] = a[i]
        /\ line[Len(a) + 1] = Null
    BY <1>2, <2>1, <2>2, AppendProperties
  <2> QED BY <1>1, <2>1, <2>3
<1> HIDE DEF line
<1>7. ASSUME NEW i \in 1 .. n PROVE line[i + 1] = q[i]
  <2>1. i + 1 \in 2 .. n + 1 /\ (i + 1) - 1 = i
    BY <1>1
  <2> QED BY <1>6, <2>1
<1>8. \A i \in 2 .. n + 1 : line[i] \in Task
  BY <1>1, <1>6
<1>9. ASSUME NEW i \in 1 .. n + 2, NEW j \in 1 .. n + 2, line[i] = line[j]
      PROVE  i = j
  <2>1. CASE i \in 2 .. n + 1 /\ j \in 2 .. n + 1
    <3>1. i - 1 \in 1 .. n /\ j - 1 \in 1 .. n /\ q[i - 1] = q[j - 1]
      BY <1>1, <1>6, <1>9, <2>1
    <3>2. i - 1 = j - 1
      BY <1>1, <3>1 DEF IsInjective
    <3> QED BY <3>2
  <2>2. CASE ~(i \in 2 .. n + 1 /\ j \in 2 .. n + 1)
    <3>1. \A h \in 1 .. n + 2 : h = 1 \/ h \in 2 .. n + 1 \/ h = n + 2
      BY <1>1
    <3> QED BY <1>3, <1>4, <1>6, <1>8, <1>9, <2>2, <3>1
  <2> QED BY <2>1, <2>2
<1> QED BY <1>1, <1>6, <1>7, <1>8, <1>9 DEF line, f, C

(***************************************************************************)
(* The memory of a queue has its links.                                    *)
(***************************************************************************)
LEMMA LinkedIsQueue ==
  ASSUME NEW q \in Seq(Task), IsInjective(q), NEW junk \in Links!Cell
  PROVE  LET m == Links!Linked(q, junk) IN
         /\ m \in [next : [Links!Cell -> Links!Cell], prev : [Links!Cell -> Links!Cell]]
         /\ Links!DoublyRepresents(m, q)
<1> DEFINE n == Len(q)
           line == Links!Line(q)
           C == Links!Cell
           m == Links!Linked(q, junk)
           place(c) == CHOOSE i \in 1 .. n + 2 : line[i] = c
<1>1. /\ n \in Nat /\ Len(line) = n + 2
      /\ line \in Seq(C)
      /\ line[1] = Links!First /\ line[n + 2] = Null
      /\ \A i \in 1 .. n : line[i + 1] = q[i]
      /\ \A i \in 2 .. n + 1 : line[i] = q[i - 1]
      /\ \A i \in 2 .. n + 1 : line[i] \in Task
      /\ \A i, j \in 1 .. n + 2 : line[i] = line[j] => i = j
  BY LineOfQueue
<1>2. \A i \in 1 .. n + 2 : line[i] \in C
  BY <1>1
<1>3. m = [next |-> [c \in C |-> IF c \in {Links!First} \cup ToSet(q)
                                 THEN line[place(c) + 1] ELSE junk],
           prev |-> [c \in C |-> IF c \in ToSet(q) THEN line[place(c) - 1] ELSE junk]]
  BY DEF Links!Linked, Links!ToSet, ToSet
<1>4. ToSet(q) = {q[i] : i \in 1 .. n}
  BY DEF ToSet
<1> HIDE DEF line, m, C
<1>5. \A i \in 1 .. n + 2 : place(line[i]) = i
  BY <1>1
<1>6. ASSUME NEW c \in {Links!First} \cup ToSet(q)
      PROVE  \E i \in 1 .. n + 1 : line[i] = c /\ (c \in ToSet(q) => i \in 2 .. n + 1)
  <2>1. CASE c \in ToSet(q)
    <3>1. PICK i \in 1 .. n : c = q[i]
      BY <1>4, <2>1
    <3>2. i + 1 \in 2 .. n + 1 /\ i + 1 \in 1 .. n + 1 /\ line[i + 1] = c
      BY <1>1, <3>1
    <3> QED BY <3>2
  <2>2. CASE c \notin ToSet(q)
    <3>1. c = Links!First /\ 1 \in 1 .. n + 1
      BY <1>1, <1>6, <2>2
    <3> QED BY <1>1, <2>2, <3>1
  <2> QED BY <2>1, <2>2
<1>7. \A c \in {Links!First} \cup ToSet(q) : line[place(c) + 1] \in C
  <2> SUFFICES ASSUME NEW c \in {Links!First} \cup ToSet(q)
               PROVE  line[place(c) + 1] \in C
    OBVIOUS
  <2>1. PICK i \in 1 .. n + 1 : line[i] = c
    BY <1>6
  <2>2. i \in 1 .. n + 2 /\ i + 1 \in 1 .. n + 2
    BY <1>1
  <2>3. place(c) = i
    BY <1>5, <2>1, <2>2
  <2> HIDE DEF place
  <2> QED BY <1>2, <2>2, <2>3
<1>8. \A c \in ToSet(q) : line[place(c) - 1] \in C
  <2> SUFFICES ASSUME NEW c \in ToSet(q)
               PROVE  line[place(c) - 1] \in C
    OBVIOUS
  <2>1. PICK i \in 2 .. n + 1 : line[i] = c
    BY <1>6
  <2>2. i \in 1 .. n + 2 /\ i - 1 \in 1 .. n + 2
    BY <1>1
  <2>3. place(c) = i
    BY <1>5, <2>1, <2>2
  <2> HIDE DEF place
  <2> QED BY <1>2, <2>2, <2>3
<1>9. m \in [next : [C -> C], prev : [C -> C]]
  <2> HIDE DEF place
  <2> QED BY <1>3, <1>7, <1>8 DEF C
<1>10. ASSUME NEW i \in 1 .. n + 1
       PROVE  m.next[line[i]] = line[i + 1]
  <2>1. i \in 1 .. n + 2
    BY <1>1
  <2>2. line[i] \in C /\ place(line[i]) = i
    BY <1>2, <1>5, <2>1
  <2>3. line[i] \in {Links!First} \cup ToSet(q)
    <3>1. CASE i = 1
      BY <1>1, <3>1
    <3>2. CASE i # 1
      <4>1. i \in 2 .. n + 1 /\ i - 1 \in 1 .. n
        BY <1>1, <3>2
      <4> QED BY <1>1, <1>4, <4>1
    <3> QED BY <3>1, <3>2
  <2> HIDE DEF place
  <2> QED BY <1>3, <2>2, <2>3
<1>11. ASSUME NEW i \in 1 .. n
       PROVE  m.prev[q[i]] = line[i]
  <2>1. i + 1 \in 1 .. n + 2 /\ line[i + 1] = q[i] /\ (i + 1) - 1 = i
    BY <1>1
  <2>2. q[i] \in C /\ place(q[i]) = i + 1
    BY <1>2, <1>5, <2>1
  <2>3. q[i] \in ToSet(q)
    BY <1>4
  <2> HIDE DEF place
  <2> QED BY <1>3, <2>1, <2>2, <2>3
<1> QED BY <1>9, <1>10, <1>11
        DEF Links!DoublyRepresents, Links!Represents, m, line, C

(***************************************************************************)
(* The loop that goes on past the elements in Past ends behind the first   *)
(* element of the queue that is not there, or at the end of the queue: it  *)
(* has passes enough, since a queue holds no element twice.                *)
(***************************************************************************)
LEMMA WalkEnds ==
  ASSUME IsFiniteSet(Task), NEW q \in Seq(Task), IsInjective(q),
         NEW m, Links!Represents(m, q),
         NEW Past \in SUBSET Task, NEW k \in 1 .. Len(q) + 1,
         \A i \in 1 .. Len(q) : i < k => q[i] \in Past,
         k <= Len(q) => q[k] \notin Past
  PROVE  Links!WalkEnd(m, Past) = Links!Line(q)[k]
<1> DEFINE n == Len(q)
           N == Cardinality(Task)
           line == Links!Line(q)
           Step(f, i) == IF i = 0 THEN Links!First
                         ELSE IF m.next[f[i - 1]] \in Past THEN m.next[f[i - 1]]
                         ELSE f[i - 1]
           min(i) == IF i + 1 <= k THEN i + 1 ELSE k
           g == [i \in 0 .. N |-> line[min(i)]]
<1>1. /\ n \in Nat /\ line[1] = Links!First /\ line[n + 2] = Null
      /\ \A i \in 1 .. n : line[i + 1] = q[i]
      /\ \A i \in 1 .. n + 1 : m.next[line[i]] = line[i + 1]
      /\ Null \notin Past
  <2>1. /\ n \in Nat /\ line[1] = Links!First /\ line[n + 2] = Null
        /\ \A i \in 1 .. n : line[i + 1] = q[i]
    BY LineOfQueue
  <2>2. Null \notin Past
    BY ProcessAssumption DEF Task
  <2> HIDE DEF line
  <2> QED BY <2>1, <2>2 DEF Links!Represents, line
<1>2. N \in Nat /\ n <= N
  <2>1. ToSet(q) \subseteq Task
    BY DEF ToSet
  <2>2. n = Cardinality(ToSet(q))
    BY QueueLength
  <2> QED BY <2>1, <2>2, FS_Subset, FS_CardinalityType
<1> HIDE DEF line, N
<1>3. ASSUME NEW i \in 1 .. n + 1
      PROVE  m.next[line[i]] \in Past <=> i < k \/ (i > k /\ i <= n /\ q[i] \in Past)
  <2>1. CASE i <= n
    <3>1. m.next[line[i]] = q[i]
      BY <1>1, <2>1
    <3>2. i \in 1 .. n
      BY <2>1
    <3> QED BY <1>1, <2>1, <3>1, <3>2
  <2>2. CASE ~(i <= n)
    <3>1. i = n + 1 /\ i + 1 = n + 2 /\ k <= n + 1
      <4>1. n \in Nat /\ i \in 1 .. n + 1 /\ k \in 1 .. n + 1
        BY <1>1
      <4> HIDE DEF n
      <4> QED BY <2>2, <4>1
    <3> QED BY <1>1, <2>2, <3>1
  <2> QED BY <2>1, <2>2
<1>4. ASSUME NEW i \in 0 .. N
      PROVE  g[i] = Step(g, i)
  <2>1. CASE i = 0
    BY <1>1, <1>2, <2>1
  <2>2. CASE i # 0
    <3>1. i - 1 \in 0 .. N /\ (i - 1) + 1 = i
      BY <1>2, <2>2
    <3>2. g[i - 1] = line[min(i - 1)]
      BY <3>1
    <3>3. CASE i < k
      <4>1. min(i - 1) = i /\ min(i) = i + 1 /\ i \in 1 .. n + 1
        BY <1>1, <2>2, <3>1, <3>3
      <4>2. m.next[line[i]] \in Past /\ m.next[line[i]] = line[i + 1]
        BY <1>1, <1>3, <3>3, <4>1
      <4> HIDE DEF min
      <4> QED BY <2>2, <3>2, <4>1, <4>2
    <3>4. CASE ~(i < k)
      <4>1. min(i - 1) = k /\ min(i) = k /\ k \in 1 .. n + 1
        BY <1>1, <2>2, <3>1, <3>4
      <4>2. m.next[line[k]] \notin Past
        BY <1>1, <1>3, <4>1
      <4> HIDE DEF min
      <4> QED BY <2>2, <3>2, <4>1, <4>2
    <3> QED BY <3>3, <3>4
  <2> QED BY <2>1, <2>2
<1>5. g[N] = line[k]
  <2>1. min(N) = k
    BY <1>1, <1>2
  <2> HIDE DEF min
  <2> QED BY <1>2, <2>1
<1> HIDE DEF g
<1> DEFINE h == CHOOSE f : f = [i \in 0 .. N |-> Step(f, i)]
<1>6. h = [i \in 0 .. N |-> Step(h, i)]
  <2>1. g = [i \in 0 .. N |-> Step(g, i)]
    BY <1>4 DEF g
  <2> QED BY <2>1
<1>7. Links!WalkEnd(m, Past) = h[N]
  <2>1. Links!Cardinality(Task) = N
    BY DEF Links!Cardinality, Cardinality, N
  <2> QED BY <2>1 DEF Links!WalkEnd, h
<1> HIDE DEF h
<1> DEFINE Differ == {i \in 0 .. N : h[i] # g[i]}
<1>8. Differ = {}
  <2> SUFFICES ASSUME Differ # {} PROVE FALSE
    OBVIOUS
  <2> DEFINE d == Min(Differ)
  <2>1. Differ \in SUBSET Nat
    BY <1>2
  <2> HIDE DEF Differ
  <2>2. d \in Differ /\ \A y \in Differ : d <= y
    BY <2>1, MinOfNaturals
  <2> USE DEF Differ
  <2> HIDE DEF d
  <2>3. d \in 0 .. N /\ h[d] # g[d]
    BY <2>2
  <2>4. h[d] = Step(h, d) /\ g[d] = Step(g, d)
    BY <1>4, <1>6, <2>3
  <2>5. d # 0 => h[d - 1] = g[d - 1]
    <3> SUFFICES ASSUME d # 0, h[d - 1] # g[d - 1] PROVE FALSE
      OBVIOUS
    <3>1. d - 1 \in 0 .. N /\ ~(d <= d - 1)
      BY <1>2, <2>3
    <3> QED BY <2>2, <3>1
  <2> QED BY <2>3, <2>4, <2>5
<1>9. h[N] = g[N]
  BY <1>2, <1>8
<1> QED BY <1>5, <1>7, <1>9 DEF line

(***************************************************************************)
(* Linking an element behind cell k of the line inserts it at place k.     *)
(***************************************************************************)
LEMMA LinkedAt ==
  ASSUME NEW q \in Seq(Task), IsInjective(q), NEW m, Links!Represents(m, q),
         NEW p \in Task, p \notin ToSet(q), NEW k \in 1 .. Len(q) + 1,
         NEW r, r.next[Links!Line(q)[k]] = p,
         r.next[p] = Links!Line(q)[k + 1],
         \A i \in 1 .. Len(q) + 1 :
            i # k => r.next[Links!Line(q)[i]] = m.next[Links!Line(q)[i]]
  PROVE  LET s == InsertAt(q, k, p) IN
         /\ Links!Represents(r, s)
         /\ (/\ Links!DoublyRepresents(m, q)
             /\ r.prev[p] = Links!Line(q)[k]
             /\ \A i \in 1 .. Len(q) :
                  r.prev[q[i]] = IF i = k THEN p ELSE m.prev[q[i]])
            => Links!DoublyRepresents(r, s)
<1> DEFINE n == Len(q)
           s == InsertAt(q, k, p)
           line == Links!Line(q)
           new == Links!Line(s)
<1>1. /\ n \in Nat
      /\ line[1] = Links!First /\ line[n + 2] = Null
      /\ \A i \in 1 .. n : line[i + 1] = q[i]
  BY LineOfQueue
<1>2. /\ s \in Seq(Task) /\ Len(s) = n + 1
      /\ \A i \in 1 .. k - 1 : s[i] = q[i]
      /\ s[k] = p
      /\ \A i \in k + 1 .. n + 1 : s[i] = q[i - 1]
  BY InsertedAt
<1>3. IsInjective(s)
  BY InsertedOnce
<1>4. /\ new[1] = Links!First /\ new[n + 3] = Null
      /\ \A i \in 1 .. n + 1 : new[i + 1] = s[i]
  <2> HIDE DEF s
  <2>1. /\ new[1] = Links!First /\ new[Len(s) + 2] = Null
        /\ \A i \in 1 .. Len(s) : new[i + 1] = s[i]
    BY <1>2, <1>3, LineOfQueue
  <2> HIDE DEF new
  <2>2. (n + 1) + 2 = n + 3
    BY <1>1
  <2> QED BY <1>2, <2>1, <2>2
<1>5. /\ \A i \in 1 .. n + 1 : m.next[line[i]] = line[i + 1]
      /\ Links!DoublyRepresents(m, q) => \A i \in 1 .. n : m.prev[q[i]] = line[i]
  BY DEF Links!Represents, Links!DoublyRepresents
<1> HIDE DEF s, line, new
<1>6. \A i \in 1 .. k : new[i] = line[i]
  <2> SUFFICES ASSUME NEW i \in 1 .. k PROVE new[i] = line[i]
    OBVIOUS
  <2>1. CASE i = 1
    BY <1>1, <1>4, <2>1
  <2>2. CASE i # 1
    <3> DEFINE j == i - 1
    <3>1. j \in 1 .. k - 1 /\ j \in 1 .. n /\ j \in 1 .. n + 1 /\ j + 1 = i
      BY <1>1, <2>2
    <3> HIDE DEF j
    <3>2. new[j + 1] = s[j] /\ line[j + 1] = q[j] /\ s[j] = q[j]
      BY <1>1, <1>2, <1>4, <3>1
    <3> QED BY <3>1, <3>2
  <2> QED BY <2>1, <2>2
<1>7. new[k + 1] = p
  BY <1>1, <1>2, <1>4
<1>8. \A i \in k + 2 .. n + 3 : new[i] = line[i - 1]
  <2> SUFFICES ASSUME NEW i \in k + 2 .. n + 3 PROVE new[i] = line[i - 1]
    OBVIOUS
  <2>1. CASE i = n + 3
    <3>1. i - 1 = n + 2
      BY <1>1, <2>1
    <3> QED BY <1>1, <1>4, <2>1, <3>1
  <2>2. CASE i # n + 3
    <3>1. /\ i - 1 \in k + 1 .. n + 1 /\ i - 1 \in 1 .. n + 1 /\ (i - 1) + 1 = i
          /\ i - 2 \in 1 .. n /\ (i - 2) + 1 = i - 1 /\ (i - 1) - 1 = i - 2
      BY <1>1, <2>2
    <3>2. new[i] = s[i - 1] /\ s[i - 1] = q[i - 2] /\ line[i - 1] = q[i - 2]
      BY <1>1, <1>2, <1>4, <3>1
    <3> QED BY <3>2
  <2> QED BY <2>1, <2>2
<1>9. ASSUME NEW i \in 1 .. n + 2 PROVE r.next[new[i]] = new[i + 1]
  <2>1. CASE i < k
    <3>1. i \in 1 .. k /\ i + 1 \in 1 .. k /\ i \in 1 .. n + 1 /\ i # k
      BY <1>1, <2>1
    <3> QED BY <1>5, <1>6, <3>1 DEF line
  <2>2. CASE i = k
    BY <1>6, <1>7, <2>2 DEF line
  <2>3. CASE i = k + 1
    <3>1. k + 2 \in k + 2 .. n + 3 /\ (k + 2) - 1 = k + 1 /\ (k + 1) + 1 = k + 2
      BY <1>1
    <3> QED BY <1>7, <1>8, <2>3, <3>1 DEF line
  <2>4. CASE i > k + 1
    <3>1. /\ i \in k + 2 .. n + 3 /\ i + 1 \in k + 2 .. n + 3 /\ (i + 1) - 1 = i
          /\ i - 1 \in 1 .. n + 1 /\ i - 1 # k /\ (i - 1) + 1 = i
      BY <1>1, <2>4
    <3>2. new[i] = line[i - 1] /\ new[i + 1] = line[i]
      BY <1>8, <3>1
    <3>3. m.next[line[i - 1]] = line[i]
      BY <1>5, <3>1
    <3> QED BY <3>1, <3>2, <3>3 DEF line
  <2> QED BY <2>1, <2>2, <2>3, <2>4
<1>10. Links!Represents(r, s)
  <2>1. (n + 1) + 1 = n + 2
    BY <1>1
  <2> QED BY <1>2, <1>9, <2>1 DEF Links!Represents, new
<1>11. ASSUME Links!DoublyRepresents(m, q), r.prev[p] = line[k],
              \A i \in 1 .. n : r.prev[q[i]] = IF i = k THEN p ELSE m.prev[q[i]],
              NEW i \in 1 .. n + 1
       PROVE  r.prev[s[i]] = new[i]
  <2>1. CASE i < k
    <3>1. i \in 1 .. k - 1 /\ i \in 1 .. n /\ i \in 1 .. k
      BY <1>1, <2>1
    <3> QED BY <1>2, <1>5, <1>6, <1>11, <2>1, <3>1
  <2>2. CASE i = k
    BY <1>2, <1>6, <1>11, <2>2
  <2>3. CASE i = k + 1
    <3>1. i \in k + 1 .. n + 1 /\ i - 1 = k /\ k \in 1 .. n
      BY <1>1, <2>3
    <3> QED BY <1>2, <1>7, <1>11, <2>3, <3>1
  <2>4. CASE i > k + 1
    <3> DEFINE j == i - 1
    <3>1. i \in k + 1 .. n + 1 /\ j # k /\ j \in 1 .. n /\ i \in k + 2 .. n + 3
      BY <1>1, <2>4
    <3>2. s[i] = q[j] /\ new[i] = line[j]
      BY <1>2, <1>8, <3>1
    <3> HIDE DEF j
    <3>3. r.prev[q[j]] = m.prev[q[j]] /\ m.prev[q[j]] = line[j]
      BY <1>5, <1>11, <3>1
    <3> QED BY <3>2, <3>3
  <2> QED BY <2>1, <2>2, <2>3, <2>4
<1> QED BY <1>2, <1>10, <1>11 DEF Links!DoublyRepresents, s, line, new

(***************************************************************************)
(* A walk that keeps every element but the one at k removes that one; with *)
(* k behind the end it keeps them all.                                     *)
(***************************************************************************)
LEMMA KeptAllBut ==
  ASSUME NEW S, NEW q \in Seq(S), NEW K, NEW k \in 1 .. Len(q) + 1,
         \A i \in 1 .. Len(q) : q[i] \in K <=> i # k
  PROVE  Kept(q, K) = IF k <= Len(q) THEN RemoveAt(q, k) ELSE q
<1> DEFINE n == Len(q)
           Step(f, i) == IF i = 0 THEN <<>>
                         ELSE IF q[i] \in K THEN Append(f[i - 1], q[i]) ELSE f[i - 1]
           front == SubSeq(q, 1, k - 1)
           g == [i \in 0 .. n |-> IF i < k THEN SubSeq(q, 1, i)
                                  ELSE front \o SubSeq(q, k + 1, i)]
<1>1. n \in Nat /\ DOMAIN q = 1 .. n /\ \A i \in 1 .. n : q[i] \in S
  OBVIOUS
<1>2. ASSUME NEW a \in 1 .. n + 1, NEW b \in 0 .. n
      PROVE  SubSeq(q, a, b) \in Seq(S)
  <2>1. \A i \in a .. b : q[i] \in S
    BY <1>1
  <2> QED BY <1>1, <2>1, SubSeqProperties
<1>3. front \in Seq(S)
  BY <1>1, <1>2
<1>4. ASSUME NEW i \in 0 .. n
      PROVE  g[i] = Step(g, i)
  <2>1. CASE i = 0
    <3>1. SubSeq(q, 1, 0) = <<>> /\ 0 < k
      BY SubSeqEmpty
    <3> QED BY <1>1, <2>1, <3>1
  <2>2. CASE i \in 1 .. n /\ i < k
    <3>1. i - 1 \in 0 .. n /\ i - 1 < k /\ q[i] \in K
      BY <1>1, <2>2
    <3>2. SubSeq(q, 1, i) = SubSeq(q, 1, i - 1) \o <<q[i]>>
      BY <1>1, <2>2, SubSeqRecursiveSecond
    <3>3. SubSeq(q, 1, i - 1) \o <<q[i]>> = Append(SubSeq(q, 1, i - 1), q[i])
      <4>1. SubSeq(q, 1, i - 1) \in Seq(S)
        BY <1>2, <3>1, <1>1
      <4> QED BY <1>1, <2>2, <4>1, AppendIsConcat
    <3>4. g[i] = SubSeq(q, 1, i) /\ g[i - 1] = SubSeq(q, 1, i - 1)
      BY <2>2, <3>1
    <3> HIDE DEF g
    <3> QED BY <2>2, <3>1, <3>2, <3>3, <3>4
  <2>3. CASE i \in 1 .. n /\ i = k
    <3>1. i - 1 \in 0 .. n /\ i - 1 < k /\ q[i] \notin K
      BY <1>1, <2>3
    <3>2. SubSeq(q, k + 1, i) = <<>> /\ front \o <<>> = front
      BY <1>1, <1>3, <2>3, SubSeqEmpty, ConcatEmptySeq
    <3>3. g[i] = front \o SubSeq(q, k + 1, i) /\ g[i - 1] = front
      BY <2>3, <3>1
    <3> HIDE DEF g, front
    <3>4. g[i] = g[i - 1]
      BY <3>2, <3>3
    <3> QED BY <2>3, <3>1, <3>4
  <2>4. CASE i \in 1 .. n /\ i > k
    <3> DEFINE rest == SubSeq(q, k + 1, i - 1)
    <3>1. i - 1 \in 0 .. n /\ ~(i - 1 < k) /\ ~(i < k) /\ q[i] \in K
      BY <1>1, <2>4
    <3>2. SubSeq(q, k + 1, i) = rest \o <<q[i]>>
      <4>1. k + 1 \in 1 .. n /\ i \in k + 1 .. n
        BY <1>1, <2>4
      <4> QED BY <4>1, SubSeqRecursiveSecond
    <3>3. rest \in Seq(S)
      <4>1. k + 1 \in 1 .. n + 1
        BY <1>1, <2>4
      <4> QED BY <1>2, <3>1, <4>1
    <3>4. g[i] = front \o SubSeq(q, k + 1, i) /\ g[i - 1] = front \o rest
      BY <2>4, <3>1
    <3> HIDE DEF g, front, rest
    <3>5. <<q[i]>> \in Seq(S) /\ front \o rest \in Seq(S) /\ q[i] \in S
      BY <1>1, <1>3, <2>4, <3>3, ConcatProperties
    <3>6. front \o (rest \o <<q[i]>>) = (front \o rest) \o <<q[i]>>
      BY <1>3, <3>3, <3>5, ConcatAssociative
    <3>7. (front \o rest) \o <<q[i]>> = Append(front \o rest, q[i])
      BY <3>5, AppendIsConcat
    <3>8. g[i] = Append(g[i - 1], q[i])
      BY <3>2, <3>4, <3>6, <3>7
    <3> QED BY <2>4, <3>1, <3>8
  <2> QED BY <1>1, <2>1, <2>2, <2>3, <2>4
<1>5. g[n] = IF k <= n THEN RemoveAt(q, k) ELSE q
  <2>1. n < k <=> ~(k <= n)
    BY <1>1
  <2>2. SubSeq(q, 1, n) = q
    BY SubSeqFull
  <2>3. n \in 0 .. n
    BY <1>1
  <2>4. g[n] = IF n < k THEN SubSeq(q, 1, n) ELSE front \o SubSeq(q, k + 1, n)
    BY <2>3
  <2>5. RemoveAt(q, k) = front \o SubSeq(q, k + 1, n)
    BY DEF RemoveAt
  <2> HIDE DEF g, front
  <2> QED BY <2>1, <2>2, <2>4, <2>5
<1> HIDE DEF g
<1> DEFINE h == CHOOSE f : f = [i \in 0 .. n |-> Step(f, i)]
<1>6. h = [i \in 0 .. n |-> Step(h, i)]
  <2>1. g = [i \in 0 .. n |-> Step(g, i)]
    BY <1>4 DEF g
  <2> QED BY <2>1
<1>7. Kept(q, K) = h[n]
  BY DEF Kept
<1> HIDE DEF h
<1> DEFINE Differ == {i \in 0 .. n : h[i] # g[i]}
<1>8. Differ = {}
  <2> SUFFICES ASSUME Differ # {} PROVE FALSE
    OBVIOUS
  <2> DEFINE d == Min(Differ)
  <2>1. Differ \in SUBSET Nat
    BY <1>1
  <2> HIDE DEF Differ
  <2>2. d \in Differ /\ \A y \in Differ : d <= y
    BY <2>1, MinOfNaturals
  <2> USE DEF Differ
  <2> HIDE DEF d
  <2>3. d \in 0 .. n /\ h[d] # g[d]
    BY <2>2
  <2>4. h[d] = Step(h, d) /\ g[d] = Step(g, d)
    BY <1>4, <1>6, <2>3
  <2>5. d # 0 => h[d - 1] = g[d - 1]
    <3> SUFFICES ASSUME d # 0, h[d - 1] # g[d - 1] PROVE FALSE
      OBVIOUS
    <3>1. d - 1 \in 0 .. n /\ ~(d <= d - 1)
      BY <1>1, <2>3
    <3> QED BY <2>2, <3>1
  <2> QED BY <2>3, <2>4, <2>5
<1>9. h[n] = g[n]
  BY <1>1, <1>8
<1> QED BY <1>5, <1>7, <1>9

(***************************************************************************)
(* A queue without one of its processes, and without a process that is not *)
(* there; the queue without its first process is its tail.                 *)
(***************************************************************************)
LEMMA WithoutOne ==
  ASSUME NEW q \in Seq(Task), IsInjective(q)
  PROVE  /\ \A k \in 1 .. Len(q) : Without(q, q[k]) = RemoveAt(q, k)
         /\ \A p : p \notin ToSet(q) => Without(q, p) = q
         /\ q # <<>> => Tail(q) = RemoveAt(q, 1)
<1>1. /\ Len(q) \in Nat /\ DOMAIN q = 1 .. Len(q)
      /\ \A i \in 1 .. Len(q) : q[i] \in Task
      /\ \A i, j \in 1 .. Len(q) : q[i] = q[j] => i = j
  BY DEF IsInjective
<1>2. ASSUME NEW k \in 1 .. Len(q)
      PROVE  Without(q, q[k]) = RemoveAt(q, k)
  <2>1. \A i \in 1 .. Len(q) : q[i] \in Task \ {q[k]} <=> i # k
    BY <1>1
  <2>2. k \in 1 .. Len(q) + 1 /\ k <= Len(q)
    BY <1>1
  <2> QED BY <2>1, <2>2, KeptAllBut DEF Without
<1>3. ASSUME NEW p, p \notin ToSet(q)
      PROVE  Without(q, p) = q
  <2> DEFINE k == Len(q) + 1
  <2>1. \A i \in 1 .. Len(q) : q[i] \in Task \ {p} <=> i # k
    BY <1>1, <1>3 DEF ToSet
  <2>2. k \in 1 .. Len(q) + 1 /\ ~(k <= Len(q))
    BY <1>1
  <2> HIDE DEF k
  <2> QED BY <2>1, <2>2, KeptAllBut DEF Without
<1>4. ASSUME q # <<>>
      PROVE  Tail(q) = RemoveAt(q, 1)
  <2>1. Tail(q) \in Seq(Task) /\ Tail(q) = SubSeq(q, 2, Len(q))
    BY <1>4, HeadTailProperties, TailIsSubSeq
  <2>2. SubSeq(q, 1, 0) = <<>>
    BY SubSeqEmpty
  <2>3. <<>> \o Tail(q) = Tail(q)
    BY <2>1, ConcatEmptySeq
  <2>4. RemoveAt(q, 1) = SubSeq(q, 1, 0) \o SubSeq(q, 2, Len(q))
    BY DEF RemoveAt
  <2> QED BY <2>1, <2>2, <2>3, <2>4
<1> QED BY <1>2, <1>3, <1>4

LEMMA RemovedOnce ==
  ASSUME NEW S, NEW q \in Seq(S), IsInjective(q), NEW k \in 1 .. Len(q)
  PROVE  IsInjective(RemoveAt(q, k))
<1> DEFINE n == Len(q)
           s == RemoveAt(q, k)
           from(h) == IF h < k THEN h ELSE h + 1
<1>1. n \in Nat /\ \A i, j \in 1 .. n : q[i] = q[j] => i = j
  BY DEF IsInjective
<1>2. /\ s \in Seq(S) /\ Len(s) = n - 1
      /\ \A i \in 1 .. k - 1 : s[i] = q[i]
      /\ \A i \in k .. n - 1 : s[i] = q[i + 1]
  BY RemovedAt
<1> HIDE DEF s
<1>3. DOMAIN s = 1 .. n - 1
  BY <1>2
<1>4. ASSUME NEW h \in 1 .. n - 1
      PROVE  s[h] = q[from(h)] /\ from(h) \in 1 .. n
  <2>1. CASE h < k
    <3>1. h \in 1 .. k - 1 /\ h \in 1 .. n
      BY <1>1, <2>1
    <3> QED BY <1>2, <2>1, <3>1
  <2>2. CASE ~(h < k)
    <3>1. h \in k .. n - 1 /\ h + 1 \in 1 .. n
      BY <1>1, <2>2
    <3> QED BY <1>2, <2>2, <3>1
  <2> QED BY <2>1, <2>2
<1>5. ASSUME NEW i \in 1 .. n - 1, NEW j \in 1 .. n - 1, s[i] = s[j]
      PROVE  i = j
  <2>1. from(i) = from(j)
    <3> HIDE DEF from
    <3> QED BY <1>1, <1>4, <1>5
  <2> QED BY <1>1, <2>1
<1> QED BY <1>3, <1>5 DEF IsInjective, s

(***************************************************************************)
(* Linking cell k of the line past the element behind it removes that      *)
(* element.                                                                *)
(***************************************************************************)
LEMMA UnlinkedAt ==
  ASSUME NEW q \in Seq(Task), IsInjective(q), NEW m, Links!Represents(m, q),
         NEW k \in 1 .. Len(q),
         NEW r, r.next[Links!Line(q)[k]] = Links!Line(q)[k + 2],
         \A i \in 1 .. Len(q) + 1 :
            i # k /\ i # k + 1 => r.next[Links!Line(q)[i]] = m.next[Links!Line(q)[i]]
  PROVE  LET s == RemoveAt(q, k) IN
         /\ Links!Represents(r, s)
         /\ (/\ Links!DoublyRepresents(m, q)
             /\ \A i \in 1 .. Len(q) \ {k} :
                  r.prev[q[i]] = IF i = k + 1 THEN Links!Line(q)[k] ELSE m.prev[q[i]])
            => Links!DoublyRepresents(r, s)
<1> DEFINE n == Len(q)
           s == RemoveAt(q, k)
           line == Links!Line(q)
           new == Links!Line(s)
<1>1. /\ n \in Nat /\ k \in 1 .. n
      /\ line[1] = Links!First /\ line[n + 2] = Null
      /\ \A i \in 1 .. n : line[i + 1] = q[i]
  BY LineOfQueue
<1>2. /\ s \in Seq(Task) /\ Len(s) = n - 1
      /\ \A i \in 1 .. k - 1 : s[i] = q[i]
      /\ \A i \in k .. n - 1 : s[i] = q[i + 1]
  BY RemovedAt
<1>3. IsInjective(s)
  BY RemovedOnce
<1>4. /\ new[1] = Links!First /\ new[n + 1] = Null
      /\ \A i \in 1 .. n - 1 : new[i + 1] = s[i]
  <2> HIDE DEF s
  <2>1. /\ new[1] = Links!First /\ new[Len(s) + 2] = Null
        /\ \A i \in 1 .. Len(s) : new[i + 1] = s[i]
    BY <1>2, <1>3, LineOfQueue
  <2> HIDE DEF new
  <2>2. (n - 1) + 2 = n + 1
    BY <1>1
  <2> QED BY <1>2, <2>1, <2>2
<1>5. /\ \A i \in 1 .. n + 1 : m.next[line[i]] = line[i + 1]
      /\ Links!DoublyRepresents(m, q) => \A i \in 1 .. n : m.prev[q[i]] = line[i]
  BY DEF Links!Represents, Links!DoublyRepresents
<1> HIDE DEF s, line, new
<1>6. ASSUME NEW i \in 1 .. k PROVE new[i] = line[i]
  <2>1. CASE i = 1
    BY <1>1, <1>4, <2>1
  <2>2. CASE i # 1
    <3> DEFINE j == i - 1
    <3>1. j \in 1 .. k - 1 /\ j \in 1 .. n - 1 /\ j \in 1 .. n /\ j + 1 = i
      BY <1>1, <2>2
    <3> HIDE DEF j
    <3>2. new[j + 1] = s[j] /\ line[j + 1] = q[j] /\ s[j] = q[j]
      BY <1>1, <1>2, <1>4, <3>1
    <3> QED BY <3>1, <3>2
  <2> QED BY <2>1, <2>2
<1>7. ASSUME NEW i \in k + 1 .. n + 1 PROVE new[i] = line[i + 1]
  <2>1. CASE i = n + 1
    <3>1. i + 1 = n + 2
      BY <1>1, <2>1
    <3> QED BY <1>1, <1>4, <2>1, <3>1
  <2>2. CASE i # n + 1
    <3> DEFINE j == i - 1
    <3>1. j \in k .. n - 1 /\ j \in 1 .. n - 1 /\ i \in 1 .. n /\ j + 1 = i
      <4>1. n \in Nat /\ k \in 1 .. n /\ i \in k + 1 .. n + 1
        BY <1>1
      <4> HIDE DEF n
      <4> QED BY <2>2, <4>1
    <3> HIDE DEF j
    <3>2. new[j + 1] = s[j] /\ line[i + 1] = q[i] /\ s[j] = q[j + 1]
      BY <1>1, <1>2, <1>4, <3>1
    <3> QED BY <3>1, <3>2
  <2> QED BY <2>1, <2>2
<1>8. ASSUME NEW i \in 1 .. n PROVE r.next[new[i]] = new[i + 1]
  <2>1. CASE i < k
    <3>1. i \in 1 .. k /\ i + 1 \in 1 .. k /\ i \in 1 .. n + 1 /\ i # k /\ i # k + 1
      BY <1>1, <2>1
    <3> QED BY <1>5, <1>6, <3>1 DEF line
  <2>2. CASE i = k
    <3>1. k \in 1 .. k /\ k + 1 \in k + 1 .. n + 1 /\ (k + 1) + 1 = k + 2
      BY <1>1
    <3>2. new[k] = line[k] /\ new[k + 1] = line[k + 2]
      BY <1>6, <1>7, <3>1
    <3> QED BY <2>2, <3>2 DEF line
  <2>3. CASE i > k
    <3> DEFINE j == i + 1
    <3>1. /\ i \in k + 1 .. n + 1 /\ j \in k + 1 .. n + 1
          /\ j \in 1 .. n + 1 /\ j # k /\ j # k + 1
      BY <1>1, <2>3
    <3>2. new[i] = line[j] /\ new[j] = line[j + 1]
      BY <1>7, <3>1
    <3>3. r.next[line[j]] = m.next[line[j]] /\ m.next[line[j]] = line[j + 1]
      BY <1>5, <3>1 DEF line
    <3> QED BY <3>2, <3>3
  <2> QED BY <1>1, <2>1, <2>2, <2>3
<1>9. Links!Represents(r, s)
  <2>1. (n - 1) + 1 = n
    BY <1>1
  <2> QED BY <1>2, <1>8, <2>1 DEF Links!Represents, new
<1>10. ASSUME Links!DoublyRepresents(m, q),
              \A i \in 1 .. n \ {k} :
                 r.prev[q[i]] = IF i = k + 1 THEN line[k] ELSE m.prev[q[i]],
              NEW i \in 1 .. n - 1
       PROVE  r.prev[s[i]] = new[i]
  <2>1. CASE i < k
    <3>1. i \in 1 .. k - 1 /\ i \in 1 .. n \ {k} /\ i \in 1 .. k /\ i # k + 1
      BY <1>1, <2>1
    <3> QED BY <1>2, <1>5, <1>6, <1>10, <3>1
  <2>2. CASE i = k
    <3>1. k \in k .. n - 1 /\ k + 1 \in 1 .. n \ {k} /\ k \in 1 .. k
      BY <1>1, <2>2
    <3> QED BY <1>2, <1>6, <1>10, <2>2, <3>1
  <2>3. CASE i > k
    <3> DEFINE j == i + 1
    <3>1. /\ i \in k .. n - 1 /\ i \in k + 1 .. n + 1
          /\ j \in 1 .. n \ {k} /\ j # k + 1
      BY <1>1, <2>3
    <3>2. s[i] = q[j] /\ new[i] = line[j]
      BY <1>2, <1>7, <3>1
    <3> HIDE DEF j
    <3>3. r.prev[q[j]] = m.prev[q[j]] /\ m.prev[q[j]] = line[j]
      BY <1>5, <1>10, <3>1
    <3> QED BY <3>2, <3>3
  <2> QED BY <1>1, <2>1, <2>2, <2>3
<1> QED BY <1>2, <1>9, <1>10 DEF Links!DoublyRepresents, s, line, new

(***************************************************************************)
(* The operations on a singly linked queue leave the links of the queue    *)
(* the sequence operations compute.                                        *)
(***************************************************************************)
LEMMA SinglyLinked ==
  ASSUME IsFiniteSet(Task), NEW q \in Seq(Task), IsInjective(q),
         NEW m \in [next : [Links!Cell -> Links!Cell], prev : [Links!Cell -> Links!Cell]],
         Links!Represents(m, q),
         NEW level, \A x \in Task : level[x] \in Nat
  PROVE  /\ \A p \in Task \ ToSet(q) :
              Links!Represents(Links!AddSort(m, p, level), Added(q, p, level))
         /\ q # <<>> => Links!Represents(Links!Pop(m), Tail(q))
         /\ \A p \in Task : Links!Represents(Links!QueueRemove(m, p), Without(q, p))
<1> DEFINE n == Len(q)
           line == Links!Line(q)
           C == Links!Cell
<1>1. /\ n \in Nat /\ DOMAIN q = 1 .. n
      /\ \A i \in 1 .. n : q[i] \in Task
      /\ \A i, j \in 1 .. n : q[i] = q[j] => i = j
  BY DEF IsInjective
<1>2. /\ \A i \in 1 .. n + 2 : line[i] \in C
      /\ line[1] = Links!First /\ line[n + 2] = Null
      /\ \A i \in 1 .. n : line[i + 1] = q[i]
      /\ \A i, j \in 1 .. n + 2 : line[i] = line[j] => i = j
  <2>1. /\ line \in Seq(C) /\ Len(line) = n + 2
        /\ line[1] = Links!First /\ line[n + 2] = Null
        /\ \A i \in 1 .. n : line[i + 1] = q[i]
        /\ \A i, j \in 1 .. n + 2 : line[i] = line[j] => i = j
    BY LineOfQueue
  <2> HIDE DEF line, C
  <2> QED BY <2>1
<1>3. \A i \in 1 .. n + 1 : m.next[line[i]] = line[i + 1]
  BY DEF Links!Represents
<1>4. \A p \in Task : p \in C /\ p # Links!First /\ p # Null
  BY LinksAssumption, ProcessAssumption DEF Task, Links!Cell
<1>5. m.next \in [C -> C]
  OBVIOUS
<1>6. \A i \in 1 .. n + 1 : i \in 1 .. n + 2 /\ i + 1 \in 1 .. n + 2
  BY <1>1
<1> HIDE DEF line, C
<1>7. ASSUME NEW p \in Task \ ToSet(q)
      PROVE  Links!Represents(Links!AddSort(m, p, level), Added(q, p, level))
  <2> DEFINE k == Place(q, p, level)
             c == line[k]
             r == Links!AddSort(m, p, level)
  <2>1. /\ k \in 1 .. n + 1
        /\ \A i \in 1 .. n : i < k => level[q[i]] <= level[p]
        /\ k <= n => level[q[k]] > level[p]
    BY PlaceBetween
  <2> HIDE DEF k
  <2>2. Links!Before(m, p, level) = c
    <3> DEFINE Past == {x \in Task : level[x] <= level[p]}
    <3>1. Past \in SUBSET Task /\ \A i \in 1 .. n : i < k => q[i] \in Past
      BY <1>1, <2>1
    <3>2. k <= n => q[k] \notin Past
      <4> SUFFICES ASSUME k <= n PROVE q[k] \notin Past
        OBVIOUS
      <4>1. q[k] \in Task /\ level[q[k]] > level[p]
        BY <1>1, <2>1
      <4> QED BY <4>1
    <3> HIDE DEF Past
    <3>3. Links!WalkEnd(m, Past) = c
      BY <2>1, <3>1, <3>2, WalkEnds DEF line
    <3> QED BY <3>3 DEF Links!Before, Past
  <2>3. r.next = [m.next EXCEPT ![p] = m.next[c], ![c] = p]
    <3>1. CASE c = Links!First
      BY <2>2, <3>1 DEF Links!AddSort, Links!InsertFirst
    <3>2. CASE c # Links!First
      BY <2>2, <3>2 DEF Links!AddSort, Links!InsertAfter
    <3> QED BY <3>1, <3>2
  <2>4. \A i \in 1 .. n + 2 : line[i] # p
    <3>1. \A i \in 1 .. n : q[i] # p
      BY <1>1 DEF ToSet
    <3> SUFFICES ASSUME NEW i \in 1 .. n + 2, i # 1, i # n + 2 PROVE line[i] # p
      BY <1>2, <1>4
    <3> DEFINE j == i - 1
    <3>2. j \in 1 .. n /\ j + 1 = i
      BY <1>1
    <3> HIDE DEF j
    <3> QED BY <1>2, <3>1, <3>2
  <2>5. c \in C /\ c # p /\ m.next[c] = line[k + 1]
    BY <1>2, <1>3, <1>6, <2>1, <2>4
  <2> HIDE DEF r
  <2>6. r.next[c] = p /\ r.next[p] = line[k + 1]
    BY <1>4, <1>5, <2>3, <2>5
  <2>7. ASSUME NEW i \in 1 .. n + 1, i # k
        PROVE  r.next[line[i]] = m.next[line[i]]
    <3>1. line[i] \in C /\ line[i] # p /\ line[i] # c
      BY <1>2, <1>6, <2>1, <2>4, <2>7
    <3> QED BY <1>5, <2>3, <3>1
  <2>8. Links!Represents(r, InsertAt(q, k, p))
    BY <2>1, <2>6, <2>7, LinkedAt DEF line
  <2> QED BY <2>8 DEF Added, r, k
<1>8. ASSUME NEW k \in 1 .. n, NEW r, r.next = [m.next EXCEPT ![line[k]] = line[k + 2]]
      PROVE  Links!Represents(r, RemoveAt(q, k))
  <2>1. /\ k \in 1 .. n + 1 /\ k + 1 \in 1 .. n + 1 /\ (k + 1) + 1 = k + 2
        /\ line[k] \in C
    BY <1>1, <1>2, <1>6
  <2>2. r.next[line[k]] = line[k + 2]
    BY <1>5, <1>8, <2>1
  <2>3. ASSUME NEW i \in 1 .. n + 1, i # k, i # k + 1
        PROVE  r.next[line[i]] = m.next[line[i]]
    <3>1. line[i] \in C /\ line[i] # line[k]
      BY <1>2, <1>6, <2>1, <2>3
    <3> QED BY <1>5, <1>8, <3>1
  <2> SUFFICES /\ r.next[Links!Line(q)[k]] = Links!Line(q)[k + 2]
               /\ \A i \in 1 .. n + 1 : i # k /\ i # k + 1 =>
                    r.next[Links!Line(q)[i]] = m.next[Links!Line(q)[i]]
    BY UnlinkedAt
  <2> QED BY <2>2, <2>3 DEF line
<1>9. ASSUME NEW k \in 1 .. n
      PROVE  /\ m.next[line[k]] = q[k] /\ m.next[q[k]] = line[k + 2]
             /\ line[k] = Links!First <=> k = 1
  <2>1. /\ k \in 1 .. n + 1 /\ k + 1 \in 1 .. n + 1 /\ (k + 1) + 1 = k + 2
        /\ 1 \in 1 .. n + 2
    BY <1>1
  <2> QED BY <1>2, <1>3, <1>6, <2>1
<1>10. ASSUME q # <<>> PROVE Links!Represents(Links!Pop(m), Tail(q))
  <2>1. 1 \in 1 .. n /\ 1 + 2 = 3
    BY <1>1, <1>10, EmptySeq
  <2>2. Links!Pop(m).next = [m.next EXCEPT ![line[1]] = line[3]]
    BY <1>2, <1>9, <2>1 DEF Links!Pop
  <2>3. Links!Represents(Links!Pop(m), RemoveAt(q, 1))
    BY <1>8, <2>1, <2>2
  <2> QED BY <1>10, <2>3, WithoutOne
<1>11. ASSUME NEW p \in Task
       PROVE  Links!Represents(Links!QueueRemove(m, p), Without(q, p))
  <2>1. CASE p \in ToSet(q)
    <3>1. PICK k \in 1 .. n : q[k] = p
      BY <1>1, <2>1 DEF ToSet
    <3>2. Links!WalkEnd(m, Task \ {p}) = line[k]
      <4> DEFINE Past == Task \ {p}
      <4>1. k \in 1 .. n + 1 /\ Past \in SUBSET Task
        BY <1>1
      <4>2. \A i \in 1 .. n : i < k => q[i] \in Past
        BY <1>1, <3>1
      <4>3. k <= n => q[k] \notin Past
        BY <3>1
      <4> HIDE DEF Past
      <4>4. Links!WalkEnd(m, Past) = line[k]
        BY <4>1, <4>2, <4>3, WalkEnds DEF line
      <4> QED BY <4>4 DEF Past
    <3>3. Links!QueueRemove(m, p).next = [m.next EXCEPT ![line[k]] = line[k + 2]]
      <4>1. CASE k = 1
        <5>1. Links!QueueRemove(m, p) = Links!Pop(m)
          BY <1>9, <3>1, <3>2, <4>1 DEF Links!QueueRemove
        <5> QED BY <1>2, <1>9, <3>1, <4>1, <5>1 DEF Links!Pop
      <4>2. CASE k # 1
        BY <1>9, <3>1, <3>2, <4>2 DEF Links!QueueRemove
      <4> QED BY <4>1, <4>2
    <3>4. Links!Represents(Links!QueueRemove(m, p), RemoveAt(q, k))
      BY <1>8, <3>3
    <3> QED BY <3>1, <3>4, WithoutOne
  <2>2. CASE p \notin ToSet(q)
    <3> DEFINE k == n + 1
    <3>1. Links!WalkEnd(m, Task \ {p}) = line[k]
      <4>1. k \in 1 .. n + 1 /\ Task \ {p} \in SUBSET Task /\ ~(k <= n)
        BY <1>1
      <4>2. \A i \in 1 .. n : i < k => q[i] \in Task \ {p}
        BY <1>1, <2>2 DEF ToSet
      <4> HIDE DEF k
      <4> QED BY <4>1, <4>2, WalkEnds DEF line
    <3>2. m.next[line[k]] = Null
      <4>1. k \in 1 .. n + 1 /\ k + 1 = n + 2
        BY <1>1
      <4> QED BY <1>2, <1>3, <4>1
    <3>3. Links!QueueRemove(m, p) = m
      BY <1>4, <3>1, <3>2 DEF Links!QueueRemove
    <3> QED BY <2>2, <3>3, WithoutOne
  <2> QED BY <2>1, <2>2
<1> QED BY <1>7, <1>10, <1>11

(***************************************************************************)
(* The same of a doubly linked queue, whose elements keep their way back.  *)
(***************************************************************************)
LEMMA DoublyLinked ==
  ASSUME IsFiniteSet(Task), NEW q \in Seq(Task), IsInjective(q),
         NEW m \in [next : [Links!Cell -> Links!Cell], prev : [Links!Cell -> Links!Cell]],
         Links!DoublyRepresents(m, q),
         NEW level, \A x \in Task : level[x] \in Nat
  PROVE  /\ \A p \in Task \ ToSet(q) :
              Links!DoublyRepresents(Links!DoublyAddSort(m, p, level), Added(q, p, level))
         /\ q # <<>> => Links!DoublyRepresents(Links!DoublyPop(m), Tail(q))
         /\ \A p \in ToSet(q) :
              /\ Links!DoublyRepresents(Links!DoublyRemove(m, p), Without(q, p))
              /\ Links!DoublyRepresents(Links!DoublyRemoveEx(m, p), Without(q, p))
<1> DEFINE n == Len(q)
           line == Links!Line(q)
           C == Links!Cell
<1>1. /\ n \in Nat /\ DOMAIN q = 1 .. n
      /\ \A i \in 1 .. n : q[i] \in Task
      /\ \A i, j \in 1 .. n : q[i] = q[j] => i = j
  BY DEF IsInjective
<1>2. /\ \A i \in 1 .. n + 2 : line[i] \in C
      /\ line[1] = Links!First /\ line[n + 2] = Null
      /\ \A i \in 1 .. n : line[i + 1] = q[i]
      /\ \A i, j \in 1 .. n + 2 : line[i] = line[j] => i = j
  <2>1. /\ line \in Seq(C) /\ Len(line) = n + 2
        /\ line[1] = Links!First /\ line[n + 2] = Null
        /\ \A i \in 1 .. n : line[i + 1] = q[i]
        /\ \A i, j \in 1 .. n + 2 : line[i] = line[j] => i = j
    BY LineOfQueue
  <2> HIDE DEF line, C
  <2> QED BY <2>1
<1>3. /\ Links!Represents(m, q)
      /\ \A i \in 1 .. n + 1 : m.next[line[i]] = line[i + 1]
      /\ \A i \in 1 .. n : m.prev[q[i]] = line[i]
  BY DEF Links!DoublyRepresents, Links!Represents
<1>4. \A p \in Task : p \in C /\ p # Links!First /\ p # Null
  BY LinksAssumption, ProcessAssumption DEF Task, Links!Cell
<1>5. m.next \in [C -> C] /\ m.prev \in [C -> C]
  OBVIOUS
<1>6. \A i \in 1 .. n + 1 : i \in 1 .. n + 2 /\ i + 1 \in 1 .. n + 2
  BY <1>1
<1> HIDE DEF line, C
<1>7. ASSUME NEW p \in Task \ ToSet(q)
      PROVE  Links!DoublyRepresents(Links!DoublyAddSort(m, p, level), Added(q, p, level))
  <2> DEFINE k == Place(q, p, level)
             c == line[k]
             r == Links!DoublyAddSort(m, p, level)
  <2>1. /\ k \in 1 .. n + 1
        /\ \A i \in 1 .. n : i < k => level[q[i]] <= level[p]
        /\ k <= n => level[q[k]] > level[p]
    BY PlaceBetween
  <2> HIDE DEF k
  <2>2. Links!Before(m, p, level) = c
    <3> DEFINE Past == {x \in Task : level[x] <= level[p]}
    <3>1. Past \in SUBSET Task /\ \A i \in 1 .. n : i < k => q[i] \in Past
      BY <1>1, <2>1
    <3>2. k <= n => q[k] \notin Past
      <4> SUFFICES ASSUME k <= n PROVE q[k] \notin Past
        OBVIOUS
      <4>1. q[k] \in Task /\ level[q[k]] > level[p]
        BY <1>1, <2>1
      <4> QED BY <4>1
    <3> HIDE DEF Past
    <3>3. Links!WalkEnd(m, Past) = c
      BY <1>3, <2>1, <3>1, <3>2, WalkEnds DEF line
    <3> QED BY <3>3 DEF Links!Before, Past
  <2>3. \A i \in 1 .. n + 2 : line[i] # p
    <3>1. \A i \in 1 .. n : q[i] # p
      BY <1>1 DEF ToSet
    <3> SUFFICES ASSUME NEW i \in 1 .. n + 2, i # 1, i # n + 2 PROVE line[i] # p
      BY <1>2, <1>4
    <3> DEFINE j == i - 1
    <3>2. j \in 1 .. n /\ j + 1 = i
      BY <1>1
    <3> HIDE DEF j
    <3> QED BY <1>2, <3>1, <3>2
  <2>4. c \in C /\ c # p /\ m.next[c] = line[k + 1]
    BY <1>2, <1>3, <1>6, <2>1, <2>3
  <2>5. ASSUME NEW i \in 1 .. n
        PROVE  /\ q[i] \in C /\ q[i] # p /\ q[i] # Null
               /\ q[i] = m.next[c] <=> i = k
    <3>1. i \in 1 .. n + 1 /\ line[i + 1] = q[i]
      BY <1>1, <1>2
    <3>2. q[i] = line[k + 1] <=> i + 1 = k + 1
      BY <1>2, <1>6, <2>1, <3>1
    <3>3. i + 1 = k + 1 <=> i = k
      BY <1>1, <2>1
    <3> QED BY <1>1, <1>4, <1>6, <2>3, <2>4, <3>1, <3>2, <3>3
  <2>6. /\ r.next = [m.next EXCEPT ![p] = m.next[c], ![c] = p]
        /\ r.prev[p] = c
        /\ \A i \in 1 .. n : r.prev[q[i]] = IF i = k THEN p ELSE m.prev[q[i]]
    <3>1. CASE c = Links!First
      <4>1. r = Links!DoublyInsertFirst(m, p)
        BY <2>2, <3>1 DEF Links!DoublyAddSort
      <4>2. r.prev = [m.prev EXCEPT ![p] = c, ![m.next[c]] = p]
        BY <3>1, <4>1 DEF Links!DoublyInsertFirst
      <4>3. m.next[c] \in C /\ m.next[c] # p /\ p \in C
        BY <1>4, <1>5, <1>6, <2>1, <2>3, <2>4
      <4>4. r.next = [m.next EXCEPT ![p] = m.next[c], ![c] = p]
        BY <3>1, <4>1 DEF Links!DoublyInsertFirst
      <4> HIDE DEF r, c
      <4>5. r.prev[p] = c
        BY <1>5, <4>2, <4>3
      <4>6. \A i \in 1 .. n : r.prev[q[i]] = IF i = k THEN p ELSE m.prev[q[i]]
        BY <1>5, <2>5, <4>2, <4>3
      <4> QED BY <4>4, <4>5, <4>6
    <3>2. CASE c # Links!First
      <4>1. r = Links!DoublyInsertAfter(m, c, p)
        BY <2>2, <3>2 DEF Links!DoublyAddSort
      <4>2. /\ r.next = [m.next EXCEPT ![p] = m.next[c], ![c] = p]
            /\ r.prev = [x \in C |-> IF x = p THEN c
                                     ELSE IF x # Null /\ x = m.next[c] THEN p
                                     ELSE m.prev[x]]
        BY <4>1 DEF Links!DoublyInsertAfter, C
      <4> HIDE DEF r, c
      <4>3. r.prev[p] = c
        BY <1>4, <4>2
      <4>4. \A i \in 1 .. n : r.prev[q[i]] = IF i = k THEN p ELSE m.prev[q[i]]
        BY <2>5, <4>2
      <4> QED BY <4>2, <4>3, <4>4
    <3> QED BY <3>1, <3>2
  <2> HIDE DEF r
  <2>7. r.next[c] = p /\ r.next[p] = line[k + 1]
    BY <1>4, <1>5, <2>4, <2>6
  <2>8. ASSUME NEW i \in 1 .. n + 1, i # k
        PROVE  r.next[line[i]] = m.next[line[i]]
    <3>1. line[i] \in C /\ line[i] # p /\ line[i] # c
      BY <1>2, <1>6, <2>1, <2>3, <2>8
    <3> QED BY <1>5, <2>6, <3>1
  <2>9. Links!DoublyRepresents(r, InsertAt(q, k, p))
    BY <1>3, <2>1, <2>6, <2>7, <2>8, LinkedAt DEF line
  <2> QED BY <2>9 DEF Added, r, k
<1>8. ASSUME NEW k \in 1 .. n
      PROVE  /\ m.next[line[k]] = q[k] /\ m.next[q[k]] = line[k + 2]
             /\ m.prev[q[k]] = line[k]
             /\ line[k] = Links!First <=> k = 1
             /\ line[k] \in C /\ line[k] # Null /\ line[k + 2] \in C
  <2>1. /\ k \in 1 .. n + 1 /\ k + 1 \in 1 .. n + 1 /\ (k + 1) + 1 = k + 2
        /\ 1 \in 1 .. n + 2 /\ n + 2 \in 1 .. n + 2 /\ k # n + 2
    BY <1>1
  <2> QED BY <1>2, <1>3, <1>6, <2>1
<1>9. ASSUME NEW k \in 1 .. n, NEW r,
             r.next = [m.next EXCEPT ![line[k]] = line[k + 2]],
             \A i \in 1 .. n : r.prev[q[i]] = IF i = k + 1 THEN line[k] ELSE m.prev[q[i]]
      PROVE  Links!DoublyRepresents(r, RemoveAt(q, k))
  <2>1. r.next[line[k]] = line[k + 2]
    BY <1>5, <1>8, <1>9
  <2>2. ASSUME NEW i \in 1 .. n + 1, i # k, i # k + 1
        PROVE  r.next[line[i]] = m.next[line[i]]
    <3>1. k \in 1 .. n + 2 /\ line[i] \in C
      BY <1>1, <1>2, <1>6
    <3>2. line[i] # line[k]
      BY <1>2, <1>6, <2>2, <3>1
    <3> QED BY <1>5, <1>9, <3>1, <3>2
  <2>3. \A i \in 1 .. n \ {k} : r.prev[q[i]] = IF i = k + 1 THEN line[k] ELSE m.prev[q[i]]
    BY <1>9
  <2> QED BY <1>3, <2>1, <2>2, <2>3, UnlinkedAt DEF line
<1>10. ASSUME NEW k \in 1 .. n, NEW i \in 1 .. n
       PROVE  q[i] \in C /\ q[i] # Null /\ (q[i] = line[k + 2] <=> i = k + 1)
  <2>1. /\ i \in 1 .. n + 1 /\ line[i + 1] = q[i] /\ k + 2 \in 1 .. n + 2
        /\ i + 1 = k + 2 <=> i = k + 1
    BY <1>1, <1>2
  <2> QED BY <1>1, <1>2, <1>4, <1>6, <2>1
<1>11. ASSUME NEW k \in 1 .. n
       PROVE  Links!DoublyRepresents(Links!DoublyRemove(m, q[k]), RemoveAt(q, k))
  <2> DEFINE r == Links!DoublyRemove(m, q[k])
  <2>1. /\ r.next = [x \in C |-> IF x # Null /\ x = line[k] THEN line[k + 2] ELSE m.next[x]]
        /\ r.prev = [x \in C |-> IF x # Null /\ x = line[k + 2] THEN line[k] ELSE m.prev[x]]
    BY <1>8 DEF Links!DoublyRemove, C
  <2> HIDE DEF r
  <2>2. r.next = [m.next EXCEPT ![line[k]] = line[k + 2]]
    BY <1>5, <1>8, <2>1
  <2>3. \A i \in 1 .. n : r.prev[q[i]] = IF i = k + 1 THEN line[k] ELSE m.prev[q[i]]
    BY <1>10, <2>1
  <2> QED BY <1>9, <2>2, <2>3 DEF r
<1>12. ASSUME 1 \in 1 .. n
       PROVE  Links!DoublyRepresents(Links!DoublyPop(m), RemoveAt(q, 1))
  <2> DEFINE r == Links!DoublyPop(m)
  <2>1. /\ r.next = [m.next EXCEPT ![line[1]] = line[1 + 2]]
        /\ r.prev = [m.prev EXCEPT ![line[1 + 2]] = line[1]]
    BY <1>2, <1>8, <1>12 DEF Links!DoublyPop
  <2> HIDE DEF r
  <2>2. \A i \in 1 .. n : r.prev[q[i]] = IF i = 1 + 1 THEN line[1] ELSE m.prev[q[i]]
    BY <1>5, <1>8, <1>10, <1>12, <2>1
  <2> QED BY <1>9, <1>12, <2>1, <2>2 DEF r
<1>13. ASSUME q # <<>> PROVE Links!DoublyRepresents(Links!DoublyPop(m), Tail(q))
  <2>1. 1 \in 1 .. n
    BY <1>1, <1>13, EmptySeq
  <2> QED BY <1>12, <1>13, <2>1, WithoutOne
<1>14. ASSUME NEW p \in ToSet(q)
       PROVE  /\ Links!DoublyRepresents(Links!DoublyRemove(m, p), Without(q, p))
              /\ Links!DoublyRepresents(Links!DoublyRemoveEx(m, p), Without(q, p))
  <2>1. PICK k \in 1 .. n : q[k] = p
    BY <1>1 DEF ToSet
  <2>2. Without(q, p) = RemoveAt(q, k)
    BY <2>1, WithoutOne
  <2>3. Links!DoublyRepresents(Links!DoublyRemove(m, p), Without(q, p))
    BY <1>11, <2>1, <2>2
  <2>4. CASE m.next[Links!First] = p
    <3>1. 1 \in 1 .. n
      BY <1>1
    <3>2. q[1] = q[k]
      BY <1>2, <1>8, <2>1, <2>4, <3>1
    <3>3. k = 1
      BY <1>1, <3>1, <3>2
    <3>4. Links!DoublyRepresents(Links!DoublyPop(m), Without(q, p))
      BY <1>12, <2>2, <3>1, <3>3
    <3> QED BY <2>3, <2>4, <3>4 DEF Links!DoublyRemoveEx
  <2>5. CASE m.next[Links!First] # p
    BY <2>3, <2>5 DEF Links!DoublyRemoveEx
  <2> QED BY <2>4, <2>5
<1> QED BY <1>7, <1>13, <1>14
=============================================================================
