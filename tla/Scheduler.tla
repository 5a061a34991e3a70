------------------------------ MODULE Scheduler ------------------------------
(***************************************************************************)
(* The task scheduler of the core runtime (src/core/scheduler.c): a ready  *)
(* list, a waiting list and a blocked list of task entries, from which a   *)
(* tick of the runtime loop takes the most urgent ready task and runs it.  *)
(*                                                                         *)
(* Each list is an array of slots with a count.  An array is modelled by   *)
(* the sequence of its first `count' slots, where Hole stands for an       *)
(* inactive slot: removal compacts the array, but wake leaves holes behind *)
(* and lookups stop at the count.  A slot beyond the count is never active.*)
(*                                                                         *)
(* Times are kept as ages.  The code compares an age with the aging        *)
(* intervals and two submission times with each other; ages up to AgeCap   *)
(* are exact and older ones are kept as ranks, which preserves both.       *)
(***************************************************************************)
EXTENDS Integers, FiniteSets, Sequences

CONSTANTS
  Tasks,        \* task ids
  Sources,      \* who submits
  Priorities,   \* the priorities callers use
  Hole,         \* an inactive slot
  MaxReady, MaxWaiting, MaxBlocked,  \* OZAYN_SCHEDULER_MAX_*
  MaxPerSource, \* mgr->max_tasks_per_source
  Interval,     \* OZAYN_SCHEDULER_AGING_INTERVAL
  MaxBoost      \* OZAYN_SCHEDULER_AGING_MAX_BOOST

NORMAL == 2
CRITICAL == 4

ASSUME SchedulerAssumption ==
  /\ Priorities \subseteq 0..CRITICAL
  /\ MaxReady \in Nat /\ MaxWaiting \in Nat /\ MaxBlocked \in Nat
  /\ MaxPerSource \in Nat \ {0}
  /\ Interval \in Nat \ {0} /\ MaxBoost \in Nat

VARIABLES
  ready, waiting, blocked,  \* the three arrays, up to their counts
  accepted                  \* history: submitted, neither run nor cancelled since

vars == <<ready, waiting, blocked, accepted>>

AgeCap == Interval * MaxBoost

(* Ages above AgeCap are ranks, one for each task at most.                 *)
Entry == [task : Tasks, source : Sources, base : Priorities, boost : 0..MaxBoost,
          age : 0..(AgeCap + Cardinality(Tasks)),  \* since submitted_at
          waited : 0..AgeCap]                      \* since wait_started_at

ASSUME HoleIsNoEntry == Hole \notin Entry

Lists == {ready, waiting, blocked}
Active(list) == {i \in DOMAIN list : list[i] # Hole}
Entries(list) == {list[i] : i \in Active(list)}
TasksOf(list) == {e.task : e \in Entries(list)}
Held == UNION {TasksOf(list) : list \in Lists}

(* find_entry: the first active slot within the count.                     *)
IndexOf(list, t) ==
  CHOOSE i \in Active(list) :
    /\ list[i].task = t
    /\ \A j \in Active(list) : list[j].task = t => i <= j

(* remove_entry and compact_array.                                         *)
Compact(list) ==
  LET packed[n \in 0..Len(list)] ==
        IF n = 0 THEN <<>>
        ELSE IF list[n] = Hole THEN packed[n - 1] ELSE Append(packed[n - 1], list[n])
  IN packed[Len(list)]
RemoveEntry(list, i) == Compact([list EXCEPT ![i] = Hole])

(* find_free_slot, the store and the increment of the count: a hole is     *)
(* filled first, and the count grows all the same.                         *)
Insert(list, e) ==
  IF Active(list) = DOMAIN list
  THEN Append(list, e)
  ELSE LET i == CHOOSE j \in DOMAIN list \ Active(list) :
                  \A k \in DOMAIN list \ Active(list) : j <= k
       IN Append([list EXCEPT ![i] = e], Hole)

EffectivePriority_Unaged(e) == e.base   \* mutant
EffectivePriority(e) ==
  IF e.base + e.boost > CRITICAL THEN CRITICAL ELSE e.base + e.boost

-----------------------------------------------------------------------------
Init ==
  /\ ready = <<>> /\ waiting = <<>> /\ blocked = <<>>
  /\ accepted = {}

SourceCount(s) ==
  LET From(list) == Cardinality({i \in Active(list) : list[i].source = s})
  IN From(ready) + From(waiting) + From(blocked)

(* ozayn_scheduler_submit.  Callers submit each task id once, so an id     *)
(* that is submitted again stands for a new task.                          *)
Submit(t, p, s) ==
  /\ t \notin Held
  /\ Len(ready) < MaxReady
  /\ SourceCount(s) < MaxPerSource
  /\ ready' = Insert(ready, [task |-> t, source |-> s, base |-> p, boost |-> 0,
                             age |-> 0, waited |-> 0])
  /\ accepted' = accepted \cup {t}
  /\ UNCHANGED <<waiting, blocked>>

(* ozayn_scheduler_cancel: the lists are searched in this order.  Nothing  *)
(* is running between two calls, so the deferred branch is never taken.    *)
Cancel(t) ==
  /\ accepted' = accepted \ {t}
  /\ \/ /\ t \in TasksOf(ready)
        /\ ready' = RemoveEntry(ready, IndexOf(ready, t))
        /\ UNCHANGED <<waiting, blocked>>
     \/ /\ t \in TasksOf(waiting) \ TasksOf(ready)
        /\ waiting' = RemoveEntry(waiting, IndexOf(waiting, t))
        /\ UNCHANGED <<ready, blocked>>
     \/ /\ t \in TasksOf(blocked) \ (TasksOf(ready) \cup TasksOf(waiting))
        /\ blocked' = RemoveEntry(blocked, IndexOf(blocked, t))
        /\ UNCHANGED <<ready, waiting>>

(* ozayn_scheduler_wake.  The entry is removed and its array compacted     *)
(* before it is copied, so slot i holds by then the next entry, or nothing;*)
(* that is what moves to the ready list, leaving a hole.  When the ready   *)
(* list is full the call fails with the task already removed.              *)
WakeFrom(list, i, ready2, list2) ==
  LET packed == RemoveEntry(list, i)
      inRange == i <= Len(packed)
  IN IF Len(ready) >= MaxReady
     THEN ready2 = ready /\ list2 = packed
     ELSE /\ ready2 = Insert(ready, IF inRange THEN [packed[i] EXCEPT !.waited = 0]
                                               ELSE Hole)
          /\ list2 = IF inRange THEN [packed EXCEPT ![i] = Hole] ELSE packed

Wake(t) ==
  /\ \/ /\ t \in TasksOf(waiting)
        /\ WakeFrom(waiting, IndexOf(waiting, t), ready', waiting')
        /\ UNCHANGED blocked
     \/ /\ t \in TasksOf(blocked) \ TasksOf(waiting)
        /\ WakeFrom(blocked, IndexOf(blocked, t), ready', blocked')
        /\ UNCHANGED waiting
  /\ UNCHANGED accepted

(* ozayn_scheduler_block and ozayn_scheduler_wait.                         *)
Block(t) ==
  /\ t \in TasksOf(ready)
  /\ Len(blocked) < MaxBlocked
  /\ LET i == IndexOf(ready, t) IN
       /\ blocked' = Insert(blocked, [ready[i] EXCEPT !.waited = 0])
       /\ ready' = RemoveEntry(ready, i)
  /\ UNCHANGED <<waiting, accepted>>

Wait_Copies(t) ==                       \* mutant: the ready entry stays
  /\ t \in TasksOf(ready)
  /\ Len(waiting) < MaxWaiting
  /\ waiting' = Insert(waiting, [ready[IndexOf(ready, t)] EXCEPT !.waited = 0])
  /\ UNCHANGED <<ready, blocked, accepted>>
Wait(t) ==
  /\ t \in TasksOf(ready)
  /\ Len(waiting) < MaxWaiting
  /\ LET i == IndexOf(ready, t) IN
       /\ waiting' = Insert(waiting, [ready[i] EXCEPT !.waited = 0])
       /\ ready' = RemoveEntry(ready, i)
  /\ UNCHANGED <<blocked, accepted>>

(* ozayn_scheduler_set_priority: the boost earned so far is forgotten.     *)
Reprioritise(list, t, p) ==
  [list EXCEPT ![IndexOf(list, t)] = [@ EXCEPT !.base = p, !.boost = 0]]

SetPriority(t, p) ==
  /\ \/ /\ t \in TasksOf(ready)
        /\ ready' = Reprioritise(ready, t, p)
        /\ UNCHANGED <<waiting, blocked>>
     \/ /\ t \in TasksOf(waiting) \ TasksOf(ready)
        /\ waiting' = Reprioritise(waiting, t, p)
        /\ UNCHANGED <<ready, blocked>>
     \/ /\ t \in TasksOf(blocked) \ (TasksOf(ready) \cup TasksOf(waiting))
        /\ blocked' = Reprioritise(blocked, t, p)
        /\ UNCHANGED <<ready, waiting>>
  /\ UNCHANGED accepted

-----------------------------------------------------------------------------
Boosted_Recomputed(e, elapsed) ==       \* mutant: an earned boost can be lost
  [e EXCEPT !.boost = IF elapsed \div Interval > MaxBoost THEN MaxBoost
                                                         ELSE elapsed \div Interval]
Boosted(e, elapsed) ==
  LET earned == IF elapsed \div Interval > MaxBoost THEN MaxBoost
                                                    ELSE elapsed \div Interval
  IN IF earned > e.boost THEN [e EXCEPT !.boost = earned] ELSE e

(* apply_aging: waiting tasks age by the time they wait, ready ones by the *)
(* time since submission, blocked ones not at all.                         *)
Aged(list, elapsed(_)) ==
  [i \in DOMAIN list |-> IF list[i] = Hole THEN Hole
                         ELSE Boosted(list[i], elapsed(list[i]))]
AgedReady == Aged(ready, LAMBDA e : e.age)
AgedWaiting == Aged(waiting, LAMBDA e : e.waited)

(* select_highest_priority: highest effective priority, then submitted     *)
(* earliest, then first in the array.                                      *)
Selected(list) ==
  CHOOSE i \in Active(list) :
    \A j \in Active(list) \ {i} :
      LET p == EffectivePriority(list[i])
          q == EffectivePriority(list[j])
      IN \/ p > q
         \/ p = q /\ list[i].age > list[j].age
         \/ p = q /\ list[i].age = list[j].age /\ i < j

(* ozayn_scheduler_dispatch on a given ready array: the selected task runs *)
(* to completion inside the call and leaves the scheduler, whether or not  *)
(* the task manager knew it.                                               *)
DispatchFrom(list) ==
  IF Active(list) = {}
  THEN ready' = list /\ UNCHANGED accepted
  ELSE /\ ready' = RemoveEntry(list, Selected(list))
       /\ accepted' = accepted \ {list[Selected(list)].task}

(* ozayn_scheduler_tick, called by every pass of the runtime loop.         *)
Tick ==
  /\ waiting' = AgedWaiting
  /\ DispatchFrom(AgedReady)
  /\ UNCHANGED blocked

(* One unit of time passes.                                                *)
AllAges == UNION {{e.age : e \in Entries(list)} : list \in Lists}
Older(age) ==
  LET next == age + 1
  IN IF next <= AgeCap THEN next
     ELSE AgeCap + Cardinality({a \in AllAges : AgeCap <= a /\ a <= age})
Grow(list) ==
  [i \in DOMAIN list |->
     IF list[i] = Hole THEN Hole
     ELSE [list[i] EXCEPT !.age = Older(@),
                          !.waited = IF @ < AgeCap THEN @ + 1 ELSE @]]

Elapse ==
  /\ ready' = Grow(ready) /\ waiting' = Grow(waiting) /\ blocked' = Grow(blocked)
  /\ UNCHANGED accepted

Next ==
  \/ \E t \in Tasks :
       \/ \E p \in Priorities, s \in Sources : Submit(t, p, s)
       \/ Cancel(t)
       \/ Wake(t)
       \/ Block(t)
       \/ Wait(t)
       \/ \E p \in Priorities : SetPriority(t, p)
  \/ Tick
  \/ Elapse

Spec == Init /\ [][Next]_vars

(* The runtime loop (src/core/runtime.c) calls tick on every pass, and the *)
(* clock advances.  Nothing obliges callers to submit, wake or cancel.     *)
FairSpec == Spec /\ WF_vars(Tick) /\ WF_vars(Elapse)

-----------------------------------------------------------------------------
(* Slots hold entries or nothing, and counts stay within the arrays.       *)
TypeOK ==
  /\ ready \in Seq(Entry \cup {Hole}) /\ Len(ready) <= MaxReady
  /\ waiting \in Seq(Entry \cup {Hole}) /\ Len(waiting) <= MaxWaiting
  /\ blocked \in Seq(Entry \cup {Hole}) /\ Len(blocked) <= MaxBlocked
  /\ accepted \subseteq Tasks

(* Moving, removing and compacting never duplicate a task: it occupies at  *)
(* most one slot of one list, even after wake has shifted entries.         *)
HeldOnce ==
  /\ \A list \in Lists : Cardinality(Active(list)) = Cardinality(TasksOf(list))
  /\ TasksOf(ready) \cap TasksOf(waiting) = {}
  /\ TasksOf(ready) \cap TasksOf(blocked) = {}
  /\ TasksOf(waiting) \cap TasksOf(blocked) = {}

(* Whatever is moved, blocked or woken, a source never holds more than its *)
(* quota of tasks that have not run yet.                                   *)
QuotaRespected ==
  \A s \in Sources :
    Cardinality({e.task : e \in {d \in UNION {Entries(list) : list \in Lists} : d.source = s}})
      <= MaxPerSource

(* A task runs or is cancelled at most once per submission: what is held   *)
(* was accepted and has not been run or cancelled since.                   *)
HeldIsAccepted == Held \subseteq accepted

(* The three lists together: every list operation, in any order and on any *)
(* list, keeps them disjoint, within the quotas and to what was accepted.  *)
ListsSafe == HeldOnce /\ QuotaRespected /\ HeldIsAccepted

HeldEntries == Entries(ready) \cup Entries(waiting) \cup Entries(blocked)

(* Aging only raises: while a task is held its effective priority drops    *)
(* only when set_priority gives it another base.                           *)
AgingOnlyRaises ==
  [][\A e \in HeldEntries, d \in HeldEntries' :
       d.task = e.task /\ EffectivePriority(d) < EffectivePriority(e)
         => d.base # e.base \/ \E p \in Priorities : SetPriority(e.task, p)]_vars

(* Aging "prevents starvation" (scheduler.c, section AGING) of tasks of    *)
(* NORMAL priority and above: the boost lifts them to CRITICAL, where the  *)
(* oldest goes first.                                                      *)
ReadyAt(t, P) == \E e \in Entries(ready) : e.task = t /\ e.base \in P
NormalServed ==
  \A t \in Tasks :
    ReadyAt(t, NORMAL..CRITICAL) ~> ~ReadyAt(t, NORMAL..CRITICAL)

-----------------------------------------------------------------------------
(* The same, claimed for every priority: a ready task is served however    *)
(* much other work keeps coming (scheduler.c, "AGING - prevent             *)
(* starvation").  A boost of two levels does not lift BACKGROUND above     *)
(* HIGH.                                                                   *)
EveryoneServed ==
  \A t \in Tasks : ReadyAt(t, 0..CRITICAL) ~> ~ReadyAt(t, 0..CRITICAL)

(* A task that was accepted is held until it runs or is cancelled; waking  *)
(* a task makes that task ready ("Move to ready queue" in                  *)
(* ozayn_scheduler_wake).                                                  *)
AcceptedIsHeld == accepted \subseteq Held
=============================================================================
