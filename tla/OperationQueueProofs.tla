------------------------ MODULE OperationQueueProofs ------------------------
(***************************************************************************)
(* Theorems about the operation queue, for every set of requests and       *)
(* targets and every bound.                                                *)
(*                                                                         *)
(* The counter running_count is only as good as the table it summarises:   *)
(* to show that it equals the number of RUNNING operations one needs that  *)
(* the slot enqueue writes was free, which the conjunct Untouched records. *)
(***************************************************************************)
EXTENDS OperationQueue, FiniteSetTheorems, TLAPS

(* The slots enqueue has not reached are as service_init left them.        *)
Untouched ==
  \A i \in Slots : i > count =>
    state[i] = "FREE" /\ ~active[i] /\ starts[i] = 0 /\ retries[i] = 0

(* A waiting operation has a start to its credit.                          *)
StartCredit == \A i \in Queued : starts[i] <= retries[i]

IInv == TypeOK /\ Untouched /\ RunningCountExact /\ StartCredit /\ StartsBounded

-----------------------------------------------------------------------------
LEMMA SlotsFinite == IsFiniteSet(Slots)
BY ConstantsAssumption, FS_Interval DEF Slots

(* RUNNING operations can be counted.                                      *)
LEMMA RunningFinite ==
  IsFiniteSet(Running) /\ Cardinality(Running) \in Nat
<1>1. Running \in SUBSET Slots BY DEF Running
<1> QED BY <1>1, SlotsFinite, FS_Subset, FS_CardinalityType

-----------------------------------------------------------------------------
(* Type correctness is inductive by itself.                                *)
LEMMA TypeInit == Init => TypeOK
<1> SUFFICES ASSUME Init PROVE TypeOK OBVIOUS
<1>1. (CHOOSE r \in Requests : TRUE) \in Requests BY ConstantsAssumption
<1> QED BY <1>1, ConstantsAssumption DEF Init, TypeOK, States, Terminal, Totals

LEMMA TypeStep == TypeOK /\ [Next]_vars => TypeOK'
<1> SUFFICES ASSUME TypeOK, [Next]_vars PROVE TypeOK' OBVIOUS
<1> USE ConstantsAssumption DEF TypeOK
<1>1. ASSUME NEW r \in Requests, Enqueue(r) PROVE TypeOK'
  <2>1. count + 1 \in Slots BY <1>1 DEF Enqueue, QueueFull, Slots
  <2>2. count' \in 0..MaxEntries BY <1>1, <2>1 DEF Enqueue, Slots
  <2>3. op' \in [Slots -> Requests] /\ active' \in [Slots -> BOOLEAN]
    BY <1>1 DEF Enqueue
  <2>4. state' \in [Slots -> States] /\ since' \in [Slots -> 0..MaxTime]
    BY <1>1 DEF Enqueue, States
  <2>5. queuedCount' \in Int /\ total' \in [Totals -> Nat]
    BY <1>1 DEF Enqueue, Bump, Totals
  <2> QED BY <1>1, <2>2, <2>3, <2>4, <2>5 DEF Enqueue
<1>2. ASSUME NEW i \in Slots, Dispatch(i) PROVE TypeOK'
  BY <1>2 DEF Dispatch, States
<1>3. ASSUME NEW i \in Slots, RejectAtDispatch(i) PROVE TypeOK'
  BY <1>3 DEF RejectAtDispatch, States, Terminal
<1>4. ASSUME NEW i \in Slots, Complete(i) PROVE TypeOK'
  BY <1>4 DEF Complete, Report, Bump, States, Terminal, Totals
<1>5. ASSUME NEW i \in Slots, Fail(i) PROVE TypeOK'
  BY <1>5 DEF Fail, Report, Bump, States, Terminal, Totals
<1>6. ASSUME NEW i \in Slots, Cancel(i) PROVE TypeOK'
  BY <1>6 DEF Cancel, Bump, States, Terminal, Totals
<1>7. ASSUME NEW i \in Slots, Retry(i) PROVE TypeOK'
  BY <1>7 DEF Retry, States
<1>8. CASE CheckTimeouts
  <2>1. /\ Cardinality(OverdueQueued) \in Nat
        /\ Cardinality(OverdueRunning) \in Nat
        /\ Cardinality(OverdueQueued \cup OverdueRunning) \in Nat
    <3>1. /\ OverdueQueued \in SUBSET Slots
          /\ OverdueRunning \in SUBSET Slots
          /\ OverdueQueued \cup OverdueRunning \in SUBSET Slots
      BY DEF OverdueQueued, OverdueRunning, Queued, Running
    <3> QED BY <3>1, SlotsFinite, FS_Subset, FS_CardinalityType
  <2> QED BY <1>8, <2>1 DEF CheckTimeouts, States, Terminal, Totals
<1>9. CASE CheckExpired BY <1>9 DEF CheckExpired, Retire
<1>10. CASE CleanupCompleted BY <1>10 DEF CleanupCompleted, Retire
<1>11. CASE CleanupAll BY <1>11 DEF CleanupAll, Retire
<1>12. CASE Tick BY <1>12 DEF Tick, entryVars
<1>13. ASSUME NEW t \in Targets, SetAvailability(t) PROVE TypeOK'
  BY <1>13 DEF SetAvailability, entryVars
<1>14. CASE UNCHANGED vars BY <1>14 DEF vars
<1> QED
  BY <1>1, <1>2, <1>3, <1>4, <1>5, <1>6, <1>7, <1>8, <1>9, <1>10, <1>11, <1>12,
     <1>13, <1>14 DEF Next

(* Every reachable state of the queue is well typed.                       *)
THEOREM TypeCorrect == Spec => []TypeOK
BY TypeInit, TypeStep, PTL DEF Spec

-----------------------------------------------------------------------------
(* Adding and removing operations moves the counter with the set.          *)
LEMMA CountAdded ==
  ASSUME IInv, NEW i, i \notin Running, Running' = Running \cup {i},
         runningCount' = runningCount + 1, runningCount < MaxRunning
  PROVE  RunningCountExact'
BY RunningFinite, FS_AddElement, ConstantsAssumption DEF IInv, RunningCountExact

LEMMA CountRemoved ==
  ASSUME IInv, NEW i \in Running, Running' = Running \ {i},
         runningCount' = runningCount - 1
  PROVE  RunningCountExact'
<1>1. Cardinality(Running \ {i}) = Cardinality(Running) - 1
  BY RunningFinite, FS_RemoveElement
<1> QED BY <1>1, RunningFinite, ConstantsAssumption DEF IInv, RunningCountExact

LEMMA CountKept ==
  ASSUME IInv, Running' = Running, runningCount' = runningCount
  PROVE  RunningCountExact'
BY DEF IInv, RunningCountExact

(* A sweep takes a whole subset of the RUNNING operations at once.         *)
LEMMA CountSwept ==
  ASSUME IInv, NEW S \in SUBSET Running, Running' = Running \ S,
         runningCount' = runningCount - Cardinality(S)
  PROVE  RunningCountExact'
<1>1. S = Running \cap S OBVIOUS
<1>2. Cardinality(Running \ S) = Cardinality(Running) - Cardinality(S)
  BY <1>1, RunningFinite, FS_Difference
<1>3. Cardinality(S) \in Nat /\ Cardinality(S) <= Cardinality(Running)
  BY RunningFinite, FS_Subset, FS_CardinalityType
<1> QED
  BY <1>2, <1>3, RunningFinite, ConstantsAssumption DEF IInv, RunningCountExact

LEMMA RunningStep == IInv /\ [Next]_vars => RunningCountExact'
<1> SUFFICES ASSUME IInv, [Next]_vars PROVE RunningCountExact' OBVIOUS
<1> USE DEF IInv, TypeOK
<1>1. ASSUME NEW r \in Requests, Enqueue(r) PROVE RunningCountExact'
  <2>1. count + 1 \in Slots /\ count + 1 > count
    BY <1>1, ConstantsAssumption DEF Enqueue, QueueFull, Slots
  <2>2. count + 1 \notin Running BY <2>1 DEF Untouched, Running
  <2>3. Running' = Running BY <1>1, <2>1, <2>2 DEF Enqueue, Running
  <2> QED BY <1>1, <2>3, CountKept DEF Enqueue
<1>2. ASSUME NEW i \in Slots, Dispatch(i) PROVE RunningCountExact'
  <2>1. i \notin Running /\ active[i]
    BY <1>2 DEF Dispatch, NextInLine, Queued, Running
  <2>2. Running' = Running \cup {i} BY <1>2, <2>1 DEF Dispatch, Running
  <2>3. runningCount < MaxRunning
    BY <1>2, ConstantsAssumption DEF Dispatch, RunningLimit
  <2> QED BY <1>2, <2>1, <2>2, <2>3, CountAdded DEF Dispatch
<1>3. ASSUME NEW i \in Slots, RejectAtDispatch(i) PROVE RunningCountExact'
  <2>1. i \notin Running BY <1>3 DEF RejectAtDispatch, NextInLine, Queued, Running
  <2>2. Running' = Running BY <1>3, <2>1 DEF RejectAtDispatch, Running
  <2> QED BY <1>3, <2>2, CountKept DEF RejectAtDispatch
<1>4. ASSUME NEW i \in Slots, Complete(i) PROVE RunningCountExact'
  <2>1. i \in Running BY <1>4 DEF Complete, Report
  <2>2. Running' = Running \ {i} BY <1>4 DEF Complete, Report, Running
  <2> QED BY <1>4, <2>1, <2>2, CountRemoved DEF Complete, Report
<1>5. ASSUME NEW i \in Slots, Fail(i) PROVE RunningCountExact'
  <2>1. i \in Running BY <1>5 DEF Fail, Report
  <2>2. Running' = Running \ {i} BY <1>5 DEF Fail, Report, Running
  <2> QED BY <1>5, <2>1, <2>2, CountRemoved DEF Fail, Report
<1>6. ASSUME NEW i \in Slots, Cancel(i) PROVE RunningCountExact'
  <2>1. i \notin Running BY <1>6 DEF Cancel, Queued, Running
  <2>2. Running' = Running BY <1>6, <2>1 DEF Cancel, Running
  <2> QED BY <1>6, <2>2, CountKept DEF Cancel
<1>7. ASSUME NEW i \in Slots, Retry(i) PROVE RunningCountExact'
  <2>1. i \notin Running BY <1>7 DEF Retry, Running
  <2>2. Running' = Running BY <1>7, <2>1 DEF Retry, Running
  <2> QED BY <1>7, <2>2, CountKept DEF Retry
<1>8. CASE CheckTimeouts
  <2>1. OverdueRunning \in SUBSET Running BY DEF OverdueRunning
  <2>2. Running' = Running \ OverdueRunning
    BY <1>8, <2>1 DEF CheckTimeouts, OverdueQueued, Running, Queued
  <2> QED BY <1>8, <2>1, <2>2, CountSwept DEF CheckTimeouts
<1>9. ASSUME CheckExpired \/ CleanupCompleted PROVE RunningCountExact'
  <2>1. PICK gone \in SUBSET Finished : Retire(gone)
    BY <1>9 DEF CheckExpired, CleanupCompleted
  <2>2. gone \cap Running = {} BY DEF Finished, Running, Terminal
  <2>3. Running' = Running BY <2>1, <2>2 DEF Retire, Running
  <2> QED BY <1>9, <2>3, CountKept DEF CheckExpired, CleanupCompleted
<1>10. CASE CleanupAll
  <2>1. Running' = {} BY <1>10 DEF CleanupAll, Retire, Live, Running
  <2> QED
    BY <1>10, <2>1, FS_EmptySet, ConstantsAssumption DEF CleanupAll, RunningCountExact
<1>11. ASSUME Tick \/ (\E t \in Targets : SetAvailability(t)) \/ UNCHANGED vars
       PROVE RunningCountExact'
  <2>1. UNCHANGED <<state, active, runningCount>>
    BY <1>11 DEF Tick, SetAvailability, entryVars, vars
  <2>2. Running' = Running BY <2>1 DEF Running
  <2> QED BY <2>1, <2>2, CountKept
<1> QED
  BY <1>1, <1>2, <1>3, <1>4, <1>5, <1>6, <1>7, <1>8, <1>9, <1>10, <1>11 DEF Next

-----------------------------------------------------------------------------
(* No step but enqueue touches a slot beyond count, and enqueue only the   *)
(* first of them.                                                          *)
LEMMA UntouchedStep == TypeOK /\ Untouched /\ [Next]_vars => Untouched'
<1> SUFFICES ASSUME TypeOK, Untouched, [Next]_vars,
                    NEW j \in Slots, j > count'
             PROVE  state'[j] = "FREE" /\ ~active'[j] /\ starts'[j] = 0 /\ retries'[j] = 0
  BY DEF Untouched
<1> USE DEF TypeOK
<1>1. j \in Int /\ count \in Int BY ConstantsAssumption DEF Slots
<1>2. ASSUME NEW r \in Requests, Enqueue(r), j > count + 1
      PROVE  /\ state'[j] = state[j] /\ active'[j] = active[j]
             /\ starts'[j] = starts[j] /\ retries'[j] = retries[j] /\ j > count
  <2>1. j # count + 1 /\ j > count BY <1>1, <1>2
  <2> QED BY <1>2, <2>1 DEF Enqueue
<1>3. ASSUME j > count PROVE j \notin Queued \cup Running \cup Finished
  BY <1>3 DEF Untouched, Queued, Running, Finished
<1>4. ASSUME NEW r \in Requests, Enqueue(r)
      PROVE  state'[j] = "FREE" /\ ~active'[j] /\ starts'[j] = 0 /\ retries'[j] = 0
  <2>1. j > count + 1 BY <1>4 DEF Enqueue
  <2> QED BY <1>4, <1>2, <2>1 DEF Untouched
<1>5. ASSUME NEW i \in Slots,
             Dispatch(i) \/ RejectAtDispatch(i) \/ Complete(i) \/ Fail(i)
               \/ Cancel(i) \/ Retry(i)
      PROVE  state'[j] = "FREE" /\ ~active'[j] /\ starts'[j] = 0 /\ retries'[j] = 0
  <2>1. count' = count /\ i # j
    BY <1>3, <1>5 DEF Dispatch, RejectAtDispatch, NextInLine, Complete, Fail, Report,
                      Cancel, Retry
  <2> QED
    BY <1>5, <2>1 DEF Untouched, Dispatch, RejectAtDispatch, Complete, Fail, Report,
                      Cancel, Retry
<1>6. ASSUME CheckTimeouts
      PROVE  state'[j] = "FREE" /\ ~active'[j] /\ starts'[j] = 0 /\ retries'[j] = 0
  BY <1>3, <1>6 DEF Untouched, CheckTimeouts, OverdueQueued, OverdueRunning
<1>7. ASSUME CheckExpired \/ CleanupCompleted \/ CleanupAll
      PROVE  state'[j] = "FREE" /\ ~active'[j] /\ starts'[j] = 0 /\ retries'[j] = 0
  BY <1>7 DEF Untouched, CheckExpired, CleanupCompleted, CleanupAll, Retire
<1>8. ASSUME Tick \/ (\E t \in Targets : SetAvailability(t)) \/ UNCHANGED vars
      PROVE  state'[j] = "FREE" /\ ~active'[j] /\ starts'[j] = 0 /\ retries'[j] = 0
  BY <1>8 DEF Untouched, Tick, SetAvailability, entryVars, vars
<1> QED BY <1>4, <1>5, <1>6, <1>7, <1>8 DEF Next

(* Each start is paid for by an admission or by a retry.                   *)
LEMMA StartsStep ==
  TypeOK /\ Untouched /\ StartCredit /\ StartsBounded /\ [Next]_vars
    => StartCredit' /\ StartsBounded'
<1> SUFFICES ASSUME TypeOK, Untouched, StartCredit, StartsBounded, [Next]_vars,
                    NEW j \in Slots
             PROVE  /\ j \in Queued' => starts'[j] <= retries'[j]
                    /\ starts'[j] <= retries'[j] + 1
                    /\ retries'[j] <= op'[j].maxRetries
  BY DEF StartCredit, StartsBounded, Queued
<1> USE DEF TypeOK
<1>0. /\ starts[j] \in Nat /\ retries[j] \in Nat
      /\ starts[j] <= retries[j] + 1
      /\ retries[j] <= op[j].maxRetries
      /\ j \in Queued => starts[j] <= retries[j]
      /\ \A r \in Requests : r.maxRetries \in Nat
  BY ConstantsAssumption DEF StartCredit, StartsBounded, RequestType
<1> DEFINE Goal == /\ j \in Queued' => starts'[j] <= retries'[j]
                   /\ starts'[j] <= retries'[j] + 1
                   /\ retries'[j] <= op'[j].maxRetries
<1>1. ASSUME NEW r \in Requests, Enqueue(r) PROVE Goal
  <2>1. count + 1 \in Slots /\ count + 1 > count
    BY <1>1, ConstantsAssumption DEF Enqueue, QueueFull, Slots
  <2>2. CASE j = count + 1
    <3>1. starts'[j] = 0 /\ retries'[j] = 0 /\ op'[j] = r
      BY <1>1, <2>1, <2>2 DEF Enqueue, Untouched
    <3> QED BY <1>0, <3>1
  <2>3. CASE j # count + 1
    <3>1. /\ starts'[j] = starts[j] /\ retries'[j] = retries[j] /\ op'[j] = op[j]
          /\ j \in Queued' => j \in Queued
      BY <1>1, <2>3 DEF Enqueue, Queued
    <3> QED BY <1>0, <3>1
  <2> QED BY <2>2, <2>3
<1>2. ASSUME NEW i \in Slots, Dispatch(i) PROVE Goal
  <2>1. i \in Queued /\ starts' = [starts EXCEPT ![i] = @ + 1]
    BY <1>2 DEF Dispatch, NextInLine
  <2>2. j = i => starts'[j] = starts[j] + 1 /\ j \notin Queued' /\ j \in Queued
    BY <1>2, <2>1 DEF Dispatch, Queued
  <2>3. j # i => starts'[j] = starts[j] /\ (j \in Queued' => j \in Queued)
    BY <1>2, <2>1 DEF Dispatch, Queued
  <2>4. retries' = retries /\ op' = op BY <1>2 DEF Dispatch
  <2> QED BY <1>0, <2>2, <2>3, <2>4
<1>3. ASSUME NEW i \in Slots, Retry(i) PROVE Goal
  <2>1. starts' = starts /\ op' = op BY <1>3 DEF Retry
  <2>2. j = i => retries'[j] = retries[j] + 1 /\ retries[j] < op[j].maxRetries
    BY <1>3 DEF Retry
  <2>3. j # i => retries'[j] = retries[j] /\ (j \in Queued' => j \in Queued)
    BY <1>3 DEF Retry, Queued
  <2>4. op[j].maxRetries \in Nat BY <1>0
  <2> QED BY <1>0, <2>1, <2>2, <2>3, <2>4
<1>4. ASSUME \/ \E i \in Slots : RejectAtDispatch(i) \/ Complete(i) \/ Fail(i) \/ Cancel(i)
             \/ CheckTimeouts \/ CheckExpired \/ CleanupCompleted \/ CleanupAll
             \/ Tick \/ (\E t \in Targets : SetAvailability(t)) \/ UNCHANGED vars
      PROVE  Goal
  <2>1. UNCHANGED <<starts, retries, op>>
    BY <1>4 DEF RejectAtDispatch, Complete, Fail, Report, Cancel, CheckTimeouts,
                CheckExpired, CleanupCompleted, CleanupAll, Retire, Tick,
                SetAvailability, entryVars, vars
  <2>2. j \in Queued' => j \in Queued
    <3>1. CASE \E i \in Slots : RejectAtDispatch(i) \/ Complete(i) \/ Fail(i) \/ Cancel(i)
      BY <3>1 DEF RejectAtDispatch, Complete, Fail, Report, Cancel, Queued
    <3>2. CASE CheckTimeouts BY <3>2 DEF CheckTimeouts, Queued
    <3>3. CASE CheckExpired \/ CleanupCompleted \/ CleanupAll
      BY <3>3 DEF CheckExpired, CleanupCompleted, CleanupAll, Retire, Queued
    <3>4. CASE Tick \/ (\E t \in Targets : SetAvailability(t)) \/ UNCHANGED vars
      BY <3>4 DEF Tick, SetAvailability, entryVars, vars, Queued
    <3> QED BY <1>4, <3>1, <3>2, <3>3, <3>4
  <2> QED BY <1>0, <2>1, <2>2
<1> QED BY <1>1, <1>2, <1>3, <1>4 DEF Next

-----------------------------------------------------------------------------
LEMMA InvInit == Init => IInv
<1> SUFFICES ASSUME Init PROVE IInv OBVIOUS
<1>1. TypeOK BY TypeInit
<1>2. Untouched BY DEF Init, Untouched
<1>3. Running = {} /\ Queued = {} BY DEF Init, Running, Queued
<1>4. RunningCountExact
  BY <1>3, FS_EmptySet, ConstantsAssumption DEF Init, RunningCountExact
<1>5. StartCredit BY <1>3 DEF StartCredit
<1>6. StartsBounded BY <1>1, ConstantsAssumption DEF Init, StartsBounded, RequestType, TypeOK
<1> QED BY <1>1, <1>2, <1>4, <1>5, <1>6 DEF IInv

LEMMA InvStep == IInv /\ [Next]_vars => IInv'
BY TypeStep, UntouchedStep, RunningStep, StartsStep DEF IInv

LEMMA Inductive == Spec => []IInv
BY InvInit, InvStep, PTL DEF Spec

(* The dequeue throttle counts what really runs, for any table size, any   *)
(* limit and any mix of calls (ozayn_oq_dequeue_next, _complete, _fail,    *)
(* _check_timeouts, _cleanup_all).                                         *)
THEOREM RunningCountCorrect == Spec => []RunningCountExact
<1>1. IInv => RunningCountExact BY DEF IInv
<1> QED BY <1>1, Inductive, PTL

(* No operation is started more often than it was admitted and retried.    *)
THEOREM StartsCorrect == Spec => []StartsBounded
<1>1. IInv => StartsBounded BY DEF IInv
<1> QED BY <1>1, Inductive, PTL

(* Types, running count and starts together: what the queue hands out is   *)
(* accounted for, whatever the mix of calls (operation_queue.c:286-1110).  *)
THEOREM QueueIsSafe == Spec => []QueueSafe
<1>1. TypeOK /\ RunningCountExact /\ StartsBounded => QueueSafe
  BY DEF QueueSafe
<1> QED BY <1>1, TypeCorrect, RunningCountCorrect, StartsCorrect, PTL

-----------------------------------------------------------------------------
(* Reports, timeouts and cancellations that come late change nothing: a    *)
(* terminal state is final, but for the retry of a held FAILED operation.  *)
LEMMA TerminalStep ==
  ASSUME TypeOK, Untouched, [Next]_vars, NEW j \in Slots, state[j] \in Terminal
  PROVE  \/ state'[j] = state[j]
         \/ state[j] = "FAILED" /\ state'[j] = "QUEUED" /\ active[j]
<1> USE DEF TypeOK
<1>1. j \notin Queued \cup Running BY DEF Queued, Running, Terminal
<1>2. ASSUME NEW r \in Requests, Enqueue(r) PROVE state'[j] = state[j]
  <2>1. j # count + 1
    <3>1. ASSUME j = count + 1 PROVE FALSE
      BY <3>1, ConstantsAssumption DEF Untouched, Terminal, Slots
    <3> QED BY <3>1
  <2> QED BY <1>2, <2>1 DEF Enqueue
<1>3. ASSUME NEW i \in Slots,
             Dispatch(i) \/ RejectAtDispatch(i) \/ Complete(i) \/ Fail(i) \/ Cancel(i)
      PROVE  state'[j] = state[j]
  BY <1>1, <1>3 DEF Dispatch, RejectAtDispatch, NextInLine, Complete, Fail, Report, Cancel
<1>4. ASSUME NEW i \in Slots, Retry(i)
      PROVE  \/ state'[j] = state[j]
             \/ state[j] = "FAILED" /\ state'[j] = "QUEUED" /\ active[j]
  BY <1>4 DEF Retry, Finished
<1>5. ASSUME CheckTimeouts PROVE state'[j] = state[j]
  BY <1>1, <1>5 DEF CheckTimeouts, OverdueQueued, OverdueRunning
<1>6. ASSUME \/ CheckExpired \/ CleanupCompleted \/ CleanupAll \/ Tick
             \/ (\E t \in Targets : SetAvailability(t)) \/ UNCHANGED vars
      PROVE  state'[j] = state[j]
  BY <1>6 DEF CheckExpired, CleanupCompleted, CleanupAll, Retire, Tick,
              SetAvailability, entryVars, vars
<1> QED BY <1>2, <1>3, <1>4, <1>5, <1>6 DEF Next

(* A finished operation stays finished, whatever comes late.               *)
THEOREM TerminalIsFinal == Spec => TerminalStays
<1>1. IInv /\ [Next]_vars
        => [\A i \in Slots :
              state[i] \in Terminal =>
                \/ state'[i] = state[i]
                \/ state[i] = "FAILED" /\ state'[i] = "QUEUED" /\ active[i]]_vars
  BY TerminalStep DEF IInv
<1> QED BY <1>1, Inductive, PTL DEF Spec, TerminalStays

-----------------------------------------------------------------------------
(* Every step of the queue is a step of the pool, or a stutter.            *)
LEMMA PoolStep == IInv /\ [Next]_vars => [Pool!PoolNext]_(Pool!poolVars)
<1> SUFFICES ASSUME IInv, [Next]_vars PROVE [Pool!PoolNext]_(Pool!poolVars) OBVIOUS
<1> USE DEF IInv, TypeOK
<1> DEFINE Kept == UNCHANGED <<Used, Queued, Running, Finished>>
<1>0. Queued \cup Running \cup Finished \in SUBSET Slots
  BY DEF Queued, Running, Finished
<1>1. ASSUME NEW r \in Requests, Enqueue(r) PROVE \E i \in Slots : Pool!Admit(i)
  <2> DEFINE n == count + 1
  <2>1. n \in Slots /\ n > count
    BY <1>1, ConstantsAssumption DEF Enqueue, QueueFull, Slots
  <2>2. n \notin Used /\ Used' = Used \cup {n}
    BY <1>1, ConstantsAssumption DEF Enqueue, Used
  <2>3. Queued' = Queued \cup {n} BY <1>1, <2>1 DEF Enqueue, Queued
  <2>4. Running' = Running /\ Finished' = Finished
    <3>1. n \notin Running \cup Finished BY <2>1 DEF Untouched, Running, Finished
    <3> QED BY <1>1, <2>1, <3>1 DEF Enqueue, Running, Finished, Terminal
  <2> QED BY <2>1, <2>2, <2>3, <2>4 DEF Pool!Admit
<1>2. ASSUME NEW i \in Slots, Dispatch(i) PROVE Pool!Start(i)
  <2>1. i \in Queued /\ Used' = Used /\ runningCount < MaxRunning
    BY <1>2, ConstantsAssumption DEF Dispatch, NextInLine, RunningLimit, Used
  <2>2. /\ Queued' = Queued \ {i} /\ Running' = Running \cup {i}
        /\ Finished' = Finished
    BY <1>2, <2>1 DEF Dispatch, Queued, Running, Finished, Terminal
  <2>3. Cardinality(Running) < MaxRunning BY <2>1 DEF RunningCountExact
  <2>4. Pool!Cardinality(Running) = Cardinality(Running)
    BY DEF Pool!Cardinality, Cardinality
  <2> QED BY <2>1, <2>2, <2>3, <2>4 DEF Pool!Start
<1>3. ASSUME NEW i \in Slots,
             RejectAtDispatch(i) \/ Complete(i) \/ Fail(i) \/ Cancel(i)
      PROVE  \E S \in SUBSET Slots : Pool!Settle(S)
  <2>1. i \in Queued \cup Running
    BY <1>3 DEF RejectAtDispatch, NextInLine, Complete, Fail, Report, Cancel
  <2>2. /\ Used' = Used /\ active' = active
        /\ \E s \in Terminal : state' = [state EXCEPT ![i] = s]
    BY <1>3 DEF RejectAtDispatch, Complete, Fail, Report, Cancel, Used, Terminal
  <2>3. /\ Queued' = Queued \ {i} /\ Running' = Running \ {i}
        /\ Finished' = Finished \cup {i}
    BY <2>1, <2>2 DEF Queued, Running, Finished, Terminal
  <2>4. Pool!Settle({i}) BY <2>1, <2>2, <2>3 DEF Pool!Settle
  <2> QED BY <2>4
<1>4. ASSUME NEW i \in Slots, Retry(i) PROVE Pool!SendBack(i)
  <2>1. i \in Finished /\ Used' = Used BY <1>4 DEF Retry, Used
  <2>2. /\ Queued' = Queued \cup {i} /\ Running' = Running
        /\ Finished' = Finished \ {i}
    BY <1>4, <2>1 DEF Retry, Queued, Running, Finished, Terminal
  <2> QED BY <2>1, <2>2 DEF Pool!SendBack
<1>5. ASSUME CheckTimeouts PROVE \E S \in SUBSET Slots : Pool!Settle(S)
  <2> DEFINE S == OverdueQueued \cup OverdueRunning
  <2>1. S \in SUBSET Slots /\ S # {} /\ S \subseteq Queued \cup Running
    BY <1>0, <1>5 DEF CheckTimeouts, OverdueQueued, OverdueRunning
  <2>2. Used' = Used /\ active' = active
        /\ state' = [i \in Slots |-> IF i \in S THEN "TIMEOUT" ELSE state[i]]
    BY <1>5 DEF CheckTimeouts, Used
  <2> HIDE DEF S
  <2>3. /\ Queued' = Queued \ S /\ Running' = Running \ S
        /\ Finished' = Finished \cup S
    BY <2>1, <2>2 DEF Queued, Running, Finished, Terminal
  <2> QED BY <2>1, <2>2, <2>3 DEF Pool!Settle
<1>6. ASSUME NEW S \in SUBSET (Queued \cup Running \cup Finished), Retire(S),
             S \subseteq Finished \/ S = Queued \cup Running \cup Finished
      PROVE  \E T \in SUBSET Slots : Pool!Forget(T)
  <2>1. S # {} /\ Used' = Used BY <1>6 DEF Retire, Used
  <2>2. /\ Queued' = Queued \ S /\ Running' = Running \ S
        /\ Finished' = Finished \ S
    BY <1>6 DEF Retire, Queued, Running, Finished
  <2> QED BY <1>0, <1>6, <2>1, <2>2 DEF Pool!Forget
<1>7. ASSUME CheckExpired \/ CleanupCompleted
      PROVE  \E S \in SUBSET Slots : Pool!Forget(S)
  <2>1. PICK S \in SUBSET Finished : Retire(S)
    BY <1>7 DEF CheckExpired, CleanupCompleted
  <2> QED BY <1>6, <2>1
<1>8. ASSUME CleanupAll PROVE \E S \in SUBSET Slots : Pool!Forget(S)
  BY <1>6, <1>8 DEF CleanupAll, Live
<1>9. ASSUME Tick \/ (\E t \in Targets : SetAvailability(t)) \/ UNCHANGED vars
      PROVE  Kept
  <2>1. UNCHANGED <<count, state, active>>
    BY <1>9 DEF Tick, SetAvailability, entryVars, vars
  <2> QED BY <2>1 DEF Used, Queued, Running, Finished
<1> QED
  BY <1>1, <1>2, <1>3, <1>4, <1>5, <1>7, <1>8, <1>9
     DEF Next, Pool!PoolNext, Pool!poolVars

(* The table of slots, with its counters, clock and sweeps, implements the *)
(* pool of operations it is meant to be.                                   *)
THEOREM QueueImplementsPool == Spec => ImplementsPool
<1>1. Init => Pool!PoolInit
  BY ConstantsAssumption DEF Init, Pool!PoolInit, Used, Queued, Running, Finished
<1> QED BY <1>1, PoolStep, Inductive, PTL DEF Spec, ImplementsPool, Pool!PoolSpec

-----------------------------------------------------------------------------
(* What is held lies below count, where enqueue does not write.            *)
LEMMA HeldIsUsed ==
  ASSUME TypeOK, Untouched, NEW i \in Live \cup Finished
  PROVE  i \in Slots /\ i <= count
BY ConstantsAssumption DEF TypeOK, Untouched, Live, Queued, Running, Finished, Slots

(* The slot enqueue writes.                                                *)
LEMMA NextSlot ==
  ASSUME TypeOK, Untouched, NEW r \in Requests, Enqueue(r)
  PROVE  /\ count + 1 \in Slots /\ count + 1 > count
         /\ count + 1 \notin Live \cup Finished
         /\ state[count + 1] = "FREE" /\ retries[count + 1] = 0
<1>1. count + 1 \in Slots /\ count + 1 > count
  BY ConstantsAssumption DEF TypeOK, Enqueue, QueueFull, Slots
<1> QED BY <1>1, HeldIsUsed DEF Untouched, TypeOK

(* No step but enqueue makes something held that was not, or changes the   *)
(* request of a slot.                                                      *)
LEMMA HeldOnlyShrinks ==
  ASSUME TypeOK, [Next]_vars, ~ \E r \in Requests : Enqueue(r)
  PROVE  op' = op /\ (Live \cup Finished)' \subseteq Live \cup Finished
<1> USE DEF TypeOK, Live, Queued, Running, Finished
<1>1. ASSUME NEW i \in Slots,
             Dispatch(i) \/ RejectAtDispatch(i) \/ Complete(i) \/ Fail(i)
               \/ Cancel(i) \/ Retry(i)
      PROVE  op' = op /\ (Live \cup Finished)' \subseteq Live \cup Finished
  <2>1. op' = op /\ active' = active /\ i \in Live \cup Finished
    BY <1>1 DEF Dispatch, RejectAtDispatch, NextInLine, Complete, Fail, Report, Cancel, Retry
  <2>2. \E s \in States : state' = [state EXCEPT ![i] = s]
    BY <1>1 DEF Dispatch, RejectAtDispatch, Complete, Fail, Report, Cancel, Retry,
                States, Terminal
  <2> QED BY <2>1, <2>2
<1>2. ASSUME CheckTimeouts
      PROVE  op' = op /\ (Live \cup Finished)' \subseteq Live \cup Finished
  BY <1>2 DEF CheckTimeouts, OverdueQueued, OverdueRunning
<1>3. ASSUME CheckExpired \/ CleanupCompleted \/ CleanupAll
      PROVE  op' = op /\ (Live \cup Finished)' \subseteq Live \cup Finished
  BY <1>3 DEF CheckExpired, CleanupCompleted, CleanupAll, Retire
<1>4. ASSUME Tick \/ (\E t \in Targets : SetAvailability(t)) \/ UNCHANGED vars
      PROVE  op' = op /\ (Live \cup Finished)' \subseteq Live \cup Finished
  BY <1>4 DEF Tick, SetAvailability, entryVars, vars
<1> QED BY <1>1, <1>2, <1>3, <1>4 DEF Next

(* An idempotent request is let in beside no other of its id.              *)
LEMMA IdempotentStep ==
  TypeOK /\ Untouched /\ IdempotentOnce /\ [Next]_vars => IdempotentOnce'
<1> SUFFICES ASSUME TypeOK, Untouched, IdempotentOnce, [Next]_vars,
                    NEW i \in (Live \cup Finished)', NEW j \in (Live \cup Finished)',
                    i < j, op'[i].id = op'[j].id
             PROVE  ~op'[j].idempotent
  BY DEF IdempotentOnce
<1>1. ASSUME NEW r \in Requests, Enqueue(r) PROVE ~op'[j].idempotent
  <2> DEFINE n == count + 1
  <2>1. n \in Slots /\ n \notin Live \cup Finished BY <1>1, NextSlot
  <2>2. /\ op' = [op EXCEPT ![n] = r] /\ ~IsReplay(r)
        /\ (Live \cup Finished)' \subseteq Live \cup Finished \cup {n}
    BY <1>1, <2>1 DEF Enqueue, TypeOK, Live, Queued, Running, Finished
  <2>3. i \in Slots /\ j \in Slots BY DEF Live, Queued, Running, Finished
  <2>4. i # n
    <3>1. CASE j = n BY <3>1, <2>3, ConstantsAssumption DEF Slots
    <3>2. CASE j # n
      <4>1. j <= count BY <2>2, <3>2, HeldIsUsed
      <4> QED BY <4>1, <2>3, ConstantsAssumption DEF Slots, TypeOK
    <3> QED BY <3>1, <3>2
  <2>5. i \in Live \cup Finished /\ op'[i] = op[i] BY <2>2, <2>3, <2>4 DEF TypeOK
  <2>6. CASE j = n
    <3>1. op'[j] = r BY <2>1, <2>2, <2>6 DEF TypeOK
    <3> QED BY <2>2, <2>5, <3>1 DEF IsReplay
  <2>7. CASE j # n
    <3>1. j \in Live \cup Finished /\ op'[j] = op[j] BY <2>2, <2>3, <2>7 DEF TypeOK
    <3> QED BY <2>5, <3>1 DEF IdempotentOnce
  <2> QED BY <2>6, <2>7
<1>2. CASE ~ \E r \in Requests : Enqueue(r)
  BY <1>2, HeldOnlyShrinks DEF IdempotentOnce
<1> QED BY <1>1, <1>2

-----------------------------------------------------------------------------
(* The first attempts of a target that wait or run.                        *)
FirstAttempts(t) == {i \in Live : op[i].target = t /\ retries[i] = 0}

LEMMA FirstAttemptsFinite ==
  ASSUME NEW t
  PROVE  IsFiniteSet(FirstAttempts(t)) /\ Cardinality(FirstAttempts(t)) \in Nat
<1>1. FirstAttempts(t) \in SUBSET Slots
  BY DEF FirstAttempts, Live, Queued, Running
<1> QED BY <1>1, SlotsFinite, FS_Subset, FS_CardinalityType

LEMMA LoadStep ==
  TypeOK /\ Untouched /\ FirstAttemptLoadBounded /\ [Next]_vars => FirstAttemptLoadBounded'
<1> SUFFICES ASSUME TypeOK, Untouched, FirstAttemptLoadBounded, [Next]_vars,
                    MaxPerComponent > 0, NEW t \in Targets
             PROVE  Cardinality(FirstAttempts(t)') <= MaxPerComponent
  BY DEF FirstAttemptLoadBounded, FirstAttempts
<1> USE ConstantsAssumption DEF TypeOK
<1>0. Cardinality(FirstAttempts(t)) <= MaxPerComponent
  BY DEF FirstAttemptLoadBounded, FirstAttempts
<1>1. ASSUME NEW r \in Requests, Enqueue(r)
      PROVE  Cardinality(FirstAttempts(t)') <= MaxPerComponent
  <2> DEFINE n == count + 1
  <2>1. n \in Slots /\ n \notin Live BY <1>1, NextSlot
  <2>2. /\ op' = [op EXCEPT ![n] = r] /\ retries' = retries
        /\ Live' = Live \cup {n}
    BY <1>1, <2>1 DEF Enqueue, Live, Queued, Running
  <2>3. Live \subseteq Slots BY DEF Live, Queued, Running
  <2>4. CASE r.target = t
    <3> DEFINE Load == {i \in Live : op[i].target = t}
    <3>1. IsFiniteSet(Load) /\ Cardinality(Load) \in Nat
      BY <2>3, SlotsFinite, FS_Subset, FS_CardinalityType
    <3>2. Cardinality(Load) < MaxPerComponent
      BY <1>1, <2>4 DEF Enqueue, WithinComponentLimit
    <3>3. FirstAttempts(t)' \subseteq Load \cup {n}
      BY <2>1, <2>2, <2>3 DEF FirstAttempts
    <3>4. IsFiniteSet(Load \cup {n}) /\ Cardinality(Load \cup {n}) = Cardinality(Load) + 1
      BY <2>1, <3>1, FS_AddElement
    <3>5. Cardinality(FirstAttempts(t)') <= Cardinality(Load \cup {n})
      BY <3>3, <3>4, FS_Subset
    <3>6. Cardinality(FirstAttempts(t)') \in Nat BY <3>3, <3>4, FS_Subset, FS_CardinalityType
    <3> QED BY <3>1, <3>2, <3>4, <3>5, <3>6
  <2>5. CASE r.target # t
    <3>1. FirstAttempts(t)' = FirstAttempts(t)
      BY <2>1, <2>2, <2>3, <2>5 DEF FirstAttempts
    <3> QED BY <1>0, <3>1
  <2> QED BY <2>4, <2>5
<1>2. ASSUME FirstAttempts(t)' \subseteq FirstAttempts(t)
      PROVE  Cardinality(FirstAttempts(t)') <= MaxPerComponent
  <2>1. /\ Cardinality(FirstAttempts(t)') <= Cardinality(FirstAttempts(t))
        /\ IsFiniteSet(FirstAttempts(t)')
    BY <1>2, FirstAttemptsFinite, FS_Subset
  <2>2. Cardinality(FirstAttempts(t)') \in Nat BY <2>1, FS_CardinalityType
  <2> QED BY <1>0, <2>1, <2>2, FirstAttemptsFinite
<1>3. ASSUME NEW i \in Slots,
             Dispatch(i) \/ RejectAtDispatch(i) \/ Complete(i) \/ Fail(i) \/ Cancel(i)
      PROVE  FirstAttempts(t)' \subseteq FirstAttempts(t)
  <2>1. UNCHANGED <<op, retries, active>> /\ i \in Live
    BY <1>3 DEF Dispatch, RejectAtDispatch, NextInLine, Complete, Fail, Report, Cancel, Live
  <2>2. \E s \in States : state' = [state EXCEPT ![i] = s]
    BY <1>3 DEF Dispatch, RejectAtDispatch, Complete, Fail, Report, Cancel, States, Terminal
  <2> QED BY <2>1, <2>2 DEF FirstAttempts, Live, Queued, Running
<1>4. ASSUME NEW i \in Slots, Retry(i)
      PROVE  FirstAttempts(t)' \subseteq FirstAttempts(t)
  <2>1. retries'[i] # 0 BY <1>4 DEF Retry
  <2> QED BY <1>4, <2>1 DEF Retry, FirstAttempts, Live, Queued, Running
<1>5. ASSUME CheckTimeouts PROVE FirstAttempts(t)' \subseteq FirstAttempts(t)
  BY <1>5 DEF CheckTimeouts, FirstAttempts, Live, Queued, Running
<1>6. ASSUME CheckExpired \/ CleanupCompleted \/ CleanupAll
      PROVE  FirstAttempts(t)' \subseteq FirstAttempts(t)
  BY <1>6 DEF CheckExpired, CleanupCompleted, CleanupAll, Retire, FirstAttempts, Live,
              Queued, Running
<1>7. ASSUME Tick \/ (\E u \in Targets : SetAvailability(u)) \/ UNCHANGED vars
      PROVE  FirstAttempts(t)' \subseteq FirstAttempts(t)
  BY <1>7 DEF Tick, SetAvailability, entryVars, vars, FirstAttempts, Live, Queued, Running
<1> QED BY <1>1, <1>2, <1>3, <1>4, <1>5, <1>6, <1>7 DEF Next

-----------------------------------------------------------------------------
(* The slots whose operation is in one of some states, held or not, and    *)
(* what becomes of their number when operations move.                      *)
InStates(S) == {i \in Slots : state[i] \in S}

LEMMA InStatesFinite ==
  ASSUME NEW S
  PROVE  IsFiniteSet(InStates(S)) /\ Cardinality(InStates(S)) \in Nat
<1>1. InStates(S) \in SUBSET Slots BY DEF InStates
<1> QED BY <1>1, SlotsFinite, FS_Subset, FS_CardinalityType

LEMMA SlotMoves ==
  ASSUME TypeOK, NEW i \in Slots, NEW to \in States, state' = [state EXCEPT ![i] = to], NEW S
  PROVE  /\ state[i] \notin S /\ to \in S
              => Cardinality(InStates(S)') = Cardinality(InStates(S)) + 1
         /\ state[i] \in S /\ to \notin S
              => Cardinality(InStates(S)') = Cardinality(InStates(S)) - 1
         /\ (state[i] \in S <=> to \in S) => InStates(S)' = InStates(S)
<1> USE DEF TypeOK, InStates
<1>1. CASE state[i] \notin S /\ to \in S
  <2>1. InStates(S)' = InStates(S) \cup {i} /\ i \notin InStates(S) BY <1>1
  <2> HIDE DEF InStates
  <2> QED BY <1>1, <2>1, InStatesFinite, FS_AddElement
<1>2. CASE state[i] \in S /\ to \notin S
  <2>1. InStates(S)' = InStates(S) \ {i} /\ i \in InStates(S) BY <1>2
  <2> HIDE DEF InStates
  <2> QED BY <1>2, <2>1, InStatesFinite, FS_RemoveElement
<1>3. CASE state[i] \in S <=> to \in S
  BY <1>3
<1> QED BY <1>1, <1>2, <1>3

(* The totals, with the sets of slots named.                               *)
TotalsInStates ==
  /\ total["submitted"] = Cardinality(InStates(States \ {"FREE"}))
  /\ total["succeeded"] = Cardinality(InStates({"SUCCEEDED"}))
  /\ total["cancelled"] = Cardinality(InStates({"CANCELLED"}))
  /\ total["timeouts"] = Cardinality(InStates({"TIMEOUT"}))
  /\ total["failed"] >= Cardinality(InStates({"FAILED"}))

LEMMA TotalsNamed == TotalsAccount <=> TotalsInStates
BY DEF TotalsAccount, TotalsInStates, InStates

LEMMA TotalsStep ==
  TypeOK /\ Untouched /\ TotalsInStates /\ [Next]_vars => TotalsInStates'
<1> SUFFICES ASSUME TypeOK, Untouched, TotalsInStates, [Next]_vars
             PROVE  TotalsInStates'
  OBVIOUS
<1> DEFINE Card(S) == Cardinality(InStates(S))
<1>0. /\ \A k \in Totals : total[k] \in Nat
      /\ \A S : Card(S) \in Nat
  BY InStatesFinite DEF TypeOK
<1>1. ASSUME NEW r \in Requests, Enqueue(r) PROVE TotalsInStates'
  <2> DEFINE n == count + 1
  <2>1. n \in Slots /\ state[n] = "FREE" BY <1>1, NextSlot
  <2>2. state' = [state EXCEPT ![n] = "QUEUED"] BY <1>1 DEF Enqueue
  <2>3. total' = [total EXCEPT !["submitted"] = @ + 1] BY <1>1 DEF Enqueue, Bump
  <2>4. "QUEUED" \in States /\ "FREE" \in States BY DEF States
  <2>5. Card(States \ {"FREE"})' = Card(States \ {"FREE"}) + 1
    BY <2>1, <2>2, <2>4, SlotMoves
  <2>6. \A k \in Terminal : InStates({k})' = InStates({k})
    BY <2>1, <2>2, <2>4, SlotMoves, ZenonT(30) DEF Terminal
  <2> QED BY <1>0, <2>3, <2>5, <2>6 DEF TotalsInStates, TypeOK, Totals, Terminal
<1>2. ASSUME NEW i \in Slots, NEW to \in Terminal, NEW key \in Totals,
             state[i] \in {"QUEUED", "RUNNING"}, state' = [state EXCEPT ![i] = to],
             total' = [total EXCEPT ![key] = @ + 1],
             <<to, key>> \in {<<"SUCCEEDED", "succeeded">>, <<"FAILED", "failed">>,
                              <<"CANCELLED", "cancelled">>}
      PROVE  TotalsInStates'
  <2>1. to \in States /\ state[i] # "FREE" /\ to # "FREE" /\ state[i] \notin Terminal
    BY <1>2 DEF States, Terminal
  <2>2. InStates(States \ {"FREE"})' = InStates(States \ {"FREE"})
    BY <1>2, <2>1, SlotMoves DEF TypeOK
  <2>3. Card({to})' = Card({to}) + 1 BY <1>2, <2>1, SlotMoves
  <2>4. \A k \in Terminal \ {to} : InStates({k})' = InStates({k})
    BY <1>2, <2>1, SlotMoves
  <2> QED
    BY <1>0, <1>2, <2>2, <2>3, <2>4, SMTT(30) DEF TotalsInStates, TypeOK, Totals, Terminal
<1>3. ASSUME NEW i \in Slots, Complete(i) \/ Fail(i) \/ Cancel(i) PROVE TotalsInStates'
  BY <1>2, <1>3 DEF Complete, Fail, Report, Cancel, Bump, Queued, Running, Terminal, Totals
<1>4. ASSUME NEW i \in Slots, NEW to \in States, state' = [state EXCEPT ![i] = to],
             state[i] # "FREE", to # "FREE", total' = total,
             to \notin {"SUCCEEDED", "CANCELLED", "TIMEOUT", "FAILED"},
             state[i] \notin {"SUCCEEDED", "CANCELLED", "TIMEOUT"}
      PROVE  TotalsInStates'
  <2>1. InStates(States \ {"FREE"})' = InStates(States \ {"FREE"})
    BY <1>4, SlotMoves DEF TypeOK
  <2>2. \A k \in {"SUCCEEDED", "CANCELLED", "TIMEOUT"} : InStates({k})' = InStates({k})
    BY <1>4, SlotMoves
  <2>3. Card({"FAILED"})' = Card({"FAILED"}) \/ Card({"FAILED"})' = Card({"FAILED"}) - 1
    BY <1>4, SlotMoves
  <2> QED BY <1>0, <1>4, <2>1, <2>2, <2>3 DEF TotalsInStates, Totals
<1>5. ASSUME NEW i \in Slots, Dispatch(i) \/ RejectAtDispatch(i) \/ Retry(i)
      PROVE  TotalsInStates'
  <2>1. state[i] \in {"QUEUED", "FAILED"} /\ total' = total
    BY <1>5 DEF Dispatch, RejectAtDispatch, Retry, NextInLine, Queued
  <2>2. \E to \in {"RUNNING", "REJECTED", "QUEUED"} : state' = [state EXCEPT ![i] = to]
    BY <1>5 DEF Dispatch, RejectAtDispatch, Retry
  <2> QED BY <1>4, <2>1, <2>2 DEF States, Terminal
<1>6. CASE CheckTimeouts
  <2> DEFINE late == OverdueQueued \cup OverdueRunning
  <2>1. /\ late \subseteq Slots /\ \A i \in late : state[i] \in {"QUEUED", "RUNNING"}
    BY DEF OverdueQueued, OverdueRunning, Queued, Running
  <2>2. /\ state' = [i \in Slots |-> IF i \in late THEN "TIMEOUT" ELSE state[i]]
        /\ total' = [total EXCEPT !["timeouts"] = @ + Cardinality(late)]
    BY <1>6 DEF CheckTimeouts
  <2>3. IsFiniteSet(late) /\ Cardinality(late) \in Nat
    BY <2>1, SlotsFinite, FS_Subset, FS_CardinalityType
  <2> HIDE DEF late
  <2>4. /\ InStates({"TIMEOUT"})' = InStates({"TIMEOUT"}) \cup late
        /\ InStates({"TIMEOUT"}) \cap late = {}
    BY <2>1, <2>2 DEF InStates
  <2>5. Card({"TIMEOUT"})' = Card({"TIMEOUT"}) + Cardinality(late)
    <3>1. Cardinality({}) = 0 BY FS_EmptySet
    <3>2. IsFiniteSet(InStates({"TIMEOUT"})) BY InStatesFinite
    <3>3. Cardinality(InStates({"TIMEOUT"}) \cup late)
            = Card({"TIMEOUT"}) + Cardinality(late) - Cardinality(InStates({"TIMEOUT"}) \cap late)
      BY <2>3, <3>2, FS_Union
    <3>4. Cardinality(InStates({"TIMEOUT"}) \cap late) = 0 BY <2>4, <3>1
    <3>5. Cardinality(InStates({"TIMEOUT"})') = Cardinality(InStates({"TIMEOUT"}) \cup late)
      BY <2>4
    <3> QED BY <1>0, <2>3, <3>3, <3>4, <3>5
  <2>6. \A k \in Terminal \ {"TIMEOUT"} : InStates({k})' = InStates({k})
    BY <2>1, <2>2 DEF InStates, Terminal
  <2>7. InStates(States \ {"FREE"})' = InStates(States \ {"FREE"})
    BY <2>1, <2>2 DEF InStates, States, Terminal
  <2> QED BY <1>0, <2>2, <2>3, <2>5, <2>6, <2>7 DEF TotalsInStates, TypeOK, Totals, Terminal
<1>7. ASSUME \/ CheckExpired \/ CleanupCompleted \/ CleanupAll \/ Tick
             \/ (\E t \in Targets : SetAvailability(t)) \/ UNCHANGED vars
      PROVE  TotalsInStates'
  <2>1. state' = state /\ total' = total
    BY <1>7 DEF CheckExpired, CleanupCompleted, CleanupAll, Retire, Tick,
                SetAvailability, entryVars, vars
  <2> QED BY <2>1 DEF TotalsInStates, InStates
<1> QED BY <1>1, <1>3, <1>5, <1>6, <1>7 DEF Next

(* What is let in stays within what was promised, and every submission is  *)
(* accounted for, under any mix of reports, retries, timeouts and cleanups *)
(* (ozayn_oq_enqueue and every call after it).                             *)
THEOREM AdmissionIsHeld == Spec => []AdmissionHolds
<1> DEFINE Inv == IInv /\ AdmissionHolds
<1>1. Init => Inv
  <2> SUFFICES ASSUME Init PROVE AdmissionHolds BY InvInit
  <2>1. Live = {} /\ Finished = {} BY DEF Init, Live, Queued, Running, Finished
  <2>2. IdempotentOnce BY <2>1 DEF IdempotentOnce
  <2>3. FirstAttemptLoadBounded
    <3> SUFFICES ASSUME NEW t \in Targets
                 PROVE  Cardinality(FirstAttempts(t)) <= MaxPerComponent
      BY DEF FirstAttemptLoadBounded, FirstAttempts
    <3>1. FirstAttempts(t) = {} BY <2>1 DEF FirstAttempts
    <3> QED BY <3>1, FS_EmptySet, ConstantsAssumption
  <2>4. TotalsInStates
    <3>1. \A S : "FREE" \notin S => InStates(S) = {} BY DEF Init, InStates
    <3>2. \A k \in Totals : total[k] = 0 BY DEF Init
    <3> QED BY <3>1, <3>2, FS_EmptySet DEF TotalsInStates, Totals
  <2> QED BY <2>2, <2>3, <2>4, TotalsNamed DEF AdmissionHolds
<1>2. Inv /\ [Next]_vars => Inv'
  <2> SUFFICES ASSUME Inv, [Next]_vars PROVE Inv' OBVIOUS
  <2>1. TotalsAccount'
    <3>1. TotalsInStates' BY TotalsNamed, TotalsStep DEF AdmissionHolds, IInv
    <3> QED BY <3>1 DEF TotalsAccount, TotalsInStates, InStates
  <2> QED BY <2>1, InvStep, IdempotentStep, LoadStep DEF AdmissionHolds, IInv
<1> QED BY <1>1, <1>2, PTL DEF Spec

-----------------------------------------------------------------------------
(* First attempts wait in the order of their slots, and nothing has waited *)
(* since the future.                                                       *)
InOrder ==
  /\ \A i \in Slots : since[i] <= now
  /\ \A i, j \in Queued : retries[i] = 0 /\ retries[j] = 0 /\ i < j => since[i] <= since[j]

LEMMA OrderStep == TypeOK /\ Untouched /\ InOrder /\ [Next]_vars => InOrder'
<1> SUFFICES ASSUME TypeOK, Untouched, InOrder, [Next]_vars
             PROVE  InOrder'
  OBVIOUS
<1> USE DEF TypeOK
<1>0. /\ now \in Int /\ \A i \in Slots : since[i] \in Int
      /\ \A i \in Slots : i \in Int
  BY ConstantsAssumption DEF Slots
<1>1. ASSUME NEW r \in Requests, Enqueue(r) PROVE InOrder'
  <2> DEFINE n == count + 1
  <2>1. n \in Slots /\ n > count /\ n \notin Queued BY <1>1, NextSlot DEF Live
  <2>2. /\ since' = [since EXCEPT ![n] = now] /\ now' = now /\ retries' = retries
        /\ Queued' = Queued \cup {n}
    BY <1>1, <2>1 DEF Enqueue, Queued
  <2>3. \A i \in Queued : i \in Slots /\ i < n
    <3>1. \A i \in Queued : i \in Slots /\ i <= count BY HeldIsUsed DEF Live
    <3> QED BY <1>0, <2>1, <3>1
  <2> QED BY <1>0, <2>1, <2>2, <2>3 DEF InOrder
<1>2. ASSUME NEW i \in Slots,
             Dispatch(i) \/ RejectAtDispatch(i) \/ Complete(i) \/ Fail(i) \/ Cancel(i)
      PROVE  InOrder'
  <2>1. /\ since' = [since EXCEPT ![i] = now] /\ now' = now /\ retries' = retries
        /\ Queued' \subseteq Queued \ {i}
    BY <1>2 DEF Dispatch, RejectAtDispatch, Complete, Fail, Report, Cancel, Queued
  <2>2. Queued \subseteq Slots BY DEF Queued
  <2> QED BY <1>0, <2>1, <2>2 DEF InOrder
<1>3. ASSUME NEW i \in Slots, Retry(i) PROVE InOrder'
  <2>1. /\ since' = [since EXCEPT ![i] = now] /\ now' = now
        /\ retries' = [retries EXCEPT ![i] = @ + 1] /\ Queued' \subseteq Queued \cup {i}
    BY <1>3 DEF Retry, Queued
  <2>2. Queued \subseteq Slots /\ retries'[i] # 0 BY <2>1 DEF Queued
  <2> QED BY <1>0, <2>1, <2>2 DEF InOrder
<1>4. CASE CheckTimeouts
  <2> DEFINE late == OverdueQueued \cup OverdueRunning
  <2>1. /\ since' = [i \in Slots |-> IF i \in late THEN now ELSE since[i]]
        /\ now' = now /\ retries' = retries
        /\ Queued' \subseteq Queued \ late
    BY <1>4 DEF CheckTimeouts, Queued
  <2>2. Queued \subseteq Slots BY DEF Queued
  <2> QED BY <1>0, <2>1, <2>2 DEF InOrder
<1>5. ASSUME CheckExpired \/ CleanupCompleted \/ CleanupAll PROVE InOrder'
  <2>1. UNCHANGED <<since, now, retries>> /\ Queued' \subseteq Queued
    BY <1>5 DEF CheckExpired, CleanupCompleted, CleanupAll, Retire, Queued
  <2> QED BY <1>0, <2>1 DEF InOrder, Queued
<1>6. ASSUME Tick \/ (\E t \in Targets : SetAvailability(t)) \/ UNCHANGED vars
      PROVE  InOrder'
  <2>1. UNCHANGED <<since, retries, state, active>> /\ now' \in {now, now + 1}
    BY <1>6 DEF Tick, SetAvailability, entryVars, vars
  <2> QED BY <1>0, <2>1 DEF InOrder, Queued
<1> QED BY <1>1, <1>2, <1>3, <1>4, <1>5, <1>6 DEF Next

(* Only a dispatch starts an operation.                                    *)
LEMMA StartedByDispatch ==
  ASSUME TypeOK, [Next]_vars, NEW i \in Queued, i \in Running'
  PROVE  Dispatch(i)
<1> USE DEF TypeOK, Queued, Running
<1>1. ASSUME NEW r \in Requests, Enqueue(r) PROVE FALSE
  BY <1>1 DEF Enqueue
<1>2. ASSUME NEW j \in Slots,
             RejectAtDispatch(j) \/ Complete(j) \/ Fail(j) \/ Cancel(j) \/ Retry(j)
      PROVE  FALSE
  BY <1>2 DEF RejectAtDispatch, Complete, Fail, Report, Cancel, Retry
<1>3. ASSUME NEW j \in Slots, Dispatch(j) PROVE Dispatch(i)
  BY <1>3 DEF Dispatch
<1>4. ASSUME \/ CheckTimeouts \/ CheckExpired \/ CleanupCompleted \/ CleanupAll \/ Tick
             \/ (\E t \in Targets : SetAvailability(t)) \/ UNCHANGED vars
      PROVE  FALSE
  BY <1>4 DEF CheckTimeouts, CheckExpired, CleanupCompleted, CleanupAll, Retire, Tick,
              SetAvailability, entryVars, vars
<1> QED BY <1>1, <1>2, <1>3, <1>4 DEF Next

(* First in, first out among first attempts of one priority, and no lower  *)
(* priority overtakes (ozayn_oq_dequeue_next), though the queue is a table *)
(* searched by times that repeat.                                          *)
THEOREM QueueIsFifo == Spec => FifoWithinPriority
<1> DEFINE Inv == IInv /\ InOrder
<1>1. Init => Inv
  BY InvInit, ConstantsAssumption DEF Init, InOrder, Queued
<1>2. Inv /\ [Next]_vars => Inv'
  BY InvStep, OrderStep DEF IInv
<1>3. Inv /\ [Next]_vars
        => [\A i, j \in Slots :
              /\ i \in Queued /\ i \in Running'
              /\ j \in Queued \ {i}
              => /\ op[j].priority <= op[i].priority
                 /\ op[j].priority = op[i].priority /\ retries[i] = 0 /\ retries[j] = 0
                      => i < j]_vars
  <2> SUFFICES ASSUME Inv, [Next]_vars, NEW i \in Queued, i \in Running',
                      NEW j \in Queued \ {i}
               PROVE  /\ op[j].priority <= op[i].priority
                      /\ op[j].priority = op[i].priority /\ retries[i] = 0 /\ retries[j] = 0
                           => i < j
    OBVIOUS
  <2>1. Precedes(i, j) BY StartedByDispatch DEF IInv, Dispatch, NextInLine
  <2>2. /\ op[i].priority \in Int /\ op[j].priority \in Int
        /\ since[i] \in Int /\ since[j] \in Int /\ i \in Int /\ j \in Int
    <3>1. i \in Slots /\ j \in Slots /\ \A k \in Slots : k \in Int
      BY ConstantsAssumption DEF Queued, Slots
    <3>2. \A r \in Requests : r.priority \in Int BY ConstantsAssumption DEF RequestType
    <3> QED BY <3>1, <3>2, ConstantsAssumption DEF IInv, TypeOK
  <2>3. retries[i] = 0 /\ retries[j] = 0 /\ j < i => since[j] <= since[i]
    BY DEF InOrder
  <2> QED BY <2>1, <2>2, <2>3 DEF Precedes
<1> QED BY <1>1, <1>2, <1>3, PTL DEF Spec, FifoWithinPriority
=============================================================================
