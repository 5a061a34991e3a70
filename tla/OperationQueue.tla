--------------------------- MODULE OperationQueue ---------------------------
(***************************************************************************)
(* The Control Room's operation queue (04_CONTROL_ROOM/operation_queue.c). *)
(*                                                                         *)
(* A service record holds a table of operations.  Callers enqueue an       *)
(* operation, pull the next one to run, report that it succeeded or        *)
(* failed, cancel or retry it; periodic sweeps time operations out and     *)
(* retire finished ones.  Calls come from one thread, each runs to         *)
(* completion; what is hard is the order in which they come: a result that *)
(* arrives after the timeout, a retry after a cleanup, a target that goes  *)
(* away between enqueue and dispatch.                                      *)
(*                                                                         *)
(* The table is declared as a ring, but `count' never goes down and        *)
(* enqueue refuses once count reaches max_entries, so slot i is written by *)
(* the i-th accepted enqueue and by no other; entry ids are slot numbers.  *)
(***************************************************************************)
EXTENDS Integers, FiniteSets

CONSTANTS
  Requests,       \* the enqueue calls callers may make (records, see below)
  Targets,        \* component names
  MaxEntries,     \* policy.max_entries, at most OZAYN_OQ_MAX_ENTRIES
  MaxRunning,     \* policy.max_running
  MaxPerComponent,\* policy.max_per_component; 0 switches the check off
  MaxPerRequester,\* policy.max_per_requester; 0 switches the check off
  ConflictMode,   \* policy.default_conflict_mode
  AuthorizationOK,\* ~require_authorization, or an authorization service is bound
  QueueTimeout,   \* queue_timeout_ms, in clock units; 0 switches it off
  ExecTimeout,    \* execution_timeout_ms, in clock units; 0 switches it off
  Retention,      \* the 300 s a finished entry is kept by check_expired
  MaxTime         \* bound: the clock stops here

Actions == {"START", "STOP", "PAUSE", "RESUME", "QUERY", "RESTART",
            "ENABLE", "DISABLE", "DIAGNOSTIC"}

(* What an enqueue call says: `id' is the caller's request_id, `by' the    *)
(* requester identity.                                                     *)
RequestType == [id : Nat, action : Actions, target : Targets, by : Nat,
                priority : 0..3, idempotent : BOOLEAN, maxRetries : Nat]

ASSUME ConstantsAssumption ==
  /\ Requests \subseteq RequestType /\ Requests # {}
  /\ MaxEntries \in Nat /\ MaxRunning \in Nat
  /\ MaxPerComponent \in Nat /\ MaxPerRequester \in Nat
  /\ ConflictMode \in {"REJECT", "WAIT", "ALLOW"}
  /\ AuthorizationOK \in BOOLEAN
  /\ QueueTimeout \in Nat /\ ExecTimeout \in Nat
  /\ Retention \in Nat /\ MaxTime \in Nat

Slots == 1..MaxEntries

(* CREATED, WAITING and DISPATCHING are passed through inside one call or  *)
(* never assigned; EXPIRED and UNAVAILABLE are never assigned.  "FREE" is  *)
(* a slot no enqueue has reached yet.                                      *)
Terminal == {"SUCCEEDED", "FAILED", "REJECTED", "CANCELLED", "TIMEOUT"}
States == Terminal \cup {"FREE", "QUEUED", "RUNNING"}

VARIABLES
  count,         \* svc->count: slots handed out, never decremented
  op,            \* the request each slot was filled with
  state,         \* entries[i].state
  active,        \* entries[i].active
  retries,       \* entries[i].retry_count
  since,         \* queued_time while QUEUED, start_time while RUNNING, then completion_time
  runningCount,  \* svc->running_count
  queuedCount,   \* svc->queued_count
  total,         \* svc->total_submitted, _succeeded, _failed, _cancelled, _timeouts
  now,           \* time(NULL)
  up,            \* external: targets whose component registry record is usable
  starts         \* history: how often the operation in the slot was started

entryVars == <<count, op, state, active, retries, since>>
vars == <<count, op, state, active, retries, since, runningCount,
          queuedCount, total, now, up, starts>>

Totals == {"submitted", "succeeded", "failed", "cancelled", "timeouts"}

Used == 1..count
Running == {i \in Slots : active[i] /\ state[i] = "RUNNING"}
Queued == {i \in Slots : active[i] /\ state[i] = "QUEUED"}
Finished == {i \in Slots : active[i] /\ state[i] \in Terminal}
Live == Queued \cup Running

(* Which pairs of actions exclude each other on one target.                *)
ActionsConflict(a, b) ==
  {a, b} \in {{"START", "STOP"}, {"PAUSE", "RESUME"}, {"ENABLE", "DISABLE"}}

Bump(key) == total' = [total EXCEPT ![key] = @ + 1]

-----------------------------------------------------------------------------
(* ozayn_oq_service_init: a zeroed table.                                  *)
Init ==
  /\ count = 0
  /\ op = [i \in Slots |-> CHOOSE r \in Requests : TRUE]
  /\ state = [i \in Slots |-> "FREE"]
  /\ active = [i \in Slots |-> FALSE]
  /\ retries = [i \in Slots |-> 0]
  /\ since = [i \in Slots |-> 0]
  /\ runningCount = 0 /\ queuedCount = 0
  /\ total = [k \in Totals |-> 0]
  /\ now = 0
  /\ up = Targets
  /\ starts = [i \in Slots |-> 0]

-----------------------------------------------------------------------------
QueueFull == count >= MaxEntries
RunningLimit_OffByOne == runningCount > MaxRunning \* mutant
RunningLimit == runningCount >= MaxRunning

WithinComponentLimit(r) ==
  MaxPerComponent > 0 =>
    Cardinality({i \in Live : op[i].target = r.target}) < MaxPerComponent

WithinRequesterLimit(r) ==
  MaxPerRequester > 0 =>
    Cardinality({i \in Live : op[i].by = r.by}) < MaxPerRequester

(* Only an idempotent call looks for its request id, among all active      *)
(* entries, finished ones included.                                        *)
IsReplay_LiveOnly(r) ==                            \* mutant: finished ones forgotten
  r.idempotent /\ \E i \in Live : op[i].id = r.id
IsReplay(r) ==
  r.idempotent /\ \E i \in Live \cup Finished : op[i].id = r.id

(* The new operation is compared with RUNNING ones only.                   *)
HasConflict(r) ==
  \E i \in Running : op[i].target = r.target /\ ActionsConflict(op[i].action, r.action)

(* ozayn_oq_enqueue, accepted.  A refused call leaves the entries as they  *)
(* are.  In mode WAIT a conflict only marks the entry, and nothing reads   *)
(* the mark.                                                               *)
Enqueue(r) ==
  /\ ~QueueFull
  /\ WithinComponentLimit(r)
  /\ WithinRequesterLimit(r)
  /\ ~IsReplay(r)
  /\ ~(HasConflict(r) /\ ConflictMode = "REJECT")
  /\ LET i == count + 1 IN
       /\ count' = i
       /\ op' = [op EXCEPT ![i] = r]
       /\ state' = [state EXCEPT ![i] = "QUEUED"]
       /\ active' = [active EXCEPT ![i] = TRUE]
       /\ since' = [since EXCEPT ![i] = now]
  /\ queuedCount' = queuedCount + 1
  /\ Bump("submitted")
  /\ UNCHANGED <<retries, runningCount, now, up, starts>>

-----------------------------------------------------------------------------
(* i is served before j: higher priority, then earlier queued_time, then   *)
(* earlier slot.                                                           *)
Precedes_LastOfEqual(i, j) ==                      \* mutant: queued_time <= oldest_time
  \/ op[i].priority > op[j].priority
  \/ /\ op[i].priority = op[j].priority
     /\ since[i] < since[j] \/ (since[i] = since[j] /\ i > j)
Precedes(i, j) ==
  \/ op[i].priority > op[j].priority
  \/ /\ op[i].priority = op[j].priority
     /\ \/ since[i] < since[j]
        \/ since[i] = since[j] /\ i < j

NextInLine(i) == i \in Queued /\ \A j \in Queued \ {i} : Precedes(i, j)

(* recheck_preconditions and recheck_authorization.                        *)
MayDispatch(i) == op[i].target \in up /\ AuthorizationOK

(* ozayn_oq_dequeue_next on an operation that may run:                     *)
(* QUEUED -> DISPATCHING -> RUNNING in one call.                           *)
Dispatch(i) ==
  /\ ~RunningLimit
  /\ NextInLine(i)
  /\ MayDispatch(i)
  /\ state' = [state EXCEPT ![i] = "RUNNING"]
  /\ since' = [since EXCEPT ![i] = now]
  /\ queuedCount' = queuedCount - 1
  /\ runningCount' = runningCount + 1
  /\ starts' = [starts EXCEPT ![i] = @ + 1]
  /\ UNCHANGED <<count, op, active, retries, total, now, up>>

(* ozayn_oq_dequeue_next when a recheck fails.                             *)
RejectAtDispatch(i) ==
  /\ ~RunningLimit
  /\ NextInLine(i)
  /\ ~MayDispatch(i)
  /\ state' = [state EXCEPT ![i] = "REJECTED"]
  /\ since' = [since EXCEPT ![i] = now]
  /\ queuedCount' = queuedCount - 1
  /\ UNCHANGED <<count, op, active, retries, runningCount, total, now, up, starts>>

(* ozayn_oq_complete and ozayn_oq_fail: the result of a RUNNING operation. *)
Report_Late(i, outcome, key) ==                    \* mutant: RUNNING is not required
  /\ i \in Live \cup Finished
  /\ state' = [state EXCEPT ![i] = outcome]
  /\ since' = [since EXCEPT ![i] = now]
  /\ runningCount' = runningCount - 1
  /\ Bump(key)
  /\ UNCHANGED <<count, op, active, retries, queuedCount, now, up, starts>>
Report(i, outcome, key) ==
  /\ i \in Running
  /\ state' = [state EXCEPT ![i] = outcome]
  /\ since' = [since EXCEPT ![i] = now]
  /\ runningCount' = runningCount - 1
  /\ Bump(key)
  /\ UNCHANGED <<count, op, active, retries, queuedCount, now, up, starts>>

Complete(i) == Report(i, "SUCCEEDED", "succeeded")
Fail(i) == Report(i, "FAILED", "failed")

(* ozayn_oq_cancel.  The code tests e->state = QUEUED after overwriting it *)
(* with CANCELLED, so queued_count keeps its value.                        *)
Cancel(i) ==
  /\ i \in Queued
  /\ state' = [state EXCEPT ![i] = "CANCELLED"]
  /\ since' = [since EXCEPT ![i] = now]
  /\ Bump("cancelled")
  /\ UNCHANGED <<count, op, active, retries, runningCount, queuedCount, now, up, starts>>

(* ozayn_oq_retry: a FAILED operation goes back to QUEUED; queued_count is *)
(* not incremented.                                                        *)
Retry(i) ==
  /\ i \in Finished /\ state[i] = "FAILED"
  /\ retries[i] < op[i].maxRetries
  /\ retries' = [retries EXCEPT ![i] = @ + 1]
  /\ state' = [state EXCEPT ![i] = "QUEUED"]
  /\ since' = [since EXCEPT ![i] = now]
  /\ UNCHANGED <<count, op, active, runningCount, queuedCount, total, now, up, starts>>

-----------------------------------------------------------------------------
OverdueQueued == {i \in Queued : QueueTimeout > 0 /\ now - since[i] > QueueTimeout}
OverdueRunning == {i \in Running : ExecTimeout > 0 /\ now - since[i] > ExecTimeout}

(* ozayn_oq_check_timeouts: one sweep over the table.                      *)
CheckTimeouts ==
  LET late == OverdueQueued \cup OverdueRunning IN
    /\ late # {}
    /\ state' = [i \in Slots |-> IF i \in late THEN "TIMEOUT" ELSE state[i]]
    /\ since' = [i \in Slots |-> IF i \in late THEN now ELSE since[i]]
    /\ queuedCount' = queuedCount - Cardinality(OverdueQueued)
    /\ runningCount' = runningCount - Cardinality(OverdueRunning)
    /\ total' = [total EXCEPT !["timeouts"] = @ + Cardinality(late)]
    /\ UNCHANGED <<count, op, active, retries, now, up, starts>>

Retire(gone) ==
  /\ gone # {}
  /\ active' = [i \in Slots |-> active[i] /\ i \notin gone]
  /\ UNCHANGED <<count, op, state, retries, since, total, now, up, starts>>

(* ozayn_oq_check_expired and ozayn_oq_cleanup_completed retire finished   *)
(* entries: the old ones, or all of them.                                  *)
CheckExpired ==
  /\ Retire({i \in Finished : now - since[i] > Retention})
  /\ UNCHANGED <<runningCount, queuedCount>>

CleanupCompleted == Retire(Finished) /\ UNCHANGED <<runningCount, queuedCount>>

(* ozayn_oq_cleanup_all retires every entry and zeroes both counters, but  *)
(* not count.                                                              *)
CleanupAll_KeepsCounters ==                        \* mutant
  Retire(Live \cup Finished) /\ UNCHANGED <<runningCount, queuedCount>>
CleanupAll ==
  /\ Retire(Live \cup Finished)
  /\ runningCount' = 0 /\ queuedCount' = 0

-----------------------------------------------------------------------------
Tick ==
  /\ now < MaxTime
  /\ now' = now + 1
  /\ UNCHANGED <<entryVars, runningCount, queuedCount, total, up, starts>>

(* External: a target's registry record becomes usable or unusable.        *)
SetAvailability(t) ==
  /\ up' = IF t \in up THEN up \ {t} ELSE up \cup {t}
  /\ UNCHANGED <<entryVars, runningCount, queuedCount, total, now, starts>>

Next ==
  \/ \E r \in Requests : Enqueue(r)
  \/ \E i \in Slots :
       \/ Dispatch(i)
       \/ RejectAtDispatch(i)
       \/ Complete(i)
       \/ Fail(i)
       \/ Cancel(i)
       \/ Retry(i)
  \/ CheckTimeouts
  \/ CheckExpired
  \/ CleanupCompleted
  \/ CleanupAll
  \/ Tick
  \/ \E t \in Targets : SetAvailability(t)

Spec == Init /\ [][Next]_vars

-----------------------------------------------------------------------------
(* Every variable keeps its C type and range; queued_count is a signed     *)
(* int and does go below zero (see QueuedCountExact).                      *)
TypeOK ==
  /\ count \in 0..MaxEntries
  /\ op \in [Slots -> Requests]
  /\ state \in [Slots -> States]
  /\ active \in [Slots -> BOOLEAN]
  /\ retries \in [Slots -> Nat]
  /\ since \in [Slots -> 0..MaxTime]
  /\ runningCount \in Int /\ queuedCount \in Int
  /\ total \in [Totals -> Nat]
  /\ now \in 0..MaxTime
  /\ up \in SUBSET Targets
  /\ starts \in [Slots -> Nat]

(* running_count, which throttles dequeue, is the number of operations     *)
(* that really run, across reports, timeouts sweeping several operations   *)
(* at once and cleanups that drop running ones; so the concurrency limit   *)
(* holds for the operations and not just for the counter.                  *)
RunningCountExact ==
  /\ runningCount = Cardinality(Running)
  /\ Cardinality(Running) <= MaxRunning

(* An operation is started at most once per admission: a fresh operation   *)
(* once, and once more for each retry, however reports, timeouts, cleanups *)
(* and retries interleave.                                                 *)
StartsBounded ==
  \A i \in Slots :
    /\ starts[i] <= retries[i] + 1
    /\ retries[i] <= op[i].maxRetries

(* An idempotent request is never admitted while an entry with its request *)
(* id is still held, so a held entry that shares its id with an earlier    *)
(* held one came from a call that did not ask for idempotency.             *)
IdempotentOnce ==
  \A i, j \in Live \cup Finished :
    i < j /\ op[i].id = op[j].id => ~op[j].idempotent

(* max_per_component bounds the operations that never were retried; only   *)
(* ozayn_oq_retry, which does not check the limit, can exceed it.          *)
FirstAttemptLoadBounded ==
  MaxPerComponent > 0 =>
    \A t \in Targets :
      Cardinality({i \in Live : op[i].target = t /\ retries[i] = 0}) <= MaxPerComponent

(* The statistics account for every submission: each one is still held     *)
(* unfinished, was dropped unfinished by cleanup_all, or is in exactly one *)
(* of the totals; total_failed counts failed attempts, not operations.     *)
TotalsAccount ==
  LET In(S) == Cardinality({i \in Slots : state[i] \in S}) IN
    /\ total["submitted"] = In(States \ {"FREE"})
    /\ total["succeeded"] = In({"SUCCEEDED"})
    /\ total["cancelled"] = In({"CANCELLED"})
    /\ total["timeouts"] = In({"TIMEOUT"})
    /\ total["failed"] >= In({"FAILED"})

(* The counters and the starts together, the parts TLAPS proves            *)
(* (OperationQueueProofs).                                                 *)
QueueSafe == TypeOK /\ RunningCountExact /\ StartsBounded

(* What enqueue let in stays within what it promised while the operations  *)
(* are retried, time out and are cleaned up, and the totals account for    *)
(* all of it.                                                              *)
AdmissionHolds == IdempotentOnce /\ FirstAttemptLoadBounded /\ TotalsAccount

(* A result that comes after a timeout, a cancellation or another result   *)
(* changes nothing: a terminal state is left only by retrying a FAILED     *)
(* operation that is still held.                                           *)
TerminalStays ==
  [][\A i \in Slots :
       state[i] \in Terminal =>
         \/ state'[i] = state[i]
         \/ state[i] = "FAILED" /\ state'[i] = "QUEUED" /\ active[i]]_vars

(* README 04, Step 05 "Fairness": among first attempts of one priority the *)
(* operation submitted first is started first, whatever is cancelled,      *)
(* retried or timed out meanwhile; and a lower priority never overtakes.   *)
FifoWithinPriority ==
  [][\A i, j \in Slots :
       /\ i \in Queued /\ i \in Running'
       /\ j \in Queued \ {i}
       => /\ op[j].priority <= op[i].priority
          /\ op[j].priority = op[i].priority /\ retries[i] = 0 /\ retries[j] = 0
               => i < j]_vars

(* The queue implements the pool: at most MaxRunning operations run, each  *)
(* was admitted once and waited before it started, and a forgotten one     *)
(* never returns.                                                          *)
Pool == INSTANCE OperationPool
          WITH Ops <- Slots, Limit <- MaxRunning, admitted <- Used,
               waiting <- Queued, running <- Running, settled <- Finished
ImplementsPool == Pool!PoolSpec

-----------------------------------------------------------------------------
(* queued_count is the number of QUEUED operations, as                     *)
(* tests/test_operation_queue.c:925 expects after enqueue and dequeue.     *)
(* Cancel and retry break it.                                              *)
QueuedCountExact == queuedCount = Cardinality(Queued)

(* README 04, Step 05 "Conflict Modes": WAIT delays a conflicting          *)
(* operation, so START and STOP never run on one target together.          *)
ConflictingNeverTogether ==
  \A i, j \in Running :
    op[i].target = op[j].target => ~ActionsConflict(op[i].action, op[j].action)

(* README 04, Step 05 "Cleanup" and "Expiration": cleaning an entry up     *)
(* gives its place back, so a queue that holds nothing is not full.        *)
CleanupFreesSpace == Live \cup Finished = {} => ~QueueFull

=============================================================================
