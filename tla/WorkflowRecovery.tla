-------------------------- MODULE WorkflowRecovery --------------------------
(***************************************************************************)
(* The persistent recovery state of workflows (04_CONTROL_ROOM/            *)
(* workflow_checkpoint.c): checkpoints with a state machine, what a        *)
(* restart makes of them, the reconciliation of a workflow with its latest *)
(* checkpoint, and the tick that retires and expires.                      *)
(*                                                                         *)
(* No operation frees a checkpoint but cleanup_all, so slots fill in the   *)
(* order of the sequence numbers: the table is a sequence.  What a         *)
(* checkpoint says of its workflow is left out.  The restart is the call   *)
(* ozayn_prs_detect_restart: the table is memory, the call is made on a    *)
(* service that still has it.                                              *)
(***************************************************************************)
EXTENDS Integers, Sequences, FiniteSets

CONSTANTS
  Workflows,      \* workflow ids
  MaxCheckpoints, \* OZAYN_PRS_MAX_CHECKPOINTS
  PerWorkflow,    \* config.max_checkpoints_per_workflow
  CheckpointAge   \* config.max_checkpoint_age_seconds

ASSUME CheckpointAssumption ==
  MaxCheckpoints \in Nat /\ PerWorkflow \in Nat \ {0} /\ CheckpointAge \in Nat \ {0}

VARIABLES
  checkpoints,     \* in the order of their sequence numbers
  reconciliations  \* the checkpoint the reconciliation of each workflow names, 0 for none

checkpointVars == <<checkpoints, reconciliations>>

FinalStates == {"SUPERSEDED", "INVALID", "RECOVERED"}   \* _is_checkpoint_terminal
CpStates == {"CREATED", "VALIDATING", "COMMITTED", "RECOVERY_REQUIRED", "EXPIRED"} \cup FinalStates

Valid == {"COMMITTED", "RECOVERY_REQUIRED"}             \* what a workflow can be recovered from

CpOf(w) == {n \in DOMAIN checkpoints : checkpoints[n].workflow = w}
InState(w, states) == {n \in CpOf(w) : checkpoints[n].state \in states}

(* ozayn_prs_checkpoint_get_latest_valid: 0 for NULL.                      *)
LatestValid(w) ==
  LET valid == InState(w, Valid)
  IN CHOOSE n \in valid \cup {0} : \A m \in valid : m <= n

CheckpointInit == checkpoints = <<>> /\ reconciliations = [w \in Workflows |-> 0]

(* ozayn_prs_checkpoint_create, _validate, _commit, _supersede,            *)
(* _invalidate and _mark_recovered.  A commit leaves the checkpoints       *)
(* before it as they are.  `commit' is history: not yet, or before or     *)
(* after the reconciliation its workflow has.                              *)
HasRoom == Len(checkpoints) < MaxCheckpoints
CreateCheckpoint(w) ==
  /\ HasRoom
  /\ checkpoints' = Append(checkpoints, [workflow |-> w, state |-> "CREATED", age |-> 0, commit |-> "NO"])
  /\ UNCHANGED reconciliations
CpMoves ==
  {<<"CREATED", "VALIDATING">>, <<"VALIDATING", "COMMITTED">>, <<"COMMITTED", "SUPERSEDED">>,
   <<"COMMITTED", "RECOVERED">>, <<"RECOVERY_REQUIRED", "RECOVERED">>}
  \cup ((CpStates \ FinalStates) \X {"INVALID"})
CommitOf(n, to) ==
  IF to # "COMMITTED" THEN checkpoints[n].commit
  ELSE IF reconciliations[checkpoints[n].workflow] = 0 THEN "BEFORE" ELSE "AFTER"
MoveCheckpoint(n, to) ==
  /\ <<checkpoints[n].state, to>> \in CpMoves
  /\ checkpoints' = [checkpoints EXCEPT ![n].state = to, ![n].commit = CommitOf(n, to)]
  /\ UNCHANGED reconciliations

(* ozayn_prs_detect_restart.                                               *)
Interrupted_Retired == {"COMMITTED", "SUPERSEDED"}      \* mutant: takes up what was superseded
Interrupted == {"COMMITTED"}
DetectRestart ==
  /\ checkpoints' = [n \in DOMAIN checkpoints |->
       IF checkpoints[n].state \in Interrupted
       THEN [checkpoints[n] EXCEPT !.state = "RECOVERY_REQUIRED"] ELSE checkpoints[n]]
  /\ UNCHANGED reconciliations

(* ozayn_prs_reconcile_workflow: a workflow that has a reconciliation is   *)
(* given that one, whatever became of its checkpoints since.               *)
Reconcilable_First(w) ==      \* mutant: the first valid one in the table, not the newest
  LET valid == InState(w, Valid)
  IN CHOOSE n \in (IF valid = {} THEN {0} ELSE valid) : \A m \in valid : n <= m
Reconcilable(w) == LatestValid(w)
Reconcile(w) ==
  /\ reconciliations[w] = 0 /\ Reconcilable(w) # 0
  /\ reconciliations' = [reconciliations EXCEPT ![w] = Reconcilable(w)]
  /\ UNCHANGED checkpoints

(* ozayn_prs_retention_enforce visits every checkpoint of a workflow that  *)
(* has more than its limit and supersedes one that is COMMITTED for each:  *)
(* the count it goes by takes no state into account and never falls, so    *)
(* none is left.  ozayn_prs_cleanup_expired_checkpoints goes by the age.   *)
(* ozayn_prs_tick does the one and then the other.                         *)
Retired(w) == IF Cardinality(CpOf(w)) > PerWorkflow THEN InState(w, {"COMMITTED"}) ELSE {}
AgedOut(cp) == cp.age > CheckpointAge /\ cp.state = "COMMITTED"
Swept(n, retain, expire) ==
  CASE retain /\ n \in Retired(checkpoints[n].workflow) -> "SUPERSEDED"
    [] ~(retain /\ n \in Retired(checkpoints[n].workflow)) /\ expire /\ AgedOut(checkpoints[n]) -> "EXPIRED"
    [] OTHER -> checkpoints[n].state
Sweep(retain, expire) ==
  /\ checkpoints' = [n \in DOMAIN checkpoints |->
       [checkpoints[n] EXCEPT !.state = Swept(n, retain, expire)]]
  /\ UNCHANGED reconciliations
RetentionEnforce == Sweep(TRUE, FALSE)
CleanupExpiredCheckpoints == Sweep(FALSE, TRUE)
CheckpointTick == Sweep(TRUE, TRUE)

(* ozayn_prs_cleanup_all.                                                  *)
CleanupCheckpoints == checkpoints' = <<>> /\ reconciliations' = [w \in Workflows |-> 0]

CheckpointElapse ==
  /\ \E n \in DOMAIN checkpoints : checkpoints[n].age <= CheckpointAge
  /\ checkpoints' = [n \in DOMAIN checkpoints |->
       [checkpoints[n] EXCEPT !.age = IF @ <= CheckpointAge THEN @ + 1 ELSE @]]
  /\ UNCHANGED reconciliations

CheckpointNext ==
  \/ \E w \in Workflows : CreateCheckpoint(w) \/ Reconcile(w)
  \/ \E n \in DOMAIN checkpoints : \E to \in CpStates : MoveCheckpoint(n, to)
  \/ DetectRestart \/ CheckpointTick \/ RetentionEnforce \/ CleanupExpiredCheckpoints
  \/ CleanupCheckpoints \/ CheckpointElapse

(***************************************************************************)
(* Properties.                                                             *)
(***************************************************************************)

CheckpointTypeOK ==
  /\ checkpoints \in Seq([workflow : Workflows, state : CpStates, age : 0..CheckpointAge + 1,
                          commit : {"NO", "BEFORE", "AFTER"}])
  /\ Len(checkpoints) <= MaxCheckpoints
  /\ reconciliations \in [Workflows -> 0..MaxCheckpoints]

(* The checkpoint a reconciliation names is its workflow's own, was        *)
(* committed before the reconciliation was made, and was the newest valid  *)
(* one then: a newer one that is valid now was committed since.  So        *)
(* nothing the reconciliation passed over, not yet committed or withdrawn, *)
(* is later found to have been the better one                              *)
(* (ozayn_prs_reconcile_workflow, ozayn_prs_checkpoint_get_latest_valid).  *)
ReconciledFromCommitted ==
  \A w \in Workflows : reconciliations[w] # 0 =>
    /\ reconciliations[w] \in CpOf(w)
    /\ checkpoints[reconciliations[w]].commit = "BEFORE"
    /\ \A n \in InState(w, Valid) : n > reconciliations[w] => checkpoints[n].commit = "AFTER"

(* A checkpoint that was committed and then superseded, expired, found     *)
(* invalid or recovered from is never valid again, through restarts and    *)
(* ticks, and no new reconciliation names it; a restart leaves each        *)
(* workflow the checkpoint it would have been recovered from before; and   *)
(* one a restart left for recovery waits for it: neither its age nor the   *)
(* retention takes it, only a call that names it                           *)
(* (ozayn_prs_detect_restart, ozayn_prs_retention_enforce,                 *)
(* ozayn_prs_cleanup_expired_checkpoints).  The reconciliation a workflow  *)
(* has already is given out again whatever became of its checkpoint        *)
(* (ozayn_prs_reconcile_workflow): of that nothing is claimed.             *)
Withdrawn(n) == checkpoints[n].commit # "NO" /\ checkpoints[n].state \notin Valid
ReconciledTo(n) == \E w \in Workflows : reconciliations[w] # n /\ reconciliations'[w] = n
Waits(n) == n \in DOMAIN checkpoints /\ checkpoints[n].state = "RECOVERY_REQUIRED"
CheckpointsKept ==
  [][/\ \A n \in DOMAIN checkpoints :
          Withdrawn(n) => CleanupCheckpoints \/ (Withdrawn(n)' /\ ~ReconciledTo(n))
     /\ checkpoints # <<>> /\ DetectRestart => \A w \in Workflows : LatestValid(w)' = LatestValid(w)
     /\ \A n \in DOMAIN checkpoints :
          Waits(n) /\ ~Waits(n)' => ~(CheckpointTick \/ RetentionEnforce \/ CleanupExpiredCheckpoints)
    ]_checkpointVars

(* What the comments of the retention say and its loop does not do: the    *)
(* limit takes the oldest checkpoints of a workflow, so the newest valid   *)
(* one is kept.                                                            *)
RetentionKeepsNewest ==
  [][CheckpointTick => \A w \in Workflows :
       LatestValid(w) # 0 => checkpoints'[LatestValid(w)].state # "SUPERSEDED"]_checkpointVars

-----------------------------------------------------------------------------
(***************************************************************************)
(* The failures of workflows and the decisions to recover from them        *)
(* (04_CONTROL_ROOM/workflow_recovery.c).  Both tables give a record the   *)
(* id of its slot ("WFR-FAIL-%d"), so that an id comes back with the slot: *)
(* `serial' and `about' tell in the model which failure a decision was     *)
(* made about, and `effect' is the last failure it changed, 0 for none.    *)
(* A decision can be carried out any number of times, on its failure or on *)
(* whichever has its slot: it is freed by cleanup_all or by the tick that  *)
(* finds it past its expiration, and nothing else asks about that.         *)
(***************************************************************************)

CONSTANTS
  FailureSlots,    \* OZAYN_WFR_MAX_FAILURES of them
  DecisionSlots,   \* OZAYN_WFR_MAX_RECOVERY_RECORDS of them
  EscalationLife,  \* OZAYN_WFR_DEFAULT_RECOVERY_TIMEOUT_MS
  MaxSerial        \* a bound of the model: failures recorded

ASSUME FailureAssumption == EscalationLife \in Nat /\ MaxSerial \in Nat

VARIABLES failures, decisions, serial

failureVars == <<failures, decisions, serial>>

Categories == {"TIMEOUT", "SECURITY", "INTERNAL"}   \* DEPENDENCY is as TIMEOUT,
                                                    \* AUTHORIZATION and SAFETY as SECURITY
FsStates == {"DETECTED", "CLASSIFIED", "ASSESSING", "CONTAINING", "RECOVERING", "RECOVERED",
  "PARTIALLY_RECOVERED", "UNRECOVERABLE", "ESCALATED", "ACKNOWLEDGED", "CLOSED"}
FsTerminal == {"RECOVERED", "PARTIALLY_RECOVERED", "UNRECOVERABLE", "ACKNOWLEDGED", "CLOSED"}

(* _init_failure_transitions, by the states a state is entered from.       *)
EnteredFrom ==
  [CLASSIFIED |-> {"DETECTED"}, ASSESSING |-> {"CLASSIFIED"},
   CONTAINING |-> {"CLASSIFIED", "ASSESSING"}, RECOVERING |-> {"ASSESSING", "CONTAINING"},
   RECOVERED |-> {"ASSESSING", "RECOVERING"}, PARTIALLY_RECOVERED |-> {"ASSESSING", "RECOVERING"},
   UNRECOVERABLE |-> {"ASSESSING", "CONTAINING", "RECOVERING"},
   ESCALATED |-> {"ASSESSING", "CONTAINING", "RECOVERING", "UNRECOVERABLE"},
   ACKNOWLEDGED |-> FsStates \ {"DETECTED", "CONTAINING", "ACKNOWLEDGED", "CLOSED"},
   CLOSED |-> FsStates \ {"CLOSED"}]
Enters(s, to) == IF s \in EnteredFrom[to] THEN to ELSE s   \* _failure_transition, refusals ignored

(* What a decision makes of the failure, in ozayn_wfr_execute_recovery.    *)
Outcome ==
  [RETRY |-> "RECOVERING", COMPENSATE |-> "RECOVERING", CONTINUE |-> "RECOVERED",
   CANCEL |-> "UNRECOVERABLE", PARTIAL_CONTINUE |-> "PARTIALLY_RECOVERED", ESCALATE |-> "ESCALATED"]
Kinds == DOMAIN Outcome    \* FAIL_WORKFLOW and UNAVAILABLE are as CANCEL; PAUSE does nothing

None == [state |-> "NONE"]
Failures == {f \in FailureSlots : failures[f] # None}
Decisions == {d \in DecisionSlots : decisions[d] # None}
Becomes(f, s) == failures' = [failures EXCEPT ![f].state = s]

FailureInit ==
  /\ failures = [f \in FailureSlots |-> None] /\ decisions = [d \in DecisionSlots |-> None]
  /\ serial = 0

(* ozayn_wfr_record_failure and ozayn_wfr_classify_failure.                *)
RecordFault(f, c, critical) ==
  /\ f \notin Failures /\ serial < MaxSerial
  /\ serial' = serial + 1
  /\ failures' = [failures EXCEPT ![f] =
       [state |-> "DETECTED", category |-> c, critical |-> critical, age |-> 0, serial |-> serial + 1]]
  /\ UNCHANGED decisions
ClassifyFault(f, c, critical) ==
  /\ failures[f].state = "DETECTED"
  /\ failures' = [failures EXCEPT ![f].state = "CLASSIFIED", ![f].category = c, ![f].critical = critical]
  /\ UNCHANGED <<decisions, serial>>

(* ozayn_wfr_close_failure and ozayn_wfr_acknowledge_failure refuse what   *)
(* is terminal, ozayn_wfr_contain_failure does nothing to it.              *)
Settles_Any(f, to) == failures[f].state \in EnteredFrom[to]        \* mutant: the table alone
Settles(f, to) == failures[f].state \notin FsTerminal /\ failures[f].state \in EnteredFrom[to]
Settle(f, to) ==
  /\ Settles(f, to) /\ Becomes(f, to)
  /\ UNCHANGED <<decisions, serial>>
ContainFault(f) ==
  /\ failures[f].state \in {"DETECTED", "CLASSIFIED", "ASSESSING"}
  /\ Becomes(f, "CONTAINING")
  /\ UNCHANGED <<decisions, serial>>

(* ozayn_wfr_make_recovery_decision, on a failure in any state, and        *)
(* ozayn_wfr_authorize_recovery, which gives one or both references.       *)
Decide(f, d, kind, life) ==
  /\ f \in Failures /\ d \notin Decisions
  /\ decisions' = [decisions EXCEPT ![d] =
       [failure |-> f, kind |-> kind, authorized |-> FALSE, safe |-> FALSE, life |-> life,
        effect |-> 0, about |-> failures[f].serial]]
  /\ Becomes(f, Enters(Enters(failures[f].state, "CLASSIFIED"), "ASSESSING"))
  /\ UNCHANGED serial
AuthorizeDecision(d, flags) ==
  /\ d \in Decisions
  /\ decisions' = [decisions EXCEPT ![d].authorized = @ \/ "auth" \in flags,
                                    ![d].safe = @ \/ "safety" \in flags]
  /\ UNCHANGED <<failures, serial>>

(* ozayn_wfr_execute_recovery: of the decision, whether it is still there. *)
ExecuteDecision(d) ==
  /\ d \in Decisions /\ decisions[d].failure \in Failures
  /\ UNCHANGED serial
  /\ LET f == decisions[d].failure
         s == Enters(failures[f].state, Outcome[decisions[d].kind])
     IN /\ Becomes(f, s)
        /\ decisions' = [decisions EXCEPT ![d].effect =
             IF s # failures[f].state THEN failures[f].serial ELSE @]

(* ozayn_wfr_execute_retry and ozayn_wfr_execute_compensation: the first   *)
(* looks for a decision, any there is, and at the category; the second for *)
(* nothing.                                                                *)
Redo(f, compensation) ==
  /\ f \in Failures
  /\ compensation \/ (Decisions # {} /\ failures[f].category # "SECURITY")
  /\ Becomes(f, Enters(failures[f].state, "RECOVERING"))
  /\ UNCHANGED <<decisions, serial>>

(* ozayn_wfr_tick.                                                         *)
Recovering(r) ==
  IF r.critical \/ r.category = "INTERNAL" THEN "ESCALATED"
  ELSE IF r.category = "TIMEOUT" THEN "RECOVERED" ELSE "RECOVERING"
Ticked(r) ==
  LET s == CASE r.state \in {"DETECTED", "CLASSIFIED"} -> "ASSESSING"
             [] r.state = "RECOVERING" -> Recovering(r)
             [] OTHER -> r.state
  IN [r EXCEPT !.state = IF s = "ESCALATED" /\ r.age > EscalationLife THEN "CLOSED" ELSE s]
RecoveryTick ==
  /\ failures' = [f \in FailureSlots |-> IF f \in Failures THEN Ticked(failures[f]) ELSE None]
  /\ decisions' = [d \in DecisionSlots |->
       IF d \in Decisions /\ decisions[d].life = "OVER" THEN None ELSE decisions[d]]
  /\ UNCHANGED serial

(* ozayn_wfr_cleanup_closed frees what is CLOSED, where of the terminal    *)
(* states only UNRECOVERABLE ever leads; ozayn_wfr_cleanup_all frees all   *)
(* there is.                                                               *)
CleanupFaults ==
  /\ failures' = [f \in FailureSlots |-> IF failures[f].state = "CLOSED" THEN None ELSE failures[f]]
  /\ UNCHANGED <<decisions, serial>>
CleanupRecovery ==
  /\ failures' = [f \in FailureSlots |-> None] /\ decisions' = [d \in DecisionSlots |-> None]
  /\ UNCHANGED serial

FailureElapse ==
  /\ failures' = [f \in FailureSlots |-> IF f \in Failures /\ failures[f].age <= EscalationLife
                    THEN [failures[f] EXCEPT !.age = @ + 1] ELSE failures[f]]
  /\ decisions' = [d \in DecisionSlots |-> IF d \in Decisions /\ decisions[d].life = "LIMITED"
                     THEN [decisions[d] EXCEPT !.life = "OVER"] ELSE decisions[d]]
  /\ UNCHANGED serial

FailureNext ==
  \/ \E f \in FailureSlots :
       \/ \E c \in Categories, critical \in BOOLEAN :
            ClassifyFault(f, c, critical) \/ RecordFault(f, c, critical)
       \/ \E to \in {"CLOSED", "ACKNOWLEDGED"} : Settle(f, to)
       \/ ContainFault(f) \/ \E compensation \in BOOLEAN : Redo(f, compensation)
       \/ \E d \in DecisionSlots, kind \in Kinds, life \in {"FOREVER", "LIMITED"} : Decide(f, d, kind, life)
  \/ \E d \in DecisionSlots :
       ExecuteDecision(d) \/ \E flags \in SUBSET {"auth", "safety"} : AuthorizeDecision(d, flags)
  \/ RecoveryTick \/ CleanupFaults \/ CleanupRecovery \/ FailureElapse

(***************************************************************************)
(* Properties.                                                             *)
(***************************************************************************)

FailureTypeOK ==
  /\ failures \in [FailureSlots -> {None} \cup [state : FsStates, category : Categories,
        critical : BOOLEAN, age : 0..EscalationLife + 1, serial : 1..MaxSerial]]
  /\ decisions \in [DecisionSlots -> {None} \cup [failure : FailureSlots, kind : Kinds,
        authorized : BOOLEAN, safe : BOOLEAN, life : {"FOREVER", "LIMITED", "OVER"},
        effect : 0..MaxSerial, about : 1..MaxSerial]]
  /\ serial \in 0..MaxSerial

(* A failure that was recovered from, or acknowledged, is done with: no    *)
(* decision left over, retry, compensation, containment or tick takes it   *)
(* up again, in whatever order they come; it stays as it is until all are  *)
(* cleaned up (_is_failure_terminal, ozayn_wfr_cleanup_all; an             *)
(* UNRECOVERABLE one may still be escalated).  The tick, which does        *)
(* recover timeouts by itself, never does so with a critical failure: that *)
(* is escalated (ozayn_wfr_tick).  And a decision changes a failure once:  *)
(* carried out again, whatever happened between, it leaves the failure     *)
(* where that brought it (ozayn_wfr_execute_recovery, which does not ask   *)
(* whether it has been carried out).                                       *)
RecoveryHonest ==
  [][/\ \A f \in Failures :
          /\ failures[f].state \in {"RECOVERED", "PARTIALLY_RECOVERED", "ACKNOWLEDGED"}
               => CleanupRecovery \/ failures'[f].state = failures[f].state
          /\ RecoveryTick /\ failures[f].critical /\ failures[f].state = "RECOVERING"
               => failures'[f].state \in {"ESCALATED", "CLOSED"}
     /\ \A d \in Decisions : ExecuteDecision(d) /\ failures' # failures
          => decisions[d].effect # failures[decisions[d].failure].serial]_failureVars

(* What the README says, that recovery does not override authorization or  *)
(* bypass safety controls, and ozayn_wfr_execute_recovery does not ask:    *)
(* a decision is carried out only with both references.                    *)
RecoversOnlyAuthorized ==
  [][\A d \in Decisions : ExecuteDecision(d) /\ failures' # failures
       => decisions[d].authorized /\ decisions[d].safe]_failureVars

(* The same for the record it names: a decision acts on the failure it was *)
(* made about, not on one that got its slot.                               *)
DecisionActsOnItsOwn ==
  [][\A d \in Decisions : ExecuteDecision(d) /\ failures' # failures
       => failures[decisions[d].failure].serial = decisions[d].about]_failureVars
=============================================================================
