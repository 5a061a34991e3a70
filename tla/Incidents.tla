----------------------------- MODULE Incidents ------------------------------
(***************************************************************************)
(* Incident response (03_SECURITY/incident.c) over the identity service:   *)
(* a table of incidents that only grows, each with its own state machine,  *)
(* a compromise level computed from all of them and kept, and a lockdown   *)
(* that a number of critical incidents enters by itself.                   *)
(*                                                                         *)
(* The policy is set before the first report.  Two reports of one matter   *)
(* within dedup_window_seconds are one incident: time is left out, and a   *)
(* second report may or may not be refused for it.                         *)
(***************************************************************************)
EXTENDS Identities, Sequences, Integers

CONSTANTS
  Suspects,         \* the identities reports name
  MaxIncidents,     \* policy.max_incidents
  LockdownThreshold \* policy.lockdown_threshold

ASSUME IncidentAssumption ==
  /\ Suspects \subseteq Ids /\ MaxIncidents \in Nat
  /\ LockdownThreshold \in Nat \ {0}

VARIABLES
  incidents, \* in the order of their reports
  lockdown,  \* lockdown_active
  level      \* compromise_level, as last computed

incidentVars == <<incidents, lockdown, level>>

Severities == {"LOW", "HIGH", "CRITICAL"}    \* INFO to MEDIUM behave as LOW
IncidentStates == {"DETECTED", "CLASSIFIED", "CONTAINMENT_REQUIRED", "CONTAINING",
  "CONTAINED", "RECOVERY_REQUIRED", "RECOVERING", "VERIFIED", "RESOLVED", "RECOVERY_FAILED"}
Containments == {"NONE", "SUSPEND_IDENTITY", "REVOKE_IDENTITY", "ENTER_LOCKDOWN"}

(* ozayn_ir_state_transition_valid                                         *)
IncidentMoves ==
  {<<"DETECTED", "CLASSIFIED">>,
   <<"CLASSIFIED", "CONTAINMENT_REQUIRED">>, <<"CLASSIFIED", "RECOVERY_REQUIRED">>,
   <<"CONTAINMENT_REQUIRED", "CONTAINING">>, <<"CONTAINING", "CONTAINED">>,
   <<"CONTAINING", "RECOVERY_FAILED">>, <<"CONTAINED", "RECOVERY_REQUIRED">>,
   <<"RECOVERY_REQUIRED", "RECOVERING">>, <<"RECOVERING", "VERIFIED">>,
   <<"RECOVERING", "RECOVERY_FAILED">>, <<"VERIFIED", "RESOLVED">>}

Open(table) == {n \in DOMAIN table : table[n].state # "RESOLVED"}
OfSeverity(table, s) == {n \in Open(table) : table[n].severity = s}

IncidentInit == incidents = <<>> /\ lockdown = FALSE /\ level = "NORMAL"

(* _update_compromise_level: the level of a table, and the lockdown that   *)
(* enough critical incidents enter.                                        *)
Locked(table, held) == held \/ Cardinality(OfSeverity(table, "CRITICAL")) >= LockdownThreshold
LevelOf(table, held) ==
  CASE held -> "LOCKDOWN"
    [] ~held /\ OfSeverity(table, "CRITICAL") # {} -> "CONTAINMENT_REQUIRED"
    [] ~held /\ OfSeverity(table, "CRITICAL") = {} /\ OfSeverity(table, "HIGH") # {} -> "SUSPICIOUS"
    [] OTHER -> IF Open(table) # {} THEN "DEGRADED" ELSE "NORMAL"
UpdateLevel(table, held) ==
  /\ incidents' = table
  /\ lockdown' = Locked(table, held)
  /\ level' = LevelOf(table, lockdown')

Report(i, s) ==
  /\ Len(incidents) < MaxIncidents /\ identity[i] # "UNUSED"
  /\ UpdateLevel(Append(incidents, [state |-> "DETECTED", severity |-> s, of |-> i,
                                    action |-> "NONE"]), lockdown)
  /\ UNCHANGED identityVars

Classify(n, s) ==
  /\ incidents[n].state = "DETECTED"
  /\ UpdateLevel([incidents EXCEPT ![n].state = "CLASSIFIED", ![n].severity = s], lockdown)
  /\ UNCHANGED identityVars

(* ozayn_ir_update_state, and ozayn_ir_resolve, which is one of its moves. *)
UpdateState(n, to) ==
  /\ <<incidents[n].state, to>> \in IncidentMoves
  /\ UpdateLevel([incidents EXCEPT ![n].state = to], lockdown)
  /\ UNCHANGED identityVars

(* ozayn_ir_recover: RECOVERING, and VERIFIED at once.                     *)
Recover(n) ==
  /\ incidents[n].state \in {"RECOVERY_REQUIRED", "CONTAINED"}
  /\ UpdateLevel([incidents EXCEPT ![n].state = "VERIFIED"], lockdown)
  /\ UNCHANGED identityVars

(* ozayn_ir_contain, from every state but RESOLVED.  What the identity     *)
(* service answers decides: OK or NOT_FOUND contain, and any other error,  *)
(* that of its vault included, fails.                                      *)
ContainAs(n, a, ok) ==
  LET held == lockdown \/ a = "ENTER_LOCKDOWN"
      inc  == [incidents[n] EXCEPT !.action = a]
  IN  IF ok
      THEN UpdateLevel([incidents EXCEPT ![n] = [inc EXCEPT !.state = "CONTAINED"]], held)
      ELSE /\ incidents' = [incidents EXCEPT ![n] = [inc EXCEPT !.state = "RECOVERY_FAILED"]]
           /\ UNCHANGED <<lockdown, level>>

ContainIdentity(n, a, to) ==
  LET i == incidents[n].of
  IN \/ MoveIdentity(i, to) /\ ContainAs(n, a, vault'[i] = to)
     \/ i \notin Known /\ ContainAs(n, a, TRUE) /\ UNCHANGED identityVars
     \/ /\ i \in Known /\ <<identity[i], to>> \notin IdentityMoves
        /\ ContainAs(n, a, FALSE) /\ UNCHANGED identityVars

Contain(n) ==
  /\ n \in Open(incidents)
  /\ \/ ContainIdentity(n, "SUSPEND_IDENTITY", "SUSPENDED")
     \/ ContainIdentity(n, "REVOKE_IDENTITY", "REVOKED")
     \/ \E a \in {"NONE", "ENTER_LOCKDOWN"} : ContainAs(n, a, TRUE) /\ UNCHANGED identityVars

EnterLockdown ==
  /\ lockdown' = TRUE /\ level' = "LOCKDOWN"
  /\ UNCHANGED <<incidents, identityVars>>

ExitLockdown ==
  /\ lockdown
  /\ OfSeverity(incidents, "CRITICAL") \cup OfSeverity(incidents, "HIGH") = {}
  /\ UpdateLevel(incidents, FALSE)
  /\ UNCHANGED identityVars

IncidentNext ==
  \/ \E i \in Suspects, s \in Severities : Report(i, s)
  \/ \E n \in DOMAIN incidents :
       \/ \E s \in Severities : Classify(n, s)
       \/ \E to \in IncidentStates : UpdateState(n, to)
       \/ Recover(n) \/ Contain(n)
  \/ EnterLockdown \/ ExitLockdown
  \/ IdentityNext /\ UNCHANGED incidentVars

-----------------------------------------------------------------------------
IncidentTypeOK ==
  /\ incidents \in Seq([state : IncidentStates, severity : Severities, of : Suspects,
                        action : Containments])
  /\ Len(incidents) <= MaxIncidents /\ lockdown \in BOOLEAN
  /\ level \in {"NORMAL", "DEGRADED", "SUSPICIOUS", "CONTAINMENT_REQUIRED", "LOCKDOWN"}

(* The level kept is the one the incidents ask for now, whatever was       *)
(* reported, classified up or down, contained or resolved, and in          *)
(* whatever order (incident.c:325).                                        *)
LevelExact == level = LevelOf(incidents, lockdown)

(* As many critical incidents as the threshold are a lockdown, and nobody  *)
(* leaves it while they are unresolved (incident.c:342, 743).              *)
CriticalsLock ==
  Cardinality(OfSeverity(incidents, "CRITICAL")) >= LockdownThreshold => lockdown

(* An incident contained by revoking its identity leaves no copy of it     *)
(* that is better than revoked, neither in the table nor in the vault:     *)
(* not after a failed write, not after later moves (incident.c:572).       *)
ContainedIsRevoked ==
  \A n \in DOMAIN incidents :
    /\ incidents[n].state = "CONTAINED" /\ incidents[n].action = "REVOKE_IDENTITY"
    => LET i == incidents[n].of
       IN {identity[i], vault[i]} \cap {"ACTIVE", "SUSPENDED"} = {}

(* Incidents and the level of compromise together: nothing the level, the  *)
(* lockdown or a containment is taken from changes behind their back.      *)
IncidentsSafe == IncidentTypeOK /\ LevelExact /\ CriticalsLock /\ ContainedIsRevoked

-----------------------------------------------------------------------------
(***************************************************************************)
(* The controlled responses to an incident (03_SECURITY/sec_response.c): a *)
(* plan collects actions, is validated, approved or rejected, executed as  *)
(* a whole or action by action, and can be cancelled or expire.            *)
(*                                                                         *)
(* An action is its kind; what distinguishes kinds is the policy: which    *)
(* ones are refused, and which ones need an approval.  Whether an action   *)
(* takes effect (a session revoked, an identity suspended, a lockdown) is  *)
(* the answer of another service and an input.  The configuration service  *)
(* is bound.  Targets, assurance (which every plan is found to have),      *)
(* explanations, the history ring and the counters are left out, and so is *)
(* active_executions, which is zero between calls.  Plans are never taken  *)
(* out, so that what is said of an action is said for good.                *)
(***************************************************************************)

CONSTANTS
  Kinds,          \* types of actions
  ResponsePolicies, \* (bound) policies: [refused, approval: sets of kinds]
  MaxPlans,       \* policy.max_plans, within OZAYN_SRESP_MAX_PLANS
  MaxActions,     \* policy.max_actions_per_plan
  PlanLife        \* policy.plan_retention_seconds

ASSUME ResponseAssumption ==
  /\ MaxPlans \in Nat \ {0} /\ {MaxActions, PlanLife} \subseteq Nat
  /\ \A p \in ResponsePolicies : p.refused \cup p.approval \subseteq Kinds

VARIABLES plans, responsePolicy
responseVars == <<plans, responsePolicy>>

PlanStates ==
  {"CREATED", "VALIDATED", "APPROVED", "COMPLETED", "PARTIAL", "FAILED", "CANCELLED", "EXPIRED"}
ActionStates ==
  {"CREATED", "VALIDATED", "VALIDATION_FAILED", "APPROVED", "SUCCEEDED", "FAILED", "REJECTED",
   "CANCELLED", "EXPIRED"}
Approvals == {"NOT_REQUIRED", "PENDING", "GRANTED", "DENIED"}

Changed(n, plan) == plans' = [plans EXCEPT ![n] = plan] /\ UNCHANGED responsePolicy

ResponseInit == plans = <<>> /\ responsePolicy \in ResponsePolicies

(* ozayn_sresp_set_policy with one that is enabled.                        *)
SetResponsePolicy(p) == responsePolicy' = p /\ UNCHANGED plans

(* ozayn_sresp_create_plan.                                                *)
CreatePlan ==
  /\ Len(plans) < MaxPlans
  /\ plans' = Append(plans, [state |-> "CREATED", approval |-> "NOT_REQUIRED", actions |-> <<>>,
                             life |-> PlanLife, real |-> FALSE])
  /\ UNCHANGED responsePolicy

(* ozayn_sresp_add_action_to_plan.  What the policy of this moment asks    *)
(* for is kept with the action.  `runs' counts how often it was carried    *)
(* out, and `under' is the state of its plan then (history).               *)
AddAction(n, kind) ==
  LET plan == plans[n]
      pending == kind \in responsePolicy.approval
  IN /\ plan.state = "CREATED" /\ Len(plan.actions) < MaxActions
     /\ Changed(n,
          [plan EXCEPT !.actions =
             Append(@, [kind |-> kind, state |-> "CREATED", runs |-> 0, under |-> {},
                        needs |-> pending, approval |-> IF pending THEN "PENDING" ELSE "NOT_REQUIRED"]),
                       !.approval = IF pending THEN "PENDING" ELSE @])

(* ozayn_sresp_validate_action: a refusal is written whatever the state.   *)
Validated(action) ==
  IF action.kind \in responsePolicy.refused THEN [action EXCEPT !.state = "VALIDATION_FAILED"]
  ELSE [action EXCEPT !.state = IF @ = "CREATED" THEN "VALIDATED" ELSE @]
Refused(action) == action.kind \in responsePolicy.refused \/ action.state # "CREATED"
ValidateAction(n, k) ==
  Changed(n, [plans[n] EXCEPT !.actions[k] = Validated(@)])

(* ozayn_sresp_validate_plan, up to the first action that is refused.      *)
ValidatePlan(n) ==
  LET plan == plans[n]
      bad == {k \in DOMAIN plan.actions : Refused(plan.actions[k])}
      upTo == {k \in DOMAIN plan.actions : \A b \in bad : k <= b}
  IN /\ plan.state = "CREATED"
     /\ Changed(n, [plan EXCEPT
          !.actions = [k \in DOMAIN @ |-> IF k \in upTo THEN Validated(@[k]) ELSE @[k]],
          !.state = IF bad = {} THEN "VALIDATED" ELSE "FAILED"])

(* ozayn_sresp_check_authorization that is denied for an action; in any    *)
(* state of the plan.                                                      *)
Unauthorized(n, k) ==
  Changed(n, [plans[n] EXCEPT !.actions[k].state = "VALIDATION_FAILED"])

(* ozayn_sresp_approve_plan: what awaits the approval gets it, and what    *)
(* needs none is let through, whatever state it is in.                     *)
ApprovePlan(n) ==
  LET plan == plans[n]
      Approved(a) == IF a.approval = "DENIED" \/ a.approval = "GRANTED" THEN a
                     ELSE [a EXCEPT !.state = "APPROVED",
                                    !.approval = IF @ = "PENDING" THEN "GRANTED" ELSE @]
  IN /\ plan.state = "VALIDATED" /\ plan.approval \in {"NOT_REQUIRED", "PENDING"}
     /\ Changed(n, [plan EXCEPT !.state = "APPROVED", !.actions = [k \in DOMAIN @ |-> Approved(@[k])],
                                !.approval = IF @ = "PENDING" THEN "GRANTED" ELSE @])

(* ozayn_sresp_reject_plan.                                                *)
RejectPlan(n) ==
  LET Denied(a) == [a EXCEPT !.state = "REJECTED", !.approval = "DENIED"]
  IN /\ plans[n].state = "VALIDATED"
     /\ Changed(n, [plans[n] EXCEPT !.state = "FAILED", !.approval = "DENIED",
                                    !.actions = [k \in DOMAIN @ |-> Denied(@[k])]])

(* _execute_single_action: a dry run succeeds and does nothing.            *)
Executable(action) == action.state = "APPROVED"
Executed(action, planState, real, ok) ==
  IF ~Executable(action) THEN action
  ELSE [action EXCEPT !.state = IF ok \/ ~real THEN "SUCCEEDED" ELSE "FAILED",
                      !.runs = IF real THEN @ + 1 ELSE @,
                      !.under = IF real THEN @ \cup {planState} ELSE @]

(* ozayn_sresp_execute_action, which does not look at the state of the     *)
(* plan; one that has succeeded is skipped.                                *)
ExecuteAction(n, k, real, ok) ==
  /\ Executable(plans[n].actions[k])
  /\ Changed(n, [plans[n] EXCEPT !.actions[k] = Executed(@, plans[n].state, real, ok)])

(* ozayn_sresp_execute_plan: an action that cannot be executed, because it *)
(* has been, counts as failed.                                             *)
ExecutePlan(n, real, failing) ==
  LET plan == plans[n]
      succeed == {k \in DOMAIN plan.actions :
                    Executable(plan.actions[k]) /\ (k \notin failing \/ ~real)}
  IN /\ plan.state = "APPROVED"
     /\ real => plan.approval \in {"NOT_REQUIRED", "GRANTED"}
     /\ Changed(n, [plan EXCEPT
          !.actions = [k \in DOMAIN @ |-> Executed(@[k], "APPROVED", real, k \notin failing)],
          !.state = IF succeed = DOMAIN plan.actions THEN "COMPLETED"
                    ELSE IF succeed # {} THEN "PARTIAL" ELSE "FAILED",
          !.real = real])

(* ozayn_sresp_cancel_plan, also of one that is PARTIAL.                   *)
CancelPlan_PlanOnly(n) ==        \* mutant: the actions are left as they are
  /\ plans[n].state \notin {"COMPLETED", "FAILED", "CANCELLED", "EXPIRED"}
  /\ Changed(n, [plans[n] EXCEPT !.state = "CANCELLED", !.approval = "DENIED"])
CancelPlan(n) ==
  LET Cancelled(a) == [a EXCEPT !.state = "CANCELLED", !.approval = "DENIED"]
  IN /\ plans[n].state \notin {"COMPLETED", "FAILED", "CANCELLED", "EXPIRED"}
     /\ Changed(n, [plans[n] EXCEPT !.state = "CANCELLED", !.approval = "DENIED",
                                    !.actions = [k \in DOMAIN @ |-> Cancelled(@[k])]])

(* ozayn_sresp_cleanup_expired_plans.                                      *)
CleanupPlans ==
  LET Expired(a) == IF a.state \in {"SUCCEEDED", "CANCELLED", "FAILED"} THEN a
                    ELSE [a EXCEPT !.state = "EXPIRED"]
      Late(plan) == plan.life < 0 /\ plan.state \notin {"COMPLETED", "CANCELLED", "EXPIRED", "FAILED"}
  IN /\ plans' = [n \in DOMAIN plans |->
                    IF Late(plans[n])
                    THEN [plans[n] EXCEPT !.state = "EXPIRED", !.actions = [k \in DOMAIN @ |-> Expired(@[k])]]
                    ELSE plans[n]]
     /\ UNCHANGED responsePolicy

ResponseElapse ==
  /\ plans' = [n \in DOMAIN plans |-> [plans[n] EXCEPT !.life = IF @ < 0 THEN @ ELSE @ - 1]]
  /\ UNCHANGED responsePolicy

ResponseNext ==
  \/ CreatePlan \/ CleanupPlans \/ ResponseElapse
  \/ \E p \in ResponsePolicies : SetResponsePolicy(p)
  \/ \E n \in DOMAIN plans :
       \/ \E kind \in Kinds : AddAction(n, kind)
       \/ ValidatePlan(n) \/ ApprovePlan(n) \/ RejectPlan(n) \/ CancelPlan(n)
       \/ \E real \in BOOLEAN, failing \in SUBSET (DOMAIN plans[n].actions) : ExecutePlan(n, real, failing)
       \/ \E k \in DOMAIN plans[n].actions :
            \/ ValidateAction(n, k) \/ Unauthorized(n, k)
            \/ \E real, ok \in BOOLEAN : ExecuteAction(n, k, real, ok)

(***************************************************************************)
(* Properties.                                                             *)
(***************************************************************************)

ResponseTypeOK ==
  \A n \in DOMAIN plans :
    /\ plans[n].state \in PlanStates /\ plans[n].approval \in Approvals
    /\ \A a \in {plans[n].actions[k] : k \in DOMAIN plans[n].actions} :
         a.state \in ActionStates /\ a.approval \in Approvals /\ a.kind \in Kinds

Taken(n) == {k \in DOMAIN plans[n].actions : plans[n].actions[k].runs > 0}

(* Nothing is done twice, whichever way it is executed, and nothing is     *)
(* done outside an approved plan: not in one that was rejected, cancelled, *)
(* or expired, or is over.                                                 *)
DoneOnceUnderApproval ==
  \A n \in DOMAIN plans : \A k \in Taken(n) :
    plans[n].actions[k].runs = 1 /\ plans[n].actions[k].under = {"APPROVED"}

(* What needs an approval, by the policy under which it was planned, is    *)
(* not done without one; only a cancellation rewrites it afterwards.       *)
DoneWithApproval ==
  \A n \in DOMAIN plans : \A k \in Taken(n) :
    plans[n].actions[k].needs => \/ plans[n].actions[k].approval = "GRANTED"
                                 \/ plans[n].state = "CANCELLED"

(* A plan that was really executed and is COMPLETED has had every one of   *)
(* its actions done.                                                       *)
CompletedIsDone ==
  \A n \in DOMAIN plans :
    plans[n].state = "COMPLETED" /\ plans[n].real => Taken(n) = DOMAIN plans[n].actions

ResponsesSafe == ResponseTypeOK /\ DoneOnceUnderApproval /\ DoneWithApproval /\ CompletedIsDone

(* What does not hold: that a plan all of whose actions succeeded is not   *)
(* FAILED, that an action whose authorization was denied is not done, that *)
(* what was done is never called cancelled, and that nothing is done after *)
(* the plan's time.                                                        *)
FailedHasFailure ==
  \A n \in DOMAIN plans :
    plans[n].state \in {"FAILED", "PARTIAL"} /\ DOMAIN plans[n].actions # {} =>
      \E k \in DOMAIN plans[n].actions : plans[n].actions[k].state # "SUCCEEDED"
UnauthorizedStays ==
  [][\A n \in DOMAIN plans, k \in 1..MaxActions :
       k \in DOMAIN plans[n].actions /\ plans[n].actions[k].state = "VALIDATION_FAILED" =>
         plans'[n].actions[k].runs = plans[n].actions[k].runs /\ plans'[n].actions[k].state # "APPROVED"]_plans
DoneIsNotCancelled ==
  \A n \in DOMAIN plans : \A k \in Taken(n) : plans[n].actions[k].state # "CANCELLED"
=============================================================================
