------------------------ MODULE WorkflowOrchestrator ------------------------
(* The workflow orchestrator of the control room                            *)
(* (04_CONTROL_ROOM/workflow_orchestrator.c): fixed tables of workflows,    *)
(* stages and dependencies, moved by the calls of a client and by a         *)
(* periodic tick.                                                           *)
(*                                                                          *)
(* The identifiers the code gives out are slot numbers ("WOF-3", "STG-7"),  *)
(* used again once the slot is free: here a workflow and a stage are their  *)
(* slots.  A time stamp is kept as the age of what it stamps, counted up to *)
(* the first value that exceeds the timeout it is compared with.            *)
(* Not kept: names, references, the event buffer and the statistics that    *)
(* decide nothing.  No code sets the two deadlines of a workflow, so they   *)
(* are 0 and nothing expires.                                               *)
EXTENDS Naturals, FiniteSets

CONSTANTS MaxWorkflows,        \* slots for workflows
          MaxStages,           \* slots for stages, all workflows together
          MaxStagesPer,        \* stages of one workflow
          MaxDependencies,     \* slots for dependencies
          MaxDepth,            \* OZAYN_WOF_MAX_DEPENDENCY_DEPTH
          MaxConcurrent,       \* workflows that may be live at once
          WorkflowTimeout,     \* in units of the clock
          StageTimeout,
          MaxResets,           \* bound of the model: calls of reset_stats
          None

ASSUME WorkflowAssumption ==
    /\ {MaxWorkflows, MaxStages, MaxStagesPer, MaxDependencies, MaxDepth,
        MaxConcurrent, WorkflowTimeout, StageTimeout, MaxResets} \subseteq Nat

VARIABLES wf,       \* workflow slot -> None or the workflow
          stage,    \* stage slot -> None or the stage
          deps,     \* dependencies, as pairs <<source, target>> of stages
          active,   \* stats.active_workflows
          resets,   \* history: how often the statistics were reset
          binding   \* history: the dependencies their target has to wait for

vars == <<wf, stage, deps, active, resets, binding>>

Workflows == 1 .. MaxWorkflows
Stages    == 1 .. MaxStages

(* The workflow states some call or tick reaches, and those it ends in.     *)
WfStates ==
    {"CREATED", "VALIDATING", "AUTHORIZED", "READY", "SCHEDULED", "ACTIVE",
     "PAUSED", "RESUMING", "DRAINING", "SUCCEEDED", "FAILED",
     "PARTIALLY_SUCCEEDED", "CANCELLED", "TIMEOUT", "REJECTED"}

WfTerminal == {"SUCCEEDED", "FAILED", "PARTIALLY_SUCCEEDED", "CANCELLED",
               "TIMEOUT", "REJECTED"}

(* _wf_transitions: the moves a transition is checked against.  Those that  *)
(* pass WAITING, STARTING, PAUSING and STOPPING are made in one call and    *)
(* are one move here.                                                       *)
WfMoves ==
    [from \in WfStates |->
        CASE from = "CREATED"    -> {"VALIDATING"}
          [] from = "VALIDATING" -> {"AUTHORIZED", "REJECTED"}
          [] from = "AUTHORIZED" -> {"READY", "REJECTED", "CANCELLED"}
          [] from = "READY"      -> {"SCHEDULED", "CANCELLED"}
          [] from = "SCHEDULED"  -> {"ACTIVE", "CANCELLED"}
          [] from = "ACTIVE"     -> {"PAUSED", "DRAINING", "SUCCEEDED", "FAILED",
                                     "PARTIALLY_SUCCEEDED", "CANCELLED", "TIMEOUT"}
          [] from = "PAUSED"     -> {"RESUMING", "CANCELLED"}
          [] from = "RESUMING"   -> {"ACTIVE"}
          [] from = "DRAINING"   -> {"SUCCEEDED"}
          [] OTHER               -> {}]

StageStates ==
    {"CREATED", "WAITING_DEPS", "DEPS_SATISFIED", "ELIGIBLE", "SUBMITTED",
     "SCHEDULED", "RUNNING", "PAUSED", "COMPLETED", "FAILED", "SKIPPED",
     "CANCELLED", "TIMED_OUT", "BLOCKED"}

StageTerminal == {"COMPLETED", "FAILED", "SKIPPED", "CANCELLED", "TIMED_OUT"}

(* _stg_transitions.                                                        *)
StageMoves ==
    [from \in StageStates |->
        CASE from = "CREATED"        -> {"WAITING_DEPS", "SKIPPED", "CANCELLED"}
          [] from = "WAITING_DEPS"   -> {"DEPS_SATISFIED", "BLOCKED", "CANCELLED",
                                         "TIMED_OUT"}
          [] from = "DEPS_SATISFIED" -> {"ELIGIBLE", "CANCELLED"}
          [] from = "ELIGIBLE"       -> {"SUBMITTED", "CANCELLED"}
          [] from = "SUBMITTED"      -> {"SCHEDULED", "CANCELLED"}
          [] from = "SCHEDULED"      -> {"RUNNING", "CANCELLED"}
          [] from = "RUNNING"        -> {"PAUSED", "COMPLETED", "FAILED",
                                         "CANCELLED", "TIMED_OUT"}
          [] from = "PAUSED"         -> {"RUNNING", "CANCELLED"}
          [] OTHER                   -> {}]

(* staged: stage_count is not 0 (it is never decremented).                  *)
Workflow == [state : WfStates, staged : BOOLEAN, age : 0 .. WorkflowTimeout + 1]
Stage    == [of : Workflows, state : StageStates, age : 0 .. StageTimeout + 1]

(* An unused slot is none of them.                                          *)
ASSUME NoneIsNoRecord == None \notin Workflow /\ None \notin Stage

Held(table)      == {i \in DOMAIN table : table[i] # None}
StagesOf(w)      == {s \in Held(stage) : stage[s].of = w}
Live(table)      == Cardinality({w \in Held(table) : table[w].state \notin WfTerminal})
Within(w, pairs) == {d \in pairs : d[1] \in StagesOf(w)}

(* The first unused slot of a table.                                        *)
IsFirstFree(table, i) ==
    /\ table[i] = None
    /\ \A j \in 1 .. i - 1 : table[j] # None

(* _wf_transition: an illegal move leaves the state, and every caller       *)
(* ignores the error it returns.                                            *)
Moved(record, to) ==
    IF to \in WfMoves[record.state] THEN [record EXCEPT !.state = to] ELSE record

Init ==
    /\ wf = [w \in Workflows |-> None]
    /\ stage = [s \in Stages |-> None]
    /\ deps = {}
    /\ active = 0
    /\ resets = 0
    /\ binding = {}

(***************************************************************************)
(* Workflows                                                               *)
(***************************************************************************)

Create(w) ==
    /\ active < MaxConcurrent
    /\ IsFirstFree(wf, w)
    /\ wf' = [wf EXCEPT ![w] = [state |-> "CREATED", staged |-> FALSE, age |-> 0]]
    /\ active' = Live(wf')
    /\ UNCHANGED <<stage, deps, binding, resets>>

(* _has_cycle gives up, and answers yes, on a walk of more than MaxDepth    *)
(* edges past the first one; a cycle has walks of every length.             *)
WalkEnds(w) ==
    LET ends[n \in 0 .. MaxDepth + 1] ==
            IF n = 0 THEN StagesOf(w)
            ELSE {d[2] : d \in {e \in Within(w, deps) : e[1] \in ends[n - 1]}}
    IN ends[MaxDepth + 1]

HasCycle(w) == WalkEnds(w) # {}

(* A stage that lacks the pipeline or the operation its type calls for has  *)
(* the workflow rejected; which stages do is not kept.                      *)
Validate(w, outcome) ==
    /\ wf[w] # None
    /\ wf[w].state \in {"CREATED", "VALIDATING"}
    /\ ~ HasCycle(w)
    /\ outcome = "REJECTED" => StagesOf(w) # {}
    /\ wf' = [wf EXCEPT ![w].state = outcome]
    /\ UNCHANGED <<stage, deps, binding, active, resets>>

(* The calls that only move a workflow: the states they accept, and where   *)
(* they take it.                                                            *)
Move(w, from, to) ==
    /\ wf[w] # None
    /\ wf[w].state \in from
    /\ wf' = [wf EXCEPT ![w] = Moved(@, to)]
    /\ UNCHANGED <<stage, deps, binding, active, resets>>

Authorize(w) == Move(w, {"VALIDATING"}, "AUTHORIZED")
Reject(w)    == Move(w, WfStates \ WfTerminal, "REJECTED")
Ready(w)     == wf[w] # None /\ wf[w].staged /\ Move(w, {"AUTHORIZED"}, "READY")
Schedule(w)  == Move(w, {"READY"}, "SCHEDULED")
Pause(w)     == Move(w, {"ACTIVE"}, "PAUSED")
Resume(w)    == Move(w, {"PAUSED"}, "RESUMING")
Drain(w)     == Move(w, {"ACTIVE"}, "DRAINING")

(* A start after a pause stamps start_time again.                           *)
Start(w) ==
    /\ wf[w] # None
    /\ wf[w].state \in {"SCHEDULED", "RESUMING"}
    /\ wf' = [wf EXCEPT ![w].state = "ACTIVE", ![w].age = 0]
    /\ UNCHANGED <<stage, deps, binding, active, resets>>

(* Cancel: every unfinished stage is cancelled and the call succeeds, also  *)
(* where the workflow itself may not move to CANCELLED.                     *)
CancelWith(w, spared) ==
    /\ wf[w] # None
    /\ wf[w].state \notin WfTerminal
    /\ wf' = [wf EXCEPT ![w] = Moved(@, "CANCELLED")]
    /\ stage' = [s \in Stages |->
                    IF s \in StagesOf(w) /\ stage[s].state \notin spared
                    THEN [stage[s] EXCEPT !.state = "CANCELLED", !.age = 0]
                    ELSE stage[s]]
    /\ active' = Live(wf')
    /\ UNCHANGED <<deps, binding, resets>>

(* A mutant that cancels finished stages too. *)
Cancel_All(w) == CancelWith(w, {})

Cancel(w) == CancelWith(w, StageTerminal)

(* Stop ends a drain: running stages count as completed, the others keep    *)
(* their states, and the workflow has succeeded.                            *)
Stop(w) ==
    /\ wf[w] # None
    /\ wf[w].state = "DRAINING"
    /\ wf' = [wf EXCEPT ![w].state = "SUCCEEDED"]
    /\ stage' = [s \in Stages |->
                    IF s \in StagesOf(w) /\ stage[s].state = "RUNNING"
                    THEN [stage[s] EXCEPT !.state = "COMPLETED", !.age = 0]
                    ELSE stage[s]]
    /\ active' = Live(wf')
    /\ UNCHANGED <<deps, binding, resets>>

(* What is left of the tables without the workflows in gone.                *)
Forget(gone) ==
    /\ wf' = [w \in Workflows |-> IF w \in gone THEN None ELSE wf[w]]
    /\ stage' = [s \in Stages |->
                    IF s \in Held(stage) /\ stage[s].of \in gone THEN None
                                                               ELSE stage[s]]
    /\ deps' = {d \in deps : stage[d[1]].of \notin gone}
    /\ binding' = binding \intersect deps'

(* remove does not refresh the count of active workflows.                   *)
RemoveWorkflow(w) ==
    /\ wf[w] # None
    /\ wf[w].state \in WfTerminal
    /\ Forget({w})
    /\ UNCHANGED <<active, resets>>

(***************************************************************************)
(* Stages and dependencies                                                 *)
(***************************************************************************)

AddStage(w, s) ==
    /\ wf[w] # None
    /\ wf[w].state \notin WfTerminal
    /\ Cardinality(StagesOf(w)) < MaxStagesPer
    /\ IsFirstFree(stage, s)
    /\ stage' = [stage EXCEPT ![s] = [of |-> w, state |-> "CREATED", age |-> 0]]
    /\ wf' = [wf EXCEPT ![w].staged = TRUE]
    /\ UNCHANGED <<deps, binding, active, resets>>

(* Removing a stage removes the dependencies it is an end of.               *)
(* A mutant that leaves the ones it is the source of. *)
DependsOn_Target(d, s) == d[2] = s

DependsOn(d, s) == d[1] = s \/ d[2] = s

RemoveStage(s) ==
    /\ stage[s] # None
    /\ stage[s].state \in StageTerminal
    /\ deps' = {d \in deps : ~ DependsOn(d, s)}
    /\ binding' = binding \intersect deps'
    /\ stage' = [stage EXCEPT ![s] = None]
    /\ UNCHANGED <<wf, active, resets>>

(* The states of a stage that was let go: DEPS_SATISFIED and all it leads   *)
(* to, but for the ends that a stage comes to while it waits, too.          *)
Begun == {"DEPS_SATISFIED", "ELIGIBLE", "SUBMITTED", "SCHEDULED", "RUNNING",
          "PAUSED", "COMPLETED", "FAILED"}

(* The executor, or any caller, reports the progress of a stage.  That its  *)
(* dependencies are satisfied is not looked into: they bind no more.        *)
SetStageState(s, to) ==
    /\ stage[s] # None
    /\ to \in StageMoves[stage[s].state]
    /\ stage' = [stage EXCEPT ![s].state = to, ![s].age = 0]
    /\ binding' = {d \in binding : to = "DEPS_SATISFIED" => d[2] # s}
    /\ UNCHANGED <<wf, deps, active, resets>>

(* A dependency may be declared after its target has begun.                 *)
AddDependency(source, target) ==
    /\ source # target
    /\ source \in Held(stage) /\ target \in Held(stage)
    /\ stage[source].of = stage[target].of
    /\ wf[stage[source].of].state \notin WfTerminal
    /\ <<source, target>> \notin deps
    /\ Cardinality(deps) < MaxDependencies
    /\ deps' = deps \union {<<source, target>>}
    /\ binding' = binding \union {d \in {<<source, target>>} :
                                     stage[target].state \notin Begun}
    /\ UNCHANGED <<wf, stage, active, resets>>

RemoveDependency(d) ==
    /\ deps' = deps \ {d}
    /\ binding' = binding \ {d}
    /\ UNCHANGED <<wf, stage, active, resets>>

(***************************************************************************)
(* The tick                                                                *)
(***************************************************************************)

(* A mutant that is content with any end of the source. *)
DepsSatisfied_Ended(s) ==
    \A d \in deps : d[2] = s => stage[d[1]].state \in StageTerminal

DepsSatisfied(s) ==
    \A d \in deps : d[2] = s => stage[d[1]].state \in {"COMPLETED", "SKIPPED"}

(* One look at a stage of an active or ready workflow: what waits and need  *)
(* not wait becomes eligible, what runs too long has timed out.  A stage of *)
(* type CONDITION is no exception: its condition always evaluates to true.  *)
Advanced(s) ==
    LET state == stage[s].state IN
    CASE state \in {"CREATED", "WAITING_DEPS"} ->
            [stage[s] EXCEPT !.state = IF DepsSatisfied(s) THEN "ELIGIBLE"
                                                           ELSE "WAITING_DEPS"]
      [] state = "DEPS_SATISFIED" -> [stage[s] EXCEPT !.state = "ELIGIBLE"]
      [] state = "RUNNING" /\ stage[s].age > StageTimeout ->
            [stage[s] EXCEPT !.state = "TIMED_OUT", !.age = 0]
      [] OTHER -> stage[s]

(* A mutant that ends only workflows with a running stage. *)
Overdue_Running(w) ==
    /\ wf[w] # None /\ wf[w].state = "ACTIVE" /\ wf[w].age > WorkflowTimeout
    /\ \E s \in StagesOf(w) : stage[s].state = "RUNNING"

(* The workflows a tick ends because of their age, and those whose stages   *)
(* it looks at.                                                             *)
Overdue(w)  == wf[w] # None /\ wf[w].state = "ACTIVE" /\ wf[w].age > WorkflowTimeout
Examined(w) == wf[w] # None /\ wf[w].state \in {"ACTIVE", "READY"} /\ ~ Overdue(w)

(* The states of the stages of w after the first loop of the tick.          *)
StatesOf(w)  == {Advanced(s).state : s \in StagesOf(w)}
AllDone(w)   == StatesOf(w) \subseteq StageTerminal

AnyFailed(w) == StatesOf(w) \intersect {"FAILED", "TIMED_OUT"} # {}

(* The verdict on a workflow all of whose stages are done.  Timed out       *)
(* stages are not among the failed ones it counts.                          *)
(* A mutant that looks for completed stages only. *)
Verdict_Optimistic(w) ==
    IF "COMPLETED" \in StatesOf(w) THEN "SUCCEEDED"
    ELSE IF "FAILED" \in StatesOf(w) THEN "FAILED" ELSE "SUCCEEDED"

Verdict(w) ==
    IF "FAILED" \notin StatesOf(w) THEN "SUCCEEDED"
    ELSE IF "COMPLETED" \in StatesOf(w) THEN "PARTIALLY_SUCCEEDED" ELSE "FAILED"

(* The workflows that fail at once, with the policy every workflow has:     *)
(* FAIL_WORKFLOW.  One that is only READY may not move to FAILED.           *)
Aborted(w) == Examined(w) /\ AnyFailed(w) /\ ~ AllDone(w)
Judged(w)  == Examined(w) /\ AllDone(w) /\ wf[w].state = "ACTIVE"

Tick ==
    /\ wf' = [w \in Workflows |->
                 CASE Overdue(w) -> Moved(wf[w], "TIMEOUT")
                   [] Judged(w)  -> Moved(wf[w], Verdict(w))
                   [] Aborted(w) -> Moved(wf[w], "FAILED")
                   [] OTHER      -> wf[w]]
    /\ stage' = [s \in Stages |->
                    IF s \notin Held(stage) \/ ~ Examined(stage[s].of) THEN stage[s]
                    ELSE IF Aborted(stage[s].of) /\ Advanced(s).state \notin StageTerminal
                         THEN [stage[s] EXCEPT !.state = "BLOCKED", !.age = 0]
                         ELSE Advanced(s)]
    /\ active' = IF \E w \in Workflows : Overdue(w) \/ Judged(w) \/ Aborted(w)
                 THEN Live(wf') ELSE active
    /\ UNCHANGED <<deps, binding, resets>>

(***************************************************************************)
(* Cleanup and statistics                                                  *)
(***************************************************************************)

CleanupTerminal ==
    /\ Forget({w \in Held(wf) : wf[w].state \in WfTerminal})
    /\ active' = Live(wf')
    /\ UNCHANGED resets

(* No workflow has a deadline, so none expires: the call counts anew.       *)
CleanupExpired ==
    /\ active' = Live(wf)
    /\ UNCHANGED <<wf, stage, deps, binding, resets>>

CleanupAll ==
    /\ Forget(Workflows)
    /\ active' = 0
    /\ UNCHANGED resets

ResetStats ==
    /\ resets < MaxResets
    /\ active' = 0
    /\ resets' = resets + 1
    /\ UNCHANGED <<wf, stage, deps, binding>>

(* A unit of time passes.                                                   *)
Elapse ==
    /\ wf' = [w \in Workflows |->
                 IF wf[w] # None /\ wf[w].state = "ACTIVE" /\ wf[w].age <= WorkflowTimeout
                 THEN [wf[w] EXCEPT !.age = @ + 1] ELSE wf[w]]
    /\ stage' = [s \in Stages |->
                    IF stage[s] # None /\ stage[s].state = "RUNNING"
                       /\ stage[s].age <= StageTimeout
                    THEN [stage[s] EXCEPT !.age = @ + 1] ELSE stage[s]]
    /\ UNCHANGED <<deps, binding, active, resets>>

WorkflowCalls ==
    \E w \in Workflows :
        \/ \E outcome \in {"VALIDATING", "REJECTED"} : Validate(w, outcome)
        \/ Create(w) \/ Authorize(w) \/ Reject(w) \/ Ready(w)
        \/ Schedule(w) \/ Start(w) \/ Pause(w) \/ Resume(w) \/ Drain(w)
        \/ Cancel(w) \/ Stop(w) \/ RemoveWorkflow(w)
        \/ \E s \in Stages : AddStage(w, s)

StageCalls ==
    \/ \E s \in Stages : RemoveStage(s) \/ \E to \in StageStates : SetStageState(s, to)
    \/ \E s, t \in Stages : AddDependency(s, t)
    \/ \E d \in deps : RemoveDependency(d)

Maintenance == CleanupTerminal \/ CleanupExpired \/ CleanupAll \/ ResetStats

Next == WorkflowCalls \/ StageCalls \/ Maintenance \/ Tick \/ Elapse

Spec == Init /\ [][Next]_vars

(* The caller of the orchestrator ticks it, and time passes.                *)
FairSpec == Spec /\ WF_vars(Tick) /\ WF_vars(Elapse)

(***************************************************************************)
(* Properties                                                              *)
(***************************************************************************)

(* Every table holds what its slots are for.                                *)
TypeOK ==
    /\ wf \in [Workflows -> Workflow \union {None}]
    /\ stage \in [Stages -> Stage \union {None}]
    /\ deps \subseteq Stages \X Stages
    /\ binding \subseteq deps
    /\ active \in 0 .. MaxWorkflows
    /\ resets \in 0 .. MaxResets

(* Identifiers are slot numbers and slots are used again, so a reference    *)
(* that outlives what it names would bind to a stranger: every stage        *)
(* belongs to a workflow that is held, and every dependency joins two       *)
(* stages of one workflow.                                                  *)
NoDangling ==
    /\ \A s \in Held(stage) : stage[s].of \in Held(wf)
    /\ \A d \in deps : /\ {d[1], d[2]} \subseteq Held(stage)
                      /\ stage[d[1]].of = stage[d[2]].of

(* create compares the limit with a statistic that reject and remove leave  *)
(* stale and reset_stats sets to 0.  Each reset lets at most one workflow   *)
(* in above the limit; nothing else does.                                   *)
LimitHolds == Live(wf) <= MaxConcurrent + resets

(* The tables together, through any order of calls that free slots, use     *)
(* them again and reset the statistics.                                     *)
OrchestratorSafe == TypeOK /\ NoDangling /\ LimitHolds

(* A stage that has begun has, for as long as it is held, every stage it    *)
(* waited for completed or skipped: whatever was declared, removed, ended,  *)
(* reported or used again since it was let go, its work never runs or has   *)
(* run on a result that is not there or was taken back.  Two cases are the  *)
(* caller's own: a dependency declared after the stage had begun, and a     *)
(* stage reported DEPS_SATISFIED by hand.                                   *)
DependentsWait ==
    \A d \in binding :
        stage[d[2]].state \in Begun => stage[d[1]].state \in {"COMPLETED", "SKIPPED"}

(* A finished workflow or stage stays as it finished, until its slot is     *)
(* freed: no late report, cancel, drain or tick changes the outcome.        *)
TerminalStays ==
    [][/\ \A w \in Held(wf) : wf[w].state \in WfTerminal =>
            wf'[w] = None \/ wf'[w].state = wf[w].state
       /\ \A s \in Held(stage) : stage[s].state \in StageTerminal =>
            stage'[s] = None \/ stage'[s].state = stage[s].state]_vars

(* What the tick says of a workflow agrees with what its stages did, and a  *)
(* failure is acted on by the next tick: no workflow that is still active   *)
(* after a tick has a stage that failed or timed out.                       *)
Outcomes(w) == {stage[s].state : s \in StagesOf(w)}

VerdictHonest ==
    [][\A w \in Held(wf) : (wf[w].state = "ACTIVE" /\ wf'[w] # None) =>
        LET verdict  == wf'[w].state
            outcomes == Outcomes(w)'
        IN /\ Tick /\ verdict = "ACTIVE" => outcomes \intersect {"FAILED", "TIMED_OUT"} = {}
           /\ verdict = "SUCCEEDED" => outcomes \subseteq StageTerminal \ {"FAILED"}
           /\ verdict = "PARTIALLY_SUCCEEDED" => {"COMPLETED", "FAILED"} \subseteq outcomes
           /\ verdict = "FAILED" => outcomes \intersect {"FAILED", "TIMED_OUT"} # {}]_vars

(* A workflow that is active does not stay so for ever, not even when a     *)
(* dependency added after the validation closes a cycle: the timeout of the *)
(* workflow ends what its stages cannot.                                    *)
ActiveEnds ==
    \A w \in Workflows :
        (wf[w] # None /\ wf[w].state = "ACTIVE") ~>
        (wf[w] = None \/ wf[w].state # "ACTIVE")

(* The documented cancellation: a workflow whose cancellation is accepted   *)
(* is cancelled.  The code accepts it also where the transition table has   *)
(* no move to CANCELLED, and cancels the stages alone.                      *)
CancelledIsCancelled ==
    [][\A w \in Workflows : Cancel(w) => wf'[w].state = "CANCELLED"]_vars
=============================================================================
