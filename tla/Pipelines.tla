----------------------------- MODULE Pipelines ------------------------------
(***************************************************************************)
(* The pipeline coordinator (04_CONTROL_ROOM/pipeline.c): a table of       *)
(* pipelines found by id while they are active, and the stages and edges   *)
(* of all of them in two shared pools.                                     *)
(*                                                                         *)
(* Abstracted.  An edge is its two ends: no parallel edges, and no limit   *)
(* on fan-in and fan-out.  A stage has no state of its own: ozayn_pco_-    *)
(* stage_add makes it CREATED, start touches READY stages only, and        *)
(* nothing in the source makes one READY.  A pipeline that has ended is in *)
(* no table a call looks into; its state is kept here to tell how it ended.*)
(* max_pipelines is at least max_concurrent_pipelines, as by default.      *)
(***************************************************************************)
EXTENDS Integers, FiniteSets

CONSTANTS
  MaxIssued,     \* the ids the service hands out: a bound of the model
  Titles,        \* names callers give pipelines
  Stages,        \* stage ids; max_stages is their number
  MaxConcurrent, \* max_concurrent_pipelines
  EdgeBudget,    \* max_edges of one pipeline
  EdgePool,      \* edge slots of all the pipelines together
  PipelineTtl    \* pipeline_ttl_ms

ASSUME PipelineAssumption ==
  /\ {MaxIssued, MaxConcurrent, EdgeBudget, EdgePool, PipelineTtl} \subseteq Nat /\ IsFiniteSet(Stages)

VARIABLES
  pipe,          \* the records of the pipelines, by id
  issued,        \* pipeline_sequence
  stagesOf,      \* the active stages of each id
  edgesOf,       \* the active edges of each id
  pipelineCount, \* svc->pipeline_count
  pausedCount    \* stats.current_paused_pipelines

Pipes == 1..MaxIssued
pipelineVars == <<pipe, issued, stagesOf, edgesOf, pipelineCount, pausedCount>>

Terminal == {"NONE", "STOPPED", "FAILED", "EXPIRED"}
PipeStates == {"CREATED", "AUTHORIZED", "ACTIVE", "PAUSED", "DRAINING"} \cup Terminal
NoPipe == [state |-> "NONE", title |-> "", age |-> 0, flow |-> "NORMAL", edges |-> 0]

Live == {i \in Pipes : pipe[i].state \notin Terminal}   \* active = 1
Paused == {i \in Pipes : pipe[i].state = "PAUSED"}
EdgesHeld == UNION {{<<i, e>> : e \in edgesOf[i]} : i \in Pipes}
Past(i) == pipe[i].age > PipelineTtl
Entered(i, s) == [pipe EXCEPT ![i] = IF s \in Terminal THEN [NoPipe EXCEPT !.state = s]
                                     ELSE [@ EXCEPT !.state = s]]

(* A set of stages in which every one has an edge to another holds a cycle *)
(* (_has_cycle_dfs, from every stage of the pipeline).                     *)
Cyclic(edges) ==
  \E ring \in (SUBSET Stages) \ {{}} : \A s \in ring : \E t \in ring : <<s, t>> \in edges

PipelineInit ==
  /\ pipe = [i \in Pipes |-> NoPipe] /\ issued = 0
  /\ stagesOf = [i \in Pipes |-> {}] /\ edgesOf = [i \in Pipes |-> {}]
  /\ pipelineCount = 0 /\ pausedCount = 0

(* ozayn_pco_pipeline_create.                                              *)
CreatePipeline(t) ==
  /\ \A i \in Live : pipe[i].title # t
  /\ pipelineCount < MaxConcurrent
  /\ issued + 1 \in Pipes
  /\ issued' = issued + 1
  /\ pipe' = [pipe EXCEPT ![issued + 1] = [NoPipe EXCEPT !.state = "CREATED", !.title = t]]
  /\ pipelineCount' = pipelineCount + 1
  /\ UNCHANGED <<stagesOf, edgesOf, pausedCount>>

(* ozayn_pco_pipeline_validate, which authorize is another name of.  A     *)
(* pipeline past its life ends here whatever it was doing; one that is not *)
(* CREATED is refused.                                                     *)
ValidatePipeline(i) ==
  /\ i \in Live
  /\ \E s \in {"EXPIRED", "FAILED", "AUTHORIZED"} :
       /\ (s = "EXPIRED") = Past(i)
       /\ s # "EXPIRED" => /\ pipe[i].state = "CREATED"
                          /\ (s = "FAILED") = (stagesOf[i] = {} \/ Cyclic(edgesOf[i]))
       /\ pipe' = Entered(i, s)
       /\ pipelineCount' = IF s = "AUTHORIZED" THEN pipelineCount ELSE pipelineCount - 1
  /\ UNCHANGED <<issued, stagesOf, edgesOf, pausedCount>>

(* ozayn_pco_pipeline_start, _pause, _resume and _drain.                   *)
StartPipeline(i) ==
  /\ pipe[i].state = "AUTHORIZED"
  /\ pipe' = Entered(i, "ACTIVE")
  /\ UNCHANGED <<issued, stagesOf, edgesOf, pipelineCount, pausedCount>>
PausePipeline(i) ==
  /\ pipe[i].state = "ACTIVE"
  /\ pipe' = Entered(i, "PAUSED") /\ pausedCount' = pausedCount + 1
  /\ UNCHANGED <<issued, stagesOf, edgesOf, pipelineCount>>
ResumePipeline(i) ==
  /\ pipe[i].state = "PAUSED" /\ pipe[i].flow # "BLOCKED"
  /\ pipe' = [pipe EXCEPT ![i].state = "ACTIVE", ![i].flow = "NORMAL"]
  /\ pausedCount' = pausedCount - 1
  /\ UNCHANGED <<issued, stagesOf, edgesOf, pipelineCount>>
DrainPipeline(i) ==
  /\ pipe[i].state \in {"ACTIVE", "PAUSED"}
  /\ pipe' = [pipe EXCEPT ![i].state = "DRAINING", ![i].flow = "DRAINING"]
  /\ UNCHANGED <<issued, stagesOf, edgesOf, pipelineCount, pausedCount>>

(* ozayn_pco_flow_set_state: BLOCKED for the states a resume refuses.      *)
SetFlow(i, f) ==
  /\ i \in Live
  /\ pipe' = [pipe EXCEPT ![i].flow = f]
  /\ UNCHANGED <<issued, stagesOf, edgesOf, pipelineCount, pausedCount>>

(* ozayn_pco_pipeline_stop, _close, _cancel and _revoke, which differ in   *)
(* the name of the last state: the stages go, the edges stay in the pool.  *)
Unpaused(i) == IF pipe[i].state = "PAUSED" THEN pausedCount - 1 ELSE pausedCount
EndPipeline(i) ==
  /\ i \in Live
  /\ pipe' = Entered(i, "STOPPED")
  /\ stagesOf' = [stagesOf EXCEPT ![i] = {}]
  /\ pipelineCount' = pipelineCount - 1
  /\ pausedCount' = Unpaused(i)
  /\ UNCHANGED <<issued, edgesOf>>

(* ozayn_pco_cleanup_expired_pipelines: neither stages nor edges go.       *)
ExpirePipelines ==
  LET gone == {i \in Live : Past(i)} IN
  /\ gone # {}
  /\ pipe' = [i \in Pipes |-> IF i \in gone THEN [NoPipe EXCEPT !.state = "EXPIRED"] ELSE pipe[i]]
  /\ pipelineCount' = pipelineCount - Cardinality(gone)
  /\ UNCHANGED <<issued, stagesOf, edgesOf, pausedCount>>

(* ozayn_pco_pipeline_remove: no counter is told, whatever the pipeline    *)
(* was doing.                                                              *)
RemovePipeline(i) ==
  /\ i <= issued
  /\ pipe' = [pipe EXCEPT ![i] = NoPipe]
  /\ stagesOf' = [stagesOf EXCEPT ![i] = {}] /\ edgesOf' = [edgesOf EXCEPT ![i] = {}]
  /\ UNCHANGED <<issued, pipelineCount, pausedCount>>

(* ozayn_pco_stage_add and _stage_remove: in any state of the pipeline.    *)
(* The edges of the stage go with it, the pipeline's edge_count does not   *)
(* follow.                                                                 *)
AddStage(i, s) ==
  /\ i \in Live /\ s \notin stagesOf[i]
  /\ stagesOf' = [stagesOf EXCEPT ![i] = @ \cup {s}]
  /\ UNCHANGED <<pipe, issued, edgesOf, pipelineCount, pausedCount>>
EdgesAt_From(i, s) == {e \in edgesOf[i] : e[1] = s}     \* mutant: not those that lead to it
EdgesAt(i, s) == {e \in edgesOf[i] : s \in {e[1], e[2]}}
RemoveStage(i, s) ==
  /\ i \in Live /\ s \in stagesOf[i]
  /\ stagesOf' = [stagesOf EXCEPT ![i] = @ \ {s}]
  /\ edgesOf' = [edgesOf EXCEPT ![i] = @ \ EdgesAt(i, s)]
  /\ UNCHANGED <<pipe, issued, pipelineCount, pausedCount>>

(* ozayn_pco_edge_add and _edge_remove.                                    *)
EdgeRoom(i) == pipe[i].edges < EdgeBudget /\ Cardinality(EdgesHeld) < EdgePool
AddEdge(i, s, t) ==
  /\ i \in Live /\ {s, t} \subseteq stagesOf[i] /\ s # t
  /\ EdgeRoom(i) /\ <<s, t>> \notin edgesOf[i]
  /\ edgesOf' = [edgesOf EXCEPT ![i] = @ \cup {<<s, t>>}]
  /\ pipe' = [pipe EXCEPT ![i].edges = @ + 1]
  /\ UNCHANGED <<issued, stagesOf, pipelineCount, pausedCount>>
RemoveEdge(i, e) ==
  /\ i \in Live /\ e \in edgesOf[i]
  /\ edgesOf' = [edgesOf EXCEPT ![i] = @ \ {e}]
  /\ pipe' = [pipe EXCEPT ![i].edges = @ - 1]
  /\ UNCHANGED <<issued, stagesOf, pipelineCount, pausedCount>>

PipelineElapse ==
  /\ \E i \in Live : ~Past(i)
  /\ pipe' = [i \in Pipes |-> IF i \in Live /\ ~Past(i) THEN [pipe[i] EXCEPT !.age = @ + 1] ELSE pipe[i]]
  /\ UNCHANGED <<issued, stagesOf, edgesOf, pipelineCount, pausedCount>>

PipelineNext ==
  \/ \E t \in Titles : CreatePipeline(t)
  \/ \E i \in Pipes :
       \/ ValidatePipeline(i) \/ StartPipeline(i) \/ PausePipeline(i) \/ ResumePipeline(i)
       \/ DrainPipeline(i) \/ RemovePipeline(i)
       \/ \E f \in {"NORMAL", "BLOCKED"} : SetFlow(i, f)
       \/ EndPipeline(i)
       \/ \E s \in Stages : AddStage(i, s) \/ RemoveStage(i, s) \/ \E t \in Stages : AddEdge(i, s, t)
       \/ \E e \in edgesOf[i] : RemoveEdge(i, e)
  \/ ExpirePipelines \/ PipelineElapse

(***************************************************************************)
(* Properties.                                                             *)
(***************************************************************************)

(* The type invariant.  The counters are no naturals by their type:        *)
(* nothing in the code keeps them from passing zero.                       *)
PipelineTypeOK ==
  /\ pipe \in [Pipes -> [state : PipeStates, title : Titles \cup {""}, age : 0..PipelineTtl + 1,
                         flow : {"NORMAL", "BLOCKED", "DRAINING"}, edges : 0..EdgeBudget]]
  /\ issued \in Pipes \cup {0}
  /\ stagesOf \in [Pipes -> SUBSET Stages]
  /\ edgesOf \in [Pipes -> SUBSET (Stages \X Stages)]
  /\ pipelineCount \in Int /\ pausedCount \in Int

(* The two counters err on one side only: pipeline_count, which create     *)
(* asks, covers every pipeline that is active, so that no more of them     *)
(* than max_concurrent_pipelines ever are; and no more are paused than     *)
(* stats.current_paused_pipelines says.                                    *)
CountsCover ==
  /\ Cardinality(Live) <= pipelineCount /\ pipelineCount <= MaxConcurrent
  /\ Cardinality(Paused) <= pausedCount

(* The graph of an active pipeline joins stages it has, and its budget of  *)
(* edges counts each of them: no edge outlives a stage it joined, through  *)
(* any order of additions and removals (ozayn_pco_stage_remove).           *)
GraphJoinsStages ==
  \A i \in Live : /\ edgesOf[i] \subseteq stagesOf[i] \X stagesOf[i]
                  /\ Cardinality(edgesOf[i]) <= pipe[i].edges

(* The records, the counters and the graphs of the pipelines together.     *)
PipelinesSafe == PipelineTypeOK /\ CountsCover /\ GraphJoinsStages

(* What the service's own name for the counter says and                    *)
(* ozayn_pco_pipeline_remove breaks: pipeline_count is the number of the   *)
(* active pipelines.                                                       *)
CountIsLive == pipelineCount = Cardinality(Live)

-----------------------------------------------------------------------------
(***************************************************************************)
(* The scheduler of pipelines (04_CONTROL_ROOM/pipeline_scheduler.c):      *)
(* entries wait for one another in a table, the tick ages and readies      *)
(* them, schedule_next picks one, and whoever runs the pipeline moves its  *)
(* entry on with ozayn_spa_transition.                                     *)
(*                                                                         *)
(* Left out: the references and requirements an entry carries, and its     *)
(* deadline_ms and max_wait_time_ms, which only ozayn_spa_evaluate_entry   *)
(* and ozayn_spa_check_conflicts read, two questions that change nothing   *)
(* and that nothing in the source asks; and the states PAUSED and          *)
(* DRAINING, which behave as RUNNING does but that they satisfy no         *)
(* dependency.  A deadline moves the expiration_time that the tick reads,  *)
(* which is here the age at which the life of an entry is over.            *)
(***************************************************************************)

CONSTANTS
  Entries,       \* OZAYN_SPA_MAX_ENTRIES
  MaxRunning,    \* config.max_running
  MaxWaiting,    \* config.max_waiting
  MaxAttempts,   \* config.max_scheduling_attempts
  MaxBoost,      \* config.max_priority_boost
  AgingInterval, \* config.aging_interval_s
  EntryLife,     \* config.entry_ttl_ms
  Urgencies,     \* the priorities callers use, of 0..TopUrgency
  MaxEntries     \* a bound of the model: entries submitted

ASSUME PipelineSchedulerAssumption ==
  /\ {Entries, MaxRunning, MaxWaiting, MaxAttempts, MaxBoost, AgingInterval, EntryLife, MaxEntries} \subseteq Nat
  /\ Urgencies \subseteq 0..3

VARIABLES
  entries,   \* the table
  submitted, \* entry_sequence
  aging      \* time since last_aging_time, up to AgingInterval

schedulingVars == <<entries, submitted, aging>>

TopUrgency == 3    \* OZAYN_SPA_PRIORITY_CRITICAL
Slots == 1..Entries
Ended == {"COMPLETED", "FAILED", "CANCELLED", "EXPIRED", "REJECTED"}
EntryStates == Ended \cup {"QUEUED", "WAITING", "ELIGIBLE", "SCHEDULED", "RESERVED", "STARTING", "RUNNING"}
Free == [state |-> "FREE", id |-> 0]
Taken == {i \in Slots : entries[i] # Free}
In(states) == {i \in Slots : entries[i].state \in states}
Named(id) == {i \in Taken : entries[i].id = id}

SchedulingInit == entries = [i \in Slots |-> Free] /\ submitted = 0 /\ aging = 0

(* ozayn_spa_submit.  The waiting are counted only once the running limit  *)
(* is reached.                                                             *)
QueueClosed ==
  Cardinality(In({"RUNNING", "STARTING"})) >= MaxRunning /\ Cardinality(In({"WAITING", "QUEUED"})) >= MaxWaiting
SubmitEntry(i, u) ==
  /\ entries[i] = Free /\ \A j \in 1..i - 1 : j \in Taken
  /\ ~QueueClosed /\ submitted < MaxEntries
  /\ submitted' = submitted + 1
  /\ entries' = [entries EXCEPT ![i] =
       [state |-> "QUEUED", id |-> submitted + 1, needs |-> {}, urgency |-> u, effective |-> u,
        boost |-> 0, attempts |-> 0, age |-> 0]]
  /\ UNCHANGED aging

(* ozayn_spa_cancel and ozayn_spa_remove.                                  *)
CancelEntry(i) ==
  /\ i \in Taken /\ entries[i].state \notin Ended
  /\ entries' = [entries EXCEPT ![i].state = "CANCELLED"]
  /\ UNCHANGED <<submitted, aging>>
RemoveEntry(i) ==
  /\ i \in In(Ended)
  /\ entries' = [entries EXCEPT ![i] = Free]
  /\ UNCHANGED <<submitted, aging>>

(* ozayn_spa_add_dependency.  _has_cycle walks from the new dependency     *)
(* along the dependencies of entries that are still in the table; `closed' *)
(* is a set that no edge leaves.                                           *)
Reaches(id, target) ==
  \A closed \in SUBSET (1..submitted) :
    id \in closed /\ (\A j \in Taken : entries[j].id \in closed => entries[j].needs \subseteq closed)
      => target \in closed
ClosesRing_Live(i, id) ==                               \* mutant: does not walk through what has ended
  Reaches(id, entries[i].id) /\ \A j \in Named(id) : entries[j].state \notin Ended
ClosesRing(i, id) == Reaches(id, entries[i].id)
AddNeed(i, id) ==
  /\ i \in Taken /\ Named(id) # {} /\ ~ClosesRing(i, id)
  /\ entries' = [entries EXCEPT ![i].needs = @ \cup {id}]
  /\ UNCHANGED <<submitted, aging>>

(* ozayn_spa_tick, entry by entry in the order of the table.  An entry is  *)
(* looked at once while it is QUEUED.  Aging stops when it is ELIGIBLE.    *)
Overdue(e) == e.age >= EntryLife
SatisfiedBy(table, id) == \E i \in Slots : table[i].id = id /\ table[i].state \in {"COMPLETED", "RUNNING"}
Boosts(e) == aging >= AgingInterval /\ e.boost < MaxBoost
AgedEntry(e) ==
  IF Boosts(e)
  THEN [e EXCEPT !.boost = @ + 1, !.effective = IF @ < TopUrgency THEN @ + 1 ELSE @] ELSE e
Evaluated(table, e) ==
  IF e = Free \/ e.state \in Ended THEN e
  ELSE IF Overdue(e) THEN [e EXCEPT !.state = "EXPIRED"]
  ELSE IF e.state \notin {"QUEUED", "WAITING"} THEN e
  ELSE IF e.attempts = MaxAttempts THEN [e EXCEPT !.state = "EXPIRED"]
  ELSE LET f == [AgedEntry(e) EXCEPT !.attempts = @ + 1]
       IN IF \A id \in e.needs : SatisfiedBy(table, id)
          THEN [f EXCEPT !.state = "ELIGIBLE"] ELSE [f EXCEPT !.state = "WAITING"]
Walk[n \in 0..Entries] ==
  IF n = 0 THEN entries ELSE [Walk[n - 1] EXCEPT ![n] = Evaluated(Walk[n - 1], @)]
SchedulingTick ==
  /\ entries' = Walk[Entries]
  /\ aging' = IF aging >= AgingInterval THEN 0 ELSE aging
  /\ UNCHANGED submitted

(* ozayn_spa_schedule_next: an entry that was SCHEDULED or RESERVED is not *)
(* yet counted as running, and a dependency that is in no table any more   *)
(* holds nothing back.  Of the most urgent the one that was ready first is *)
(* taken, here any.                                                        *)
HeldBack(e) == \E id \in e.needs : Named(id) # {} /\ ~SatisfiedBy(entries, id)
Candidates == {i \in In({"ELIGIBLE"}) : ~HeldBack(entries[i])}
ScheduleNext(i) ==
  /\ Cardinality(In({"RUNNING", "STARTING"})) < MaxRunning
  /\ i \in Candidates /\ \A j \in Candidates : entries[j].effective <= entries[i].effective
  /\ entries' = [entries EXCEPT ![i].state = "SCHEDULED"]
  /\ UNCHANGED <<submitted, aging>>

(* ozayn_spa_transition, by its table.                                     *)
EntryMoves ==
  {<<"QUEUED", "WAITING">>, <<"QUEUED", "ELIGIBLE">>, <<"WAITING", "ELIGIBLE">>, <<"ELIGIBLE", "WAITING">>,
   <<"ELIGIBLE", "SCHEDULED">>, <<"SCHEDULED", "RESERVED">>, <<"RESERVED", "STARTING">>,
   <<"STARTING", "RUNNING">>, <<"RUNNING", "COMPLETED">>}
  \cup {s \in (EntryStates \ Ended) \X {"FAILED", "CANCELLED", "EXPIRED"} :
          \/ s[2] = "FAILED"
          \/ s[2] = "CANCELLED" /\ s[1] \notin {"STARTING", "RUNNING"}
          \/ s[2] = "EXPIRED" /\ s[1] \in {"QUEUED", "WAITING", "ELIGIBLE"}}
MoveEntry(i, to) ==
  /\ <<entries[i].state, to>> \in EntryMoves
  /\ entries' = [entries EXCEPT ![i].state = to]
  /\ UNCHANGED <<submitted, aging>>

(* ozayn_spa_set_deadline: the entry has this long to live from now on, in *)
(* whatever state it is; no longer than a new one, which is a bound.       *)
SetDeadline(i, life) ==
  /\ i \in Taken
  /\ entries' = [entries EXCEPT ![i].age = EntryLife - life]
  /\ UNCHANGED <<submitted, aging>>

(* ozayn_spa_cleanup_terminal; _cleanup_expired spares those whose life is *)
(* not over, _cleanup_all takes everything.                                *)
CleanupEntries(which) ==
  /\ entries' = [i \in Slots |-> IF i \in which THEN Free ELSE entries[i]]
  /\ UNCHANGED <<submitted, aging>>

(* Time passes, up to the end of the life of an entry: a bound.            *)
SchedulingElapse ==
  /\ \A i \in Taken : entries[i].state \in Ended \/ entries[i].age < EntryLife
  /\ aging' = IF aging < AgingInterval THEN aging + 1 ELSE aging
  /\ entries' = [i \in Slots |-> IF i \in Taken /\ entries[i].age < EntryLife
       THEN [entries[i] EXCEPT !.age = @ + 1] ELSE entries[i]]
  /\ UNCHANGED submitted

SchedulingNext ==
  \/ \E i \in Slots :
       \/ \E u \in Urgencies : SubmitEntry(i, u)
       \/ CancelEntry(i) \/ RemoveEntry(i) \/ ScheduleNext(i)
       \/ \E id \in 1..submitted : AddNeed(i, id)
       \/ \E to \in EntryStates : MoveEntry(i, to)
       \/ \E life \in 0..EntryLife : SetDeadline(i, life)
  \/ \E which \in {In(Ended), {i \in In(Ended) : Overdue(entries[i])}, Slots} : CleanupEntries(which)
  \/ SchedulingTick \/ SchedulingElapse

(***************************************************************************)
(* Properties.                                                             *)
(***************************************************************************)

SchedulingTypeOK ==
  /\ entries \in [Slots -> {Free} \cup
       [state : EntryStates, id : 1..MaxEntries, needs : SUBSET (1..MaxEntries), urgency : Urgencies,
        effective : 0..TopUrgency, boost : 0..MaxBoost, attempts : 0..MaxAttempts,
        age : 0..EntryLife]]
  /\ submitted \in 0..MaxEntries /\ aging \in 0..AgingInterval

(* No entries wait for one another in a ring, in whatever order their      *)
(* dependencies were declared and entries between them removed: each would *)
(* keep the others back until they all expire (_has_cycle).                *)
NobodyWaitsForItself ==
  \A ring \in SUBSET Taken :
    ring # {} => \E i \in ring : \A j \in ring : entries[j].id \notin entries[i].needs

(* Waiting lifts an entry by no more than the bound on the boost says,     *)
(* over all the intervals it waits and all its returns from ELIGIBLE to    *)
(* WAITING.                                                                *)
BoostBounded ==
  \A i \in Taken : entries[i].effective \in entries[i].urgency..entries[i].urgency + MaxBoost

(* The table and the waiting in it together.                               *)
SchedulingSafe == SchedulingTypeOK /\ NobodyWaitsForItself /\ BoostBounded

(* What the README's list of limits says and schedule_next, which does not *)
(* count what it has scheduled, and transition, which asks nothing, do not *)
(* keep: no more than max_running run.                                     *)
RunningWithinLimit == Cardinality(In({"RUNNING", "STARTING"})) <= MaxRunning

(* A dependent is not scheduled after what it depends on has failed.  The  *)
(* failed entry holds it back while it is in the table, and no longer when *)
(* it was cleaned up.                                                      *)
NotAfterCleanup ==
  [][\A i \in Slots : ScheduleNext(i) => \A id \in entries[i].needs : Named(id) # {}]_schedulingVars
=============================================================================
