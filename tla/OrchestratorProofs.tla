------------------------- MODULE OrchestratorProofs -------------------------
(* The orchestrator for tables of any size: nothing dangles however slots  *)
(* are used again, the limit holds but for the resets of the statistics,   *)
(* what ended stays as it ended, no stage goes ahead of one it depends on, *)
(* and the tick says of a workflow what its stages did.                    *)
EXTENDS FiniteSetTheorems, WorkflowOrchestrator, TLAPS

WfTable == [Workflows -> Workflow \cup {None}]
StageTable == [Stages -> Stage \cup {None}]
LiveIn(table) == {w \in Held(table) : table[w].state \notin WfTerminal}

(* What is right about the count of the live workflows: it may be too low  *)
(* only since a reset that was not yet made use of.                        *)
Limited(live, a, r) ==
  /\ live <= MaxConcurrent + r
  /\ live > a => live < MaxConcurrent + r

OrchestratorInv == TypeOK /\ NoDangling /\ Limited(Live(wf), active, resets)

LEMMA LiveIs ==
  ASSUME NEW table \in WfTable
  PROVE  /\ IsFiniteSet(LiveIn(table)) /\ LiveIn(table) \subseteq Workflows
         /\ Live(table) = Cardinality(LiveIn(table))
         /\ Live(table) \in 0..MaxWorkflows
<1>1. MaxWorkflows \in Nat
  BY WorkflowAssumption
<1>2. LiveIn(table) \subseteq Workflows
  BY DEF LiveIn, Held, WfTable
<1>3. IsFiniteSet(Workflows) /\ Cardinality(Workflows) = MaxWorkflows
  BY <1>1, FS_Interval DEF Workflows
<1>4. IsFiniteSet(LiveIn(table)) /\ Cardinality(LiveIn(table)) <= Cardinality(Workflows)
  BY <1>2, <1>3, FS_Subset
<1>5. Cardinality(LiveIn(table)) \in Nat
  BY <1>4, FS_CardinalityType
<1>6. Live(table) = Cardinality(LiveIn(table))
  BY DEF Live, LiveIn
<1> QED BY <1>1, <1>2, <1>3, <1>4, <1>5, <1>6

LEMMA FewerLive ==
  ASSUME NEW t \in WfTable, NEW u \in WfTable, LiveIn(u) \subseteq LiveIn(t)
  PROVE  Live(u) <= Live(t)
  BY LiveIs, FS_Subset

LEMMA OneMoreLive ==
  ASSUME NEW t \in WfTable, NEW u \in WfTable, NEW w, LiveIn(u) = LiveIn(t) \cup {w},
         w \notin LiveIn(t)
  PROVE  Live(u) = Live(t) + 1
  BY LiveIs, FS_AddElement

LEMMA TypedTables ==
  ASSUME TypeOK
  PROVE  /\ wf \in WfTable /\ stage \in StageTable
         /\ \A w \in Workflows : wf[w] # None => wf[w] \in Workflow
         /\ \A s \in Stages : stage[s] # None => stage[s] \in Stage
         /\ Held(wf) = {w \in Workflows : wf[w] # None}
         /\ Held(stage) = {s \in Stages : stage[s] # None}
         /\ active \in Nat /\ resets \in Nat /\ MaxConcurrent \in Nat
         /\ WorkflowTimeout \in Nat /\ StageTimeout \in Nat /\ MaxWorkflows \in Nat
<1>1. wf \in WfTable /\ stage \in StageTable
  BY DEF TypeOK, WfTable, StageTable
<1>2. MaxConcurrent \in Nat /\ WorkflowTimeout \in Nat /\ StageTimeout \in Nat
      /\ MaxWorkflows \in Nat /\ MaxResets \in Nat
  BY WorkflowAssumption
<1>3. active \in Nat /\ resets \in Nat
  BY <1>2 DEF TypeOK
<1> QED BY <1>1, <1>2, <1>3 DEF WfTable, StageTable, Held

(* A call that changes only what the tables say of what they hold.         *)
LEMMA SameSlots ==
  ASSUME OrchestratorInv, wf' \in WfTable, stage' \in StageTable,
         \A w \in Workflows : wf'[w] = None <=> wf[w] = None,
         \A s \in Stages : stage'[s] = None <=> stage[s] = None,
         \A s \in Held(stage) : stage'[s].of = stage[s].of,
         deps' \subseteq deps, binding' \subseteq deps',
         \A w \in Held(wf) : wf[w].state \in WfTerminal => wf'[w].state \in WfTerminal,
         active' = active \/ active' = Live(wf'), resets' = resets
  PROVE  OrchestratorInv'
<1>1. TypeOK /\ NoDangling /\ Limited(Live(wf), active, resets)
  BY DEF OrchestratorInv
<1>2. /\ wf \in WfTable /\ active \in Nat /\ resets \in Nat /\ MaxConcurrent \in Nat
      /\ Held(wf) = {w \in Workflows : wf[w] # None}
      /\ Held(stage) = {s \in Stages : stage[s] # None}
      /\ Held(wf') = {w \in Workflows : wf'[w] # None}
      /\ Held(stage') = {s \in Stages : stage'[s] # None}
  BY <1>1, TypedTables DEF Held, WfTable, StageTable
<1>3. Held(wf') = Held(wf) /\ Held(stage') = Held(stage)
  BY <1>2
<1>4. NoDangling'
  BY <1>1, <1>3 DEF NoDangling
<1>5. LiveIn(wf') \subseteq LiveIn(wf)
  BY <1>3 DEF LiveIn
<1>6. Live(wf') <= Live(wf) /\ Live(wf') \in 0..MaxWorkflows /\ Live(wf) \in 0..MaxWorkflows
  BY <1>2, <1>5, FewerLive, LiveIs
<1>7. Live(wf') \in Nat /\ Live(wf) \in Nat
  BY <1>6, WorkflowAssumption
<1>8. Limited(Live(wf'), active', resets')
  <2>1. Limited(Live(wf'), active, resets)
    BY <1>1, <1>2, <1>6, <1>7 DEF Limited
  <2>2. Limited(Live(wf'), Live(wf'), resets)
    BY <2>1, <1>7 DEF Limited
  <2> QED BY <2>1, <2>2
<1>9. TypeOK'
  BY <1>1, <1>6 DEF TypeOK, WfTable, StageTable
<1> QED BY <1>4, <1>8, <1>9 DEF OrchestratorInv

(* What the transition tables say of the states that matter here.          *)
LEMMA MovesAre ==
  /\ \A from \in WfTerminal : WfMoves[from] = {}
  /\ WfTerminal \subseteq WfStates
  /\ {"TIMEOUT", "SUCCEEDED", "FAILED", "PARTIALLY_SUCCEEDED"} \subseteq WfMoves["ACTIVE"]
  /\ \A from \in StageTerminal : StageMoves[from] = {}
  /\ StageTerminal \subseteq StageStates
  /\ \A from \in StageStates \ Begun : StageMoves[from] \cap Begun \subseteq {"DEPS_SATISFIED"}
<1>1. WfTerminal \subseteq WfStates /\ StageTerminal \subseteq StageStates
  BY DEF WfTerminal, WfStates, StageTerminal, StageStates
<1>2. \A from \in WfTerminal : WfMoves[from] = {}
  BY DEF WfMoves, WfTerminal, WfStates
<1>3. \A from \in StageTerminal : StageMoves[from] = {}
  BY DEF StageMoves, StageTerminal, StageStates
<1>4. {"TIMEOUT", "SUCCEEDED", "FAILED", "PARTIALLY_SUCCEEDED"} \subseteq WfMoves["ACTIVE"]
  BY DEF WfMoves, WfStates
<1>5. \A from \in StageStates \ Begun : StageMoves[from] \cap Begun \subseteq {"DEPS_SATISFIED"}
  BY DEF StageMoves, StageStates, Begun
<1> QED BY <1>1, <1>2, <1>3, <1>4, <1>5

LEMMA MovedIs ==
  ASSUME NEW r \in Workflow, NEW to \in WfStates
  PROVE  /\ Moved(r, to) \in Workflow
         /\ Moved(r, to).state \in {r.state, to}
         /\ r.state \in WfTerminal => Moved(r, to) = r
         /\ to \in WfMoves[r.state] => Moved(r, to).state = to
<1>1. [r EXCEPT !.state = to] \in Workflow /\ [r EXCEPT !.state = to].state = to
  BY DEF Workflow
<1>2. r.state \in WfTerminal => to \notin WfMoves[r.state]
  BY MovesAre
<1> QED BY <1>1, <1>2 DEF Moved

(* What no call but the tick does: undo an end, judge, or let a stage go.  *)
EndsStay ==
  /\ \A w \in Held(wf) : wf[w].state \in WfTerminal =>
       wf'[w] = None \/ wf'[w].state = wf[w].state
  /\ \A s \in Held(stage) : stage[s].state \in StageTerminal =>
       stage'[s] = None \/ stage'[s].state = stage[s].state
JudgesNone ==
  \A w \in Held(wf) : wf[w].state = "ACTIVE" /\ wf'[w] # None =>
    wf'[w].state \notin {"SUCCEEDED", "PARTIALLY_SUCCEEDED", "FAILED"}
LetsNoneGo ==
  \A s \in Held(stage) : stage[s].state \notin Begun /\ stage'[s] # None =>
    stage'[s].state \notin Begun \/ \A d \in binding' : d[2] # s
BindsWaiting == \A d \in binding' : d \in binding \/ stage'[d[2]].state \notin Begun
Harmless == OrchestratorInv' /\ EndsStay /\ JudgesNone /\ LetsNoneGo /\ BindsWaiting

(* One workflow gets another state, the stages as they are.                *)
LEMMA OneMoves ==
  ASSUME OrchestratorInv, NEW w \in Workflows, wf[w] # None, NEW r \in Workflow,
         wf' = [wf EXCEPT ![w] = r], stage' = stage, deps' = deps, binding' = binding,
         active' = active, resets' = resets,
         wf[w].state \in WfTerminal => r.state = wf[w].state,
         wf[w].state = "ACTIVE" => r.state \notin {"SUCCEEDED", "PARTIALLY_SUCCEEDED", "FAILED"}
  PROVE  Harmless
<1>1. /\ wf \in WfTable /\ stage \in StageTable
      /\ Held(wf) = {v \in Workflows : wf[v] # None}
      /\ Held(stage) = {s \in Stages : stage[s] # None}
  BY TypedTables DEF OrchestratorInv
<1>2. /\ wf' \in WfTable /\ r # None /\ wf'[w] = r
      /\ \A v \in Workflows : v # w => wf'[v] = wf[v]
  BY <1>1, NoneIsNoRecord DEF WfTable
<1>3. /\ \A v \in Workflows : wf'[v] = None <=> wf[v] = None
      /\ \A v \in Held(wf) : wf[v].state \in WfTerminal => wf'[v].state \in WfTerminal
  BY <1>1, <1>2
<1>4. OrchestratorInv'
  BY <1>1, <1>2, <1>3, SameSlots DEF OrchestratorInv, TypeOK
<1>5. EndsStay /\ JudgesNone
  BY <1>1, <1>2 DEF EndsStay, JudgesNone
<1>6. LetsNoneGo /\ BindsWaiting
  BY DEF LetsNoneGo, BindsWaiting
<1> QED BY <1>4, <1>5, <1>6 DEF Harmless

LEMMA MoveIsHarmless ==
  ASSUME OrchestratorInv, NEW w \in Workflows, NEW from, NEW to \in WfStates, Move(w, from, to),
         to \notin {"SUCCEEDED", "PARTIALLY_SUCCEEDED", "FAILED"}
  PROVE  Harmless
<1>1. wf[w] \in Workflow /\ wf[w] # None /\ wf[w].state \in from
  BY TypedTables DEF OrchestratorInv, Move
<1> DEFINE r == Moved(wf[w], to)
<1>2. r \in Workflow /\ r.state \in {wf[w].state, to} /\ (wf[w].state \in WfTerminal => r = wf[w])
  BY <1>1, MovedIs
<1>3. wf' = [wf EXCEPT ![w] = r] /\ stage' = stage /\ deps' = deps /\ binding' = binding
      /\ active' = active /\ resets' = resets
  BY DEF Move
<1> HIDE DEF r
<1>4. wf[w].state = "ACTIVE" => r.state \notin {"SUCCEEDED", "PARTIALLY_SUCCEEDED", "FAILED"}
  BY <1>2
<1> QED BY <1>1, <1>2, <1>3, <1>4, OneMoves

LEMMA ValidateIsHarmless ==
  ASSUME OrchestratorInv, NEW w \in Workflows, NEW outcome \in {"VALIDATING", "REJECTED"},
         Validate(w, outcome)
  PROVE  Harmless
<1> DEFINE r == [wf[w] EXCEPT !.state = outcome]
<1>1. wf[w] \in Workflow /\ wf[w] # None /\ wf[w].state \in {"CREATED", "VALIDATING"}
  BY TypedTables DEF OrchestratorInv, Validate
<1>2. r \in Workflow /\ r.state = outcome
  BY <1>1 DEF Workflow, WfStates
<1>3. wf' = [wf EXCEPT ![w] = r] /\ stage' = stage /\ deps' = deps /\ binding' = binding
      /\ active' = active /\ resets' = resets
  BY DEF Validate
<1> HIDE DEF r
<1>4. wf[w].state \notin WfTerminal /\ wf[w].state # "ACTIVE"
  BY <1>1 DEF WfTerminal
<1> QED BY <1>1, <1>2, <1>3, <1>4, OneMoves

LEMMA StartIsHarmless ==
  ASSUME OrchestratorInv, NEW w \in Workflows, Start(w)
  PROVE  Harmless
<1> DEFINE r == [wf[w] EXCEPT !.state = "ACTIVE", !.age = 0]
<1>1. wf[w] \in Workflow /\ wf[w] # None /\ wf[w].state \in {"SCHEDULED", "RESUMING"}
      /\ WorkflowTimeout \in Nat
  BY TypedTables DEF OrchestratorInv, Start
<1>2. r \in Workflow
  <2>1. 0 \in 0 .. WorkflowTimeout + 1 /\ "ACTIVE" \in WfStates
    BY <1>1 DEF WfStates
  <2> QED BY <1>1, <2>1 DEF Workflow
<1>3. wf' = [wf EXCEPT ![w] = r]
  BY <1>1 DEF Start
<1>4. stage' = stage /\ deps' = deps /\ binding' = binding /\ active' = active
      /\ resets' = resets
  BY DEF Start
<1> HIDE DEF r
<1>5. wf[w].state \notin WfTerminal /\ wf[w].state # "ACTIVE"
  BY <1>1 DEF WfTerminal
<1> QED BY <1>1, <1>2, <1>3, <1>4, <1>5, OneMoves

(* Stages that are moved on, by anybody but the tick.                      *)
To(r, to) == [r EXCEPT !.state = to, !.age = 0]
MovedOn(s) ==
  \/ stage'[s] = stage[s]
  \/ /\ stage[s] # None /\ stage[s].state \notin StageTerminal
     /\ \E to \in StageStates :
          /\ stage'[s] = To(stage[s], to)
          /\ \/ stage[s].state \in Begun \/ to \notin Begun
             \/ \A d \in binding' : d[2] # s

LEMMA StagesMoveOn ==
  ASSUME TypeOK, stage' = [s \in Stages |-> stage'[s]], \A s \in Stages : MovedOn(s)
  PROVE  /\ stage' \in StageTable
         /\ \A s \in Stages : stage'[s] = None <=> stage[s] = None
         /\ \A s \in Held(stage) : stage'[s].of = stage[s].of
         /\ \A s \in Held(stage) : stage[s].state \in StageTerminal => stage'[s] = stage[s]
         /\ LetsNoneGo
<1>1. /\ stage \in StageTable /\ StageTimeout \in Nat
      /\ Held(stage) = {s \in Stages : stage[s] # None}
      /\ \A s \in Stages : stage[s] # None => stage[s] \in Stage
  BY TypedTables
<1>2. ASSUME NEW r \in Stage, NEW to \in StageStates
      PROVE  /\ To(r, to) \in Stage /\ To(r, to).of = r.of /\ To(r, to).state = to
             /\ To(r, to) # None
  <2>1. 0 \in 0 .. StageTimeout + 1
    BY <1>1
  <2>2. To(r, to) \in Stage /\ To(r, to).of = r.of /\ To(r, to).state = to
    BY <2>1 DEF To, Stage
  <2> QED BY <2>2, NoneIsNoRecord
<1>3. ASSUME NEW s \in Stages
      PROVE  /\ stage'[s] \in Stage \cup {None}
             /\ stage'[s] = None <=> stage[s] = None
             /\ stage[s] # None => stage'[s].of = stage[s].of
             /\ stage[s] # None /\ stage[s].state \in StageTerminal => stage'[s] = stage[s]
             /\ stage[s] # None /\ stage[s].state \notin Begun =>
                  stage'[s].state \notin Begun \/ \A d \in binding' : d[2] # s
  <2>1. CASE stage'[s] = stage[s]
    BY <1>1, <2>1 DEF StageTable
  <2>2. CASE stage'[s] # stage[s]
    <3>1. PICK to \in StageStates :
            /\ stage[s] # None /\ stage[s].state \notin StageTerminal
            /\ stage'[s] = To(stage[s], to)
            /\ \/ stage[s].state \in Begun \/ to \notin Begun
               \/ \A d \in binding' : d[2] # s
      BY <2>2 DEF MovedOn
    <3>2. stage[s] \in Stage
      BY <1>1, <3>1
    <3>3. /\ stage'[s] \in Stage /\ stage'[s].of = stage[s].of /\ stage'[s].state = to
          /\ stage'[s] # None
      BY <1>2, <3>1, <3>2
    <3> QED BY <3>1, <3>3
  <2> QED BY <2>1, <2>2
<1>4. stage' \in StageTable
  BY <1>3 DEF StageTable
<1> QED BY <1>1, <1>3, <1>4 DEF LetsNoneGo

LEMMA OneMovesWithStages ==
  ASSUME OrchestratorInv, NEW w \in Workflows, wf[w] # None, NEW r \in Workflow,
         wf' = [wf EXCEPT ![w] = r],
         stage' = [s \in Stages |-> stage'[s]], \A s \in Stages : MovedOn(s),
         deps' = deps, binding' = binding, active' = active \/ active' = Live(wf'),
         resets' = resets, wf[w].state \in WfTerminal => r.state = wf[w].state,
         wf[w].state = "ACTIVE" => r.state \notin {"SUCCEEDED", "PARTIALLY_SUCCEEDED", "FAILED"}
  PROVE  Harmless
<1>1. /\ wf \in WfTable /\ stage \in StageTable /\ TypeOK
      /\ Held(wf) = {v \in Workflows : wf[v] # None}
      /\ Held(stage) = {s \in Stages : stage[s] # None}
  BY TypedTables DEF OrchestratorInv
<1>2. /\ wf' \in WfTable /\ r # None /\ wf'[w] = r
      /\ \A v \in Workflows : v # w => wf'[v] = wf[v]
  BY <1>1, NoneIsNoRecord DEF WfTable
<1>3. /\ \A v \in Workflows : wf'[v] = None <=> wf[v] = None
      /\ \A v \in Held(wf) : wf[v].state \in WfTerminal => wf'[v].state \in WfTerminal
  BY <1>1, <1>2
<1>4. /\ stage' \in StageTable
      /\ \A s \in Stages : stage'[s] = None <=> stage[s] = None
      /\ \A s \in Held(stage) : stage'[s].of = stage[s].of
      /\ \A s \in Held(stage) : stage[s].state \in StageTerminal => stage'[s] = stage[s]
      /\ LetsNoneGo
  BY <1>1, StagesMoveOn
<1>5. OrchestratorInv'
  <2>1. binding' \subseteq deps'
    BY <1>1 DEF TypeOK
  <2> QED BY <1>1, <1>2, <1>3, <1>4, <2>1, SameSlots
<1>6. EndsStay /\ JudgesNone
  BY <1>1, <1>2, <1>4 DEF EndsStay, JudgesNone
<1>7. BindsWaiting
  BY DEF BindsWaiting
<1> QED BY <1>4, <1>5, <1>6, <1>7 DEF Harmless

LEMMA CancelIsHarmless ==
  ASSUME OrchestratorInv, NEW w \in Workflows, Cancel(w)
  PROVE  Harmless
<1>1. /\ wf[w] # None /\ wf[w].state \notin WfTerminal
      /\ wf' = [wf EXCEPT ![w] = Moved(wf[w], "CANCELLED")]
      /\ stage' = [s \in Stages |->
                    IF s \in StagesOf(w) /\ stage[s].state \notin StageTerminal
                    THEN To(stage[s], "CANCELLED") ELSE stage[s]]
      /\ active' = Live(wf') /\ deps' = deps /\ binding' = binding /\ resets' = resets
  BY DEF Cancel, CancelWith, To
<1> DEFINE r == Moved(wf[w], "CANCELLED")
<1>2. r \in Workflow /\ r.state \in {wf[w].state, "CANCELLED"}
  <2>1. wf[w] \in Workflow
    BY <1>1, TypedTables DEF OrchestratorInv
  <2> QED BY <2>1, MovedIs DEF WfStates
<1> HIDE DEF r
<1>3. \A s \in Stages : MovedOn(s)
  BY <1>1 DEF MovedOn, StageStates, StagesOf, Held, Begun
<1>4. stage' = [s \in Stages |-> stage'[s]]
  BY <1>1
<1>5. wf' = [wf EXCEPT ![w] = r]
  BY <1>1 DEF r
<1>6. wf[w].state = "ACTIVE" => r.state \notin {"SUCCEEDED", "PARTIALLY_SUCCEEDED", "FAILED"}
  BY <1>2
<1> QED BY <1>1, <1>2, <1>3, <1>4, <1>5, <1>6, OneMovesWithStages

LEMMA StopIsHarmless ==
  ASSUME OrchestratorInv, NEW w \in Workflows, Stop(w)
  PROVE  Harmless
<1> DEFINE r == [wf[w] EXCEPT !.state = "SUCCEEDED"]
<1>1. /\ wf[w] # None /\ wf[w].state = "DRAINING"
      /\ wf' = [wf EXCEPT ![w] = r]
      /\ stage' = [s \in Stages |->
                    IF s \in StagesOf(w) /\ stage[s].state = "RUNNING"
                    THEN To(stage[s], "COMPLETED") ELSE stage[s]]
      /\ active' = Live(wf') /\ deps' = deps /\ binding' = binding /\ resets' = resets
  BY DEF Stop, To
<1>2. r \in Workflow
  <2>1. wf[w] \in Workflow
    BY <1>1, TypedTables DEF OrchestratorInv
  <2> QED BY <2>1 DEF Workflow, WfStates
<1> HIDE DEF r
<1>3. \A s \in Stages : MovedOn(s)
  BY <1>1 DEF MovedOn, StageStates, StageTerminal, StagesOf, Held, Begun
<1>4. stage' = [s \in Stages |-> stage'[s]]
  BY <1>1
<1>5. wf[w].state \notin WfTerminal
  BY <1>1 DEF WfTerminal
<1> QED BY <1>1, <1>2, <1>3, <1>4, <1>5, OneMovesWithStages

LEMMA ReportIsHarmless ==
  ASSUME OrchestratorInv, NEW s \in Stages, NEW to \in StageStates, SetStageState(s, to)
  PROVE  Harmless
<1>1. /\ stage[s] # None /\ to \in StageMoves[stage[s].state]
      /\ stage' = [stage EXCEPT ![s] = To(stage[s], to)]
      /\ wf' = wf /\ deps' = deps /\ active' = active /\ resets' = resets
      /\ binding' = {d \in binding : to = "DEPS_SATISFIED" => d[2] # s}
  BY DEF SetStageState, To
<1>2. TypeOK /\ stage \in StageTable /\ stage = [q \in Stages |-> stage[q]] /\ wf \in WfTable
  BY TypedTables DEF OrchestratorInv, StageTable
<1>3. stage[s].state \notin StageTerminal
      /\ \/ stage[s].state \in Begun \/ to \notin Begun
         \/ \A d \in binding' : d[2] # s
  <2>1. stage[s] \in Stage
    BY <1>1, <1>2, TypedTables
  <2>2. stage[s].state \in StageStates
    BY <2>1 DEF Stage
  <2>3. stage[s].state \notin Begun /\ to \in Begun => to = "DEPS_SATISFIED"
    BY <1>1, <2>2, MovesAre
  <2> QED BY <1>1, <2>3, MovesAre
<1>4. /\ stage' = [q \in Stages |-> stage'[q]] /\ stage'[s] = To(stage[s], to)
      /\ \A q \in Stages : q # s => stage'[q] = stage[q]
  BY <1>1, <1>2
<1>5. \A q \in Stages : MovedOn(q)
  BY <1>1, <1>3, <1>4 DEF MovedOn
<1>6. /\ stage' \in StageTable
      /\ \A q \in Stages : stage'[q] = None <=> stage[q] = None
      /\ \A q \in Held(stage) : stage'[q].of = stage[q].of
      /\ \A q \in Held(stage) : stage[q].state \in StageTerminal => stage'[q] = stage[q]
      /\ LetsNoneGo
  BY <1>2, <1>4, <1>5, StagesMoveOn
<1>7. OrchestratorInv'
  <2>1. binding' \subseteq deps'
    BY <1>1, <1>2 DEF TypeOK
  <2> QED BY <1>1, <1>2, <1>6, <2>1, SameSlots
<1>8. EndsStay /\ JudgesNone
  BY <1>1, <1>6 DEF EndsStay, JudgesNone
<1>9. BindsWaiting
  BY <1>1 DEF BindsWaiting
<1> QED BY <1>6, <1>7, <1>8, <1>9 DEF Harmless

(* The count of the live workflows, where none comes to life.              *)
LEMMA Counted ==
  ASSUME OrchestratorInv, wf' \in WfTable, LiveIn(wf') \subseteq LiveIn(wf),
         active' = active \/ active' = Live(wf'), resets' = resets
  PROVE  /\ Limited(Live(wf'), active', resets')
         /\ active' \in 0 .. MaxWorkflows /\ resets' \in 0 .. MaxResets
<1>1. TypeOK /\ Limited(Live(wf), active, resets)
  BY DEF OrchestratorInv
<1>2. /\ wf \in WfTable /\ active \in Nat /\ resets \in Nat /\ MaxConcurrent \in Nat
  BY <1>1, TypedTables
<1>3. Live(wf') <= Live(wf) /\ Live(wf') \in 0..MaxWorkflows /\ Live(wf) \in 0..MaxWorkflows
  BY <1>2, FewerLive, LiveIs
<1>4. Live(wf') \in Nat /\ Live(wf) \in Nat
  BY <1>3, WorkflowAssumption
<1>5. Limited(Live(wf'), active, resets)
  BY <1>1, <1>2, <1>3, <1>4 DEF Limited
<1>6. Limited(Live(wf'), Live(wf'), resets)
  BY <1>5, <1>4 DEF Limited
<1>7. active' \in 0 .. MaxWorkflows /\ resets' \in 0 .. MaxResets
  BY <1>1, <1>3 DEF TypeOK
<1> QED BY <1>5, <1>6, <1>7

LEMMA ForgetIsHarmless ==
  ASSUME OrchestratorInv, NEW gone, gone \subseteq Workflows, Forget(gone),
         active' = active \/ active' = Live(wf'), resets' = resets
  PROVE  Harmless
<1>1. /\ wf \in WfTable /\ stage \in StageTable /\ TypeOK /\ NoDangling
      /\ Held(wf) = {v \in Workflows : wf[v] # None}
      /\ Held(stage) = {s \in Stages : stage[s] # None}
  BY TypedTables DEF OrchestratorInv
<1>2. /\ \A w \in Workflows : wf'[w] = IF w \in gone THEN None ELSE wf[w]
      /\ wf' \in WfTable
  BY <1>1 DEF Forget, WfTable
<1>3. /\ \A s \in Stages : stage'[s] = IF s \in Held(stage) /\ stage[s].of \in gone
                                       THEN None ELSE stage[s]
      /\ stage' \in StageTable
  BY <1>1 DEF Forget, StageTable
<1>4. deps' = {d \in deps : stage[d[1]].of \notin gone} /\ binding' = binding \cap deps'
  BY DEF Forget
<1>5. /\ Held(wf') = {v \in Workflows : wf'[v] # None}
      /\ Held(stage') = {s \in Stages : stage'[s] # None}
  BY <1>2, <1>3 DEF Held, WfTable, StageTable
<1>6. /\ \A s \in Held(stage') : s \in Held(stage) /\ stage'[s] = stage[s]
                                 /\ stage[s].of \notin gone
      /\ \A s \in Held(stage) : stage[s].of \notin gone => s \in Held(stage')
  BY <1>1, <1>3, <1>5
<1>7. NoDangling'
  <2>1. ASSUME NEW s \in Held(stage')
        PROVE  stage'[s].of \in Held(wf')
    <3>1. stage'[s] = stage[s] /\ stage[s].of \in Held(wf) /\ stage[s].of \notin gone
      BY <1>1, <1>6 DEF NoDangling
    <3> QED BY <1>1, <1>2, <1>5, <3>1
  <2>2. ASSUME NEW d \in deps'
        PROVE  {d[1], d[2]} \subseteq Held(stage') /\ stage'[d[1]].of = stage'[d[2]].of
    <3>1. /\ d[1] \in Held(stage) /\ d[2] \in Held(stage) /\ stage[d[1]].of = stage[d[2]].of
          /\ stage[d[1]].of \notin gone
      BY <1>1, <1>4 DEF NoDangling
    <3> QED BY <1>6, <3>1
  <2> QED BY <2>1, <2>2 DEF NoDangling
<1>8. LiveIn(wf') \subseteq LiveIn(wf)
  BY <1>1, <1>2, <1>5 DEF LiveIn
<1>9. /\ Limited(Live(wf'), active', resets')
      /\ active' \in 0 .. MaxWorkflows /\ resets' \in 0 .. MaxResets
  BY <1>2, <1>8, Counted
<1>10. TypeOK'
  BY <1>1, <1>2, <1>3, <1>4, <1>9 DEF TypeOK, WfTable, StageTable
<1>11. OrchestratorInv'
  BY <1>7, <1>9, <1>10 DEF OrchestratorInv
<1>12. EndsStay /\ JudgesNone
  BY <1>1, <1>2, <1>3 DEF EndsStay, JudgesNone
<1>13. LetsNoneGo /\ BindsWaiting
  BY <1>1, <1>3, <1>4 DEF LetsNoneGo, BindsWaiting
<1> QED BY <1>11, <1>12, <1>13 DEF Harmless

LEMMA RemovalsAreHarmless ==
  ASSUME OrchestratorInv, (\E w \in Workflows : RemoveWorkflow(w)) \/ CleanupTerminal \/ CleanupAll
  PROVE  Harmless
<1>1. CASE \E w \in Workflows : RemoveWorkflow(w)
  BY <1>1, ForgetIsHarmless DEF RemoveWorkflow
<1>2. CASE CleanupTerminal
  <2>1. Held(wf) \subseteq Workflows
    BY TypedTables DEF OrchestratorInv
  <2> DEFINE gone == {w \in Held(wf) : wf[w].state \in WfTerminal}
  <2>2. gone \subseteq Workflows
    BY <2>1
  <2>3. Forget(gone) /\ active' = Live(wf') /\ resets' = resets
    BY <1>2 DEF CleanupTerminal
  <2> HIDE DEF gone
  <2> QED BY <2>2, <2>3, ForgetIsHarmless
<1>3. CASE CleanupAll
  <2>1. Forget(Workflows) /\ active' = 0 /\ resets' = resets
    BY <1>3 DEF CleanupAll
  <2>2. wf' = [w \in Workflows |-> None]
    BY <2>1 DEF Forget
  <2>3. LiveIn(wf') = {} /\ wf' \in WfTable
    BY <2>2 DEF LiveIn, Held, WfTable
  <2>4. Live(wf') = 0
    BY <2>3, LiveIs, FS_EmptySet
  <2> QED BY <2>1, <2>4, ForgetIsHarmless
<1> QED BY <1>1, <1>2, <1>3

LEMMA CreateIsHarmless ==
  ASSUME OrchestratorInv, NEW w \in Workflows, Create(w)
  PROVE  Harmless
<1> DEFINE r == [state |-> "CREATED", staged |-> FALSE, age |-> 0]
<1>1. /\ wf \in WfTable /\ stage \in StageTable /\ TypeOK /\ NoDangling
      /\ Limited(Live(wf), active, resets)
      /\ Held(wf) = {v \in Workflows : wf[v] # None}
      /\ Held(stage) = {s \in Stages : stage[s] # None}
      /\ active \in Nat /\ resets \in Nat /\ MaxConcurrent \in Nat /\ WorkflowTimeout \in Nat
      /\ MaxWorkflows \in Nat
  BY TypedTables DEF OrchestratorInv
<1>2. /\ active < MaxConcurrent /\ wf[w] = None /\ wf' = [wf EXCEPT ![w] = r]
      /\ active' = Live(wf') /\ stage' = stage /\ deps' = deps
      /\ binding' = binding /\ resets' = resets
  BY DEF Create, IsFirstFree
<1>3. r \in Workflow /\ r.state \notin WfTerminal /\ r # None
  <2>1. 0 \in 0 .. WorkflowTimeout + 1
    BY <1>1
  <2>2. r \in Workflow /\ r.state \notin WfTerminal
    BY <2>1 DEF Workflow, WfStates, WfTerminal
  <2> QED BY <2>2, NoneIsNoRecord
<1> HIDE DEF r
<1>4. /\ wf' \in WfTable /\ wf'[w] = r
      /\ \A v \in Workflows : v # w => wf'[v] = wf[v]
      /\ Held(wf') = {v \in Workflows : wf'[v] # None}
  BY <1>1, <1>2, <1>3 DEF WfTable, Held
<1>5. LiveIn(wf') = LiveIn(wf) \cup {w} /\ w \notin LiveIn(wf)
  BY <1>1, <1>2, <1>3, <1>4 DEF LiveIn
<1>6. /\ Live(wf') = Live(wf) + 1 /\ Live(wf') \in 0 .. MaxWorkflows
      /\ Live(wf) \in 0 .. MaxWorkflows
  BY <1>1, <1>4, <1>5, OneMoreLive, LiveIs
<1>7. Live(wf) < MaxConcurrent + resets
  BY <1>1, <1>2, <1>6 DEF Limited
<1>8. Limited(Live(wf'), active', resets')
  BY <1>1, <1>2, <1>6, <1>7 DEF Limited
<1>9. TypeOK'
  BY <1>1, <1>2, <1>4, <1>6 DEF TypeOK, WfTable, StageTable
<1>10. NoDangling'
  BY <1>1, <1>2, <1>4 DEF NoDangling
<1>11. OrchestratorInv'
  BY <1>8, <1>9, <1>10 DEF OrchestratorInv
<1>12. EndsStay /\ JudgesNone
  BY <1>1, <1>2, <1>4 DEF EndsStay, JudgesNone
<1>13. LetsNoneGo /\ BindsWaiting
  BY <1>2 DEF LetsNoneGo, BindsWaiting
<1> QED BY <1>11, <1>12, <1>13 DEF Harmless

LEMMA AddStageIsHarmless ==
  ASSUME OrchestratorInv, NEW w \in Workflows, NEW s \in Stages, AddStage(w, s)
  PROVE  Harmless
<1> DEFINE n == [of |-> w, state |-> "CREATED", age |-> 0]
<1> DEFINE r == [wf[w] EXCEPT !.staged = TRUE]
<1>1. /\ wf \in WfTable /\ stage \in StageTable /\ TypeOK /\ NoDangling
      /\ Held(wf) = {v \in Workflows : wf[v] # None}
      /\ Held(stage) = {q \in Stages : stage[q] # None}
      /\ \A v \in Workflows : wf[v] # None => wf[v] \in Workflow
      /\ StageTimeout \in Nat
  BY TypedTables DEF OrchestratorInv
<1>2. /\ wf[w] # None /\ wf[w].state \notin WfTerminal /\ stage[s] = None
      /\ stage' = [stage EXCEPT ![s] = n] /\ wf' = [wf EXCEPT ![w] = r]
      /\ deps' = deps /\ binding' = binding /\ active' = active /\ resets' = resets
  BY DEF AddStage, IsFirstFree
<1>3. r \in Workflow /\ r.state = wf[w].state /\ r # None
  <2>1. r \in Workflow /\ r.state = wf[w].state
    BY <1>1, <1>2 DEF Workflow
  <2> QED BY <2>1, NoneIsNoRecord
<1>4. n \in Stage /\ n.of = w /\ n # None
  <2>1. 0 \in 0 .. StageTimeout + 1
    BY <1>1
  <2>2. n \in Stage /\ n.of = w
    BY <2>1 DEF Stage, StageStates
  <2> QED BY <2>2, NoneIsNoRecord
<1> HIDE DEF n, r
<1>5. /\ wf' \in WfTable /\ wf'[w] = r
      /\ \A v \in Workflows : v # w => wf'[v] = wf[v]
  BY <1>1, <1>2, <1>3 DEF WfTable
<1>6. /\ stage' \in StageTable /\ stage'[s] = n
      /\ \A q \in Stages : q # s => stage'[q] = stage[q]
  BY <1>1, <1>2, <1>4 DEF StageTable
<1>7. Held(wf') = Held(wf) /\ Held(stage') = Held(stage) \cup {s} /\ s \notin Held(stage)
  BY <1>1, <1>2, <1>3, <1>4, <1>5, <1>6 DEF Held, WfTable, StageTable
<1>8. LiveIn(wf') \subseteq LiveIn(wf)
  BY <1>1, <1>3, <1>5, <1>7 DEF LiveIn
<1>9. /\ Limited(Live(wf'), active', resets')
      /\ active' \in 0 .. MaxWorkflows /\ resets' \in 0 .. MaxResets
  BY <1>2, <1>5, <1>8, Counted
<1>10. NoDangling'
  <2>1. ASSUME NEW q \in Held(stage')
        PROVE  stage'[q].of \in Held(wf')
    BY <1>1, <1>2, <1>4, <1>6, <1>7 DEF NoDangling
  <2>2. ASSUME NEW d \in deps'
        PROVE  {d[1], d[2]} \subseteq Held(stage') /\ stage'[d[1]].of = stage'[d[2]].of
    <3>1. d[1] \in Held(stage) /\ d[2] \in Held(stage) /\ stage[d[1]].of = stage[d[2]].of
      BY <1>1, <1>2 DEF NoDangling
    <3> QED BY <1>1, <1>6, <1>7, <3>1
  <2> QED BY <2>1, <2>2 DEF NoDangling
<1>11. TypeOK'
  BY <1>1, <1>2, <1>5, <1>6, <1>9 DEF TypeOK, WfTable, StageTable
<1>12. OrchestratorInv'
  BY <1>9, <1>10, <1>11 DEF OrchestratorInv
<1>13. EndsStay /\ JudgesNone
  BY <1>1, <1>3, <1>5, <1>6, <1>7 DEF EndsStay, JudgesNone
<1>14. LetsNoneGo /\ BindsWaiting
  BY <1>1, <1>2, <1>6, <1>7 DEF LetsNoneGo, BindsWaiting
<1> QED BY <1>12, <1>13, <1>14 DEF Harmless

LEMMA RemoveStageIsHarmless ==
  ASSUME OrchestratorInv, NEW s \in Stages, RemoveStage(s)
  PROVE  Harmless
<1>1. /\ wf \in WfTable /\ stage \in StageTable /\ TypeOK /\ NoDangling
      /\ Held(stage) = {q \in Stages : stage[q] # None}
      /\ Limited(Live(wf), active, resets)
  BY TypedTables DEF OrchestratorInv
<1>2. /\ stage' = [stage EXCEPT ![s] = None] /\ deps' = {d \in deps : d[1] # s /\ d[2] # s}
      /\ binding' = binding \cap deps' /\ wf' = wf /\ active' = active /\ resets' = resets
  BY DEF RemoveStage, DependsOn
<1>3. /\ stage' \in StageTable /\ stage'[s] = None
      /\ \A q \in Stages : q # s => stage'[q] = stage[q]
  BY <1>1, <1>2 DEF StageTable
<1>4. Held(stage') = Held(stage) \ {s}
  BY <1>1, <1>3 DEF Held, StageTable
<1>5. NoDangling'
  <2>1. ASSUME NEW q \in Held(stage')
        PROVE  stage'[q].of \in Held(wf')
    BY <1>1, <1>2, <1>3, <1>4 DEF NoDangling
  <2>2. ASSUME NEW d \in deps'
        PROVE  {d[1], d[2]} \subseteq Held(stage') /\ stage'[d[1]].of = stage'[d[2]].of
    <3>1. d[1] \in Held(stage) /\ d[2] \in Held(stage) /\ stage[d[1]].of = stage[d[2]].of
          /\ d[1] # s /\ d[2] # s
      BY <1>1, <1>2 DEF NoDangling
    <3> QED BY <1>1, <1>3, <1>4, <3>1
  <2> QED BY <2>1, <2>2 DEF NoDangling
<1>6. TypeOK'
  BY <1>1, <1>2, <1>3 DEF TypeOK, StageTable
<1>7. Limited(Live(wf'), active', resets')
  BY <1>1, <1>2
<1>8. OrchestratorInv'
  BY <1>5, <1>6, <1>7 DEF OrchestratorInv
<1>9. EndsStay /\ JudgesNone /\ LetsNoneGo /\ BindsWaiting
  BY <1>1, <1>2, <1>3 DEF EndsStay, JudgesNone, LetsNoneGo, BindsWaiting
<1> QED BY <1>8, <1>9 DEF Harmless

(* Dependencies come between two held stages of one workflow; a reset lets *)
(* one workflow more in.                                                   *)
LEMMA RestIsHarmless ==
  ASSUME OrchestratorInv,
         \/ \E s, t \in Stages : AddDependency(s, t)
         \/ \E d \in deps : RemoveDependency(d)
         \/ CleanupExpired
         \/ ResetStats
         \/ UNCHANGED vars
  PROVE  Harmless
<1>1. /\ TypeOK /\ NoDangling /\ Limited(Live(wf), active, resets)
      /\ wf \in WfTable /\ active \in Nat /\ resets \in Nat /\ MaxConcurrent \in Nat
      /\ Held(stage) = {q \in Stages : stage[q] # None}
      /\ MaxWorkflows \in Nat /\ MaxResets \in Nat
  BY TypedTables, WorkflowAssumption DEF OrchestratorInv
<1>2. Live(wf) \in 0 .. MaxWorkflows
  BY <1>1, LiveIs
<1>3. wf' = wf /\ stage' = stage
  BY DEF AddDependency, RemoveDependency, CleanupExpired, ResetStats, vars
<1>4. EndsStay /\ JudgesNone /\ LetsNoneGo
  BY <1>3 DEF EndsStay, JudgesNone, LetsNoneGo
<1>5. CASE \E s, t \in Stages : AddDependency(s, t)
  <2>1. PICK s \in Stages, t \in Stages : AddDependency(s, t)
    BY <1>5
  <2>2. /\ s \in Held(stage) /\ t \in Held(stage) /\ stage[s].of = stage[t].of
        /\ deps' = deps \cup {<<s, t>>} /\ active' = active /\ resets' = resets
        /\ binding' = binding \cup {d \in {<<s, t>>} : stage[t].state \notin Begun}
    BY <2>1 DEF AddDependency
  <2>3. TypeOK'
    BY <1>1, <1>3, <2>2 DEF TypeOK
  <2>4. NoDangling'
    BY <1>1, <1>3, <2>2 DEF NoDangling
  <2>5. BindsWaiting
    BY <1>3, <2>2 DEF BindsWaiting
  <2> QED BY <1>1, <1>3, <1>4, <2>2, <2>3, <2>4, <2>5 DEF OrchestratorInv, Harmless
<1>6. CASE \E d \in deps : RemoveDependency(d)
  <2>1. PICK d \in deps : RemoveDependency(d)
    BY <1>6
  <2>2. /\ deps' = deps \ {d} /\ binding' = binding \ {d}
        /\ active' = active /\ resets' = resets
    BY <2>1 DEF RemoveDependency
  <2>3. TypeOK'
    BY <1>1, <1>3, <2>2 DEF TypeOK
  <2>4. NoDangling'
    BY <1>1, <1>3, <2>2 DEF NoDangling
  <2>5. BindsWaiting
    BY <2>2 DEF BindsWaiting
  <2> QED BY <1>1, <1>3, <1>4, <2>2, <2>3, <2>4, <2>5 DEF OrchestratorInv, Harmless
<1>7. CASE CleanupExpired
  <2>1. deps' = deps /\ binding' = binding /\ active' = Live(wf) /\ resets' = resets
    BY <1>7 DEF CleanupExpired
  <2>2. TypeOK'
    BY <1>1, <1>2, <1>3, <2>1 DEF TypeOK
  <2>3. NoDangling'
    BY <1>1, <1>3, <2>1 DEF NoDangling
  <2>4. Limited(Live(wf'), active', resets')
    BY <1>1, <1>2, <1>3, <2>1 DEF Limited
  <2> QED BY <1>4, <2>1, <2>2, <2>3, <2>4 DEF OrchestratorInv, Harmless, BindsWaiting
<1>8. CASE ResetStats
  <2>1. /\ deps' = deps /\ binding' = binding /\ active' = 0
        /\ resets' = resets + 1 /\ resets < MaxResets
    BY <1>8 DEF ResetStats
  <2>2. TypeOK'
    <3>1. active' \in 0 .. MaxWorkflows /\ resets' \in 0 .. MaxResets
      BY <1>1, <2>1
    <3> QED BY <1>1, <1>3, <2>1, <3>1 DEF TypeOK
  <2>3. NoDangling'
    BY <1>1, <1>3, <2>1 DEF NoDangling
  <2>4. Limited(Live(wf'), active', resets')
    BY <1>1, <1>2, <1>3, <2>1 DEF Limited
  <2> QED BY <1>4, <2>1, <2>2, <2>3, <2>4 DEF OrchestratorInv, Harmless, BindsWaiting
<1>9. CASE UNCHANGED vars
  <2>1. deps' = deps /\ binding' = binding /\ active' = active /\ resets' = resets
    BY <1>9 DEF vars
  <2>2. TypeOK' /\ NoDangling' /\ Limited(Live(wf'), active', resets')
    BY <1>1, <1>3, <2>1 DEF TypeOK, NoDangling
  <2> QED BY <1>4, <2>1, <2>2 DEF OrchestratorInv, Harmless, BindsWaiting
<1> QED BY <1>5, <1>6, <1>7, <1>8, <1>9

(* Time passes, for a running stage and an active workflow up to the first *)
(* age that is too old.                                                    *)
LEMMA ElapseIsHarmless ==
  ASSUME OrchestratorInv, Elapse
  PROVE  Harmless
<1>1. /\ wf \in WfTable /\ stage \in StageTable /\ TypeOK
      /\ Held(wf) = {v \in Workflows : wf[v] # None}
      /\ Held(stage) = {s \in Stages : stage[s] # None}
      /\ \A v \in Workflows : wf[v] # None => wf[v] \in Workflow
      /\ \A s \in Stages : stage[s] # None => stage[s] \in Stage
      /\ WorkflowTimeout \in Nat /\ StageTimeout \in Nat
  BY TypedTables DEF OrchestratorInv
<1>2. deps' = deps /\ binding' = binding /\ active' = active /\ resets' = resets
  BY DEF Elapse
<1>3. ASSUME NEW w \in Workflows
      PROVE  /\ wf'[w] \in Workflow \cup {None} /\ (wf'[w] = None <=> wf[w] = None)
             /\ wf[w] # None => wf'[w].state = wf[w].state
  <2> DEFINE r == [wf[w] EXCEPT !.age = @ + 1]
  <2>1. CASE wf[w] # None /\ wf[w].age <= WorkflowTimeout /\ wf'[w] = r
    <3>1. wf[w] \in Workflow /\ wf[w].age \in 0 .. WorkflowTimeout + 1
      BY <1>1, <2>1 DEF Workflow
    <3>2. wf[w].age + 1 \in 0 .. WorkflowTimeout + 1
      BY <1>1, <2>1, <3>1
    <3>3. r \in Workflow /\ r.state = wf[w].state
      BY <3>1, <3>2 DEF Workflow
    <3> QED BY <2>1, <3>3, NoneIsNoRecord
  <2>2. CASE wf'[w] = wf[w]
    BY <1>1, <2>2
  <2> QED BY <2>1, <2>2 DEF Elapse
<1>4. ASSUME NEW s \in Stages
      PROVE  /\ stage'[s] \in Stage \cup {None} /\ (stage'[s] = None <=> stage[s] = None)
             /\ stage[s] # None => stage'[s].state = stage[s].state /\ stage'[s].of = stage[s].of
  <2> DEFINE r == [stage[s] EXCEPT !.age = @ + 1]
  <2>1. CASE stage[s] # None /\ stage[s].age <= StageTimeout /\ stage'[s] = r
    <3>1. stage[s] \in Stage /\ stage[s].age \in 0 .. StageTimeout + 1
      BY <1>1, <2>1 DEF Stage
    <3>2. stage[s].age + 1 \in 0 .. StageTimeout + 1
      BY <1>1, <2>1, <3>1
    <3>3. r \in Stage /\ r.state = stage[s].state /\ r.of = stage[s].of
      BY <3>1, <3>2 DEF Stage
    <3> QED BY <2>1, <3>3, NoneIsNoRecord
  <2>2. CASE stage'[s] = stage[s]
    BY <1>1, <2>2
  <2> QED BY <2>1, <2>2 DEF Elapse
<1>5. wf' \in WfTable
  <2>1. wf' = [w \in Workflows |-> wf'[w]]
    BY DEF Elapse
  <2> QED BY <1>3, <2>1 DEF WfTable
<1>6. stage' \in StageTable
  <2>1. stage' = [s \in Stages |-> stage'[s]]
    BY DEF Elapse
  <2> QED BY <1>4, <2>1 DEF StageTable
<1>7. OrchestratorInv'
  <2>1. binding' \subseteq deps'
    BY <1>1, <1>2 DEF TypeOK
  <2> QED BY <1>1, <1>2, <1>3, <1>4, <1>5, <1>6, <2>1, SameSlots
<1>8. EndsStay /\ JudgesNone /\ LetsNoneGo /\ BindsWaiting
  BY <1>1, <1>2, <1>3, <1>4 DEF EndsStay, JudgesNone, LetsNoneGo, BindsWaiting
<1> QED BY <1>7, <1>8 DEF Harmless

(* One look at a stage keeps an end, and lets go only what need not wait.  *)
LEMMA AdvancedIs ==
  ASSUME TypeOK, NEW s \in Stages, stage[s] # None
  PROVE  /\ Advanced(s) \in Stage /\ Advanced(s).of = stage[s].of
         /\ stage[s].state \in StageTerminal => Advanced(s) = stage[s]
         /\ stage[s].state \notin Begun /\ Advanced(s).state \in Begun => DepsSatisfied(s)
<1>1. stage[s] \in Stage /\ StageTimeout \in Nat
  BY TypedTables
<1>2. 0 \in 0 .. StageTimeout + 1
  BY <1>1
<1> DEFINE first == [stage[s] EXCEPT !.state = IF DepsSatisfied(s) THEN "ELIGIBLE"
                                                             ELSE "WAITING_DEPS"]
           then  == [stage[s] EXCEPT !.state = "ELIGIBLE"]
           late  == [stage[s] EXCEPT !.state = "TIMED_OUT", !.age = 0]
<1>3. /\ first \in Stage /\ first.of = stage[s].of
      /\ first.state = IF DepsSatisfied(s) THEN "ELIGIBLE" ELSE "WAITING_DEPS"
  BY <1>1 DEF Stage, StageStates
<1>4. then \in Stage /\ then.of = stage[s].of
  BY <1>1 DEF Stage, StageStates
<1>5. late \in Stage /\ late.of = stage[s].of
  BY <1>1, <1>2 DEF Stage, StageStates
<1>6. CASE stage[s].state \in {"CREATED", "WAITING_DEPS"}
  <2>1. Advanced(s) = first
    BY <1>6 DEF Advanced
  <2>2. stage[s].state \notin StageTerminal
    BY <1>6 DEF StageTerminal
  <2> HIDE DEF first
  <2> QED BY <1>3, <2>1, <2>2 DEF Begun
<1>7. CASE stage[s].state = "DEPS_SATISFIED"
  <2>1. Advanced(s) = then
    BY <1>7 DEF Advanced
  <2>2. stage[s].state \notin StageTerminal
    BY <1>7 DEF StageTerminal
  <2> HIDE DEF then
  <2> QED BY <1>4, <1>7, <2>1, <2>2 DEF Begun
<1>8. CASE stage[s].state = "RUNNING" /\ stage[s].age > StageTimeout
  <2>1. Advanced(s) = late
    BY <1>8 DEF Advanced
  <2>2. stage[s].state \notin StageTerminal
    BY <1>8 DEF StageTerminal
  <2> HIDE DEF late
  <2> QED BY <1>5, <1>8, <2>1, <2>2 DEF Begun
<1>9. CASE /\ stage[s].state \notin {"CREATED", "WAITING_DEPS"}
           /\ stage[s].state # "DEPS_SATISFIED"
           /\ ~ (stage[s].state = "RUNNING" /\ stage[s].age > StageTimeout)
  <2>1. Advanced(s) = stage[s]
    BY <1>9 DEF Advanced
  <2> QED BY <1>1, <1>9, <2>1
<1> QED BY <1>6, <1>7, <1>8, <1>9

(* Where the tick takes a workflow, and what it makes of a stage.          *)
LEMMA TickMoves ==
  ASSUME TypeOK, Tick, NEW w \in Workflows
  PROVE  /\ Overdue(w) => wf'[w] = Moved(wf[w], "TIMEOUT")
         /\ Judged(w) => wf'[w] = Moved(wf[w], Verdict(w))
         /\ Aborted(w) => wf'[w] = Moved(wf[w], "FAILED")
         /\ ~ Overdue(w) /\ ~ Judged(w) /\ ~ Aborted(w) => wf'[w] = wf[w]
<1>1. wf'[w] = CASE Overdue(w) -> Moved(wf[w], "TIMEOUT")
                 [] Judged(w)  -> Moved(wf[w], Verdict(w))
                 [] Aborted(w) -> Moved(wf[w], "FAILED")
                 [] OTHER      -> wf[w]
  BY DEF Tick
<1>2. /\ Overdue(w) => ~ Judged(w) /\ ~ Aborted(w)
      /\ Judged(w) => ~ Aborted(w)
  BY DEF Examined, Judged, Aborted
<1> QED BY <1>1, <1>2

LEMMA TickMakes ==
  ASSUME TypeOK, Tick, NEW s \in Stages
  PROVE  /\ stage[s] = None => stage'[s] = None
         /\ stage[s] # None /\ ~ Examined(stage[s].of) => stage'[s] = stage[s]
         /\ stage[s] # None /\ Examined(stage[s].of) =>
              \/ stage'[s] = Advanced(s)
                 /\ (Aborted(stage[s].of) => Advanced(s).state \in StageTerminal)
              \/ /\ stage'[s] = To(stage[s], "BLOCKED") /\ Aborted(stage[s].of)
                 /\ Advanced(s).state \notin StageTerminal
<1>1. Held(stage) = {q \in Stages : stage[q] # None}
  BY TypedTables
<1>2. stage'[s] = IF s \notin Held(stage) \/ ~ Examined(stage[s].of) THEN stage[s]
                  ELSE IF Aborted(stage[s].of) /\ Advanced(s).state \notin StageTerminal
                       THEN To(stage[s], "BLOCKED") ELSE Advanced(s)
  BY DEF Tick, To
<1> QED BY <1>1, <1>2

LEMMA TickedStages ==
  ASSUME TypeOK, Tick
  PROVE  /\ stage' \in StageTable
         /\ \A s \in Stages : stage'[s] = None <=> stage[s] = None
         /\ \A s \in Held(stage) : stage'[s].of = stage[s].of
         /\ \A s \in Held(stage) : stage[s].state \in StageTerminal => stage'[s] = stage[s]
         /\ \A w \in Workflows : StagesOf(w)' = StagesOf(w)
<1>1. /\ stage \in StageTable /\ StageTimeout \in Nat
      /\ Held(stage) = {s \in Stages : stage[s] # None}
      /\ \A s \in Stages : stage[s] # None => stage[s] \in Stage
  BY TypedTables
<1>2. ASSUME NEW s \in Stages
      PROVE  /\ stage'[s] \in Stage \cup {None}
             /\ stage'[s] = None <=> stage[s] = None
             /\ stage[s] # None => stage'[s].of = stage[s].of
             /\ stage[s] # None /\ stage[s].state \in StageTerminal => stage'[s] = stage[s]
  <2>1. CASE stage[s] = None
    BY <2>1, TickMakes
  <2>2. CASE stage[s] # None /\ stage'[s] = stage[s]
    BY <1>1, <2>2
  <2>3. CASE stage[s] # None /\ stage'[s] = Advanced(s)
    <3>1. /\ Advanced(s) \in Stage /\ Advanced(s).of = stage[s].of
          /\ stage[s].state \in StageTerminal => Advanced(s) = stage[s]
      BY <2>3, AdvancedIs
    <3> QED BY <2>3, <3>1, NoneIsNoRecord
  <2>4. CASE /\ stage[s] # None /\ stage'[s] = To(stage[s], "BLOCKED")
             /\ Advanced(s).state \notin StageTerminal
    <3>1. stage[s] \in Stage /\ 0 \in 0 .. StageTimeout + 1
      BY <1>1, <2>4
    <3>2. To(stage[s], "BLOCKED") \in Stage /\ To(stage[s], "BLOCKED").of = stage[s].of
      BY <3>1 DEF To, Stage, StageStates
    <3>3. stage[s].state \notin StageTerminal
      BY <2>4, AdvancedIs
    <3> QED BY <2>4, <3>2, <3>3, NoneIsNoRecord
  <2> QED BY <2>1, <2>2, <2>3, <2>4, TickMakes
<1>3. stage' \in StageTable
  <2>1. stage' = [s \in Stages |-> stage'[s]]
    BY DEF Tick
  <2> QED BY <1>2, <2>1 DEF StageTable
<1>4. Held(stage') = Held(stage)
  BY <1>1, <1>2, <1>3 DEF Held, StageTable
<1>5. ASSUME NEW w \in Workflows
      PROVE  StagesOf(w)' = StagesOf(w)
  BY <1>1, <1>2, <1>4 DEF StagesOf
<1> QED BY <1>1, <1>2, <1>3, <1>5

LEMMA VerdictIs ==
  ASSUME NEW w \in Workflows
  PROVE  Verdict(w) \in {"SUCCEEDED", "PARTIALLY_SUCCEEDED", "FAILED"}
  BY DEF Verdict

LEMMA TickKeepsTables ==
  ASSUME OrchestratorInv, Tick
  PROVE  OrchestratorInv' /\ EndsStay
<1>1. /\ wf \in WfTable /\ stage \in StageTable /\ TypeOK
      /\ Held(wf) = {v \in Workflows : wf[v] # None}
      /\ Held(stage) = {s \in Stages : stage[s] # None}
      /\ \A v \in Workflows : wf[v] # None => wf[v] \in Workflow
  BY TypedTables DEF OrchestratorInv
<1>2. deps' = deps /\ binding' = binding /\ resets' = resets
      /\ (active' = active \/ active' = Live(wf'))
  BY DEF Tick
<1>3. ASSUME NEW w \in Workflows
      PROVE  /\ wf'[w] \in Workflow \cup {None} /\ (wf'[w] = None <=> wf[w] = None)
             /\ wf[w] # None /\ wf[w].state \in WfTerminal => wf'[w] = wf[w]
  <2>1. CASE wf'[w] = wf[w]
    BY <1>1, <2>1
  <2>2. CASE wf'[w] # wf[w]
    <3>1. wf[w] # None
      BY <2>2, <1>1, TickMoves DEF Overdue, Judged, Aborted, Examined
    <3>2. wf[w] \in Workflow
      BY <1>1, <3>1
    <3>3. \E to \in WfStates : wf'[w] = Moved(wf[w], to)
      <4>1. {"TIMEOUT", "FAILED", "SUCCEEDED", "PARTIALLY_SUCCEEDED"} \subseteq WfStates
        BY DEF WfStates
      <4> QED BY <2>2, <1>1, <4>1, TickMoves, VerdictIs
    <3> QED BY <3>1, <3>2, <3>3, MovedIs, NoneIsNoRecord
  <2> QED BY <2>1, <2>2
<1>4. wf' \in WfTable
  <2> DEFINE Ticked(w) == CASE Overdue(w) -> Moved(wf[w], "TIMEOUT")
                            [] Judged(w)  -> Moved(wf[w], Verdict(w))
                            [] Aborted(w) -> Moved(wf[w], "FAILED")
                            [] OTHER      -> wf[w]
  <2>1. wf' = [w \in Workflows |-> Ticked(w)]
    BY DEF Tick
  <2> HIDE DEF Ticked
  <2>2. wf' = [w \in Workflows |-> wf'[w]]
    BY <2>1
  <2> QED BY <1>3, <2>2 DEF WfTable
<1>5. /\ stage' \in StageTable
      /\ \A s \in Stages : stage'[s] = None <=> stage[s] = None
      /\ \A s \in Held(stage) : stage'[s].of = stage[s].of
      /\ \A s \in Held(stage) : stage[s].state \in StageTerminal => stage'[s] = stage[s]
  BY <1>1, TickedStages
<1>6. OrchestratorInv'
  <2>1. binding' \subseteq deps'
    BY <1>1, <1>2 DEF TypeOK
  <2> QED BY <1>1, <1>2, <1>3, <1>4, <1>5, <2>1, SameSlots
<1>7. EndsStay
  BY <1>1, <1>3, <1>5 DEF EndsStay
<1> QED BY <1>6, <1>7

(* The tick looks at what a stage depends on before it lets it go.         *)
LEMMA TickWaits ==
  ASSUME OrchestratorInv, Tick, NEW s \in Held(stage),
         stage[s].state \notin Begun, stage'[s].state \in Begun,
         NEW t \in Held(stage), <<t, s>> \in deps
  PROVE  stage[t].state \in {"COMPLETED", "SKIPPED"}
<1>1. /\ TypeOK /\ s \in Stages /\ stage[s] # None /\ stage[s] \in Stage
  BY TypedTables DEF OrchestratorInv
<1>2. To(stage[s], "BLOCKED").state \notin Begun
  BY <1>1 DEF To, Stage, Begun
<1>3. stage'[s] = Advanced(s)
  BY <1>1, <1>2, TickMakes
<1>4. DepsSatisfied(s)
  BY <1>1, <1>3, AdvancedIs
<1> QED BY <1>4 DEF DepsSatisfied

(* And what it says of an active workflow is what its stages did.          *)
LEMMA TickIsHonest ==
  ASSUME OrchestratorInv, Tick, NEW w \in Held(wf), wf[w].state = "ACTIVE",
         NEW verdict, verdict = wf'[w].state, NEW outcomes, outcomes = Outcomes(w)'
  PROVE  /\ verdict = "ACTIVE" => outcomes \cap {"FAILED", "TIMED_OUT"} = {}
         /\ verdict = "SUCCEEDED" => outcomes \subseteq StageTerminal \ {"FAILED"}
         /\ verdict = "PARTIALLY_SUCCEEDED" => {"COMPLETED", "FAILED"} \subseteq outcomes
         /\ verdict = "FAILED" => outcomes \cap {"FAILED", "TIMED_OUT"} # {}
<1>1. /\ TypeOK /\ w \in Workflows /\ wf[w] # None /\ wf[w] \in Workflow
      /\ Held(stage) = {s \in Stages : stage[s] # None}
  BY TypedTables DEF OrchestratorInv
<1>2. outcomes = {stage'[s].state : s \in StagesOf(w)}
  BY <1>1, TickedStages DEF Outcomes
<1>3. ASSUME NEW s \in StagesOf(w)
      PROVE  s \in Stages /\ stage[s] # None /\ stage[s].of = w
  BY <1>1 DEF StagesOf
<1>4. ASSUME ~ Overdue(w), NEW s \in StagesOf(w),
             ~ Aborted(w) \/ Advanced(s).state \in StageTerminal
      PROVE  stage'[s] = Advanced(s)
  <2>1. Examined(w)
    BY <1>1, <1>4 DEF Examined
  <2> QED BY <1>1, <1>3, <1>4, <2>1, TickMakes
<1>5. CASE Overdue(w)
  <2>1. verdict = "TIMEOUT"
    <3>1. "TIMEOUT" \in WfMoves[wf[w].state] /\ "TIMEOUT" \in WfStates
      BY MovesAre DEF WfStates
    <3>2. Moved(wf[w], "TIMEOUT").state = "TIMEOUT"
      BY <1>1, <3>1, MovedIs
    <3> QED BY <1>1, <1>5, <3>2, TickMoves
  <2> QED BY <2>1
<1>6. CASE Judged(w)
  <2>1. ~ Overdue(w) /\ ~ Aborted(w) /\ AllDone(w)
    BY <1>6 DEF Judged, Examined, Aborted
  <2>2. outcomes = StatesOf(w)
    BY <1>2, <1>4, <2>1 DEF StatesOf
  <2>3. verdict = Verdict(w)
    <3>1. Verdict(w) \in WfMoves[wf[w].state] /\ Verdict(w) \in WfStates
      BY <1>1, VerdictIs, MovesAre DEF WfStates
    <3>2. Moved(wf[w], Verdict(w)).state = Verdict(w)
      BY <1>1, <3>1, MovedIs
    <3> QED BY <1>1, <1>6, <3>2, TickMoves
  <2>4. StatesOf(w) \subseteq StageTerminal
    BY <2>1 DEF AllDone
  <2> QED BY <2>2, <2>3, <2>4 DEF Verdict
<1>7. CASE Aborted(w)
  <2>1. ~ Overdue(w) /\ AnyFailed(w)
    BY <1>7 DEF Examined, Aborted
  <2>2. PICK s \in StagesOf(w) : Advanced(s).state \in {"FAILED", "TIMED_OUT"}
    BY <2>1 DEF AnyFailed, StatesOf
  <2>3. stage'[s].state \in {"FAILED", "TIMED_OUT"}
    <3>1. Advanced(s).state \in StageTerminal
      BY <2>2 DEF StageTerminal
    <3> QED BY <1>4, <2>1, <2>2, <3>1
  <2>4. verdict = "FAILED"
    <3>1. "FAILED" \in WfMoves[wf[w].state] /\ "FAILED" \in WfStates
      BY MovesAre DEF WfStates
    <3>2. Moved(wf[w], "FAILED").state = "FAILED"
      BY <1>1, <3>1, MovedIs
    <3> QED BY <1>1, <1>7, <3>2, TickMoves
  <2> QED BY <1>2, <2>3, <2>4
<1>8. CASE ~ Overdue(w) /\ ~ Judged(w) /\ ~ Aborted(w)
  <2>1. wf'[w] = wf[w]
    BY <1>1, <1>8, TickMoves
  <2>2. Examined(w)
    BY <1>1, <1>8 DEF Examined
  <2>3. ~ AnyFailed(w)
    BY <1>8, <2>2 DEF Judged, Aborted
  <2>4. outcomes = StatesOf(w)
    BY <1>2, <1>4, <1>8 DEF StatesOf
  <2> QED BY <2>1, <2>3, <2>4 DEF AnyFailed
<1> QED BY <1>5, <1>6, <1>7, <1>8

(* Every call but the tick is harmless.                                    *)
LEMMA CallsAreHarmless ==
  ASSUME OrchestratorInv, [Next]_vars, ~ Tick
  PROVE  Harmless
<1>1. CASE WorkflowCalls
  <2>1. PICK w \in Workflows :
          \/ \E outcome \in {"VALIDATING", "REJECTED"} : Validate(w, outcome)
          \/ Create(w) \/ Authorize(w) \/ Reject(w) \/ Ready(w)
          \/ Schedule(w) \/ Start(w) \/ Pause(w) \/ Resume(w) \/ Drain(w)
          \/ Cancel(w) \/ Stop(w) \/ RemoveWorkflow(w)
          \/ \E s \in Stages : AddStage(w, s)
    BY <1>1 DEF WorkflowCalls
  <2>2. CASE \E outcome \in {"VALIDATING", "REJECTED"} : Validate(w, outcome)
    BY <2>2, ValidateIsHarmless
  <2>3. CASE \/ Authorize(w) \/ Reject(w) \/ Ready(w) \/ Schedule(w)
             \/ Pause(w) \/ Resume(w) \/ Drain(w)
    <3>1. \E from, to : /\ Move(w, from, to)
                        /\ to \in {"AUTHORIZED", "REJECTED", "READY", "SCHEDULED", "PAUSED",
                                   "RESUMING", "DRAINING"}
      BY <2>3 DEF Authorize, Reject, Ready, Schedule, Pause, Resume, Drain
    <3>2. {"AUTHORIZED", "REJECTED", "READY", "SCHEDULED", "PAUSED", "RESUMING", "DRAINING"}
            \subseteq WfStates \ {"SUCCEEDED", "PARTIALLY_SUCCEEDED", "FAILED"}
      BY DEF WfStates
    <3> QED BY <3>1, <3>2, MoveIsHarmless
  <2>4. CASE Create(w) \/ Start(w) \/ Cancel(w) \/ Stop(w) \/ RemoveWorkflow(w)
    BY <2>4, CreateIsHarmless, StartIsHarmless, CancelIsHarmless, StopIsHarmless,
       RemovalsAreHarmless
  <2>5. CASE \E s \in Stages : AddStage(w, s)
    BY <2>5, AddStageIsHarmless
  <2> QED BY <2>1, <2>2, <2>3, <2>4, <2>5
<1>2. CASE StageCalls
  BY <1>2, RemoveStageIsHarmless, ReportIsHarmless, RestIsHarmless DEF StageCalls
<1>3. CASE Maintenance
  BY <1>3, RemovalsAreHarmless, RestIsHarmless DEF Maintenance
<1>4. CASE Elapse
  BY <1>4, ElapseIsHarmless
<1>5. CASE UNCHANGED vars
  BY <1>5, RestIsHarmless
<1> QED BY <1>1, <1>2, <1>3, <1>4, <1>5 DEF Next

LEMMA TablesStart ==
  ASSUME Init
  PROVE  OrchestratorInv
<1>1. wf \in WfTable /\ stage \in StageTable /\ Held(wf) = {} /\ Held(stage) = {}
  BY DEF Init, WfTable, StageTable, Held
<1>2. LiveIn(wf) = {}
  BY <1>1 DEF LiveIn
<1>3. Live(wf) = 0
  BY <1>1, <1>2, LiveIs, FS_EmptySet
<1>4. MaxConcurrent \in Nat /\ MaxWorkflows \in Nat /\ MaxResets \in Nat
  BY WorkflowAssumption
<1>5. active = 0 /\ resets = 0 /\ deps = {} /\ binding = {}
  BY DEF Init
<1>6. Limited(Live(wf), active, resets)
  BY <1>3, <1>4, <1>5 DEF Limited
<1>7. NoDangling
  BY <1>1, <1>5 DEF NoDangling
<1>8. TypeOK
  <2>1. active \in 0 .. MaxWorkflows /\ resets \in 0 .. MaxResets
    BY <1>4, <1>5
  <2> QED BY <1>1, <1>5, <2>1 DEF TypeOK, WfTable, StageTable
<1> QED BY <1>6, <1>7, <1>8 DEF OrchestratorInv

LEMMA TablesStay ==
  ASSUME OrchestratorInv, [Next]_vars
  PROVE  OrchestratorInv' /\ EndsStay
  BY TickKeepsTables, CallsAreHarmless DEF Harmless

(* The tables agree with each other, and the limit holds but for resets,   *)
(* through any order of calls, whatever the sizes of the tables.           *)
THEOREM TablesHold == Spec => []OrchestratorSafe
<1>1. Init => OrchestratorInv
  BY TablesStart
<1>2. OrchestratorInv /\ [Next]_vars => OrchestratorInv'
  BY TablesStay
<1>3. OrchestratorInv => OrchestratorSafe
  BY DEF OrchestratorInv, OrchestratorSafe, Limited, LimitHolds
<1> QED BY <1>1, <1>2, <1>3, PTL DEF Spec

(* A finished workflow or stage stays as it finished until its slot is     *)
(* freed: no call and no tick makes anything else of it.                   *)
THEOREM EndsAreFinal == Spec => TerminalStays
<1>1. Init => OrchestratorInv
  BY TablesStart
<1>2. OrchestratorInv /\ [Next]_vars => OrchestratorInv'
  BY TablesStay
<1>3. OrchestratorInv /\ [Next]_vars =>
        [/\ \A w \in Held(wf) : wf[w].state \in WfTerminal =>
              wf'[w] = None \/ wf'[w].state = wf[w].state
         /\ \A s \in Held(stage) : stage[s].state \in StageTerminal =>
              stage'[s] = None \/ stage'[s].state = stage[s].state]_vars
  BY TablesStay DEF EndsStay
<1> QED BY <1>1, <1>2, <1>3, PTL DEF Spec, TerminalStays

(* What a stage waited for stays as the stage was let go for it: the tick   *)
(* looks at every dependency, no call takes an end back, and a dependency   *)
(* goes with the stages it joins before their slots are used again.         *)
LEMMA WaitingHolds ==
  ASSUME OrchestratorInv, DependentsWait, [Next]_vars
  PROVE  DependentsWait'
<1>1. OrchestratorInv' /\ EndsStay
  BY TablesStay
<1>2. NoDangling /\ NoDangling' /\ binding \subseteq deps /\ binding' \subseteq deps'
  BY <1>1 DEF OrchestratorInv, TypeOK
<1>3. SUFFICES ASSUME NEW d \in binding', stage'[d[2]].state \in Begun
               PROVE  stage'[d[1]].state \in {"COMPLETED", "SKIPPED"}
  BY DEF DependentsWait
<1>4. d \in binding
  <2>1. CASE Tick
    BY <2>1 DEF Tick
  <2>2. CASE ~ Tick
    BY <1>3, <2>2, CallsAreHarmless DEF Harmless, BindsWaiting
  <2> QED BY <2>1, <2>2
<1>5. /\ d \in deps /\ d[1] \in Held(stage) /\ d[2] \in Held(stage)
      /\ d[1] \in Held(stage') /\ d[2] \in Held(stage')
  BY <1>2, <1>4 DEF NoDangling
<1>6. stage'[d[1]] # None /\ stage'[d[2]] # None
  BY <1>5 DEF Held
<1>7. stage[d[1]].state \in {"COMPLETED", "SKIPPED"}
  <2>1. CASE stage[d[2]].state \in Begun
    BY <1>4, <2>1 DEF DependentsWait
  <2>2. CASE stage[d[2]].state \notin Begun
    <3>1. Tick
      BY <1>3, <1>5, <1>6, <2>2, CallsAreHarmless DEF Harmless, LetsNoneGo
    <3>2. <<d[1], d[2]>> \in deps
      BY <1>5 DEF OrchestratorInv, TypeOK
    <3> QED BY <1>3, <1>5, <2>2, <3>1, <3>2, TickWaits
  <2> QED BY <2>1, <2>2
<1>8. stage[d[1]].state \in StageTerminal
  BY <1>7 DEF StageTerminal
<1> QED BY <1>1, <1>5, <1>6, <1>7, <1>8 DEF EndsStay

(* A stage that has begun has every stage it waited for completed or       *)
(* skipped, then and for as long as the dependency is held, but for what   *)
(* was declared too late and what was reported satisfied by hand.          *)
THEOREM NoneGoesAhead == Spec => []DependentsWait
<1>1. Init => OrchestratorInv /\ DependentsWait
  BY TablesStart DEF Init, DependentsWait
<1>2. OrchestratorInv /\ DependentsWait /\ [Next]_vars => OrchestratorInv' /\ DependentsWait'
  BY TablesStay, WaitingHolds
<1> QED BY <1>1, <1>2, PTL DEF Spec

(* The verdict on a workflow agrees with what its stages did, and a failed *)
(* stage is not passed over by a tick.                                     *)
THEOREM VerdictsHold == Spec => VerdictHonest
<1> DEFINE Honest(w) ==
      LET verdict  == wf'[w].state
          outcomes == Outcomes(w)'
      IN /\ Tick /\ verdict = "ACTIVE" => outcomes \intersect {"FAILED", "TIMED_OUT"} = {}
         /\ verdict = "SUCCEEDED" => outcomes \subseteq StageTerminal \ {"FAILED"}
         /\ verdict = "PARTIALLY_SUCCEEDED" => {"COMPLETED", "FAILED"} \subseteq outcomes
         /\ verdict = "FAILED" => outcomes \intersect {"FAILED", "TIMED_OUT"} # {}
<1>1. Init => OrchestratorInv
  BY TablesStart
<1>2. OrchestratorInv /\ [Next]_vars => OrchestratorInv'
  BY TablesStay
<1>3. ASSUME OrchestratorInv, [Next]_vars, NEW w \in Held(wf), wf[w].state = "ACTIVE",
             wf'[w] # None
      PROVE  Honest(w)
  <2>1. CASE Tick
    BY <1>3, <2>1, TickIsHonest
  <2>2. CASE ~ Tick
    <3>1. wf'[w].state \notin {"SUCCEEDED", "PARTIALLY_SUCCEEDED", "FAILED"}
      BY <1>3, <2>2, CallsAreHarmless DEF Harmless, JudgesNone
    <3> QED BY <2>2, <3>1
  <2> QED BY <2>1, <2>2
<1>4. OrchestratorInv /\ [Next]_vars =>
        [\A w \in Held(wf) : (wf[w].state = "ACTIVE" /\ wf'[w] # None) => Honest(w)]_vars
  BY <1>3
<1> QED BY <1>1, <1>2, <1>4, PTL DEF Spec, VerdictHonest
=============================================================================
