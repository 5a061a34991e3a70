--------------------------- MODULE DependencyGraph ---------------------------
(***************************************************************************)
(* The dependencies of the core's components (src/core/dependency.c): a    *)
(* graph that is built edge by edge, resolved into an order of startup,    *)
(* and kept in states that say which components can work.                  *)
(*                                                                         *)
(* Nodes are the indexes they are registered at.  The arrays of a node     *)
(* hold MaxPerNode entries: its dependencies, of which no more are         *)
(* accepted, and the dependents the sort walks, of which the rest are left *)
(* out without a word.  INCOMPATIBLE is treated as UNAVAILABLE and STOPPING*)
(* as STOPPED; nothing sets RESOLVING or UNKNOWN.  The shutdown order is   *)
(* the startup order read backwards.                                       *)
(***************************************************************************)
EXTENDS Integers, FiniteSets, Sequences, SequencesExt

CONSTANTS
  MaxNodes,       \* OZAYN_DEP_MAX_NODES
  MaxPerNode,     \* OZAYN_DEP_MAX_PER_NODE
  MaxEdges,       \* (bound) edges added; OZAYN_DEP_MAX_EDGES is read by nothing
  ReportedStates, \* (bound) the states that callers of set_state report
  MaxReported     \* (bound) nodes in these states at a time

DependencyStates == {"DISCOVERED", "READY", "BLOCKED", "FAILED", "UNAVAILABLE", "STOPPED"}

ASSUME DependencyAssumption ==
  /\ MaxNodes \in Nat /\ MaxPerNode \in Nat \ {0} /\ MaxEdges \in Nat /\ MaxReported \in Nat
  /\ ReportedStates \subseteq DependencyStates

VARIABLES
  nodes,         \* index -> [deps, state]
  startupOrder,  \* of the last resolution
  resolved       \* (history) nothing was added or reported since then

dependencyVars == <<nodes, startupOrder, resolved>>

NodeIds == DOMAIN nodes
DepsOf(i) == DOMAIN nodes[i].deps
Dependents(j) == {i \in NodeIds : j \in DepsOf(i)}
NewNode == [deps |-> <<>>, state |-> "DISCOVERED"]

(* ozayn_dep_has_cycles: is there a set of nodes each of which waits for   *)
(* another of them?                                                        *)
HasCycles == \E ring \in (SUBSET NodeIds) \ {{}} : \A i \in ring : DepsOf(i) \cap ring # {}

(* What of a row is in S, in the row's order.                              *)
Chosen(row, S) ==
  LET Kept[n \in 0..Len(row)] ==
        IF n = 0 THEN <<>>
        ELSE IF row[n] \in S THEN Append(Kept[n - 1], row[n]) ELSE Kept[n - 1]
  IN Kept[Len(row)]
InTableOrder(S) == Chosen([i \in NodeIds |-> i], S)

(* The first dependents of each node, as many as its row has room for.     *)
ReverseAdjacency ==
  [j \in NodeIds |-> LET all == InTableOrder(Dependents(j))
                   IN SubSeq(all, 1, IF Len(all) < MaxPerNode THEN Len(all) ELSE MaxPerNode)]

(* Kahn's algorithm (ozayn_dep_resolve): the queue begins with the nodes   *)
(* without dependencies; the n'th node taken from it appends those that    *)
(* waited for it last.                                                     *)
SortNodes(reverse) ==
  LET Queue[n \in 0..MaxNodes] ==
        IF n = 0 THEN InTableOrder({i \in NodeIds : DepsOf(i) = {}})
        ELSE LET queue == Queue[n - 1]
                 taken == Range(SubSeq(queue, 1, n))
             IN IF n > Len(queue) THEN queue
                ELSE queue \o Chosen(reverse[queue[n]],
                       {i \in NodeIds : Cardinality(DepsOf(i)) =
                                         Cardinality({j \in taken : Contains(reverse[j], i)})})
  IN Queue[MaxNodes]

(* The states of the nodes, one after the other: each is judged by those   *)
(* before it as they are now and by those behind it as they were.          *)
Judged ==
  LET Judge[i \in 0..MaxNodes] ==
        IF i = 0 \/ i \notin NodeIds THEN [j \in NodeIds |-> nodes[j].state]
        ELSE LET states == Judge[i - 1]
                 needed == {j \in DepsOf(i) : nodes[i].deps[j] = "REQUIRED"}
                 is(js, set) == \E j \in js : states[j] \in set
             IN IF is(needed, {"UNAVAILABLE"}) THEN [states EXCEPT ![i] = "UNAVAILABLE"]
                ELSE IF is(DepsOf(i), {"BLOCKED", "FAILED"}) THEN [states EXCEPT ![i] = "BLOCKED"]
                ELSE IF is(DepsOf(i), {"STOPPED"}) THEN states
                ELSE [states EXCEPT ![i] = "READY"]
  IN Judge[Len(nodes)]

DependencyInit == nodes = <<>> /\ startupOrder = <<>> /\ resolved = FALSE

RegisterNode ==
  /\ Len(nodes) < MaxNodes
  /\ nodes' = Append(nodes, NewNode) /\ resolved' = FALSE
  /\ UNCHANGED startupOrder

(* ozayn_dep_add_dependency of a dependency that is or is not registered   *)
(* yet; that of one it has already changes nothing.                        *)
AddDependency(i, j, type) ==
  /\ i \in NodeIds /\ i # j /\ j \notin DepsOf(i)
  /\ Cardinality(DepsOf(i)) < MaxPerNode
  /\ \/ j \in NodeIds
     \/ j = Len(nodes) + 1 /\ j <= MaxNodes
  /\ Cardinality(UNION {{e} \X DepsOf(e) : e \in NodeIds}) < MaxEdges
  /\ nodes' = [(IF j \in NodeIds THEN nodes ELSE Append(nodes, NewNode))
                 EXCEPT ![i].deps = [k \in {j} \cup DOMAIN @ |-> IF k = j THEN type ELSE @[k]]]
  /\ resolved' = FALSE
  /\ UNCHANGED startupOrder

(* ozayn_dep_resolve, which refuses a graph with a cycle.                  *)
Resolve ==
  /\ ~HasCycles
  /\ startupOrder' = SortNodes(ReverseAdjacency)
  /\ LET states == Judged
     IN nodes' = [i \in NodeIds |-> [nodes[i] EXCEPT !.state = states[i]]]
  /\ resolved' = TRUE

(* ozayn_dep_set_state.                                                    *)
ReportState(i, state) ==
  /\ i \in NodeIds /\ Cardinality({j \in NodeIds : nodes[j].state \in ReportedStates}) < MaxReported
  /\ nodes' = [nodes EXCEPT ![i].state = state] /\ resolved' = FALSE
  /\ UNCHANGED startupOrder

(* ozayn_dep_propagate_failure: the nodes that need this one, not those    *)
(* that need them in turn.                                                 *)
PropagateFailure(failed) ==
  LET hit == {i \in NodeIds : /\ failed \in DepsOf(i) /\ nodes[i].deps[failed] = "REQUIRED"
                            /\ nodes[i].state \notin {"BLOCKED", "FAILED"}}
  IN /\ hit # {} /\ resolved' = FALSE
     /\ nodes' = [i \in NodeIds |-> IF i \in hit THEN [nodes[i] EXCEPT !.state = "BLOCKED"]
                                  ELSE nodes[i]]
     /\ UNCHANGED startupOrder

DependencyNext ==
  \/ RegisterNode \/ Resolve
  \/ \E i, j \in 1..MaxNodes, type \in {"REQUIRED", "OPTIONAL"} : AddDependency(i, j, type)
  \/ \E i \in 1..MaxNodes : \/ PropagateFailure(i)
                            \/ \E state \in ReportedStates : ReportState(i, state)

(***************************************************************************)
(* Properties.                                                             *)
(***************************************************************************)

DependencyTypeOK ==
  /\ Len(nodes) <= MaxNodes /\ Range(startupOrder) \subseteq NodeIds
  /\ \A i \in NodeIds : /\ nodes[i].state \in DependencyStates
                      /\ DepsOf(i) \subseteq NodeIds \ {i} /\ Cardinality(DepsOf(i)) <= MaxPerNode

(* The order is sound: no node twice, and each after everything it depends *)
(* on (dependency.h: "Topological sort for startup order").                *)
OrderIsSound ==
  resolved =>
    /\ Cardinality(Range(startupOrder)) = Len(startupOrder)
    /\ \A n \in DOMAIN startupOrder :
         DepsOf(startupOrder[n]) \subseteq Range(SubSeq(startupOrder, 1, n - 1))

(* The order is complete, but for what is lost behind a node with more     *)
(* dependents than its row takes.  main.c gives EventEngine eight, the     *)
(* number OZAYN_DEP_MAX_PER_NODE allows: one more component that needs     *)
(* events is left out of the order, and ozayn_dep_resolve still succeeds.  *)
OrderLosesOnlyOverflow ==
  resolved =>
    \A i \in NodeIds \ Range(startupOrder) :
      \E j \in DepsOf(i) : j \notin Range(startupOrder) \/ Cardinality(Dependents(j)) > MaxPerNode

(* READY means ready, for what was registered before: a node is not called *)
(* READY above one it needs, that comes before it and cannot work.         *)
ReadyAboveReady ==
  resolved =>
    \A i \in NodeIds : nodes[i].state = "READY" =>
      \A j \in DepsOf(i) : j < i /\ nodes[i].deps[j] = "REQUIRED" =>
        nodes[j].state \notin {"BLOCKED", "FAILED", "UNAVAILABLE"}

GraphSafe == DependencyTypeOK /\ OrderIsSound /\ OrderLosesOnlyOverflow /\ ReadyAboveReady

(* What a resolution does not keep: the order of startup has every node,   *)
(* READY means ready whatever the order of registration (main.c registers  *)
(* TaskManager before ResourceManager, which it needs), and what was       *)
(* reported as FAILED is not READY because it was looked at again.         *)
OrderIsComplete == resolved => Range(startupOrder) = NodeIds
ReadyIsReady ==
  resolved =>
    \A i \in NodeIds : nodes[i].state = "READY" =>
      \A j \in DepsOf(i) : nodes[i].deps[j] = "REQUIRED" =>
        nodes[j].state \notin {"BLOCKED", "FAILED", "UNAVAILABLE"}
FailedStaysFailed ==
  [][\A i \in NodeIds : nodes[i].state = "FAILED" => nodes'[i].state # "READY"]_dependencyVars
=============================================================================
