------------------------- MODULE StartupCoordinator -------------------------
(***************************************************************************)
(* The coordinator of startup and shutdown (src/core/lifecycle.c):         *)
(* components with a phase and a criticality, initialised phase by phase,  *)
(* then started, rolled back when a required one fails, and stopped.       *)
(*                                                                         *)
(* A startup is one callback at a time, because a callback may ask for a   *)
(* shutdown, which then runs to its end inside that callback before the    *)
(* startup goes on (ozayn_lc_request_shutdown while STARTING).  A shutdown *)
(* is one step.  `holds' is what the callbacks have done: init_fn opens a  *)
(* component, start_fn sets it running, stop_fn ends that and shutdown_fn  *)
(* gives everything back.  Names, timeouts (read by nothing), events and   *)
(* statistics are left out.                                                *)
(***************************************************************************)
EXTENDS Integers, FiniteSets, Sequences, Functions

CONSTANTS
  MaxComponents,  \* OZAYN_LC_MAX_COMPONENTS
  LastPhase       \* phases are 0..LastPhase, those before READY

ASSUME CoordinatorAssumption == MaxComponents \in Nat /\ LastPhase \in Nat

VARIABLES
  lcState,     \* lc->state
  components,  \* in the order of registration
  initOrder,   \* indexes into components
  startup,     \* the callback a startup has come to, or Idle
  tangled      \* (history) a component was opened while open, or a startup
               \* went on after the shutdown asked for in one of its callbacks

coordinatorVars == <<lcState, components, initOrder, startup, tangled>>

Criticalities == {"REQUIRED", "OPTIONAL", "BEST_EFFORT"}
Idle == [loop |-> "idle", at |-> 0]
Brought == {"INITIALIZED", "STARTED"}
Registry == DOMAIN components

(* What a call of stop_fn and one of shutdown_fn leave behind.             *)
Halted(holds) == IF holds = "running" THEN "open" ELSE holds
Closed(holds) == "none"

(* build_init_order: the one order of the chosen components that is by     *)
(* phase and, within one, by registration.                                 *)
InPhases(order) ==
  \A j, k \in DOMAIN order : j < k =>
    \/ components[order[j]].phase < components[order[k]].phase
    \/ components[order[j]].phase = components[order[k]].phase /\ order[j] < order[k]
BuildInitOrder(chosen) ==
  \E order \in Bijection(1..Cardinality(chosen), chosen) : InPhases(order) /\ initOrder' = order

ShutDown_KeepsOpen(cs) ==                        \* mutant: shutdown_fn of active ones only
  [i \in DOMAIN cs |->
     [cs[i] EXCEPT !.state = IF @ \in Brought THEN "STOPPED" ELSE @,
                   !.holds = IF cs[i].state \in Brought THEN Closed(@) ELSE @]]

(* ozayn_lc_perform_shutdown: stop_fn in reverse order for those that are  *)
(* active, then shutdown_fn for every one that is not disabled, also for   *)
(* those that were never initialised.                                      *)
ShutDown(cs) ==
  [i \in DOMAIN cs |->
     [cs[i] EXCEPT !.state = IF @ \in Brought THEN "STOPPED" ELSE @,
                   !.holds = IF cs[i].state = "DISABLED" THEN @ ELSE Closed(@)]]

(* The rollback of ozayn_lc_startup when the `at'th of the order fails:    *)
(* stop_fn alone in its phase, shutdown_fn alone in the phases before.     *)
Rollback(cs, at) ==
  LET phase == cs[initOrder[at]].phase
      here == {initOrder[j] : j \in {k \in 1..at - 1 : cs[initOrder[k]].phase = phase}}
  IN [i \in DOMAIN cs |->
       IF cs[i].state \notin Brought THEN cs[i]
       ELSE IF i \in here THEN [cs[i] EXCEPT !.state = "STOPPED", !.holds = Halted(@)]
       ELSE IF cs[i].phase < phase THEN [cs[i] EXCEPT !.state = "STOPPED", !.holds = Closed(@)]
       ELSE cs[i]]

CoordinatorInit ==
  /\ lcState = "CREATED" /\ components = <<>> /\ initOrder = <<>>
  /\ startup = Idle /\ tangled = FALSE

(* ozayn_lc_register and _register_simple, at any time outside a callback. *)
RegisterComponent(phase, criticality) ==
  /\ startup = Idle /\ Len(components) < MaxComponents
  /\ components' = Append(components, [phase |-> phase, criticality |-> criticality,
                                       state |-> "CREATED", holds |-> "none"])
  /\ UNCHANGED <<lcState, initOrder, startup, tangled>>

(* ozayn_lc_startup, from the states its transition allows.                *)
BeginStartup ==
  /\ startup = Idle /\ lcState \in {"CREATED", "STOPPED", "FAILED"}
  /\ lcState' = "STARTING"
  /\ BuildInitOrder({i \in Registry : components[i].state \notin Brought \cup {"DISABLED"}})
  /\ startup' = [loop |-> "init", at |-> 1]
  /\ UNCHANGED <<components, tangled>>

(* What a callback leaves when it asks for a shutdown: nothing happens if  *)
(* an earlier callback has already stopped the coordinator.                *)
Asked(asks, cs) == IF asks /\ lcState = "STARTING" THEN ShutDown(cs) ELSE cs
StateAsked(asks) == IF asks THEN "STOPPED" ELSE lcState

(* transition(lc, FAILED), which a stopped coordinator refuses.            *)
Failed(state) == IF state = "STARTING" THEN "FAILED" ELSE state

(* The init_fn of the component the first loop has come to.                *)
InitComponent(asks, ok) ==
  LET i == initOrder[startup.at]
      cs == Asked(asks, [components EXCEPT ![i].state = "INITIALIZING"])
      critical == ~ok /\ components[i].criticality = "REQUIRED"
      result == IF ok THEN "INITIALIZED"
                ELSE IF components[i].criticality = "OPTIONAL" THEN "DISABLED" ELSE "FAILED"
      done == [cs EXCEPT ![i].state = result, ![i].holds = IF ok THEN "open" ELSE @]
  IN /\ startup.loop = "init" /\ startup.at <= Len(initOrder)
     /\ components' = IF critical THEN Rollback(done, startup.at) ELSE done
     /\ lcState' = IF critical THEN Failed(StateAsked(asks)) ELSE StateAsked(asks)
     /\ startup' = IF critical THEN Idle ELSE [startup EXCEPT !.at = @ + 1]
     /\ tangled' = (tangled \/ asks \/ components[i].holds # "none")
     /\ UNCHANGED initOrder
InitDone ==
  /\ startup.loop = "init" /\ startup.at > Len(initOrder)
  /\ startup' = [loop |-> "start", at |-> 1]
  /\ UNCHANGED <<lcState, components, initOrder, tangled>>

(* The start_fn of the component the second loop has come to, in the order *)
(* of registration; a required one that fails ends the startup, with no    *)
(* rollback.                                                               *)
StartComponent(asks, ok) ==
  LET i == startup.at
      cs == Asked(asks, [components EXCEPT ![i].state = "STARTING"])
      critical == ~ok /\ components[i].criticality = "REQUIRED"
  IN /\ startup.loop = "start" /\ i <= Len(components)
     /\ components[i].state = "INITIALIZED"
     /\ components' = [cs EXCEPT ![i].state = IF ok THEN "STARTED" ELSE "FAILED",
                                 ![i].holds = IF ok THEN "running" ELSE @]
     /\ lcState' = IF critical THEN Failed(StateAsked(asks)) ELSE StateAsked(asks)
     /\ startup' = IF critical THEN Idle ELSE [startup EXCEPT !.at = @ + 1]
     /\ tangled' = (tangled \/ asks)
     /\ UNCHANGED initOrder
SkipComponent ==
  /\ startup.loop = "start" /\ startup.at <= Len(components)
  /\ components[startup.at].state # "INITIALIZED"
  /\ startup' = [startup EXCEPT !.at = @ + 1]
  /\ UNCHANGED <<lcState, components, initOrder, tangled>>

(* The end of ozayn_lc_startup: RUNNING, whatever the readiness check says *)
(* - but not from STOPPED.                                                 *)
StartupDone ==
  /\ startup.loop = "start" /\ startup.at > Len(components)
  /\ startup' = Idle
  /\ lcState' = IF lcState = "STARTING" THEN "RUNNING" ELSE lcState
  /\ UNCHANGED <<components, initOrder, tangled>>

(* ozayn_lc_request_shutdown of a running coordinator (of any other that   *)
(* is idle it does nothing), and ozayn_lc_perform_shutdown of any.         *)
PerformShutdown ==
  /\ startup = Idle
  /\ components' = ShutDown(components) /\ lcState' = "STOPPED"
  /\ UNCHANGED <<initOrder, startup, tangled>>

(* ozayn_lc_restart, up to the first callback of the startup in it.        *)
RestartCoordinator ==
  LET cs == IF lcState = "RUNNING" THEN ShutDown(components) ELSE components
  IN /\ startup = Idle
     /\ components' = [i \in Registry |-> [cs[i] EXCEPT !.state = "CREATED"]]
     /\ lcState' = "STARTING"
     /\ BuildInitOrder(Registry)
     /\ startup' = [loop |-> "init", at |-> 1]
     /\ UNCHANGED tangled

CoordinatorNext ==
  \/ \E phase \in 0..LastPhase, c \in Criticalities : RegisterComponent(phase, c)
  \/ \E asks, ok \in BOOLEAN : InitComponent(asks, ok) \/ StartComponent(asks, ok)
  \/ BeginStartup \/ InitDone \/ SkipComponent \/ StartupDone
  \/ PerformShutdown \/ RestartCoordinator

(***************************************************************************)
(* Properties.                                                             *)
(***************************************************************************)

CoordinatorTypeOK ==
  /\ lcState \in {"CREATED", "STARTING", "RUNNING", "STOPPED", "FAILED"}
  /\ components \in Seq([phase : 0..LastPhase, criticality : Criticalities,
                         state : {"CREATED", "INITIALIZED", "STARTED", "STOPPED", "FAILED",
                                  "DISABLED"},
                         holds : {"none", "open", "running"}])
  /\ \/ startup = Idle
     \/ startup.loop \in {"init", "start"} /\ startup.at \in 1..MaxComponents + 1

(* "Readiness check failed - but continuing" (ozayn_lc_startup) never      *)
(* happens: whatever was retried, restarted or disabled before, when the   *)
(* coordinator is RUNNING every required component is started, except one  *)
(* that was registered since.                                              *)
RunningIsReady ==
  lcState = "RUNNING" =>
    \A i \in Registry : components[i].criticality = "REQUIRED" /\ components[i].state # "CREATED" =>
      components[i].state = "STARTED" /\ components[i].holds = "running"

(* Phases build on one another: what a startup has opened has below it, in *)
(* every earlier phase, only required components that are open too         *)
(* (lifecycle.h: "Startup follows dependency order").                      *)
FoundedOnRequired ==
  lcState = "STARTING" =>
    \A k \in 1..Len(initOrder) :
      (startup.loop = "start" \/ k < startup.at) /\ components[initOrder[k]].state \in Brought =>
        \A i \in Registry :
          /\ components[i].criticality = "REQUIRED"
          /\ components[i].phase < components[initOrder[k]].phase
          => components[i].state \in Brought /\ components[i].holds # "none"

(* A coordinator that says STOPPED has given everything back, as long as   *)
(* no component was opened twice and no startup outlived its own shutdown. *)
StoppedIsReleased ==
  lcState = "STOPPED" /\ startup = Idle /\ ~tangled =>
    \A i \in Registry : components[i].holds = "none"

StartupSafe == CoordinatorTypeOK /\ RunningIsReady /\ FoundedOnRequired /\ StoppedIsReleased

(* What the coordinator does not keep: a failed startup leaves nothing     *)
(* behind ("Rollback already-initialized components in this phase and      *)
(* before"), a component is opened once until it is closed and nothing     *)
(* outlives a shutdown asked for during the startup, and a component that  *)
(* runs has the required ones of the earlier phases running under it.      *)
FailedIsReleased == lcState = "FAILED" => \A i \in Registry : components[i].holds = "none"
NeverTangled == ~tangled
StartedInPhases ==
  \A i, j \in Registry :
    /\ lcState = "STARTING"
    /\ components[j].criticality = "REQUIRED" /\ components[j].phase < components[i].phase
    /\ components[i].holds = "running"
    => components[j].holds = "running"
=============================================================================
