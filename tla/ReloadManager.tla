---------------------------- MODULE ReloadManager ----------------------------
(***************************************************************************)
(* The reload manager of the core (src/core/reload_mgr.c): one component   *)
(* at a time is given a new version once the work it has under way is      *)
(* done.                                                                   *)
(*                                                                         *)
(* The machine of sixteen states stops at one place only: all the steps    *)
(* from STOPPING to COMPLETED are stubs that cannot fail and are passed in *)
(* the call that finds the component without work, so a reload waits in    *)
(* QUIESCING or not at all.  A quiesce timeout clears reload_active and    *)
(* sets FAILED, so the branch of tick that would roll back a FAILED reload *)
(* is never reached, whatever rollback_on_fail says.  The steps have no    *)
(* timeouts of their own: load_timeout_ms and health_check_timeout_ms are  *)
(* read by nothing.  The audit trail and the totals decide nothing.        *)
(***************************************************************************)
EXTENDS Integers, FiniteSets

CONSTANTS
  ReloadNames,     \* names reloadables are registered under; register refuses ""
  Capability,      \* of each name: what it is registered with
  Versions,
  NoVersion,       \* the empty string
  ReloadSlots,     \* OZAYN_RELOAD_MAX_COMPONENTS, also the number of state_storage slots
  QuiesceTimeout,  \* config.quiesce_timeout_ms
  MaxWork          \* (bound) requests under way in a component

ASSUME ReloadAssumption ==
  /\ {ReloadSlots, QuiesceTimeout, MaxWork} \subseteq Nat
  /\ NoVersion \notin Versions /\ "" \notin ReloadNames
  /\ Capability \in [ReloadNames -> {"SUPPORTED", "UNSUPPORTED", "RESTART_REQUIRED"}]

VARIABLES
  reloadables,       \* mgr->components, the slots; a free one is NoComponent
  componentCount,   \* mgr->component_count
  activeState,      \* mgr->active_state as it is between calls
  activeComponent,  \* [name, age] while mgr->reload_active, else NoReload
  stateUsed         \* storage slots that were ever given out (state_used)

reloadVars == <<reloadables, componentCount, activeState, activeComponent, stateUsed>>

Component ==
  [name : ReloadNames, current : Versions, pending : Versions \cup {NoVersion},
   work : 0..MaxWork, state : 0..ReloadSlots,   \* the storage slot, 0 when there is none
   asked : SUBSET Versions]                     \* (history) registered with or asked for
NoComponent == [name |-> ""]
NoReload == [name |-> "", age |-> 0]

InUse == {i \in 1..ReloadSlots : reloadables[i] # NoComponent}
Reloading == activeComponent # NoReload

(* find_component looks no further than the count, which goes down when a  *)
(* slot before it becomes free.                                            *)
Known(name) == {i \in InUse : i <= componentCount /\ reloadables[i].name = name}
First(slots) == CHOOSE i \in slots : \A j \in slots : i <= j

ReloadInit ==
  /\ reloadables = [i \in 1..ReloadSlots |-> NoComponent] /\ componentCount = 0
  /\ activeState = "IDLE" /\ activeComponent = NoReload /\ stateUsed = 0

(* ozayn_reload_register, which clears the whole slot.                     *)
Register(name, version) ==
  /\ Known(name) = {} /\ InUse # 1..ReloadSlots
  /\ reloadables' = [reloadables EXCEPT ![First(1..ReloadSlots \ InUse)] =
       [name |-> name, current |-> version, pending |-> NoVersion, work |-> 0, state |-> 0,
        asked |-> {version}]]
  /\ componentCount' = componentCount + 1
  /\ UNCHANGED <<activeState, activeComponent, stateUsed>>

Unregister(name) ==
  /\ Known(name) # {}
  /\ reloadables' = [reloadables EXCEPT ![First(Known(name))] = NoComponent]
  /\ componentCount' = componentCount - 1
  /\ UNCHANGED <<activeState, activeComponent, stateUsed>>

(* ozayn_reload_request_begin and _end: a reload keeps no work out.        *)
Work(name) ==
  /\ Known(name) # {}
  /\ LET i == First(Known(name))
     IN \E work \in {reloadables[i].work - 1, reloadables[i].work + 1} \cap (0..MaxWork) :
          reloadables' = [reloadables EXCEPT ![i].work = work]
  /\ UNCHANGED <<componentCount, activeState, activeComponent, stateUsed>>

(* ozayn_reload_save_state drops the old state, then looks for room; no    *)
(* room once used is ever free again.  ozayn_reload_clear_state.           *)
SaveState(name) ==
  /\ Known(name) # {}
  /\ LET slot == IF stateUsed < ReloadSlots THEN stateUsed + 1 ELSE 0
     IN /\ reloadables' = [reloadables EXCEPT ![First(Known(name))].state = slot]
        /\ stateUsed' = IF slot = 0 THEN stateUsed ELSE slot
  /\ UNCHANGED <<componentCount, activeState, activeComponent>>
ClearState(name) ==
  /\ Known(name) # {}
  /\ reloadables' = [reloadables EXCEPT ![First(Known(name))].state = 0]
  /\ UNCHANGED <<componentCount, activeState, activeComponent, stateUsed>>

(* The rest of a tick for the component in slot i of cs: it waits for the  *)
(* work, gives up on it, or passes all the states up to COMPLETED.         *)
Quiesce(cs, i, age) ==
  IF cs[i].work > 0
  THEN /\ reloadables' = cs
       /\ IF age > QuiesceTimeout
          THEN activeState' = "FAILED" /\ activeComponent' = NoReload
          ELSE activeState' = "QUIESCING" /\ activeComponent' = [name |-> cs[i].name, age |-> age]
  ELSE /\ reloadables' = [cs EXCEPT ![i].current = IF cs[i].pending = NoVersion THEN @
                                                  ELSE cs[i].pending,
                                   ![i].pending = NoVersion]
       /\ activeState' = "IDLE" /\ activeComponent' = NoReload

(* ozayn_reload_request and the tick it ends with.  A request without a    *)
(* version leaves the pending one as it is.                                *)
RequestReload(name, version) ==
  /\ ~Reloading /\ Known(name) # {} /\ Capability[name] # "UNSUPPORTED"
  /\ LET i == First(Known(name))
         asking == IF version = NoVersion THEN reloadables
                   ELSE [reloadables EXCEPT ![i].pending = version, ![i].asked = @ \cup {version}]
     IN Quiesce(asking, i, 0)
  /\ UNCHANGED <<componentCount, stateUsed>>

(* ozayn_reload_tick: the component is looked up by its name again, and    *)
(* may be gone, or another one of that name.                               *)
ReloadTick ==
  /\ Reloading
  /\ IF Known(activeComponent.name) = {}
     THEN activeState' = "FAILED" /\ activeComponent' = NoReload /\ UNCHANGED reloadables
     ELSE Quiesce(reloadables, First(Known(activeComponent.name)), activeComponent.age)
  /\ UNCHANGED <<componentCount, stateUsed>>

(* ozayn_reload_cancel, and ozayn_reload_rollback with the tick it ends    *)
(* with: both forget the reload, and neither the version it asked for.     *)
CancelReload ==
  /\ Reloading /\ activeState' = "IDLE" /\ activeComponent' = NoReload
  /\ UNCHANGED <<reloadables, componentCount, stateUsed>>
RollBackReload ==
  /\ Reloading /\ activeComponent' = NoReload
  /\ activeState' = IF Known(activeComponent.name) = {} THEN "FAILED" ELSE "IDLE"
  /\ UNCHANGED <<reloadables, componentCount, stateUsed>>

(* Time passes while a reload waits.                                       *)
WaitOn ==
  /\ Reloading /\ activeComponent.age <= QuiesceTimeout
  /\ activeComponent' = [activeComponent EXCEPT !.age = @ + 1]
  /\ UNCHANGED <<reloadables, componentCount, activeState, stateUsed>>

ReloadNext ==
  \/ ReloadTick \/ CancelReload \/ RollBackReload \/ WaitOn
  \/ \E name \in ReloadNames :
       \/ Unregister(name) \/ Work(name) \/ SaveState(name) \/ ClearState(name)
       \/ \E version \in Versions : Register(name, version)
       \/ \E version \in Versions \cup {NoVersion} : RequestReload(name, version)

(***************************************************************************)
(* Properties.                                                             *)
(***************************************************************************)

ReloadTypeOK ==
  /\ reloadables \in [1..ReloadSlots -> Component \cup {NoComponent}]
  /\ activeComponent = NoReload \/ activeComponent \in [name : ReloadNames, age : 0..QuiesceTimeout + 1]
  /\ stateUsed \in 0..ReloadSlots

(* The count of reloadables, which bounds every search, is the number of    *)
(* slots in use, though slots become free in any order.                    *)
CountIsInUse == componentCount = Cardinality(InUse)

(* Between two calls a reload that is under way is waiting for work to end,*)
(* and in none of the states in which the component is half replaced.      *)
WaitsOnlyForWork == Reloading <=> activeState = "QUIESCING"

(* The saved states of two reloadables never share storage.                 *)
StatesApart ==
  \A i, j \in InUse :
    i # j /\ reloadables[i].state # 0 => reloadables[i].state # reloadables[j].state

(* A component runs no version but the one it was registered with and      *)
(* those a reload of this very component asked for: nothing that was left  *)
(* pending passes from one registration to the next one in its slot.       *)
InstalledWasAsked ==
  \A i \in InUse : /\ reloadables[i].current \in reloadables[i].asked
                   /\ reloadables[i].pending \in reloadables[i].asked \cup {NoVersion}

ReloadsSafe ==
  ReloadTypeOK /\ CountIsInUse /\ WaitsOnlyForWork /\ StatesApart /\ InstalledWasAsked

(* What does not hold.  A name is registered once (register refuses one    *)
(* that is known, but a component behind the count is not known).  Nothing *)
(* is pending when no reload is under way (a cancelled or timed out version*)
(* is installed by the next request, even one that names none).  What      *)
(* requires a restart is not reloaded.  Quiescing keeps new work out       *)
(* (reload_mgr.h:17, "stop new work, drain active work").                  *)
NamesOnce == \A i, j \in InUse : reloadables[i].name = reloadables[j].name => i = j
NothingLeftPending == Reloading \/ \A i \in InUse : reloadables[i].pending = NoVersion
OnlyReloadable == Reloading => Capability[activeComponent.name] = "SUPPORTED"
NoNewWork ==
  [][\A i \in InUse :
       Reloading /\ reloadables[i].name = activeComponent.name /\ reloadables'[i] # NoComponent
         => reloadables'[i].work <= reloadables[i].work]_reloadVars
=============================================================================
