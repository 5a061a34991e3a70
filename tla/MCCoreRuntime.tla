---------------------------- MODULE MCCoreRuntime ----------------------------
(* The managers of the core runtime that hold its parts together, checked  *)
(* in one run: the task manager with the scheduler, the coordinator of its *)
(* startup, the reload of its components, and the two that deal with other *)
(* processes: the children it starts, the clients it serves.  They share   *)
(* no state: `manager' says which one a behaviour is about, and the others *)
(* do not move.                                                            *)
EXTENDS MCTaskRuntime, StartupCoordinator, ReloadManager, Processes, IpcServer

VARIABLE manager

upVars == <<coordinatorVars, reloadVars>>
outVars == <<processVars, ipcVars>>

CoreInit ==
  /\ RuntimeInit /\ CoordinatorInit /\ ReloadInit
  /\ ProcessInit /\ IpcInit
  /\ manager \in {"tasks", "startup", "reload", "processes", "ipc"}
  /\ manager # "ipc" => mayClaim = [d \in Ids |-> Peers]

CoreNext ==
  /\ UNCHANGED manager
  /\ \/ manager = "tasks" /\ RuntimeNext /\ UNCHANGED <<upVars, outVars>>
     \/ /\ manager = "startup" /\ CoordinatorNext
        /\ UNCHANGED <<runtimeVars, reloadVars, outVars>>
     \/ /\ manager = "reload" /\ ReloadNext
        /\ UNCHANGED <<runtimeVars, coordinatorVars, outVars>>
     \/ manager = "processes" /\ ProcessNext /\ UNCHANGED <<runtimeVars, upVars, ipcVars>>
     \/ manager = "ipc" /\ IpcNext /\ UNCHANGED <<runtimeVars, upVars, processVars>>

CoreSpec == CoreInit /\ [][CoreNext]_<<runtimeVars, upVars, outVars, manager>>

(* Two components that are reloaded, so that one gets the slot of the      *)
(* other, and one that is not.                                             *)
AllCapabilities == "a" :> "SUPPORTED" @@ "b" :> "RESTART_REQUIRED" @@ "u" :> "UNSUPPORTED"

(* The service may be any client, or one of them.                          *)
AnyOrOne == {Peers} \cup {{p} : p \in Peers}

CoreSymmetry == Interchangeable \cup Permutations(Peers)

(* A task is held in one place, within the quotas, and runs as often as it *)
(* was handed over.                                                        *)
TasksSafe == ListsSafe /\ RuntimeSafe

(* The core comes up, and goes down, phase by phase, and its components    *)
(* are reloaded one version at a time.                                     *)
CoreSafe == StartupSafe /\ ReloadsSafe

(* The manager knows the children it has, and the server the clients.      *)
ProcessesAndPeersSafe == ProcessesSafe /\ IpcSafe
=============================================================================
