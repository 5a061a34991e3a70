---------------------------- MODULE MCContinuity ----------------------------
(* What keeps work going over limits, failures and restarts (pipelines and *)
(* their admission, workflow checkpoints, failure recovery, the state file *)
(* of the core runtime), what it is given to work with (capacity, devices, *)
(* streams and routes), what orders the components of the core, and what   *)
(* brings the Control Room up, checked in one run.  They share no state:   *)
(* `keeper' says which one a behaviour is about, and the others do not     *)
(* move.                                                                   *)
EXTENDS Pipelines, WorkflowRecovery, StateManager,
        Resources, Devices, IoPaths, DependencyGraph, StartupRecovery

VARIABLE keeper

workVars == <<pipelineVars, schedulingVars, checkpointVars, failureVars, stateVars>>
meansVars == <<resourceVars, deviceVars, streams, routeVars>>
upVars == <<dependencyVars, bootVars>>

ContinuityInit ==
  /\ PipelineInit /\ SchedulingInit /\ CheckpointInit /\ FailureInit /\ StateInit
  /\ ResourceInit /\ DeviceInit /\ StreamInit /\ RouteInit
  /\ DependencyInit /\ BootInit
  /\ keeper \in {"pipelines", "admission", "checkpoints", "failures", "state file",
                 "capacity", "devices", "streams", "routes", "dependencies", "boot"}
  /\ keeper = "boot" \/ uptime = 0

WorkNext ==
  /\ UNCHANGED <<meansVars, upVars>>
  /\ \/ /\ keeper = "pipelines" /\ PipelineNext
        /\ UNCHANGED <<schedulingVars, checkpointVars, failureVars, stateVars>>
     \/ /\ keeper = "admission" /\ SchedulingNext
        /\ UNCHANGED <<pipelineVars, checkpointVars, failureVars, stateVars>>
     \/ /\ keeper = "checkpoints" /\ CheckpointNext
        /\ UNCHANGED <<pipelineVars, schedulingVars, failureVars, stateVars>>
     \/ /\ keeper = "failures" /\ FailureNext
        /\ UNCHANGED <<pipelineVars, schedulingVars, checkpointVars, stateVars>>
     \/ /\ keeper = "state file" /\ StateNext
        /\ UNCHANGED <<pipelineVars, schedulingVars, checkpointVars, failureVars>>
MeansNext ==
  /\ UNCHANGED <<workVars, upVars>>
  /\ \/ /\ keeper = "capacity" /\ ResourceNext
        /\ UNCHANGED <<deviceVars, streams, routeVars>>
     \/ /\ keeper = "devices" /\ DeviceNext
        /\ UNCHANGED <<resourceVars, streams, routeVars>>
     \/ /\ keeper = "streams" /\ StreamNext
        /\ UNCHANGED <<resourceVars, deviceVars, routeVars>>
     \/ /\ keeper = "routes" /\ RouteNext
        /\ UNCHANGED <<resourceVars, deviceVars, streams>>
UpNext ==
  /\ UNCHANGED <<workVars, meansVars>>
  /\ \/ keeper = "dependencies" /\ DependencyNext /\ UNCHANGED bootVars
     \/ keeper = "boot" /\ BootNext /\ UNCHANGED dependencyVars

ContinuityNext == UNCHANGED keeper /\ (WorkNext \/ MeansNext \/ UpNext)

ContinuitySpec == ContinuityInit /\ [][ContinuityNext]_<<workVars, meansVars, upVars, keeper>>

(* The two services a workflow is recovered by: what they hold, and that   *)
(* it is recovered from nothing but a commit.                              *)
RecoverySafe == CheckpointTypeOK /\ ReconciledFromCommitted /\ FailureTypeOK

(* What is promised to an operation, capacity or a device, is promised     *)
(* once and comes back; and what goes through streams and along routes is  *)
(* neither lost nor led in a circle.                                       *)
PromisesKept == ResourcesSafe /\ DevicesSafe
FlowSafe == StreamsSafe /\ RoutesSafe

(* What is started is started after what it needs, and in its phase.       *)
OrderSafe == GraphSafe /\ BootSafe
=============================================================================
