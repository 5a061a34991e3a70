------------------------------ MODULE Processes ------------------------------
(* The process manager of the core (src/core/processes.c): a table of      *)
(* records beside the children the kernel knows.  A child ends on its own  *)
(* at any moment; the manager learns of it when the runtime loop reaps, or *)
(* when it terminates the child itself.  The kernel gives a pid again as   *)
(* soon as its child was waited for, so a record that is wrong about its   *)
(* child would signal a stranger.                                          *)
EXTENDS Integers, Sequences, FiniteSets

CONSTANTS
  Pids,             \* the pids the kernel has to give
  ProcessCapacity   \* records of the table: `processes[32]'

ASSUME ProcessAssumption == Pids \subseteq Nat /\ ProcessCapacity \in Nat

NoPid == -1

VARIABLES
  processes,     \* the records, [pid, state], in order of creation
  child,         \* what the kernel holds under a pid: none, alive or zombie
  managerUp      \* `initialized'

processVars == <<processes, child, managerUp>>

ProcessStates == {"RUNNING", "EXITED", "FAILED", "TERMINATED"}

ProcessInit ==
  /\ processes = <<>> /\ child = [p \in Pids |-> "none"] /\ managerUp = TRUE

Recorded(state) == {i \in DOMAIN processes : processes[i].state = state}
Zombies == {p \in Pids : child[p] = "zombie"}

(* What get_by_pid finds: the first record of the pid that has not ended.  *)
IsRecordOf(i, p) ==
  /\ i \in Recorded("RUNNING") /\ processes[i].pid = p
  /\ \A j \in Recorded("RUNNING") : processes[j].pid = p => i <= j

(* The table never gives a place back; a fork that fails takes one too.    *)
CreateProcess ==
  /\ managerUp /\ Len(processes) < ProcessCapacity
  /\ \/ /\ processes' = Append(processes, [pid |-> NoPid, state |-> "FAILED"])
        /\ UNCHANGED child
     \/ \E p \in Pids :
          /\ child[p] = "none"
          /\ child' = [child EXCEPT ![p] = "alive"]
          /\ processes' = Append(processes, [pid |-> p, state |-> "RUNNING"])
  /\ UNCHANGED managerUp

(* The program ends, is killed by somebody else, or could not be executed. *)
ChildEnds ==
  /\ \E p \in Pids : child[p] = "alive" /\ child' = [child EXCEPT ![p] = "zombie"]
  /\ UNCHANGED <<processes, managerUp>>

(* Everything that can be waited for is; a child without a record is       *)
(* passed over.  How it ended decides the state.                           *)
Reap ==
  /\ managerUp /\ Zombies # {}
  /\ child' = [p \in Pids |-> IF p \in Zombies THEN "none" ELSE child[p]]
  /\ \E ending \in [Zombies -> {"EXITED", "TERMINATED"}] :
       processes' = [i \in DOMAIN processes |->
         IF \E p \in Zombies : IsRecordOf(i, p)
           THEN [processes[i] EXCEPT !.state = ending[processes[i].pid]]
           ELSE processes[i]]
  /\ UNCHANGED managerUp

(* SIGTERM, a tenth of a second of asking, then SIGKILL and a wait that    *)
(* blocks: the child is gone when the call returns.                        *)
Terminate(i) ==
  /\ managerUp /\ i \in Recorded("RUNNING")
  /\ child' = [child EXCEPT ![processes[i].pid] = "none"]
  /\ processes' = [processes EXCEPT ![i].state = "TERMINATED"]
  /\ UNCHANGED managerUp

(* What has ended is waited for, without a word in its record, and the     *)
(* table is emptied; what still runs is left to itself.                    *)
ShutDownProcesses ==
  /\ managerUp /\ managerUp' = FALSE
  /\ child' = [p \in Pids |-> IF p \in Zombies THEN "none" ELSE child[p]]
  /\ processes' = <<>>

ProcessNext ==
  \/ CreateProcess \/ ChildEnds \/ Reap \/ ShutDownProcesses
  \/ \E i \in DOMAIN processes : Terminate(i)

ProcessSpec == ProcessInit /\ [][ProcessNext]_processVars

ProcessTypeOK ==
  /\ processes \in Seq([pid : Pids \cup {NoPid}, state : ProcessStates])
  /\ Len(processes) <= ProcessCapacity
  /\ child \in [Pids -> {"none", "alive", "zombie"}] /\ managerUp \in BOOLEAN

(* While the manager is up, the records that say RUNNING and the children  *)
(* the kernel holds correspond one to one: no child is without a record,   *)
(* and no record names a pid that is somebody else's by now, which         *)
(* terminate would signal and wait for (processes.c:229, :262).            *)
RecordsMatchChildren ==
  managerUp =>
    /\ {processes[i].pid : i \in Recorded("RUNNING")} = {p \in Pids : child[p] # "none"}
    /\ Cardinality(Recorded("RUNNING")) = Cardinality({p \in Pids : child[p] # "none"})

ProcessesSafe == ProcessTypeOK /\ RecordsMatchChildren

(* Does not hold: the shutdown terminates nobody, so what runs then goes   *)
(* on without a record (processes.c:86).                                   *)
NothingOrphaned == ~managerUp => \A p \in Pids : child[p] = "none"
=============================================================================
