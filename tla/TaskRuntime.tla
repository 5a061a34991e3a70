----------------------------- MODULE TaskRuntime -----------------------------
(***************************************************************************)
(* The task manager (src/core/tasks.c) and the scheduler wired together as *)
(* src/main.c does: a task is first submitted to the task manager, then    *)
(* its id goes to the scheduler, whose tick looks the task up and calls    *)
(* its handler.                                                            *)
(*                                                                         *)
(* The manager runs the handler inside submit as well, so a task is in a   *)
(* terminal state whenever a caller sees it.  That is why                  *)
(* ozayn_task_manager_cancel, which refuses terminal tasks, has no action  *)
(* here: no call of it can succeed.                                        *)
(***************************************************************************)
EXTENDS Scheduler

CONSTANT Types   \* registered task types: subset of {"DEMO", "DEMO_FAIL"}

(* Ids are given out from 1 upwards and table slots are never reused.      *)
Capacity == Cardinality(Tasks)
ASSUME TaskAssumption ==
  IsFiniteSet(Tasks) /\ Tasks = 1..Capacity /\ Types \subseteq {"DEMO", "DEMO_FAIL"}

VARIABLE table   \* mgr->tasks[0 .. task_count-1]: type, state, runs of the handler

runtimeVars == <<vars, table>>

TerminalStates == {"COMPLETED", "FAILED", "CANCELLED"}
Task == [type : Types, state : {"COMPLETED", "FAILED"}, runs : Nat]

(* handle_demo succeeds, handle_demo_fail fails.                           *)
Outcome(type) == IF type = "DEMO" THEN "COMPLETED" ELSE "FAILED"

RuntimeInit == Init /\ table = <<>>

(* ozayn_task_manager_submit: CREATED, QUEUED, RUNNING and the handler, all *)
(* in one call; refused when the table is full, for ever.                   *)
CreateTask(type) ==
  /\ Len(table) < Capacity
  /\ table' = Append(table, [type |-> type, state |-> Outcome(type), runs |-> 1])
  /\ UNCHANGED vars

(* main.c hands the id of a task it created to the scheduler, once.        *)
ScheduleTask(t, p, s) ==
  /\ t <= Len(table) /\ table[t].runs = 1 /\ t \notin accepted
  /\ Submit(t, p, s)
  /\ UNCHANGED table

(* The scheduler's tick.  Dispatch sets task->state itself, without asking *)
(* is_valid_task_transition.  A task the manager does not know is dropped. *)
RuntimeTick ==
  /\ Tick
  /\ LET aged == AgedReady
         t == aged[Selected(aged)].task
     IN IF Active(aged) # {} /\ t \in DOMAIN table
        THEN table' = [table EXCEPT ![t].state = Outcome(table[t].type),
                                    ![t].runs = @ + 1]
        ELSE UNCHANGED table

RuntimeNext ==
  \/ \E type \in Types : CreateTask(type)
  \/ \E t \in Tasks, p \in Priorities, s \in Sources : ScheduleTask(t, p, s)
  \/ RuntimeTick
  \/ /\ UNCHANGED table
     /\ \/ \E t \in Tasks : \/ Cancel(t) \/ Wake(t) \/ Block(t) \/ Wait(t)
                            \/ \E p \in Priorities : SetPriority(t, p)
        \/ Elapse

RuntimeSpec == RuntimeInit /\ [][RuntimeNext]_runtimeVars

-----------------------------------------------------------------------------
RuntimeTypeOK == TypeOK /\ table \in Seq(Task) /\ Len(table) <= Capacity

(* Every id in the scheduler's lists names a task of the manager's table,  *)
(* so a dispatch always finds its task and its handler and never drops     *)
(* work silently (scheduler.c: "if (task)").                               *)
HeldIsKnown == Held \subseteq DOMAIN table

(* A task that is waiting to be dispatched has run exactly once, inside    *)
(* submit, and one that left the scheduler at most once more.              *)
RunsExplained ==
  \A t \in DOMAIN table :
    /\ table[t].runs <= 2
    /\ t \in Held => table[t].runs = 1

(* The manager's table and the scheduler's lists together.                 *)
RuntimeSafe == RuntimeTypeOK /\ HeldIsKnown /\ RunsExplained

(* tasks.c:86: COMPLETED, FAILED and CANCELLED are "terminal states", so a *)
(* task in one of them is not run again.                                   *)
TerminalNotRerun ==
  [][\A t \in DOMAIN table :
       table[t].state \in TerminalStates => table'[t].runs = table[t].runs]_runtimeVars
=============================================================================
