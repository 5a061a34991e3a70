-------------------------- MODULE ServiceLifecycle --------------------------
(***************************************************************************)
(* The service lifecycle manager of the core runtime                       *)
(* (src/core/service_lifecycle.c): registration, start, stop, restart with *)
(* a budget, suspend and resume, health reports that restart a failing     *)
(* service, and groups of services.                                        *)
(*                                                                         *)
(* Times are ages, one unit apart; nothing in the code distinguishes ages  *)
(* beyond the restart window.  INITIALIZING, DRAINING and RESTARTING are   *)
(* left again inside the call that enters them.                            *)
(***************************************************************************)
EXTENDS Integers, FiniteSets

CONSTANTS
  Services,  \* service names
  Groups,    \* group names
  Configs,   \* registrations callers make: [policy, max, window]
  MaxGroup,  \* OZAYN_SVC_MAX_PER_GROUP
  Unset      \* first_failure_in_window = 0

Policies == {"NEVER", "ON_FAILURE", "ALWAYS"}
Config == [policy : Policies, max : Nat, window : Nat]

ASSUME ServiceAssumption ==
  /\ Configs \subseteq Config
  /\ \E longest \in Configs : \A c \in Configs : c.window <= longest.window
  /\ MaxGroup \in Nat
  /\ Unset \notin Nat

VARIABLES
  state,    \* svc->state
  health,   \* svc->health
  config,   \* restart_policy, max_restarts, restart_window_ms
  failures, \* failures_in_window, kept up to max + 1
  first,    \* age of first_failure_in_window, or Unset
  groups,   \* the services named in each group; Unset: no such group
  recent    \* history: how many restarts were done a units ago, per age a

svcVars == <<state, health, config, failures, first, recent>>
vars == <<svcVars, groups>>

States == {"UNREGISTERED", "REGISTERED", "RUNNING", "STOPPED", "FAILED", "SUSPENDED"}
Health == {"UNKNOWN", "HEALTHY", "DEGRADED", "UNHEALTHY"}
MaxWindow == CHOOSE w \in {c.window : c \in Configs} : \A c \in Configs : c.window <= w
Ages == 0..MaxWindow

Registered(s) == state[s] # "UNREGISTERED"
Capped(s, n) == IF n > config[s].max THEN config[s].max + 1 ELSE n
NoRestarts == [a \in Ages |-> 0]

-----------------------------------------------------------------------------
Init ==
  /\ state = [s \in Services |-> "UNREGISTERED"]
  /\ health = [s \in Services |-> "UNKNOWN"]
  /\ config \in [Services -> {CHOOSE c \in Configs : TRUE}]
  /\ failures = [s \in Services |-> 0]
  /\ first = [s \in Services |-> Unset]
  /\ groups = [g \in Groups |-> Unset]
  /\ recent = [s \in Services |-> NoRestarts]

(* ozayn_svc_lc_register: a zeroed record.                                 *)
Register(s, c) ==
  /\ ~Registered(s)
  /\ state' = [state EXCEPT ![s] = "REGISTERED"]
  /\ health' = [health EXCEPT ![s] = "UNKNOWN"]
  /\ config' = [config EXCEPT ![s] = c]
  /\ failures' = [failures EXCEPT ![s] = 0]
  /\ first' = [first EXCEPT ![s] = Unset]
  /\ recent' = [recent EXCEPT ![s] = NoRestarts]
  /\ UNCHANGED groups

(* ozayn_svc_lc_unregister, in any state; groups keep the name.            *)
Unregister(s) ==
  /\ Registered(s)
  /\ state' = [state EXCEPT ![s] = "UNREGISTERED"]
  /\ UNCHANGED <<health, config, failures, first, groups, recent>>

Startable(s) == state[s] \in {"REGISTERED", "STOPPED", "FAILED"}

(* ozayn_svc_lc_start and ozayn_svc_lc_stop on a set of services: one, or  *)
(* the members of a group.                                                 *)
StartAll(S) ==
  LET starting == {s \in S : Startable(s)} IN
    /\ starting # {}
    /\ state' = [s \in Services |-> IF s \in starting THEN "RUNNING" ELSE state[s]]
    /\ health' = [s \in Services |-> IF s \in starting THEN "HEALTHY" ELSE health[s]]
    /\ UNCHANGED <<config, failures, first, groups, recent>>

StopAll(S) ==
  LET stopping == {s \in S : state[s] \notin {"STOPPED", "UNREGISTERED"}} IN
    /\ stopping # {}
    /\ state' = [s \in Services |-> IF s \in stopping THEN "STOPPED" ELSE state[s]]
    /\ UNCHANGED <<health, config, failures, first, groups, recent>>

Start(s) == StartAll({s})
Stop(s) == StopAll({s})

(* ozayn_svc_lc_group_create, _group_add, _group_start, _group_stop.       *)
GroupCreate(g) ==
  /\ groups[g] = Unset
  /\ groups' = [groups EXCEPT ![g] = {}]
  /\ UNCHANGED svcVars

GroupAdd(g, s) ==
  /\ groups[g] # Unset /\ Registered(s)
  /\ Cardinality(groups[g]) < MaxGroup
  /\ groups' = [groups EXCEPT ![g] = @ \cup {s}]
  /\ UNCHANGED svcVars

GroupStart(g) == groups[g] # Unset /\ StartAll(groups[g])
GroupStop(g) == groups[g] # Unset /\ StopAll(groups[g])

-----------------------------------------------------------------------------
(* ozayn_svc_lc_can_restart, given the failures counted so far and the age *)
(* of the first of them.                                                   *)
WindowOver_Never(s, f) == FALSE    \* mutant: the window is never closed
WindowOver(s, f) == f # Unset /\ f > config[s].window
CanRestart_OneMore(s, n, f) ==     \* mutant: compared with <=
  config[s].max = 0 \/ n <= config[s].max \/ WindowOver(s, f)
CanRestart(s, n, f) ==
  config[s].max = 0 \/ n < config[s].max \/ WindowOver(s, f)

(* ozayn_svc_lc_restart.  Within the budget: a closed window is reset if   *)
(* the count stood at the limit, the restart is charged to it, and stop    *)
(* and start leave the service running.  Beyond it: the service has FAILED.*)
RestartWith(s, n, f, sick) ==
  LET limited == config[s].max > 0 /\ n >= config[s].max IN
  IF CanRestart(s, n, f)
  THEN /\ state' = [state EXCEPT ![s] = "RUNNING"]
       /\ health' = [health EXCEPT ![s] = "HEALTHY"]
       /\ failures' = [failures EXCEPT ![s] = Capped(s, (IF limited THEN 0 ELSE n) + 1)]
       /\ first' = [first EXCEPT ![s] = IF limited THEN Unset ELSE f]
       /\ recent' = [recent EXCEPT ![s][0] =
                       IF @ > 3 * config[s].max THEN @ ELSE @ + 1]
  ELSE /\ state' = [state EXCEPT ![s] = "FAILED"]
       /\ health' = [health EXCEPT ![s] = sick]
       /\ failures' = [failures EXCEPT ![s] = n]
       /\ first' = [first EXCEPT ![s] = f]
       /\ UNCHANGED recent

Restart(s) ==
  /\ Registered(s)
  /\ RestartWith(s, failures[s], first[s], health[s])
  /\ UNCHANGED <<config, groups>>

Suspend(s) ==
  /\ state[s] = "RUNNING"
  /\ state' = [state EXCEPT ![s] = "SUSPENDED"]
  /\ UNCHANGED <<health, config, failures, first, groups, recent>>

Resume(s) ==
  /\ state[s] = "SUSPENDED"
  /\ state' = [state EXCEPT ![s] = "RUNNING"]
  /\ UNCHANGED <<health, config, failures, first, groups, recent>>

(* ozayn_svc_lc_set_health: which reports call for a reaction, and whether *)
(* that is a restart.                                                      *)
Failing(s, h) == h = "UNHEALTHY" /\ health[s] # h /\ state[s] = "RUNNING"
AutoRestarts(s) == config[s].policy \in {"ON_FAILURE", "ALWAYS"}

(* ozayn_svc_lc_set_health with a report that needs no reaction.           *)
NoteHealth(s, h) ==
  /\ Registered(s) /\ h # health[s]
  /\ ~Failing(s, h)
  /\ health' = [health EXCEPT ![s] = h]
  /\ UNCHANGED <<state, config, failures, first, groups, recent>>

(* ozayn_svc_lc_set_health when a RUNNING service turns UNHEALTHY: the     *)
(* failure is counted, then the service is restarted or has FAILED.        *)
TurnUnhealthy(s) ==
  /\ Registered(s) /\ Failing(s, "UNHEALTHY")
  /\ LET fresh == first[s] = Unset \/ WindowOver(s, first[s])
         n == IF fresh THEN 1 ELSE Capped(s, failures[s] + 1)
         f == IF fresh THEN 0 ELSE first[s]
     IN IF AutoRestarts(s)
        THEN RestartWith(s, n, f, "UNHEALTHY")
        ELSE /\ state' = [state EXCEPT ![s] = "FAILED"]
             /\ health' = [health EXCEPT ![s] = "UNHEALTHY"]
             /\ failures' = [failures EXCEPT ![s] = n]
             /\ first' = [first EXCEPT ![s] = f]
             /\ UNCHANGED recent
  /\ UNCHANGED <<config, groups>>

(* ozayn_svc_lc_check_all: running services of unknown health are healthy. *)
CheckAll ==
  /\ health' = [s \in Services |->
                  IF state[s] = "RUNNING" /\ health[s] = "UNKNOWN"
                  THEN "HEALTHY" ELSE health[s]]
  /\ UNCHANGED <<state, config, failures, first, groups, recent>>

(* One unit of time passes.                                                *)
Elapse ==
  /\ first' = [s \in Services |->
                 IF first[s] = Unset \/ first[s] > MaxWindow THEN first[s]
                 ELSE first[s] + 1]
  /\ recent' = [s \in Services |-> [a \in Ages |-> IF a = 0 THEN 0 ELSE recent[s][a - 1]]]
  /\ UNCHANGED <<state, health, config, failures, groups>>

Next ==
  \/ \E s \in Services :
       \/ \E c \in Configs : Register(s, c)
       \/ Unregister(s)
       \/ Start(s)
       \/ Stop(s)
       \/ Restart(s)
       \/ Suspend(s)
       \/ Resume(s)
       \/ \E h \in Health : NoteHealth(s, h)
       \/ TurnUnhealthy(s)
  \/ \E g \in Groups :
       \/ GroupCreate(g)
       \/ \E s \in Services : GroupAdd(g, s)
       \/ GroupStart(g)
       \/ GroupStop(g)
  \/ CheckAll
  \/ Elapse

Spec == Init /\ [][Next]_vars

(* The clock advances; callers are not obliged to do anything.             *)
FairSpec == Spec /\ WF_vars(Elapse)
-----------------------------------------------------------------------------
TypeOK ==
  /\ state \in [Services -> States]
  /\ health \in [Services -> Health]
  /\ config \in [Services -> Configs]
  /\ failures \in [Services -> Nat]
  /\ first \in [Services -> {Unset} \cup 0..(MaxWindow + 1)]
  /\ groups \in [Groups -> {Unset} \cup SUBSET Services]
  /\ recent \in [Services -> [Ages -> Nat]]

(* Restarts done in this unit and the w before it, summed one unit after   *)
(* the other.                                                              *)
RestartsWithin(s, w) ==
  LET Sum[n \in 0..(w + 1)] == IF n = 0 THEN 0 ELSE Sum[n - 1] + recent[s][n - 1]
  IN Sum[w + 1]

(* Whatever mix of explicit restarts, failures and manual starts, less     *)
(* than three budgets of restarts fall into one window: what was left of   *)
(* the budget when the window closed, the budget that its closing gives,   *)
(* and one more, since the failure after it opens a new window and sets    *)
(* the count back to 1.                                                    *)
RestartsLimited ==
  \A s \in Services :
    config[s].max > 0 => RestartsWithin(s, config[s].window) <= 3 * config[s].max - 2

(* And it is given up on a report only after half of its budget: however   *)
(* explicit restarts, manual starts and failures mix, the failures held    *)
(* against it lie within one window and each was answered by a restart.    *)
HalfBudgetAvailable ==
  [][\A s \in Services :
       /\ AutoRestarts(s) /\ Failing(s, "UNHEALTHY")
       /\ health'[s] = "UNHEALTHY" /\ state'[s] = "FAILED"
       => 2 * RestartsWithin(s, config[s].window) + 1 >= config[s].max]_vars

-----------------------------------------------------------------------------
(* service_lifecycle.h:21 "Restart budget (max restarts within a time      *)
(* window)": never more than max_restarts restarts within one window.  A   *)
(* first failure sets the count back to 1 and forgets explicit restarts.   *)
BudgetIsMaximum ==
  \A s \in Services :
    config[s].max > 0 => RestartsWithin(s, config[s].window) <= config[s].max

(* service_lifecycle.h:73 "max restarts within window": an unhealthy       *)
(* service is given up only once max_restarts restarts were made within    *)
(* the window.  The code charges each failure twice, once when it is       *)
(* counted and once more when it is restarted.                             *)
BudgetIsAvailable ==
  [][\A s \in Services :
       /\ config[s].policy # "NEVER"
       /\ health[s] # "UNHEALTHY" /\ health'[s] = "UNHEALTHY"
       /\ state[s] = "RUNNING" /\ state'[s] = "FAILED"
       => RestartsWithin(s, config[s].window) >= config[s].max]_vars

(* service_lifecycle.h:74 "time window for restart budget": a service that *)
(* spent its budget may be restarted again once the window is over.        *)
(* Explicit restarts open no window, so it never closes.                   *)
BudgetRenews ==
  \A s \in Services :
    Registered(s) /\ ~CanRestart(s, failures[s], first[s])
      ~> ~Registered(s) \/ CanRestart(s, failures[s], first[s])

(* service_lifecycle.c:330 "If unhealthy and running, track failure": no   *)
(* service is left running while it is known to be unhealthy.  A service   *)
(* that turns unhealthy while suspended is resumed as it is.               *)
UnhealthyIsHandled ==
  \A s \in Services : state[s] = "RUNNING" => health[s] # "UNHEALTHY"
=============================================================================
