------------------------------ MODULE CrashLoop ------------------------------
(***************************************************************************)
(* Crash-loop detection of the core runtime (src/core/crash_loop.c): a     *)
(* component that fails too often within a window, or has used up its      *)
(* restarts, is quarantined for a cool-down; otherwise a reported failure  *)
(* grants it a restart.                                                    *)
(*                                                                         *)
(* Slots are given out in order and an unregistered one is never used      *)
(* again.  Times are ages; the code compares them with the window and with *)
(* the cool-down only.                                                     *)
(***************************************************************************)
EXTENDS Integers, FiniteSets, Sequences

CONSTANTS
  Components,      \* component names
  MaxComponents,   \* OZAYN_CL_MAX_COMPONENTS
  MaxFailures,     \* policy.max_failures_in_window
  CrashWindow,     \* policy.window_duration_ms, in units of time
  Cooldown,        \* policy.cooldown_ms, in units of time
  MaxCrashRestarts \* policy.max_restarts

ASSUME CrashAssumption ==
  /\ MaxComponents \in Nat /\ MaxFailures \in Nat \ {0}
  /\ CrashWindow \in Nat /\ Cooldown \in Nat /\ MaxCrashRestarts \in Nat

VARIABLES
  tracked, \* mgr->components[0 .. component_count-1]
  granted  \* history, per slot: how many restarts were granted a units ago,
           \* since the last success, release or registration

crashVars == <<tracked, granted>>

GrantAges == 0..CrashWindow
Component == [name : Components, active : BOOLEAN,
              failures : 0..MaxFailures,    \* window_failures
              since : 0..(CrashWindow + 1), \* time since window_start_us
              restarts : 0..MaxCrashRestarts,
              quarantined : BOOLEAN,
              cooling : 0..Cooldown]        \* time until cooldown_until_us
NoGrants == [a \in GrantAges |-> 0]

(* cl_find: a name is active in one slot at most.                          *)
SlotOf(n) == {i \in DOMAIN tracked : tracked[i].active /\ tracked[i].name = n}

CrashInit == tracked = <<>> /\ granted = <<>>

NewComponent(n) == [name |-> n, active |-> TRUE, failures |-> 0, since |-> 0,
                    restarts |-> 0, quarantined |-> FALSE, cooling |-> 0]

(* ozayn_cl_register                                                       *)
RegisterComponent(n) ==
  /\ Len(tracked) < MaxComponents
  /\ SlotOf(n) = {}
  /\ tracked' = Append(tracked, NewComponent(n))
  /\ granted' = Append(granted, NoGrants)

(* ozayn_cl_unregister                                                     *)
UnregisterComponent(n) ==
  \E i \in SlotOf(n) :
    /\ tracked' = [tracked EXCEPT ![i].active = FALSE]
    /\ UNCHANGED granted

(* Quarantined now, for the length of the cool-down.                       *)
Quarantined(c) == [c EXCEPT !.quarantined = TRUE, !.cooling = Cooldown]

(* The failure is counted in the present window, or in a new one that      *)
(* starts with it.                                                         *)
Counted(c) ==
  IF c.since > CrashWindow THEN [c EXCEPT !.since = 0, !.failures = 1]
                           ELSE [c EXCEPT !.failures = @ + 1]

(* ozayn_cl_record_failure.  During the cool-down the report is refused    *)
(* and nothing changes; afterwards it is counted as before, although the   *)
(* component is still quarantined.                                         *)
Refused_Never(c) == FALSE               \* mutant: the cool-down is not looked at
Refused(c) == c.quarantined /\ c.cooling > 0

ReportCrash(n) ==
  \E i \in SlotOf(n) :
    LET c == Counted(tracked[i])
    IN /\ ~Refused(tracked[i])
       /\ IF c.failures >= MaxFailures \/ c.restarts >= MaxCrashRestarts
          THEN /\ tracked' = [tracked EXCEPT
                    ![i] = Quarantined([c EXCEPT !.failures =
                                          IF @ > MaxFailures THEN MaxFailures ELSE @])]
               /\ UNCHANGED granted
          ELSE /\ tracked' = [tracked EXCEPT ![i] = [c EXCEPT !.restarts = @ + 1]]
               /\ granted' = [granted EXCEPT ![i][0] = @ + 1]

Clean(c) == [c EXCEPT !.failures = 0, !.since = 0, !.quarantined = FALSE]

(* ozayn_cl_record_success and ozayn_cl_release: the window starts anew,   *)
(* the restarts used stay used.                                            *)
Recover(n) ==
  \E i \in SlotOf(n) :
    /\ tracked' = [tracked EXCEPT ![i] = Clean(@)]
    /\ granted' = [granted EXCEPT ![i] = NoGrants]

(* ozayn_cl_quarantine                                                     *)
QuarantineByHand(n) ==
  \E i \in SlotOf(n) :
    /\ tracked' = [tracked EXCEPT ![i] = Quarantined(@)]
    /\ UNCHANGED granted

(* One unit of time.                                                       *)
CrashElapse ==
  /\ tracked' = [i \in DOMAIN tracked |->
       [tracked[i] EXCEPT !.since = IF @ > CrashWindow THEN @ ELSE @ + 1,
                          !.cooling = IF @ > 0 THEN @ - 1 ELSE 0]]
  /\ granted' = [i \in DOMAIN granted |->
       [a \in GrantAges |-> IF a = 0 THEN 0 ELSE granted[i][a - 1]]]

CrashNext ==
  \/ \E n \in Components :
       \/ RegisterComponent(n) \/ UnregisterComponent(n)
       \/ ReportCrash(n) \/ Recover(n) \/ QuarantineByHand(n)
  \/ CrashElapse

CrashSpec == CrashInit /\ [][CrashNext]_crashVars

-----------------------------------------------------------------------------
CrashTypeOK ==
  /\ tracked \in Seq(Component) /\ Len(tracked) <= MaxComponents
  /\ granted \in Seq([GrantAges -> 0..MaxCrashRestarts])
  /\ \A n \in Components : Cardinality(SlotOf(n)) <= 1

GrantedRecently(i) ==
  LET Sum[n \in 0..(CrashWindow + 1)] == IF n = 0 THEN 0 ELSE Sum[n - 1] + granted[i][n - 1]
  IN Sum[CrashWindow + 1]

(* A crashing component is caught, if not by the window it is in then by   *)
(* the next: within any stretch as long as the window fewer than twice     *)
(* max_failures_in_window restarts are granted.  The window does not       *)
(* slide, so the failures of two windows can meet at their border          *)
(* (crash_loop.c:104).                                                     *)
CrashLoopCaught ==
  \A i \in DOMAIN granted : GrantedRecently(i) <= 2 * (MaxFailures - 1)

(* While a quarantine cools down, only a success or a release ends it, and *)
(* no failure is charged or restart granted in the meantime                *)
(* (crash_loop.c:98).                                                      *)
CooldownHolds ==
  [][\A i \in DOMAIN tracked :
       LET c == tracked[i] d == tracked'[i] IN
       c.quarantined /\ c.cooling > 0 =>
         /\ d.restarts = c.restarts
         /\ d.quarantined => d.failures = c.failures
         /\ ~d.quarantined => d.failures = 0 /\ d.since = 0]_crashVars

(* A quarantined component is not restarted: reporting its failure         *)
(* "Returns 0 normally, -1 if quarantined" (crash_loop.h:70).               *)
QuarantinedNotRestarted ==
  [][\A i \in DOMAIN tracked :
       tracked[i].quarantined => tracked'[i].restarts = tracked[i].restarts]_crashVars
=============================================================================
