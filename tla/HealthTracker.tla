--------------------------- MODULE HealthTracker ---------------------------
(***************************************************************************)
(* The health tracker (core/health_tracker.c): components send heartbeats, *)
(* anybody may set their state, and a watchdog that runs every so often    *)
(* degrades and fails those that are silent (auto_degrade and auto_fail,   *)
(* as main.c configures it).                                               *)
(***************************************************************************)
EXTENDS Integers

CONSTANTS
  Watched,          \* components, each registered once
  HeartbeatTimeout, \* heartbeat_timeout_ms
  CheckInterval,    \* check_interval_ms of the watchdog
  MaxSilences,      \* max_misses of the watchdog
  QuietCap          \* bound: silence is measured up to it

ASSUME HealthAssumption ==
  /\ HeartbeatTimeout \in Nat /\ CheckInterval \in Nat \ {0} /\ MaxSilences \in Nat \ {0}
  /\ QuietCap \in Nat /\ QuietCap > HeartbeatTimeout + MaxSilences * CheckInterval

VARIABLES
  condition, \* condition[c]: the state, "ABSENT" while c is not registered
  silences,\* silences[c]: miss_count, up to MaxSilences
  quiet,   \* quiet[c]: time since last_heartbeat, up to QuietCap
  checked  \* time since last_watchdog_check, up to CheckInterval

healthVars == <<condition, silences, quiet, checked>>

(* UNKNOWN and UNRESPONSIVE are only ever set from outside; they behave as *)
(* STARTING and DEGRADED.                                                  *)
HealthStates == {"STARTING", "HEALTHY", "DEGRADED", "FAILED", "RECOVERING",
                 "STOPPING", "STOPPED", "QUARANTINED"}
Tracked == {c \in Watched : condition[c] # "ABSENT"}

HealthInit ==
  /\ condition = [c \in Watched |-> "ABSENT"]
  /\ silences = [c \in Watched |-> 0] /\ quiet = [c \in Watched |-> 0] /\ checked = 0

(* ozayn_ht_register and ozayn_ht_unregister                               *)
WatchComponent(c) ==
  /\ c \notin Tracked
  /\ condition' = [condition EXCEPT ![c] = "STARTING"]
  /\ silences' = [silences EXCEPT ![c] = 0] /\ quiet' = [quiet EXCEPT ![c] = 0]
  /\ UNCHANGED checked
UnwatchComponent(c) ==
  /\ c \in Tracked
  /\ condition' = [condition EXCEPT ![c] = "ABSENT"]
  /\ UNCHANGED <<silences, quiet, checked>>

Heartbeat_KeepsCount(c) ==              \* mutant: miss_count is not cleared
  /\ c \in Tracked
  /\ quiet' = [quiet EXCEPT ![c] = 0]
  /\ condition' = [condition EXCEPT ![c] = IF @ = "DEGRADED" THEN "HEALTHY" ELSE @]
  /\ UNCHANGED <<silences, checked>>
Heartbeat(c) ==
  /\ c \in Tracked
  /\ quiet' = [quiet EXCEPT ![c] = 0] /\ silences' = [silences EXCEPT ![c] = 0]
  /\ condition' = [condition EXCEPT ![c] = IF @ = "DEGRADED" THEN "HEALTHY" ELSE @]
  /\ UNCHANGED checked

(* ozayn_ht_set_state, ozayn_ht_quarantine and ozayn_ht_unquarantine: any  *)
(* state from any other; the count of misses stays.                        *)
SetState(c, s) ==
  /\ c \in Tracked /\ condition[c] # s
  /\ condition' = [condition EXCEPT ![c] = s]
  /\ UNCHANGED <<silences, quiet, checked>>

(* ozayn_ht_watchdog_tick                                                  *)
Silent(c) == condition[c] \notin {"ABSENT", "STOPPED", "QUARANTINED"} /\ quiet[c] > HeartbeatTimeout
Silences(c) ==
  IF Silent(c) /\ silences[c] < MaxSilences THEN silences[c] + 1 ELSE silences[c]
WatchdogTick ==
  /\ checked = CheckInterval
  /\ checked' = 0
  /\ silences' = [c \in Watched |-> Silences(c)]
  /\ condition' = [c \in Watched |->
       CASE Silent(c) /\ silences'[c] >= MaxSilences -> "FAILED"
         [] Silent(c) /\ silences'[c] < MaxSilences /\ condition[c] = "HEALTHY" -> "DEGRADED"
         [] OTHER -> condition[c]]
  /\ UNCHANGED quiet

HealthElapse ==
  /\ checked < CheckInterval \/ \E c \in Tracked : quiet[c] < QuietCap
  /\ checked' = IF checked < CheckInterval THEN checked + 1 ELSE checked
  /\ quiet' = [c \in Watched |-> IF quiet[c] < QuietCap THEN quiet[c] + 1 ELSE QuietCap]
  /\ UNCHANGED <<condition, silences>>

HealthNext ==
  \/ WatchdogTick \/ HealthElapse
  \/ \E c \in Watched :
       \/ WatchComponent(c) \/ UnwatchComponent(c) \/ Heartbeat(c)
       \/ \E s \in HealthStates : SetState(c, s)

-----------------------------------------------------------------------------
HealthTypeOK ==
  /\ condition \in [Watched -> HealthStates \cup {"ABSENT"}]
  /\ silences \in [Watched -> 0..MaxSilences] /\ quiet \in [Watched -> 0..QuietCap]
  /\ checked \in 0..CheckInterval

(* The watchdog fails no component that was heard of lately: between its   *)
(* last heartbeat and the verdict lie the timeout and the rounds in which  *)
(* it was missed, whatever else set its state (health_tracker.c:197).      *)
FailedAfterSilence ==
  [][\A c \in Watched :
       WatchdogTick /\ condition[c] # "FAILED" /\ condition'[c] = "FAILED"
       => quiet[c] > HeartbeatTimeout + (MaxSilences - 1) * CheckInterval]_healthVars
=============================================================================
