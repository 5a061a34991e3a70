--------------------------- MODULE StartupRecovery ---------------------------
(***************************************************************************)
(* The startup of the Control Room (04_CONTROL_ROOM/startup_recovery.c):   *)
(* ten phases, run all at once or one by one, whose results and whose      *)
(* warnings and blocking conditions end in a decision.                     *)
(*                                                                         *)
(* A phase is its number.  What a phase would look up in other services is *)
(* left for later in the code, so that neither a degraded nor a failed     *)
(* result, nor RECOVERY_REQUIRED, MANUAL_REVIEW or a decision from a       *)
(* failed phase, is ever reached.  Warnings and blocking conditions        *)
(* are only added by callers; that there are some is all that is read.     *)
(* Time is the monotonic clock of the machine, kept in an int of IntMax by *)
(* the startup.  The manifest, but for its total timeout, the cause of the *)
(* startup, events and statistics are left out.                            *)
(***************************************************************************)
EXTENDS Integers, FiniteSets, Sequences

CONSTANTS
  LastStep,         \* OZAYN_SRC_PHASE_RECOVERY_ASSESSMENT, the last phase that is run
  MaxPhaseResults,  \* OZAYN_SRC_MAX_PHASE_RESULTS
  TotalTimeout,     \* manifest.total_timeout_ms
  IntMax,           \* the largest int, in the unit of the clock
  MaxUptime         \* (bound) on the clock

ASSUME StartupAssumption ==
  /\ LastStep \in Nat \ {0} /\ MaxPhaseResults \in Nat /\ MaxPhaseResults >= LastStep
  /\ {TotalTimeout, IntMax, MaxUptime} \subseteq Nat

VARIABLES
  bootPhase,     \* context.current_phase
  completed,     \* context.highest_completed_phase
  results,       \* phase_results: [phase, status], in their order
  verdict,       \* context.decision
  bootState,     \* context.runtime_state
  bootRunning,   \* running
  warned,        \* warning_count > 0
  blocking,      \* blocking_count > 0
  uptime         \* CLOCK_MONOTONIC

bootVars == <<bootPhase, completed, results, verdict, bootState, bootRunning, warned, blocking, uptime>>

Steps == 1..LastStep
NotStarted == 0
Ready == LastStep + 1
Degraded == LastStep + 2
Blocked == LastStep + 3
BootFailed == LastStep + 4
Stopped == LastStep + 6          \* STOPPING is never entered
BootStates == {"IDLE", "RUNNING", "STOPPED", "FAILED"}  \* between calls
Verdicts == {"UNKNOWN", "READY", "READY_DEGRADED", "BLOCKED", "FAILED"}

(* An int64 that is stored in an int.                                      *)
AsInt(t) == ((t + IntMax + 1) % (2 * (IntMax + 1))) - IntMax - 1

(* What phases look for and, with the services that are bound today, never *)
(* find: components whose persisted state is not the current one, things   *)
(* that are not available, and work that was interrupted.                  *)
Inconsistent == {}
Unavailable == {}
ToRecover == {}
PhaseOutcome == IF Inconsistent \cup Unavailable \cup ToRecover = {} THEN "SUCCESS" ELSE "DEGRADED"

(* One phase: it begins in a free slot, if there is one, and its outcome   *)
(* is written to the first slot with its number.                           *)
AfterPhase(rs, phase) ==
  LET begun == IF Len(rs) < MaxPhaseResults THEN Append(rs, [phase |-> phase, status |-> "PENDING"]) ELSE rs
      slots == {k \in DOMAIN begun : begun[k].phase = phase}
  IN IF slots = {} THEN begun
     ELSE [begun EXCEPT ![CHOOSE k \in slots : \A j \in slots : k <= j].status = PhaseOutcome]
HasResult(rs, phase) == \E k \in DOMAIN rs : rs[k] = [phase |-> phase, status |-> "SUCCESS"]

AllPhases_Short(n) ==            \* mutant: the last phase is left out
  LET After[k \in 0..n] ==
        IF k = 0 THEN <<>> ELSE IF k = LastStep THEN After[k - 1] ELSE AfterPhase(After[k - 1], k)
  IN After[n]
(* The results of the first n phases, run on a table that was wiped.       *)
AllPhases(n) ==
  LET After[k \in 0..n] == IF k = 0 THEN <<>> ELSE AfterPhase(After[k - 1], k)
  IN After[n]

Decided(w, b) == IF b THEN "BLOCKED" ELSE IF w THEN "READY_DEGRADED" ELSE "READY"

BootInit ==
  /\ bootPhase = NotStarted /\ completed = NotStarted /\ results = <<>>
  /\ verdict = "UNKNOWN" /\ bootState = "IDLE" /\ bootRunning = FALSE
  /\ warned = FALSE /\ blocking = FALSE
  /\ uptime \in 0..MaxUptime

(* ozayn_src_startup.  What was there from before is wiped, warnings and   *)
(* blocking conditions too; `took' is the time that has passed when        *)
(* `ran' phases are done, which is looked at before each phase.            *)
Startup(ran, took) ==
  LET elapsed == uptime + took - AsInt(uptime)
  IN /\ ~bootRunning
     /\ uptime + took <= MaxUptime /\ uptime' = uptime + took
     /\ warned' = FALSE /\ blocking' = FALSE
     /\ results' = AllPhases(ran)
     /\ completed' = IF ran = 0 THEN NotStarted ELSE ran
     /\ IF elapsed > TotalTimeout
        THEN /\ ran < LastStep /\ (uptime - AsInt(uptime) > TotalTimeout => ran = 0)
             /\ bootPhase' = BootFailed /\ bootState' = "FAILED" /\ bootRunning' = FALSE
             /\ verdict' = "FAILED"
        ELSE /\ ran = LastStep
             /\ bootPhase' = Ready /\ bootState' = "RUNNING" /\ bootRunning' = TRUE
             /\ verdict' = Decided(FALSE, FALSE)

(* ozayn_src_startup_phase, for one phase.                                 *)
StartupPhase(phase) ==
  /\ phase >= bootPhase
  /\ bootPhase' = phase
  /\ results' = AfterPhase(results, phase)
  /\ completed' = IF HasResult(results', phase) /\ phase > completed THEN phase ELSE completed
  /\ UNCHANGED <<verdict, bootState, bootRunning, warned, blocking, uptime>>

DetermineDecision ==
  /\ verdict' = Decided(warned, blocking)
  /\ UNCHANGED <<bootPhase, completed, results, bootState, bootRunning, warned, blocking, uptime>>

AddWarning ==
  /\ warned' = TRUE
  /\ UNCHANGED <<bootPhase, completed, results, verdict, bootState, bootRunning, blocking, uptime>>
AddBlocking ==
  /\ blocking' = TRUE
  /\ UNCHANGED <<bootPhase, completed, results, verdict, bootState, bootRunning, warned, uptime>>

(* ozayn_src_shutdown.                                                     *)
ShutdownStartup ==
  /\ bootRunning' = FALSE /\ bootState' = "STOPPED" /\ bootPhase' = Stopped
  /\ UNCHANGED <<completed, results, verdict, warned, blocking, uptime>>

BootElapse ==
  /\ uptime < MaxUptime /\ uptime' = uptime + 1
  /\ UNCHANGED <<bootPhase, completed, results, verdict, bootState, bootRunning, warned, blocking>>

BootNext ==
  \/ \E ran \in 0..LastStep, took \in 0..TotalTimeout + 1 : Startup(ran, took)
  \/ \E phase \in Steps : StartupPhase(phase)
  \/ DetermineDecision \/ AddWarning \/ AddBlocking \/ ShutdownStartup \/ BootElapse

(***************************************************************************)
(* Properties.                                                             *)
(***************************************************************************)

BootTypeOK ==
  /\ bootPhase \in 0..Stopped /\ completed \in 0..LastStep /\ bootState \in BootStates
  /\ verdict \in Verdicts /\ Len(results) <= MaxPhaseResults

(* What runs went through every phase, in whatever order phases were run   *)
(* by hand before; and phases are not run again under it.                  *)
RunningWentThrough ==
  bootRunning => /\ bootPhase = Ready /\ completed = LastStep
             /\ \A phase \in Steps : HasResult(results, phase)

(* No phase counts as completed that has no successful result, and none    *)
(* lies before the highest that could still be run in its place.           *)
CompletedHasResult ==
  /\ completed > 0 => HasResult(results, completed)
  /\ bootPhase \in Steps => completed <= bootPhase

(* The state that is reported is that of the service: bootRunning in RUNNING,  *)
(* and in no other.                                                        *)
StateTellsRunning == bootRunning <=> bootState = "RUNNING"

BootSafe == BootTypeOK /\ RunningWentThrough /\ CompletedHasResult /\ StateTellsRunning

(* A startup that takes no longer than it may ends in READY                *)
(* (04_CONTROL_ROOM/README.md: "the system starts in READY mode            *)
(* regardless").  It holds on a machine that has been up for less time     *)
(* than an int can tell (StartsWhileYoung), and not on another             *)
(* (StartsInTime): the beginning of the startup is kept in an int.         *)
StartsWhileYoung ==
  [][\A ran \in 0..LastStep, took \in 0..TotalTimeout :
       Startup(ran, took) /\ uptime <= IntMax => verdict' = "READY"]_bootVars
StartsInTime ==
  [][\A ran \in 0..LastStep, took \in 0..TotalTimeout :
       Startup(ran, took) => verdict' = "READY"]_bootVars
(* A decision that blocks stops what runs.                                 *)
BlockedIsNotRunning == verdict = "BLOCKED" => ~bootRunning
=============================================================================
