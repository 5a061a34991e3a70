--------------------------- MODULE CircuitBreaker ---------------------------
(***************************************************************************)
(* The circuit breaker of the core runtime (src/core/circuit_breaker.c):   *)
(* callers ask allow_call before they use a dependency and report how the  *)
(* call went.  Between the two any number of other calls may be admitted   *)
(* and reported, so a result can arrive long after the breaker has left    *)
(* the state in which the call was admitted.                               *)
(*                                                                         *)
(* Counters that the code only compares with a threshold are kept up to    *)
(* that threshold.  The totals are statistics and are left out; a refused  *)
(* call changes nothing else and has no action.                            *)
(***************************************************************************)
EXTENDS Integers

CONSTANTS
  Calls,             \* calls that can be under way at the same time
  FailureThreshold,  \* config.failure_threshold
  SuccessThreshold,  \* config.success_threshold
  MaxTrialCalls,     \* config.max_calls_half_open
  OpenTimeout        \* config.timeout_ms, in units of time

ASSUME BreakerAssumption ==
  /\ FailureThreshold \in Nat \ {0} /\ SuccessThreshold \in Nat \ {0}
  /\ MaxTrialCalls \in Nat /\ OpenTimeout \in Nat

VARIABLES
  breaker,  \* state, failure_count, consecutive_successes, half_open_calls,
            \* time since opened_at
  underway, \* calls admitted and not reported yet
  trial     \* history of the half-open period: calls admitted, successes seen

breakerVars == <<breaker, underway, trial>>

UpTo(n, max) == IF n > max THEN max ELSE n

Breaker == [state : {"CLOSED", "OPEN", "HALF_OPEN"},
            failures : 0..FailureThreshold,
            successes : 0..SuccessThreshold,
            calls : 0..MaxTrialCalls,
            age : 0..OpenTimeout]
NoTrial == [admitted |-> 0, succeeded |-> 0]

(* ozayn_cb_init                                                           *)
BreakerInit ==
  /\ breaker = [state |-> "CLOSED", failures |-> 0, successes |-> 0, calls |-> 0, age |-> 0]
  /\ underway = {}
  /\ trial = NoTrial

(* The call that finds the timeout elapsed is let through as well, and is  *)
(* not one of the half_open_calls.                                         *)
HalfOpen_KeepsCalls ==                  \* mutant: half_open_calls not reset
  [breaker EXCEPT !.state = "HALF_OPEN", !.successes = 0]
HalfOpen_KeepsSuccesses ==              \* mutant: consecutive_successes not reset
  [breaker EXCEPT !.state = "HALF_OPEN", !.calls = 0]
HalfOpen == [breaker EXCEPT !.state = "HALF_OPEN", !.calls = 0, !.successes = 0]

(* A further trial call, while there are some left.                        *)
OneMoreTrial == [breaker EXCEPT !.calls = @ + 1]

TrialsLeft == breaker.calls < MaxTrialCalls

(* ozayn_cb_allow_call, when it returns 1.                                 *)
AllowCall(c) ==
  /\ c \notin underway
  /\ underway' = underway \cup {c}
  /\ \/ /\ breaker.state = "CLOSED"
        /\ UNCHANGED <<breaker, trial>>
     \/ /\ breaker.state = "OPEN" /\ breaker.age >= OpenTimeout
        /\ breaker' = HalfOpen
        /\ trial' = [admitted |-> 1, succeeded |-> 0]
     \/ /\ breaker.state = "HALF_OPEN" /\ TrialsLeft
        /\ breaker' = OneMoreTrial
        /\ trial' = [trial EXCEPT !.admitted = @ + 1]

Closed_KeepsFailures ==                 \* mutant: failure_count not reset
  [breaker EXCEPT !.state = "CLOSED", !.successes = 0]
Closed == [breaker EXCEPT !.state = "CLOSED", !.failures = 0, !.successes = 0]

(* ozayn_cb_record_success, for a call that was admitted in any state.     *)
RecordSuccess(c) ==
  /\ c \in underway
  /\ underway' = underway \ {c}
  /\ LET counted == UpTo(breaker.successes + 1, SuccessThreshold)
     IN \/ /\ breaker.state = "CLOSED"
           /\ breaker' = [breaker EXCEPT !.successes = counted, !.failures = 0]
           /\ UNCHANGED trial
        \/ /\ breaker.state = "OPEN"
           /\ breaker' = [breaker EXCEPT !.successes = counted]
           /\ UNCHANGED trial
        \/ /\ breaker.state = "HALF_OPEN"
           /\ breaker' = IF counted >= SuccessThreshold THEN Closed
                         ELSE [breaker EXCEPT !.successes = counted]
           /\ trial' = [trial EXCEPT !.succeeded = UpTo(@ + 1, SuccessThreshold)]

(* A failure counts in every state; it opens the breaker at the threshold  *)
(* when closed, at once when half open, and not again when open.           *)
Opens(counted) ==
  \/ breaker.state = "CLOSED" /\ counted >= FailureThreshold
  \/ breaker.state = "HALF_OPEN"

(* ozayn_cb_record_failure                                                 *)
RecordFailure(c) ==
  /\ c \in underway
  /\ underway' = underway \ {c}
  /\ LET counted == UpTo(breaker.failures + 1, FailureThreshold)
         failed == [breaker EXCEPT !.failures = counted, !.successes = 0]
     IN breaker' = IF Opens(counted) THEN [failed EXCEPT !.state = "OPEN", !.age = 0]
                                     ELSE failed
  /\ UNCHANGED trial

(* ozayn_cb_reset: by hand, in any state.                                  *)
ResetBreaker ==
  /\ breaker' = [Closed EXCEPT !.calls = 0]
  /\ UNCHANGED <<underway, trial>>

(* The monotonic clock; only an open breaker looks at it.                  *)
BreakerElapse ==
  /\ breaker.state = "OPEN" /\ breaker.age < OpenTimeout
  /\ breaker' = [breaker EXCEPT !.age = @ + 1]
  /\ UNCHANGED <<underway, trial>>

BreakerNext ==
  \/ \E c \in Calls : AllowCall(c) \/ RecordSuccess(c) \/ RecordFailure(c)
  \/ ResetBreaker
  \/ BreakerElapse

BreakerSpec == BreakerInit /\ [][BreakerNext]_breakerVars

(* Callers keep calling and report what they were allowed to do.           *)
Report == \E c \in Calls : RecordSuccess(c) \/ RecordFailure(c)
Call == \E c \in Calls : AllowCall(c)

-----------------------------------------------------------------------------
BreakerTypeOK ==
  /\ breaker \in Breaker
  /\ underway \subseteq Calls
  /\ trial \in [admitted : Nat, succeeded : 0..SuccessThreshold]

(* Failures reported late, while the breaker is open or half open, never   *)
(* survive its closing: a closed breaker has always seen fewer failures    *)
(* than it takes to open it (circuit_breaker.c:108,131).                   *)
ClosedBelowThreshold ==
  breaker.state = "CLOSED" => breaker.failures < FailureThreshold

(* "Limited calls allowed" while half open: at most one more than          *)
(* max_calls_half_open, the call that ended the open state, however often  *)
(* the breaker goes back and forth (circuit_breaker.c:72,82).              *)
TrialBounded == breaker.state = "HALF_OPEN" => trial.admitted <= MaxTrialCalls + 1

(* The bounds on what a breaker has counted, as CircuitBreakerProofs       *)
(* proves them.                                                            *)
BreakerSafe == BreakerTypeOK /\ ClosedBelowThreshold /\ TrialBounded

(* A half-open breaker is closed by results only after it has seen         *)
(* success_threshold successes since it became half open; successes that   *)
(* came in before that, from calls that outlived the failure, do not count *)
(* (circuit_breaker.c:73,106).                                              *)
ClosesOnSuccesses ==
  [][breaker.state = "HALF_OPEN" /\ breaker'.state = "CLOSED" /\ underway' # underway
     => trial'.succeeded >= SuccessThreshold]_breakerVars

(* A half-open breaker does not stay so: its trial calls are enough to     *)
(* close it when they succeed.  It depends on success_threshold <=         *)
(* max_calls_half_open + 1, which main.c:604 meets with equality, and on   *)
(* every admitted call being reported (circuit_breaker.c:81).              *)
HalfOpenEnds == (breaker.state = "HALF_OPEN") ~> (breaker.state # "HALF_OPEN")
=============================================================================
