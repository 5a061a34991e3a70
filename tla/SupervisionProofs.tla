------------------------- MODULE SupervisionProofs -------------------------
(* What holds of the parts of the core runtime that watch over the others, *)
(* for any tables, limits and times: the circuit breaker, the health       *)
(* tracker, crash-loop detection, the event engine and the restart budgets *)
(* of the services; and at the end of all five together.                   *)
EXTENDS SequenceTheorems, FiniteSetTheorems, WellFoundedInduction, MCSupervision, TLAPS

-----------------------------------------------------------------------------
(* The circuit breaker.                                                    *)

(* Why a half-open breaker is right about its trial: the calls admitted    *)
(* are the counted ones and the one that ended the open state, and it has  *)
(* seen at least as many successes as it counts.                           *)
TrialAccounts ==
  breaker.state = "HALF_OPEN" =>
    /\ trial.admitted <= breaker.calls + 1
    /\ trial.succeeded >= breaker.successes

BreakerInv == BreakerTypeOK /\ ClosedBelowThreshold /\ TrialAccounts

LEMMA UpToBounds ==
  ASSUME NEW n \in Nat, NEW max \in Nat
  PROVE  UpTo(n, max) \in 0..max /\ UpTo(n, max) <= n
  BY DEF UpTo

LEMMA BreakerInitHolds == BreakerInit => BreakerInv
<1> SUFFICES ASSUME BreakerInit PROVE BreakerInv OBVIOUS
<1>1. BreakerTypeOK
  BY BreakerAssumption DEF BreakerInit, BreakerTypeOK, Breaker, NoTrial
<1>2. ClosedBelowThreshold /\ TrialAccounts
  BY BreakerAssumption DEF BreakerInit, ClosedBelowThreshold, TrialAccounts
<1> QED BY <1>1, <1>2 DEF BreakerInv

(* A breaker in explicit form: what a step leaves is written out field by  *)
(* field, and its membership follows from the fields' ranges.              *)
LEMMA BreakerFields ==
  ASSUME NEW b \in Breaker
  PROVE  /\ b.state \in {"CLOSED", "OPEN", "HALF_OPEN"}
         /\ b.failures \in 0..FailureThreshold /\ b.successes \in 0..SuccessThreshold
         /\ b.calls \in 0..MaxTrialCalls /\ b.age \in 0..OpenTimeout
         /\ b.failures \in Nat /\ b.successes \in Nat /\ b.calls \in Nat
  BY DEF Breaker

LEMMA BreakerLimits ==
  /\ FailureThreshold \in Nat \ {0} /\ SuccessThreshold \in Nat \ {0} /\ MaxTrialCalls \in Nat
  /\ 0 \in 0..FailureThreshold /\ 0 \in 0..SuccessThreshold
  /\ 0 \in 0..MaxTrialCalls /\ 0 \in 0..OpenTimeout
  BY BreakerAssumption

LEMMA AllFields ==
  ASSUME NEW s \in {"CLOSED", "OPEN", "HALF_OPEN"}, NEW f \in 0..FailureThreshold,
         NEW u \in 0..SuccessThreshold, NEW c \in 0..MaxTrialCalls, NEW a \in 0..OpenTimeout
  PROVE  [state |-> s, failures |-> f, successes |-> u, calls |-> c, age |-> a] \in Breaker
  BY DEF Breaker

LEMMA BothCounts ==
  ASSUME NEW b \in Breaker, NEW f \in Nat, NEW u \in Nat
  PROVE  [b EXCEPT !.failures = f, !.successes = u]
           = [state |-> b.state, failures |-> f, successes |-> u, calls |-> b.calls, age |-> b.age]
<1> DEFINE once == [b EXCEPT !.failures = f]
           both == [b EXCEPT !.failures = f, !.successes = u]
<1>1. once = [state |-> b.state, failures |-> f, successes |-> b.successes,
               calls |-> b.calls, age |-> b.age]
  BY DEF Breaker
<1>2. both = [once EXCEPT !.successes = u]
  OBVIOUS
<1> HIDE DEF once, both
<1>3. both = [state |-> b.state, failures |-> f, successes |-> u, calls |-> b.calls, age |-> b.age]
  BY <1>1, <1>2
<1> QED BY <1>3 DEF both

(* What a step has to leave behind.                                        *)
Kept(b, t) ==
  /\ b \in Breaker /\ t \in [admitted : Nat, succeeded : 0..SuccessThreshold]
  /\ b.state = "CLOSED" => b.failures < FailureThreshold
  /\ b.state = "HALF_OPEN" => t.admitted <= b.calls + 1 /\ t.succeeded >= b.successes

LEMMA KeptIsInv == (underway \subseteq Calls /\ Kept(breaker, trial)) <=> BreakerInv
  BY DEF Kept, BreakerInv, BreakerTypeOK, ClosedBelowThreshold, TrialAccounts

LEMMA ClosedIsKept ==
  ASSUME BreakerInv
  PROVE  /\ Closed = [state |-> "CLOSED", failures |-> 0, successes |-> 0,
                      calls |-> breaker.calls, age |-> breaker.age]
         /\ Kept(Closed, trial)
<1>1. breaker \in Breaker /\ trial \in [admitted : Nat, succeeded : 0..SuccessThreshold]
  BY DEF BreakerInv, BreakerTypeOK
<1>2. Closed = [state |-> "CLOSED", failures |-> 0, successes |-> 0,
                calls |-> breaker.calls, age |-> breaker.age]
  <2> DEFINE counters == [breaker EXCEPT !.failures = 0, !.successes = 0]
  <2>1. Closed = [counters EXCEPT !.state = "CLOSED"]
    BY DEF Closed
  <2>2. counters = [state |-> breaker.state, failures |-> 0, successes |-> 0,
                    calls |-> breaker.calls, age |-> breaker.age]
    BY <1>1, BothCounts
  <2> HIDE DEF counters
  <2> QED BY <2>1, <2>2
<1>3. Closed \in Breaker
  BY <1>1, <1>2, BreakerFields, BreakerLimits, AllFields
<1> QED BY <1>1, <1>2, <1>3, BreakerLimits DEF Kept

LEMMA AllowCallKeeps ==
  ASSUME BreakerInv, NEW c \in Calls, AllowCall(c)
  PROVE  Kept(breaker', trial')
<1>1. breaker \in Breaker /\ trial \in [admitted : Nat, succeeded : 0..SuccessThreshold]
      /\ Kept(breaker, trial)
  BY KeptIsInv DEF BreakerInv, BreakerTypeOK
<1>2. CASE UNCHANGED <<breaker, trial>>
  BY <1>1, <1>2
<1>3. CASE breaker' = HalfOpen /\ trial' = [admitted |-> 1, succeeded |-> 0]
  <2>1. breaker' = [state |-> "HALF_OPEN", failures |-> breaker.failures, successes |-> 0,
                    calls |-> 0, age |-> breaker.age]
    BY <1>1, <1>3 DEF HalfOpen, Breaker
  <2>2. breaker' \in Breaker
    BY <1>1, <2>1, BreakerFields, BreakerLimits, AllFields
  <2> QED BY <1>3, <2>1, <2>2, BreakerLimits DEF Kept
<1>4. CASE /\ breaker.state = "HALF_OPEN" /\ breaker.calls < MaxTrialCalls
           /\ breaker' = OneMoreTrial /\ trial' = [trial EXCEPT !.admitted = @ + 1]
  <2>1. breaker' = [state |-> "HALF_OPEN", failures |-> breaker.failures,
                    successes |-> breaker.successes, calls |-> breaker.calls + 1, age |-> breaker.age]
    BY <1>1, <1>4 DEF OneMoreTrial, Breaker
  <2>2. breaker.calls + 1 \in 0..MaxTrialCalls
    BY <1>1, <1>4, BreakerFields, BreakerLimits
  <2>3. breaker' \in Breaker
    BY <1>1, <2>1, <2>2, BreakerFields, AllFields
  <2>4. trial' = [admitted |-> trial.admitted + 1, succeeded |-> trial.succeeded]
    BY <1>1, <1>4
  <2>5. trial.admitted \in Nat /\ breaker.calls \in Nat
        /\ trial.admitted <= breaker.calls + 1 /\ trial.succeeded >= breaker.successes
    BY <1>1, <1>4, BreakerFields DEF Kept
  <2> QED BY <1>1, <2>1, <2>3, <2>4, <2>5 DEF Kept
<1> QED BY <1>2, <1>3, <1>4 DEF AllowCall, TrialsLeft

LEMMA SuccessKeeps ==
  ASSUME BreakerInv, NEW c \in Calls, RecordSuccess(c)
  PROVE  Kept(breaker', trial')
<1> DEFINE counted == UpTo(breaker.successes + 1, SuccessThreshold)
           seen == UpTo(trial.succeeded + 1, SuccessThreshold)
<1>1. breaker \in Breaker /\ trial \in [admitted : Nat, succeeded : 0..SuccessThreshold]
      /\ Kept(breaker, trial)
  BY KeptIsInv DEF BreakerInv, BreakerTypeOK
<1>2. /\ breaker.successes \in Nat /\ trial.succeeded \in Nat /\ SuccessThreshold \in Nat
      /\ breaker.successes + 1 \in Nat /\ trial.succeeded + 1 \in Nat
  BY <1>1, BreakerFields, BreakerLimits
<1>3. counted \in 0..SuccessThreshold /\ seen \in 0..SuccessThreshold
  BY <1>2, UpToBounds
<1>4. breaker.state = "HALF_OPEN" => seen >= counted
  <2>1. breaker.state = "HALF_OPEN" => trial.succeeded >= breaker.successes
    BY <1>1 DEF Kept
  <2> QED BY <1>2, <2>1 DEF UpTo
<1> DEFINE counting == [breaker EXCEPT !.successes = counted]
<1> HIDE DEF counted, seen
<1>5. CASE /\ breaker.state = "CLOSED" /\ trial' = trial
           /\ breaker' = [breaker EXCEPT !.successes = counted, !.failures = 0]
  <2>1. breaker' = [state |-> "CLOSED", failures |-> 0, successes |-> counted,
                    calls |-> breaker.calls, age |-> breaker.age]
    BY <1>1, <1>5 DEF Breaker
  <2>2. breaker' \in Breaker
    BY <1>1, <1>3, <2>1, BreakerFields, BreakerLimits, AllFields
  <2> QED BY <1>1, <1>5, <2>1, <2>2, BreakerLimits DEF Kept
<1>6. counting = [state |-> breaker.state, failures |-> breaker.failures, successes |-> counted,
                  calls |-> breaker.calls, age |-> breaker.age]
  BY <1>1 DEF Breaker
<1> HIDE DEF counting
<1>7. counting \in Breaker
  BY <1>1, <1>3, <1>6, BreakerFields, AllFields
<1>8. CASE breaker.state = "OPEN" /\ trial' = trial /\ breaker' = counting
  BY <1>1, <1>6, <1>7, <1>8 DEF Kept
<1>9. CASE /\ breaker.state = "HALF_OPEN"
           /\ breaker' = IF counted >= SuccessThreshold THEN Closed ELSE counting
           /\ trial' = [trial EXCEPT !.succeeded = seen]
  <2>1. trial' = [admitted |-> trial.admitted, succeeded |-> seen]
    BY <1>1, <1>9
  <2>2. trial' \in [admitted : Nat, succeeded : 0..SuccessThreshold]
    BY <1>1, <1>3, <2>1
  <2>3. CASE breaker' = Closed
    BY <2>2, <2>3, ClosedIsKept, BreakerLimits DEF Kept
  <2>4. CASE breaker' = counting
    <3>1. trial.admitted <= breaker.calls + 1
      BY <1>1, <1>9 DEF Kept
    <3> QED BY <1>4, <1>6, <1>7, <1>9, <2>1, <2>2, <2>4, <3>1 DEF Kept
  <2> QED BY <1>9, <2>3, <2>4
<1> QED BY <1>5, <1>8, <1>9 DEF RecordSuccess, counted, seen, counting

LEMMA FailureKeeps ==
  ASSUME BreakerInv, NEW c \in Calls, RecordFailure(c)
  PROVE  Kept(breaker', trial')
<1> DEFINE counted == UpTo(breaker.failures + 1, FailureThreshold)
           failed == [breaker EXCEPT !.failures = counted, !.successes = 0]
<1>1. breaker \in Breaker /\ trial \in [admitted : Nat, succeeded : 0..SuccessThreshold]
      /\ Kept(breaker, trial)
  BY KeptIsInv DEF BreakerInv, BreakerTypeOK
<1>2. breaker.failures + 1 \in Nat /\ FailureThreshold \in Nat
  BY <1>1, BreakerFields, BreakerLimits
<1>3. counted \in 0..FailureThreshold
  BY <1>2, UpToBounds
<1> HIDE DEF counted
<1>4. failed = [state |-> breaker.state, failures |-> counted, successes |-> 0,
                calls |-> breaker.calls, age |-> breaker.age]
  <2>1. counted \in Nat /\ 0 \in Nat
    BY <1>2, <1>3
  <2> QED BY <1>1, <2>1, BothCounts
<1>5. failed \in Breaker
  BY <1>1, <1>3, <1>4, BreakerFields, BreakerLimits, AllFields
<1> HIDE DEF failed
<1>6. /\ breaker' = IF Opens(counted) THEN [failed EXCEPT !.state = "OPEN", !.age = 0] ELSE failed
      /\ trial' = trial
  BY DEF RecordFailure, counted, failed
<1>7. CASE Opens(counted)
  <2>1. breaker' = [state |-> "OPEN", failures |-> counted, successes |-> 0,
                    calls |-> breaker.calls, age |-> 0]
    BY <1>4, <1>6, <1>7
  <2>2. breaker' \in Breaker
    BY <1>1, <1>3, <2>1, BreakerFields, BreakerLimits, AllFields
  <2> QED BY <1>1, <1>6, <2>1, <2>2 DEF Kept
<1>8. CASE ~Opens(counted)
  <2>1. breaker.state # "HALF_OPEN" /\ (breaker.state = "CLOSED" => ~(counted >= FailureThreshold))
    BY <1>8 DEF Opens
  <2>2. counted \in Nat /\ FailureThreshold \in Nat
    BY <1>2, <1>3
  <2> QED BY <1>1, <1>4, <1>5, <1>6, <1>8, <2>1, <2>2 DEF Kept
<1> QED BY <1>7, <1>8

LEMMA BreakerStepHolds == BreakerInv /\ [BreakerNext]_breakerVars => BreakerInv'
<1> SUFFICES ASSUME BreakerInv, [BreakerNext]_breakerVars PROVE BreakerInv' OBVIOUS
<1>1. breaker \in Breaker /\ underway \subseteq Calls /\ Kept(breaker, trial)
  BY KeptIsInv DEF BreakerInv, BreakerTypeOK
<1>2. ASSUME underway' \subseteq Calls, Kept(breaker', trial') PROVE BreakerInv'
  BY <1>2 DEF Kept, BreakerInv, BreakerTypeOK, ClosedBelowThreshold, TrialAccounts
<1>3. ASSUME NEW c \in Calls, AllowCall(c) PROVE BreakerInv'
  BY <1>1, <1>2, <1>3, AllowCallKeeps DEF AllowCall
<1>4. ASSUME NEW c \in Calls, RecordSuccess(c) PROVE BreakerInv'
  BY <1>1, <1>2, <1>4, SuccessKeeps DEF RecordSuccess
<1>5. ASSUME NEW c \in Calls, RecordFailure(c) PROVE BreakerInv'
  BY <1>1, <1>2, <1>5, FailureKeeps DEF RecordFailure
<1>6. CASE ResetBreaker
  <2>1. breaker' = [state |-> "CLOSED", failures |-> 0, successes |-> 0,
                    calls |-> 0, age |-> breaker.age]
    BY <1>6, ClosedIsKept DEF ResetBreaker
  <2>2. breaker' \in Breaker
    BY <1>1, <2>1, BreakerFields, BreakerLimits, AllFields
  <2>3. Kept(breaker', trial')
    BY <1>1, <1>6, <2>1, <2>2, BreakerLimits DEF ResetBreaker, Kept
  <2> QED BY <1>1, <1>2, <1>6, <2>3 DEF ResetBreaker
<1>7. CASE BreakerElapse
  <2>1. breaker' = [state |-> "OPEN", failures |-> breaker.failures, successes |-> breaker.successes,
                    calls |-> breaker.calls, age |-> breaker.age + 1]
    BY <1>1, <1>7 DEF BreakerElapse, Breaker
  <2>2. breaker.age + 1 \in 0..OpenTimeout
    BY <1>1, <1>7, BreakerFields, BreakerAssumption DEF BreakerElapse
  <2>3. breaker' \in Breaker
    BY <1>1, <2>1, <2>2, BreakerFields, AllFields
  <2>4. Kept(breaker', trial')
    BY <1>1, <1>7, <2>1, <2>3 DEF BreakerElapse, Kept
  <2> QED BY <1>1, <1>2, <1>7, <2>4 DEF BreakerElapse
<1>8. CASE UNCHANGED breakerVars
  BY <1>1, <1>2, <1>8 DEF breakerVars
<1> QED BY <1>3, <1>4, <1>5, <1>6, <1>7, <1>8 DEF BreakerNext

LEMMA BreakerInvHolds == BreakerSpec => []BreakerInv
  BY BreakerInitHolds, BreakerStepHolds, PTL DEF BreakerSpec

(* The breaker's fields keep their ranges.                                 *)
THEOREM BreakerTypeCorrect == BreakerSpec => []BreakerTypeOK
  BY BreakerInvHolds, PTL DEF BreakerInv

(* However late failures are reported, a closed breaker has counted fewer  *)
(* than it takes to open it (circuit_breaker.c:102,108).                   *)
THEOREM ClosedStaysBelow == BreakerSpec => []ClosedBelowThreshold
  BY BreakerInvHolds, PTL DEF BreakerInv

(* A half-open period admits at most max_calls_half_open + 1 calls         *)
(* (circuit_breaker.c:72-84).                                              *)
THEOREM TrialIsBounded == BreakerSpec => []TrialBounded
<1>1. BreakerInv => TrialBounded
  BY BreakerAssumption DEF BreakerInv, TrialAccounts, TrialBounded, BreakerTypeOK, Breaker
<1> QED BY <1>1, BreakerInvHolds, PTL

(* The three together: no report and no call, in any order, takes the      *)
(* breaker past a threshold (circuit_breaker.c:60-148).                    *)
THEOREM BreakerIsSafe == BreakerSpec => []BreakerSafe
<1>1. BreakerTypeOK /\ ClosedBelowThreshold /\ TrialBounded => BreakerSafe
  BY DEF BreakerSafe
<1> QED BY <1>1, BreakerTypeCorrect, ClosedStaysBelow, TrialIsBounded, PTL

(* Results close a half-open breaker only after success_threshold of them  *)
(* were successes of this period (circuit_breaker.c:106).                  *)
THEOREM ClosesOnlyOnSuccesses == BreakerSpec => ClosesOnSuccesses
<1> DEFINE Step == breaker.state = "HALF_OPEN" /\ breaker'.state = "CLOSED" /\ underway' # underway
                     => trial'.succeeded >= SuccessThreshold
<1>1. ASSUME BreakerInv, [BreakerNext]_breakerVars PROVE [Step]_breakerVars
  <2> SUFFICES ASSUME BreakerNext,
                      breaker.state = "HALF_OPEN", breaker'.state = "CLOSED", underway' # underway
               PROVE  trial'.succeeded >= SuccessThreshold
    BY <1>1
  <2> USE BreakerAssumption
  <2>1. ASSUME NEW c \in Calls, AllowCall(c) PROVE FALSE
    BY <1>1, <2>1 DEF AllowCall, OneMoreTrial, BreakerInv, BreakerTypeOK, Breaker
  <2>2. ASSUME NEW c \in Calls, RecordSuccess(c) PROVE trial'.succeeded >= SuccessThreshold
    BY <1>1, <2>2 DEF RecordSuccess, Closed, UpTo, BreakerInv, BreakerTypeOK, Breaker, TrialAccounts
  <2>3. ASSUME NEW c \in Calls, RecordFailure(c) PROVE FALSE
    BY <1>1, <2>3 DEF RecordFailure, Opens, BreakerInv, BreakerTypeOK, Breaker
  <2>4. ASSUME ResetBreaker PROVE FALSE
    BY <2>4 DEF ResetBreaker
  <2>5. ASSUME BreakerElapse PROVE FALSE
    BY <2>5 DEF BreakerElapse
  <2> QED BY <2>1, <2>2, <2>3, <2>4, <2>5 DEF BreakerNext
<1> QED BY <1>1, BreakerInvHolds, PTL DEF BreakerSpec, ClosesOnSuccesses

-----------------------------------------------------------------------------
(* Each of the parts takes its own steps, or none.                         *)
LEMMA EachGuardsItsOwn ==
  [MCNext]_MCVars => [CrashNext]_crashVars /\ [HealthNext]_healthVars /\ [EventNext]_eventVars
BY DEF MCNext, MCVars

LEMMA MCSteps == MCSpec => MCInit /\ [][MCNext]_MCVars
BY PTL DEF MCSpec

-----------------------------------------------------------------------------
(* The health tracker.                                                     *)

(* Why a verdict comes late enough: a component that was missed n times    *)
(* has been quiet for the timeout and for the rounds after the first of    *)
(* these, and through the present one as far as it has come.               *)
SilenceCounted ==
  \A c \in Watched : silences[c] > 0 =>
    \/ quiet[c] = QuietCap
    \/ quiet[c] > HeartbeatTimeout + (silences[c] - 1) * CheckInterval + checked

HealthInv == HealthTypeOK /\ SilenceCounted

LEMMA Rounds ==
  ASSUME NEW n \in Nat
  PROVE  /\ n * CheckInterval \in Nat /\ (n + 1) * CheckInterval = n * CheckInterval + CheckInterval
         /\ CheckInterval \in Nat \ {0} /\ HeartbeatTimeout \in Nat /\ MaxSilences \in Nat \ {0} /\ QuietCap \in Nat
         /\ QuietCap > HeartbeatTimeout + MaxSilences * CheckInterval
BY HealthAssumption

LEMMA HealthInitHolds == HealthInit => HealthInv
BY HealthAssumption DEF HealthInit, HealthInv, HealthTypeOK, SilenceCounted, HealthStates

LEMMA HealthTypeStep == HealthTypeOK /\ [HealthNext]_healthVars => HealthTypeOK'
<1> SUFFICES ASSUME HealthTypeOK, [HealthNext]_healthVars PROVE HealthTypeOK' OBVIOUS
<1> USE HealthAssumption DEF HealthTypeOK
<1>1. CASE WatchdogTick
  <2>1. silences' \in [Watched -> 0..MaxSilences]
    BY <1>1 DEF WatchdogTick, Silences
  <2>2. condition' \in [Watched -> HealthStates \cup {"ABSENT"}]
    BY <1>1 DEF WatchdogTick, HealthStates
  <2> QED BY <1>1, <2>1, <2>2 DEF WatchdogTick
<1>2. CASE HealthElapse
  BY <1>2 DEF HealthElapse
<1>3. ASSUME NEW c \in Watched, WatchComponent(c) \/ UnwatchComponent(c) \/ Heartbeat(c)
      PROVE  HealthTypeOK'
  BY <1>3 DEF WatchComponent, UnwatchComponent, Heartbeat, HealthStates
<1>4. ASSUME NEW c \in Watched, NEW s \in HealthStates, SetState(c, s) PROVE HealthTypeOK'
  BY <1>4 DEF SetState
<1>5. CASE UNCHANGED healthVars
  BY <1>5 DEF healthVars
<1> QED BY <1>1, <1>2, <1>3, <1>4, <1>5 DEF HealthNext

LEMMA SilenceStep == HealthInv /\ [HealthNext]_healthVars => SilenceCounted'
<1> SUFFICES ASSUME HealthInv, [HealthNext]_healthVars, NEW c \in Watched, silences'[c] > 0
             PROVE  \/ quiet'[c] = QuietCap
                    \/ quiet'[c] > HeartbeatTimeout + (silences'[c] - 1) * CheckInterval + checked'
  BY DEF SilenceCounted
<1>1. /\ silences \in [Watched -> 0..MaxSilences] /\ quiet \in [Watched -> 0..QuietCap]
      /\ silences[c] \in Nat /\ quiet[c] \in 0..QuietCap /\ checked \in 0..CheckInterval
      /\ CheckInterval \in Nat \ {0} /\ HeartbeatTimeout \in Nat /\ QuietCap \in Nat
  BY HealthAssumption DEF HealthInv, HealthTypeOK
<1>2. silences[c] > 0 =>
        \/ quiet[c] = QuietCap
        \/ quiet[c] > HeartbeatTimeout + (silences[c] - 1) * CheckInterval + checked
  BY DEF HealthInv, SilenceCounted
<1>3. CASE WatchdogTick
  <2>1. checked = CheckInterval /\ checked' = 0 /\ quiet' = quiet /\ silences'[c] = Silences(c)
    BY <1>3 DEF WatchdogTick
  <2>2. CASE silences'[c] = silences[c]
    <3>1. (silences[c] - 1) * CheckInterval \in Int
      BY <1>1
    <3> QED BY <1>1, <1>2, <2>1, <2>2, <3>1
  <2>3. CASE silences'[c] # silences[c]
    <3>1. silences'[c] = silences[c] + 1 /\ quiet[c] > HeartbeatTimeout
      BY <2>1, <2>3 DEF Silences, Silent
    <3>2. CASE silences[c] = 0
      <4>1. (silences'[c] - 1) * CheckInterval = 0
        BY <1>1, <3>1, <3>2
      <4> QED BY <1>1, <2>1, <3>1, <4>1
    <3>3. CASE silences[c] > 0
      <4> DEFINE n == silences[c] - 1
      <4>1. n \in Nat /\ silences[c] - 1 = n /\ silences'[c] - 1 = n + 1
        BY <1>1, <3>1, <3>3
      <4>2. n * CheckInterval \in Nat /\ (n + 1) * CheckInterval = n * CheckInterval + CheckInterval
        BY <4>1, Rounds
      <4> HIDE DEF n
      <4> QED BY <1>1, <1>2, <2>1, <3>3, <4>1, <4>2
    <3> QED BY <1>1, <3>2, <3>3
  <2> QED BY <2>2, <2>3
<1>4. CASE HealthElapse
  <2>1. /\ silences' = silences /\ checked' \in {checked, checked + 1}
        /\ quiet'[c] = IF quiet[c] < QuietCap THEN quiet[c] + 1 ELSE QuietCap
    BY <1>1, <1>4 DEF HealthElapse
  <2>2. (silences[c] - 1) * CheckInterval \in Int
    BY <1>1
  <2> QED BY <1>1, <1>2, <2>1, <2>2
<1>5. ASSUME NEW d \in Watched, WatchComponent(d) \/ Heartbeat(d)
      PROVE  c # d /\ quiet'[c] = quiet[c] /\ silences'[c] = silences[c] /\ checked' = checked
  BY <1>1, <1>5 DEF WatchComponent, Heartbeat
<1>6. ASSUME NEW d \in Watched, UnwatchComponent(d) \/ \E s \in HealthStates : SetState(d, s)
      PROVE  UNCHANGED <<silences, quiet, checked>>
  BY <1>6 DEF UnwatchComponent, SetState
<1>7. CASE UNCHANGED healthVars
  BY <1>2, <1>7 DEF healthVars
<1> QED BY <1>2, <1>3, <1>4, <1>5, <1>6, <1>7 DEF HealthNext

LEMMA HealthInvHolds == MCSpec => []HealthInv
<1>1. MCInit => HealthInv
  BY HealthInitHolds DEF MCInit
<1>2. HealthInv /\ [MCNext]_MCVars => HealthInv'
  BY EachGuardsItsOwn, HealthTypeStep, SilenceStep DEF HealthInv
<1> QED BY <1>1, <1>2, MCSteps, PTL

(* The watchdog fails no component that was heard of lately, whatever else *)
(* set its state and however heartbeats, registrations and rounds mix      *)
(* (health_tracker.c:197), for any timeout, interval and number of misses. *)
THEOREM FailsOnlyTheSilent == MCSpec => FailedAfterSilence
<1> DEFINE Late ==
      \A c \in Watched :
        WatchdogTick /\ condition[c] # "FAILED" /\ condition'[c] = "FAILED"
        => quiet[c] > HeartbeatTimeout + (MaxSilences - 1) * CheckInterval
<1>1. HealthInv /\ [HealthNext]_healthVars => [Late]_healthVars
  <2> SUFFICES ASSUME HealthInv, NEW c \in Watched, WatchdogTick,
                      condition[c] # "FAILED", condition'[c] = "FAILED"
               PROVE  quiet[c] > HeartbeatTimeout + (MaxSilences - 1) * CheckInterval
    OBVIOUS
  <2>1. /\ silences[c] \in 0..MaxSilences /\ quiet[c] \in 0..QuietCap /\ MaxSilences \in Nat \ {0}
        /\ checked = CheckInterval /\ silences'[c] = Silences(c)
    BY HealthAssumption DEF WatchdogTick, HealthInv, HealthTypeOK
  <2>2. Silent(c) /\ silences'[c] >= MaxSilences /\ quiet[c] > HeartbeatTimeout
    BY DEF WatchdogTick, Silent
  <2> DEFINE n == MaxSilences - 1
  <2>3. n \in Nat /\ MaxSilences = n + 1
    BY <2>1
  <2> HIDE DEF n
  <2>4. /\ n * CheckInterval \in Nat /\ MaxSilences * CheckInterval = n * CheckInterval + CheckInterval
        /\ CheckInterval \in Nat \ {0} /\ HeartbeatTimeout \in Nat /\ QuietCap \in Nat
        /\ QuietCap > HeartbeatTimeout + MaxSilences * CheckInterval
    BY <2>3, Rounds
  <2>5. silences[c] > 0 =>
          \/ quiet[c] = QuietCap
          \/ quiet[c] > HeartbeatTimeout + (silences[c] - 1) * CheckInterval + checked
    BY DEF HealthInv, SilenceCounted
  <2>6. CASE quiet[c] = QuietCap
    BY <2>3, <2>4, <2>6 DEF n
  <2>7. CASE silences[c] = MaxSilences /\ quiet[c] # QuietCap
    <3>1. silences[c] - 1 = n /\ silences[c] > 0
      BY <2>3, <2>7
    <3>2. quiet[c] > HeartbeatTimeout + n * CheckInterval + checked
      BY <2>5, <2>7, <3>1
    <3>3. quiet[c] > HeartbeatTimeout + n * CheckInterval
      BY <2>1, <2>4, <3>2
    <3> QED BY <3>3 DEF n
  <2>8. CASE silences[c] = n /\ quiet[c] # QuietCap
    <3>1. CASE n = 0
      <4>1. n * CheckInterval = 0
        BY <2>4, <3>1
      <4>2. quiet[c] > HeartbeatTimeout + n * CheckInterval
        BY <2>1, <2>2, <2>4, <4>1
      <4> QED BY <4>2 DEF n
    <3>2. CASE n > 0
      <4> DEFINE m == n - 1
      <4>1. m \in Nat /\ n = m + 1 /\ silences[c] - 1 = m /\ silences[c] > 0
        BY <2>3, <2>8, <3>2
      <4> HIDE DEF m
      <4>2. m * CheckInterval \in Nat /\ n * CheckInterval = m * CheckInterval + CheckInterval
        BY <4>1, Rounds
      <4>3. quiet[c] > HeartbeatTimeout + m * CheckInterval + checked
        BY <2>5, <2>8, <4>1
      <4>4. quiet[c] > HeartbeatTimeout + n * CheckInterval
        BY <2>1, <2>4, <4>2, <4>3
      <4> QED BY <4>4 DEF n
    <3> QED BY <2>3, <3>1, <3>2
  <2>9. silences[c] \in {MaxSilences, n}
    BY <2>1, <2>2, <2>3 DEF Silences
  <2> QED BY <2>6, <2>7, <2>8, <2>9
<1>2. HealthInv /\ [MCNext]_MCVars => [Late]_healthVars
  BY <1>1, EachGuardsItsOwn
<1> HIDE DEF Late
<1>3. MCSpec => [][Late]_healthVars
  BY <1>2, HealthInvHolds, MCSteps, PTL DEF MCVars, healthVars
<1> QED BY <1>3 DEF Late, FailedAfterSilence

-----------------------------------------------------------------------------
(* Crash-loop detection.                                                   *)

Slots == tracked \in Seq(Component)

LEMMA CrashLimits ==
  /\ MaxFailures \in Nat \ {0} /\ CrashWindow \in Nat /\ Cooldown \in Nat /\ MaxCrashRestarts \in Nat
  /\ 0 \in 0..MaxFailures /\ 0 \in 0..(CrashWindow + 1) /\ 0 \in 0..MaxCrashRestarts /\ 0 \in 0..Cooldown
BY CrashAssumption

LEMMA RecordFields ==
  ASSUME NEW c \in Component
  PROVE  /\ c.name \in Components /\ c.active \in BOOLEAN /\ c.failures \in 0..MaxFailures
         /\ c.since \in 0..(CrashWindow + 1) /\ c.restarts \in 0..MaxCrashRestarts
         /\ c.quarantined \in BOOLEAN /\ c.cooling \in 0..Cooldown
BY DEF Component

(* What a step may make of a slot that is not cooling down, and of one     *)
(* that is.                                                                *)
Patient(c, d) ==
  c.quarantined /\ c.cooling > 0 =>
    /\ d.restarts = c.restarts
    /\ d.quarantined => d.failures = c.failures
    /\ ~d.quarantined => d.failures = 0 /\ d.since = 0

(* The slot is the same one, with other counts.                            *)
Recounted(c, d, f, s, r) ==
  d.name = c.name /\ d.active = c.active /\ d.failures = f /\ d.since = s /\ d.restarts = r

LEMMA QuarantineOf ==
  ASSUME NEW c \in [name : Components, active : BOOLEAN, failures : Int, since : 0..(CrashWindow + 1),
                    restarts : 0..MaxCrashRestarts, quarantined : BOOLEAN, cooling : 0..Cooldown]
  PROVE  Quarantined(c) = [name |-> c.name, active |-> c.active, failures |-> c.failures, since |-> c.since,
                           restarts |-> c.restarts, quarantined |-> TRUE, cooling |-> Cooldown]
<1> DEFINE once == [c EXCEPT !.quarantined = TRUE]
<1>1. once = [name |-> c.name, active |-> c.active, failures |-> c.failures, since |-> c.since,
              restarts |-> c.restarts, quarantined |-> TRUE, cooling |-> c.cooling]
  <2>1. ASSUME NEW q \in BOOLEAN
        PROVE  [c EXCEPT !.quarantined = q] =
                 [name |-> c.name, active |-> c.active, failures |-> c.failures, since |-> c.since,
                  restarts |-> c.restarts, quarantined |-> q, cooling |-> c.cooling]
    OBVIOUS
  <2> QED BY <2>1
<1>2. Quarantined(c) = [once EXCEPT !.cooling = Cooldown]
  BY DEF Quarantined
<1> HIDE DEF once
<1> QED BY <1>1, <1>2

LEMMA ChangesOfRecord ==
  ASSUME NEW c \in Component
  PROVE  /\ Quarantined(c) \in Component /\ Patient(c, Quarantined(c))
         /\ Recounted(c, Quarantined(c), c.failures, c.since, c.restarts)
         /\ Clean(c) \in Component /\ Patient(c, Clean(c)) /\ Recounted(c, Clean(c), 0, 0, c.restarts)
         /\ [c EXCEPT !.active = FALSE] \in Component /\ Patient(c, [c EXCEPT !.active = FALSE])
         /\ Patient(c, c)
<1>1. /\ Quarantined(c) \in Component /\ Patient(c, Quarantined(c))
      /\ Recounted(c, Quarantined(c), c.failures, c.since, c.restarts)
  <2>1. c \in [name : Components, active : BOOLEAN, failures : Int, since : 0..(CrashWindow + 1),
               restarts : 0..MaxCrashRestarts, quarantined : BOOLEAN, cooling : 0..Cooldown]
    BY CrashLimits DEF Component
  <2>2. Quarantined(c) = [name |-> c.name, active |-> c.active, failures |-> c.failures, since |-> c.since,
                          restarts |-> c.restarts, quarantined |-> TRUE, cooling |-> Cooldown]
    BY <2>1, QuarantineOf
  <2>3. Quarantined(c) \in Component
    <3>1. TRUE \in BOOLEAN /\ Cooldown \in 0..Cooldown
      BY CrashLimits
    <3> QED BY <2>2, <3>1, RecordFields DEF Component
  <2> QED BY <2>2, <2>3 DEF Patient, Recounted
<1>2. Clean(c) \in Component /\ Patient(c, Clean(c)) /\ Recounted(c, Clean(c), 0, 0, c.restarts)
  BY CrashLimits DEF Component, Clean, Patient, Recounted
<1>3. [c EXCEPT !.active = FALSE] \in Component /\ Patient(c, [c EXCEPT !.active = FALSE])
  BY DEF Component, Patient
<1> QED BY <1>1, <1>2, <1>3 DEF Patient

LEMMA CrashReported ==
  ASSUME NEW c \in Component, NEW n, n = Counted(c)
  PROVE  /\ n.failures \in Nat /\ n.failures >= 1 /\ n.restarts = c.restarts
         /\ n.failures = (IF c.since > CrashWindow THEN 1 ELSE c.failures + 1)
         /\ n.since = (IF c.since > CrashWindow THEN 0 ELSE c.since)
         /\ Quarantined([n EXCEPT !.failures = IF @ > MaxFailures THEN MaxFailures ELSE @]) \in Component
         /\ Recounted(c, Quarantined([n EXCEPT !.failures = IF @ > MaxFailures THEN MaxFailures ELSE @]),
                  IF n.failures > MaxFailures THEN MaxFailures ELSE n.failures, n.since, c.restarts)
         /\ (~(n.failures >= MaxFailures \/ n.restarts >= MaxCrashRestarts)
              => [n EXCEPT !.restarts = @ + 1] \in Component)
         /\ Recounted(c, [n EXCEPT !.restarts = @ + 1], n.failures, n.since, c.restarts + 1)
<1> DEFINE f == IF c.since > CrashWindow THEN 1 ELSE c.failures + 1
           s == IF c.since > CrashWindow THEN 0 ELSE c.since
           r == c.restarts
<1>1. f \in Nat /\ f >= 1 /\ s \in 0..(CrashWindow + 1) /\ r \in 0..MaxCrashRestarts
  BY RecordFields, CrashLimits
<1>2. n = [name |-> c.name, active |-> c.active, failures |-> f, since |-> s, restarts |-> r,
           quarantined |-> c.quarantined, cooling |-> c.cooling]
  <2>1. CASE c.since > CrashWindow
    BY <2>1 DEF Counted, Component
  <2>2. CASE ~(c.since > CrashWindow)
    BY <2>2 DEF Counted, Component
  <2> QED BY <2>1, <2>2
<1> HIDE DEF f, s, r
<1>3. /\ Quarantined([n EXCEPT !.failures = IF @ > MaxFailures THEN MaxFailures ELSE @]) \in Component
      /\ Recounted(c, Quarantined([n EXCEPT !.failures = IF @ > MaxFailures THEN MaxFailures ELSE @]),
                   IF n.failures > MaxFailures THEN MaxFailures ELSE n.failures, n.since, c.restarts)
  <2> DEFINE g == IF f > MaxFailures THEN MaxFailures ELSE f
  <2>1. g \in 0..MaxFailures
    BY <1>1, CrashLimits
  <2>2. [n EXCEPT !.failures = IF @ > MaxFailures THEN MaxFailures ELSE @] =
          [name |-> c.name, active |-> c.active, failures |-> g, since |-> s, restarts |-> r,
           quarantined |-> c.quarantined, cooling |-> c.cooling]
    BY <1>2
  <2> HIDE DEF g
  <2> DEFINE o == [n EXCEPT !.failures = IF @ > MaxFailures THEN MaxFailures ELSE @]
  <2>3. o \in Component
    BY <1>1, <2>1, <2>2, RecordFields DEF Component
  <2>4. /\ o.name = c.name /\ o.active = c.active /\ o.since = n.since /\ o.restarts = c.restarts
        /\ o.failures = IF n.failures > MaxFailures THEN MaxFailures ELSE n.failures
    BY <1>2, <2>2 DEF g, r
  <2> HIDE DEF o
  <2>5. Quarantined(o) \in Component /\ Recounted(o, Quarantined(o), o.failures, o.since, o.restarts)
    BY <2>3, ChangesOfRecord
  <2>6. Recounted(c, Quarantined(o), IF n.failures > MaxFailures THEN MaxFailures ELSE n.failures,
                  n.since, c.restarts)
    BY <2>4, <2>5 DEF Recounted
  <2> QED BY <2>5, <2>6 DEF o
<1>4. ASSUME ~(n.failures >= MaxFailures \/ n.restarts >= MaxCrashRestarts)
      PROVE  [n EXCEPT !.restarts = @ + 1] \in Component
  <2>1. f \in 0..MaxFailures /\ r + 1 \in 0..MaxCrashRestarts
    BY <1>1, <1>2, <1>4, CrashLimits
  <2>2. [n EXCEPT !.restarts = @ + 1] =
          [name |-> c.name, active |-> c.active, failures |-> f, since |-> s, restarts |-> r + 1,
           quarantined |-> c.quarantined, cooling |-> c.cooling]
    BY <1>2
  <2> QED BY <1>1, <2>1, <2>2, RecordFields DEF Component
<1>5. Recounted(c, [n EXCEPT !.restarts = @ + 1], n.failures, n.since, c.restarts + 1)
  BY <1>2 DEF Recounted, r
<1> QED BY <1>1, <1>2, <1>3, <1>4, <1>5 DEF f, s, r

(* A step keeps the slots, may add one, and is patient with each of them.  *)
LEMMA CrashStep ==
  ASSUME Slots, [CrashNext]_crashVars
  PROVE  Slots' /\ \A i \in DOMAIN tracked : Patient(tracked[i], tracked'[i])
<1>1. tracked \in Seq(Component) /\ DOMAIN tracked = 1..Len(tracked) /\ Len(tracked) \in Nat
      /\ \A i \in DOMAIN tracked : tracked[i] \in Component
  BY DEF Slots
<1>2. ASSUME NEW i \in DOMAIN tracked, NEW d \in Component, tracked' = [tracked EXCEPT ![i] = d],
             Patient(tracked[i], d)
      PROVE  Slots' /\ \A j \in DOMAIN tracked : Patient(tracked[j], tracked'[j])
  <2>1. tracked' \in Seq(Component)
    BY <1>1, <1>2
  <2>2. \A j \in DOMAIN tracked : tracked'[j] = IF j = i THEN d ELSE tracked[j]
    BY <1>1, <1>2
  <2> QED BY <1>1, <1>2, <2>1, <2>2, ChangesOfRecord DEF Slots
<1>3. ASSUME NEW n \in Components, RegisterComponent(n)
      PROVE  Slots' /\ \A j \in DOMAIN tracked : Patient(tracked[j], tracked'[j])
  <2>1. NewComponent(n) \in Component
    BY CrashLimits DEF NewComponent, Component
  <2>2. tracked' = Append(tracked, NewComponent(n))
    BY <1>3 DEF RegisterComponent
  <2>3. tracked' \in Seq(Component) /\ \A j \in DOMAIN tracked : tracked'[j] = tracked[j]
    BY <1>1, <2>1, <2>2, AppendProperties
  <2> QED BY <1>1, <2>3, ChangesOfRecord DEF Slots
<1>4. ASSUME NEW n \in Components, NEW i \in SlotOf(n)
      PROVE  i \in DOMAIN tracked
  BY <1>4 DEF SlotOf
<1>5. ASSUME NEW n \in Components, UnregisterComponent(n) \/ Recover(n) \/ QuarantineByHand(n)
      PROVE  Slots' /\ \A j \in DOMAIN tracked : Patient(tracked[j], tracked'[j])
  <2>1. PICK i \in SlotOf(n) :
          tracked' \in {[tracked EXCEPT ![i] = [tracked[i] EXCEPT !.active = FALSE]],
                        [tracked EXCEPT ![i] = Clean(tracked[i])],
                        [tracked EXCEPT ![i] = Quarantined(tracked[i])]}
    BY <1>5 DEF UnregisterComponent, Recover, QuarantineByHand
  <2>2. i \in DOMAIN tracked /\ tracked[i] \in Component
    BY <1>1, <1>4
  <2> QED BY <1>2, <2>1, <2>2, ChangesOfRecord
<1>6. ASSUME NEW n \in Components, ReportCrash(n)
      PROVE  Slots' /\ \A j \in DOMAIN tracked : Patient(tracked[j], tracked'[j])
  <2>1. PICK i \in SlotOf(n) :
          LET c == Counted(tracked[i])
          IN /\ ~Refused(tracked[i])
             /\ IF c.failures >= MaxFailures \/ c.restarts >= MaxCrashRestarts
                THEN tracked' = [tracked EXCEPT
                        ![i] = Quarantined([c EXCEPT !.failures = IF @ > MaxFailures THEN MaxFailures ELSE @])]
                ELSE tracked' = [tracked EXCEPT ![i] = [c EXCEPT !.restarts = @ + 1]]
    BY <1>6 DEF ReportCrash
  <2>2. i \in DOMAIN tracked /\ tracked[i] \in Component
    BY <1>1, <1>4
  <2>3. \A d : Patient(tracked[i], d)
    BY <2>1 DEF Refused, Patient
  <2> DEFINE c == Counted(tracked[i])
             over == Quarantined([c EXCEPT !.failures = IF @ > MaxFailures THEN MaxFailures ELSE @])
             again == [c EXCEPT !.restarts = @ + 1]
  <2>4. CASE c.failures >= MaxFailures \/ c.restarts >= MaxCrashRestarts
    <3>1. tracked' = [tracked EXCEPT ![i] = over]
      BY <2>1, <2>4
    <3>2. over \in Component
      BY <2>2, CrashReported
    <3> HIDE DEF c, over
    <3> QED BY <1>2, <2>2, <2>3, <3>1, <3>2
  <2>5. CASE ~(c.failures >= MaxFailures \/ c.restarts >= MaxCrashRestarts)
    <3>1. tracked' = [tracked EXCEPT ![i] = again]
      BY <2>1, <2>5
    <3>2. again \in Component
      BY <2>2, <2>5, CrashReported
    <3> HIDE DEF c, again
    <3> QED BY <1>2, <2>2, <2>3, <3>1, <3>2
  <2> QED BY <2>4, <2>5
<1>7. CASE CrashElapse
  <2> DEFINE Older(c) == [c EXCEPT !.since = IF @ > CrashWindow THEN @ ELSE @ + 1,
                                   !.cooling = IF @ > 0 THEN @ - 1 ELSE 0]
  <2>1. ASSUME NEW c \in Component PROVE Older(c) \in Component /\ Patient(c, Older(c))
    <3> DEFINE s == IF c.since > CrashWindow THEN c.since ELSE c.since + 1
               k == IF c.cooling > 0 THEN c.cooling - 1 ELSE 0
    <3>1. s \in 0..(CrashWindow + 1) /\ k \in 0..Cooldown
      BY <2>1, RecordFields, CrashLimits
    <3>2. Older(c) = [name |-> c.name, active |-> c.active, failures |-> c.failures, since |-> s,
                      restarts |-> c.restarts, quarantined |-> c.quarantined, cooling |-> k]
      <4> DEFINE o == [c EXCEPT !.since = s]
      <4>1. o = [name |-> c.name, active |-> c.active, failures |-> c.failures, since |-> s,
                 restarts |-> c.restarts, quarantined |-> c.quarantined, cooling |-> c.cooling]
        <5> HIDE DEF s
        <5> QED BY <2>1 DEF Component
      <4>2. Older(c) = [o EXCEPT !.cooling = k]
        <5>1. Older(c) = [c EXCEPT !.since = s, !.cooling = k]
          OBVIOUS
        <5> HIDE DEF Older, s, k
        <5> QED BY <5>1
      <4> HIDE DEF o, s, k, Older
      <4> QED BY <4>1, <4>2
    <3> HIDE DEF s, k, Older
    <3>3. Older(c) \in Component
      BY <2>1, <3>1, <3>2, RecordFields DEF Component
    <3> QED BY <2>1, <3>2, <3>3 DEF Patient
  <2>2. tracked' = [i \in DOMAIN tracked |-> Older(tracked[i])]
    BY <1>7 DEF CrashElapse
  <2> HIDE DEF Older
  <2>3. tracked' \in Seq(Component)
    BY <1>1, <2>1, <2>2
  <2> QED BY <1>1, <2>1, <2>2, <2>3 DEF Slots
<1>8. CASE UNCHANGED crashVars
  BY <1>1, <1>8, ChangesOfRecord DEF crashVars, Slots
<1> QED BY <1>3, <1>5, <1>6, <1>7, <1>8 DEF CrashNext

(* While a quarantine cools down, only a success or a release ends it, and *)
(* no failure is charged or restart granted in the meantime                *)
(* (crash_loop.c:98), for any number of components, window and limits.     *)
THEOREM CoolsDownFirst == MCSpec => CooldownHolds
<1> DEFINE Step == \A i \in DOMAIN tracked : Patient(tracked[i], tracked'[i])
<1>1. MCInit => Slots
  <2>1. MCInit => CrashInit
    BY Zenon DEF MCInit
  <2> QED BY <2>1 DEF CrashInit, Slots
<1>2. Slots /\ [MCNext]_MCVars => Slots' /\ [Step]_crashVars
  BY EachGuardsItsOwn, CrashStep
<1> HIDE DEF Step
<1>3. MCSpec => [][Step]_crashVars
  BY <1>1, <1>2, MCSteps, PTL DEF MCVars, crashVars
<1> QED BY <1>3 DEF Step, Patient, CooldownHolds

-----------------------------------------------------------------------------
(* The event engine.                                                       *)

Accepted == [n : 1..MaxEvents, type : Types]
Subscription == [type : Types \cup {"NONE"}, active : BOOLEAN, from : Nat \ {0}]

EventsTyped ==
  /\ ring \in [Slot -> {NoEvent} \cup Accepted] /\ head \in Slot /\ tail \in Slot /\ count \in 0..Capacity
  /\ accepted \in Seq(Accepted) /\ Len(accepted) <= MaxEvents
  /\ popped \in Nat /\ popped + count = Len(accepted) /\ tail = (head + count) % Capacity
  /\ subs \in Seq(Subscription) /\ delivered \in Seq(Seq(Nat))
  /\ Len(subs) = Len(delivered) /\ Len(subs) <= MaxSubscribers
  /\ at \in {"loop", "pop", "scan", "handler", "stopped"} /\ stop \in BOOLEAN
  /\ index \in Nat

(* The ring holds what was accepted and not taken out, and the event that  *)
(* is dispatched is the last one taken out.                                *)
RingHolds == \A k \in 1..count : ring[(head + k - 1) % Capacity] = accepted[popped + k]
Numbered == \A k \in 1..Len(accepted) : accepted[k].n = k
Dispatching ==
  at \in {"scan", "handler"} =>
    popped >= 1 /\ event = accepted[popped] /\ index >= 1 /\ (at = "handler" => index <= Len(subs))

(* How far the engine is done with the events for subscription s: the scan *)
(* has passed it or has not.                                               *)
DoneFor(s) ==
  IF (at = "scan" /\ s >= index) \/ (at = "handler" /\ s > index) THEN popped - 1 ELSE popped

(* What was given to a handler, and what it was not left out of.           *)
Given(s) ==
  /\ \A j \in 1..Len(delivered[s]) : delivered[s][j] <= DoneFor(s)
  /\ \A j \in 1..Len(delivered[s]) - 1 : delivered[s][j] < delivered[s][j + 1]
Missed(s, n) ==
  /\ subs[s].active /\ n >= subs[s].from /\ subs[s].type \in {"NONE", accepted[n].type}
  /\ n \notin ToSet(delivered[s])
GivenToAll == \A s \in Subscriptions : Given(s) /\ \A n \in 1..DoneFor(s) : ~Missed(s, n)

EventInv == EventsTyped /\ RingHolds /\ Numbered /\ Dispatching /\ GivenToAll

LEMMA EventLimits == Capacity \in Nat \ {0} /\ MaxSubscribers \in Nat /\ MaxEvents \in Nat
BY EventAssumption

LEMMA WrapsAround ==
  ASSUME NEW h \in Slot, NEW k \in 0..Capacity
  PROVE  /\ h + k < Capacity => (h + k) % Capacity = h + k
         /\ h + k >= Capacity => (h + k) % Capacity = h + k - Capacity
         /\ (h + k) % Capacity \in Slot
<1>1. h \in Nat /\ k \in Nat /\ h < Capacity /\ k <= Capacity /\ Capacity \in Nat \ {0}
  BY EventLimits DEF Slot
<1> DEFINE m == h + k
<1>2. m \in Nat /\ m < 2 * Capacity
  BY <1>1
<1> HIDE DEF m
<1>3. m < Capacity => m % Capacity = m
  BY <1>1, <1>2
<1>4. m >= Capacity => m % Capacity = m - Capacity
  BY <1>1, <1>2
<1>5. m % Capacity \in 0..Capacity - 1
  BY <1>1, <1>2
<1> QED BY <1>1, <1>3, <1>4, <1>5 DEF m, Slot

(* Two places of the queue are two slots.                                  *)
LEMMA SlotsDiffer ==
  ASSUME NEW h \in Slot, NEW j \in 0..Capacity, NEW k \in 0..Capacity, j < k, k - j < Capacity
  PROVE  (h + j) % Capacity # (h + k) % Capacity
<1>1. h \in Nat /\ Capacity \in Nat \ {0} /\ h < Capacity /\ j \in Nat /\ k \in Nat
  BY EventLimits DEF Slot
<1> QED BY <1>1, WrapsAround

LEMMA OneOn ==
  ASSUME NEW h \in Slot, NEW k \in 0..Capacity - 1
  PROVE  (((h + 1) % Capacity) + k) % Capacity = (h + k + 1) % Capacity
<1>1. h \in Nat /\ Capacity \in Nat \ {0} /\ h < Capacity /\ k \in Nat
  BY EventLimits DEF Slot
<1>2. (h + 1) % Capacity = IF h + 1 < Capacity THEN h + 1 ELSE 0
  BY <1>1, WrapsAround
<1>3. CASE h + 1 < Capacity
  <2>1. ((h + 1) % Capacity) + k = h + k + 1
    BY <1>1, <1>2, <1>3
  <2> QED BY <2>1
<1>4. CASE ~(h + 1 < Capacity)
  <2>1. ((h + 1) % Capacity) + k = k /\ h + k + 1 = h + (k + 1) /\ h + (k + 1) >= Capacity
    BY <1>1, <1>2, <1>4
  <2>2. 0 \in Slot /\ k \in 0..Capacity /\ k + 1 \in 0..Capacity /\ 0 + k = k
    BY <1>1 DEF Slot
  <2>3. k % Capacity = k
    BY <1>1, <2>2, WrapsAround
  <2>4. (h + (k + 1)) % Capacity = h + (k + 1) - Capacity
    BY <2>1, <2>2, WrapsAround
  <2> QED BY <1>1, <1>4, <2>1, <2>3, <2>4
<1> QED BY <1>3, <1>4

LEMMA OneMoreOn ==
  ASSUME NEW h \in Slot, NEW k \in 0..Capacity - 1
  PROVE  (((h + k) % Capacity) + 1) % Capacity = (h + (k + 1)) % Capacity
<1>1. h \in Nat /\ Capacity \in Nat \ {0} /\ h < Capacity /\ k \in Nat /\ k \in 0..Capacity /\ k + 1 \in 0..Capacity
  BY EventLimits DEF Slot
<1>2. CASE h + k < Capacity
  <2>1. (h + k) % Capacity = h + k
    BY <1>1, <1>2, WrapsAround
  <2>2. (h + k) + 1 = h + (k + 1)
    BY <1>1
  <2> QED BY <2>1, <2>2
<1>3. CASE h + k >= Capacity
  <2>1. (h + k) % Capacity = h + k - Capacity
    BY <1>1, <1>3, WrapsAround
  <2>2. (h + (k + 1)) % Capacity = h + (k + 1) - Capacity
    BY <1>1, <1>3, WrapsAround
  <2> DEFINE m == h + k - Capacity
  <2>3. m + 1 \in Slot /\ m + 1 < Capacity /\ 0 \in 0..Capacity /\ (m + 1) + 0 = m + 1
    BY <1>1, <1>3 DEF Slot
  <2>4. h + (k + 1) - Capacity = m + 1
    BY <1>1
  <2> HIDE DEF m
  <2>5. (m + 1) % Capacity = m + 1
    BY <2>3, WrapsAround
  <2> QED BY <2>1, <2>2, <2>4, <2>5 DEF m
<1> QED BY <1>1, <1>2, <1>3

LEMMA RingTypes ==
  ASSUME EventInv
  PROVE  /\ head \in Slot /\ tail \in Slot /\ head \in Nat /\ head < Capacity /\ count \in 0..Capacity
         /\ count \in Nat /\ Capacity \in Nat \ {0} /\ popped \in Nat /\ Len(accepted) \in Nat
         /\ popped + count = Len(accepted) /\ index \in Nat /\ Len(subs) \in Nat
BY EventLimits DEF EventInv, EventsTyped, Slot

LEMMA EventTypes ==
  ASSUME EventInv
  PROVE  /\ head \in Slot /\ tail \in Slot /\ head \in Nat /\ count \in 0..Capacity /\ count \in Nat
         /\ Capacity \in Nat \ {0} /\ popped \in Nat /\ popped + count = Len(accepted)
         /\ Len(accepted) \in Nat /\ accepted \in Seq(Accepted) /\ subs \in Seq(Subscription)
         /\ Len(subs) \in Nat /\ Subscriptions = 1..Len(subs) /\ delivered \in Seq(Seq(Nat))
         /\ Len(delivered) = Len(subs) /\ DOMAIN delivered = 1..Len(subs) /\ index \in Nat
BY EventLimits DEF EventInv, EventsTyped, Slot, Subscriptions

LEMMA EventInitHolds == EventInit => EventInv
<1> SUFFICES ASSUME EventInit PROVE EventInv OBVIOUS
<1>1. Capacity \in Nat \ {0} /\ 0 \in Slot /\ 0 % Capacity = 0
  BY EventLimits DEF Slot
<1>2. accepted = <<>> /\ subs = <<>> /\ delivered = <<>> /\ popped = 0 /\ count = 0 /\ head = 0 /\ tail = 0
      /\ at = "loop" /\ stop = FALSE /\ index = 0 /\ ring = [k \in Slot |-> NoEvent]
  BY DEF EventInit
<1>3. EventsTyped
  <2>1. accepted \in Seq(Accepted) /\ subs \in Seq(Subscription) /\ delivered \in Seq(Seq(Nat))
        /\ Len(accepted) = 0 /\ Len(subs) = 0 /\ Len(delivered) = 0
    BY <1>2
  <2>2. ring \in [Slot -> {NoEvent} \cup Accepted] /\ stop \in BOOLEAN
    BY <1>2
  <2>3. tail = (head + count) % Capacity
    BY <1>1, <1>2
  <2> QED BY <1>1, <1>2, <2>1, <2>2, <2>3, EventLimits DEF EventsTyped
<1>4. GivenToAll
  BY <1>2 DEF GivenToAll, Subscriptions
<1> QED BY <1>2, <1>3, <1>4 DEF EventInv, RingHolds, Numbered, Dispatching

(* Steps that leave the ring and the dispatch alone: each subscription     *)
(* keeps what it was given, and the engine is not done with more for it.   *)
LEMMA RingStays ==
  ASSUME EventInv, UNCHANGED <<ring, head, tail, count, accepted, popped>>
  PROVE  RingHolds' /\ Numbered'
BY DEF EventInv, RingHolds, Numbered

LEMMA GivenStays ==
  ASSUME EventInv, NEW s \in Subscriptions, subs'[s] = subs[s], delivered'[s] = delivered[s],
         DoneFor(s)' = DoneFor(s), \A n \in 1..DoneFor(s) : accepted'[n] = accepted[n]
  PROVE  Given(s)' /\ \A n \in 1..DoneFor(s)' : ~Missed(s, n)'
BY DEF EventInv, GivenToAll, Given, Missed

LEMMA PublishKeeps == ASSUME EventInv, NEW t \in Types, Publish(t) PROVE EventInv'
<1> DEFINE ev == [n |-> Len(accepted) + 1, type |-> t]
<1>1. /\ at \in {"loop", "handler"} /\ Len(accepted) < MaxEvents /\ count < Capacity
      /\ ring' = [ring EXCEPT ![tail] = ev] /\ accepted' = Append(accepted, ev)
      /\ tail' = (tail + 1) % Capacity /\ count' = count + 1
      /\ UNCHANGED <<head, subs, at, event, index, stop, popped, delivered>>
  BY EventTypes DEF Publish, CallersTurn, RingFull
<1>2. ev \in Accepted /\ ev.n = Len(accepted) + 1 /\ MaxEvents \in Nat
  BY <1>1, EventTypes, EventLimits DEF Accepted
<1> HIDE DEF ev
<1>3. /\ accepted' \in Seq(Accepted) /\ Len(accepted') = Len(accepted) + 1
      /\ \A k \in 1..Len(accepted) : accepted'[k] = accepted[k]
      /\ accepted'[Len(accepted) + 1] = ev
  BY <1>1, <1>2, EventTypes, AppendProperties
<1>4. EventsTyped'
  <2>1. ring' \in [Slot -> {NoEvent} \cup Accepted]
    BY <1>1, <1>2 DEF EventInv, EventsTyped
  <2>2. tail' = (head' + count') % Capacity /\ tail' \in Slot
    <3>1. tail = (head + count) % Capacity /\ head + count + 1 = head + (count + 1)
      BY EventTypes DEF EventInv, EventsTyped
    <3>2. count \in 0..Capacity - 1 /\ count \in 0..Capacity /\ count + 1 \in 0..Capacity /\ 1 \in 0..Capacity
      BY <1>1, EventTypes
    <3>3. tail' \in Slot
      BY <1>1, <3>2, EventTypes, WrapsAround
    <3>4. (tail + 1) % Capacity = (head + (count + 1)) % Capacity
      BY <3>1, <3>2, RingTypes, OneMoreOn
    <3> QED BY <1>1, <3>3, <3>4
  <2>3. popped' + count' = Len(accepted') /\ count' \in 0..Capacity /\ Len(accepted') <= MaxEvents
    BY <1>1, <1>2, <1>3, EventTypes
  <2> QED BY <1>1, <1>3, <2>1, <2>2, <2>3 DEF EventInv, EventsTyped
<1>5. RingHolds'
  <2>1. ASSUME NEW k \in 1..count + 1
        PROVE  ring'[(head + k - 1) % Capacity] = accepted'[popped + k]
    <3>1. k - 1 \in 0..Capacity /\ k - 1 <= count /\ head + k - 1 = head + (k - 1) /\ count \in 0..Capacity
          /\ count - (k - 1) < Capacity /\ k \in Nat
      BY <1>1, EventTypes
    <3>2. tail = (head + count) % Capacity /\ ring \in [Slot -> {NoEvent} \cup Accepted]
      BY DEF EventInv, EventsTyped
    <3>3. (head + (k - 1)) % Capacity \in Slot
      BY <3>1, EventTypes, WrapsAround
    <3>4. CASE k = count + 1
      <4>1. (head + k - 1) % Capacity = tail /\ popped + k = Len(accepted) + 1
        BY <3>1, <3>2, <3>4, EventTypes, SMTT(30)
      <4> QED BY <1>1, <1>3, <3>2, <4>1, EventTypes
    <3>5. CASE k # count + 1
      <4>1. k - 1 < count /\ k \in 1..count /\ popped + k \in 1..Len(accepted)
        BY <3>1, <3>5, EventTypes
      <4>2. (head + (k - 1)) % Capacity # (head + count) % Capacity
        BY <3>1, <4>1, EventTypes, SlotsDiffer
      <4>3. ring[(head + k - 1) % Capacity] = accepted[popped + k]
        BY <4>1 DEF EventInv, RingHolds
      <4> QED BY <1>1, <1>3, <3>1, <3>2, <3>3, <4>1, <4>2, <4>3
    <3> QED BY <3>4, <3>5
  <2> QED BY <1>1, <2>1 DEF RingHolds
<1>6. Numbered'
  <2>1. \A k \in 1..Len(accepted) + 1 : k \in 1..Len(accepted) \/ k = Len(accepted) + 1
    BY EventTypes
  <2> QED BY <1>2, <1>3, <2>1 DEF EventInv, Numbered
<1>7. Dispatching'
  <2>1. popped >= 1 => popped \in 1..Len(accepted)
    BY EventTypes
  <2> QED BY <1>1, <1>3, <2>1 DEF EventInv, Dispatching
<1>8. GivenToAll'
  <2>1. \A s \in Subscriptions : DoneFor(s) \in Int /\ DoneFor(s) <= Len(accepted)
    BY EventTypes DEF DoneFor
  <2>2. \A s \in Subscriptions : Given(s)' /\ \A n \in 1..DoneFor(s)' : ~Missed(s, n)'
    <3> SUFFICES ASSUME NEW s \in Subscriptions PROVE Given(s)' /\ \A n \in 1..DoneFor(s)' : ~Missed(s, n)'
      OBVIOUS
    <3>1. DoneFor(s)' = DoneFor(s) /\ \A n \in 1..DoneFor(s) : accepted'[n] = accepted[n]
      BY <1>1, <1>3, <2>1, EventTypes DEF DoneFor
    <3> QED BY <1>1, <3>1, GivenStays
  <2> QED BY <1>1, <2>2 DEF GivenToAll, Subscriptions
<1> QED BY <1>4, <1>5, <1>6, <1>7, <1>8 DEF EventInv

LEMMA SubscribeKeeps == ASSUME EventInv, NEW t \in Types \cup {"NONE"}, Subscribe(t) PROVE EventInv'
<1> DEFINE r == [type |-> t, active |-> TRUE, from |-> IF at = "handler" THEN popped ELSE popped + 1]
<1> DEFINE old == Len(subs) + 1
<1>0. PICK new \in Nat : new = old
  BY RingTypes
<1>1. /\ at \in {"loop", "handler"} /\ Len(subs) < MaxSubscribers
      /\ subs' = Append(subs, r) /\ delivered' = Append(delivered, <<>>)
      /\ UNCHANGED <<ring, head, tail, count, at, event, index, stop, accepted, popped>>
  BY DEF Subscribe, CallersTurn
<1>2. r \in Subscription /\ r.from = IF at = "handler" THEN popped ELSE popped + 1
  <2>1. at = "handler" => popped >= 1
    BY DEF EventInv, Dispatching
  <2> QED BY <2>1, EventTypes DEF Subscription
<1> HIDE DEF r
<1>3. /\ subs' \in Seq(Subscription) /\ Len(subs') = new /\ subs'[new] = r
      /\ \A s \in Subscriptions : subs'[s] = subs[s]
  BY <1>0, <1>1, <1>2, EventTypes, AppendProperties
<1>4. /\ delivered' \in Seq(Seq(Nat)) /\ Len(delivered') = new /\ delivered'[new] = <<>>
      /\ \A s \in Subscriptions : delivered'[s] = delivered[s]
  <2>1. <<>> \in Seq(Nat)
    OBVIOUS
  <2> QED BY <1>0, <1>1, <2>1, EventTypes, AppendProperties
<1>5. EventsTyped'
  BY <1>0, <1>1, <1>3, <1>4, RingTypes, EventLimits DEF EventInv, EventsTyped
<1>6. Dispatching'
  BY <1>0, <1>1, <1>3, RingTypes DEF EventInv, Dispatching
<1>7. ASSUME NEW s \in Subscriptions PROVE Given(s)' /\ \A n \in 1..DoneFor(s)' : ~Missed(s, n)'
  <2>1. DoneFor(s)' = DoneFor(s)
    BY <1>1 DEF DoneFor
  <2> QED BY <1>1, <1>3, <1>4, <2>1, GivenStays
<1>8. Given(new)' /\ \A n \in 1..DoneFor(new)' : ~Missed(new, n)'
  <2>1. at = "handler" => new > index
    BY <1>0, RingTypes DEF EventInv, Dispatching
  <2>2. DoneFor(new)' = IF at = "handler" THEN popped - 1 ELSE popped
    BY <1>1, <2>1 DEF DoneFor
  <2>3. \A n \in 1..DoneFor(new)' : ~(n >= r.from)
    BY <1>2, <2>2, RingTypes
  <2>4. Len(delivered'[new]) = 0
    BY <1>4
  <2>5. Given(new)'
    BY <2>4 DEF Given
  <2>6. subs'[new].from = r.from
    BY <1>3
  <2>7. \A n \in 1..DoneFor(new)' : ~Missed(new, n)'
    BY <2>3, <2>6 DEF Missed
  <2> QED BY <2>5, <2>7
<1>9. GivenToAll'
  <2>1. Subscriptions' = Subscriptions \cup {new}
    BY <1>0, <1>3, EventTypes DEF Subscriptions
  <2> QED BY <1>7, <1>8, <2>1 DEF GivenToAll
<1> QED BY <1>1, <1>5, <1>6, <1>9, RingStays DEF EventInv

LEMMA UnsubscribeKeeps == ASSUME EventInv, NEW s \in Subscriptions, Unsubscribe(s) PROVE EventInv'
<1>1. /\ subs' = [subs EXCEPT ![s].active = FALSE]
      /\ UNCHANGED <<ring, head, tail, count, at, event, index, stop, accepted, popped, delivered>>
  BY DEF Unsubscribe
<1>2. subs' \in Seq(Subscription) /\ Len(subs') = Len(subs) /\ Subscriptions' = Subscriptions
  <2>1. subs[s] \in Subscription /\ s \in 1..Len(subs)
    BY EventTypes
  <2>2. [subs[s] EXCEPT !.active = FALSE] \in Subscription
    BY <2>1 DEF Subscription
  <2>3. subs \in Seq(Subscription)
    BY EventTypes
  <2> QED BY <1>1, <2>1, <2>2, <2>3 DEF Subscriptions
<1>3. \A i \in Subscriptions : subs'[i].active => subs'[i] = subs[i]
  BY <1>1, EventTypes DEF Subscription
<1>4. EventsTyped' /\ Dispatching'
  BY <1>1, <1>2 DEF EventInv, EventsTyped, Dispatching
<1>5. GivenToAll'
  <2>1. \A i : DoneFor(i)' = DoneFor(i)
    BY <1>1 DEF DoneFor
  <2>2. ASSUME NEW i \in Subscriptions PROVE Given(i)' /\ \A n \in 1..DoneFor(i)' : ~Missed(i, n)'
    <3>1. Given(i)'
      BY <1>1, <2>1 DEF EventInv, GivenToAll, Given
    <3>2. ASSUME NEW n \in 1..DoneFor(i), Missed(i, n)' PROVE FALSE
      <4>1. subs'[i].active
        BY <3>2 DEF Missed
      <4>2. subs'[i] = subs[i]
        BY <1>3, <4>1
      <4>3. Missed(i, n)
        BY <1>1, <3>2, <4>2 DEF Missed
      <4> QED BY <4>3 DEF EventInv, GivenToAll
    <3> QED BY <2>1, <3>1, <3>2
  <2> QED BY <1>2, <2>2 DEF GivenToAll
<1> QED BY <1>1, <1>4, <1>5, RingStays DEF EventInv

LEMMA PopKeeps == ASSUME EventInv, Pop PROVE EventInv'
<1>1. /\ at = "pop" /\ count > 0 /\ event' = ring[head] /\ index' = 1 /\ at' = "scan"
      /\ head' = (head + 1) % Capacity /\ count' = count - 1 /\ popped' = popped + 1
      /\ UNCHANGED <<ring, tail, subs, stop, accepted, delivered>>
  BY DEF Pop
<1>2. 1 \in 0..Capacity /\ count \in 1..Capacity /\ count - 1 \in 0..Capacity - 1
  BY <1>1, EventTypes
<1>3. EventsTyped'
  <2>1. head' \in Slot
    BY <1>1, <1>2, EventTypes, WrapsAround
  <2>2. tail' = (head' + count') % Capacity
    <3>1. (((head + 1) % Capacity) + (count - 1)) % Capacity = (head + (count - 1) + 1) % Capacity
      BY <1>2, EventTypes, OneOn
    <3>2. head + (count - 1) + 1 = head + count /\ tail = (head + count) % Capacity
      BY EventTypes DEF EventInv, EventsTyped
    <3> QED BY <1>1, <3>1, <3>2
  <2>3. count' \in 0..Capacity /\ popped' \in Nat /\ popped' + count' = Len(accepted')
    BY <1>1, <1>2, EventTypes
  <2> QED BY <1>1, <2>1, <2>2, <2>3 DEF EventInv, EventsTyped
<1>4. RingHolds'
  <2> SUFFICES ASSUME NEW k \in 1..count - 1
               PROVE  ring[(((head + 1) % Capacity) + k - 1) % Capacity] = accepted[popped + 1 + k]
    BY <1>1 DEF RingHolds
  <2>1. k - 1 \in 0..Capacity - 1 /\ k + 1 \in 1..count /\ k \in Nat
    BY <1>2, EventTypes
  <2>2. (((head + 1) % Capacity) + (k - 1)) % Capacity = (head + (k - 1) + 1) % Capacity
    BY <2>1, EventTypes, OneOn
  <2>3. (head + 1) % Capacity \in Nat
    <3>1. (head + 1) % Capacity \in Slot
      BY <1>2, RingTypes, WrapsAround
    <3> QED BY <3>1, RingTypes DEF Slot
  <2>4. ((head + 1) % Capacity) + (k - 1) = ((head + 1) % Capacity) + k - 1
    BY <2>1, <2>3
  <2>5. head + (k - 1) + 1 = head + (k + 1) - 1 /\ popped + (k + 1) = popped + 1 + k
    BY <2>1, RingTypes
  <2>6. ring[(head + (k + 1) - 1) % Capacity] = accepted[popped + (k + 1)]
    BY <2>1 DEF EventInv, RingHolds
  <2> QED BY <2>2, <2>4, <2>5, <2>6
<1>5. Dispatching'
  <2>1. ring[(head + 1 - 1) % Capacity] = accepted[popped + 1]
    BY <1>2 DEF EventInv, RingHolds
  <2>2. head + 1 - 1 = head + 0 /\ 0 \in 0..Capacity /\ head + 0 < Capacity
    BY EventTypes DEF Slot
  <2>3. (head + 0) % Capacity = head
    BY <2>2, EventTypes, WrapsAround
  <2>4. event' = accepted[popped + 1]
    BY <1>1, <2>1, <2>2, <2>3
  <2> QED BY <1>1, <2>4, RingTypes DEF Dispatching
<1>6. GivenToAll'
  <2>1. ASSUME NEW s \in Subscriptions PROVE Given(s)' /\ \A n \in 1..DoneFor(s)' : ~Missed(s, n)'
    <3>1. DoneFor(s) = popped /\ DoneFor(s)' = popped
      BY <1>1, EventTypes DEF DoneFor
    <3> QED BY <1>1, <3>1, GivenStays
  <2> QED BY <1>1, <2>1 DEF GivenToAll, Subscriptions
<1> QED BY <1>1, <1>3, <1>4, <1>5, <1>6 DEF EventInv, Numbered

LEMMA ScanKeeps == ASSUME EventInv, Scan PROVE EventInv'
<1>1. at = "scan" /\ UNCHANGED <<ring, head, tail, count, subs, event, stop, accepted, popped>>
  BY DEF Scan
<1>2. popped >= 1 /\ event = accepted[popped] /\ index >= 1 /\ index \in Nat /\ popped \in 1..Len(accepted)
  BY <1>1, EventTypes DEF EventInv, Dispatching
<1>3. event.n = popped
  BY <1>2 DEF EventInv, Numbered
<1>4. \A s \in Subscriptions : s \in Nat /\ DoneFor(s) = IF s >= index THEN popped - 1 ELSE popped
  BY <1>1, EventTypes DEF DoneFor
<1>5. Subscriptions' = Subscriptions
  BY <1>1 DEF Subscriptions
<1>6. CASE index > Len(subs)
  <2>1. at' = "pop" /\ UNCHANGED <<index, delivered>>
    BY <1>6 DEF Scan
  <2>2. EventsTyped' /\ Dispatching'
    BY <1>1, <2>1 DEF EventInv, EventsTyped, Dispatching
  <2>3. \A s \in Subscriptions : DoneFor(s)' = DoneFor(s)
    BY <1>1, <1>4, <1>6, <2>1, EventTypes DEF DoneFor
  <2>4. GivenToAll'
    BY <1>1, <1>5, <2>1, <2>3, GivenStays DEF GivenToAll
  <2> QED BY <1>1, <2>2, <2>4, RingStays DEF EventInv
<1>7. CASE index <= Len(subs) /\ ~Matches(index)
  <2>1. index' = index + 1 /\ UNCHANGED <<at, delivered>>
    BY <1>2, <1>7, EventTypes DEF Scan
  <2>2. EventsTyped' /\ Dispatching'
    BY <1>1, <1>2, <2>1 DEF EventInv, EventsTyped, Dispatching
  <2>3. ASSUME NEW s \in Subscriptions, s # index
        PROVE  Given(s)' /\ \A n \in 1..DoneFor(s)' : ~Missed(s, n)'
    <3>1. DoneFor(s)' = DoneFor(s)
      BY <1>1, <1>2, <1>4, <2>1, <2>3 DEF DoneFor
    <3> QED BY <1>1, <2>1, <3>1, GivenStays
  <2>4. ASSUME NEW i \in Subscriptions, i = index
        PROVE  Given(i)' /\ \A n \in 1..DoneFor(i)' : ~Missed(i, n)'
    <3>1. DoneFor(i)' = popped /\ DoneFor(i) = popped - 1
      BY <1>1, <1>2, <1>4, <2>1, <2>4 DEF DoneFor
    <3>2. Given(i) /\ \A n \in 1..popped - 1 : ~Missed(i, n)
      BY <2>4, <3>1 DEF EventInv, GivenToAll
    <3>3. Given(i)'
      <4>1. \A j \in 1..Len(delivered[i]) : delivered[i][j] \in Nat
        BY <2>4, EventTypes
      <4>2. \A j \in 1..Len(delivered[i]) : delivered[i][j] <= popped
        BY <1>2, <3>1, <3>2, <4>1 DEF Given
      <4> QED BY <2>1, <3>1, <3>2, <4>2 DEF Given
    <3>4. ASSUME NEW n \in 1..popped, Missed(i, n)' PROVE FALSE
      <4>1. Missed(i, n)
        BY <1>1, <2>1, <3>4 DEF Missed
      <4>2. n = popped
        BY <1>2, <3>2, <4>1
      <4> QED BY <1>2, <1>7, <2>4, <4>1, <4>2 DEF Missed, Matches
    <3> QED BY <3>1, <3>3, <3>4
  <2>5. GivenToAll'
    BY <1>5, <2>3, <2>4 DEF GivenToAll
  <2> QED BY <1>1, <2>2, <2>5, RingStays DEF EventInv
<1>8. CASE index <= Len(subs) /\ Matches(index)
  <2>0. PICK i \in Subscriptions : i = index
    BY <1>2, <1>8, EventTypes
  <2> DEFINE old == delivered[i]
             given == Append(old, event.n)
  <2>1. at' = "handler" /\ delivered' = [delivered EXCEPT ![i] = given] /\ index' = index
    BY <1>2, <1>8, <2>0, RingTypes DEF Scan
  <2>2. old \in Seq(Nat) /\ i \in DOMAIN delivered /\ delivered \in Seq(Seq(Nat))
    BY <2>0, EventTypes
  <2>3. /\ given \in Seq(Nat) /\ Len(given) = Len(old) + 1 /\ given[Len(old) + 1] = popped
        /\ \A j \in 1..Len(old) : given[j] = old[j] /\ old[j] \in Nat
    BY <1>2, <1>3, <2>2, AppendProperties
  <2>4. Len(old) \in Nat
    BY <2>2
  <2> HIDE DEF given
  <2>5. delivered' \in Seq(Seq(Nat)) /\ Len(delivered') = Len(delivered)
    BY <2>1, <2>2, <2>3
  <2>6. EventsTyped' /\ Dispatching'
    BY <1>1, <1>2, <1>8, <2>1, <2>5 DEF EventInv, EventsTyped, Dispatching
  <2>7. ASSUME NEW s \in Subscriptions, s # i
        PROVE  Given(s)' /\ \A n \in 1..DoneFor(s)' : ~Missed(s, n)'
    <3>1. DoneFor(s)' = DoneFor(s)
      BY <1>1, <1>2, <1>4, <2>0, <2>1, <2>7 DEF DoneFor
    <3>2. delivered'[s] = delivered[s]
      BY <2>1, <2>7, EventTypes
    <3> QED BY <1>1, <3>1, <3>2, GivenStays
  <2>8. Given(i)' /\ \A n \in 1..DoneFor(i)' : ~Missed(i, n)'
    <3>1. DoneFor(i)' = popped /\ DoneFor(i) = popped - 1 /\ delivered'[i] = given
      BY <1>1, <1>2, <1>4, <2>0, <2>1, <2>2 DEF DoneFor
    <3>2. Given(i) /\ \A n \in 1..popped - 1 : ~Missed(i, n)
      BY <2>2, <3>1 DEF EventInv, GivenToAll
    <3>3. \A j \in 1..Len(old) : old[j] <= popped - 1
      BY <3>1, <3>2 DEF Given
    <3>4. \A j \in 1..Len(given) : given[j] <= popped
      <4>1. \A j \in 1..Len(given) : j \in 1..Len(old) \/ j = Len(old) + 1
        BY <2>3, <2>4
      <4> QED BY <1>2, <2>3, <3>3, <4>1, SMTT(30)
    <3>5. \A j \in 1..Len(given) - 1 : given[j] < given[j + 1]
      <4>1. ASSUME NEW j \in 1..Len(old) PROVE given[j] < given[j + 1]
        <5>1. CASE j = Len(old)
          BY <1>2, <2>3, <3>3, <5>1, SMTT(30)
        <5>2. CASE j # Len(old)
          <6>1. j \in 1..Len(old) - 1 /\ j + 1 \in 1..Len(old)
            BY <2>4, <5>2
          <6>2. old[j] < old[j + 1]
            BY <3>2, <6>1 DEF Given
          <6> QED BY <2>3, <6>1, <6>2
        <5> QED BY <5>1, <5>2
      <4> QED BY <2>3, <2>4, <4>1
    <3>6. Given(i)'
      BY <3>1, <3>4, <3>5 DEF Given
    <3>7. ToSet(old) \subseteq ToSet(given) /\ popped \in ToSet(given)
      <4>1. DOMAIN given = 1..Len(old) + 1 /\ DOMAIN old = 1..Len(old)
        BY <2>2, <2>3
      <4>2. ASSUME NEW x \in ToSet(old) PROVE x \in ToSet(given)
        <5>1. PICK j \in 1..Len(old) : x = old[j]
          BY <4>1 DEF ToSet
        <5>2. j \in DOMAIN given /\ given[j] = x
          BY <2>3, <2>4, <4>1, <5>1
        <5> QED BY <5>2 DEF ToSet
      <4>3. Len(old) + 1 \in DOMAIN given
        BY <2>4, <4>1
      <4> QED BY <2>3, <4>2, <4>3 DEF ToSet
    <3>8. ASSUME NEW n \in 1..popped, Missed(i, n)' PROVE FALSE
      <4>1. n \notin ToSet(given) /\ Missed(i, n)
        BY <1>1, <3>1, <3>7, <3>8 DEF Missed
      <4>2. n \in 1..popped - 1
        BY <1>2, <3>7, <4>1
      <4> QED BY <3>2, <4>1, <4>2
    <3> QED BY <3>1, <3>6, <3>8
  <2>9. GivenToAll'
    BY <1>5, <2>7, <2>8 DEF GivenToAll
  <2> QED BY <1>1, <2>6, <2>9, RingStays DEF EventInv
<1> QED BY <1>2, <1>6, <1>7, <1>8, EventTypes

LEMMA EventStep == EventInv /\ [EventNext]_eventVars => EventInv'
<1> SUFFICES ASSUME EventInv, [EventNext]_eventVars PROVE EventInv' OBVIOUS
<1>1. ASSUME UNCHANGED <<ring, head, tail, count, subs, event, accepted, popped, delivered>>,
             at' \in {"loop", "pop", "scan", "handler", "stopped"}, stop' \in BOOLEAN, index' \in Nat,
             \A s \in Subscriptions : DoneFor(s)' = DoneFor(s), Dispatching'
      PROVE  EventInv'
  <2>1. EventsTyped'
    BY <1>1 DEF EventInv, EventsTyped
  <2>2. GivenToAll'
    BY <1>1, GivenStays DEF GivenToAll, Subscriptions
  <2> QED BY <1>1, <2>1, <2>2, RingStays DEF EventInv
<1>2. /\ at \in {"loop", "pop", "scan", "handler", "stopped"} /\ stop \in BOOLEAN /\ index \in Nat
      /\ \A s \in Subscriptions : s \in Nat
  BY EventTypes DEF EventInv, EventsTyped
<1>3. CASE Loop
  <2>1. Dispatching' /\ \A s \in Subscriptions : DoneFor(s)' = DoneFor(s)
    BY <1>3 DEF Loop, Dispatching, DoneFor
  <2> QED BY <1>1, <1>2, <1>3, <2>1 DEF Loop
<1>4. CASE Return
  <2>1. Dispatching'
    BY <1>2, <1>4 DEF Return, EventInv, Dispatching
  <2>2. \A s \in Subscriptions : DoneFor(s)' = DoneFor(s)
    BY <1>2, <1>4 DEF Return, DoneFor
  <2> QED BY <1>1, <1>2, <1>4, <2>1, <2>2 DEF Return
<1>5. CASE RoundEnds
  <2>1. Dispatching' /\ \A s \in Subscriptions : DoneFor(s)' = DoneFor(s)
    BY <1>5 DEF RoundEnds, Dispatching, DoneFor
  <2> QED BY <1>1, <1>2, <1>5, <2>1 DEF RoundEnds
<1>6. CASE Signal
  <2>1. Dispatching' /\ \A s \in Subscriptions : DoneFor(s)' = DoneFor(s)
    BY <1>6 DEF Signal, EventInv, Dispatching, DoneFor
  <2> QED BY <1>1, <1>2, <1>6, <2>1 DEF Signal
<1>7. CASE UNCHANGED eventVars
  <2>1. Dispatching' /\ \A s \in Subscriptions : DoneFor(s)' = DoneFor(s)
    BY <1>7 DEF eventVars, EventInv, Dispatching, DoneFor
  <2> QED BY <1>1, <1>2, <1>7, <2>1 DEF eventVars
<1> QED
  BY <1>3, <1>4, <1>5, <1>6, <1>7, PopKeeps, ScanKeeps, PublishKeeps, SubscribeKeeps, UnsubscribeKeeps
  DEF EventNext, EngineStep

LEMMA InvGivesOrder == EventInv => EventsInOrder
<1> SUFFICES ASSUME EventInv PROVE RingIsQueue /\ DeliveredInOrder
  BY DEF EventsInOrder
<1>1. RingIsQueue
  <2> DEFINE rest == SubSeq(accepted, popped + 1, Len(accepted))
  <2>1. \A i \in popped + 1..Len(accepted) : accepted[i] \in Accepted
    BY EventTypes
  <2>2. rest \in Seq(Accepted) /\ Len(rest) = count
        /\ \A i \in 1..count : rest[i] = accepted[popped + i]
    <3>1. /\ rest \in Seq(Accepted)
          /\ Len(rest) = IF popped + 1 <= Len(accepted) THEN Len(accepted) - (popped + 1) + 1 ELSE 0
          /\ \A i \in 1..Len(accepted) - (popped + 1) + 1 : rest[i] = accepted[popped + 1 + i - 1]
      <4>1. popped + 1 \in Int /\ Len(accepted) \in Int
        BY RingTypes
      <4> QED BY <2>1, <4>1, SubSeqProperties
    <3>2. Len(accepted) - (popped + 1) + 1 = count /\ (~(popped + 1 <= Len(accepted)) => count = 0)
      BY EventTypes
    <3>3. \A i \in 1..count : popped + 1 + i - 1 = popped + i
      BY EventTypes
    <3> QED BY <3>1, <3>2, <3>3
  <2> HIDE DEF rest
  <2>3. DOMAIN rest = 1..count /\ rest = [i \in 1..count |-> rest[i]]
    BY <2>2
  <2>4. \A k \in 1..count : ring[(head + k - 1) % Capacity] = rest[k]
    BY <2>2 DEF EventInv, RingHolds
  <2>5. [k \in 1..count |-> ring[(head + k - 1) % Capacity]] = rest
    BY <2>3, <2>4
  <2> QED BY <2>5 DEF RingIsQueue, rest
<1>2. DeliveredInOrder
  <2> SUFFICES ASSUME NEW s \in Subscriptions
               PROVE  /\ \A j \in 1..Len(delivered[s]) - 1 : delivered[s][j] < delivered[s][j + 1]
                      /\ subs[s].active =>
                           LET done == IF at \in {"scan", "handler"} THEN popped - 1 ELSE popped
                           IN \A n \in subs[s].from..done :
                                subs[s].type \in {"NONE", accepted[n].type} => n \in ToSet(delivered[s])
    BY DEF DeliveredInOrder
  <2> DEFINE done == IF at \in {"scan", "handler"} THEN popped - 1 ELSE popped
  <2>1. done <= DoneFor(s) /\ DoneFor(s) \in Int /\ done \in Int
    BY EventTypes DEF DoneFor
  <2>2. subs[s].from \in Nat \ {0}
    <3>1. subs[s] \in Subscription
      BY EventTypes
    <3> QED BY <3>1 DEF Subscription
  <2> HIDE DEF done
  <2>3. \A n \in subs[s].from..done : n \in 1..DoneFor(s) /\ n >= subs[s].from
    BY <2>1, <2>2
  <2>4. Given(s) /\ \A n \in 1..DoneFor(s) : ~Missed(s, n)
    BY DEF EventInv, GivenToAll
  <2>5. subs[s].active => \A n \in subs[s].from..done :
          subs[s].type \in {"NONE", accepted[n].type} => n \in ToSet(delivered[s])
    BY <2>3, <2>4 DEF Missed
  <2> QED BY <2>4, <2>5 DEF Given, done
<1> QED BY <1>1, <1>2

(* From the publisher to the handler: the ring is a queue however it wraps *)
(* around while handlers publish, and a handler gets the events of its     *)
(* type in order, none twice and none left out, also when subscriptions    *)
(* come and go under the scan (events.c:353-421), for any capacity, number *)
(* of subscriptions and types.                                             *)
THEOREM OrderIsKept == MCSpec => []EventsInOrder
<1>1. MCInit => EventInv
  BY EventInitHolds DEF MCInit
<1>2. EventInv /\ [MCNext]_MCVars => EventInv'
  BY EachGuardsItsOwn, EventStep
<1> QED BY <1>1, <1>2, InvGivesOrder, MCSteps, PTL

-----------------------------------------------------------------------------
(* Sums over the units of time of a window, one unit after the other.      *)

LEMMA HasLeast ==
  ASSUME NEW T \in SUBSET Nat, T # {}
  PROVE  \E x \in T : \A y \in T : x <= y
<1> DEFINE before == OpToRel(<, Nat)
<1>1. IsWellFoundedOn(before, Nat)
  BY NatLessThanWellFounded
<1>2. \A x, y \in Nat : <<y, x>> \in before <=> y < x
  BY DEF OpToRel
<1> HIDE DEF before
<1>3. PICK x \in T : \A y \in T : <<y, x>> \notin before
  BY <1>1, WFMin
<1>4. \A y \in T : ~(y < x)
  BY <1>2, <1>3
<1> QED BY <1>4

CountsIn(by, units) == units \in Nat /\ \A a \in 0..(units - 1) : by[a] \in Nat
Adds(by, units, f) == f = [n \in 0..units |-> IF n = 0 THEN 0 ELSE f[n - 1] + by[n - 1]]
Total(by, units, n) == (CHOOSE f : Adds(by, units, f))[n]
SumsTo(by, f, n) ==
  f \in [0..n -> Nat] /\ f[0] = 0 /\ \A a \in 1..n : f[a] = f[a - 1] + by[a - 1]

LEMMA SumsExist ==
  ASSUME NEW by, NEW units, CountsIn(by, units)
  PROVE  \E f : SumsTo(by, f, units)
<1>0. units \in Nat /\ \A a \in 0..(units - 1) : by[a] \in Nat
  BY DEF CountsIn
<1> DEFINE Short == {n \in 0..units : ~ \E f : SumsTo(by, f, n)}
<1>1. ASSUME Short # {} PROVE FALSE
  <2>1. Short \in SUBSET Nat
    BY <1>0
  <2>2. PICK n \in Short : \A m \in Short : n <= m
    BY <1>1, <2>1, HasLeast
  <2>3. n # 0
    <3> DEFINE f == [m \in 0..0 |-> 0]
    <3>1. SumsTo(by, f, 0)
      BY DEF SumsTo
    <3> HIDE DEF f
    <3> QED BY <2>2, <3>1
  <2>4. /\ n \in Nat /\ n \in 1..units /\ n - 1 \in 0..(units - 1) /\ n - 1 \in 0..units
        /\ n - 1 \notin Short /\ \A m \in 0..n : m = n \/ m \in 0..(n - 1)
    BY <1>0, <2>1, <2>2, <2>3
  <2>5. PICK f : SumsTo(by, f, n - 1)
    BY <2>4
  <2>6. f[n - 1] \in Nat /\ by[n - 1] \in Nat
    BY <1>0, <2>4, <2>5 DEF SumsTo
  <2> DEFINE g == [m \in 0..n |-> IF m = n THEN f[n - 1] + by[n - 1] ELSE f[m]]
  <2>7. /\ DOMAIN g = 0..n /\ g[n] = f[n - 1] + by[n - 1]
        /\ \A m \in 0..(n - 1) : g[m] = f[m] /\ f[m] \in Nat
        /\ g = [m \in 0..n |-> g[m]]
    BY <2>4, <2>5 DEF SumsTo
  <2> HIDE DEF g
  <2>8. \A m \in 0..n : g[m] \in Nat
    <3>1. g[n] \in Nat
      BY <2>6, <2>7
    <3> QED BY <2>4, <2>7, <3>1
  <2>9. g[0] = 0
    <3>1. 0 \in 0..(n - 1)
      BY <2>4
    <3> QED BY <2>5, <2>7, <3>1 DEF SumsTo
  <2>10. ASSUME NEW a \in 1..n PROVE g[a] = g[a - 1] + by[a - 1]
    <3>1. CASE a = n
      <4>1. n - 1 \in 0..(n - 1)
        BY <2>4
      <4> QED BY <2>7, <3>1, <4>1
    <3>2. CASE a # n
      <4>1. a \in 1..(n - 1) /\ a \in 0..(n - 1) /\ a - 1 \in 0..(n - 1)
        BY <2>4, <3>2
      <4> QED BY <2>5, <2>7, <4>1 DEF SumsTo
    <3> QED BY <3>1, <3>2
  <2>11. SumsTo(by, g, n)
    BY <2>7, <2>8, <2>9, <2>10 DEF SumsTo
  <2> QED BY <2>2, <2>11
<1>2. units \in 0..units /\ units \notin Short
  BY <1>0, <1>1
<1> QED BY <1>2

LEMMA TotalIs ==
  ASSUME NEW by, NEW units, CountsIn(by, units)
  PROVE  /\ Total(by, units, 0) = 0
         /\ \A n \in 0..units : Total(by, units, n) \in Nat
         /\ \A n \in 0..(units - 1) : Total(by, units, n + 1) = Total(by, units, n) + by[n]
<1>1. units \in Nat /\ \A a \in 0..(units - 1) : by[a] \in Nat
  BY DEF CountsIn
<1>2. PICK g : SumsTo(by, g, units)
  BY SumsExist
<1>3. Adds(by, units, g)
  <2>1. g = [a \in 0..units |-> g[a]]
    BY <1>2 DEF SumsTo
  <2>2. \A a \in 0..units : g[a] = IF a = 0 THEN 0 ELSE g[a - 1] + by[a - 1]
    BY <1>1, <1>2 DEF SumsTo
  <2> QED BY <2>1, <2>2 DEF Adds
<1>4. PICK f : f = CHOOSE h : Adds(by, units, h)
  OBVIOUS
<1>5. Adds(by, units, f) /\ \A n : Total(by, units, n) = f[n]
  BY <1>3, <1>4 DEF Total
<1>6. \A a \in 0..units : f[a] = IF a = 0 THEN 0 ELSE f[a - 1] + by[a - 1]
  BY <1>5 DEF Adds
<1>7. f[0] = 0 /\ \A n \in 0..(units - 1) : f[n + 1] = f[n] + by[n]
  <2>1. 0 \in 0..units /\ \A n \in 0..(units - 1) : n + 1 \in 0..units /\ n + 1 # 0 /\ (n + 1) - 1 = n
    BY <1>1
  <2> QED BY <1>6, <2>1
<1>8. \A n \in 0..units : f[n] \in Nat
  <2> DEFINE Wrong == {n \in 0..units : f[n] \notin Nat}
  <2>1. ASSUME Wrong # {} PROVE FALSE
    <3>1. Wrong \in SUBSET Nat
      BY <1>1
    <3>2. PICK n \in Wrong : \A m \in Wrong : n <= m
      BY <2>1, <3>1, HasLeast
    <3>3. n # 0 /\ n \in Nat
      BY <1>7, <3>1, <3>2
    <3>4. n - 1 \in 0..(units - 1) /\ n - 1 \in 0..units /\ n - 1 \notin Wrong /\ (n - 1) + 1 = n
      BY <1>1, <3>2, <3>3
    <3>5. f[n - 1] \in Nat /\ by[n - 1] \in Nat /\ f[n] = f[n - 1] + by[n - 1]
      BY <1>1, <1>7, <3>4
    <3> QED BY <3>2, <3>5
  <2> QED BY <2>1
<1> QED BY <1>5, <1>7, <1>8

(* What every sum of one window is to another: equal but for `more', once  *)
(* it is so at the start and both go on alike, d units apart.              *)
LEMMA SumsAlike ==
  ASSUME NEW by, NEW new, NEW units, CountsIn(by, units), CountsIn(new, units),
         NEW d \in Nat, NEW from \in 0..units, NEW more \in Nat,
         Total(new, units, from + d) = Total(by, units, from) + more,
         \A a \in 0..(units - 1) : a >= from /\ a + d < units => new[a + d] = by[a],
         NEW upto \in 0..units, upto + d <= units, from <= upto
  PROVE  Total(new, units, upto + d) = Total(by, units, upto) + more
<1>0. units \in Nat
  BY DEF CountsIn
<1>1. PICK f : \A n \in 0..units : f[n] = Total(by, units, n) /\ f[n] \in Nat
  <2> DEFINE f == [n \in 0..units |-> Total(by, units, n)]
  <2>1. \A n \in 0..units : f[n] = Total(by, units, n) /\ f[n] \in Nat
    BY TotalIs
  <2> HIDE DEF f
  <2> QED BY <2>1
<1>2. PICK g : \A n \in 0..units : g[n] = Total(new, units, n) /\ g[n] \in Nat
  <2> DEFINE g == [n \in 0..units |-> Total(new, units, n)]
  <2>1. \A n \in 0..units : g[n] = Total(new, units, n) /\ g[n] \in Nat
    BY TotalIs
  <2> HIDE DEF g
  <2> QED BY <2>1
<1>3. \A n \in 0..(units - 1) : n + 1 \in 0..units /\ n \in 0..units
  BY <1>0
<1>4. \A n \in 0..(units - 1) : f[n + 1] = f[n] + by[n] /\ g[n + 1] = g[n] + new[n]
  <2>1. ASSUME NEW n \in 0..(units - 1) PROVE f[n + 1] = f[n] + by[n] /\ g[n + 1] = g[n] + new[n]
    <3>1. Total(by, units, n + 1) = Total(by, units, n) + by[n] /\ Total(new, units, n + 1) = Total(new, units, n) + new[n]
      BY TotalIs
    <3>2. n + 1 \in 0..units /\ n \in 0..units
      BY <1>3
    <3> QED BY <1>1, <1>2, <3>1, <3>2
  <2> QED BY <2>1
<1> DEFINE Wrong == {n \in 0..units : from <= n /\ n + d <= units /\ g[n + d] # f[n] + more}
<1>5. ASSUME Wrong # {} PROVE FALSE
  <2>1. Wrong \in SUBSET Nat
    BY <1>0
  <2>2. PICK n \in Wrong : \A m \in Wrong : n <= m
    BY <1>5, <2>1, HasLeast
  <2>3. n # from
    <3>1. from + d \in 0..units
      BY <1>0
    <3> QED BY <1>1, <1>2, <2>2, <3>1
  <2>4. /\ n \in Nat /\ from <= n - 1 /\ n - 1 \in 0..(units - 1) /\ n - 1 \in 0..units
        /\ (n - 1) + d \in 0..(units - 1) /\ (n - 1) + d < units /\ n - 1 \notin Wrong
        /\ n + d \in 0..units
    BY <1>0, <2>1, <2>2, <2>3
  <2>5. g[(n - 1) + d] = f[n - 1] + more
    BY <1>0, <2>4
  <2>6. f[(n - 1) + 1] = f[n - 1] + by[n - 1] /\ g[((n - 1) + d) + 1] = g[(n - 1) + d] + new[(n - 1) + d]
    BY <1>4, <2>4
  <2>7. new[(n - 1) + d] = by[n - 1] /\ by[n - 1] \in Nat
    BY <2>4 DEF CountsIn
  <2>8. f[n - 1] \in Nat /\ (n - 1) + 1 = n /\ ((n - 1) + d) + 1 = n + d
    BY <1>1, <2>4
  <2>9. g[n + d] = f[n] + more
    BY <2>5, <2>6, <2>7, <2>8
  <2> QED BY <2>2, <2>9
<1>6. upto + d \in 0..units
  BY <1>0
<1>7. g[upto + d] = f[upto] + more
  BY <1>5, <1>6
<1> QED BY <1>1, <1>2, <1>6, <1>7

(* A unit of time passes.                                                  *)
LEMMA SumsShift ==
  ASSUME NEW by, NEW new, NEW units, CountsIn(by, units), units >= 1, new[0] = 0,
         \A a \in 0..(units - 1) : a # 0 => new[a] = by[a - 1]
  PROVE  CountsIn(new, units) /\ \A n \in 0..(units - 1) : Total(new, units, n + 1) = Total(by, units, n)
<1>1. units \in Nat /\ 0 \in 0..(units - 1) /\ 0 \in 0..units
  BY DEF CountsIn
<1>2. \A a \in 0..(units - 1) : a >= 0 /\ a + 1 < units => new[a + 1] = by[a]
  <2>1. \A a \in 0..(units - 1) : a + 1 < units => a + 1 \in 0..(units - 1) /\ a + 1 # 0 /\ (a + 1) - 1 = a
    BY <1>1
  <2> QED BY <1>1, <2>1
<1>3. CountsIn(new, units)
  <2>1. \A a \in 0..(units - 1) : a # 0 => a - 1 \in 0..(units - 1)
    BY <1>1
  <2> QED BY <1>1, <2>1 DEF CountsIn
<1>4. Total(new, units, 0 + 1) = Total(by, units, 0) + 0
  <2>1. Total(new, units, 0 + 1) = Total(new, units, 0) + new[0] /\ Total(new, units, 0) = 0 /\ Total(by, units, 0) = 0
    BY <1>1, <1>3, TotalIs
  <2> QED BY <2>1
<1>5. ASSUME NEW n \in 0..(units - 1) PROVE Total(new, units, n + 1) = Total(by, units, n)
  <2>1. n \in 0..units /\ n + 1 <= units /\ 0 <= n /\ 1 \in Nat /\ 0 \in Nat
    BY <1>1
  <2>2. Total(new, units, n + 1) = Total(by, units, n) + 0
    BY <1>1, <1>2, <1>3, <1>4, <2>1, SumsAlike
  <2>3. Total(by, units, n) \in Nat
    BY <2>1, TotalIs
  <2> QED BY <2>2, <2>3
<1> QED BY <1>3, <1>5

(* One more in this unit.                                                  *)
LEMMA SumsMore ==
  ASSUME NEW by, NEW new, NEW units, CountsIn(by, units), units >= 1, new[0] = by[0] + 1,
         \A a \in 0..(units - 1) : a # 0 => new[a] = by[a]
  PROVE  CountsIn(new, units) /\ \A n \in 1..units : Total(new, units, n) = Total(by, units, n) + 1
<1>1. units \in Nat /\ 0 \in 0..(units - 1) /\ 1 \in 0..units
  BY DEF CountsIn
<1>2. CountsIn(new, units)
  BY <1>1 DEF CountsIn
<1>3. Total(new, units, 1 + 0) = Total(by, units, 1) + 1
  <2>1. Total(new, units, 0 + 1) = Total(new, units, 0) + new[0] /\ Total(new, units, 0) = 0
    BY <1>1, <1>2, TotalIs
  <2>2. Total(by, units, 0 + 1) = Total(by, units, 0) + by[0] /\ Total(by, units, 0) = 0 /\ by[0] \in Nat
    BY <1>1, TotalIs DEF CountsIn
  <2> QED BY <2>1, <2>2
<1>4. \A a \in 0..(units - 1) : a >= 1 /\ a + 0 < units => new[a + 0] = by[a]
  <2>1. \A a \in 0..(units - 1) : a + 0 = a /\ (a >= 1 => a # 0)
    BY <1>1
  <2> QED BY <2>1
<1>5. ASSUME NEW n \in 1..units PROVE Total(new, units, n) = Total(by, units, n) + 1
  <2>1. n \in 0..units /\ n + 0 <= units /\ 1 <= n /\ n + 0 = n /\ 0 \in Nat /\ 1 \in Nat
    BY <1>1
  <2>2. Total(new, units, n + 0) = Total(by, units, n) + 1
    BY <1>1, <1>2, <1>3, <1>4, <2>1, SumsAlike
  <2> QED BY <2>1, <2>2
<1> QED BY <1>2, <1>5

LEMMA SumsNone ==
  ASSUME NEW by, NEW units \in Nat, \A a \in 0..(units - 1) : by[a] = 0
  PROVE  CountsIn(by, units) /\ \A n \in 0..units : Total(by, units, n) = 0
<1>1. CountsIn(by, units)
  BY DEF CountsIn
<1> DEFINE Wrong == {n \in 0..units : Total(by, units, n) # 0}
<1>2. ASSUME Wrong # {} PROVE FALSE
  <2>1. Wrong \in SUBSET Nat
    OBVIOUS
  <2>2. PICK n \in Wrong : \A m \in Wrong : n <= m
    BY <1>2, <2>1, HasLeast
  <2>3. n # 0
    BY <1>1, <2>2, TotalIs
  <2>4. n - 1 \in 0..(units - 1) /\ n - 1 \in 0..units /\ n - 1 \notin Wrong /\ (n - 1) + 1 = n
    BY <2>1, <2>2, <2>3
  <2>5. Total(by, units, n - 1) = 0 /\ by[n - 1] = 0 /\ Total(by, units, (n - 1) + 1) = Total(by, units, n - 1) + by[n - 1]
    BY <1>1, <2>4, TotalIs
  <2>6. Total(by, units, n) = 0
    BY <2>4, <2>5
  <2> QED BY <2>2, <2>6
<1> QED BY <1>1, <1>2

(* A longer stretch has no less.                                           *)
LEMMA SumsGrow ==
  ASSUME NEW by, NEW units, CountsIn(by, units), NEW l \in 0..units, NEW m \in 0..units, l <= m
  PROVE  Total(by, units, l) <= Total(by, units, m)
<1>0. units \in Nat
  BY DEF CountsIn
<1> DEFINE Wrong == {n \in 0..units : l <= n /\ ~(Total(by, units, l) <= Total(by, units, n))}
<1>1. ASSUME Wrong # {} PROVE FALSE
  <2>1. Wrong \in SUBSET Nat
    BY <1>0
  <2>2. PICK n \in Wrong : \A k \in Wrong : n <= k
    BY <1>1, <2>1, HasLeast
  <2>3. n # l
    <3>1. Total(by, units, l) \in Nat
      BY TotalIs
    <3> QED BY <2>2, <3>1
  <2>4. n \in 0..units /\ l <= n - 1 /\ n - 1 \in 0..(units - 1) /\ n - 1 \in 0..units /\ n - 1 \notin Wrong /\ (n - 1) + 1 = n
    BY <1>0, <2>1, <2>2, <2>3
  <2>5. /\ Total(by, units, n - 1) \in Nat /\ by[n - 1] \in Nat /\ Total(by, units, l) \in Nat
        /\ Total(by, units, (n - 1) + 1) = Total(by, units, n - 1) + by[n - 1]
    BY <2>4, TotalIs DEF CountsIn
  <2>6. Total(by, units, l) <= Total(by, units, n - 1)
    BY <2>4
  <2>7. Total(by, units, l) <= Total(by, units, n)
    BY <2>4, <2>5, <2>6
  <2> QED BY <2>2, <2>7
<1> QED BY <1>0, <1>1

-----------------------------------------------------------------------------
(* Restart budgets.                                                        *)

LEMMA ServiceNumbers ==
  /\ MaxWindow \in Nat /\ \A c \in Configs : c.window \in 0..MaxWindow
  /\ \A c \in Configs : c.max \in Nat /\ c.window \in Nat /\ c.policy \in Policies
  /\ MaxGroup \in Nat /\ Unset \notin Nat /\ Configs # {}
<1>1. PICK longest \in Configs : \A c \in Configs : c.window <= longest.window
  BY ServiceAssumption
<1>2. \A c \in Configs : c.max \in Nat /\ c.window \in Nat /\ c.policy \in Policies
  BY ServiceAssumption DEF Config
<1>3. PICK widths : widths = {c.window : c \in Configs}
  OBVIOUS
<1>4. longest.window \in widths /\ \A c \in Configs : c.window <= longest.window
  BY <1>1, <1>3
<1>5. MaxWindow = CHOOSE w \in widths : \A c \in Configs : c.window <= w
  BY <1>3 DEF MaxWindow
<1>6. MaxWindow \in widths /\ \A c \in Configs : c.window <= MaxWindow
  BY <1>4, <1>5
<1>7. MaxWindow \in Nat
  BY <1>2, <1>3, <1>6
<1> QED BY <1>1, <1>2, <1>6, <1>7, ServiceAssumption

(* What the books of a service say of the restarts done: those of the last *)
(* units were paid from what was left when the window closed, from what    *)
(* its closing gave, and from what is charged now; those since the first   *)
(* failure of an open window are charged; and when failures are answered   *)
(* by restarts, half of what is charged was restarts.                      *)
Charged(max, n) == IF n < max THEN n ELSE max
Done(by, w, n) == Total(by, w + 1, n)
OfUnset(max, w, n, f, by) == f = Unset => Done(by, w, w + 1) <= max - 1 + Charged(max, n)
OfOpen(max, w, n, f, by) ==
  f \in 0..w => /\ n >= 1 /\ Done(by, w, w + 1) <= 2 * max - 2 + Charged(max, n)
                /\ Done(by, w, f) <= Charged(max, n) - 1
OfClosed(max, w, n, f, by) ==
  f \in Nat /\ f > w => n >= 1 /\ Done(by, w, w + 1) <= Charged(max, n) - 1
OfAnswered(max, w, n, f, by) ==
  f \in 0..w => 2 * Done(by, w, f + 1) >= IF n < max THEN n ELSE max - 1
Books(max, w, n, f, by, auto) ==
  max > 0 => /\ OfUnset(max, w, n, f, by) /\ OfOpen(max, w, n, f, by) /\ OfClosed(max, w, n, f, by)
             /\ auto => OfAnswered(max, w, n, f, by)

(* What the books are about.                                               *)
Numbers(max, w, n, f, by) ==
  /\ max \in Nat /\ w \in Nat /\ n \in Nat /\ f \in Nat \cup {Unset} /\ CountsIn(by, w + 1)

LEMMA SumsOfWindow ==
  ASSUME NEW max, NEW w, NEW n, NEW f, NEW by, Numbers(max, w, n, f, by)
  PROVE  /\ Done(by, w, 0) = 0 /\ \A k \in 0..(w + 1) : Done(by, w, k) \in Nat
         /\ \A l, k \in 0..(w + 1) : l <= k => Done(by, w, l) <= Done(by, w, k)
<1>1. CountsIn(by, w + 1)
  BY DEF Numbers
<1> QED BY <1>1, TotalIs, SumsGrow DEF Done

LEMMA BooksStart ==
  ASSUME NEW max \in Nat, NEW w \in Nat, NEW by, \A a \in 0..w : by[a] = 0, NEW auto
  PROVE  Books(max, w, 0, Unset, by, auto)
<1>1. w + 1 \in Nat /\ (w + 1) - 1 = w /\ w + 1 \in 0..(w + 1)
  OBVIOUS
<1>2. Done(by, w, w + 1) = 0
  BY <1>1, SumsNone DEF Done
<1>3. Unset \notin Nat /\ Unset \notin 0..w
  BY ServiceNumbers
<1> QED BY <1>2, <1>3 DEF Books, OfUnset, OfOpen, OfClosed, OfAnswered, Charged

LEMMA BooksBound ==
  ASSUME NEW max, NEW w, NEW n, NEW f, NEW by, NEW auto, Numbers(max, w, n, f, by), Books(max, w, n, f, by, auto), max > 0
  PROVE  Done(by, w, w + 1) <= 3 * max - 2
<1>1. max \in Nat /\ w \in Nat /\ n \in Nat /\ f \in Nat \cup {Unset} /\ w + 1 \in 0..(w + 1)
  BY DEF Numbers
<1>2. Charged(max, n) <= max /\ Charged(max, n) \in Nat
  BY <1>1 DEF Charged
<1>3. Done(by, w, w + 1) \in Nat
  BY <1>1, SumsOfWindow
<1>4. PICK done, charged : done = Done(by, w, w + 1) /\ charged = Charged(max, n)
  OBVIOUS
<1>5. CASE f = Unset
  BY <1>1, <1>2, <1>3, <1>4, <1>5 DEF Books, OfUnset
<1>6. CASE f \in Nat /\ f > w
  BY <1>1, <1>2, <1>3, <1>4, <1>6 DEF Books, OfClosed
<1>7. CASE f \in 0..w
  BY <1>1, <1>2, <1>3, <1>4, <1>7 DEF Books, OfOpen
<1> QED BY <1>1, <1>5, <1>6, <1>7

(* A unit of time passes, and the age of the first failure may stand still *)
(* beyond the window.                                                      *)
LEMMA BooksElapse ==
  ASSUME NEW max, NEW w, NEW n, NEW f, NEW by, NEW auto, Numbers(max, w, n, f, by), Books(max, w, n, f, by, auto),
         NEW g, \/ f = Unset /\ g = Unset
                \/ f \in Nat /\ g = f + 1
                \/ f \in Nat /\ f > w /\ g = f,
         NEW new, new[0] = 0, \A a \in 0..w : a # 0 => new[a] = by[a - 1]
  PROVE  Numbers(max, w, n, g, new) /\ Books(max, w, n, g, new, auto)
<1>1. max \in Nat /\ w \in Nat /\ n \in Nat /\ f \in Nat \cup {Unset} /\ CountsIn(by, w + 1)
      /\ (w + 1) - 1 = w /\ w + 1 >= 1 /\ w \in 0..(w + 1) /\ w + 1 \in 0..(w + 1) /\ Unset \notin Nat
  BY ServiceNumbers DEF Numbers
<1>2. CountsIn(new, w + 1) /\ \A k \in 0..w : Done(new, w, k + 1) = Done(by, w, k)
  BY <1>1, SumsShift DEF Done
<1>3. Numbers(max, w, n, g, new)
  BY <1>1, <1>2 DEF Numbers
<1>4. /\ Done(new, w, w + 1) = Done(by, w, w) /\ Done(by, w, w) <= Done(by, w, w + 1)
      /\ Done(by, w, w) \in Nat /\ Done(by, w, w + 1) \in Nat
  BY <1>1, <1>2, SumsOfWindow
<1>5. Charged(max, n) \in Nat
  BY <1>1 DEF Charged
<1>6. ASSUME max > 0 PROVE OfUnset(max, w, n, g, new)
  <2>1. g = Unset => f = Unset
    BY <1>1
  <2> QED BY <1>1, <1>4, <1>5, <1>6, <2>1 DEF Books, OfUnset
<1>7. ASSUME max > 0 PROVE OfOpen(max, w, n, g, new)
  <2> SUFFICES ASSUME g \in 0..w PROVE /\ n >= 1 /\ Done(new, w, w + 1) <= 2 * max - 2 + Charged(max, n)
                                       /\ Done(new, w, g) <= Charged(max, n) - 1
    BY DEF OfOpen
  <2>1. f \in 0..w /\ g = f + 1
    BY <1>1
  <2>2. Done(new, w, g) = Done(by, w, f)
    BY <1>2, <2>1
  <2>3. n >= 1 /\ Done(by, w, w + 1) <= 2 * max - 2 + Charged(max, n) /\ Done(by, w, f) <= Charged(max, n) - 1
    BY <1>7, <2>1 DEF Books, OfOpen
  <2> QED BY <1>1, <1>4, <1>5, <2>2, <2>3
<1>8. ASSUME max > 0 PROVE OfClosed(max, w, n, g, new)
  <2> SUFFICES ASSUME g \in Nat, g > w PROVE n >= 1 /\ Done(new, w, w + 1) <= Charged(max, n) - 1
    BY DEF OfClosed
  <2>1. CASE f \in Nat /\ f > w
    <3>1. n >= 1 /\ Done(by, w, w + 1) <= Charged(max, n) - 1
      BY <1>8, <2>1 DEF Books, OfClosed
    <3> QED BY <1>1, <1>4, <1>5, <3>1
  <2>2. CASE f = w
    <3>1. f \in 0..w
      BY <1>1, <2>2
    <3>2. n >= 1 /\ Done(by, w, f) <= Charged(max, n) - 1
      BY <1>8, <3>1 DEF Books, OfOpen
    <3> QED BY <1>4, <2>2, <3>2
  <2> QED BY <1>1, <2>1, <2>2
<1>9. ASSUME max > 0, auto PROVE OfAnswered(max, w, n, g, new)
  <2> SUFFICES ASSUME g \in 0..w PROVE 2 * Done(new, w, g + 1) >= IF n < max THEN n ELSE max - 1
    BY DEF OfAnswered
  <2>1. f \in 0..w /\ g = f + 1 /\ g \in 0..w
    BY <1>1
  <2>2. Done(new, w, g + 1) = Done(by, w, g)
    BY <1>2, <2>1
  <2>3. 2 * Done(by, w, f + 1) >= IF n < max THEN n ELSE max - 1
    BY <1>9, <2>1 DEF Books, OfAnswered
  <2> QED BY <2>1, <2>2, <2>3
<1> QED BY <1>3, <1>6, <1>7, <1>8, <1>9 DEF Books
(* The books with a failure in them that is not answered yet.              *)
OfOwed(max, w, n, f, by) == f \in 0..w => 2 * Done(by, w, f + 1) + 1 >= Charged(max, n)
Owing(max, w, n, f, by, auto) ==
  max > 0 => /\ OfUnset(max, w, n, f, by) /\ OfOpen(max, w, n, f, by) /\ OfClosed(max, w, n, f, by)
             /\ auto => OfOwed(max, w, n, f, by)

LEMMA BooksAreOwing ==
  ASSUME NEW max, NEW w, NEW n, NEW f, NEW by, NEW auto, Numbers(max, w, n, f, by), Books(max, w, n, f, by, auto)
  PROVE  Owing(max, w, n, f, by, auto)
<1>1. ASSUME max > 0, auto PROVE OfOwed(max, w, n, f, by)
  <2> SUFFICES ASSUME f \in 0..w PROVE 2 * Done(by, w, f + 1) + 1 >= Charged(max, n)
    BY DEF OfOwed
  <2>1. 2 * Done(by, w, f + 1) >= IF n < max THEN n ELSE max - 1
    BY <1>1 DEF Books, OfAnswered
  <2>2. max \in Nat /\ n \in Nat /\ Done(by, w, f + 1) \in Nat
    <3>1. f + 1 \in 0..(w + 1) /\ max \in Nat /\ n \in Nat
      BY DEF Numbers
    <3> QED BY <3>1, SumsOfWindow
  <2> QED BY <2>1, <2>2 DEF Charged
<1> QED BY <1>1 DEF Books, Owing

(* A failure is counted: in the open window, or in a new one.              *)
LEMMA FailureCounted ==
  ASSUME NEW max, NEW w, NEW n, NEW f, NEW by, NEW auto, Numbers(max, w, n, f, by), Books(max, w, n, f, by, auto),
         NEW m, NEW g,
         \/ (f = Unset \/ (f \in Nat /\ f > w)) /\ m = 1 /\ g = 0
         \/ f \in 0..w /\ g = f /\ m = IF n + 1 > max THEN max + 1 ELSE n + 1
  PROVE  Numbers(max, w, m, g, by) /\ Owing(max, w, m, g, by, auto)
<1>1. max \in Nat /\ w \in Nat /\ n \in Nat /\ f \in Nat \cup {Unset} /\ w + 1 \in 0..(w + 1) /\ Unset \notin Nat
  BY ServiceNumbers DEF Numbers
<1>2. m \in Nat /\ g \in 0..w /\ g \in Nat /\ m >= 1
  BY <1>1
<1>3. Numbers(max, w, m, g, by)
  BY <1>2 DEF Numbers
<1>4. /\ Done(by, w, 0) = 0 /\ Done(by, w, w + 1) \in Nat /\ Done(by, w, g) \in Nat /\ Done(by, w, g + 1) \in Nat
  BY <1>1, <1>2, SumsOfWindow
<1>5. OfUnset(max, w, m, g, by) /\ OfClosed(max, w, m, g, by)
  BY <1>1, <1>2 DEF OfUnset, OfClosed
<1>6. CASE (f = Unset \/ (f \in Nat /\ f > w)) /\ m = 1 /\ g = 0
  <2>1. ASSUME max > 0 PROVE Charged(max, m) = 1 /\ Charged(max, n) \in Nat /\ Charged(max, n) <= max
    BY <1>1, <1>6, <2>1 DEF Charged
  <2>2. ASSUME max > 0 PROVE Done(by, w, w + 1) <= 2 * max - 1
    <3>1. CASE f = Unset
      BY <1>1, <1>4, <2>1, <2>2, <3>1 DEF Books, OfUnset
    <3>2. CASE f \in Nat /\ f > w
      BY <1>1, <1>4, <2>1, <2>2, <3>2 DEF Books, OfClosed
    <3> QED BY <1>6, <3>1, <3>2
  <2>3. ASSUME max > 0 PROVE OfOpen(max, w, m, g, by)
    BY <1>1, <1>4, <1>6, <2>1, <2>2, <2>3 DEF OfOpen
  <2>4. ASSUME max > 0 PROVE OfOwed(max, w, m, g, by)
    BY <1>4, <2>1, <2>4 DEF OfOwed
  <2> QED BY <1>3, <1>5, <2>3, <2>4 DEF Owing
<1>7. CASE f \in 0..w /\ g = f /\ m = IF n + 1 > max THEN max + 1 ELSE n + 1
  <2>1. ASSUME max > 0
        PROVE  Charged(max, n) <= Charged(max, m) /\ Charged(max, n) \in Nat /\ Charged(max, m) \in Nat
    BY <1>1, <1>7, <2>1 DEF Charged
  <2>2. ASSUME max > 0 PROVE OfOpen(max, w, m, g, by)
    BY <1>1, <1>2, <1>4, <1>7, <2>1, <2>2 DEF Books, OfOpen
  <2>3. ASSUME max > 0, auto PROVE OfOwed(max, w, m, g, by)
    <3>1. 2 * Done(by, w, g + 1) >= IF n < max THEN n ELSE max - 1
      BY <1>7, <2>3 DEF Books, OfAnswered
    <3>2. (IF n < max THEN n ELSE max - 1) + 1 >= Charged(max, m)
      BY <1>1, <1>7, <2>3 DEF Charged
    <3>3. (IF n < max THEN n ELSE max - 1) \in Int /\ Charged(max, m) \in Nat
      BY <1>1, <2>1, <2>3
    <3> QED BY <1>4, <3>1, <3>2, <3>3 DEF OfOwed
  <2> QED BY <1>3, <1>5, <2>2, <2>3 DEF Owing
<1> QED BY <1>6, <1>7

(* A restart is done, and charged to the present window or to a new one.   *)
LEMMA RestartCharged ==
  ASSUME NEW max, NEW w, NEW n, NEW f, NEW by, NEW auto, Numbers(max, w, n, f, by), Owing(max, w, n, f, by, auto),
         max > 0,
         NEW m, NEW g,
         \/ n < max /\ g = f /\ m = n + 1
         \/ ~(n < max) /\ f \in Nat /\ f > w /\ g = Unset /\ m = 1,
         NEW new, new[0] = by[0] + 1, \A a \in 0..w : a # 0 => new[a] = by[a]
  PROVE  Numbers(max, w, m, g, new) /\ Books(max, w, m, g, new, auto)
<1>1. max \in Nat /\ w \in Nat /\ n \in Nat /\ f \in Nat \cup {Unset} /\ CountsIn(by, w + 1)
      /\ (w + 1) - 1 = w /\ w + 1 >= 1 /\ w + 1 \in 0..(w + 1) /\ w + 1 \in 1..(w + 1) /\ Unset \notin Nat
  BY ServiceNumbers DEF Numbers
<1>2. CountsIn(new, w + 1) /\ \A k \in 1..(w + 1) : Done(new, w, k) = Done(by, w, k) + 1
  BY <1>1, SumsMore DEF Done
<1>3. Numbers(max, w, m, g, new)
  BY <1>1, <1>2 DEF Numbers
<1>4. /\ Done(new, w, w + 1) = Done(by, w, w + 1) + 1 /\ Done(by, w, w + 1) \in Nat /\ Done(by, w, 0) = 0 /\ Done(new, w, 0) = 0
  BY <1>1, <1>2, <1>3, SumsOfWindow
<1>5. Charged(max, n) \in Nat /\ Charged(max, m) \in Nat /\ Charged(max, n) <= max
  BY <1>1 DEF Charged
<1>6. CASE n < max /\ g = f /\ m = n + 1
  <2>1. Charged(max, m) = Charged(max, n) + 1 /\ Charged(max, n) = n
    BY <1>1, <1>6 DEF Charged
  <2>2. OfUnset(max, w, m, g, new)
    BY <1>1, <1>4, <1>5, <1>6, <2>1 DEF Owing, OfUnset
  <2>3. OfClosed(max, w, m, g, new)
    BY <1>1, <1>4, <1>5, <1>6, <2>1 DEF Owing, OfClosed
  <2>4. OfOpen(max, w, m, g, new)
    <3> SUFFICES ASSUME g \in 0..w PROVE /\ m >= 1 /\ Done(new, w, w + 1) <= 2 * max - 2 + Charged(max, m)
                                         /\ Done(new, w, g) <= Charged(max, m) - 1
      BY DEF OfOpen
    <3>1. n >= 1 /\ Done(by, w, w + 1) <= 2 * max - 2 + Charged(max, n) /\ Done(by, w, g) <= Charged(max, n) - 1
      BY <1>6 DEF Owing, OfOpen
    <3>2. Done(new, w, g) <= Done(by, w, g) + 1 /\ Done(by, w, g) \in Nat /\ Done(new, w, g) \in Nat
      <4>1. g = 0 \/ g \in 1..(w + 1)
        BY <1>1
      <4>2. Done(by, w, g) \in Nat
        BY <1>1, SumsOfWindow
      <4> QED BY <1>2, <1>4, <4>1, <4>2
    <3> QED BY <1>1, <1>4, <1>5, <1>6, <2>1, <3>1, <3>2
  <2>5. ASSUME auto PROVE OfAnswered(max, w, m, g, new)
    <3> SUFFICES ASSUME g \in 0..w PROVE 2 * Done(new, w, g + 1) >= IF m < max THEN m ELSE max - 1
      BY DEF OfAnswered
    <3>1. 2 * Done(by, w, g + 1) + 1 >= n
      BY <1>6, <2>1, <2>5 DEF Owing, OfOwed
    <3>2. g + 1 \in 1..(w + 1) /\ g + 1 \in 0..(w + 1)
      BY <1>1
    <3>3. Done(new, w, g + 1) = Done(by, w, g + 1) + 1 /\ Done(by, w, g + 1) \in Nat
      BY <1>2, <3>2, SumsOfWindow
    <3> QED BY <1>1, <1>6, <3>1, <3>3
  <2> QED BY <1>3, <2>2, <2>3, <2>4, <2>5 DEF Books
<1>7. CASE ~(n < max) /\ f \in Nat /\ f > w /\ g = Unset /\ m = 1
  <2>1. Charged(max, m) = 1 /\ g \notin 0..w /\ g \notin Nat
    BY <1>1, <1>7 DEF Charged
  <2>2. Done(by, w, w + 1) <= Charged(max, n) - 1
    BY <1>7 DEF Owing, OfClosed
  <2>3. OfUnset(max, w, m, g, new)
    BY <1>1, <1>4, <1>5, <2>1, <2>2 DEF OfUnset
  <2> QED BY <1>3, <2>1, <2>3 DEF Books, OfOpen, OfClosed, OfAnswered
<1> QED BY <1>6, <1>7

(* A restart is refused.                                                   *)
LEMMA RestartRefused ==
  ASSUME NEW max, NEW w, NEW n, NEW f, NEW by, NEW auto, Numbers(max, w, n, f, by), Owing(max, w, n, f, by, auto),
         ~(n < max)
  PROVE  Books(max, w, n, f, by, auto)
<1>1. ASSUME max > 0, auto PROVE OfAnswered(max, w, n, f, by)
  <2> SUFFICES ASSUME f \in 0..w PROVE 2 * Done(by, w, f + 1) >= IF n < max THEN n ELSE max - 1
    BY DEF OfAnswered
  <2>1. 2 * Done(by, w, f + 1) + 1 >= max
    BY <1>1 DEF Owing, OfOwed, Charged
  <2>2. f + 1 \in 0..(w + 1) /\ max \in Nat /\ n \in Nat
    BY DEF Numbers
  <2>3. Done(by, w, f + 1) \in Nat
    BY <2>2, SumsOfWindow
  <2> QED BY <2>1, <2>2, <2>3
<1> QED BY <1>1 DEF Books, Owing
Bookkept(s) == Books(config[s].max, config[s].window, failures[s], first[s], recent[s], AutoRestarts(s))
ServiceInv == TypeOK /\ \A s \in Services : Bookkept(s)

LEMMA BooksAreTyped ==
  ASSUME TypeOK, NEW s \in Services
  PROVE  /\ config[s] \in Configs /\ config[s].max \in Nat /\ config[s].window \in 0..MaxWindow /\ config[s].window \in Nat
         /\ failures[s] \in Nat /\ first[s] \in Nat \cup {Unset} /\ recent[s] \in [Ages -> Nat]
         /\ Numbers(config[s].max, config[s].window, failures[s], first[s], recent[s])
<1>1. /\ config[s] \in Configs /\ failures[s] \in Nat /\ recent[s] \in [Ages -> Nat]
      /\ first[s] = Unset \/ first[s] \in 0..(MaxWindow + 1)
  BY DEF TypeOK
<1>2. config[s].max \in Nat /\ config[s].window \in 0..MaxWindow /\ config[s].window \in Nat /\ MaxWindow \in Nat
  BY <1>1, ServiceNumbers
<1>3. CountsIn(recent[s], config[s].window + 1)
  <2>1. \A a \in 0..(config[s].window + 1 - 1) : a \in Ages
    BY <1>2 DEF Ages
  <2> QED BY <1>1, <1>2, <2>1 DEF CountsIn
<1> QED BY <1>1, <1>2, <1>3 DEF Numbers

LEMMA ServiceStart == Init => ServiceInv
<1> SUFFICES ASSUME Init PROVE ServiceInv
  OBVIOUS
<1>1. (CHOOSE c \in Configs : TRUE) \in Configs
  BY ServiceNumbers
<1>2. TypeOK
  <2>1. recent \in [Services -> [Ages -> Nat]]
    BY DEF Init, NoRestarts
  <2>2. state \in [Services -> States] /\ health \in [Services -> Health] /\ failures \in [Services -> Nat]
    BY DEF Init, States, Health
  <2>3. config \in [Services -> Configs]
    BY <1>1 DEF Init
  <2> QED BY <2>1, <2>2, <2>3 DEF Init, TypeOK
<1>3. ASSUME NEW s \in Services PROVE Bookkept(s)
  <2>1. failures[s] = 0 /\ first[s] = Unset /\ \A a \in Ages : recent[s][a] = 0
    BY <1>3 DEF Init, NoRestarts
  <2>2. config[s].max \in Nat /\ config[s].window \in Nat /\ \A a \in 0..config[s].window : a \in Ages
    BY <1>2, <1>3, BooksAreTyped, ServiceNumbers DEF Ages
  <2> QED BY <2>1, <2>2, BooksStart DEF Bookkept
<1> QED BY <1>2, <1>3 DEF ServiceInv

(* A step in the books of one service, and one in nobody's.                *)
LEMMA OneServiceMoves ==
  ASSUME ServiceInv, TypeOK', NEW s \in Services, Bookkept(s)',
         \A t \in Services \ {s} : /\ config'[t] = config[t] /\ failures'[t] = failures[t]
                                   /\ first'[t] = first[t] /\ recent'[t] = recent[t]
  PROVE  ServiceInv'
<1>1. ASSUME NEW t \in Services \ {s} PROVE Bookkept(t)'
  <2>1. Bookkept(t)
    BY DEF ServiceInv
  <2> QED BY <1>1, <2>1 DEF Bookkept, AutoRestarts
<1> QED BY <1>1 DEF ServiceInv

LEMMA NoServiceMoves ==
  ASSUME ServiceInv, TypeOK', UNCHANGED <<config, failures, first, recent>>
  PROVE  ServiceInv'
<1>1. ASSUME NEW t \in Services PROVE Bookkept(t)'
  <2>1. Bookkept(t)
    BY DEF ServiceInv
  <2> QED BY <2>1 DEF Bookkept, AutoRestarts
<1> QED BY <1>1 DEF ServiceInv

(* ozayn_svc_lc_restart, with the failure that asks for it counted or not. *)
LEMMA RestartWithHolds ==
  ASSUME ServiceInv, NEW s \in Services, NEW n \in Nat, NEW f, NEW sick \in Health,
         f = Unset \/ f \in 0..(MaxWindow + 1),
         Owing(config[s].max, config[s].window, n, f, recent[s], AutoRestarts(s)),
         RestartWith(s, n, f, sick), UNCHANGED <<config, groups>>
  PROVE  ServiceInv'
<1>1. PICK max, w, by, auto : max = config[s].max /\ w = config[s].window /\ by = recent[s] /\ auto = AutoRestarts(s)
  OBVIOUS
<1>2. TypeOK
  BY DEF ServiceInv
<1>3. max \in Nat /\ w \in 0..MaxWindow /\ w \in Nat /\ by \in [Ages -> Nat] /\ MaxWindow \in Nat /\ Unset \notin Nat
  BY <1>1, <1>2, BooksAreTyped, ServiceNumbers
<1>4. Numbers(max, w, n, f, by) /\ Owing(max, w, n, f, by, auto)
  <2>1. CountsIn(by, w + 1)
    BY <1>1, <1>2, BooksAreTyped DEF Numbers
  <2>2. f \in Nat \cup {Unset}
    BY <1>3
  <2> QED BY <1>1, <1>3, <2>1, <2>2 DEF Numbers
<1>5. /\ state \in [Services -> States] /\ health \in [Services -> Health] /\ config \in [Services -> Configs]
      /\ failures \in [Services -> Nat] /\ recent \in [Services -> [Ages -> Nat]]
      /\ first \in [Services -> {Unset} \cup 0..(MaxWindow + 1)] /\ groups \in [Groups -> {Unset} \cup SUBSET Services]
  BY <1>2 DEF TypeOK
<1>6. \A t \in Services \ {s} : config'[t] = config[t]
  OBVIOUS
<1>7. CASE CanRestart(s, n, f)
  <2> DEFINE limited == max > 0 /\ n >= max
  <2>1. PICK m, g : m = Capped(s, (IF limited THEN 0 ELSE n) + 1) /\ g = IF limited THEN Unset ELSE f
    OBVIOUS
  <2>2. PICK new : new = [by EXCEPT ![0] = IF by[0] > 3 * max THEN by[0] ELSE by[0] + 1]
    OBVIOUS
  <2>3. /\ state' = [state EXCEPT ![s] = "RUNNING"] /\ health' = [health EXCEPT ![s] = "HEALTHY"]
        /\ failures' = [failures EXCEPT ![s] = m]
        /\ recent' = [recent EXCEPT ![s] = new]
    BY <1>1, <1>7, <2>1, <2>2 DEF RestartWith
  <2>4. first' = [first EXCEPT ![s] = g]
    BY <1>1, <1>7, <2>1 DEF RestartWith
  <2>5. m \in Nat /\ (g = Unset \/ g \in 0..(MaxWindow + 1))
    BY <1>1, <1>3, <2>1 DEF Capped
  <2>6. 0 \in Ages /\ by[0] \in Nat /\ new \in [Ages -> Nat] /\ \A a \in 0..w : a # 0 => new[a] = by[a]
    <3>1. 0 \in Ages /\ \A a \in 0..w : a \in Ages
      BY <1>3 DEF Ages
    <3>2. by[0] \in Nat
      BY <1>3, <3>1
    <3> QED BY <1>3, <2>2, <3>1, <3>2
  <2>7. TypeOK'
    <3>1. state' \in [Services -> States] /\ health' \in [Services -> Health] /\ failures' \in [Services -> Nat]
      BY <1>5, <2>3, <2>5 DEF States, Health
    <3>2. recent' \in [Services -> [Ages -> Nat]]
      BY <1>5, <2>3, <2>6
    <3>3. first' \in [Services -> {Unset} \cup 0..(MaxWindow + 1)]
      BY <1>5, <2>4, <2>5
    <3> QED BY <1>5, <3>1, <3>2, <3>3 DEF TypeOK
  <2>8. /\ config'[s] = config[s] /\ failures'[s] = m /\ first'[s] = g /\ recent'[s] = new
        /\ \A t \in Services \ {s} : failures'[t] = failures[t] /\ first'[t] = first[t] /\ recent'[t] = recent[t]
    BY <1>5, <2>3, <2>4
  <2>9. Books(max, w, m, g, new, auto)
    <3>1. CASE ~(max > 0)
      BY <3>1 DEF Books
    <3>2. CASE max > 0
      <4>1. Done(by, w, w + 1) <= 3 * max - 2
        <5>1. Books(max, w, n, f, by, FALSE)
          BY <1>4 DEF Owing, Books
        <5> QED BY <1>4, <3>2, <5>1, BooksBound
      <4>2. by[0] <= Done(by, w, w + 1)
        <5>1. CountsIn(by, w + 1) /\ 0 \in 0..(w + 1 - 1) /\ 1 \in 0..(w + 1) /\ w + 1 \in 0..(w + 1) /\ 1 <= w + 1
          BY <1>3, <1>4 DEF Numbers
        <5>2. Total(by, w + 1, 0 + 1) = Total(by, w + 1, 0) + by[0] /\ Total(by, w + 1, 0) = 0
          BY <5>1, TotalIs
        <5>3. Total(by, w + 1, 1) <= Total(by, w + 1, w + 1)
          BY <5>1, SumsGrow
        <5> QED BY <2>6, <5>2, <5>3 DEF Done
      <4>3. Done(by, w, w + 1) \in Nat
        <5>1. w + 1 \in 0..(w + 1)
          BY <1>3
        <5> QED BY <1>4, <5>1, SumsOfWindow
      <4>4. new[0] = by[0] + 1
        <5>1. ~(by[0] > 3 * max)
          BY <1>3, <2>6, <4>1, <4>2, <4>3
        <5> QED BY <1>3, <2>2, <2>6, <5>1
      <4>5. \/ n < max /\ g = f /\ m = n + 1
            \/ ~(n < max) /\ f \in Nat /\ f > w /\ g = Unset /\ m = 1
        <5>1. n < max \/ (f # Unset /\ f > w)
          BY <1>1, <1>3, <1>7, <3>2 DEF CanRestart, WindowOver
        <5>2. CASE n < max
          BY <1>1, <1>3, <2>1, <5>2 DEF Capped
        <5>3. CASE ~(n < max)
          BY <1>1, <1>3, <2>1, <3>2, <5>1, <5>3 DEF Capped
        <5> QED BY <5>2, <5>3
      <4> QED BY <1>4, <2>6, <3>2, <4>4, <4>5, RestartCharged
    <3> QED BY <3>1, <3>2
  <2>10. Bookkept(s)'
    BY <1>1, <2>8, <2>9 DEF Bookkept, AutoRestarts
  <2> QED BY <1>6, <2>7, <2>8, <2>10, OneServiceMoves
<1>8. CASE ~CanRestart(s, n, f)
  <2>1. /\ state' = [state EXCEPT ![s] = "FAILED"] /\ health' = [health EXCEPT ![s] = sick]
        /\ failures' = [failures EXCEPT ![s] = n] /\ first' = [first EXCEPT ![s] = f] /\ recent' = recent
    BY <1>8 DEF RestartWith
  <2>2. TypeOK'
    <3>1. "FAILED" \in States
      BY DEF States
    <3> QED BY <1>5, <2>1, <3>1 DEF TypeOK
  <2>3. /\ config'[s] = config[s] /\ failures'[s] = n /\ first'[s] = f /\ recent'[s] = by
        /\ \A t \in Services \ {s} : failures'[t] = failures[t] /\ first'[t] = first[t] /\ recent'[t] = recent[t]
    BY <1>1, <1>5, <2>1
  <2>4. Books(max, w, n, f, by, auto)
    <3>1. ~(n < max)
      BY <1>1, <1>8 DEF CanRestart
    <3> QED BY <1>4, <3>1, RestartRefused
  <2>5. Bookkept(s)'
    BY <1>1, <2>3, <2>4 DEF Bookkept, AutoRestarts
  <2> QED BY <1>6, <2>2, <2>3, <2>5, OneServiceMoves
<1> QED BY <1>7, <1>8

LEMMA RegisterHolds ==
  ASSUME ServiceInv, NEW s \in Services, NEW c \in Configs, Register(s, c)
  PROVE  ServiceInv'
<1>1. TypeOK
  BY DEF ServiceInv
<1>2. TypeOK'
  <2>1. NoRestarts \in [Ages -> Nat]
    BY DEF NoRestarts
  <2>2. "REGISTERED" \in States /\ "UNKNOWN" \in Health
    BY DEF States, Health
  <2> QED BY <1>1, <2>1, <2>2 DEF TypeOK, Register
<1>3. /\ config'[s] = c /\ failures'[s] = 0 /\ first'[s] = Unset /\ recent'[s] = NoRestarts
      /\ \A t \in Services \ {s} : /\ config'[t] = config[t] /\ failures'[t] = failures[t]
                                   /\ first'[t] = first[t] /\ recent'[t] = recent[t]
  BY <1>1 DEF TypeOK, Register
<1>4. Bookkept(s)'
  <2>1. c.max \in Nat /\ c.window \in Nat /\ \A a \in 0..c.window : a \in Ages
    BY ServiceNumbers DEF Ages
  <2>2. \A a \in 0..c.window : NoRestarts[a] = 0
    BY <2>1 DEF NoRestarts
  <2>3. Books(c.max, c.window, 0, Unset, NoRestarts, AutoRestarts(s)')
    BY <2>1, <2>2, BooksStart
  <2> QED BY <1>3, <2>3 DEF Bookkept
<1> QED BY <1>2, <1>3, <1>4, OneServiceMoves

LEMMA RestartHolds ==
  ASSUME ServiceInv, NEW s \in Services, Restart(s)
  PROVE  ServiceInv'
<1>1. TypeOK /\ Bookkept(s)
  BY DEF ServiceInv
<1>2. failures[s] \in Nat /\ first[s] \in {Unset} \cup 0..(MaxWindow + 1) /\ health[s] \in Health
  BY <1>1 DEF TypeOK
<1>3. Numbers(config[s].max, config[s].window, failures[s], first[s], recent[s])
  BY <1>1, BooksAreTyped
<1>4. Owing(config[s].max, config[s].window, failures[s], first[s], recent[s], AutoRestarts(s))
  BY <1>1, <1>3, BooksAreOwing DEF Bookkept
<1>5. RestartWith(s, failures[s], first[s], health[s]) /\ UNCHANGED <<config, groups>>
  BY DEF Restart
<1> QED BY <1>2, <1>4, <1>5, RestartWithHolds

(* What TurnUnhealthy counts, before it restarts the service or not.       *)
LEMMA UnhealthyCounted ==
  ASSUME ServiceInv, NEW s \in Services, NEW n, NEW f,
         n = (IF first[s] = Unset \/ WindowOver(s, first[s]) THEN 1 ELSE Capped(s, failures[s] + 1)),
         f = (IF first[s] = Unset \/ WindowOver(s, first[s]) THEN 0 ELSE first[s])
  PROVE  /\ n \in Nat /\ f \in 0..(MaxWindow + 1) /\ f \in 0..config[s].window
         /\ Numbers(config[s].max, config[s].window, n, f, recent[s])
         /\ Owing(config[s].max, config[s].window, n, f, recent[s], AutoRestarts(s))
<1>1. TypeOK /\ Bookkept(s)
  BY DEF ServiceInv
<1>2. PICK max, w : max = config[s].max /\ w = config[s].window
  OBVIOUS
<1>3. /\ failures[s] \in Nat /\ first[s] \in {Unset} \cup 0..(MaxWindow + 1) /\ max \in Nat /\ w \in 0..MaxWindow
      /\ MaxWindow \in Nat /\ Unset \notin Nat
  BY <1>1, <1>2, BooksAreTyped, ServiceNumbers DEF TypeOK
<1>4. Numbers(max, w, failures[s], first[s], recent[s]) /\ Books(max, w, failures[s], first[s], recent[s], AutoRestarts(s))
  BY <1>1, <1>2, BooksAreTyped DEF Bookkept
<1>5. \/ (first[s] = Unset \/ (first[s] \in Nat /\ first[s] > w)) /\ n = 1 /\ f = 0
      \/ first[s] \in 0..w /\ f = first[s] /\ n = IF failures[s] + 1 > max THEN max + 1 ELSE failures[s] + 1
  BY <1>2, <1>3 DEF WindowOver, Capped
<1>6. Numbers(max, w, n, f, recent[s]) /\ Owing(max, w, n, f, recent[s], AutoRestarts(s))
  BY <1>4, <1>5, FailureCounted
<1>7. n \in Nat /\ f \in 0..(MaxWindow + 1) /\ f \in 0..w
  BY <1>3, <1>5
<1> QED BY <1>2, <1>6, <1>7

LEMMA TurnUnhealthyHolds ==
  ASSUME ServiceInv, NEW s \in Services, TurnUnhealthy(s)
  PROVE  ServiceInv'
<1>1. PICK n, f : /\ n = (IF first[s] = Unset \/ WindowOver(s, first[s]) THEN 1 ELSE Capped(s, failures[s] + 1))
                  /\ f = (IF first[s] = Unset \/ WindowOver(s, first[s]) THEN 0 ELSE first[s])
  OBVIOUS
<1>2. /\ n \in Nat /\ f \in 0..(MaxWindow + 1)
      /\ Numbers(config[s].max, config[s].window, n, f, recent[s])
      /\ Owing(config[s].max, config[s].window, n, f, recent[s], AutoRestarts(s))
  BY <1>1, UnhealthyCounted
<1>3. "UNHEALTHY" \in Health /\ "FAILED" \in States
  BY DEF Health, States
<1>4. CASE AutoRestarts(s)
  <2>1. RestartWith(s, n, f, "UNHEALTHY") /\ UNCHANGED <<config, groups>>
    BY <1>1, <1>4 DEF TurnUnhealthy
  <2> QED BY <1>2, <1>3, <2>1, RestartWithHolds
<1>5. CASE ~AutoRestarts(s)
  <2>1. /\ state' = [state EXCEPT ![s] = "FAILED"] /\ health' = [health EXCEPT ![s] = "UNHEALTHY"]
        /\ failures' = [failures EXCEPT ![s] = n] /\ first' = [first EXCEPT ![s] = f]
        /\ UNCHANGED <<recent, config, groups>>
    BY <1>1, <1>5 DEF TurnUnhealthy
  <2>2. TypeOK
    BY DEF ServiceInv
  <2>3. TypeOK'
    BY <1>2, <1>3, <2>1, <2>2 DEF TypeOK
  <2>4. failures'[s] = n /\ first'[s] = f
    BY <2>1, <2>2 DEF TypeOK
  <2>5. Bookkept(s)'
    BY <1>2, <1>5, <2>1, <2>4 DEF Bookkept, AutoRestarts, Books, Owing
  <2> QED BY <2>1, <2>3, <2>5, OneServiceMoves
<1> QED BY <1>4, <1>5

LEMMA ElapseHolds ==
  ASSUME ServiceInv, Elapse
  PROVE  ServiceInv'
<1>1. TypeOK /\ MaxWindow \in Nat /\ Unset \notin Nat
  BY ServiceNumbers DEF ServiceInv
<1>2. \A s \in Services : first'[s] = IF first[s] = Unset \/ first[s] > MaxWindow THEN first[s] ELSE first[s] + 1
  BY DEF Elapse
<1>3. \A s \in Services : recent'[s] = [a \in Ages |-> IF a = 0 THEN 0 ELSE recent[s][a - 1]]
  BY DEF Elapse
<1>4. TypeOK'
  <2>1. ASSUME NEW s \in Services PROVE first'[s] \in {Unset} \cup 0..(MaxWindow + 1)
    <3>1. first[s] \in {Unset} \cup 0..(MaxWindow + 1)
      BY <1>1 DEF TypeOK
    <3> QED BY <1>1, <1>2, <3>1
  <2>2. ASSUME NEW s \in Services PROVE recent'[s] \in [Ages -> Nat]
    <3>1. recent[s] \in [Ages -> Nat] /\ \A a \in Ages : a # 0 => a - 1 \in Ages
      BY <1>1 DEF TypeOK, Ages
    <3>2. \A a \in Ages : (IF a = 0 THEN 0 ELSE recent[s][a - 1]) \in Nat
      BY <3>1
    <3>3. recent'[s] = [a \in Ages |-> IF a = 0 THEN 0 ELSE recent[s][a - 1]]
      BY <1>3
    <3> QED BY <3>2, <3>3
  <2>3. first' \in [Services -> {Unset} \cup 0..(MaxWindow + 1)] /\ recent' \in [Services -> [Ages -> Nat]]
    BY <2>1, <2>2 DEF Elapse
  <2> QED BY <1>1, <2>3 DEF TypeOK, Elapse
<1>5. ASSUME NEW s \in Services PROVE Bookkept(s)'
  <2>1. PICK max, w, n, f, by, auto : /\ max = config[s].max /\ w = config[s].window /\ n = failures[s]
                                      /\ f = first[s] /\ by = recent[s] /\ auto = AutoRestarts(s)
    OBVIOUS
  <2>2. /\ f \in {Unset} \cup 0..(MaxWindow + 1) /\ w \in 0..MaxWindow
        /\ Numbers(max, w, n, f, by)
    BY <1>1, <2>1, BooksAreTyped DEF TypeOK
  <2>3. Books(max, w, n, f, by, auto)
    BY <2>1 DEF ServiceInv, Bookkept
  <2>4. PICK g, new : g = first'[s] /\ new = recent'[s]
    OBVIOUS
  <2>5. \/ f = Unset /\ g = Unset
        \/ f \in Nat /\ g = f + 1
        \/ f \in Nat /\ f > w /\ g = f
    BY <1>1, <1>2, <2>1, <2>2, <2>4
  <2>6. new[0] = 0 /\ \A a \in 0..w : a # 0 => new[a] = by[a - 1]
    <3>1. 0 \in Ages /\ \A a \in 0..w : a \in Ages
      BY <1>1, <2>2 DEF Ages
    <3> QED BY <1>3, <2>1, <2>4, <3>1
  <2>7. Books(max, w, n, g, new, auto)
    BY <2>2, <2>3, <2>5, <2>6, BooksElapse
  <2>8. config' = config /\ failures' = failures
    BY DEF Elapse
  <2> QED BY <2>1, <2>4, <2>7, <2>8 DEF Bookkept, AutoRestarts
<1> QED BY <1>4, <1>5 DEF ServiceInv

LEMMA ServiceStep == ServiceInv /\ [Next]_vars => ServiceInv'
<1> SUFFICES ASSUME ServiceInv, Next \/ UNCHANGED vars PROVE ServiceInv'
  OBVIOUS
<1>1. TypeOK
  BY DEF ServiceInv
<1>2. {"RUNNING", "STOPPED", "SUSPENDED", "UNREGISTERED"} \subseteq States /\ "HEALTHY" \in Health
  BY DEF States, Health
<1>3. ASSUME NEW S, StartAll(S) \/ StopAll(S), UNCHANGED groups PROVE ServiceInv'
  <2>1. state' \in [Services -> States] /\ health' \in [Services -> Health]
    <3>1. CASE StartAll(S)
      BY <1>1, <1>2, <3>1 DEF TypeOK, StartAll
    <3>2. CASE StopAll(S)
      BY <1>1, <1>2, <3>2 DEF TypeOK, StopAll
    <3> QED BY <1>3, <3>1, <3>2
  <2>2. UNCHANGED <<config, failures, first, groups, recent>>
    BY <1>3 DEF StartAll, StopAll
  <2> QED BY <1>1, <2>1, <2>2, NoServiceMoves DEF TypeOK
<1>4. ASSUME NEW s \in Services,
             Unregister(s) \/ Suspend(s) \/ Resume(s) \/ (\E h \in Health : NoteHealth(s, h)) \/ CheckAll
      PROVE  ServiceInv'
  <2>1. state' \in [Services -> States] /\ health' \in [Services -> Health]
    BY <1>1, <1>2, <1>4 DEF TypeOK, Unregister, Suspend, Resume, NoteHealth, CheckAll
  <2>2. UNCHANGED <<config, failures, first, groups, recent>>
    BY <1>4 DEF Unregister, Suspend, Resume, NoteHealth, CheckAll
  <2> QED BY <1>1, <2>1, <2>2, NoServiceMoves DEF TypeOK
<1>5. ASSUME NEW g \in Groups, GroupCreate(g) \/ \E s \in Services : GroupAdd(g, s) PROVE ServiceInv'
  <2>1. groups' \in [Groups -> {Unset} \cup SUBSET Services]
    <3>1. CASE GroupCreate(g)
      BY <1>1, <3>1 DEF TypeOK, GroupCreate
    <3>2. ASSUME NEW s \in Services, GroupAdd(g, s) PROVE groups' \in [Groups -> {Unset} \cup SUBSET Services]
      <4>1. groups[g] \in SUBSET Services /\ groups' = [groups EXCEPT ![g] = groups[g] \cup {s}]
        BY <1>1, <3>2 DEF TypeOK, GroupAdd
      <4> QED BY <1>1, <4>1 DEF TypeOK
    <3> QED BY <1>5, <3>1, <3>2
  <2>2. UNCHANGED svcVars
    BY <1>5 DEF GroupCreate, GroupAdd
  <2> QED BY <1>1, <2>1, <2>2, NoServiceMoves DEF TypeOK, svcVars
<1>6. CASE CheckAll
  <2>1. health' \in [Services -> Health] /\ UNCHANGED <<state, config, failures, first, groups, recent>>
    BY <1>1, <1>2, <1>6 DEF TypeOK, CheckAll
  <2> QED BY <1>1, <2>1, NoServiceMoves DEF TypeOK
<1>7. CASE UNCHANGED vars
  BY <1>1, <1>7, NoServiceMoves DEF vars, svcVars, TypeOK
<1>8. ASSUME NEW s \in Services, Start(s) \/ Stop(s) PROVE ServiceInv'
  BY <1>3, <1>8 DEF Start, Stop, StartAll, StopAll
<1>9. ASSUME NEW g \in Groups, GroupStart(g) \/ GroupStop(g) PROVE ServiceInv'
  BY <1>3, <1>9 DEF GroupStart, GroupStop, StartAll, StopAll
<1> QED
  BY <1>4, <1>5, <1>6, <1>7, <1>8, <1>9, RegisterHolds, RestartHolds, TurnUnhealthyHolds, ElapseHolds DEF Next

LEMMA RestartsAreSummed ==
  ASSUME TypeOK, NEW s \in Services
  PROVE  RestartsWithin(s, config[s].window) = Done(recent[s], config[s].window, config[s].window + 1)
BY DEF RestartsWithin, Done, Total, Adds

LEMMA BooksLimit == ServiceInv => RestartsLimited
<1> SUFFICES ASSUME ServiceInv, NEW s \in Services, config[s].max > 0
             PROVE  RestartsWithin(s, config[s].window) <= 3 * config[s].max - 2
  BY DEF RestartsLimited
<1>1. TypeOK /\ Bookkept(s)
  BY DEF ServiceInv
<1>2. Numbers(config[s].max, config[s].window, failures[s], first[s], recent[s])
  BY <1>1, BooksAreTyped
<1> QED BY <1>1, <1>2, BooksBound, RestartsAreSummed DEF Bookkept

(* An unhealthy service that is restarted on reports is given up no sooner *)
(* than half of its budget was restarts of the window                      *)
(* (service_lifecycle.c:340), for any services, budgets, windows and       *)
(* groups.                                                                 *)
THEOREM HalfBudgetHolds == MCSpec => HalfBudgetAvailable
<1> DEFINE GivenUp(s) ==
      /\ AutoRestarts(s) /\ Failing(s, "UNHEALTHY")
      /\ health'[s] = "UNHEALTHY" /\ state'[s] = "FAILED"
      => 2 * RestartsWithin(s, config[s].window) + 1 >= config[s].max
<1>1. ASSUME ServiceInv, Next, NEW s \in Services PROVE GivenUp(s)
  <2> SUFFICES ASSUME AutoRestarts(s), Failing(s, "UNHEALTHY"), health'[s] = "UNHEALTHY", state'[s] = "FAILED"
               PROVE  2 * RestartsWithin(s, config[s].window) + 1 >= config[s].max
    OBVIOUS
  <2>1. TypeOK /\ health[s] # "UNHEALTHY" /\ state[s] = "RUNNING"
    BY <1>1 DEF ServiceInv, Failing
  <2>2. TurnUnhealthy(s)
    <3>1. /\ state \in [Services -> States] /\ health \in [Services -> Health]
      BY <2>1 DEF TypeOK
    <3>2. ASSUME NEW t \in Services, \E c \in Configs : Register(t, c) PROVE FALSE
      BY <2>1, <3>1, <3>2 DEF Register, Registered
    <3>3. ASSUME NEW t \in Services, Unregister(t) \/ Suspend(t) \/ Resume(t) PROVE FALSE
      BY <2>1, <3>1, <3>3 DEF Unregister, Suspend, Resume
    <3>4. ASSUME NEW S, StartAll(S) \/ StopAll(S) PROVE FALSE
      BY <2>1, <3>1, <3>4 DEF StartAll, StopAll
    <3>5. ASSUME NEW t \in Services, Restart(t) PROVE FALSE
      BY <2>1, <3>1, <3>5 DEF Restart, RestartWith
    <3>6. ASSUME NEW t \in Services, NEW h \in Health, NoteHealth(t, h) PROVE FALSE
      BY <2>1, <3>1, <3>6 DEF NoteHealth, Failing
    <3>7. ASSUME CheckAll \/ Elapse PROVE FALSE
      BY <2>1, <3>1, <3>7 DEF CheckAll, Elapse
    <3>8. ASSUME NEW g \in Groups, GroupCreate(g) \/ \E t \in Services : GroupAdd(g, t) PROVE FALSE
      BY <2>1, <3>1, <3>8 DEF GroupCreate, GroupAdd, svcVars
    <3>9. ASSUME NEW t \in Services, TurnUnhealthy(t) PROVE t = s
      <4>1. CASE AutoRestarts(t)
        BY <2>1, <3>1, <3>9, <4>1 DEF TurnUnhealthy, RestartWith
      <4>2. CASE ~AutoRestarts(t)
        BY <2>1, <3>1, <3>9, <4>2 DEF TurnUnhealthy
      <4> QED BY <4>1, <4>2
    <3> QED
      BY <1>1, <3>2, <3>3, <3>4, <3>5, <3>6, <3>7, <3>8, <3>9 DEF Next, Start, Stop, GroupStart, GroupStop
  <2>3. PICK n, f : /\ n = (IF first[s] = Unset \/ WindowOver(s, first[s]) THEN 1 ELSE Capped(s, failures[s] + 1))
                    /\ f = (IF first[s] = Unset \/ WindowOver(s, first[s]) THEN 0 ELSE first[s])
    OBVIOUS
  <2>4. PICK max, w, by : max = config[s].max /\ w = config[s].window /\ by = recent[s]
    OBVIOUS
  <2>5. /\ n \in Nat /\ f \in 0..w /\ Numbers(max, w, n, f, by) /\ Owing(max, w, n, f, by, AutoRestarts(s))
    BY <1>1, <2>3, <2>4, UnhealthyCounted
  <2>6. max \in Nat /\ w \in Nat
    BY <2>5 DEF Numbers
  <2>7. RestartWith(s, n, f, "UNHEALTHY")
    BY <2>2, <2>3 DEF TurnUnhealthy
  <2>8. ~CanRestart(s, n, f)
    BY <2>1, <2>7 DEF RestartWith, TypeOK
  <2>9. max > 0 /\ ~(n < max)
    BY <2>4, <2>6, <2>8 DEF CanRestart
  <2>10. 2 * Done(by, w, f + 1) + 1 >= max
    BY <2>5, <2>9 DEF Owing, OfOwed, Charged
  <2>11. f + 1 \in 0..(w + 1) /\ w + 1 \in 0..(w + 1) /\ f + 1 <= w + 1
    BY <2>5, <2>6
  <2>12. Done(by, w, f + 1) <= Done(by, w, w + 1) /\ Done(by, w, f + 1) \in Nat /\ Done(by, w, w + 1) \in Nat
    BY <2>5, <2>11, SumsOfWindow
  <2>13. RestartsWithin(s, config[s].window) = Done(by, w, w + 1)
    BY <2>1, <2>4, RestartsAreSummed
  <2> QED BY <2>4, <2>6, <2>10, <2>12, <2>13
<1>2. MCInit => ServiceInv
  BY ServiceStart DEF MCInit
<1>3. [MCNext]_MCVars => [Next]_vars
  BY DEF MCNext, MCVars
<1>4. ServiceInv /\ [MCNext]_MCVars => ServiceInv'
  BY <1>3, ServiceStep
<1> DEFINE Step == \A s \in Services : GivenUp(s)
<1>5. ServiceInv /\ [Next]_vars => [Step]_vars
  BY <1>1
<1> HIDE DEF Step
<1>6. MCSpec => [][Step]_vars
  BY <1>2, <1>3, <1>4, <1>5, MCSteps, PTL DEF MCVars, vars, svcVars
<1> QED BY <1>6 DEF Step, HalfBudgetAvailable

-----------------------------------------------------------------------------
(* The account a slot of the crash-loop detector keeps of its grants.      *)

Units == CrashWindow + 1
Granting == [GrantAges -> 0..MaxCrashRestarts]
ChargedFor(f) == IF f < MaxFailures THEN f ELSE MaxFailures - 1
Granted(g, n) == Total(g, Units, n)

(* A grant is one of the failures charged to the present window, or one of *)
(* those that the window before it could be charged.                       *)
Accounted(f, s, r, g) ==
  /\ \A a \in GrantAges : g[a] <= r
  /\ Granted(g, Units) <= MaxFailures - 1 + ChargedFor(f)
  /\ Granted(g, s) <= ChargedFor(f)

LEMMA ChargesAre ==
  /\ \A f \in 0..MaxFailures : ChargedFor(f) \in Nat /\ ChargedFor(f) <= MaxFailures - 1 /\ ChargedFor(f) <= f
  /\ \A f \in 0..MaxFailures : f < MaxFailures => ChargedFor(f) = f
  /\ \A f, e \in 0..MaxFailures : f <= e => ChargedFor(f) <= ChargedFor(e)
  /\ Units \in Nat \ {0} /\ GrantAges = 0..(Units - 1) /\ 0 \in GrantAges /\ Units \in 0..Units
BY CrashLimits DEF ChargedFor, Units, GrantAges

LEMMA GrantsAdd ==
  ASSUME NEW g \in Granting
  PROVE  CountsIn(g, Units) /\ Granted(g, 0) = 0 /\ \A n \in 0..Units : Granted(g, n) \in Nat
<1>1. CountsIn(g, Units)
  BY ChargesAre DEF Granting, CountsIn
<1> QED BY <1>1, TotalIs DEF Granted

LEMMA NothingGranted ==
  ASSUME NEW r \in 0..MaxCrashRestarts
  PROVE  NoGrants \in Granting /\ Accounted(0, 0, r, NoGrants)
<1>1. \A a \in GrantAges : NoGrants[a] = 0
  BY DEF NoGrants
<1>2. NoGrants \in Granting
  BY CrashLimits DEF NoGrants, Granting
<1>3. Units \in Nat /\ \A a \in 0..(Units - 1) : NoGrants[a] = 0
  BY <1>1, ChargesAre
<1>4. \A n \in 0..Units : Granted(NoGrants, n) = 0
  BY <1>3, SumsNone DEF Granted
<1>5. Granted(NoGrants, Units) = 0 /\ Granted(NoGrants, 0) = 0
  BY <1>4, ChargesAre
<1>6. ChargedFor(0) \in Nat /\ MaxFailures - 1 \in Nat
  BY ChargesAre, CrashLimits
<1> QED BY <1>1, <1>2, <1>5, <1>6 DEF Accounted

(* A failure that is counted, and the restart it is granted when neither   *)
(* the window nor the restarts are used up.                                *)
LEMMA CountedKeepsAccount ==
  ASSUME NEW f \in 0..MaxFailures, NEW s \in 0..Units, NEW r \in 0..MaxCrashRestarts, NEW g \in Granting,
         Accounted(f, s, r, g),
         NEW e, e = (IF s > CrashWindow THEN 1 ELSE f + 1),
         NEW t, t = (IF s > CrashWindow THEN 0 ELSE s)
  PROVE  /\ Accounted(IF e > MaxFailures THEN MaxFailures ELSE e, t, r, g)
         /\ e < MaxFailures /\ r < MaxCrashRestarts =>
              \A h : h = [g EXCEPT ![0] = @ + 1] => h \in Granting /\ Accounted(e, t, r + 1, h)
<1>1. /\ s \in Nat /\ s <= Units /\ Granted(g, s) \in Nat /\ Granted(g, Units) \in Nat /\ Granted(g, 0) = 0
      /\ Granted(g, s) <= ChargedFor(f) /\ Granted(g, Units) <= MaxFailures - 1 + ChargedFor(f)
      /\ Units = CrashWindow + 1 /\ CrashWindow \in Nat
  BY GrantsAdd, ChargesAre, CrashLimits DEF Accounted, Units
<1>2. /\ t \in 0..Units /\ e \in Nat /\ e >= 1 /\ Granted(g, t) \in Nat
      /\ \/ t = 0 /\ e = 1 /\ Granted(g, Units) <= ChargedFor(f) /\ Granted(g, t) = 0
         \/ t = s /\ e = f + 1
  <2>1. CASE s > CrashWindow
    <3>1. s = Units /\ t = 0 /\ e = 1 /\ 0 \in 0..Units
      BY <1>1, <2>1
    <3> QED BY <1>1, <3>1
  <2>2. CASE ~(s > CrashWindow)
    BY <1>1, <2>2
  <2> QED BY <2>1, <2>2
<1>3. /\ f \in Nat /\ f <= MaxFailures /\ MaxFailures \in Nat /\ MaxFailures >= 1
      /\ ChargedFor(f) \in Nat /\ ChargedFor(f) <= MaxFailures - 1 /\ ChargedFor(f) <= f
  BY ChargesAre, CrashLimits
<1>4. Accounted(IF e > MaxFailures THEN MaxFailures ELSE e, t, r, g)
  <2>1. PICK m : m = IF e > MaxFailures THEN MaxFailures ELSE e
    OBVIOUS
  <2>2. m \in 0..MaxFailures /\ (e = f + 1 => f <= m)
    BY <1>2, <1>3, <2>1
  <2>3. ChargedFor(m) \in Nat /\ (e = f + 1 => ChargedFor(f) <= ChargedFor(m))
    BY <2>2, ChargesAre
  <2>4. Granted(g, Units) <= MaxFailures - 1 + ChargedFor(m) /\ Granted(g, t) <= ChargedFor(m)
    BY <1>1, <1>2, <1>3, <2>3
  <2> QED BY <2>1, <2>4 DEF Accounted
<1>5. ASSUME e < MaxFailures, r < MaxCrashRestarts, NEW h, h = [g EXCEPT ![0] = @ + 1]
      PROVE  h \in Granting /\ Accounted(e, t, r + 1, h)
  <2>1. DOMAIN g = GrantAges /\ 0 \in GrantAges /\ \A a \in GrantAges : g[a] \in Nat /\ g[a] <= r
    BY ChargesAre DEF Accounted, Granting
  <2>2. h = [a \in GrantAges |-> h[a]] /\ h[0] = g[0] + 1 /\ \A a \in GrantAges : a # 0 => h[a] = g[a]
    BY <1>5, <2>1
  <2>3. \A a \in GrantAges : h[a] \in Nat /\ h[a] <= r + 1
    BY <2>1, <2>2
  <2>4. r + 1 <= MaxCrashRestarts
    BY <1>5, CrashLimits
  <2>5. h \in Granting
    <3>1. \A a \in GrantAges : h[a] \in 0..MaxCrashRestarts
      BY <2>3, <2>4, CrashLimits
    <3> QED BY <2>2, <3>1 DEF Granting
  <2>6. \A n \in 1..Units : Granted(h, n) = Granted(g, n) + 1
    <3>1. PICK u : u = Units
      OBVIOUS
    <3>2. CountsIn(g, u)
      BY <3>1, GrantsAdd
    <3>3. u >= 1 /\ h[0] = g[0] + 1 /\ \A a \in 0..(u - 1) : a # 0 => h[a] = g[a]
      BY <2>2, <3>1, ChargesAre
    <3>4. \A n \in 1..u : Total(h, u, n) = Total(g, u, n) + 1
      BY <3>2, <3>3, SumsMore
    <3> QED BY <3>1, <3>4 DEF Granted
  <2>7. ChargedFor(e) = e
    BY <1>5 DEF ChargedFor
  <2>8. Granted(h, Units) = Granted(g, Units) + 1
    BY <2>6, ChargesAre
  <2>9. Granted(h, t) <= e
    <3>1. CASE t = 0
      BY <1>2, <2>5, <3>1, GrantsAdd
    <3>2. CASE t # 0
      <4>1. t \in 1..Units /\ t = s /\ e = f + 1
        BY <1>2, <3>2
      <4> QED BY <1>1, <1>3, <2>6, <4>1
    <3> QED BY <3>1, <3>2
  <2>10. Granted(h, Units) <= MaxFailures - 1 + e
    BY <1>1, <1>2, <1>3, <2>8
  <2> QED BY <2>3, <2>5, <2>7, <2>9, <2>10 DEF Accounted
<1> QED BY <1>4, <1>5

(* A unit of time passes.                                                  *)
LEMMA ElapseKeepsAccount ==
  ASSUME NEW f \in 0..MaxFailures, NEW s \in 0..Units, NEW r \in 0..MaxCrashRestarts, NEW g \in Granting,
         Accounted(f, s, r, g),
         NEW h, h = [a \in GrantAges |-> IF a = 0 THEN 0 ELSE g[a - 1]]
  PROVE  h \in Granting /\ Accounted(f, IF s > CrashWindow THEN s ELSE s + 1, r, h)
<1>1. /\ s \in Nat /\ s <= Units /\ Granted(g, s) \in Nat /\ Granted(g, Units) \in Nat
      /\ Granted(g, s) <= ChargedFor(f) /\ Granted(g, Units) <= MaxFailures - 1 + ChargedFor(f)
      /\ Units = CrashWindow + 1 /\ CrashWindow \in Nat /\ r \in Nat
  BY GrantsAdd, ChargesAre, CrashLimits DEF Accounted, Units
<1>2. /\ GrantAges = 0..(Units - 1) /\ Units \in Nat /\ Units >= 1
      /\ \A a \in GrantAges : a # 0 => a - 1 \in GrantAges
  BY ChargesAre
<1>3. h[0] = 0 /\ \A a \in GrantAges : a # 0 => h[a] = g[a - 1]
  BY <1>2
<1>4. \A a \in GrantAges : g[a] \in 0..MaxCrashRestarts /\ g[a] <= r
  BY DEF Accounted, Granting
<1>5. \A a \in GrantAges : h[a] \in 0..MaxCrashRestarts /\ h[a] <= r
  BY <1>1, <1>2, <1>3, <1>4, CrashLimits
<1>6. h \in Granting
  BY <1>5 DEF Granting
<1>7. CountsIn(g, Units)
  BY GrantsAdd
<1>8. \A n \in 0..(Units - 1) : Granted(h, n + 1) = Granted(g, n)
  <2>1. PICK u : u = Units
    OBVIOUS
  <2>2. CountsIn(g, u)
    BY <1>7, <2>1
  <2>3. u >= 1 /\ h[0] = 0 /\ \A a \in 0..(u - 1) : a # 0 => h[a] = g[a - 1]
    BY <1>2, <1>3, <2>1
  <2>4. \A n \in 0..(u - 1) : Total(h, u, n + 1) = Total(g, u, n)
    BY <2>2, <2>3, SumsShift
  <2> QED BY <2>1, <2>4 DEF Granted
<1>9. /\ CrashWindow \in 0..(Units - 1) /\ CrashWindow + 1 = Units /\ CrashWindow \in 0..Units /\ CrashWindow <= Units
      /\ Units \in 0..Units
  BY <1>1
<1>10. Granted(h, Units) = Granted(g, CrashWindow)
  BY <1>8, <1>9
<1>11. Granted(g, CrashWindow) <= Granted(g, Units) /\ Granted(g, CrashWindow) \in Nat
  BY <1>7, <1>9, SumsGrow, GrantsAdd DEF Granted
<1>12. ChargedFor(f) \in Nat /\ MaxFailures \in Nat
  BY ChargesAre, CrashLimits
<1>13. CASE s > CrashWindow
  <2>1. s = Units
    BY <1>1, <1>13
  <2>2. Granted(h, s) <= ChargedFor(f) /\ Granted(h, Units) <= MaxFailures - 1 + ChargedFor(f)
    BY <1>1, <1>10, <1>11, <1>12, <2>1
  <2> QED BY <1>5, <1>6, <1>13, <2>2 DEF Accounted
<1>14. CASE ~(s > CrashWindow)
  <2>1. s \in 0..(Units - 1)
    BY <1>1, <1>14
  <2>2. Granted(h, s + 1) <= ChargedFor(f)
    BY <1>1, <1>8, <2>1
  <2>3. Granted(h, Units) <= MaxFailures - 1 + ChargedFor(f)
    BY <1>1, <1>10, <1>11, <1>12
  <2> QED BY <1>5, <1>6, <1>14, <2>2, <2>3 DEF Accounted
<1> QED BY <1>13, <1>14
(* A name is active in one slot, and every slot's account is right.        *)
OneSlotEach ==
  \A i, j \in DOMAIN tracked :
    tracked[i].active /\ tracked[j].active /\ tracked[i].name = tracked[j].name => i = j
SlotAccounted(c, g) == g \in Granting /\ Accounted(c.failures, c.since, c.restarts, g)
CrashInv ==
  /\ Slots /\ Len(tracked) <= MaxComponents /\ OneSlotEach
  /\ granted \in Seq(Granting) /\ Len(granted) = Len(tracked)
  /\ \A i \in DOMAIN tracked : SlotAccounted(tracked[i], granted[i])

LEMMA CrashStart == CrashInit => CrashInv
<1> SUFFICES ASSUME CrashInit PROVE CrashInv
  OBVIOUS
<1>1. tracked = <<>> /\ granted = <<>>
  BY DEF CrashInit
<1> QED BY <1>1, CrashAssumption DEF CrashInv, Slots, OneSlotEach

LEMMA CrashSlots ==
  ASSUME CrashInv
  PROVE  /\ tracked \in Seq(Component) /\ Len(tracked) \in Nat /\ DOMAIN tracked = 1..Len(tracked)
         /\ granted \in Seq(Granting) /\ DOMAIN granted = DOMAIN tracked
         /\ \A i \in DOMAIN tracked : tracked[i] \in Component /\ granted[i] \in Granting
BY DEF CrashInv, Slots

(* One slot changes, and keeps its name.                                   *)
LEMMA OneSlotChanges ==
  ASSUME CrashInv, NEW i \in DOMAIN tracked, NEW d \in Component, NEW h \in Granting,
         tracked' = [tracked EXCEPT ![i] = d], granted' = [granted EXCEPT ![i] = h],
         d.name = tracked[i].name, d.active => tracked[i].active, SlotAccounted(d, h)
  PROVE  CrashInv'
<1>1. tracked' \in Seq(Component) /\ granted' \in Seq(Granting) /\ Len(tracked') = Len(tracked)
      /\ Len(granted') = Len(tracked) /\ DOMAIN tracked' = DOMAIN tracked
  BY CrashSlots DEF CrashInv
<1>2. \A j \in DOMAIN tracked : tracked'[j] = (IF j = i THEN d ELSE tracked[j])
                                /\ granted'[j] = (IF j = i THEN h ELSE granted[j])
  BY CrashSlots
<1>3. OneSlotEach'
  <2>1. \A j \in DOMAIN tracked : tracked'[j].name = tracked[j].name /\ (tracked'[j].active => tracked[j].active)
    BY <1>2
  <2> QED BY <1>1, <2>1 DEF CrashInv, OneSlotEach
<1>4. \A j \in DOMAIN tracked' : SlotAccounted(tracked[j], granted[j])
  BY <1>1 DEF CrashInv
<1>5. \A j \in DOMAIN tracked' : SlotAccounted(tracked'[j], granted'[j])
  BY <1>1, <1>2, <1>4
<1> QED BY <1>1, <1>3, <1>5 DEF CrashInv, Slots, SlotAccounted

LEMMA CrashRegistered ==
  ASSUME CrashInv, NEW n \in Components, RegisterComponent(n)
  PROVE  CrashInv'
<1> DEFINE c == NewComponent(n)
<1>1. c \in Component /\ c.name = n /\ c.failures = 0 /\ c.since = 0 /\ c.restarts = 0
  BY CrashLimits DEF NewComponent, Component
<1>2. /\ Len(tracked) < MaxComponents /\ SlotOf(n) = {}
      /\ tracked' = Append(tracked, c) /\ granted' = Append(granted, NoGrants)
  BY DEF RegisterComponent
<1> HIDE DEF c
<1>3. NoGrants \in Granting /\ Accounted(0, 0, 0, NoGrants)
  BY NothingGranted, CrashLimits
<1>4. SlotAccounted(c, NoGrants)
  BY <1>1, <1>3 DEF SlotAccounted
<1>5. /\ tracked' \in Seq(Component) /\ granted' \in Seq(Granting)
      /\ Len(tracked') = Len(tracked) + 1 /\ Len(granted') = Len(tracked) + 1
      /\ tracked'[Len(tracked) + 1] = c /\ granted'[Len(tracked) + 1] = NoGrants
      /\ \A j \in DOMAIN tracked : tracked'[j] = tracked[j] /\ granted'[j] = granted[j]
      /\ DOMAIN tracked' = 1..(Len(tracked) + 1)
  <2>1. Len(granted) = Len(tracked) /\ DOMAIN granted = 1..Len(tracked)
    BY CrashSlots DEF CrashInv
  <2> QED BY <1>1, <1>2, <1>3, <2>1, CrashSlots, AppendProperties
<1>6. \A j \in DOMAIN tracked' : j \in DOMAIN tracked \/ j = Len(tracked) + 1
  BY <1>5, CrashSlots
<1>7. OneSlotEach'
  <2>1. \A j \in DOMAIN tracked : ~(tracked[j].active /\ tracked[j].name = n)
    BY <1>2 DEF SlotOf
  <2>2. \A i, j \in DOMAIN tracked :
          tracked[i].active /\ tracked[j].active /\ tracked[i].name = tracked[j].name => i = j
    BY DEF CrashInv, OneSlotEach
  <2>3. ASSUME NEW i \in DOMAIN tracked', NEW j \in DOMAIN tracked',
               tracked'[i].active, tracked'[j].active, tracked'[i].name = tracked'[j].name
        PROVE  i = j
    BY <1>1, <1>5, <1>6, <2>1, <2>2, <2>3
  <2> QED BY <2>3 DEF OneSlotEach
<1>8. \A j \in DOMAIN tracked : SlotAccounted(tracked[j], granted[j])
  BY DEF CrashInv
<1>9. \A j \in DOMAIN tracked' : SlotAccounted(tracked'[j], granted'[j])
  BY <1>4, <1>5, <1>6, <1>8
<1>10. Len(tracked') <= MaxComponents
  BY <1>2, <1>5, CrashSlots, CrashAssumption
<1> QED BY <1>5, <1>7, <1>9, <1>10 DEF CrashInv, Slots, SlotAccounted

LEMMA CrashSetAside ==
  ASSUME CrashInv, NEW n \in Components, UnregisterComponent(n) \/ Recover(n) \/ QuarantineByHand(n)
  PROVE  CrashInv'
<1>1. granted = [i \in DOMAIN granted |-> granted[i]]
  BY CrashSlots
<1>2. \A i \in SlotOf(n) : i \in DOMAIN tracked
  BY DEF SlotOf
<1>3. ASSUME NEW i \in DOMAIN tracked
      PROVE  /\ tracked[i] \in Component /\ granted[i] \in Granting /\ SlotAccounted(tracked[i], granted[i])
             /\ granted = [granted EXCEPT ![i] = granted[i]]
  BY <1>1, CrashSlots DEF CrashInv
<1>4. ASSUME UnregisterComponent(n) PROVE CrashInv'
  <2>1. PICK i \in SlotOf(n) :
          tracked' = [tracked EXCEPT ![i] = [tracked[i] EXCEPT !.active = FALSE]] /\ granted' = granted
    BY <1>4 DEF UnregisterComponent
  <2>2. PICK c : c = tracked[i]
    OBVIOUS
  <2>3. PICK d : d = [c EXCEPT !.active = FALSE]
    OBVIOUS
  <2>4. d \in Component
    BY <1>2, <1>3, <2>2, <2>3, ChangesOfRecord
  <2>5. /\ d.name = c.name /\ (d.active => c.active) /\ d.failures = c.failures
        /\ d.since = c.since /\ d.restarts = c.restarts
    BY <1>2, <1>3, <2>2, <2>3 DEF Component
  <2>6. SlotAccounted(d, granted[i])
    BY <1>2, <1>3, <2>2, <2>5 DEF SlotAccounted
  <2>7. /\ i \in DOMAIN tracked /\ granted[i] \in Granting
        /\ tracked' = [tracked EXCEPT ![i] = d] /\ granted' = [granted EXCEPT ![i] = granted[i]]
    BY <1>2, <1>3, <2>1, <2>2, <2>3
  <2> QED BY <2>2, <2>4, <2>5, <2>6, <2>7, OneSlotChanges
<1>5. ASSUME Recover(n) PROVE CrashInv'
  <2>1. PICK i \in SlotOf(n) :
          tracked' = [tracked EXCEPT ![i] = Clean(tracked[i])] /\ granted' = [granted EXCEPT ![i] = NoGrants]
    BY <1>5 DEF Recover
  <2>2. PICK c, d : c = tracked[i] /\ d = Clean(tracked[i])
    OBVIOUS
  <2>3. c \in Component /\ d \in Component /\ Recounted(c, d, 0, 0, c.restarts)
    BY <1>2, <1>3, <2>2, ChangesOfRecord
  <2>4. NoGrants \in Granting /\ Accounted(0, 0, c.restarts, NoGrants)
    BY <2>3, RecordFields, NothingGranted
  <2>5. SlotAccounted(d, NoGrants)
    BY <2>3, <2>4 DEF SlotAccounted, Recounted
  <2> QED BY <1>2, <2>1, <2>2, <2>3, <2>4, <2>5, OneSlotChanges DEF Recounted
<1>6. ASSUME QuarantineByHand(n) PROVE CrashInv'
  <2>1. PICK i \in SlotOf(n) :
          tracked' = [tracked EXCEPT ![i] = Quarantined(tracked[i])] /\ granted' = granted
    BY <1>6 DEF QuarantineByHand
  <2>2. PICK c, d : c = tracked[i] /\ d = Quarantined(tracked[i])
    OBVIOUS
  <2>3. c \in Component /\ d \in Component /\ Recounted(c, d, c.failures, c.since, c.restarts)
    BY <1>2, <1>3, <2>2, ChangesOfRecord
  <2>4. SlotAccounted(d, granted[i])
    BY <1>2, <1>3, <2>2, <2>3 DEF SlotAccounted, Recounted
  <2>5. /\ i \in DOMAIN tracked /\ granted[i] \in Granting
        /\ tracked' = [tracked EXCEPT ![i] = d] /\ granted' = [granted EXCEPT ![i] = granted[i]]
    BY <1>2, <1>3, <2>1, <2>2
  <2> QED BY <2>2, <2>3, <2>4, <2>5, OneSlotChanges DEF Recounted
<1> QED BY <1>4, <1>5, <1>6

LEMMA CrashReportHolds ==
  ASSUME CrashInv, NEW n \in Components, ReportCrash(n)
  PROVE  CrashInv'
<1>1. PICK i \in SlotOf(n) :
        LET c == Counted(tracked[i])
        IN IF c.failures >= MaxFailures \/ c.restarts >= MaxCrashRestarts
           THEN /\ tracked' = [tracked EXCEPT
                      ![i] = Quarantined([c EXCEPT !.failures = IF @ > MaxFailures THEN MaxFailures ELSE @])]
                /\ granted' = granted
           ELSE /\ tracked' = [tracked EXCEPT ![i] = [c EXCEPT !.restarts = @ + 1]]
                /\ granted' = [granted EXCEPT ![i][0] = @ + 1]
  BY DEF ReportCrash
<1>2. i \in DOMAIN tracked /\ tracked[i] \in Component /\ granted[i] \in Granting
      /\ SlotAccounted(tracked[i], granted[i]) /\ granted = [granted EXCEPT ![i] = granted[i]]
  BY <1>1, CrashSlots DEF SlotOf, CrashInv
<1>3. PICK c, m, g : c = tracked[i] /\ m = Counted(c) /\ g = granted[i]
  OBVIOUS
<1>4. c \in Component /\ g \in Granting /\ Accounted(c.failures, c.since, c.restarts, g)
  BY <1>2, <1>3 DEF SlotAccounted
<1>5. /\ c.failures \in 0..MaxFailures /\ c.since \in 0..Units /\ c.restarts \in 0..MaxCrashRestarts
  BY <1>4, RecordFields DEF Units
<1>6. /\ m.failures = (IF c.since > CrashWindow THEN 1 ELSE c.failures + 1)
      /\ m.since = (IF c.since > CrashWindow THEN 0 ELSE c.since)
      /\ m.restarts = c.restarts /\ m.failures \in Nat
  BY <1>3, <1>4, CrashReported
<1>7. /\ Accounted(IF m.failures > MaxFailures THEN MaxFailures ELSE m.failures, m.since, c.restarts, g)
      /\ m.failures < MaxFailures /\ c.restarts < MaxCrashRestarts =>
           \A h : h = [g EXCEPT ![0] = @ + 1] => h \in Granting /\ Accounted(m.failures, m.since, c.restarts + 1, h)
  BY <1>4, <1>5, <1>6, CountedKeepsAccount
<1>8. CASE m.failures >= MaxFailures \/ m.restarts >= MaxCrashRestarts
  <2>1. PICK d : d = Quarantined([m EXCEPT !.failures = IF @ > MaxFailures THEN MaxFailures ELSE @])
    OBVIOUS
  <2>2. tracked' = [tracked EXCEPT ![i] = d] /\ granted' = [granted EXCEPT ![i] = g]
    BY <1>1, <1>2, <1>3, <1>8, <2>1
  <2>3. /\ d \in Component
        /\ Recounted(c, d, IF m.failures > MaxFailures THEN MaxFailures ELSE m.failures, m.since, c.restarts)
    BY <1>3, <1>4, <2>1, CrashReported
  <2>4. SlotAccounted(d, g)
    BY <1>4, <1>7, <2>3 DEF SlotAccounted, Recounted
  <2> QED BY <1>2, <1>3, <1>4, <2>2, <2>3, <2>4, OneSlotChanges DEF Recounted
<1>9. CASE ~(m.failures >= MaxFailures \/ m.restarts >= MaxCrashRestarts)
  <2>1. PICK d, h : d = [m EXCEPT !.restarts = @ + 1] /\ h = [g EXCEPT ![0] = @ + 1]
    OBVIOUS
  <2>2. tracked' = [tracked EXCEPT ![i] = d] /\ granted' = [granted EXCEPT ![i] = h]
    BY <1>1, <1>2, <1>3, <1>9, <2>1
  <2>3. d \in Component /\ Recounted(c, d, m.failures, m.since, c.restarts + 1)
    BY <1>3, <1>4, <1>9, <2>1, CrashReported
  <2>4. m.failures < MaxFailures /\ c.restarts < MaxCrashRestarts
    BY <1>5, <1>6, <1>9, CrashLimits
  <2>5. h \in Granting /\ Accounted(m.failures, m.since, c.restarts + 1, h)
    BY <1>7, <2>1, <2>4
  <2>6. SlotAccounted(d, h)
    BY <2>3, <2>5 DEF SlotAccounted, Recounted
  <2> QED BY <1>2, <1>3, <2>2, <2>3, <2>5, <2>6, OneSlotChanges DEF Recounted
<1> QED BY <1>8, <1>9

LEMMA CrashElapseHolds ==
  ASSUME CrashInv, CrashElapse
  PROVE  CrashInv'
<1>1. ASSUME NEW i \in DOMAIN tracked
      PROVE  /\ tracked'[i].name = tracked[i].name /\ tracked'[i].active = tracked[i].active
             /\ SlotAccounted(tracked'[i], granted'[i])
  <2>1. PICK c, d, g, h : c = tracked[i] /\ d = tracked'[i] /\ g = granted[i] /\ h = granted'[i]
    OBVIOUS
  <2>2. c \in Component /\ g \in Granting /\ Accounted(c.failures, c.since, c.restarts, g)
    BY <2>1, CrashSlots DEF CrashInv, SlotAccounted
  <2>3. d = [c EXCEPT !.since = IF @ > CrashWindow THEN @ ELSE @ + 1, !.cooling = IF @ > 0 THEN @ - 1 ELSE 0]
    BY <1>1, <2>1 DEF CrashElapse
  <2>4. h = [a \in GrantAges |-> IF a = 0 THEN 0 ELSE g[a - 1]]
    BY <2>1, CrashSlots DEF CrashElapse
  <2>5. /\ d.name = c.name /\ d.active = c.active /\ d.failures = c.failures /\ d.restarts = c.restarts
        /\ d.since = (IF c.since > CrashWindow THEN c.since ELSE c.since + 1)
    BY <2>2, <2>3 DEF Component
  <2>6. c.failures \in 0..MaxFailures /\ c.since \in 0..Units /\ c.restarts \in 0..MaxCrashRestarts
    BY <2>2, RecordFields DEF Units
  <2>7. h \in Granting /\ Accounted(c.failures, IF c.since > CrashWindow THEN c.since ELSE c.since + 1, c.restarts, h)
    BY <2>2, <2>4, <2>6, ElapseKeepsAccount
  <2>8. SlotAccounted(d, h)
    BY <2>5, <2>7 DEF SlotAccounted
  <2> QED BY <2>1, <2>5, <2>8
<1>2. Slots'
  BY CrashStep DEF CrashInv, CrashNext
<1>3. DOMAIN tracked' = DOMAIN tracked /\ Len(tracked') = Len(tracked)
  <2>1. DOMAIN tracked' = DOMAIN tracked
    BY DEF CrashElapse
  <2> QED BY <1>2, <2>1, CrashSlots DEF Slots
<1>4. granted' \in Seq(Granting) /\ Len(granted') = Len(tracked')
  <2>1. DOMAIN granted' = 1..Len(tracked) /\ \A i \in 1..Len(tracked) : granted'[i] \in Granting
    BY <1>1, CrashSlots DEF CrashElapse, SlotAccounted
  <2>2. granted' = [i \in 1..Len(tracked) |-> granted'[i]]
    BY <2>1, CrashSlots DEF CrashElapse
  <2> QED BY <1>3, <2>1, <2>2, CrashSlots
<1>5. OneSlotEach'
  <2>1. OneSlotEach
    BY DEF CrashInv
  <2> QED BY <1>1, <1>3, <2>1 DEF OneSlotEach
<1>6. \A i \in DOMAIN tracked' : SlotAccounted(tracked'[i], granted'[i])
  BY <1>1, <1>3
<1> QED BY <1>2, <1>3, <1>4, <1>5, <1>6 DEF CrashInv

LEMMA CrashInvStep == CrashInv /\ [CrashNext]_crashVars => CrashInv'
<1>1. ASSUME CrashInv, UNCHANGED crashVars PROVE CrashInv'
  <2>1. tracked' = tracked /\ granted' = granted
    BY <1>1 DEF crashVars
  <2> QED BY <1>1, <2>1 DEF CrashInv, Slots, OneSlotEach
<1> QED BY <1>1, CrashRegistered, CrashSetAside, CrashReportHolds, CrashElapseHolds DEF CrashNext

LEMMA CrashInvLimits == CrashInv => CrashTypeOK /\ CrashLoopCaught
<1> SUFFICES ASSUME CrashInv PROVE CrashTypeOK /\ CrashLoopCaught
  OBVIOUS
<1>1. ASSUME NEW n \in Components PROVE Cardinality(SlotOf(n)) <= 1
  <2>1. \A i, j \in SlotOf(n) : i = j
    BY DEF CrashInv, OneSlotEach, SlotOf
  <2>2. CASE SlotOf(n) = {}
    BY <2>2, FS_EmptySet
  <2>3. CASE SlotOf(n) # {}
    <3>1. PICK i : SlotOf(n) = {i}
      BY <2>1, <2>3
    <3> QED BY <3>1, FS_Singleton
  <2> QED BY <2>2, <2>3
<1>2. ASSUME NEW i \in DOMAIN granted PROVE GrantedRecently(i) <= 2 * (MaxFailures - 1)
  <2>1. PICK c, g : c = tracked[i] /\ g = granted[i]
    OBVIOUS
  <2>2. c \in Component /\ g \in Granting /\ Accounted(c.failures, c.since, c.restarts, g)
    BY <1>2, <2>1, CrashSlots DEF CrashInv, SlotAccounted
  <2>3. GrantedRecently(i) = Granted(g, Units)
    BY <2>1 DEF GrantedRecently, Granted, Total, Adds, Units
  <2>4. ChargedFor(c.failures) \in Nat /\ ChargedFor(c.failures) <= MaxFailures - 1
    BY <2>2, RecordFields, ChargesAre
  <2>5. Granted(g, Units) \in Nat
    BY <2>2, GrantsAdd, ChargesAre
  <2>6. MaxFailures \in Nat \ {0}
    BY CrashLimits
  <2> QED BY <2>2, <2>3, <2>4, <2>5, <2>6 DEF Accounted
<1>3. CrashTypeOK
  BY <1>1 DEF CrashInv, CrashTypeOK, Slots, Granting
<1> QED BY <1>2, <1>3 DEF CrashLoopCaught

-----------------------------------------------------------------------------
(* The five together.                                                      *)

LEMMA EventInvIsTyped == EventInv => EventTypeOK
BY DEF EventInv, EventsTyped, EventTypeOK, Accepted

LEMMA OwnSteps == [MCNext]_MCVars => [Next]_vars /\ [BreakerNext]_breakerVars
<1> SUFFICES ASSUME [MCNext]_MCVars PROVE [Next]_vars /\ [BreakerNext]_breakerVars
  OBVIOUS
<1>1. CASE UNCHANGED MCVars
  BY <1>1 DEF MCVars
<1>2. CASE MCNext
  BY <1>2 DEF MCNext
<1> QED BY <1>1, <1>2

(* The inductive invariant: the books of every service, the accounts of    *)
(* every tracked component, and what keeps breaker, tracker and engine     *)
(* within their types.                                                     *)
SupervisionInv == ServiceInv /\ BreakerInv /\ CrashInv /\ HealthInv /\ EventInv

LEMMA SupervisionStart == MCInit => SupervisionInv
<1>1. MCInit => Init /\ BreakerInit /\ CrashInit /\ HealthInit /\ EventInit
  BY Zenon DEF MCInit
<1> QED BY <1>1, ServiceStart, BreakerInitHolds, CrashStart, HealthInitHolds, EventInitHolds DEF SupervisionInv

LEMMA SupervisionStep == SupervisionInv /\ [MCNext]_MCVars => SupervisionInv'
<1> SUFFICES ASSUME SupervisionInv, [MCNext]_MCVars PROVE SupervisionInv'
  OBVIOUS
<1>1. ServiceInv /\ BreakerInv /\ CrashInv /\ HealthInv /\ EventInv
  BY DEF SupervisionInv
<1>2. /\ [Next]_vars /\ [BreakerNext]_breakerVars /\ [CrashNext]_crashVars
      /\ [HealthNext]_healthVars /\ [EventNext]_eventVars
  BY OwnSteps, EachGuardsItsOwn
<1>3. ServiceInv' /\ BreakerInv' /\ CrashInv'
  BY <1>1, <1>2, ServiceStep, BreakerStepHolds, CrashInvStep
<1>4. HealthInv'
  BY <1>1, <1>2, HealthTypeStep, SilenceStep DEF HealthInv
<1>5. EventInv'
  BY <1>1, <1>2, EventStep
<1> QED BY <1>3, <1>4, <1>5 DEF SupervisionInv

(* The tables of the five watchers stay within their types and limits, no  *)
(* service is restarted more than three times its budget less two within   *)
(* its window (service_lifecycle.c:340), and no component crashes more     *)
(* often than two windows allow without being caught (crash_loop.c:104),   *)
(* for any services, components, limits, windows and times.                *)
THEOREM WatchersHoldTheirLimits == MCSpec => []SupervisionSafe
<1>1. SupervisionInv => SupervisionSafe
  <2>1. SupervisionInv => TypeOK /\ RestartsLimited
    BY BooksLimit DEF SupervisionInv, ServiceInv
  <2>2. SupervisionInv => BreakerTypeOK /\ HealthTypeOK
    BY DEF SupervisionInv, BreakerInv, HealthInv
  <2>3. SupervisionInv => CrashTypeOK /\ CrashLoopCaught
    BY CrashInvLimits DEF SupervisionInv
  <2>4. SupervisionInv => EventTypeOK
    BY EventInvIsTyped DEF SupervisionInv
  <2> QED BY <2>1, <2>2, <2>3, <2>4 DEF SupervisionSafe, SupervisionTypeOK
<1> QED BY <1>1, SupervisionStart, SupervisionStep, MCSteps, PTL
=============================================================================
