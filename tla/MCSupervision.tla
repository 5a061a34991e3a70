---------------------------- MODULE MCSupervision ----------------------------
(* The parts of the core runtime that watch over the others - restart      *)
(* budgets, circuit breaker, crash-loop detection, health tracking - and   *)
(* the event engine under the loop that drives them, checked in one run.   *)
(* They share no state: `guard' says which one a behaviour is about, and   *)
(* the others do not move.                                                 *)
EXTENDS ServiceLifecycle, CircuitBreaker, CrashLoop, HealthTracker, Events

VARIABLE guard

OneService == {"camera"}
OneGroup == {"core_services"}

Cfg(policy, max, window) == [policy |-> policy, max |-> max, window |-> window]
Budgets == {Cfg("ON_FAILURE", 2, 1), Cfg("NEVER", 3, 1), Cfg("ALWAYS", 3, 2)}

MCInit ==
  /\ Init /\ BreakerInit /\ CrashInit /\ HealthInit /\ EventInit
  /\ guard \in {"service", "breaker", "crash loop", "health", "events"}

MCNext ==
  /\ UNCHANGED guard
  /\ \/ guard = "service" /\ Next /\ UNCHANGED <<breakerVars, crashVars, healthVars, eventVars>>
     \/ guard = "breaker" /\ BreakerNext /\ UNCHANGED <<vars, crashVars, healthVars, eventVars>>
     \/ guard = "crash loop" /\ CrashNext /\ UNCHANGED <<vars, breakerVars, healthVars, eventVars>>
     \/ guard = "health" /\ HealthNext /\ UNCHANGED <<vars, breakerVars, crashVars, eventVars>>
     \/ guard = "events" /\ EventNext /\ UNCHANGED <<vars, breakerVars, crashVars, healthVars>>

MCVars == <<vars, breakerVars, crashVars, healthVars, eventVars, guard>>

(* Fairness of the breaker's surroundings, see HalfOpenEnds, and of the    *)
(* runtime loop, see EventuallyDispatched.                                 *)
OfBreaker == guard = "breaker" /\ UNCHANGED <<vars, crashVars, healthVars, eventVars, guard>>
OfEvents == guard = "events" /\ UNCHANGED <<vars, breakerVars, crashVars, healthVars, guard>>
MCSpec ==
  /\ MCInit /\ [][MCNext]_MCVars
  /\ WF_MCVars(OfBreaker /\ Report)
  /\ WF_MCVars(OfBreaker /\ Call)
  /\ WF_MCVars(OfEvents /\ EngineStep)

(* What the tables of the five, and the ring of the events, hold stays     *)
(* within their types and limits.                                          *)
SupervisionTypeOK == TypeOK /\ BreakerTypeOK /\ CrashTypeOK /\ HealthTypeOK /\ EventTypeOK

(* And the limits of the two that count failures in a window hold: of the  *)
(* restarts of a service (service_lifecycle.c:340), and of the failures a  *)
(* component may have before it is taken to crash in a loop                *)
(* (crash_loop.c:104).                                                     *)
SupervisionSafe == SupervisionTypeOK /\ RestartsLimited /\ CrashLoopCaught
=============================================================================
