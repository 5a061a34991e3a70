-------------------------- MODULE MCOperationQueue --------------------------
(* Instances of OperationQueue for TLC.                                    *)
EXTENDS OperationQueue

MCTargets == {"core"}

Req(id, action, target, by, priority, idempotent, maxRetries) ==
  [id |-> id, action |-> action, target |-> target, by |-> by,
   priority |-> priority, idempotent |-> idempotent, maxRetries |-> maxRetries]

(* A retryable START and the STOP that conflicts with it, and an urgent    *)
(* QUERY whose idempotent call reuses the first request id.                *)
MCRequests ==
  { Req(1, "START", "core",   1, 1, TRUE,  1),
    Req(2, "STOP",  "core",   2, 1, FALSE, 0),
    Req(1, "QUERY", "core",   1, 3, TRUE,  0) }
=============================================================================
