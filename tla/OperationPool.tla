---------------------------- MODULE OperationPool ----------------------------
(***************************************************************************)
(* What the operation queue promises its callers, without its table,       *)
(* counters, clock or priorities: an operation is admitted once, waits,    *)
(* runs as one of at most Limit, settles, may be sent back to wait, and    *)
(* once forgotten never appears again.                                     *)
(***************************************************************************)
EXTENDS Naturals, FiniteSets

CONSTANTS
  Ops,    \* operation identities
  Limit   \* how many may run together

VARIABLES admitted, waiting, running, settled

poolVars == <<admitted, waiting, running, settled>>

PoolInit ==
  /\ admitted = {} /\ waiting = {} /\ running = {} /\ settled = {}

Admit(i) ==
  /\ i \in Ops \ admitted
  /\ admitted' = admitted \cup {i}
  /\ waiting' = waiting \cup {i}
  /\ UNCHANGED <<running, settled>>

Start(i) ==
  /\ i \in waiting /\ Cardinality(running) < Limit
  /\ waiting' = waiting \ {i}
  /\ running' = running \cup {i}
  /\ UNCHANGED <<admitted, settled>>

(* Operations settle one at a time, or several in one sweep.               *)
Settle(S) ==
  /\ S # {} /\ S \subseteq waiting \cup running
  /\ waiting' = waiting \ S
  /\ running' = running \ S
  /\ settled' = settled \cup S
  /\ UNCHANGED admitted

SendBack(i) ==
  /\ i \in settled
  /\ settled' = settled \ {i}
  /\ waiting' = waiting \cup {i}
  /\ UNCHANGED <<admitted, running>>

(* Only a purge of everything forgets operations that have not settled.    *)
Forget(S) ==
  /\ S # {}
  /\ S \subseteq settled \/ S = waiting \cup running \cup settled
  /\ waiting' = waiting \ S
  /\ running' = running \ S
  /\ settled' = settled \ S
  /\ UNCHANGED admitted

PoolNext ==
  \/ \E i \in Ops : Admit(i) \/ Start(i) \/ SendBack(i)
  \/ \E S \in SUBSET Ops : Settle(S) \/ Forget(S)

PoolSpec == PoolInit /\ [][PoolNext]_poolVars
=============================================================================
