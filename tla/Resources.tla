----------------------------- MODULE Resources -----------------------------
(***************************************************************************)
(* The capacity of the machine and who has been promised a part of it      *)
(* (04_CONTROL_ROOM/resource.c, step 09): a table of resources, a table of *)
(* reservations, and on every resource the sum of what is reserved.        *)
(*                                                                         *)
(* Both tables are arrays that are searched, and filled, up to a count.    *)
(* Taking an entry out lowers the count and leaves a hole, so that the     *)
(* last entries are no longer found and the next one is written over a     *)
(* live one.  The decisions of ozayn_rcm_evaluate, which read this state,  *)
(* and the snapshots are left out, and so are a resource's state, health   *)
(* and availability: no operation on a reservation looks at them.          *)
(***************************************************************************)
EXTENDS Integers, FiniteSets

CONSTANTS
  ResourceNames,   \* names (with types) a resource is registered under
  Operations,      \* operations that ask for capacity
  MaxResources,    \* svc->max_resources
  MaxReservations, \* svc->max_reservations
  Total,           \* capacity.total of every resource
  MaxRegistered    \* bound: resources ever registered

ASSUME ResourceAssumption ==
  /\ MaxResources \in Nat \ {0} /\ MaxReservations \in Nat \ {0}
  /\ Total \in Nat \ {0} /\ MaxRegistered \in Nat

VARIABLES
  resources,        \* slot -> resource or NoResource
  resourceCount,    \* svc->resource_count
  registered,       \* svc->resource_sequence: the id of the newest resource
  reservations,     \* slot -> reservation or NoReservation
  reservationCount  \* svc->reservation_count

resourceVars == <<resources, resourceCount, registered, reservations, reservationCount>>

NoResource == [id |-> 0]
NoReservation == [state |-> "NONE"]
Promised(resv) == resv.state \in {"RESERVED", "ACTIVE"}

(* _find_resource, by id or by name, and _find_reservation look no further *)
(* than the count.                                                         *)
Registered == {s \in 1..resourceCount : resources[s] # NoResource}
Known == {n \in 1..reservationCount : reservations[n] # NoReservation}
SlotsOf(id) == {s \in Registered : resources[s].id = id}

(* _compute_capacity and the subtraction every return of capacity makes.   *)
Less(a, b) == IF a >= b THEN a - b ELSE 0
Available(res) == Less(Total, res.used + res.reserved)

(* What the reservations ns of a table hold together.                      *)
AmountOf(table, ns) ==
  LET upTo[n \in 0..MaxReservations] ==
        IF n = 0 THEN 0
        ELSE upTo[n - 1] + (IF n \in ns THEN table[n].amount ELSE 0)
  IN upTo[MaxReservations]

ResourceInit ==
  /\ resources = [s \in 1..MaxResources |-> NoResource]
  /\ resourceCount = 0 /\ registered = 0
  /\ reservations = [n \in 1..MaxReservations |-> NoReservation]
  /\ reservationCount = 0

(* ozayn_rcm_resource_register, _unregister and _update_usage.             *)
RegisterResource(name) ==
  /\ \A s \in Registered : resources[s].name # name
  /\ resourceCount < MaxResources /\ registered < MaxRegistered
  /\ registered' = registered + 1
  /\ resources' = [resources EXCEPT ![resourceCount + 1] =
       [id |-> registered + 1, name |-> name, used |-> 0, reserved |-> 0]]
  /\ resourceCount' = resourceCount + 1
  /\ UNCHANGED <<reservations, reservationCount>>

UnregisterResource(s) ==
  /\ s \in Registered
  /\ resources' = [resources EXCEPT ![s] = NoResource]
  /\ resourceCount' = resourceCount - 1
  /\ UNCHANGED <<registered, reservations, reservationCount>>

UpdateUsage(s, used) ==
  /\ s \in Registered
  /\ resources' = [resources EXCEPT ![s].used = used]
  /\ UNCHANGED <<resourceCount, registered, reservations, reservationCount>>

(* ozayn_rcm_reservation_create.                                           *)
Fits(s, amount) == Available(resources[s]) >= amount
Reserve(op, s, amount) ==
  /\ reservationCount < MaxReservations
  /\ s \in Registered /\ Fits(s, amount)
  /\ \A n \in Known : Promised(reservations[n]) =>
       <<reservations[n].op, reservations[n].res>> # <<op, resources[s].id>>
  /\ resources' = [resources EXCEPT ![s].reserved = @ + amount]
  /\ reservations' = [reservations EXCEPT ![reservationCount + 1] =
       [op |-> op, res |-> resources[s].id, amount |-> amount,
        state |-> "RESERVED", overdue |-> FALSE]]
  /\ reservationCount' = reservationCount + 1
  /\ UNCHANGED <<resourceCount, registered>>

(* ozayn_rcm_reservation_activate: an overdue one too.                     *)
ActivateReservation(n) ==
  /\ n \in Known /\ reservations[n].state = "RESERVED"
  /\ reservations' = [reservations EXCEPT ![n].state = "ACTIVE"]
  /\ UNCHANGED <<resources, resourceCount, registered, reservationCount>>

(* What the reservations ns held goes back to the resources they name, if  *)
(* these are still found.                                                  *)
GivenBack(ns) ==
  [s \in DOMAIN resources |->
     IF s \in Registered
     THEN [resources[s] EXCEPT !.reserved =
             Less(@, AmountOf(reservations, {n \in ns : reservations[n].res = resources[s].id}))]
     ELSE resources[s]]

(* ozayn_rcm_reservation_release and _cancel.  The entry stays.            *)
Returnable(n) == Promised(reservations[n])
EndReservation(n, ending) ==
  /\ n \in Known /\ Returnable(n)
  /\ resources' = GivenBack({n})
  /\ reservations' = [reservations EXCEPT ![n].state = ending]
  /\ UNCHANGED <<resourceCount, registered, reservationCount>>

(* ozayn_rcm_cleanup_expired_reservations.                                 *)
CleanupReservations ==
  LET overdue == {n \in Known : Promised(reservations[n]) /\ reservations[n].overdue}
  IN /\ overdue # {}
     /\ resources' = GivenBack(overdue)
     /\ reservations' = [n \in DOMAIN reservations |->
                           IF n \in overdue THEN NoReservation ELSE reservations[n]]
     /\ reservationCount' = reservationCount - Cardinality(overdue)
     /\ UNCHANGED <<resourceCount, registered>>

(* Every reservation lives equally long (svc->reservation_ttl_ms): some    *)
(* time passes, and those there are overdue.                               *)
ResourceElapse ==
  /\ \E n \in DOMAIN reservations : Promised(reservations[n]) /\ ~reservations[n].overdue
  /\ reservations' = [n \in DOMAIN reservations |->
       IF Promised(reservations[n]) THEN [reservations[n] EXCEPT !.overdue = TRUE]
       ELSE reservations[n]]
  /\ UNCHANGED <<resources, resourceCount, registered, reservationCount>>

ResourceNext ==
  \/ \E name \in ResourceNames : RegisterResource(name)
  \/ \E s \in 1..MaxResources :
       \/ UnregisterResource(s)
       \/ \E used \in 0..Total : UpdateUsage(s, used)
       \/ \E op \in Operations, amount \in 1..Total : Reserve(op, s, amount)
  \/ \E n \in 1..MaxReservations :
       \/ ActivateReservation(n)
       \/ \E ending \in {"RELEASED", "CANCELLED"} : EndReservation(n, ending)
  \/ CleanupReservations \/ ResourceElapse

(***************************************************************************)
(* Properties.                                                             *)
(***************************************************************************)

ResourceTypeOK ==
  /\ resources \in [1..MaxResources ->
       {NoResource} \cup [id : 1..MaxRegistered, name : ResourceNames,
                          used : 0..Total, reserved : 0..Total]]
  /\ resourceCount \in 0..MaxResources /\ registered \in 0..MaxRegistered
  /\ reservations \in [1..MaxReservations ->
       {NoReservation} \cup [op : Operations, res : 1..MaxRegistered, amount : 1..Total,
                             state : {"RESERVED", "ACTIVE", "RELEASED", "CANCELLED"},
                             overdue : BOOLEAN]]
  /\ reservationCount \in 0..MaxReservations

(* No capacity is promised twice: what the live reservations of a resource *)
(* hold is part of what it counts as reserved, and that is never more than *)
(* there is, however reservations end (released, cancelled, overdue, or    *)
(* overdue after either), resources go, and entries are written over       *)
(* (ozayn_rcm_reservation_create, _release, _cancel, the cleanup).         *)
PromisedOn(s) == {n \in DOMAIN reservations :
                /\ reservations[n] # NoReservation
                /\ Promised(reservations[n]) /\ reservations[n].res = resources[s].id}
PromisedOnce ==
  \A s \in DOMAIN resources : resources[s] # NoResource =>
    AmountOf(reservations, PromisedOn(s)) <= resources[s].reserved /\ resources[s].reserved <= Total

ResourcesSafe == ResourceTypeOK /\ PromisedOnce

(* What the tables lose: a resource counts nothing as reserved that no     *)
(* reservation anyone can still release holds.                             *)
NothingLeaks ==
  \A s \in Registered :
    resources[s].reserved = AmountOf(reservations, PromisedOn(s) \cap Known)
=============================================================================
