------------------------------ MODULE Devices ------------------------------
(***************************************************************************)
(* Devices, their reservation and their loss (04_CONTROL_ROOM/device_io.c, *)
(* step 10): what a device's state says and what the table of reservations *)
(* says are two accounts of the same thing, kept by different calls.       *)
(*                                                                         *)
(* A reservation that ended is no longer active and its slot is free.      *)
(* Reservations are overdue at any moment: time is left out.  All devices  *)
(* are exclusive ones.  Capabilities, health, the discovery by providers   *)
(* and the events are left out; of the states of a device, those no        *)
(* operation asks for count as ERROR, and UNKNOWN as AVAILABLE.            *)
(***************************************************************************)
EXTENDS Integers, FiniteSets

CONSTANTS
  DeviceIds,   \* devices
  DeviceSlots  \* config.max_reservations

ASSUME DeviceAssumption == DeviceSlots \in Nat \ {0}

VARIABLES
  devices,  \* device -> its entry or NoDevice
  held,     \* slot -> reservation or NotHeld
  heldCount,\* svc->reservation_count
  lost      \* history: devices disconnected, and not heard of since

deviceVars == <<devices, held, heldCount, lost>>

DeviceStates == {"AVAILABLE", "RESERVED", "OPENING", "ACTIVE", "ERROR", "UNAVAILABLE"}
NoDevice == [state |-> "NONE"]
NotHeld == [state |-> "NONE"]
Attached == {d \in DeviceIds : devices[d] # NoDevice}
HeldSlots == 1..DeviceSlots
Occupied == {n \in HeldSlots : held[n] # NotHeld}
Holding(d) == {n \in Occupied : held[n].device = d /\ held[n].state \in {"RESERVED", "ACTIVE"}}

DeviceInit ==
  /\ devices = [d \in DeviceIds |-> NoDevice]
  /\ held = [n \in HeldSlots |-> NotHeld] /\ heldCount = 0
  /\ lost = {}

(* ozayn_dio_device_register, _unregister - whose reservations stay -,     *)
(* _update_state and _update_availability.                                 *)
RegisterDevice(d) ==
  /\ d \notin Attached
  /\ devices' = [devices EXCEPT ![d] = [state |-> "AVAILABLE", reachable |-> TRUE]]
  /\ lost' = lost \ {d}
  /\ UNCHANGED <<held, heldCount>>
UnregisterDevice(d) ==
  /\ d \in Attached
  /\ devices' = [devices EXCEPT ![d] = NoDevice]
  /\ UNCHANGED <<held, heldCount, lost>>
UpdateDevice(d, state) ==
  /\ d \in Attached
  /\ devices' = [devices EXCEPT ![d].state = state]
  /\ UNCHANGED <<held, heldCount, lost>>
UpdateAvailability(d, reachable) ==
  /\ d \in Attached
  /\ devices' = [devices EXCEPT ![d].reachable = reachable]
  /\ lost' = lost \ {d}
  /\ UNCHANGED <<held, heldCount>>

(* ozayn_dio_reservation_create, and within ozayn_dio_device_reserve.  The *)
(* search for a reservation in the way goes as far as there are            *)
(* reservations, not as far as there are slots.                            *)
InTheWay(d) == Holding(d) \cap 1..heldCount
Request(d, state) ==
  /\ d \in Attached /\ devices[d].state = "AVAILABLE" /\ devices[d].reachable
  /\ InTheWay(d) = {}
  /\ Occupied # HeldSlots
  /\ LET n == CHOOSE f \in HeldSlots \ Occupied : \A g \in HeldSlots \ Occupied : f <= g
     IN held' = [held EXCEPT ![n] = [device |-> d, state |-> state]]
  /\ heldCount' = heldCount + 1
CreateReservation(d) == Request(d, "REQUESTED") /\ UNCHANGED <<devices, lost>>
ReserveDevice(d) ==
  /\ Request(d, "RESERVED")
  /\ devices' = [devices EXCEPT ![d].state = "RESERVED"]
  /\ UNCHANGED lost

(* A device's state, if there is such a device.                            *)
Turned(devs, d, state) ==
  IF devs[d] = NoDevice THEN devs ELSE [devs EXCEPT ![d].state = state]

(* ozayn_dio_reservation_activate: of an overdue one, which is dropped, or *)
(* of one that is RESERVED.  It does not look at the device.               *)
ExpireReservation(n) ==
  /\ held' = [held EXCEPT ![n] = NotHeld] /\ heldCount' = heldCount - 1
ActivateHeld(n) ==
  /\ n \in Occupied
  /\ \/ ExpireReservation(n) /\ UNCHANGED devices
     \/ /\ held[n].state = "RESERVED"
        /\ held' = [held EXCEPT ![n].state = "ACTIVE"]
        /\ devices' = Turned(devices, held[n].device, "ACTIVE")
        /\ UNCHANGED heldCount
  /\ UNCHANGED lost

(* ozayn_dio_device_activate: the reservation need not be the device's.    *)
ActivateDevice(d, n) ==
  /\ d \in Attached /\ devices[d].state \in {"RESERVED", "OPENING"}
  /\ LET opening == [devices EXCEPT ![d].state = "OPENING"]
     IN \/ /\ n \in Occupied /\ held[n].state = "RESERVED"
           /\ held' = [held EXCEPT ![n].state = "ACTIVE"]
           /\ devices' = Turned(opening, held[n].device, "ACTIVE")
           /\ UNCHANGED heldCount
        \/ /\ \/ n \in Occupied /\ ExpireReservation(n)
              \/ (n \in Occupied => held[n].state # "RESERVED") /\ UNCHANGED <<held, heldCount>>
           /\ devices' = [devices EXCEPT ![d].state = "ERROR"]
  /\ UNCHANGED lost

(* ozayn_dio_reservation_release, and, with the device it is given, which  *)
(* need not be the reservation's, ozayn_dio_device_release.                *)
ReleaseHeld(n, alsoFree) ==
  /\ n \in Occupied /\ held[n].state \in {"RESERVED", "ACTIVE"}
  /\ held' = [held EXCEPT ![n] = NotHeld] /\ heldCount' = heldCount - 1
  /\ devices' = [d \in DeviceIds |->
       IF d \in Attached /\ d \in alsoFree \cup {held[n].device}
       THEN [devices[d] EXCEPT !.state = "AVAILABLE"] ELSE devices[d]]
  /\ UNCHANGED lost

(* ozayn_dio_reservation_cancel and ozayn_dio_cleanup_expired_reservations *)
(* leave the device in the state it has.                                   *)
DropHeld(ns) ==
  /\ ns # {}
  /\ held' = [n \in HeldSlots |-> IF n \in ns THEN NotHeld ELSE held[n]]
  /\ heldCount' = heldCount - Cardinality(ns)
  /\ UNCHANGED <<devices, lost>>

(* ozayn_dio_device_disconnect and _reconnect.                             *)
FailedWith_Active(d) == {n \in Holding(d) : held[n].state = "ACTIVE"}   \* mutant: forgets the merely reserved
FailedWith(d) == Holding(d)
Disconnect(d) ==
  /\ d \in Attached
  /\ devices' = [devices EXCEPT ![d] = [state |-> "UNAVAILABLE", reachable |-> FALSE]]
  /\ held' = [n \in HeldSlots |-> IF n \in FailedWith(d) THEN NotHeld ELSE held[n]]
  /\ heldCount' = heldCount - Cardinality(FailedWith(d))
  /\ lost' = lost \cup {d}
Reconnect(d) ==
  /\ devices' = [devices EXCEPT ![d] = [state |-> "AVAILABLE", reachable |-> TRUE]]
  /\ lost' = lost \ {d}
  /\ UNCHANGED <<held, heldCount>>

DeviceNext ==
  \/ \E d \in DeviceIds :
       \/ RegisterDevice(d) \/ UnregisterDevice(d) \/ Disconnect(d) \/ Reconnect(d)
       \/ \E state \in DeviceStates : UpdateDevice(d, state)
       \/ \E reachable \in BOOLEAN : UpdateAvailability(d, reachable)
       \/ CreateReservation(d) \/ ReserveDevice(d)
       \/ \E n \in 0..DeviceSlots : ActivateDevice(d, n)
  \/ \E n \in HeldSlots :
       \/ ActivateHeld(n)
       \/ \E freed \in {{}} \cup {{d} : d \in Attached} : ReleaseHeld(n, freed)
  \/ \E ns \in SUBSET Occupied : DropHeld(ns)

(***************************************************************************)
(* Properties.                                                             *)
(***************************************************************************)

DeviceTypeOK ==
  /\ devices \in [DeviceIds -> {NoDevice} \cup [state : DeviceStates, reachable : BOOLEAN]]
  /\ held \in [HeldSlots -> {NotHeld} \cup
       [device : DeviceIds, state : {"REQUESTED", "RESERVED", "ACTIVE"}]]
  /\ lost \subseteq DeviceIds

(* The count of reservations is the number there are, whichever of the six *)
(* ways a reservation takes to its end: ozayn_dio_reservation_create goes  *)
(* by it when it looks for one in its way.                                 *)
HeldIsCounted == heldCount = Cardinality(Occupied)

(* Nobody goes on holding a device that was lost, nor gets it, until it is *)
(* reconnected, registered anew or declared reachable - not through a      *)
(* reservation made before, a release, or a change of its state            *)
(* (ozayn_dio_device_disconnect).                                          *)
LostIsFree == \A d \in lost : Holding(d) = {}

DevicesSafe == DeviceTypeOK /\ HeldIsCounted /\ LostIsFree

(* What exclusive access means, and the search that stops at the count     *)
(* does not give: one reservation at a time holds a device.                *)
ExclusiveHeldOnce == \A d \in DeviceIds : Cardinality(Holding(d)) <= 1
=============================================================================
