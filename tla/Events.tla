------------------------------- MODULE Events -------------------------------
(***************************************************************************)
(* The event engine (core/events.c) under the runtime loop                 *)
(* (core/runtime.c).                                                       *)
(*                                                                         *)
(* Events wait in a ring.  The loop empties it: each event goes to the     *)
(* matching subscriptions in the order of their identifiers, and a handler *)
(* may itself publish, subscribe and unsubscribe, while events are being   *)
(* dispatched.  Everything runs on one thread; a signal sets the stop      *)
(* flag at any moment and the loop reads it at its top.                    *)
(***************************************************************************)
EXTENDS Integers, Sequences, SequencesExt

CONSTANTS
  Types,          \* types of events
  Capacity,       \* queue_capacity
  MaxSubscribers, \* max_subscribers
  MaxEvents       \* bound: events accepted

ASSUME EventAssumption == Capacity \in Nat \ {0} /\ MaxSubscribers \in Nat /\ MaxEvents \in Nat

VARIABLES
  ring,      \* ring[k]: the event in slot k, 0..Capacity-1
  head, tail, count, \* queue_head, queue_tail, queue_count
  subs,      \* the subscriptions ever made, by identifier
  at,        \* where the thread is
  event,     \* the event being dispatched
  index,     \* the subscription it has come to
  stop,      \* the stop flag
  accepted,  \* all events the engine took (history)
  popped,    \* how many of them left the ring (history)
  delivered  \* delivered[s]: numbers of the events handler s was called for (history)

eventVars == <<ring, head, tail, count, subs, at, event, index, stop, accepted, popped, delivered>>

Slot == 0..Capacity - 1
NoEvent == [n |-> 0, type |-> "NONE"]
Subscriptions == DOMAIN subs

EventInit ==
  /\ ring = [k \in Slot |-> NoEvent] /\ head = 0 /\ tail = 0 /\ count = 0
  /\ subs = <<>> /\ at = "loop" /\ event = NoEvent /\ index = 0 /\ stop = FALSE
  /\ accepted = <<>> /\ popped = 0 /\ delivered = <<>>

(* Code other than the engine's runs between two rounds, and in a handler. *)
CallersTurn == at \in {"loop", "handler"}

(* ozayn_events_publish: a full ring drops the event.                      *)
RingFull == count >= Capacity

Publish(t) ==
  /\ CallersTurn /\ Len(accepted) < MaxEvents /\ ~RingFull
  /\ LET ev == [n |-> Len(accepted) + 1, type |-> t]
     IN ring' = [ring EXCEPT ![tail] = ev] /\ accepted' = Append(accepted, ev)
  /\ tail' = (tail + 1) % Capacity /\ count' = count + 1
  /\ UNCHANGED <<head, subs, at, event, index, stop, popped, delivered>>

(* ozayn_events_subscribe: identifiers are counted up and never used       *)
(* again.  "NONE" is every type.  from: the first event it can be given,   *)
(* the one being dispatched included, whose scan comes to it last.         *)
Subscribe(t) ==
  /\ CallersTurn /\ Len(subs) < MaxSubscribers
  /\ subs' = Append(subs, [type |-> t, active |-> TRUE,
                           from |-> IF at = "handler" THEN popped ELSE popped + 1])
  /\ delivered' = Append(delivered, <<>>)
  /\ UNCHANGED <<ring, head, tail, count, at, event, index, stop, accepted, popped>>

(* ozayn_events_unsubscribe                                                *)
Unsubscribe(s) ==
  /\ CallersTurn /\ subs[s].active
  /\ subs' = [subs EXCEPT ![s].active = FALSE]
  /\ UNCHANGED <<ring, head, tail, count, at, event, index, stop, accepted, popped, delivered>>

-----------------------------------------------------------------------------
(* One round of ozayn_runtime_run, as far as events go.                    *)
Loop ==
  /\ at = "loop"
  /\ at' = IF stop THEN "stopped" ELSE "pop"
  /\ UNCHANGED <<ring, head, tail, count, subs, event, index, stop, accepted, popped, delivered>>

(* ozayn_events_process.  A handler that calls it gets 0 (dispatching).    *)
Pop_Sticks ==                           \* mutant: the head does not wrap around
  /\ at = "pop" /\ count > 0
  /\ event' = ring[head] /\ index' = 1 /\ at' = "scan"
  /\ head' = (IF head = Capacity - 1 THEN head ELSE head + 1) /\ count' = count - 1 /\ popped' = popped + 1
  /\ UNCHANGED <<ring, tail, subs, stop, accepted, delivered>>
Pop ==
  /\ at = "pop" /\ count > 0
  /\ event' = ring[head] /\ index' = 1 /\ at' = "scan"
  /\ head' = (head + 1) % Capacity /\ count' = count - 1 /\ popped' = popped + 1
  /\ UNCHANGED <<ring, tail, subs, stop, accepted, delivered>>

Matches(s) == subs[s].active /\ subs[s].type \in {"NONE", event.type}

Scan_Stays ==                           \* mutant: `continue' before the index moves
  /\ at = "scan"
  /\ IF index > Len(subs)
     THEN at' = "pop" /\ UNCHANGED delivered
     ELSE Matches(index) /\ at' = "handler" /\ delivered' = [delivered EXCEPT ![index] = Append(@, event.n)]
  /\ UNCHANGED <<index, ring, head, tail, count, subs, event, stop, accepted, popped>>
Scan ==
  /\ at = "scan"
  /\ IF index > Len(subs)
     THEN at' = "pop" /\ UNCHANGED <<index, delivered>>
     ELSE IF Matches(index)
     THEN at' = "handler" /\ delivered' = [delivered EXCEPT ![index] = Append(@, event.n)]
          /\ UNCHANGED index
     ELSE index' = index + 1 /\ UNCHANGED <<at, delivered>>
  /\ UNCHANGED <<ring, head, tail, count, subs, event, stop, accepted, popped>>

Return ==
  /\ at = "handler"
  /\ at' = "scan" /\ index' = index + 1
  /\ UNCHANGED <<ring, head, tail, count, subs, event, stop, accepted, popped, delivered>>

RoundEnds ==
  /\ at = "pop" /\ count = 0
  /\ at' = "loop"
  /\ UNCHANGED <<ring, head, tail, count, subs, event, index, stop, accepted, popped, delivered>>

(* The handler of SIGINT and SIGTERM.                                      *)
Signal ==
  /\ ~stop /\ stop' = TRUE
  /\ UNCHANGED <<ring, head, tail, count, subs, at, event, index, accepted, popped, delivered>>

EngineStep == Loop \/ Pop \/ Scan \/ Return \/ RoundEnds
EventNext ==
  \/ EngineStep \/ Signal
  \/ \E t \in Types : Publish(t)
  \/ \E t \in Types \cup {"NONE"} : Subscribe(t)
  \/ \E s \in Subscriptions : Unsubscribe(s)

-----------------------------------------------------------------------------
EventTypeOK ==
  /\ ring \in [Slot -> {NoEvent} \cup [n : 1..MaxEvents, type : Types]]
  /\ {head, tail} \subseteq Slot /\ count \in 0..Capacity
  /\ Len(subs) = Len(delivered) /\ Len(subs) <= MaxSubscribers
  /\ at \in {"loop", "pop", "scan", "handler", "stopped"} /\ stop \in BOOLEAN

(* The ring is a queue: its slots from the head on hold the accepted       *)
(* events that were not dispatched yet, in their order, however it wraps   *)
(* around while handlers publish (events.c:353, 417).                      *)
RingIsQueue ==
  [k \in 1..count |-> ring[(head + k - 1) % Capacity]] = SubSeq(accepted, popped + 1, Len(accepted))

(* A handler gets the events of its type in the order of their publication *)
(* and none twice, and, while it is subscribed, none is left out that the  *)
(* engine has done with: also when subscriptions come and go under the     *)
(* scan (events.c:421).                                                    *)
DeliveredInOrder ==
  \A s \in Subscriptions :
    /\ \A j \in 1..Len(delivered[s]) - 1 : delivered[s][j] < delivered[s][j + 1]
    /\ subs[s].active =>
         LET done == IF at \in {"scan", "handler"} THEN popped - 1 ELSE popped
         IN \A n \in subs[s].from..done :
              subs[s].type \in {"NONE", accepted[n].type} => n \in ToSet(delivered[s])

(* From the publisher to the handler: the order of publication is kept.    *)
EventsInOrder == RingIsQueue /\ DeliveredInOrder

(* Unless the loop is told to stop, what was accepted is dispatched.       *)
EventuallyDispatched == \A n \in 1..MaxEvents : Len(accepted) >= n ~> popped >= n \/ stop
=============================================================================
