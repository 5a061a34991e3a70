------------------------------ MODULE IoPaths -------------------------------
(***************************************************************************)
(* The streams that carry data of a device (04_CONTROL_ROOM/io_stream.c,   *)
(* step 12): a state machine from the request to the end, and the          *)
(* accounting of what is buffered - how many units are queued, and how     *)
(* many bytes they take - with the backpressure that goes by it.           *)
(*                                                                         *)
(* The service keeps no data, only the two counts.  A push adds the size   *)
(* of its unit; what takes a unit out does not know its size, and a pull   *)
(* subtracts the largest size of the stream, but never more than 1024.     *)
(* A stream that ended and is no longer active is no stream here (its slot *)
(* is free), while one whose device was disconnected stays, UNAVAILABLE.   *)
(* Streams are overdue or idle at any moment: time is left out, and so is  *)
(* the rate.                                                               *)
(***************************************************************************)
EXTENDS Integers, FiniteSets

CONSTANTS
  StreamSlots, \* slots of svc->streams
  MaxBuffer,   \* max_buffer_size of every stream
  MaxDepth,    \* max_queue_depth
  MaxUnits,    \* the largest sizes of a unit streams are created with
  MaxNegative, \* a bound of the model: how far below zero a unit's size goes
  PullSize     \* what a pull takes at most: 1024 bytes

ASSUME StreamAssumption ==
  /\ MaxBuffer \in Nat \ {0} /\ MaxDepth \in Nat \ {0} /\ PullSize \in Nat \ {0}
  /\ MaxUnits \subseteq Nat \ {0} /\ MaxNegative \in Nat

VARIABLE streams  \* slot -> stream or NoStream

Policies == {"BLOCK", "DROP_OLDEST", "DROP_NEWEST", "PAUSE_PRODUCER", "FAIL_STREAM"}
StreamStates ==
  {"REQUESTED", "AUTHORIZED", "OPENING", "ACTIVE", "PAUSED", "BACKPRESSURED", "DRAINING",
   "UNAVAILABLE"}

NoStream == [state |-> "NONE"]
Streaming == {s \in StreamSlots : streams[s] # NoStream}

StreamInit == streams = [s \in StreamSlots |-> NoStream]

(* ozayn_ios_stream_create and _authorize; REQUESTED to AUTHORIZED is one  *)
(* call.                                                                   *)
CreateStream(s, policy, maxUnit) ==
  /\ s \notin Streaming
  /\ streams' = [streams EXCEPT ![s] =
       [state |-> "REQUESTED", policy |-> policy, maxUnit |-> maxUnit, depth |-> 0, occupied |-> 0]]

(* _valid_transitions, as far as ozayn_ios_stream_authorize, _open,        *)
(* _activate, _pause, _resume and _drain go: _activate and _resume are one *)
(* transition.                                                             *)
StreamMoves ==
  {<<"REQUESTED", "AUTHORIZED">>, <<"AUTHORIZED", "OPENING">>, <<"OPENING", "ACTIVE">>}
  \cup ({"PAUSED", "BACKPRESSURED"} \X {"ACTIVE"}) \cup ({"ACTIVE", "BACKPRESSURED"} \X {"PAUSED"})
  \cup ({"ACTIVE", "PAUSED", "BACKPRESSURED"} \X {"DRAINING"})
MoveStream(s, to) ==
  /\ s \in Streaming /\ <<streams[s].state, to>> \in StreamMoves
  /\ streams' = [streams EXCEPT ![s].state = to]

(* What one unit less leaves of the bytes, when size is taken for it.      *)
Without(st, size) == IF st.occupied > size THEN st.occupied - size ELSE 0
Pulled(st) == IF st.maxUnit < PullSize THEN st.maxUnit ELSE PullSize

(* ozayn_ios_stream_push_data of a unit of the given size, a signed one    *)
(* that is asked only whether it is too large.  A full queue is dealt with *)
(* by the policy of the stream; then the bytes must fit.  The dropped unit *)
(* is gone even if they do not.                                            *)
Store(s, st, size) ==
  streams' = [streams EXCEPT ![s] =
    IF st.occupied + size > MaxBuffer THEN [st EXCEPT !.state = "BACKPRESSURED"]
    ELSE [st EXCEPT !.occupied = @ + size, !.depth = @ + 1]]
Push(s, size) ==
  LET st == streams[s]
  IN /\ s \in Streaming /\ st.state \in {"ACTIVE", "BACKPRESSURED"}
     /\ size <= st.maxUnit
     /\ \/ st.depth < MaxDepth /\ Store(s, st, size)
        \/ /\ st.depth >= MaxDepth /\ st.policy = "DROP_OLDEST"
           /\ Store(s, [st EXCEPT !.depth = @ - 1, !.occupied = Without(st, st.maxUnit)], size)
        \/ /\ st.depth >= MaxDepth /\ st.policy = "FAIL_STREAM"
           /\ streams' = [streams EXCEPT ![s] = NoStream]

(* ozayn_ios_stream_pull_data: the only way out of BACKPRESSURED that is   *)
(* not asked for.                                                          *)
Relieved(depth) == depth < MaxDepth \div 2
Pull(s) ==
  LET st == streams[s]
      rest == [st EXCEPT !.depth = @ - 1, !.occupied = Without(st, Pulled(st))]
  IN /\ s \in Streaming /\ st.state \in {"ACTIVE", "BACKPRESSURED", "DRAINING"}
     /\ st.depth > 0
     /\ streams' = [streams EXCEPT ![s] =
          IF st.state = "BACKPRESSURED" /\ Relieved(rest.depth)
          THEN [rest EXCEPT !.state = "ACTIVE"] ELSE rest]

(* ozayn_ios_stream_device_disconnected: what is buffered stays, and the   *)
(* stream stays active.  ozayn_ios_stream_device_reconnected changes       *)
(* nothing.                                                                *)
DeviceGone(s) ==
  /\ s \in Streaming /\ streams[s].state # "UNAVAILABLE"
  /\ streams' = [streams EXCEPT ![s].state = "UNAVAILABLE"]

(* ozayn_ios_stream_close and _revoke, ozayn_ios_stream_authorize of an    *)
(* overdue stream; UNAVAILABLE is not terminal to them.                    *)
EndStream(s) ==
  /\ s \in Streaming
  /\ streams' = [streams EXCEPT ![s] = NoStream]

(* ozayn_ios_cleanup_expired_streams and _idle_streams.                    *)
CleanupStreams ==
  \E overdue \in (SUBSET Streaming) \ {{}} :
    streams' = [s \in StreamSlots |-> IF s \in overdue THEN NoStream ELSE streams[s]]

StreamNext ==
  \/ \E s \in StreamSlots :
       \/ \E policy \in Policies, maxUnit \in MaxUnits : CreateStream(s, policy, maxUnit)
       \/ \E to \in StreamStates : MoveStream(s, to)
       \/ \E size \in -MaxNegative..MaxBuffer + 1 : Push(s, size)
       \/ Pull(s) \/ DeviceGone(s) \/ EndStream(s)
  \/ CleanupStreams

(***************************************************************************)
(* Properties.                                                             *)
(***************************************************************************)

StreamTypeOK ==
  /\ streams \in [StreamSlots ->
       {NoStream} \cup [state : StreamStates, policy : Policies, maxUnit : MaxUnits,
                        depth : 0..MaxDepth, occupied : Int]]
  /\ \A s \in Streaming : streams[s].occupied <= MaxBuffer

(* As long as the units of a stream are no larger than what a pull takes   *)
(* for one, an empty queue takes no bytes: whatever was pushed, pulled,    *)
(* dropped and refused before, nothing of the buffer is lost or made up,   *)
(* though units of a negative size take the bytes below zero on the way    *)
(* (the two counts of ozayn_ios_stream_push_data and _pull_data).          *)
Accountable(st) == st.maxUnit <= PullSize
NothingLost ==
  \A s \in Streaming : Accountable(streams[s]) /\ streams[s].depth = 0 => streams[s].occupied = 0

(* Backpressure ends by pulling: a stream that holds its producer back has *)
(* something to pull, and by the time it is empty the hold is over.  For   *)
(* streams whose units fit into the buffer, and queues of two and more.    *)
BackpressureEnds ==
  \A s \in Streaming :
    /\ streams[s].state = "BACKPRESSURED" /\ Accountable(streams[s])
    /\ streams[s].maxUnit <= MaxBuffer /\ MaxDepth >= 2
    => streams[s].depth > 0

StreamsSafe == StreamTypeOK /\ NothingLost /\ BackpressureEnds

(* The same of every stream, those of the default size (64 KiB a unit)     *)
(* among them: not what the code does.                                     *)
NothingEverLost == \A s \in Streaming : streams[s].depth = 0 => streams[s].occupied = 0

-----------------------------------------------------------------------------
(***************************************************************************)
(* The routes that carry streams from one endpoint to another              *)
(* (04_CONTROL_ROOM/io_router.c, step 13): endpoints that come and go, and *)
(* routes with a state machine that are looked over for loops when they    *)
(* are authorized.                                                         *)
(*                                                                         *)
(* A route that has ended is no longer active: its slot is free, nothing   *)
(* but ozayn_ior_route_remove looks at it again, and that erases it.  So   *)
(* an ended route is no route here.  Routes are overdue or idle at any     *)
(* moment: time is left out.  WAITING and DISCONNECTING are passed within  *)
(* one call, and nothing makes a route BACKPRESSURED.  device_id is set by *)
(* no operation, so that ozayn_ior_device_disconnected finds no route.     *)
(***************************************************************************)

CONSTANTS
  Endpoints,  \* endpoint ids
  Streams,    \* stream ids
  MaxRoutes,  \* config.max_routes
  LoopDepth   \* config.max_loop_depth

ASSUME RouteAssumption == MaxRoutes \in Nat /\ LoopDepth \in Nat \ {0}

VARIABLES
  endpoints,  \* those registered
  routes      \* slot -> route or NoRoute

routeVars == <<endpoints, routes>>

NoRoute == [state |-> "NONE"]
Routed == {i \in 1..MaxRoutes : routes[i] # NoRoute}

CheckLoop_Direct(source, destination) ==                   \* mutant: looks one route far
  \E i \in Routed : routes[i].source = destination /\ routes[i].destination = source

(* _check_loop: is there a way over the active routes, of any state, from  *)
(* the destination back to the source?  One longer than the depth allows   *)
(* counts as one.  Reaching[d] is where there is a way from, of up to d    *)
(* routes, or one of d routes to anywhere.                                 *)
CheckLoop(source, destination) ==
  LET Reaching[d \in 0..LoopDepth] ==
        IF d = 0 THEN Endpoints
        ELSE {at \in Endpoints :
                \/ at = source
                \/ \E i \in Routed :
                     routes[i].source = at /\ routes[i].destination \in Reaching[d - 1]}
  IN destination \in Reaching[LoopDepth]

RouteInit == endpoints = {} /\ routes = [i \in 1..MaxRoutes |-> NoRoute]

(* ozayn_ior_endpoint_register and _unregister: the routes of an endpoint  *)
(* that goes stay as they are.                                             *)
RegisterEndpoint(e) == e \notin endpoints /\ endpoints' = endpoints \cup {e} /\ UNCHANGED routes
UnregisterEndpoint(e) == e \in endpoints /\ endpoints' = endpoints \ {e} /\ UNCHANGED routes

(* ozayn_ior_route_create: the first free slot.                            *)
CreateRoute(stream, source, destination) ==
  /\ source # destination
  /\ Routed # 1..MaxRoutes
  /\ LET i == CHOOSE f \in 1..MaxRoutes \ Routed : \A g \in 1..MaxRoutes \ Routed : f <= g
     IN routes' = [routes EXCEPT ![i] =
          [stream |-> stream, source |-> source, destination |-> destination,
           state |-> "REQUESTED"]]
  /\ UNCHANGED endpoints

(* ozayn_ior_route_authorize: through VALIDATING, or FAILED; the refusal   *)
(* of an overdue route is EndRoute.                                        *)
AuthorizeRoute(i) ==
  LET r == routes[i]
      admitted == {r.source, r.destination} \subseteq endpoints /\ ~CheckLoop(r.source, r.destination)
  IN /\ i \in Routed /\ r.state = "REQUESTED"
     /\ routes' = [routes EXCEPT ![i] =
          IF admitted THEN [r EXCEPT !.state = "AUTHORIZED"] ELSE NoRoute]
     /\ UNCHANGED endpoints

(* ozayn_ior_route_connect, _activate, _pause and _resume: _activate and   *)
(* _resume are one transition of the table.                                *)
RouteMoves ==
  {<<"AUTHORIZED", "CONNECTING">>, <<"CONNECTING", "ACTIVE">>, <<"ACTIVE", "PAUSED">>,
   <<"PAUSED", "ACTIVE">>}
MoveRoute(i, to) ==
  /\ i \in Routed /\ <<routes[i].state, to>> \in RouteMoves
  /\ routes' = [routes EXCEPT ![i].state = to]
  /\ UNCHANGED endpoints

(* ozayn_ior_route_disconnect, _close and _revoke, which no state refuses, *)
(* ozayn_ior_route_authorize of an overdue route, ozayn_ior_stream_closed, *)
(* and ozayn_ior_cleanup_expired_routes and _idle_routes.                  *)
EndRoutes(ending) ==
  /\ ending # {}
  /\ routes' = [i \in DOMAIN routes |-> IF i \in ending THEN NoRoute ELSE routes[i]]
  /\ UNCHANGED endpoints
EndRoute(i) == i \in Routed /\ EndRoutes({i})
StreamClosed(stream) == EndRoutes({i \in Routed : routes[i].stream = stream})
CleanupRoutes == \E overdue \in SUBSET Routed : EndRoutes(overdue)

RouteNext ==
  \/ \E e \in Endpoints : RegisterEndpoint(e) \/ UnregisterEndpoint(e)
  \/ \E stream \in Streams, a, b \in Endpoints : CreateRoute(stream, a, b)
  \/ \E i \in 1..MaxRoutes :
       \/ AuthorizeRoute(i) \/ EndRoute(i)
       \/ \E to \in {"CONNECTING", "ACTIVE", "PAUSED"} : MoveRoute(i, to)
  \/ \E stream \in Streams : StreamClosed(stream)
  \/ CleanupRoutes

(***************************************************************************)
(* Properties.                                                             *)
(***************************************************************************)

RouteTypeOK ==
  /\ endpoints \subseteq Endpoints
  /\ routes \in [1..MaxRoutes ->
       {NoRoute} \cup [stream : Streams, source : Endpoints, destination : Endpoints,
                       state : {"REQUESTED", "AUTHORIZED", "CONNECTING", "ACTIVE", "PAUSED"}]]

(* Nothing goes round: the routes that were let through never close a      *)
(* circle, in whatever order they were asked for and let through and       *)
(* whichever of them ended in between - each was looked at on its own, and *)
(* only once (_check_loop, ozayn_ior_route_authorize).  A set of routes    *)
(* closes a circle if each of them goes on where another of them starts.   *)
LetThrough == {i \in Routed : routes[i].state # "REQUESTED"}
RoutesAcyclic ==
  \A circle \in (SUBSET LetThrough) \ {{}} :
    \E i \in circle : \A j \in circle : routes[j].source # routes[i].destination

RoutesSafe == RouteTypeOK /\ RoutesAcyclic

(* What the router does not keep: both ends of a route that was let        *)
(* through are registered.                                                 *)
EndsRegistered == \A i \in LetThrough : {routes[i].source, routes[i].destination} \subseteq endpoints
=============================================================================
