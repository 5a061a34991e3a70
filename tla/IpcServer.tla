------------------------------ MODULE IpcServer ------------------------------
(* The IPC server (src/core/ipc.c) with the two managers it asks: security *)
(* (src/core/security.c), who a peer is, and authorization                 *)
(* (src/core/authorization.c), what an identity may do.  Clients are other *)
(* processes: they connect, send and go away between any two steps of the  *)
(* server.  A pass of the server accepts one connection and then looks at  *)
(* every slot once; `turn' is where it stands.  The core's own calls, such *)
(* as revoking an identity, fall between two passes, for there is one      *)
(* thread.  PING, EVENT and answers from a client change nothing and are   *)
(* left out, and so is the core's own identity.                            *)
EXTENDS Integers, Sequences, FiniteSets

CONSTANTS
  Peers,       \* sockets of clients, each connected once
  Slots,       \* OZAYN_IPC_MAX_CONN
  Ids,         \* identities a HELLO may claim
  Uids,        \* the sets of peers whose uid the checks may let pass
  InParts,     \* kinds of messages that may come in two parts
  MaxUnread    \* bound: parts of messages of a peer that are not read

ASSUME IpcAssumption ==
  Slots \in Nat \ {0} /\ Uids \subseteq SUBSET Peers /\ MaxUnread \in Nat

Stopped == -1   \* `turn' of a server that was shut down
NoPeer == "nobody"
NoId == "unnamed"

VARIABLES
  line,        \* a peer's end: away, open, owing (the rest of a message it has
               \* begun), shut (it sends no more), closed
  backlog,     \* peers that have connected and are not accepted yet, in order
  inbox,       \* what a peer has sent and the server has not read
  slots,       \* the connections: state, peer, id
  connCount,   \* `conn_count'
  turn,        \* 0 between two passes, i before slot i is looked at, Stopped
  said,        \* history: how many connections ended with a BYE
  answered,    \* history: the peers whose request the last step answered
  mayClaim,    \* the peers whose uid passes for an identity
  trust,       \* trust of an identity: absent, TRUSTED, REVOKED
  role,        \* what the role is: absent, plain, or granting ipc.request
  bound        \* identities that have the role

linkVars == <<line, backlog, inbox>>
serverVars == <<slots, connCount, said>>
policyVars == <<mayClaim, trust, role, bound>>
ipcVars == <<linkVars, serverVars, policyVars, turn, answered>>

SlotStates == {"DISCONNECTED", "HANDSHAKING", "READY"}
Kinds == {"HELLO", "REQUEST", "BYE"}

(* A message, or its first part: the header, or less.  What comes after it *)
(* is the rest; a rest whose first part is gone will be read as a header.  *)
Message == {m \in [kind : Kinds, id : Ids, whole : BOOLEAN] : m.whole \/ m.kind \in InParts}
Rest == [kind |-> "REST", id |-> NoId, whole |-> FALSE]

Free == [state |-> "DISCONNECTED", peer |-> NoPeer, id |-> NoId]
Live == {i \in 1..Slots : slots[i].state # "DISCONNECTED"}

IpcInit ==
  /\ line = [p \in Peers |-> "away"] /\ backlog = <<>>
  /\ inbox = [p \in Peers |-> <<>>]
  /\ slots = [i \in 1..Slots |-> Free] /\ connCount = 0 /\ turn = 0
  /\ said = 0 /\ answered = {}
  /\ mayClaim \in [Ids -> Uids] /\ trust = [d \in Ids |-> "TRUSTED"] /\ role = "grants" /\ bound = {}
-----------------------------------------------------------------------------
(* Clients *)

Connect(p) ==
  /\ line[p] = "away" /\ line' = [line EXCEPT ![p] = "open"]
  /\ backlog' = Append(backlog, p) /\ UNCHANGED inbox

(* A message in two parts keeps the peer busy until it has sent the rest.  *)
Send(p, m) ==
  /\ line[p] = "open" /\ Len(inbox[p]) < MaxUnread
  /\ inbox' = [inbox EXCEPT ![p] = Append(@, m)]
  /\ line' = [line EXCEPT ![p] = IF m.whole THEN "open" ELSE "owing"]
  /\ UNCHANGED backlog

SendRest(p) ==
  /\ line[p] = "owing" /\ Len(inbox[p]) < MaxUnread /\ line' = [line EXCEPT ![p] = "open"]
  /\ inbox' = [inbox EXCEPT ![p] = Append(@, Rest)]
  /\ UNCHANGED backlog

(* The client ends its own direction, or closes its socket.  The server    *)
(* sees a hang-up before it reads, so what it has not read then is lost.   *)
Leave(p, how) ==
  /\ line[p] \in {"open", "owing"} /\ line' = [line EXCEPT ![p] = how]
  /\ inbox' = IF how = "closed" THEN [inbox EXCEPT ![p] = <<>>] ELSE inbox
  /\ UNCHANGED backlog

Client ==
  /\ turn # Stopped /\ answered' = {} /\ UNCHANGED <<turn, serverVars, policyVars>>
  /\ \E p \in Peers :
       \/ Connect(p) \/ SendRest(p)
       \/ \E m \in Message : Send(p, m)
       \/ \E how \in {"shut", "closed"} : Leave(p, how)
-----------------------------------------------------------------------------
(* The server *)

Pass == turn' = (turn + 1) % (Slots + 1) /\ UNCHANGED policyVars

(* The first free slot is wiped and taken.  Were there none, the socket    *)
(* would be open and nobody's.                                             *)
Accept ==
  /\ turn = 0 /\ Pass /\ answered' = {} /\ UNCHANGED <<line, inbox, said>>
  /\ IF connCount < Slots /\ backlog # <<>>
       THEN /\ backlog' = Tail(backlog)
            /\ IF Live = 1..Slots
                 THEN UNCHANGED <<slots, connCount>>
                 ELSE LET i == CHOOSE f \in (1..Slots) \ Live :
                                 \A g \in (1..Slots) \ Live : f <= g
                      IN /\ slots' = [slots EXCEPT ![i] =
                              [state |-> "HANDSHAKING", peer |-> Head(backlog), id |-> NoId]]
                         /\ connCount' = connCount + 1
       ELSE UNCHANGED <<backlog, slots, connCount>>

(* A connection that ends.  What its peer does later reaches nobody.       *)
End(i) ==
  /\ slots' = [slots EXCEPT ![i] = Free]
  /\ line' = [line EXCEPT ![slots[i].peer] = "closed"]
  /\ inbox' = [inbox EXCEPT ![slots[i].peer] = <<>>]
  /\ answered' = {}

(* remove_connection, and the count beside it.                             *)
Disconnect_Twice(i) ==   \* mutant: the end of the loop counts a hang-up again
  End(i) /\ connCount' = connCount - 2 /\ UNCHANGED said

Disconnect(i) == End(i) /\ connCount' = connCount - 1 /\ UNCHANGED said

(* The search for another holder stops at the count, as the code's does.   *)
Claimed(i, d) ==
  \E j \in 1..connCount : j # i /\ slots[j].state = "READY" /\ slots[j].id = d

Authenticates(p, d) == trust[d] = "TRUSTED" /\ p \in mayClaim[d]

(* ozayn_authorize(identity, "ipc", "request")                             *)
Authorized_ByRole(d) == role = "grants" /\ d \in bound   \* mutant: trust is not asked

Authorized(d) == trust[d] = "TRUSTED" /\ role = "grants" /\ d \in bound

Keep(p, rest) == inbox' = [inbox EXCEPT ![p] = rest] /\ UNCHANGED line
Unmoved == answered' = {} /\ UNCHANGED serverVars

(* Ignored once READY; refused, and the connection with it, if the name is *)
(* taken or does not authenticate.                                         *)
Hello(i, d, rest) ==
  \/ slots[i].state = "READY" /\ Keep(slots[i].peer, rest) /\ Unmoved
  \/ /\ slots[i].state = "HANDSHAKING"
     /\ IF Claimed(i, d) \/ ~Authenticates(slots[i].peer, d)
          THEN Disconnect(i)
          ELSE /\ Keep(slots[i].peer, rest)
               /\ slots' = [slots EXCEPT ![i].state = "READY", ![i].id = d]
               /\ answered' = {} /\ UNCHANGED <<connCount, said>>

(* Answered as the identity stands now, not as it stood at the handshake.  *)
Request(i, rest) ==
  /\ Keep(slots[i].peer, rest) /\ UNCHANGED serverVars
  /\ answered' = IF slots[i].state = "READY" /\ Authorized(slots[i].id)
                   THEN {slots[i].peer} ELSE {}

(* The slot is free again; the socket stays open and the count as it is.   *)
Bye(i) == End(i) /\ said' = said + 1 /\ UNCHANGED connCount

(* The rest of a message whose first part was dropped is read as a header: *)
(* it goes alone, or takes with it the beginning of what comes next.       *)
Misread(p) ==
  /\ Unmoved
  /\ \/ Keep(p, Tail(inbox[p]))
     \/ Len(inbox[p]) > 1 /\ Keep(p, <<Rest>> \o SubSeq(inbox[p], 3, Len(inbox[p])))

(* A message is read to its end, or, when the rest has not come in 50 ms,  *)
(* its first part is gone.                                                 *)
ReadMessage(i, p, m) ==
  \/ m.kind = "REST" /\ Misread(p)
  \/ ~m.whole /\ m.kind # "REST" /\ Len(inbox[p]) = 1 /\ Keep(p, <<>>) /\ Unmoved
  \/ /\ m.whole \/ Len(inbox[p]) > 1
     /\ LET rest == SubSeq(inbox[p], IF m.whole THEN 2 ELSE 3, Len(inbox[p])) IN
        \/ m.kind = "HELLO" /\ Hello(i, m.id, rest)
        \/ m.kind = "REQUEST" /\ Request(i, rest)
        \/ m.kind = "BYE" /\ Bye(i)

(* One look at a slot.                                                     *)
Serve(i) ==
  LET p == slots[i].peer IN
  /\ turn = i /\ Pass /\ UNCHANGED backlog
  /\ IF i \notin Live THEN UNCHANGED <<line, inbox>> /\ Unmoved
     ELSE IF inbox[p] = <<>> THEN
       IF line[p] \in {"shut", "closed"} THEN Disconnect(i) ELSE UNCHANGED <<line, inbox>> /\ Unmoved
     ELSE ReadMessage(i, p, Head(inbox[p]))

(* The connections up to the count are told and closed; the others stay.   *)
StopServer ==
  /\ turn = 0 /\ turn' = Stopped /\ connCount' = 0
  /\ slots' = [i \in 1..Slots |-> IF i <= connCount THEN Free ELSE slots[i]]
  /\ answered' = {} /\ UNCHANGED <<linkVars, said, policyVars>>
-----------------------------------------------------------------------------
(* What the core does to identities and roles between two passes *)

TrustOf(d, from, to) ==
  trust[d] \in from /\ trust' = [trust EXCEPT ![d] = to] /\ UNCHANGED <<role, bound>>

RegisterIdentity(d) == TrustOf(d, {"absent"}, "TRUSTED")
RevokeIdentity(d) == TrustOf(d, {"TRUSTED"}, "REVOKED")
RemoveIdentity(d) == TrustOf(d, {"TRUSTED", "REVOKED"}, "absent")

RoleBecomes(from, to) ==
  role = from /\ role' = to /\ UNCHANGED <<trust, bound>>

CreateRole == RoleBecomes("absent", "plain")
AddPermission == RoleBecomes("plain", "grants")
RemovePermission == RoleBecomes("grants", "plain")

(* A role that goes is taken from everybody who has it.                    *)
DestroyRole == role # "absent" /\ role' = "absent" /\ bound' = {} /\ UNCHANGED trust

(* Neither asks whether the identity exists.                               *)
AssignRole(d) ==
  role # "absent" /\ d \notin bound /\ bound' = bound \cup {d} /\ UNCHANGED <<trust, role>>
RevokeRole(d) == d \in bound /\ bound' = bound \ {d} /\ UNCHANGED <<trust, role>>

Policy ==
  /\ turn = 0 /\ answered' = {} /\ UNCHANGED <<turn, linkVars, serverVars, mayClaim>>
  /\ \/ CreateRole \/ AddPermission \/ RemovePermission \/ DestroyRole
     \/ \E d \in Ids : \/ RegisterIdentity(d) \/ RevokeIdentity(d) \/ RemoveIdentity(d)
                       \/ AssignRole(d) \/ RevokeRole(d)

IpcNext == Client \/ Accept \/ (\E i \in 1..Slots : Serve(i)) \/ StopServer \/ Policy

IpcSpec == IpcInit /\ [][IpcNext]_ipcVars
-----------------------------------------------------------------------------
IpcTypeOK ==
  /\ line \in [Peers -> {"away", "open", "owing", "shut", "closed"}]
  /\ backlog \in Seq(Peers) /\ inbox \in [Peers -> Seq(Message \cup {Rest})]
  /\ answered \subseteq Peers
  /\ slots \in [1..Slots -> [state : SlotStates, peer : Peers \cup {NoPeer}, id : Ids \cup {NoId}]]
  /\ connCount \in 0..Slots /\ said \in Nat /\ turn \in Stopped..Slots
  /\ mayClaim \in [Ids -> Uids] /\ trust \in [Ids -> {"absent", "TRUSTED", "REVOKED"}]
  /\ role \in {"absent", "plain", "grants"} /\ bound \subseteq Ids

(* The count beside the table is never below the connections it counts, so *)
(* an accepted socket finds a slot (ipc.c:727): what it counts too much    *)
(* are exactly the connections that ended with a BYE.                      *)
CountCovers == turn # Stopped => connCount = Cardinality(Live) + said

(* A socket has one connection at most, and none while it waits.           *)
OwnConnection ==
  /\ \A i, j \in Live : slots[i].peer = slots[j].peer => i = j
  /\ \A i \in Live, k \in DOMAIN backlog : slots[i].peer # backlog[k]

(* Who is READY may be who it says, also in a slot used before.            *)
ReadyMayClaim ==
  \A i \in Live : slots[i].state = "READY" => slots[i].peer \in mayClaim[slots[i].id]

(* Nobody holds a role that is gone, and would get the rights of the next  *)
(* one of that name.                                                       *)
BoundRolesExist == role = "absent" => bound = {}

IpcSafe ==
  IpcTypeOK /\ CountCovers /\ OwnConnection /\ ReadyMayClaim /\ BoundRolesExist

(* A request is answered only while the identity of its connection is      *)
(* trusted and has a role that grants it, whatever was true at the         *)
(* handshake (authorization.c:624, :648).                                  *)
AnswersAuthorized ==
  \A p \in answered : \E i \in Live :
    /\ slots[i].peer = p /\ slots[i].state = "READY"
    /\ trust[slots[i].id] = "TRUSTED" /\ slots[i].id \in bound /\ role = "grants"
-----------------------------------------------------------------------------
(* Do not hold.  A slot is free and somebody waits, but the count is at    *)
(* its maximum: each BYE has left one in it (ipc.c:452).                   *)
AcceptsWhileFree ==
  backlog # <<>> /\ Live # 1..Slots /\ turn = 0 => connCount < Slots

(* Two connections READY under one name: the search for the first stops at *)
(* the count (ipc.c:360).  Needs three slots.                              *)
ReadyIdsUnique ==
  \A i, j \in Live : slots[i].state = "READY" /\ slots[j].state = "READY"
                     /\ slots[i].id = slots[j].id => i = j

(* The shutdown closes connections up to the count only (ipc.c:657).       *)
StoppedIsEmpty == turn = Stopped => Live = {}

(* What is not complete within 50 ms is not read again, though ipc.c says  *)
(* "will retry next cycle": its rest is taken for a header.                *)
NothingMisread == \A p \in Peers : inbox[p] # <<>> => Head(inbox[p]) # Rest
=============================================================================
