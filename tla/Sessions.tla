------------------------------ MODULE Sessions ------------------------------
(***************************************************************************)
(* The session service (03_SECURITY/session_management.c) over the         *)
(* identity service it asks: sessions opened by a successful               *)
(* authentication, kept alive by activity, ended by logout, revocation,    *)
(* expiry or the state of their owner.                                     *)
(*                                                                         *)
(* A time stamp is modelled by the time left until it (0 once it has       *)
(* passed): the code only compares stamps with the clock.                  *)
(***************************************************************************)
EXTENDS Identities, Sequences

CONSTANTS
  MaxSessions,     \* policy.max_sessions_total
  MaxPerIdentity,  \* policy.max_sessions_per_identity
  IdleTimeout,     \* policy.idle_timeout_seconds, in units of time
  Lifetime         \* policy.absolute_lifetime_seconds, in units of time

ASSUME SessionAssumption ==
  /\ MaxSessions \in Nat \ {0} /\ MaxPerIdentity \in Nat \ {0}
  /\ IdleTimeout \in Nat \ {0} /\ Lifetime \in Nat /\ IdleTimeout <= Lifetime

VARIABLES
  sessions, \* svc->sessions[0 .. session_count-1]; no slot is ever used again
  proof,    \* proof[i]: the age of the last successful authentication response
            \* of i a caller still holds, or Lifetime + 1 if there is none
  use,      \* history, per session: time since its authentication and since its
            \* last activity
  admitted, \* history: the session the last step accepted, 0 if it accepted none
  refused   \* history: the sessions a caller was ever refused

sessionVars == <<identityVars, sessions, proof, use, admitted, refused>>

Ended == {"EXPIRED", "REVOKED", "TERMINATED"}
Session == [owner : Ids, state : {"ACTIVE"} \cup Ended,
            idle : 0..IdleTimeout,   \* until expires_at
            life : 0..Lifetime]      \* until absolute_expires_at
Use == [age : 0..(Lifetime + 1), quiet : 0..(Lifetime + 1)]

Older(a) == IF a > Lifetime THEN a ELSE a + 1
Left(span, age) == IF age > span THEN 0 ELSE span - age

SessionInit ==
  /\ IdentityInit /\ sessions = <<>> /\ use = <<>>
  /\ proof = [i \in Ids |-> Lifetime + 1]
  /\ admitted = 0 /\ refused = {}

(* A step that answers no presentation.                                    *)
NoAnswer == admitted' = 0 /\ UNCHANGED refused

(* _count_sessions_for_identity                                            *)
ActiveOf(i) == {s \in DOMAIN sessions :
                  sessions[s].owner = i /\ sessions[s].state = "ACTIVE"}

(* The authentication service hands out a response for an active identity. *)
Authenticate(i) ==
  /\ identity[i] = "ACTIVE"
  /\ proof' = [proof EXCEPT ![i] = 0]
  /\ UNCHANGED <<identityVars, sessions, use>> /\ NoAnswer

(* The lifetimes start at the authentication, not at the call.             *)
Opened(i) == [owner |-> i, state |-> "ACTIVE",
              idle |-> Left(IdleTimeout, proof[i]), life |-> Left(Lifetime, proof[i])]

(* ozayn_sess_create.  The response may be old and may be used again.      *)
OpenSession(i) ==
  /\ proof[i] <= Lifetime
  /\ i \in Known /\ identity[i] \notin {"REVOKED", "SUSPENDED"}
  /\ Len(sessions) < MaxSessions
  /\ Cardinality(ActiveOf(i)) < MaxPerIdentity
  /\ sessions' = Append(sessions, Opened(i))
  /\ use' = Append(use, [age |-> proof[i], quiet |-> proof[i]])
  /\ UNCHANGED <<identityVars, proof>> /\ NoAnswer

Overdue(s) == sessions[s].idle = 0 \/ sessions[s].life = 0
End(s, state) == sessions' = [sessions EXCEPT ![s].state = state]
Refuse(s) == admitted' = 0 /\ refused' = refused \cup {s}

(* ozayn_sess_validate: a session that is overdue, or whose owner is gone, *)
(* revoked or suspended, ends now.                                         *)
ValidateSession_Lenient(s) ==           \* mutant: a suspended owner does not end it
  LET owner == sessions[s].owner
      barred == owner \notin Known \/ identity[owner] \in {"REVOKED", "SUSPENDED"}
  IN
  /\ UNCHANGED <<identityVars, proof, use>>
  /\ \/ (sessions[s].state # "ACTIVE" \/ barred) /\ UNCHANGED sessions /\ Refuse(s)
     \/ sessions[s].state = "ACTIVE" /\ Overdue(s) /\ End(s, "EXPIRED") /\ Refuse(s)
     \/ /\ sessions[s].state = "ACTIVE" /\ ~Overdue(s) /\ ~barred
        /\ UNCHANGED <<sessions, refused>>
        /\ admitted' = s
ValidateSession(s) ==
  LET owner == sessions[s].owner
      barred == owner \notin Known \/ identity[owner] \in {"REVOKED", "SUSPENDED"}
  IN
  /\ UNCHANGED <<identityVars, proof, use>>
  /\ \/ sessions[s].state # "ACTIVE" /\ UNCHANGED sessions /\ Refuse(s)
     \/ sessions[s].state = "ACTIVE" /\ Overdue(s) /\ End(s, "EXPIRED") /\ Refuse(s)
     \/ /\ sessions[s].state = "ACTIVE" /\ ~Overdue(s) /\ barred
        /\ End(s, "REVOKED") /\ Refuse(s)
     \/ /\ sessions[s].state = "ACTIVE" /\ ~Overdue(s) /\ ~barred
        /\ UNCHANGED <<sessions, refused>>
        /\ admitted' = s

(* ozayn_sess_touch: whatever is left, and whoever owns it.                *)
TouchSession(s) ==
  /\ sessions[s].state = "ACTIVE"
  /\ sessions' = [sessions EXCEPT ![s].idle = IdleTimeout]
  /\ use' = [use EXCEPT ![s].quiet = 0]
  /\ UNCHANGED <<identityVars, proof>> /\ NoAnswer

(* ozayn_sess_terminate and ozayn_sess_revoke: a session found overdue     *)
(* expires instead, and the caller is told that the transition is invalid. *)
EndSession(s, state) ==
  /\ sessions[s].state = "ACTIVE"
  /\ End(s, IF Overdue(s) THEN "EXPIRED" ELSE state)
  /\ UNCHANGED <<identityVars, proof, use>> /\ NoAnswer

(* ozayn_sess_expire                                                       *)
Swept(s) == IF sessions[s].state = "ACTIVE" /\ Overdue(s)
            THEN [sessions[s] EXCEPT !.state = "EXPIRED"] ELSE sessions[s]
ExpireSessions ==
  /\ sessions' = [s \in DOMAIN sessions |-> Swept(s)]
  /\ UNCHANGED <<identityVars, proof, use>> /\ NoAnswer

(* One unit of time.                                                       *)
SessionElapse ==
  /\ proof' = [i \in Ids |-> Older(proof[i])]
  /\ sessions' = [s \in DOMAIN sessions |->
       [sessions[s] EXCEPT !.idle = Left(@, 1), !.life = Left(@, 1)]]
  /\ use' = [s \in DOMAIN use |-> [age |-> Older(use[s].age),
                                   quiet |-> Older(use[s].quiet)]]
  /\ UNCHANGED identityVars /\ NoAnswer

SessionNext ==
  \/ IdentityNext /\ UNCHANGED <<sessions, proof, use>> /\ NoAnswer
  \/ \E i \in Ids : Authenticate(i) \/ OpenSession(i)
  \/ \E s \in DOMAIN sessions :
       \/ ValidateSession(s) \/ TouchSession(s)
       \/ \E state \in {"TERMINATED", "REVOKED"} : EndSession(s, state)
  \/ ExpireSessions \/ SessionElapse

SessionTypeOK ==
  /\ IdentityTypeOK
  /\ sessions \in Seq(Session) /\ Len(sessions) <= MaxSessions
  /\ proof \in [Ids -> 0..(Lifetime + 1)]
  /\ use \in Seq(Use) /\ Len(use) = Len(sessions)
  /\ admitted \in 0..Len(sessions) /\ refused \subseteq DOMAIN sessions

-----------------------------------------------------------------------------
(* An accepted session was opened by an authentication younger than its    *)
(* absolute lifetime and has seen activity within the idle timeout,        *)
(* however late its session was opened after the authentication and        *)
(* however often it was touched (session_management.c:292, 430).           *)
AdmittedInTime ==
  admitted # 0 => /\ use[admitted].age < Lifetime
                  /\ use[admitted].quiet < IdleTimeout

(* A session that was refused once, because it was overdue, ended, or its  *)
(* owner was suspended, is never accepted again, also when it is touched   *)
(* later or the owner is reactivated.  (One that is overdue while nobody   *)
(* presents it is revived by a touch: session_management.c:430.)           *)
RefusedForGood == admitted \notin refused

(* An identity never has more sessions that could be accepted, at once or  *)
(* after a touch, than the policy allows it (session_management.c:186).    *)
PerIdentityLimit ==
  \A i \in Ids :
    Cardinality({s \in DOMAIN sessions :
      sessions[s].owner = i /\ sessions[s].state = "ACTIVE"}) <= MaxPerIdentity

(* The session table together with the identities it is about, whatever    *)
(* time passes between an authentication, the session and its uses, and    *)
(* whichever writes to the vault fail.                                     *)
SessionsSafe ==
  SessionTypeOK /\ AdmittedInTime /\ RefusedForGood /\ PerIdentityLimit /\ VaultFollows

(* "Requires: identity in ACTIVE state" (session_management.h:173), said   *)
(* of the creation of a session.                                           *)
OpenedForActive ==
  [][Len(sessions') > Len(sessions) =>
       identity[sessions'[Len(sessions')].owner] = "ACTIVE"]_sessionVars
=============================================================================
