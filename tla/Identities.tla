----------------------------- MODULE Identities -----------------------------
(***************************************************************************)
(* The identity service (03_SECURITY/identity.c): a table of identities    *)
(* whose states follow a fixed order, each with a copy in the secure       *)
(* vault.  The table and the vault are written one after the other, and    *)
(* the vault may refuse.                                                   *)
(*                                                                         *)
(* Identifiers carry a counter (_generate_id), so that one which was       *)
(* removed is never given out again.                                       *)
(***************************************************************************)
EXTENDS Integers, FiniteSets

CONSTANTS
  Ids,           \* the identifiers that will be generated, each once
  MaxIdentities  \* OZAYN_ID_MAX_IDENTITIES

ASSUME IdentityAssumption == IsFiniteSet(Ids) /\ MaxIdentities \in Nat

VARIABLES
  identity, \* identity[i]: the state in the service's table
  vault     \* vault[i]: the state in the copy the vault holds

identityVars == <<identity, vault>>

IdentityStates == {"ACTIVE", "SUSPENDED", "REVOKED", "ARCHIVED"}
Known == {i \in Ids : identity[i] \in IdentityStates}

IdentityInit ==
  /\ identity = [i \in Ids |-> "UNUSED"]
  /\ vault = [i \in Ids |-> "NONE"]

(* ozayn_id_validate_state_transition                                      *)
IdentityMoves == {<<"ACTIVE", "SUSPENDED">>, <<"ACTIVE", "REVOKED">>,
                  <<"SUSPENDED", "ACTIVE">>, <<"SUSPENDED", "REVOKED">>,
                  <<"REVOKED", "ARCHIVED">>}

(* ozayn_id_create: the entry is taken back when the vault refuses.        *)
CreateIdentity(i) ==
  /\ identity[i] = "UNUSED" /\ Cardinality(Known) < MaxIdentities
  /\ \/ /\ identity' = [identity EXCEPT ![i] = "ACTIVE"]
        /\ vault' = [vault EXCEPT ![i] = "ACTIVE"]
     \/ /\ identity' = [identity EXCEPT ![i] = "REMOVED"]   \* the identifier is spent
        /\ UNCHANGED vault

(* _transition_state, for suspend, reactivate, revoke and archive.  When   *)
(* the vault refuses the table keeps the new state.                        *)
MoveIdentity(i, to) ==
  /\ i \in Known /\ <<identity[i], to>> \in IdentityMoves
  /\ identity' = [identity EXCEPT ![i] = to]
  /\ \/ vault' = [vault EXCEPT ![i] = to]
     \/ UNCHANGED vault

(* ozayn_id_update writes the whole entry, its state included.             *)
UpdateIdentity(i) ==
  /\ i \in Known /\ identity[i] \in {"ACTIVE", "SUSPENDED"}
  /\ vault' = [vault EXCEPT ![i] = identity[i]]
  /\ UNCHANGED identity

(* ozayn_id_remove: only when the vault agreed.                            *)
RemoveIdentity(i) ==
  /\ i \in Known
  /\ vault' = [vault EXCEPT ![i] = "NONE"]
  /\ identity' = [identity EXCEPT ![i] = "REMOVED"]

IdentityNext ==
  \E i \in Ids :
    \/ CreateIdentity(i) \/ UpdateIdentity(i) \/ RemoveIdentity(i)
    \/ \E to \in IdentityStates : MoveIdentity(i, to)

IdentityTypeOK ==
  /\ identity \in [Ids -> IdentityStates \cup {"UNUSED", "REMOVED"}]
  /\ vault \in [Ids -> IdentityStates \cup {"NONE"}]
  /\ Cardinality(Known) <= MaxIdentities

-----------------------------------------------------------------------------
(* What the state of an identity may have been before it became s.         *)
MayHaveBeen(s) ==
  CASE s \in {"ACTIVE", "SUSPENDED"} -> {"ACTIVE", "SUSPENDED"}
    [] s = "REVOKED" -> {"ACTIVE", "SUSPENDED", "REVOKED"}
    [] s = "ARCHIVED" -> IdentityStates

(* However often the vault refuses, it holds a copy of exactly the         *)
(* identities the table knows, and the copy may be behind the table but    *)
(* never ahead of it (identity.c:301, 409, 470).                           *)
VaultFollows ==
  \A i \in Ids : IF i \in Known THEN vault[i] \in MayHaveBeen(identity[i])
                               ELSE vault[i] = "NONE"
=============================================================================
