------------------------------ MODULE KeyVault ------------------------------
(***************************************************************************)
(* The secure vault, the versions of the key it seals its objects with,    *)
(* and the ways an object or a key is destroyed (03_SECURITY:              *)
(* key_lifecycle.c, secure_vault.c, deletion.c), with the backup packages  *)
(* taken of the vault (backup.c).                                          *)
(*                                                                         *)
(* The vault keeps an entry per object in memory, with the version of the  *)
(* key that sealed it; the sealed object is in the storage provider.  Only *)
(* the key named "VAULT" matters here.  ozayn_kl_transition, which nothing *)
(* but its tests calls, is left out: it moves a version without moving     *)
(* active_version_index.                                                   *)
(***************************************************************************)
EXTENDS Integers, FiniteSets

CONSTANTS
  Objects,     \* identifiers of objects
  MaxObjects,  \* OZAYN_VAULT_MAX_OBJECTS
  MaxVersions  \* OZAYN_KL_MAX_KEY_VERSIONS; a version's slot is never freed

ASSUME VaultAssumption ==
  IsFiniteSet(Objects) /\ MaxObjects \in Nat /\ MaxVersions \in Nat \ {0}

VARIABLES
  lifecycle, \* lifecycle[v]: of version v of the key, "NONE" before it is added
  current,   \* the version at active_version_index, 0 when it is -1
  sealed,    \* sealed[o]: key_version of the entry of o, 0 without an entry
  stored,    \* the objects the storage provider holds
  package,   \* the objects of the backup being taken, or last taken
  bkState,   \* of the backup service
  revoked,   \* versions somebody revoked by their number (history)
  erased,    \* versions that sealed an object when it was erased (history)
  lost       \* objects a restore removed and that are still away (history)

keyVars == <<lifecycle, current>>
vaultVars == <<sealed, stored>>
backupVars == <<package, bkState>>
keyVaultVars == <<keyVars, vaultVars, backupVars, revoked, erased, lost>>

Versions == 1..MaxVersions
Lifecycles == {"AVAILABLE", "ACTIVE", "RETIRED", "REVOKED"}
Usable == {"AVAILABLE", "ACTIVE", "RETIRED"}    \* ozayn_kl_is_usable
Entries == {o \in Objects : sealed[o] # 0}
Added == {v \in Versions : lifecycle[v] # "NONE"}

KeyVaultInit ==
  /\ lifecycle = [v \in Versions |-> "NONE"] /\ current = 0
  /\ sealed = [o \in Objects |-> 0] /\ stored = {}
  /\ package = {} /\ bkState = "READY"
  /\ revoked = {} /\ erased = {} /\ lost = {}

-----------------------------------------------------------------------------
(* ozayn_kl_activate retires the version at the index.                     *)
Activated(lc, v) ==
  [w \in Versions |-> CASE w = v -> "ACTIVE"
                        [] w = current /\ lc[w] = "ACTIVE" -> "RETIRED"
                        [] OTHER -> lc[w]]

AddVersion(v) ==
  /\ lifecycle[v] = "NONE"
  /\ lifecycle' = [lifecycle EXCEPT ![v] = "AVAILABLE"]
  /\ UNCHANGED <<current, vaultVars, backupVars, revoked, erased, lost>>

ActivateVersion(v) ==
  /\ lifecycle[v] = "AVAILABLE"
  /\ lifecycle' = Activated(lifecycle, v) /\ current' = v
  /\ UNCHANGED <<vaultVars, backupVars, revoked, erased, lost>>

RetireVersion(v) ==
  /\ lifecycle[v] = "ACTIVE"
  /\ lifecycle' = [lifecycle EXCEPT ![v] = "RETIRED"]
  /\ current' = IF current = v THEN 0 ELSE current
  /\ UNCHANGED <<vaultVars, backupVars, revoked, erased, lost>>

(* ozayn_kl_revoke; whoever calls it.                                      *)
Revoke(v) ==
  /\ lifecycle[v] \in Usable
  /\ lifecycle' = [lifecycle EXCEPT ![v] = "REVOKED"]
  /\ current' = IF current = v THEN 0 ELSE current

RevokeVersion(v) ==
  /\ Revoke(v) /\ revoked' = revoked \cup {v}
  /\ UNCHANGED <<vaultVars, backupVars, erased, lost>>

(* ozayn_kl_rotate: a version above every other, active at once.           *)
Rotate ==
  \E v \in Versions :
    /\ v - 1 \in Added \cup {0} /\ \A w \in Added : w < v
    /\ lifecycle' = Activated(lifecycle, v) /\ current' = v
    /\ UNCHANGED <<vaultVars, backupVars, revoked, erased, lost>>

-----------------------------------------------------------------------------
(* ozayn_vault_store and ozayn_vault_update seal with the active version.  *)
(* A storage that refuses leaves everything as it was.                     *)
StoreObject(o) ==
  /\ sealed[o] = 0 /\ Cardinality(Entries) < MaxObjects
  /\ current # 0 /\ o \notin stored
  /\ stored' = stored \cup {o}
  /\ sealed' = [sealed EXCEPT ![o] = current] /\ lost' = lost \ {o}
  /\ UNCHANGED <<keyVars, backupVars, revoked, erased>>

UpdateObject(o) ==
  /\ sealed[o] # 0 /\ current # 0
  /\ sealed' = [sealed EXCEPT ![o] = current]
  /\ UNCHANGED <<keyVars, stored, backupVars, revoked, erased, lost>>

TakeOut(o) ==
  /\ sealed[o] # 0
  /\ stored' = stored \ {o}
  /\ sealed' = [sealed EXCEPT ![o] = 0]

(* ozayn_vault_remove, and ozayn_del_execute of type LOGICAL or STORAGE.   *)
RemoveObject(o) ==
  /\ TakeOut(o)
  /\ UNCHANGED <<keyVars, backupVars, revoked, erased, lost>>

(* ozayn_del_check_key_dependency: another object has the same version.    *)
KeyStillRequired_Never(o) == FALSE      \* mutant: not asked
KeyStillRequired(o) ==
  sealed[o] # 0 /\ \E q \in Entries \ {o} : sealed[q] = sealed[o]

(* ozayn_del_crypto_erasure: the object first, then its key.  That the key *)
(* cannot be revoked (it is already) is not an error.                      *)
EraseObject(o) ==
  /\ TakeOut(o) /\ ~KeyStillRequired(o)
  /\ \/ Revoke(sealed[o])
     \/ lifecycle[sealed[o]] = "REVOKED" /\ UNCHANGED keyVars
  /\ erased' = erased \cup {sealed[o]}
  /\ UNCHANGED <<backupVars, revoked, lost>>

(* ozayn_del_destroy_key: the dependency is that of the object, the        *)
(* version that of the caller.                                             *)
DestroyKey(o, v) ==
  /\ ~KeyStillRequired(o)
  /\ Revoke(v) /\ revoked' = revoked \cup {v}
  /\ UNCHANGED <<vaultVars, backupVars, erased, lost>>

(* ozayn_vault_shutdown and ozayn_vault_init: the entries are gone, the    *)
(* objects stay in the storage, where they stand in the way of a store.    *)
ReopenVault ==
  /\ sealed' = [o \in Objects |-> 0]
  /\ UNCHANGED <<keyVars, stored, backupVars, revoked, erased, lost>>

-----------------------------------------------------------------------------
(* ozayn_bk_create, ozayn_bk_add_object, ozayn_bk_finalize.  Only finalize *)
(* ends a backup, and only one that has an object.  The vault answers a    *)
(* load with metadata, so that a package holds no data.                    *)
CreateBackup ==
  /\ bkState = "READY"
  /\ package' = {} /\ bkState' = "BACKING_UP"
  /\ UNCHANGED <<keyVars, vaultVars, revoked, erased, lost>>

AddToBackup(o) ==
  /\ bkState = "BACKING_UP" /\ o \notin package
  /\ sealed[o] # 0 /\ lifecycle[sealed[o]] \in Usable
  /\ package' = package \cup {o}
  /\ UNCHANGED <<keyVars, vaultVars, bkState, revoked, erased, lost>>

FinalizeBackup ==
  /\ bkState = "BACKING_UP" /\ package # {}
  /\ bkState' = "READY"
  /\ UNCHANGED <<keyVars, vaultVars, package, revoked, erased, lost>>

(* ozayn_bk_restore of a finalized package: in mode NEW nothing is done,   *)
(* in mode REPLACE the objects are removed from the vault, those for which *)
(* the storage agrees, and nothing is put in their place.                  *)
RestoreReplace ==
  /\ bkState = "READY" /\ package # {}
  /\ \E gone \in SUBSET (package \cap Entries) :
       /\ lost' = lost \cup gone
       /\ stored' = stored \ gone
       /\ sealed' = [o \in Objects |-> IF o \in gone THEN 0 ELSE sealed[o]]
  /\ UNCHANGED <<keyVars, backupVars, revoked, erased>>

KeyVaultNext ==
  \/ Rotate \/ ReopenVault \/ CreateBackup \/ FinalizeBackup \/ RestoreReplace
  \/ \E v \in Versions :
       \/ AddVersion(v) \/ ActivateVersion(v) \/ RetireVersion(v) \/ RevokeVersion(v)
       \/ \E o \in Objects : DestroyKey(o, v)
  \/ \E o \in Objects :
       \/ StoreObject(o) \/ UpdateObject(o) \/ RemoveObject(o) \/ EraseObject(o)
       \/ AddToBackup(o)

-----------------------------------------------------------------------------
KeyVaultTypeOK ==
  /\ lifecycle \in [Versions -> Lifecycles \cup {"NONE"}]
  /\ current \in Versions \cup {0}
  /\ sealed \in [Objects -> Versions \cup {0}] /\ stored \subseteq Objects
  /\ package \subseteq Objects /\ bkState \in {"READY", "BACKING_UP"}
  /\ revoked \subseteq Versions /\ erased \subseteq Versions
  /\ Entries \subseteq stored /\ Cardinality(Entries) <= MaxObjects

(* However versions are added, rotated, retired, revoked and erased, at    *)
(* most one is ACTIVE and the index says which: no object is sealed with a *)
(* version that is retired or revoked (key_lifecycle.c:254, 339).          *)
SingleActive ==
  \A v \in Versions : lifecycle[v] = "ACTIVE" <=> current = v

(* Erasing one object never takes the key of another: an object in the     *)
(* vault can be opened unless somebody revoked its version by number       *)
(* (deletion.c:600).                                                       *)
ErasureSparesOthers ==
  \A o \in Entries : lifecycle[sealed[o]] \in Usable \/ sealed[o] \in revoked

(* What an object was sealed with when it was erased is revoked, and       *)
(* nothing in the vault is sealed with it again (deletion.c:627).          *)
ErasedForGood ==
  \A v \in erased : lifecycle[v] = "REVOKED" /\ \A o \in Objects : sealed[o] # v

(* Keys and vault together, over rotation, erasure, restores and restarts  *)
(* in any order.                                                           *)
KeysSafe == KeyVaultTypeOK /\ SingleActive /\ ErasureSparesOthers /\ ErasedForGood

(* What a restore that answered OK took out of the vault it also put back. *)
(* It does not (backup.c:655, 684).                                        *)
RestoreKeepsObjects == lost = {}
=============================================================================
