--------------------------- MODULE SecurityProofs ---------------------------
(* What holds of the security services for any number of identities, keys, *)
(* objects and requests: the vault and its keys, the decisions, incidents  *)
(* and responses, identities with their sessions and attempts, alerts.     *)
EXTENDS FiniteSetTheorems, WellFoundedInduction, MCSecurity, TLAPS

-----------------------------------------------------------------------------
(* The vault and the versions of its key.                                  *)
LEMMA KeyVaultSteps ==
  ASSUME SecurityNext \/ UNCHANGED <<beforeVars, keyVaultVars, incidentVars, dispatchVars, afterVars, service>>
  PROVE  KeyVaultNext \/ UNCHANGED keyVaultVars
  BY DEF SecurityNext

(* The objects that have an entry in a table.                              *)
EntriesIn(table) == {o \in Objects : table[o] # 0}

LEMMA EntriesAreFew ==
  ASSUME NEW table, NEW other, EntriesIn(other) \subseteq EntriesIn(table),
         Cardinality(EntriesIn(table)) <= MaxObjects
  PROVE  Cardinality(EntriesIn(other)) <= MaxObjects
<1>1. IsFiniteSet(Objects) /\ MaxObjects \in Nat
  BY VaultAssumption
<1>2. IsFiniteSet(EntriesIn(table)) /\ IsFiniteSet(EntriesIn(other))
  BY <1>1, FS_Subset DEF EntriesIn
<1>3. Cardinality(EntriesIn(other)) <= Cardinality(EntriesIn(table))
  BY <1>2, FS_Subset
<1>4. Cardinality(EntriesIn(table)) \in Nat /\ Cardinality(EntriesIn(other)) \in Nat
  BY <1>2, FS_CardinalityType
<1> QED BY <1>1, <1>3, <1>4

LEMMA KeysStart ==
  ASSUME KeyVaultInit
  PROVE  KeysSafe
<1>1. Entries = {} /\ Cardinality({}) = 0 /\ MaxObjects \in Nat /\ MaxVersions \in Nat
  BY FS_EmptySet, VaultAssumption DEF KeyVaultInit, Entries
<1>2. 0 \notin Versions
  BY <1>1 DEF Versions
<1> QED BY <1>1, <1>2 DEF KeyVaultInit, KeysSafe, KeyVaultTypeOK, SingleActive, ErasureSparesOthers,
           ErasedForGood, Lifecycles

(* A step that moves versions on, but revokes none, and leaves the vault.  *)
LEMMA VersionsMoveOn ==
  ASSUME KeysSafe, UNCHANGED <<vaultVars, backupVars, revoked, erased>>,
         lifecycle' \in [Versions -> Lifecycles \cup {"NONE"}], current' \in Versions \cup {0},
         \A v \in Versions : lifecycle'[v] = "ACTIVE" <=> current' = v,
         \A v \in Versions : lifecycle[v] \in Usable => lifecycle'[v] \in Usable,
         \A v \in Versions : lifecycle[v] = "REVOKED" => lifecycle'[v] = "REVOKED"
  PROVE  KeysSafe'
<1>1. sealed' = sealed /\ stored' = stored /\ package' = package /\ bkState' = bkState
      /\ revoked' = revoked /\ erased' = erased /\ Entries' = Entries
  BY DEF vaultVars, backupVars, Entries
<1>2. KeyVaultTypeOK /\ SingleActive /\ ErasureSparesOthers /\ ErasedForGood
  BY DEF KeysSafe
<1>3. KeyVaultTypeOK'
  BY <1>1, <1>2 DEF KeyVaultTypeOK
<1>4. SingleActive'
  BY DEF SingleActive
<1>5. ErasureSparesOthers'
  BY <1>1, <1>2 DEF ErasureSparesOthers, KeyVaultTypeOK, Entries
<1>6. ErasedForGood'
  BY <1>1, <1>2 DEF ErasedForGood, KeyVaultTypeOK
<1> QED BY <1>3, <1>4, <1>5, <1>6 DEF KeysSafe

LEMMA ActivatedIs ==
  ASSUME KeysSafe, NEW v \in Versions, lifecycle[v] \in {"NONE", "AVAILABLE"},
         lifecycle' = Activated(lifecycle, v), current' = v
  PROVE  /\ lifecycle' \in [Versions -> Lifecycles \cup {"NONE"}] /\ current' \in Versions \cup {0}
         /\ \A w \in Versions : lifecycle'[w] = "ACTIVE" <=> current' = w
         /\ \A w \in Versions : lifecycle[w] \in Usable => lifecycle'[w] \in Usable
         /\ \A w \in Versions : lifecycle[w] = "REVOKED" => lifecycle'[w] = "REVOKED"
<1>1. lifecycle \in [Versions -> Lifecycles \cup {"NONE"}] /\ SingleActive
  BY DEF KeysSafe, KeyVaultTypeOK
<1>2. ASSUME NEW w \in Versions
      PROVE  lifecycle'[w] = IF w = v THEN "ACTIVE"
                             ELSE IF w = current /\ lifecycle[w] = "ACTIVE" THEN "RETIRED"
                             ELSE lifecycle[w]
  BY DEF Activated
<1>3. lifecycle' = [w \in Versions |-> lifecycle'[w]]
  BY DEF Activated
<1> QED BY <1>1, <1>2, <1>3 DEF Lifecycles, Usable, SingleActive

LEMMA VersionsHold ==
  ASSUME KeysSafe,
         Rotate \/ \E v \in Versions : AddVersion(v) \/ ActivateVersion(v) \/ RetireVersion(v)
  PROVE  KeysSafe'
<1>1. lifecycle \in [Versions -> Lifecycles \cup {"NONE"}] /\ SingleActive /\ 0 \notin Versions
      /\ current \in Versions \cup {0}
  BY DEF KeysSafe, KeyVaultTypeOK, Versions
<1>2. CASE Rotate
  <2>1. PICK v \in Versions :
          /\ v - 1 \in Added \cup {0} /\ \A w \in Added : w < v
          /\ lifecycle' = Activated(lifecycle, v) /\ current' = v
          /\ UNCHANGED <<vaultVars, backupVars, revoked, erased, lost>>
    BY <1>2 DEF Rotate
  <2>2. lifecycle[v] = "NONE"
    BY <2>1 DEF Added, Versions
  <2> QED BY <2>1, <2>2, ActivatedIs, VersionsMoveOn
<1>3. CASE \E v \in Versions : AddVersion(v)
  <2>1. PICK v \in Versions : AddVersion(v)
    BY <1>3
  <2>2. /\ lifecycle[v] = "NONE" /\ lifecycle' = [lifecycle EXCEPT ![v] = "AVAILABLE"]
        /\ current' = current /\ UNCHANGED <<vaultVars, backupVars, revoked, erased>>
    BY <2>1 DEF AddVersion
  <2> QED BY <1>1, <2>2, VersionsMoveOn DEF Lifecycles, Usable, SingleActive
<1>4. CASE \E v \in Versions : ActivateVersion(v)
  BY <1>4, ActivatedIs, VersionsMoveOn DEF ActivateVersion
<1>5. CASE \E v \in Versions : RetireVersion(v)
  <2>1. PICK v \in Versions : RetireVersion(v)
    BY <1>5
  <2>2. /\ lifecycle[v] = "ACTIVE" /\ lifecycle' = [lifecycle EXCEPT ![v] = "RETIRED"]
        /\ current' = (IF current = v THEN 0 ELSE current)
        /\ UNCHANGED <<vaultVars, backupVars, revoked, erased>>
    BY <2>1 DEF RetireVersion
  <2> QED BY <1>1, <2>2, VersionsMoveOn DEF Lifecycles, Usable, SingleActive
<1> QED BY <1>2, <1>3, <1>4, <1>5

(* What the revocation of a version does to the versions.                  *)
LEMMA RevokedIs ==
  ASSUME KeysSafe, NEW v \in Versions, Revoke(v)
  PROVE  /\ lifecycle' \in [Versions -> Lifecycles \cup {"NONE"}] /\ current' \in Versions \cup {0}
         /\ \A w \in Versions : lifecycle'[w] = "ACTIVE" <=> current' = w
         /\ \A w \in Versions : w # v => lifecycle'[w] = lifecycle[w]
         /\ lifecycle'[v] = "REVOKED"
<1>1. lifecycle \in [Versions -> Lifecycles \cup {"NONE"}] /\ SingleActive /\ 0 \notin Versions
      /\ current \in Versions \cup {0}
  BY DEF KeysSafe, KeyVaultTypeOK, Versions
<1> QED BY <1>1 DEF Revoke, Lifecycles, SingleActive

LEMMA RevocationHolds ==
  ASSUME KeysSafe, NEW v \in Versions, Revoke(v), revoked' = revoked \cup {v},
         UNCHANGED <<vaultVars, backupVars, erased>>
  PROVE  KeysSafe'
<1>1. sealed' = sealed /\ stored' = stored /\ package' = package /\ bkState' = bkState
      /\ erased' = erased /\ Entries' = Entries
  BY DEF vaultVars, backupVars, Entries
<1>2. KeyVaultTypeOK /\ SingleActive /\ ErasureSparesOthers /\ ErasedForGood
  BY DEF KeysSafe
<1>3. KeyVaultTypeOK'
  BY <1>1, <1>2, RevokedIs DEF KeyVaultTypeOK
<1>4. SingleActive'
  BY RevokedIs DEF SingleActive
<1>5. ErasureSparesOthers'
  BY <1>1, <1>2, RevokedIs DEF ErasureSparesOthers, KeyVaultTypeOK, Entries
<1>6. ErasedForGood'
  BY <1>1, <1>2, RevokedIs DEF ErasedForGood, KeyVaultTypeOK
<1> QED BY <1>3, <1>4, <1>5, <1>6 DEF KeysSafe

(* Objects that leave the vault, with the versions as they are.            *)
LEMMA ObjectsLeave ==
  ASSUME KeysSafe, UNCHANGED <<keyVars, revoked, erased>>,
         sealed' \in [Objects -> Versions \cup {0}],
         \A o \in Objects : sealed'[o] \in {sealed[o], 0},
         stored' \subseteq stored, \A o \in Objects : sealed'[o] # 0 => o \in stored',
         package' \subseteq Objects, bkState' \in {"READY", "BACKING_UP"}
  PROVE  KeysSafe'
<1>1. lifecycle' = lifecycle /\ current' = current /\ revoked' = revoked /\ erased' = erased
      /\ 0 \notin Versions
  BY DEF keyVars, Versions
<1>2. KeyVaultTypeOK /\ SingleActive /\ ErasureSparesOthers /\ ErasedForGood
  BY DEF KeysSafe
<1>3. EntriesIn(sealed') \subseteq EntriesIn(sealed)
  BY DEF EntriesIn
<1>4. Entries = EntriesIn(sealed) /\ Entries' = EntriesIn(sealed')
  BY DEF Entries, EntriesIn
<1>5. Cardinality(Entries') <= MaxObjects
  BY <1>2, <1>3, <1>4, EntriesAreFew DEF KeyVaultTypeOK
<1>6. KeyVaultTypeOK'
  BY <1>1, <1>2, <1>4, <1>5 DEF KeyVaultTypeOK, EntriesIn
<1>7. SingleActive'
  BY <1>1, <1>2 DEF SingleActive
<1>8. ErasureSparesOthers'
  BY <1>1, <1>2 DEF ErasureSparesOthers, Entries
<1>9. ErasedForGood'
  BY <1>1, <1>2 DEF ErasedForGood, KeyVaultTypeOK
<1> QED BY <1>6, <1>7, <1>8, <1>9 DEF KeysSafe

(* An object that is sealed anew, with the version in use.                 *)
LEMMA ObjectSealed ==
  ASSUME KeysSafe, UNCHANGED <<keyVars, backupVars, revoked, erased>>, NEW o \in Objects,
         current # 0, sealed' = [sealed EXCEPT ![o] = current], stored' = stored \cup {o},
         sealed[o] # 0 \/ Cardinality(Entries) < MaxObjects
  PROVE  KeysSafe'
<1>1. lifecycle' = lifecycle /\ current' = current /\ revoked' = revoked /\ erased' = erased
      /\ 0 \notin Versions /\ package' = package /\ bkState' = bkState
  BY DEF keyVars, backupVars, Versions
<1>2. KeyVaultTypeOK /\ SingleActive /\ ErasureSparesOthers /\ ErasedForGood
  BY DEF KeysSafe
<1>3. current \in Versions /\ lifecycle[current] = "ACTIVE"
  BY <1>1, <1>2 DEF KeyVaultTypeOK, SingleActive
<1>4. /\ sealed' \in [Objects -> Versions \cup {0}]
      /\ \A q \in Objects : sealed'[q] = IF q = o THEN current ELSE sealed[q]
  BY <1>2, <1>3 DEF KeyVaultTypeOK
<1>5. Entries' = Entries \cup {o}
  BY <1>1, <1>3, <1>4 DEF Entries
<1>6. Cardinality(Entries') <= MaxObjects
  <2>1. IsFiniteSet(Entries) /\ MaxObjects \in Nat
    BY VaultAssumption, FS_Subset DEF Entries
  <2>2. Cardinality(Entries) \in Nat
    BY <2>1, FS_CardinalityType
  <2>3. CASE o \in Entries
    <3>1. Entries' = Entries
      BY <1>5, <2>3
    <3> QED BY <1>2, <3>1 DEF KeyVaultTypeOK
  <2>4. CASE o \notin Entries
    <3>1. Cardinality(Entries') = Cardinality(Entries) + 1
      BY <1>5, <2>1, <2>4, FS_AddElement
    <3>2. Cardinality(Entries) < MaxObjects
      BY <2>4 DEF Entries
    <3> QED BY <2>1, <2>2, <3>1, <3>2
  <2> QED BY <2>3, <2>4
<1>7. KeyVaultTypeOK'
  BY <1>1, <1>2, <1>4, <1>5, <1>6 DEF KeyVaultTypeOK
<1>8. SingleActive'
  BY <1>1, <1>2 DEF SingleActive
<1>9. ErasureSparesOthers'
  BY <1>1, <1>2, <1>3, <1>4 DEF ErasureSparesOthers, Entries, Usable
<1>10. ErasedForGood'
  BY <1>1, <1>2, <1>3, <1>4 DEF ErasedForGood, KeyVaultTypeOK
<1> QED BY <1>7, <1>8, <1>9, <1>10 DEF KeysSafe

LEMMA ErasureHolds ==
  ASSUME KeysSafe, NEW o \in Objects, EraseObject(o)
  PROVE  KeysSafe'
<1>1. KeyVaultTypeOK /\ SingleActive /\ ErasureSparesOthers /\ ErasedForGood
  BY DEF KeysSafe
<1> DEFINE v == sealed[o]
<1>2. /\ v \in Versions /\ v # 0 /\ 0 \notin Versions
      /\ sealed' = [sealed EXCEPT ![o] = 0] /\ stored' = stored \ {o}
      /\ \A q \in Entries : q # o => sealed[q] # v
      /\ Revoke(v) \/ (lifecycle[v] = "REVOKED" /\ UNCHANGED keyVars)
      /\ erased' = erased \cup {v} /\ revoked' = revoked
      /\ package' = package /\ bkState' = bkState
  BY <1>1 DEF EraseObject, TakeOut, KeyStillRequired, KeyVaultTypeOK, Versions, backupVars
<1> HIDE DEF v
<1>3. /\ lifecycle' \in [Versions -> Lifecycles \cup {"NONE"}] /\ current' \in Versions \cup {0}
      /\ \A w \in Versions : lifecycle'[w] = "ACTIVE" <=> current' = w
      /\ \A w \in Versions : w # v => lifecycle'[w] = lifecycle[w]
      /\ lifecycle'[v] = "REVOKED"
  <2>1. CASE Revoke(v)
    BY <1>2, <2>1, RevokedIs
  <2>2. CASE lifecycle[v] = "REVOKED" /\ UNCHANGED keyVars
    BY <1>1, <1>2, <2>2 DEF keyVars, KeyVaultTypeOK, SingleActive
  <2> QED BY <1>2, <2>1, <2>2
<1>4. /\ sealed' \in [Objects -> Versions \cup {0}]
      /\ \A q \in Objects : sealed'[q] = IF q = o THEN 0 ELSE sealed[q]
  BY <1>1, <1>2 DEF KeyVaultTypeOK
<1>5. Entries' = Entries \ {o}
  BY <1>4 DEF Entries
<1>6. Cardinality(Entries') <= MaxObjects
  <2>1. EntriesIn(sealed') \subseteq EntriesIn(sealed)
    BY <1>4 DEF EntriesIn
  <2>2. Entries = EntriesIn(sealed) /\ Entries' = EntriesIn(sealed')
    BY DEF Entries, EntriesIn
  <2> QED BY <1>1, <2>1, <2>2, EntriesAreFew DEF KeyVaultTypeOK
<1>7. KeyVaultTypeOK'
  BY <1>1, <1>2, <1>3, <1>4, <1>5, <1>6 DEF KeyVaultTypeOK
<1>8. SingleActive'
  BY <1>3 DEF SingleActive
<1>9. ErasureSparesOthers'
  <2> SUFFICES ASSUME NEW q \in Entries'
               PROVE  lifecycle'[sealed'[q]] \in Usable \/ sealed'[q] \in revoked'
    BY DEF ErasureSparesOthers
  <2>1. q \in Entries /\ q # o /\ q \in Objects /\ sealed'[q] = sealed[q]
    BY <1>4, <1>5 DEF Entries
  <2>2. sealed[q] \in Versions /\ sealed[q] # v
    BY <1>1, <1>2, <2>1 DEF KeyVaultTypeOK, Entries
  <2> QED BY <1>1, <1>2, <1>3, <2>1, <2>2 DEF ErasureSparesOthers
<1>10. ErasedForGood'
  <2> SUFFICES ASSUME NEW w \in erased'
               PROVE  lifecycle'[w] = "REVOKED" /\ \A q \in Objects : sealed'[q] # w
    BY DEF ErasedForGood
  <2>1. CASE w = v
    <3>1. \A q \in Objects : sealed'[q] # v
      BY <1>2, <1>4 DEF Entries
    <3> QED BY <1>3, <2>1, <3>1
  <2>2. CASE w # v
    <3>1. w \in erased /\ w \in Versions /\ w # 0
      BY <1>1, <1>2, <2>2 DEF KeyVaultTypeOK
    <3> QED BY <1>1, <1>3, <1>4, <2>2, <3>1 DEF ErasedForGood
  <2> QED BY <2>1, <2>2
<1> QED BY <1>7, <1>8, <1>9, <1>10 DEF KeysSafe

LEMMA KeysStay ==
  ASSUME KeysSafe, KeyVaultNext \/ UNCHANGED keyVaultVars
  PROVE  KeysSafe'
<1>1. KeyVaultTypeOK /\ 0 \notin Versions
  BY DEF KeysSafe, Versions
<1>2. CASE Rotate \/ \E v \in Versions : AddVersion(v) \/ ActivateVersion(v) \/ RetireVersion(v)
  BY <1>2, VersionsHold
<1>3. CASE \E v \in Versions : RevokeVersion(v) \/ \E o \in Objects : DestroyKey(o, v)
  BY <1>3, RevocationHolds DEF RevokeVersion, DestroyKey
<1>4. CASE \E o \in Objects : StoreObject(o) \/ UpdateObject(o)
  <2>1. PICK o \in Objects : StoreObject(o) \/ UpdateObject(o)
    BY <1>4
  <2>2. stored' = stored \cup {o}
    BY <1>1, <2>1 DEF StoreObject, UpdateObject, KeyVaultTypeOK, Entries
  <2> QED BY <2>1, <2>2, ObjectSealed DEF StoreObject, UpdateObject
<1>5. CASE \E o \in Objects : RemoveObject(o)
  <2>1. PICK o \in Objects : RemoveObject(o)
    BY <1>5
  <2>2. sealed' = [sealed EXCEPT ![o] = 0] /\ stored' = stored \ {o}
        /\ UNCHANGED <<keyVars, backupVars, revoked, erased>>
    BY <2>1 DEF RemoveObject, TakeOut
  <2> QED BY <1>1, <2>2, ObjectsLeave DEF KeyVaultTypeOK, Entries, backupVars
<1>6. CASE \E o \in Objects : EraseObject(o)
  BY <1>6, ErasureHolds
<1>7. CASE ReopenVault
  BY <1>1, <1>7, ObjectsLeave DEF ReopenVault, KeyVaultTypeOK, backupVars
<1>8. CASE RestoreReplace
  <2>1. PICK gone \in SUBSET (package \cap Entries) :
          /\ stored' = stored \ gone
          /\ sealed' = [o \in Objects |-> IF o \in gone THEN 0 ELSE sealed[o]]
    BY <1>8 DEF RestoreReplace
  <2>2. UNCHANGED <<keyVars, backupVars, revoked, erased>>
    BY <1>8 DEF RestoreReplace
  <2> QED BY <1>1, <2>1, <2>2, ObjectsLeave DEF KeyVaultTypeOK, Entries, backupVars
<1>9. CASE \/ CreateBackup \/ FinalizeBackup \/ UNCHANGED keyVaultVars
           \/ \E o \in Objects : AddToBackup(o)
  <2>1. /\ UNCHANGED <<keyVars, vaultVars, revoked, erased>>
        /\ package' \subseteq Objects /\ bkState' \in {"READY", "BACKING_UP"}
    BY <1>1, <1>9 DEF CreateBackup, FinalizeBackup, AddToBackup, keyVaultVars, KeyVaultTypeOK,
                      backupVars
  <2>2. sealed' = sealed /\ stored' = stored
    BY <2>1 DEF vaultVars
  <2> QED BY <1>1, <2>1, <2>2, ObjectsLeave DEF KeyVaultTypeOK, Entries
<1> QED BY <1>2, <1>3, <1>4, <1>5, <1>6, <1>7, <1>8, <1>9 DEF KeyVaultNext

(* However versions of the key are added, rotated, retired, revoked and    *)
(* erased around the objects they seal, one version is in use at most,     *)
(* erasing one object takes no other one's key, and what sealed an erased  *)
(* object seals nothing again.                                             *)
THEOREM KeysHold == SecuritySpec => []KeysSafe
<1>1. SecurityInit => KeysSafe
  BY KeysStart DEF SecurityInit
<1>2. KeysSafe /\ [SecurityNext]_<<beforeVars, keyVaultVars, incidentVars, dispatchVars,
                                   afterVars, service>> => KeysSafe'
  BY KeyVaultSteps, KeysStay
<1> QED BY <1>1, <1>2, PTL DEF SecuritySpec

-----------------------------------------------------------------------------
(* The boundaries an operation passes.                                     *)
LEMMA DispatchSteps ==
  ASSUME SecurityNext \/ UNCHANGED <<beforeVars, keyVaultVars, incidentVars, dispatchVars, afterVars, service>>
  PROVE  DispatchNext \/ UNCHANGED dispatchVars
  BY DEF SecurityNext

LEMMA DispatchBounds ==
  /\ RequestRoom \in Nat /\ RequestRoom >= 1 /\ DecisionRoom \in Nat /\ DecisionRoom >= 1
  /\ DefaultLife \in Nat /\ DefaultLife >= 1 /\ MaxReassessed \in Nat /\ MaxJudged \in Nat
  BY DispatchAssumption

LEMMA HasLeast ==
  ASSUME NEW T \in SUBSET Nat, T # {}
  PROVE  \E x \in T : \A y \in T : x <= y
<1> DEFINE before == OpToRel(<, Nat)
<1>1. IsWellFoundedOn(before, Nat)
  BY NatLessThanWellFounded
<1>2. \A x, y \in Nat : <<y, x>> \in before <=> y < x
  BY DEF OpToRel
<1> HIDE DEF before
<1>3. PICK x \in T : \A y \in T : <<y, x>> \notin before
  BY <1>1, WFMin
<1>4. \A y \in T : ~(y < x)
  BY <1>2, <1>3
<1> QED BY <1>4

(* The last place of a ring, and the one before it of what it keeps.       *)
Cut(ring, room) == IF Len(ring) = room THEN 1 ELSE 0

LEMMA PushedIs ==
  ASSUME NEW S, NEW ring \in Seq(S), NEW x \in S, NEW room \in Nat, room >= 1, Len(ring) <= room
  PROVE  /\ Pushed(ring, x, room) \in Seq(S) /\ Cut(ring, room) \in 0..1
         /\ Len(Pushed(ring, x, room)) = Len(ring) + 1 - Cut(ring, room)
         /\ Len(Pushed(ring, x, room)) \in 1..room
         /\ \A k \in 1..(Len(ring) - Cut(ring, room)) :
              k + Cut(ring, room) \in DOMAIN ring /\ Pushed(ring, x, room)[k] = ring[k + Cut(ring, room)]
         /\ Pushed(ring, x, room)[Len(ring) + 1 - Cut(ring, room)] = x
         /\ DOMAIN Pushed(ring, x, room) = 1..(Len(ring) + 1 - Cut(ring, room))
<1>1. CASE Len(ring) = room
  <2>1. ring # <<>>
    BY <1>1
  <2>2. /\ Tail(ring) \in Seq(S) /\ Len(Tail(ring)) = Len(ring) - 1
        /\ \A k \in 1..(Len(ring) - 1) : Tail(ring)[k] = ring[k + 1]
    BY <2>1
  <2>3. Pushed(ring, x, room) = Append(Tail(ring), x) /\ Cut(ring, room) = 1
    BY <1>1 DEF Pushed, Cut
  <2> QED BY <1>1, <2>2, <2>3
<1>2. CASE Len(ring) # room
  <2>1. Pushed(ring, x, room) = Append(ring, x) /\ Cut(ring, room) = 0
    BY <1>2 DEF Pushed, Cut
  <2> QED BY <1>2, <2>1
<1> QED BY <1>1, <1>2

ChecksOf(l) == IF l = "enforcement" THEN EnforcementChecks ELSE AdmissionChecks
Against(l, refs, failing) ==
  {k \in DOMAIN ChecksOf(l) : ChecksOf(l)[k] \in failing /\ Applies(ChecksOf(l)[k], refs)}

LEMMA ChecksAre ==
  ASSUME NEW l
  PROVE  /\ DOMAIN ChecksOf(l) = 1..14 /\ Len(ChecksOf(l)) = 14
         /\ \A k \in 1..14 : ChecksOf(l)[k] # "granted"
<1>1. /\ DOMAIN EnforcementChecks = 1..14 /\ Len(EnforcementChecks) = 14
      /\ \A k \in 1..14 : EnforcementChecks[k] # "granted"
  BY DEF EnforcementChecks
<1>2. /\ DOMAIN AdmissionChecks = 1..14 /\ Len(AdmissionChecks) = 14
      /\ \A k \in 1..14 : AdmissionChecks[k] # "granted"
  BY DEF AdmissionChecks
<1> QED BY <1>1, <1>2 DEF ChecksOf

(* A verdict is a grant where no check of the boundary speaks against it.  *)
LEMMA VerdictIs ==
  ASSUME NEW id, NEW refs, NEW failing
  PROVE  /\ Verdict(id, refs, failing) \in Range(ChecksOf(layer)) \cup {"id", "granted"}
         /\ Verdict(id, refs, failing) = "granted" <=> id # NoName /\ Against(layer, refs, failing) = {}
<1> DEFINE against == Against(layer, refs, failing)
<1> DEFINE first == CHOOSE k \in against : \A j \in against : k <= j
<1>1. Checks = ChecksOf(layer)
  BY DEF Checks, ChecksOf
<1>2. Verdict(id, refs, failing) = IF id = NoName THEN "id"
                                   ELSE IF against = {} THEN "granted" ELSE ChecksOf(layer)[first]
  BY <1>1 DEF Verdict, Against
<1>3. against \subseteq 1..14
  BY ChecksAre DEF Against
<1>4. against # {} => first \in against
  <2>1. against \in SUBSET Nat
    BY <1>3
  <2> QED BY <2>1, HasLeast
<1> HIDE DEF against, first
<1>5. against # {} => ChecksOf(layer)[first] \in Range(ChecksOf(layer))
                      /\ ChecksOf(layer)[first] # "granted"
  BY <1>3, <1>4, ChecksAre DEF Range
<1> QED BY <1>2, <1>5 DEF against

MissingOf(l, d) == {c \in d.failing : Applies(c, d.asked) /\ Contains(ChecksOf(l), c)}

LEMMA MissingIs ==
  ASSUME NEW d
  PROVE  /\ Missing(d) = MissingOf(layer, d)
         /\ MissingOf(layer, d) = {} <=> Against(layer, d.asked, d.failing) = {}
<1>1. Missing(d) = MissingOf(layer, d)
  BY DEF Missing, MissingOf, Checks, ChecksOf
<1>2. MissingOf(layer, d) = {} <=> Against(layer, d.asked, d.failing) = {}
  BY ChecksAre DEF MissingOf, Against, Contains
<1> QED BY <1>1, <1>2

(* What a request and a decision on record look like.                      *)
RefSets == References \cup {{}}
Failings == {c \cup p : c \in Contexts \cup {{}}, p \in {{}, {"deadline"}}}
Request == [id : RequestIds, refs : RefSets, life : 0..DefaultLife]
Decision(l) ==
  [id : Nat \cup {Nobody}, request : RequestIds \cup {NoName}, active : BOOLEAN,
   again : 0..MaxReassessed, verdict : Range(ChecksOf(l)) \cup {"id", "limit", "granted"},
   asked : RefSets, life : 0..DefaultLife, number : Nat, chain : Nat, failing : Failings]

Matches(record, id, refs, life) == record.id = id /\ record.refs = refs /\ record.life = life

(* A decision goes back to a request that was made under its identifier,   *)
(* and that is found in its place as long as no newer ones pushed it out.  *)
(* What was stored over nothing is no decision at all.                     *)
Sound(d, under, n, ring) ==
  /\ d.id \in Nat /\ d.request \in RequestIds
  /\ d.chain \in under[d.request] /\ d.chain <= d.number /\ d.number < n
  /\ n - d.chain <= RequestRoom =>
       Matches(ring[Len(ring) - n + d.chain + 1], d.request, d.asked, d.life)
Hollow(d) == d.id = Nobody /\ d.active = FALSE /\ d.verdict # "granted" /\ d.chain <= d.number

Warranted(l, d, under) ==
  d.verdict = "granted" =>
    /\ d.request # NoName
    /\ MissingOf(l, d) # {} =>
         /\ d.again > 0
         /\ \/ l = "admission"
            \/ d.number - d.chain > RequestRoom
            \/ Cardinality(under[d.request]) > 1

(* Two histories of a request's names, and two rings one request apart.    *)
Grown(under, under2) == \A q \in RequestIds : under[q] \subseteq under2[q]
OneFurther(ring, ring2, n) ==
  \A c \in Nat : c < n /\ (n + 1) - c <= RequestRoom =>
    ring2[Len(ring2) - (n + 1) + c + 1] = ring[Len(ring) - n + c + 1]

RingOfRequests(ring, n, under) ==
  /\ ring \in Seq(Request)
  /\ Len(ring) = IF n < RequestRoom THEN n ELSE RequestRoom
  /\ \A k \in 1..Len(ring) : \E a \in under[ring[k].id] : a <= n - Len(ring) + k - 1

AskedFits(under, n) ==
  /\ under \in [RequestIds -> SUBSET Nat]
  /\ \A q \in RequestIds : \A a \in under[q] : a < n

EachSound(ds, l, under, n, ring) ==
  /\ ds \in Seq(Decision(l)) /\ Len(ds) <= DecisionRoom
  /\ \A k \in 1..Len(ds) : Hollow(ds[k]) \/ Sound(ds[k], under, n, ring)
  /\ \A k \in 1..Len(ds) : Warranted(l, ds[k], under)

(* Of the decisions that go back to one request one is in force at most.   *)
OneInForce(ds, except) ==
  \A j, k \in 1..Len(ds) :
    j # k /\ ds[j].active = TRUE /\ ds[k].active = TRUE /\ ds[j].chain \notin except
      => ds[j].chain # ds[k].chain

(* A decision that may be stored next to the others.                       *)
MayJoin(x, ds, except) ==
  \/ x.active = FALSE \/ x.chain \in except
  \/ \A k \in 1..Len(ds) : ds[k].active = TRUE => ds[k].chain # x.chain \/ ds[k].chain \in except

(* Identifiers go up: a grant is the first decision of its identifier.     *)
IdsGoUp(ds, t) ==
  /\ \A k \in 1..Len(ds) : ds[k].id < t
  /\ \A j, k \in 1..Len(ds) : j < k /\ ds[k].verdict = "granted" => ds[j].id # ds[k].id

DispatchInv ==
  /\ layer \in Layers /\ judged \in 0..MaxJudged /\ total \in 0..judged
  /\ AskedFits(askedAs, judged)
  /\ RingOfRequests(requests, judged, askedAs)
  /\ EachSound(decisions, layer, askedAs, judged, requests)
  /\ OneInForce(decisions, restored)
  /\ ~ wasReset => total = judged /\ IdsGoUp(decisions, total)

LEMMA NotesAre ==
  ASSUME NEW l, NEW d \in Decision(l)
  PROVE  /\ d.id \in Nat \cup {Nobody} /\ d.chain \in Nat /\ d.number \in Nat /\ d.again \in Nat
         /\ d.id \in Int /\ Nobody \notin Nat
<1>1. d.id \in Nat \cup {Nobody} /\ d.chain \in Nat /\ d.number \in Nat /\ d.again \in 0..MaxReassessed
  BY DEF Decision
<1>2. Nobody \in Int /\ Nobody \notin Nat
  BY DEF Nobody
<1> QED BY <1>1, <1>2, DispatchBounds

LEMMA DispatchStarts ==
  ASSUME DispatchInit
  PROVE  DispatchInv
<1>1. /\ layer \in Layers /\ requests = <<>> /\ decisions = <<>> /\ total = 0 /\ judged = 0
      /\ askedAs = [id \in RequestIds |-> {}] /\ restored = {}
  BY DEF DispatchInit
<1>2. judged \in 0..MaxJudged /\ total \in 0..judged
  BY <1>1, DispatchBounds
<1>3. AskedFits(askedAs, judged)
  BY <1>1 DEF AskedFits
<1>4. RingOfRequests(requests, judged, askedAs)
  BY <1>1, DispatchBounds DEF RingOfRequests
<1>5. EachSound(decisions, layer, askedAs, judged, requests)
  BY <1>1, DispatchBounds DEF EachSound
<1>6. OneInForce(decisions, restored) /\ IdsGoUp(decisions, total)
  BY <1>1 DEF OneInForce, IdsGoUp
<1> QED BY <1>1, <1>2, <1>3, <1>4, <1>5, <1>6 DEF DispatchInv

LEMMA DispatchImplied ==
  ASSUME DispatchInv
  PROVE  DispatchSafe
<1>1. /\ layer \in Layers /\ judged \in 0..MaxJudged /\ total \in 0..judged
      /\ RingOfRequests(requests, judged, askedAs)
      /\ EachSound(decisions, layer, askedAs, judged, requests)
      /\ OneInForce(decisions, restored)
      /\ ~ wasReset => IdsGoUp(decisions, total)
  BY DEF DispatchInv
<1>2. /\ decisions \in Seq(Decision(layer)) /\ requests \in Seq(Request)
      /\ DOMAIN decisions = 1..Len(decisions) /\ DOMAIN requests = 1..Len(requests)
      /\ \A k \in DOMAIN decisions : decisions[k] \in Decision(layer)
      /\ \A k \in DOMAIN requests : requests[k] \in Request
  BY <1>1 DEF EachSound, RingOfRequests
<1>3. Checks = ChecksOf(layer)
  BY DEF Checks, ChecksOf
<1>4. \A d \in Decision(layer) :
        d.verdict \in Range(Checks) \cup {"id", "limit", "granted"} /\ d.again \in 0..MaxReassessed
  BY <1>3 DEF Decision
<1>5. \A k \in DOMAIN decisions : decisions[k].chain <= decisions[k].number
  BY <1>1, <1>2 DEF EachSound, Hollow, Sound
<1>6. DispatchTypeOK
  <2>1. total \in 0..MaxJudged
    BY <1>1, DispatchBounds
  <2>2. Len(requests) <= RequestRoom /\ Len(decisions) <= DecisionRoom
    BY <1>1, DispatchBounds DEF RingOfRequests, EachSound
  <2>3. \A k \in DOMAIN requests : requests[k].id \in RequestIds /\ requests[k].life \in 0..DefaultLife
    BY <1>2 DEF Request
  <2>4. \A d \in Range(decisions) :
         /\ d.verdict \in Range(Checks) \cup {"id", "limit", "granted"}
         /\ d.again \in 0..MaxReassessed /\ d.chain <= d.number
    BY <1>2, <1>4, <1>5 DEF Range
  <2> QED BY <1>1, <2>1, <2>2, <2>3, <2>4 DEF DispatchTypeOK
<1>7. GrantWarranted
  <2> SUFFICES ASSUME NEW k \in Granted
               PROVE  Missing(decisions[k]) # {} =>
                        /\ decisions[k].again > 0
                        /\ \/ layer = "admission"
                           \/ decisions[k].number - decisions[k].chain > RequestRoom
                           \/ Cardinality(askedAs[decisions[k].request]) > 1
    BY DEF GrantWarranted
  <2> QED BY <1>1, <1>2, MissingIs DEF Granted, EachSound, Warranted
<1>8. OneGrantInForce
  BY <1>1, <1>2 DEF OneGrantInForce, OneInForce, Granted
<1>9. IdLeadsToDecision
  <2> SUFFICES ASSUME ~ wasReset, NEW k \in Granted
               PROVE  Found(decisions[k].id) = k
    BY DEF IdLeadsToDecision
  <2>1. k \in DOMAIN decisions /\ k \in FoundAt(decisions[k].id)
    BY DEF Granted, FoundAt
  <2>2. \A j \in FoundAt(decisions[k].id) : k <= j
    BY <1>1, <1>2, <2>1 DEF FoundAt, Granted, IdsGoUp
  <2>3. FoundAt(decisions[k].id) \subseteq Nat
    BY <1>2 DEF FoundAt
  <2> QED BY <2>1, <2>2, <2>3 DEF Found
<1>10. QuickRefusalIsFinal
  <2> SUFFICES ASSUME NEW k \in Granted, decisions[k].again = 0
               PROVE  QuickCheck(decisions[k].request, decisions[k].asked, decisions[k].failing)
    BY DEF QuickRefusalIsFinal
  <2>1. decisions[k].request # NoName /\ Against(layer, decisions[k].asked, decisions[k].failing) = {}
    <3>1. Warranted(layer, decisions[k], askedAs) /\ decisions[k].verdict = "granted"
      BY <1>1, <1>2 DEF Granted, EachSound
    <3>2. decisions[k].request # NoName /\ MissingOf(layer, decisions[k]) = {}
      BY <3>1 DEF Warranted
    <3> QED BY <3>2, MissingIs
  <2>2. ASSUME NEW less, less \subseteq decisions[k].failing
        PROVE  Verdict(decisions[k].request, decisions[k].asked, less) = "granted"
    BY <2>1, <2>2, VerdictIs DEF Against
  <2> QED BY <2>2 DEF QuickCheck
<1> QED BY <1>6, <1>7, <1>8, <1>9, <1>10 DEF DispatchSafe

LEMMA RingIs ==
  ASSUME NEW ring, NEW n, NEW under, RingOfRequests(ring, n, under)
  PROVE  /\ ring \in Seq(Request) /\ DOMAIN ring = 1..Len(ring) /\ Len(ring) \in Nat
         /\ Len(ring) = (IF n < RequestRoom THEN n ELSE RequestRoom)
         /\ \A k \in 1..Len(ring) : \E a \in under[ring[k].id] : a <= n - Len(ring) + k - 1
         /\ \A k \in 1..Len(ring) : ring[k] \in Request
<1>1. /\ ring \in Seq(Request) /\ Len(ring) = (IF n < RequestRoom THEN n ELSE RequestRoom)
      /\ \A k \in 1..Len(ring) : \E a \in under[ring[k].id] : a <= n - Len(ring) + k - 1
  BY Zenon DEF RingOfRequests
<1>2. DOMAIN ring = 1..Len(ring) /\ Len(ring) \in Nat /\ \A k \in 1..Len(ring) : ring[k] \in Request
  BY <1>1
<1> QED BY <1>1, <1>2

(* A request more: what is known of the older ones stays known, for those  *)
(* that are still there, one place further down.                           *)
LEMMA RequestPushed ==
  ASSUME NEW n \in Nat, NEW under, NEW under2, NEW ring, NEW r \in Request, NEW ring2,
         RingOfRequests(ring, n, under), AskedFits(under2, n + 1),
         Grown(under, under2), under2[r.id] # {},
         ring2 = Pushed(ring, r, RequestRoom)
  PROVE  /\ RingOfRequests(ring2, n + 1, under2) /\ ring2[Len(ring2)] = r /\ Len(ring2) \in 1..(n + 1)
         /\ OneFurther(ring, ring2, n)
<1> DEFINE cut == Cut(ring, RequestRoom)
<1>1. /\ ring \in Seq(Request) /\ Len(ring) = (IF n < RequestRoom THEN n ELSE RequestRoom)
      /\ \A k \in 1..Len(ring) : \E a \in under[ring[k].id] : a <= n - Len(ring) + k - 1
      /\ RequestRoom \in Nat /\ RequestRoom >= 1 /\ Len(ring) \in Nat
  BY DispatchBounds DEF RingOfRequests
<1>3. cut = IF n < RequestRoom THEN 0 ELSE 1
  BY <1>1 DEF Cut
<1>9. Len(ring) <= RequestRoom
  BY <1>1
<1>2. /\ ring2 \in Seq(Request) /\ cut \in 0..1
      /\ Len(ring2) = Len(ring) + 1 - cut
      /\ \A k \in 1..(Len(ring) - cut) : k + cut \in DOMAIN ring /\ ring2[k] = ring[k + cut]
      /\ ring2[Len(ring) + 1 - cut] = r
  BY <1>1, <1>9, PushedIs, SMTT(30)
<1> HIDE DEF cut
<1>4. Len(ring2) = IF n + 1 < RequestRoom THEN n + 1 ELSE RequestRoom
  BY <1>1, <1>2, <1>3
<1>5. ring2[Len(ring2)] = r
  BY <1>2
<1>6. ASSUME NEW k \in 1..Len(ring2)
      PROVE  \E a \in under2[ring2[k].id] : a <= (n + 1) - Len(ring2) + k - 1
  <2>1. CASE k = Len(ring2)
    <3>1. r.id \in RequestIds
      BY DEF Request
    <3>2. PICK a \in under2[r.id] : a \in Nat /\ a < n + 1
      BY <3>1 DEF AskedFits
    <3>3. Len(ring2) \in Nat
      BY <1>2
    <3>4. a <= (n + 1) - Len(ring2) + k - 1
      BY <2>1, <3>2, <3>3
    <3> QED BY <1>5, <2>1, <3>2, <3>4
  <2>2. CASE k # Len(ring2)
    <3>1. k \in 1..(Len(ring) - cut)
      BY <1>1, <1>2, <2>2
    <3>2. PICK j \in 1..Len(ring) : j = k + cut
      BY <1>1, <1>2, <3>1
    <3>3. ring2[k] = ring[j] /\ ring[j] \in Request
      BY <1>1, <1>2, <3>1, <3>2
    <3>4. PICK a \in under[ring[j].id] : a <= n - Len(ring) + j - 1
      BY <1>1
    <3>5. ring[j].id \in RequestIds
      BY <3>3 DEF Request
    <3>7. a \in under2[ring2[k].id] /\ a \in Nat
      BY <3>3, <3>4, <3>5 DEF AskedFits, Grown
    <3>6. a <= (n + 1) - Len(ring2) + k - 1
      <4>1. Len(ring2) = Len(ring) + 1 - cut /\ cut \in 0..1 /\ Len(ring) \in Nat /\ j = k + cut /\ k \in Int
        BY <1>1, <1>2, <3>2
      <4>2. \A p, q, c, i \in Int : (n - p) + (i + c) - 1 = ((n + 1) - ((p + 1) - c)) + i - 1
        OBVIOUS
      <4>3. n - Len(ring) + j - 1 = (n + 1) - Len(ring2) + k - 1
        <5>1. Len(ring2) = (Len(ring) + 1) - cut /\ cut \in Int /\ Len(ring) \in Int
          BY <4>1

        <5>2. (n - Len(ring)) + (k + cut) - 1 = ((n + 1) - ((Len(ring) + 1) - cut)) + k - 1
          BY <4>1, <4>2, <5>1
        <5> QED BY <4>1, <5>1, <5>2
      <4> QED BY <3>4, <4>3
    <3> QED BY <3>6, <3>7
  <2> QED BY <2>1, <2>2
<1>7. ASSUME NEW c \in Nat, c < n, (n + 1) - c <= RequestRoom
      PROVE  ring2[Len(ring2) - (n + 1) + c + 1] = ring[Len(ring) - n + c + 1]
  <2> DEFINE k == Len(ring2) - (n + 1) + c + 1
  <2>1. k \in 1..(Len(ring) - cut) /\ k + cut = Len(ring) - n + c + 1
    BY <1>1, <1>2, <1>3, <1>7
  <2> HIDE DEF k
  <2>2. ring2[k] = ring[k + cut]
    BY <1>2, <2>1
  <2> QED BY <2>1, <2>2 DEF k
<1>8. Len(ring2) \in 1..(n + 1)
  BY <1>1, <1>4
<1>10. RingOfRequests(ring2, n + 1, under2)
  BY <1>2, <1>4, <1>6 DEF RingOfRequests
<1> QED BY <1>5, <1>7, <1>8, <1>10 DEF OneFurther

LEMMA SoundStays ==
  ASSUME NEW n \in Nat, NEW under, NEW under2, NEW ring, NEW ring2, NEW l, NEW d \in Decision(l),
         Sound(d, under, n, ring), AskedFits(under, n),
         Grown(under, under2), OneFurther(ring, ring2, n)
  PROVE  Sound(d, under2, n + 1, ring2)
<1>1. /\ d.id \in Nat /\ d.request \in RequestIds
      /\ d.chain \in under[d.request] /\ d.chain <= d.number /\ d.number < n
      /\ n - d.chain <= RequestRoom =>
           Matches(ring[Len(ring) - n + d.chain + 1], d.request, d.asked, d.life)
      /\ d.number \in Nat /\ d.chain \in Nat /\ RequestRoom \in Nat
  BY NotesAre, DispatchBounds DEF Sound
<1>2. d.chain < n /\ d.number < n + 1
  BY <1>1
<1>3. (n + 1) - d.chain <= RequestRoom =>
        Matches(ring2[Len(ring2) - (n + 1) + d.chain + 1], d.request, d.asked, d.life)
  <2> SUFFICES ASSUME (n + 1) - d.chain <= RequestRoom
               PROVE  Matches(ring2[Len(ring2) - (n + 1) + d.chain + 1], d.request, d.asked, d.life)
    OBVIOUS
  <2>1. n - d.chain <= RequestRoom
    BY <1>1
  <2>2. ring2[Len(ring2) - (n + 1) + d.chain + 1] = ring[Len(ring) - n + d.chain + 1]
    BY <1>1, <1>2 DEF OneFurther
  <2> QED BY <1>1, <2>1, <2>2
<1> QED BY <1>1, <1>2, <1>3 DEF Sound, Grown

LEMMA WarrantedStays ==
  ASSUME NEW n \in Nat, NEW under, NEW under2, NEW l, NEW d, d.request \in RequestIds,
         Warranted(l, d, under), AskedFits(under2, n), AskedFits(under, n),
         Grown(under, under2)
  PROVE  Warranted(l, d, under2)
<1> DEFINE q == d.request
<1>1. under2[q] \subseteq 0..n /\ under[q] \subseteq under2[q]
  BY DEF AskedFits, Grown
<1>2. IsFiniteSet(under2[q]) /\ IsFiniteSet(under[q])
  <2>1. IsFiniteSet(0..n)
    BY FS_Interval
  <2> QED BY <1>1, <2>1, FS_Subset
<1>3. Cardinality(under[q]) <= Cardinality(under2[q])
  BY <1>1, <1>2, FS_Subset
<1>4. Cardinality(under[q]) \in Nat /\ Cardinality(under2[q]) \in Nat
  BY <1>2, FS_CardinalityType
<1>5. Cardinality(under[d.request]) > 1 => Cardinality(under2[d.request]) > 1
  BY <1>3, <1>4
<1> QED BY <1>5 DEF Warranted

(* A decision more, after older ones that the ring keeps.                  *)
LEMMA DecisionPushed ==
  ASSUME NEW l, NEW held, NEW x \in Decision(l), NEW under, NEW n, NEW ring, NEW ds,
         EachSound(held, l, under, n, ring), Hollow(x) \/ Sound(x, under, n, ring),
         Warranted(l, x, under), ds = Pushed(held, x, DecisionRoom)
  PROVE  /\ EachSound(ds, l, under, n, ring)
         /\ \A except : OneInForce(held, except) /\ MayJoin(x, held, except) => OneInForce(ds, except)
         /\ \A t, t2 \in Nat : IdsGoUp(held, t) /\ t <= t2 /\ x.id < t2
              /\ (x.verdict = "granted" => \A k \in 1..Len(held) : held[k].id # x.id)
              => IdsGoUp(ds, t2)
<1> DEFINE cut == Cut(held, DecisionRoom)
<1>1. /\ held \in Seq(Decision(l)) /\ Len(held) <= DecisionRoom /\ Len(held) \in Nat
      /\ DecisionRoom \in Nat /\ DecisionRoom >= 1
      /\ \A k \in 1..Len(held) : Hollow(held[k]) \/ Sound(held[k], under, n, ring)
      /\ \A k \in 1..Len(held) : Warranted(l, held[k], under)
      /\ \A k \in 1..Len(held) : held[k] \in Decision(l)
  BY DispatchBounds DEF EachSound
<1>2. /\ ds \in Seq(Decision(l)) /\ cut \in 0..1 /\ Len(ds) \in 1..DecisionRoom
      /\ Len(ds) = Len(held) + 1 - cut
      /\ \A k \in 1..(Len(held) - cut) : k + cut \in DOMAIN held /\ ds[k] = held[k + cut]
      /\ ds[Len(held) + 1 - cut] = x
  BY <1>1, PushedIs
<1> HIDE DEF cut
<1>3. ASSUME NEW k \in 1..Len(ds), k # Len(ds)
      PROVE  k + cut \in 1..Len(held) /\ ds[k] = held[k + cut]
  <2>1. k \in 1..(Len(held) - cut)
    BY <1>1, <1>2, <1>3
  <2>2. k + cut \in 1..Len(held)
    BY <1>1, <1>2, <2>1
  <2> QED BY <1>2, <2>1, <2>2
<1>4. ds[Len(ds)] = x
  BY <1>2
<1>5. EachSound(ds, l, under, n, ring)
  <2>1. Len(ds) <= DecisionRoom
    BY <1>1, <1>2
  <2>2. ASSUME NEW k \in 1..Len(ds)
        PROVE  Hollow(ds[k]) \/ Sound(ds[k], under, n, ring)
    BY <1>1, <1>3, <1>4
  <2>3. ASSUME NEW k \in 1..Len(ds)
        PROVE  Warranted(l, ds[k], under)
    BY <1>1, <1>3, <1>4
  <2> QED BY <1>2, <2>1, <2>2, <2>3 DEF EachSound
<1>6. ASSUME NEW except, OneInForce(held, except), MayJoin(x, held, except)
      PROVE  OneInForce(ds, except)
  <2> SUFFICES ASSUME NEW j \in 1..Len(ds), NEW k \in 1..Len(ds), j # k, ds[j].active = TRUE,
                      ds[k].active = TRUE, ds[j].chain \notin except, ds[j].chain = ds[k].chain
               PROVE  FALSE
    BY DEF OneInForce
  <2>1. CASE j # Len(ds) /\ k # Len(ds)
    <3>1. /\ j + cut \in 1..Len(held) /\ ds[j] = held[j + cut]
          /\ k + cut \in 1..Len(held) /\ ds[k] = held[k + cut]
      BY <1>3, <2>1
    <3>2. j + cut # k + cut
      BY <1>2
    <3> QED BY <1>6, <3>1, <3>2 DEF OneInForce
  <2>2. CASE j = Len(ds)
    BY <1>3, <1>4, <1>6, <2>2 DEF MayJoin
  <2>3. CASE k = Len(ds)
    BY <1>3, <1>4, <1>6, <2>3 DEF MayJoin
  <2> QED BY <2>1, <2>2, <2>3
<1>7. ASSUME NEW t \in Nat, NEW t2 \in Nat, IdsGoUp(held, t), t <= t2, x.id < t2,
             x.verdict = "granted" => \A k \in 1..Len(held) : held[k].id # x.id
      PROVE  IdsGoUp(ds, t2)
  <2>1. ASSUME NEW k \in 1..Len(ds)
        PROVE  ds[k].id < t2
    <3>1. CASE k # Len(ds)
      <4>1. k + cut \in 1..Len(held) /\ ds[k] = held[k + cut] /\ held[k + cut] \in Decision(l)
        BY <1>1, <1>3, <3>1
      <4>2. held[k + cut].id < t /\ held[k + cut].id \in Int
        BY <1>7, <4>1, NotesAre DEF IdsGoUp
      <4> QED BY <1>7, <4>1, <4>2
    <3> QED BY <1>4, <1>7, <3>1
  <2>2. ASSUME NEW j \in 1..Len(ds), NEW k \in 1..Len(ds), j < k, ds[k].verdict = "granted"
        PROVE  ds[j].id # ds[k].id
    <3>1. j # Len(ds)
      BY <1>2, <2>2
    <3>2. j + cut \in 1..Len(held) /\ ds[j] = held[j + cut]
      BY <1>3, <3>1
    <3>3. CASE k = Len(ds)
      BY <1>4, <1>7, <2>2, <3>2, <3>3
    <3>4. CASE k # Len(ds)
      <4>1. k + cut \in 1..Len(held) /\ ds[k] = held[k + cut]
        BY <1>3, <3>4
      <4>2. j + cut < k + cut
        BY <1>2, <2>2
      <4> QED BY <1>7, <2>2, <3>2, <4>1, <4>2 DEF IdsGoUp
    <3> QED BY <3>3, <3>4
  <2> QED BY <2>1, <2>2 DEF IdsGoUp
<1> QED BY <1>5, <1>6, <1>7

(* What a judgement records and stores.                                    *)
RecordOf(request) == [request EXCEPT !.life = Recorded(@)]
DecisionOf(request, context, first) ==
  [id |-> total, request |-> request.id, active |-> TRUE, again |-> first.again,
   verdict |-> Verdict(request.id, request.refs, context \cup Passed(request.life)),
   asked |-> first.refs, life |-> first.life, number |-> judged, chain |-> first.chain,
   failing |-> context \cup Passed(first.life)]
Asked == [id : RequestIds, refs : RefSets, life : {NoDeadline} \cup 0..DefaultLife]
First == [again : 0..MaxReassessed, refs : RefSets, life : 0..DefaultLife, chain : Nat]

LEMMA JudgedIs ==
  ASSUME NEW request, NEW context, NEW held, NEW first, Judge(request, context, held, first)
  PROVE  /\ judged < MaxJudged /\ total' = total + 1 /\ judged' = judged + 1
         /\ requests' = Pushed(requests, RecordOf(request), RequestRoom)
         /\ decisions' = Pushed(held, DecisionOf(request, context, first), DecisionRoom)
  BY DEF Judge, RecordOf, DecisionOf

LEMMA RecordFits ==
  ASSUME NEW request \in Asked
  PROVE  /\ RecordOf(request) \in Request
         /\ RecordOf(request).id = request.id /\ RecordOf(request).refs = request.refs
         /\ RecordOf(request).life = Recorded(request.life)
         /\ Recorded(request.life) \in 0..DefaultLife
         /\ Passed(Recorded(request.life)) = Passed(request.life)
<1>1. /\ request.life \in {NoDeadline} \cup 0..DefaultLife
      /\ request.id \in RequestIds /\ request.refs \in RefSets
      /\ request = [id |-> request.id, refs |-> request.refs, life |-> request.life]
  BY DEF Asked
<1>2. Recorded(request.life) \in 0..DefaultLife /\ Passed(Recorded(request.life)) = Passed(request.life)
  BY <1>1, DispatchBounds DEF Recorded, Passed, NoDeadline
<1>3. RecordOf(request) = [id |-> request.id, refs |-> request.refs, life |-> Recorded(request.life)]
  BY <1>1 DEF RecordOf
<1> QED BY <1>1, <1>2, <1>3 DEF Request

LEMMA DecisionFits ==
  ASSUME NEW request \in Asked, NEW context \in Contexts, NEW first \in First,
         total \in Nat, judged \in Nat
  PROVE  DecisionOf(request, context, first) \in Decision(layer)
<1>1. /\ request.id \in RequestIds /\ first.again \in 0..MaxReassessed /\ first.refs \in RefSets
      /\ first.life \in 0..DefaultLife /\ first.chain \in Nat
  BY DEF Asked, First
<1>2. context \cup Passed(first.life) \in Failings
  <2>1. Passed(first.life) \in {{}, {"deadline"}}
    BY DEF Passed
  <2> QED BY <2>1 DEF Failings
<1>3. Verdict(request.id, request.refs, context \cup Passed(request.life))
        \in Range(ChecksOf(layer)) \cup {"id", "limit", "granted"}
  BY VerdictIs
<1> QED BY <1>1, <1>2, <1>3 DEF DecisionOf, Decision

(* The older decisions, when one more request is on record.                *)
LEMMA EachStays ==
  ASSUME NEW n \in Nat, NEW under, NEW under2, NEW ring, NEW ring2, NEW l, NEW held,
         EachSound(held, l, under, n, ring), AskedFits(under, n), AskedFits(under2, n + 1),
         Grown(under, under2), OneFurther(ring, ring2, n)
  PROVE  EachSound(held, l, under2, n + 1, ring2)
<1>1. /\ held \in Seq(Decision(l)) /\ Len(held) <= DecisionRoom
      /\ \A k \in 1..Len(held) : Hollow(held[k]) \/ Sound(held[k], under, n, ring)
      /\ \A k \in 1..Len(held) : Warranted(l, held[k], under)
      /\ \A k \in 1..Len(held) : held[k] \in Decision(l)
  BY DEF EachSound
<1>2. ASSUME NEW k \in 1..Len(held)
      PROVE  Hollow(held[k]) \/ Sound(held[k], under2, n + 1, ring2)
  <2>1. CASE Hollow(held[k])
    BY <2>1
  <2>2. CASE Sound(held[k], under, n, ring)
    <3>1. held[k] \in Decision(l)
      BY <1>1
    <3> QED BY <2>2, <3>1, SoundStays
  <2> QED BY <1>1, <2>1, <2>2
<1>3. AskedFits(under, n + 1)
  BY DEF AskedFits
<1>4. ASSUME NEW k \in 1..Len(held)
      PROVE  Warranted(l, held[k], under2)
  <2>1. CASE Hollow(held[k])
    BY <2>1 DEF Hollow, Warranted
  <2>2. CASE Sound(held[k], under, n, ring)
    <3>1. held[k].request \in RequestIds /\ Warranted(l, held[k], under) /\ n + 1 \in Nat
      BY <1>1, <2>2 DEF Sound
    <3> QED BY <1>3, <3>1, WarrantedStays
  <2> QED BY <1>1, <2>1, <2>2
<1> QED BY <1>1, <1>2, <1>4 DEF EachSound

(* A judgement keeps everything, if what it judges goes back to a request  *)
(* under its name, no other decision of that request is in force, and the  *)
(* request as first made would have been judged the same, or could not.    *)
LEMMA JudgeHolds ==
  ASSUME NEW request \in Asked, NEW context \in Contexts, NEW held, NEW first \in First,
         DispatchInv, Judge(request, context, held, first),
         layer' = layer, wasReset' = wasReset, restored' = restored,
         Grown(askedAs, askedAs'), AskedFits(askedAs', judged + 1),
         first.chain \in askedAs'[request.id], first.chain <= judged,
         EachSound(held, layer, askedAs, judged, requests), OneInForce(held, restored),
         ~ wasReset => IdsGoUp(held, total),
         MayJoin(DecisionOf(request, context, first), held, restored),
         (judged + 1) - first.chain <= RequestRoom =>
           Matches(requests'[Len(requests') - (judged + 1) + first.chain + 1],
                   request.id, first.refs, first.life),
         \/ request.refs = first.refs /\ Passed(request.life) = Passed(first.life)
         \/ /\ first.again > 0
            /\ \/ layer = "admission"
               \/ judged - first.chain > RequestRoom
               \/ Cardinality(askedAs'[request.id]) > 1
  PROVE  DispatchInv'
<1> DEFINE x == DecisionOf(request, context, first)
<1>1. /\ judged < MaxJudged /\ total' = total + 1 /\ judged' = judged + 1
      /\ requests' = Pushed(requests, RecordOf(request), RequestRoom)
      /\ decisions' = Pushed(held, x, DecisionRoom)
  BY JudgedIs
<1>2. /\ layer \in Layers /\ judged \in Nat /\ total \in Nat /\ total <= judged /\ judged \in 0..MaxJudged
      /\ AskedFits(askedAs, judged) /\ RingOfRequests(requests, judged, askedAs)
      /\ ~ wasReset => total = judged
  BY DispatchBounds DEF DispatchInv
<1>3. RingOfRequests(requests', judged + 1, askedAs') /\ OneFurther(requests, requests', judged)
  <2>1. RecordOf(request) \in Request /\ RecordOf(request).id = request.id
    BY RecordFits
  <2>2. askedAs'[RecordOf(request).id] # {}
    BY <2>1
  <2> QED BY <1>1, <1>2, <2>1, <2>2, RequestPushed
<1>4. EachSound(held, layer, askedAs', judged + 1, requests')
  BY <1>2, <1>3, EachStays
<1>5. x \in Decision(layer)
  BY <1>2, DecisionFits
<1>6. /\ x.id = total /\ x.request = request.id /\ x.number = judged /\ x.chain = first.chain
      /\ x.asked = first.refs /\ x.life = first.life /\ x.again = first.again
      /\ x.failing = context \cup Passed(first.life)
      /\ x.verdict = Verdict(request.id, request.refs, context \cup Passed(request.life))
  BY DEF DecisionOf
<1>13. MayJoin(x, held, restored)
  OBVIOUS
<1> HIDE DEF x
<1>7. Sound(x, askedAs', judged + 1, requests')
  <2>1. request.id \in RequestIds
    BY DEF Asked
  <2>2. x.number < judged + 1 /\ x.chain <= x.number /\ x.id \in Nat
    BY <1>2, <1>6
  <2>3. x.request \in RequestIds /\ x.chain \in askedAs'[x.request]
    BY <1>6, <2>1
  <2>4. (judged + 1) - x.chain <= RequestRoom =>
          Matches(requests'[Len(requests') - (judged + 1) + x.chain + 1], x.request, x.asked, x.life)
    BY <1>6
  <2> QED BY <2>2, <2>3, <2>4 DEF Sound
<1>8. Warranted(layer, x, askedAs')
  <2> SUFFICES ASSUME x.verdict = "granted"
               PROVE  /\ x.request # NoName
                      /\ MissingOf(layer, x) # {} =>
                           /\ x.again > 0
                           /\ \/ layer = "admission"
                              \/ x.number - x.chain > RequestRoom
                              \/ Cardinality(askedAs'[x.request]) > 1
    BY DEF Warranted
  <2>1. /\ request.id # NoName
        /\ Against(layer, request.refs, context \cup Passed(request.life)) = {}
    BY <1>6, VerdictIs
  <2>2. CASE request.refs = first.refs /\ Passed(request.life) = Passed(first.life)
    <3>1. Against(layer, x.asked, x.failing) = {}
      BY <1>6, <2>1, <2>2
    <3> QED BY <1>6, <2>1, <3>1, MissingIs
  <2>3. CASE /\ first.again > 0
             /\ \/ layer = "admission"
                \/ judged - first.chain > RequestRoom
                \/ Cardinality(askedAs'[request.id]) > 1
    BY <1>6, <2>1, <2>3
  <2> QED BY <2>2, <2>3
<1>9. EachSound(decisions', layer, askedAs', judged + 1, requests')
  BY <1>1, <1>4, <1>5, <1>7, <1>8, DecisionPushed
<1>10. OneInForce(decisions', restored)
  BY <1>1, <1>4, <1>5, <1>7, <1>8, <1>13, DecisionPushed
<1>11. ~ wasReset => total + 1 = judged + 1 /\ IdsGoUp(decisions', total + 1)
  <2> SUFFICES ASSUME ~ wasReset
               PROVE  IdsGoUp(decisions', total + 1)
    BY <1>2
  <2>1. IdsGoUp(held, total) /\ total + 1 \in Nat /\ total <= total + 1 /\ x.id < total + 1
    BY <1>2, <1>6
  <2>2. \A k \in 1..Len(held) : held[k].id # x.id
    <3>1. \A k \in 1..Len(held) : held[k].id < total
      BY <2>1 DEF IdsGoUp
    <3> QED BY <1>2, <1>6, <3>1
  <2> QED BY <1>1, <1>2, <1>4, <1>5, <1>7, <1>8, <2>1, <2>2, DecisionPushed
<1>12. judged + 1 \in 0..MaxJudged /\ total + 1 \in 0..(judged + 1)
  BY <1>1, <1>2, DispatchBounds
<1> QED BY <1>1, <1>2, <1>3, <1>9, <1>10, <1>11, <1>12 DEF DispatchInv

LEMMA SubmitHolds ==
  ASSUME DispatchInv, NEW id \in RequestIds, NEW refs \in References, NEW context \in Contexts,
         NEW life \in {NoDeadline, 0, DefaultLife}, Submit(id, refs, life, context)
  PROVE  DispatchInv'
<1> DEFINE request == [id |-> id, refs |-> refs, life |-> life]
           first == [again |-> 0, refs |-> refs, life |-> Recorded(life), chain |-> judged]
<1>1. /\ Judge(request, context, decisions, first)
      /\ askedAs' = [askedAs EXCEPT ![id] = @ \cup {judged}]
      /\ layer' = layer /\ wasReset' = wasReset /\ restored' = restored
  BY DEF Submit
<1>2. /\ judged \in Nat /\ AskedFits(askedAs, judged) /\ RingOfRequests(requests, judged, askedAs)
      /\ EachSound(decisions, layer, askedAs, judged, requests) /\ OneInForce(decisions, restored)
      /\ ~ wasReset => IdsGoUp(decisions, total)
  BY DispatchBounds DEF DispatchInv
<1>3. request \in Asked /\ request.id = id /\ request.refs = refs /\ request.life = life
  BY DispatchBounds DEF Asked, RefSets
<1>4. /\ Recorded(life) \in 0..DefaultLife /\ Passed(Recorded(life)) = Passed(life)
      /\ RecordOf(request) \in Request /\ RecordOf(request).id = id /\ RecordOf(request).refs = refs
      /\ RecordOf(request).life = Recorded(life)
  BY <1>3, RecordFits
<1>5. /\ first \in First /\ first.again = 0 /\ first.refs = refs /\ first.life = Recorded(life)
      /\ first.chain = judged
  BY <1>2, <1>4, DispatchBounds DEF First, RefSets
<1>6. Grown(askedAs, askedAs') /\ AskedFits(askedAs', judged + 1) /\ judged \in askedAs'[id]
  BY <1>1, <1>2 DEF Grown, AskedFits
<1>7. MayJoin(DecisionOf(request, context, first), decisions, restored)
  <2>1. DecisionOf(request, context, first).chain = judged
    BY DEF DecisionOf
  <2>2. ASSUME NEW k \in 1..Len(decisions), decisions[k].active = TRUE
        PROVE  decisions[k].chain # judged
    <3>1. Sound(decisions[k], askedAs, judged, requests) /\ decisions[k] \in Decision(layer)
      BY <1>2, <2>2 DEF EachSound, Hollow
    <3>2. decisions[k].chain <= decisions[k].number /\ decisions[k].number < judged
      BY <3>1 DEF Sound
    <3> QED BY <1>2, <3>1, <3>2, NotesAre
  <2> QED BY <2>1, <2>2 DEF MayJoin
<1> HIDE DEF request, first
<1>8. requests'[Len(requests') - (judged + 1) + first.chain + 1] = RecordOf(request)
  <2>1. requests' = Pushed(requests, RecordOf(request), RequestRoom)
    BY <1>1, JudgedIs
  <2>2. askedAs'[RecordOf(request).id] # {}
    BY <1>4, <1>6
  <2>3. /\ RingOfRequests(requests', judged + 1, askedAs') /\ OneFurther(requests, requests', judged)
        /\ requests'[Len(requests')] = RecordOf(request) /\ Len(requests') \in 1..(judged + 1)
    <3>1. \A ring2 : ring2 = Pushed(requests, RecordOf(request), RequestRoom) =>
            /\ RingOfRequests(ring2, judged + 1, askedAs') /\ OneFurther(requests, ring2, judged)
            /\ ring2[Len(ring2)] = RecordOf(request) /\ Len(ring2) \in 1..(judged + 1)
      <4>1. judged \in Nat /\ RingOfRequests(requests, judged, askedAs) /\ RecordOf(request) \in Request
        BY <1>2, <1>4
      <4>2. AskedFits(askedAs', judged + 1) /\ Grown(askedAs, askedAs')
        BY <1>6
      <4> QED BY <4>1, <4>2, <2>2, RequestPushed
    <3> QED BY <2>1, <3>1
  <2>4. Len(requests') - (judged + 1) + first.chain + 1 = Len(requests')
    BY <1>2, <1>5, <2>3
  <2> QED BY <2>3, <2>4
<1>9. Matches(requests'[Len(requests') - (judged + 1) + first.chain + 1],
              request.id, first.refs, first.life)
  BY <1>3, <1>4, <1>5, <1>8 DEF Matches
<1>10. request.refs = first.refs /\ Passed(request.life) = Passed(first.life)
  BY <1>3, <1>4, <1>5
<1>11. first.chain \in askedAs'[request.id] /\ first.chain <= judged
  BY <1>2, <1>3, <1>5, <1>6
<1> QED BY <1>1, <1>2, <1>3, <1>5, <1>6, <1>7, <1>9, <1>10, <1>11, JudgeHolds

(* A decision that is no longer in force.                                  *)
LEMMA FoundIs ==
  ASSUME DispatchInv, NEW id \in Kept
  PROVE  Found(id) \in 1..Len(decisions) /\ decisions[Found(id)].id = id
<1>1. decisions \in Seq(Decision(layer)) /\ DOMAIN decisions = 1..Len(decisions)
  BY DEF DispatchInv, EachSound
<1>2. FoundAt(id) \in SUBSET Nat /\ FoundAt(id) # {}
  BY <1>1 DEF FoundAt, Kept
<1>3. Found(id) \in FoundAt(id)
  BY <1>2, HasLeast DEF Found
<1> QED BY <1>1, <1>3 DEF FoundAt

LEMMA SupersededHolds ==
  ASSUME DispatchInv, NEW k \in 1..Len(decisions)
  PROVE  /\ EachSound(Superseded(k), layer, askedAs, judged, requests)
         /\ OneInForce(Superseded(k), restored)
         /\ ~ wasReset => IdsGoUp(Superseded(k), total)
         /\ Len(Superseded(k)) = Len(decisions)
         /\ \A j \in 1..Len(decisions) :
              Superseded(k)[j].active = TRUE => j # k /\ Superseded(k)[j] = decisions[j]
<1> DEFINE ds == Superseded(k)
<1>1. /\ decisions \in Seq(Decision(layer)) /\ Len(decisions) <= DecisionRoom
      /\ DOMAIN decisions = 1..Len(decisions)
      /\ \A j \in 1..Len(decisions) : decisions[j] \in Decision(layer)
      /\ \A j \in 1..Len(decisions) : Hollow(decisions[j]) \/ Sound(decisions[j], askedAs, judged, requests)
      /\ \A j \in 1..Len(decisions) : Warranted(layer, decisions[j], askedAs)
      /\ OneInForce(decisions, restored) /\ (~ wasReset => IdsGoUp(decisions, total))
  BY DEF DispatchInv, EachSound
<1>2. ds = [decisions EXCEPT ![k].active = FALSE] /\ DOMAIN ds = 1..Len(decisions)
  BY <1>1 DEF Superseded
<1>3. ASSUME NEW j \in 1..Len(decisions)
      PROVE  /\ ds[j] \in Decision(layer) /\ ds[j].id = decisions[j].id /\ ds[j].request = decisions[j].request
             /\ ds[j].chain = decisions[j].chain /\ ds[j].number = decisions[j].number
             /\ ds[j].asked = decisions[j].asked /\ ds[j].life = decisions[j].life
             /\ ds[j].verdict = decisions[j].verdict /\ ds[j].failing = decisions[j].failing
             /\ ds[j].again = decisions[j].again
             /\ j # k => ds[j] = decisions[j]
             /\ ds[k].active = FALSE
  <2>1. j # k => ds[j] = decisions[j]
    BY <1>1, <1>2
  <2>2. ds[k] = [decisions[k] EXCEPT !.active = FALSE]
    BY <1>1, <1>2
  <2>3. decisions[j] \in Decision(layer) /\ decisions[k] \in Decision(layer)
    BY <1>1
  <2>4. ds[k].active = FALSE
    BY <2>2, <2>3 DEF Decision
  <2>5. CASE j = k
    <3>1. ds[j] = [decisions[j] EXCEPT !.active = FALSE]
      BY <2>2, <2>5
    <3> QED BY <2>3, <2>4, <2>5, <3>1 DEF Decision
  <2> QED BY <2>1, <2>3, <2>4, <2>5
<1> HIDE DEF ds
<1>4. ds \in Seq(Decision(layer)) /\ Len(ds) = Len(decisions)
  <2>1. ds = [j \in 1..Len(decisions) |-> ds[j]]
    BY <1>2
  <2>2. \A j \in 1..Len(decisions) : ds[j] \in Decision(layer)
    BY <1>3
  <2> QED BY <1>1, <2>1, <2>2
<1>5. ASSUME NEW j \in 1..Len(ds)
      PROVE  (Hollow(ds[j]) \/ Sound(ds[j], askedAs, judged, requests)) /\ Warranted(layer, ds[j], askedAs)
  <2>1. Hollow(decisions[j]) => Hollow(ds[j])
    BY <1>3, <1>4 DEF Hollow
  <2>2. Sound(decisions[j], askedAs, judged, requests) => Sound(ds[j], askedAs, judged, requests)
    BY <1>3, <1>4 DEF Sound
  <2>3. MissingOf(layer, ds[j]) = MissingOf(layer, decisions[j])
    BY <1>3, <1>4 DEF MissingOf
  <2>4. Warranted(layer, decisions[j], askedAs)
    BY <1>1, <1>4
  <2>5. Warranted(layer, ds[j], askedAs)
    BY <1>3, <1>4, <2>3, <2>4 DEF Warranted
  <2> QED BY <1>1, <1>4, <2>1, <2>2, <2>5
<1>6. EachSound(ds, layer, askedAs, judged, requests)
  BY <1>1, <1>4, <1>5 DEF EachSound
<1>7. \A j \in 1..Len(decisions) : ds[j].active = TRUE => j # k /\ ds[j] = decisions[j]
  BY <1>3
<1>8. OneInForce(ds, restored)
  BY <1>1, <1>4, <1>7 DEF OneInForce
<1>9. ~ wasReset => IdsGoUp(ds, total)
  <2> SUFFICES ASSUME ~ wasReset
               PROVE  IdsGoUp(ds, total)
    OBVIOUS
  <2>1. IdsGoUp(decisions, total)
    BY <1>1
  <2>2. \A j \in 1..Len(ds) : ds[j].id = decisions[j].id /\ ds[j].verdict = decisions[j].verdict
    BY <1>3, <1>4
  <2> QED BY <1>4, <2>1, <2>2 DEF IdsGoUp
<1> QED BY <1>4, <1>6, <1>7, <1>8, <1>9 DEF ds

LEMMA TwoOfThem ==
  ASSUME NEW S, IsFiniteSet(S), NEW a \in S, NEW b \in S, a # b
  PROVE  Cardinality(S) > 1
<1>1. IsFiniteSet(S \ {a}) /\ Cardinality(S \ {a}) = Cardinality(S) - 1
  BY FS_RemoveElement
<1>2. Cardinality(S \ {a}) # 0
  BY <1>1, FS_EmptySet
<1>3. Cardinality(S) \in Nat /\ Cardinality(S \ {a}) \in Nat
  BY <1>1, FS_CardinalityType
<1> QED BY <1>1, <1>2, <1>3

(* What is judged again is the request of the decision, unless the gate    *)
(* judges or the enforcement finds no record of it or that of another.     *)
LEMMA AgainIs ==
  ASSUME DispatchInv, NEW d \in Decision(layer), Sound(d, askedAs, judged, requests)
  PROVE  /\ RequestAgain(d.request) \in Asked /\ RequestAgain(d.request).id = d.request
         /\ \/ RequestAgain(d.request).refs = d.asked /\ RequestAgain(d.request).life = d.life
            \/ layer = "admission"
            \/ judged - d.chain > RequestRoom
            \/ Cardinality(askedAs[d.request]) > 1
<1> DEFINE again == RequestAgain(d.request)
           records == {k \in DOMAIN requests : requests[k].id = d.request}
           oldest == CHOOSE k \in records : \A j \in records : k <= j
<1>1. /\ judged \in Nat /\ AskedFits(askedAs, judged) /\ RequestRoom \in Nat
      /\ requests \in Seq(Request) /\ DOMAIN requests = 1..Len(requests) /\ Len(requests) \in Nat
      /\ Len(requests) = (IF judged < RequestRoom THEN judged ELSE RequestRoom)
      /\ \A k \in 1..Len(requests) : \E a \in askedAs[requests[k].id] : a <= judged - Len(requests) + k - 1
      /\ \A k \in 1..Len(requests) : requests[k] \in Request
  <2>1. judged \in Nat /\ AskedFits(askedAs, judged) /\ RingOfRequests(requests, judged, askedAs)
    BY DispatchBounds DEF DispatchInv
  <2>2. RequestRoom \in Nat
    BY DispatchBounds
  <2> QED BY <2>1, <2>2, RingIs
<1>2. /\ d.request \in RequestIds /\ d.chain \in askedAs[d.request] /\ d.chain <= d.number
      /\ d.number < judged /\ d.chain \in Nat /\ d.number \in Nat
      /\ judged - d.chain <= RequestRoom =>
           Matches(requests[Len(requests) - judged + d.chain + 1], d.request, d.asked, d.life)
  BY NotesAre DEF Sound
<1>3. again = IF layer = "admission" \/ records = {}
              THEN [id |-> d.request, refs |-> {}, life |-> NoDeadline] ELSE requests[oldest]
  BY DEF RequestAgain
<1>4. records # {} => oldest \in records /\ \A j \in records : oldest <= j
  <2>1. records \in SUBSET Nat
    BY <1>1
  <2> QED BY <2>1, HasLeast
<1>5. \A k \in records : k \in 1..Len(requests) /\ requests[k].id = d.request
  BY <1>1
<1>6. \A k \in 1..Len(requests) : requests[k].id = d.request => k \in records
  BY <1>1
<1> HIDE DEF again, records, oldest
<1>7. again \in Asked /\ again.id = d.request
  <2>1. CASE layer = "admission" \/ records = {}
    <3>1. again = [id |-> d.request, refs |-> {}, life |-> NoDeadline]
      BY <1>3, <2>1
    <3> QED BY <1>2, <3>1 DEF Asked, RefSets
  <2>2. CASE ~(layer = "admission" \/ records = {})
    <3>1. again = requests[oldest] /\ again \in Request /\ again.id = d.request
      BY <1>1, <1>3, <1>4, <1>5, <2>2
    <3>2. Request \subseteq Asked
      BY DEF Request, Asked
    <3> QED BY <3>1, <3>2
  <2> QED BY <2>1, <2>2
<1>8. ASSUME layer # "admission", judged - d.chain <= RequestRoom
      PROVE  \/ again.refs = d.asked /\ again.life = d.life
             \/ Cardinality(askedAs[d.request]) > 1
  <2> DEFINE place == Len(requests) - judged + d.chain + 1
  <2>1. place \in 1..Len(requests)
    BY <1>1, <1>2, <1>8
  <2>2. Matches(requests[place], d.request, d.asked, d.life)
    BY <1>2, <1>8
  <2>3. place \in records /\ again = requests[oldest] /\ oldest <= place /\ oldest \in 1..Len(requests)
    BY <1>3, <1>4, <1>5, <1>6, <1>8, <2>1, <2>2 DEF Matches
  <2>4. CASE oldest = place
    BY <2>2, <2>3, <2>4 DEF Matches
  <2>5. CASE oldest # place
    <3>1. PICK a \in askedAs[requests[oldest].id] : a <= judged - Len(requests) + oldest - 1
      BY <1>1, <2>3
    <3>2. a \in askedAs[d.request]
      BY <1>4, <1>5, <2>3
    <3>3. askedAs[d.request] \subseteq 0..judged
      BY <1>1, <1>2 DEF AskedFits
    <3>4. a \in Nat /\ oldest \in Nat /\ oldest < place
      BY <2>1, <2>3, <2>5, <3>2, <3>3
    <3>5. a # d.chain
      BY <1>1, <1>2, <3>1, <3>4
    <3>6. IsFiniteSet(0..judged)
      BY <1>1, FS_Interval
    <3>7. IsFiniteSet(askedAs[d.request])
      BY <3>3, <3>6, FS_Subset
    <3> QED BY <1>2, <3>2, <3>5, <3>7, TwoOfThem
  <2> QED BY <2>4, <2>5
<1>9. judged - d.chain \in Int
  BY <1>1, <1>2
<1> QED BY <1>1, <1>7, <1>8, <1>9 DEF again

LEMMA ReassessHolds ==
  ASSUME DispatchInv, NEW id \in Kept, NEW context \in Contexts, Reassess(id, context)
  PROVE  DispatchInv'
<1> DEFINE k == Found(id)
           old == decisions[k]
           request == RequestAgain(old.request)
           first == [again |-> old.again + 1, refs |-> old.asked, life |-> old.life, chain |-> old.chain]
<1>1. /\ old.active /\ old.again < MaxReassessed
      /\ Judge(request, context, Superseded(k), first)
      /\ layer' = layer /\ askedAs' = askedAs /\ wasReset' = wasReset /\ restored' = restored
  BY DEF Reassess
<1>2. k \in 1..Len(decisions)
  BY FoundIs
<1>3. /\ EachSound(Superseded(k), layer, askedAs, judged, requests)
      /\ OneInForce(Superseded(k), restored) /\ (~ wasReset => IdsGoUp(Superseded(k), total))
      /\ Len(Superseded(k)) = Len(decisions)
      /\ \A j \in 1..Len(decisions) :
           Superseded(k)[j].active = TRUE => j # k /\ Superseded(k)[j] = decisions[j]
  BY <1>2, SupersededHolds
<1>4. /\ judged \in Nat /\ AskedFits(askedAs, judged) /\ RingOfRequests(requests, judged, askedAs)
      /\ EachSound(decisions, layer, askedAs, judged, requests) /\ OneInForce(decisions, restored)
  BY DispatchBounds DEF DispatchInv
<1> HIDE DEF k
<1>5. old \in Decision(layer) /\ (Hollow(old) \/ Sound(old, askedAs, judged, requests))
  BY <1>2, <1>4 DEF EachSound
<1>6. /\ old.active = TRUE /\ old.again \in 0..MaxReassessed /\ old.asked \in RefSets
      /\ old.life \in 0..DefaultLife /\ old.chain \in Nat /\ old.number \in Nat
  BY <1>1, <1>5 DEF Decision
<1>7. Sound(old, askedAs, judged, requests)
  BY <1>5, <1>6 DEF Hollow
<1> HIDE DEF old
<1>8. /\ request \in Asked /\ request.id = old.request
      /\ \/ request.refs = old.asked /\ request.life = old.life
         \/ layer = "admission" \/ judged - old.chain > RequestRoom
         \/ Cardinality(askedAs[old.request]) > 1
  BY <1>5, <1>7, AgainIs
<1>9. /\ old.request \in RequestIds /\ old.chain \in askedAs[old.request] /\ old.chain <= old.number
      /\ old.number < judged
      /\ judged - old.chain <= RequestRoom =>
           Matches(requests[Len(requests) - judged + old.chain + 1], old.request, old.asked, old.life)
  BY <1>7 DEF Sound
<1>10. /\ first \in First /\ first.again > 0 /\ first.refs = old.asked /\ first.life = old.life
       /\ first.chain = old.chain
  <2>1. old.again + 1 \in 0..MaxReassessed /\ old.again + 1 > 0
    BY <1>1, <1>6, DispatchBounds
  <2> QED BY <1>6, <2>1 DEF First
<1>11. DecisionOf(request, context, first).chain = old.chain
  BY DEF DecisionOf
<1> HIDE DEF request, first
<1>12. Grown(askedAs, askedAs') /\ AskedFits(askedAs', judged + 1)
  <2>1. Grown(askedAs, askedAs')
    BY <1>1 DEF Grown
  <2>2. AskedFits(askedAs, judged + 1)
    BY <1>4 DEF AskedFits
  <2> QED BY <1>1, <2>1, <2>2
<1>13. MayJoin(DecisionOf(request, context, first), Superseded(k), restored)
  <2>1. ASSUME NEW j \in 1..Len(decisions), Superseded(k)[j].active = TRUE
        PROVE  Superseded(k)[j].chain # old.chain \/ Superseded(k)[j].chain \in restored
    <3>1. j # k /\ Superseded(k)[j] = decisions[j] /\ decisions[j].active = TRUE
      BY <1>3, <2>1
    <3> QED BY <1>2, <1>4, <1>6, <3>1 DEF OneInForce, old
  <2> QED BY <1>3, <1>11, <2>1 DEF MayJoin
<1>14. (judged + 1) - first.chain <= RequestRoom =>
         Matches(requests'[Len(requests') - (judged + 1) + first.chain + 1],
                 request.id, first.refs, first.life)
  <2> SUFFICES ASSUME (judged + 1) - old.chain <= RequestRoom
               PROVE  Matches(requests'[Len(requests') - (judged + 1) + old.chain + 1],
                              old.request, old.asked, old.life)
    BY <1>8, <1>10
  <2>1. requests' = Pushed(requests, RecordOf(request), RequestRoom)
    BY <1>1, JudgedIs
  <2>2. RecordOf(request) \in Request /\ askedAs'[RecordOf(request).id] # {}
    BY <1>1, <1>8, <1>9, RecordFits
  <2>3. OneFurther(requests, requests', judged)
    <3>1. judged \in Nat /\ RingOfRequests(requests, judged, askedAs)
      BY <1>4
    <3> QED BY <1>12, <2>1, <2>2, <3>1, RequestPushed
  <2>4. old.chain < judged /\ judged - old.chain <= RequestRoom
    BY <1>4, <1>6, <1>9, DispatchBounds
  <2>5. requests'[Len(requests') - (judged + 1) + old.chain + 1] = requests[Len(requests) - judged + old.chain + 1]
    BY <1>6, <2>3, <2>4 DEF OneFurther
  <2> QED BY <1>9, <2>4, <2>5
<1>15. first.chain \in askedAs'[request.id] /\ first.chain <= judged
  BY <1>1, <1>4, <1>6, <1>8, <1>9, <1>10
<1>16. \/ request.refs = first.refs /\ Passed(request.life) = Passed(first.life)
       \/ /\ first.again > 0
          /\ \/ layer = "admission"
             \/ judged - first.chain > RequestRoom
             \/ Cardinality(askedAs'[request.id]) > 1
  BY <1>1, <1>8, <1>10
<1> QED BY <1>1, <1>3, <1>8, <1>10, <1>12, <1>13, <1>14, <1>15, <1>16, JudgeHolds

LEMMA InvalidateHolds ==
  ASSUME DispatchInv, NEW id \in Kept, Invalidate(id)
  PROVE  DispatchInv'
<1>1. /\ decisions' = Superseded(Found(id))
      /\ layer' = layer /\ requests' = requests /\ total' = total /\ judged' = judged
      /\ askedAs' = askedAs /\ wasReset' = wasReset /\ restored' = restored
  BY DEF Invalidate, Superseded
<1>2. /\ EachSound(Superseded(Found(id)), layer, askedAs, judged, requests)
      /\ OneInForce(Superseded(Found(id)), restored)
      /\ ~ wasReset => IdsGoUp(Superseded(Found(id)), total)
  BY FoundIs, SupersededHolds
<1> QED BY <1>1, <1>2 DEF DispatchInv

LEMMA RefuseHolds ==
  ASSUME DispatchInv, NEW id \in Kept, NEW buffer \in Range(decisions) \cup {Blank}, RefuseAgain(id, buffer)
  PROVE  DispatchInv'
<1> DEFINE x == [buffer EXCEPT !.verdict = "limit"]
<1>1. /\ decisions' = Pushed(decisions, x, DecisionRoom)
      /\ restored' = (IF buffer.active THEN restored \cup {buffer.chain} ELSE restored)
      /\ layer' = layer /\ requests' = requests /\ total' = total /\ judged' = judged
      /\ askedAs' = askedAs /\ wasReset' = wasReset
  BY DEF RefuseAgain
<1>2. /\ judged \in Nat /\ total \in Nat /\ layer \in Layers
      /\ EachSound(decisions, layer, askedAs, judged, requests) /\ OneInForce(decisions, restored)
      /\ ~ wasReset => IdsGoUp(decisions, total)
  BY DispatchBounds DEF DispatchInv
<1>3. /\ buffer \in Decision(layer) /\ (Hollow(buffer) \/ Sound(buffer, askedAs, judged, requests))
      /\ ~ wasReset => buffer.id < total
  <2>1. CASE buffer = Blank
    <3>1. Blank \in Decision(layer)
      <4>1. \A none : none = {} => none \in Failings
        <5> TAKE none
        <5>1. none = {} => none = none \cup none /\ none \in Contexts \cup {{}} /\ none \in {{}, {"deadline"}}
          OBVIOUS
        <5> QED BY <5>1 DEF Failings
      <4>2. {} \in Failings /\ {} \in RefSets
        BY <4>1 DEF RefSets
      <4>3. 0 \in 0..MaxReassessed /\ 0 \in 0..DefaultLife /\ 0 \in Nat
        BY DispatchBounds
      <4> QED BY <4>2, <4>3 DEF Blank, Decision
    <3>2. Hollow(Blank) /\ Blank.id < total
      BY <1>2 DEF Blank, Hollow, Nobody
    <3> QED BY <2>1, <3>1, <3>2
  <2>2. CASE buffer \in Range(decisions)
    <3>1. PICK k \in 1..Len(decisions) : buffer = decisions[k]
      BY <1>2, <2>2 DEF Range, EachSound
    <3> QED BY <1>2, <3>1 DEF EachSound, IdsGoUp
  <2> QED BY <2>1, <2>2
<1>4. /\ x \in Decision(layer) /\ x.verdict = "limit" /\ x.id = buffer.id /\ x.request = buffer.request
      /\ x.active = buffer.active /\ x.chain = buffer.chain /\ x.number = buffer.number
      /\ x.asked = buffer.asked /\ x.life = buffer.life /\ x.active \in BOOLEAN
  BY <1>3 DEF Decision
<1> HIDE DEF x
<1>5. Hollow(x) \/ Sound(x, askedAs, judged, requests)
  <2>1. Hollow(buffer) => Hollow(x)
    BY <1>4 DEF Hollow
  <2>2. Sound(buffer, askedAs, judged, requests) => Sound(x, askedAs, judged, requests)
    BY <1>4 DEF Sound
  <2> QED BY <1>3, <2>1, <2>2
<1>6. Warranted(layer, x, askedAs)
  BY <1>4 DEF Warranted
<1>7. EachSound(decisions', layer, askedAs, judged, requests)
  BY <1>1, <1>2, <1>4, <1>5, <1>6, DecisionPushed
<1>8. OneInForce(decisions', restored')
  <2>1. OneInForce(decisions, restored')
    BY <1>1, <1>2 DEF OneInForce
  <2>2. MayJoin(x, decisions, restored')
    BY <1>1, <1>4 DEF MayJoin
  <2> QED BY <1>1, <1>2, <1>4, <1>5, <1>6, <2>1, <2>2, DecisionPushed
<1>9. ~ wasReset => IdsGoUp(decisions', total)
  <2> SUFFICES ASSUME ~ wasReset
               PROVE  IdsGoUp(decisions', total)
    OBVIOUS
  <2>1. IdsGoUp(decisions, total) /\ total <= total /\ x.id < total /\ x.verdict # "granted"
    BY <1>2, <1>3, <1>4
  <2> QED BY <1>1, <1>2, <1>4, <1>5, <1>6, <2>1, DecisionPushed
<1>10. judged \in 0..MaxJudged /\ total \in 0..judged /\ AskedFits(askedAs, judged)
       /\ RingOfRequests(requests, judged, askedAs) /\ (~ wasReset => total = judged)
  BY DEF DispatchInv
<1> QED BY <1>1, <1>2, <1>7, <1>8, <1>9, <1>10 DEF DispatchInv

(* Time passes for a request and for the decisions about it alike.         *)
AgedOf(x) == [x EXCEPT !.life = IF @ > 0 THEN @ - 1 ELSE @]

LEMMA AgedIs ==
  ASSUME NEW life \in 0..DefaultLife
  PROVE  (IF life > 0 THEN life - 1 ELSE life) \in 0..DefaultLife
  BY DispatchBounds

LEMMA ElapseHolds ==
  ASSUME DispatchInv, DispatchElapse
  PROVE  DispatchInv'
<1>1. /\ requests' = [k \in DOMAIN requests |-> AgedOf(requests[k])]
      /\ decisions' = [k \in DOMAIN decisions |-> AgedOf(decisions[k])]
      /\ layer' = layer /\ total' = total /\ judged' = judged
      /\ askedAs' = askedAs /\ wasReset' = wasReset /\ restored' = restored
  BY DEF DispatchElapse, AgedOf
<1>2. /\ judged \in Nat /\ AskedFits(askedAs, judged)
      /\ requests \in Seq(Request) /\ DOMAIN requests = 1..Len(requests) /\ Len(requests) \in Nat
      /\ Len(requests) = (IF judged < RequestRoom THEN judged ELSE RequestRoom)
      /\ \A k \in 1..Len(requests) : \E a \in askedAs[requests[k].id] : a <= judged - Len(requests) + k - 1
      /\ \A k \in 1..Len(requests) : requests[k] \in Request
      /\ RequestRoom \in Nat
  <2>1. judged \in Nat /\ AskedFits(askedAs, judged) /\ RingOfRequests(requests, judged, askedAs)
    BY DispatchBounds DEF DispatchInv
  <2>2. RequestRoom \in Nat
    BY DispatchBounds
  <2> QED BY <2>1, <2>2, RingIs
<1>3. /\ decisions \in Seq(Decision(layer)) /\ DOMAIN decisions = 1..Len(decisions)
      /\ Len(decisions) \in Nat /\ Len(decisions) <= DecisionRoom
      /\ \A k \in 1..Len(decisions) : Hollow(decisions[k]) \/ Sound(decisions[k], askedAs, judged, requests)
      /\ \A k \in 1..Len(decisions) : Warranted(layer, decisions[k], askedAs)
      /\ \A k \in 1..Len(decisions) : decisions[k] \in Decision(layer)
      /\ OneInForce(decisions, restored) /\ (~ wasReset => IdsGoUp(decisions, total))
  BY DEF DispatchInv, EachSound
<1>4. ASSUME NEW k \in 1..Len(requests)
      PROVE  /\ AgedOf(requests[k]) \in Request /\ AgedOf(requests[k]).id = requests[k].id
             /\ AgedOf(requests[k]).refs = requests[k].refs
             /\ AgedOf(requests[k]).life = IF requests[k].life > 0 THEN requests[k].life - 1 ELSE requests[k].life
  <2>1. requests[k] \in Request /\ requests[k].life \in 0..DefaultLife
    BY <1>2 DEF Request
  <2>2. (IF requests[k].life > 0 THEN requests[k].life - 1 ELSE requests[k].life) \in 0..DefaultLife
    BY <2>1, AgedIs
  <2> QED BY <2>1, <2>2 DEF AgedOf, Request
<1>5. ASSUME NEW k \in 1..Len(decisions)
      PROVE  /\ AgedOf(decisions[k]) \in Decision(layer)
             /\ AgedOf(decisions[k]).id = decisions[k].id
             /\ AgedOf(decisions[k]).request = decisions[k].request
             /\ AgedOf(decisions[k]).active = decisions[k].active
             /\ AgedOf(decisions[k]).again = decisions[k].again
             /\ AgedOf(decisions[k]).verdict = decisions[k].verdict
             /\ AgedOf(decisions[k]).asked = decisions[k].asked
             /\ AgedOf(decisions[k]).number = decisions[k].number
             /\ AgedOf(decisions[k]).chain = decisions[k].chain
             /\ AgedOf(decisions[k]).failing = decisions[k].failing
             /\ AgedOf(decisions[k]).life =
                  IF decisions[k].life > 0 THEN decisions[k].life - 1 ELSE decisions[k].life
  <2>1. decisions[k] \in Decision(layer) /\ decisions[k].life \in 0..DefaultLife
    BY <1>3 DEF Decision
  <2>2. (IF decisions[k].life > 0 THEN decisions[k].life - 1 ELSE decisions[k].life) \in 0..DefaultLife
    BY <2>1, AgedIs
  <2> QED BY <2>1, <2>2 DEF AgedOf, Decision
<1>6. /\ requests' \in Seq(Request) /\ Len(requests') = Len(requests)
      /\ \A k \in 1..Len(requests) : requests'[k] = AgedOf(requests[k])
  BY <1>1, <1>2, <1>4
<1>7. /\ decisions' \in Seq(Decision(layer)) /\ Len(decisions') = Len(decisions)
      /\ \A k \in 1..Len(decisions) : decisions'[k] = AgedOf(decisions[k])
  BY <1>1, <1>3, <1>5
<1>8. RingOfRequests(requests', judged, askedAs)
  BY <1>2, <1>4, <1>6 DEF RingOfRequests
<1>9. ASSUME NEW k \in 1..Len(decisions)
      PROVE  /\ Hollow(decisions'[k]) \/ Sound(decisions'[k], askedAs, judged, requests')
             /\ Warranted(layer, decisions'[k], askedAs)
  <2> DEFINE d == decisions[k]
  <2>1. decisions'[k] = AgedOf(d) /\ d \in Decision(layer)
    BY <1>3, <1>7
  <2>2. Hollow(d) => Hollow(AgedOf(d))
    BY <1>5 DEF Hollow
  <2>3. ASSUME Sound(d, askedAs, judged, requests)
        PROVE  Sound(AgedOf(d), askedAs, judged, requests')
    <3>1. /\ d.id \in Nat /\ d.request \in RequestIds /\ d.chain \in askedAs[d.request]
          /\ d.chain <= d.number /\ d.number < judged /\ d.chain \in Nat /\ d.number \in Nat
          /\ judged - d.chain <= RequestRoom =>
               Matches(requests[Len(requests) - judged + d.chain + 1], d.request, d.asked, d.life)
      BY <2>1, <2>3, NotesAre DEF Sound
    <3>2. ASSUME judged - d.chain <= RequestRoom
          PROVE  Matches(requests'[Len(requests') - judged + d.chain + 1],
                         AgedOf(d).request, AgedOf(d).asked, AgedOf(d).life)
      <4> DEFINE place == Len(requests) - judged + d.chain + 1
      <4>1. place \in 1..Len(requests)
        BY <1>2, <3>1, <3>2, SMTT(30)
      <4>2. Matches(requests[place], d.request, d.asked, d.life)
        BY <3>1, <3>2
      <4>3. requests'[place] = AgedOf(requests[place])
        BY <1>6, <4>1
      <4> HIDE DEF place
      <4>4. Matches(requests'[place], AgedOf(d).request, AgedOf(d).asked, AgedOf(d).life)
        BY <1>4, <1>5, <4>1, <4>2, <4>3 DEF Matches
      <4> QED BY <1>6, <4>4 DEF place
    <3>3. /\ AgedOf(d).id = d.id /\ AgedOf(d).request = d.request /\ AgedOf(d).chain = d.chain
          /\ AgedOf(d).number = d.number
      BY <1>5
    <3> QED BY <3>1, <3>2, <3>3 DEF Sound
  <2>4. MissingOf(layer, AgedOf(d)) = MissingOf(layer, d)
    BY <1>5 DEF MissingOf
  <2>5. Warranted(layer, d, askedAs)
    BY <1>3
  <2>6. Warranted(layer, AgedOf(d), askedAs)
    BY <1>5, <2>4, <2>5 DEF Warranted
  <2> QED BY <1>3, <2>1, <2>2, <2>3, <2>6
<1>10. EachSound(decisions', layer, askedAs, judged, requests')
  BY <1>3, <1>7, <1>9 DEF EachSound
<1>11. OneInForce(decisions', restored)
  BY <1>3, <1>5, <1>7 DEF OneInForce
<1>12. ~ wasReset => IdsGoUp(decisions', total)
  <2> SUFFICES ASSUME ~ wasReset
               PROVE  IdsGoUp(decisions', total)
    OBVIOUS
  <2>1. IdsGoUp(decisions, total)
    BY <1>3
  <2>2. \A k \in 1..Len(decisions) :
          decisions'[k].id = decisions[k].id /\ decisions'[k].verdict = decisions[k].verdict
    BY <1>5, <1>7
  <2> QED BY <1>7, <2>1, <2>2 DEF IdsGoUp
<1>13. /\ layer \in Layers /\ judged \in 0..MaxJudged /\ total \in 0..judged
       /\ ~ wasReset => total = judged
  BY DEF DispatchInv
<1> QED BY <1>1, <1>2, <1>8, <1>10, <1>11, <1>12, <1>13 DEF DispatchInv

LEMMA DispatchStays ==
  ASSUME DispatchInv, DispatchNext \/ UNCHANGED dispatchVars
  PROVE  DispatchInv'
<1>1. CASE UNCHANGED dispatchVars
  BY <1>1 DEF dispatchVars, DispatchInv
<1>2. CASE ResetStats
  <2>1. 0 \in 0..judged
    BY DispatchBounds DEF DispatchInv
  <2> QED BY <1>2, <2>1 DEF ResetStats, DispatchInv
<1> QED BY <1>1, <1>2, SubmitHolds, ReassessHolds, RefuseHolds, InvalidateHolds, ElapseHolds
        DEF DispatchNext

(* The boundaries are safe, whatever the callers ask, in whatever contexts *)
(* and however many requests there are (runtime_enforcement.c:616,         *)
(* runtime_admission_gate.c:541): a grant was warranted for what was asked *)
(* first, or the boundary could not know; of the grants of one request one *)
(* is in force; an identifier leads to its grant.                          *)
THEOREM DispatchHolds == SecuritySpec => []DispatchSafe
<1>1. SecurityInit => DispatchInv
  BY DispatchStarts DEF SecurityInit
<1>2. DispatchInv /\ [SecurityNext]_<<beforeVars, keyVaultVars, incidentVars, dispatchVars,
                                      afterVars, service>> => DispatchInv'
  BY DispatchSteps, DispatchStays
<1>3. DispatchInv => DispatchSafe
  BY DispatchImplied
<1> QED BY <1>1, <1>2, <1>3, PTL DEF SecuritySpec

-----------------------------------------------------------------------------
(* The identities, which the services around them change as their own      *)
(* service does.                                                           *)
IdentityInv == IdentityTypeOK /\ VaultFollows

LEMMA IdentityStarts == IdentityInit => IdentityInv
<1> SUFFICES ASSUME IdentityInit PROVE IdentityInv OBVIOUS
<1>1. \A i \in Ids : identity[i] = "UNUSED" /\ vault[i] = "NONE"
  BY DEF IdentityInit
<1>2. Known = {}
  BY <1>1 DEF Known, IdentityStates
<1>3. IdentityTypeOK
  BY <1>2, FS_EmptySet, IdentityAssumption DEF IdentityInit, IdentityTypeOK
<1>4. VaultFollows
  BY <1>1, <1>2 DEF VaultFollows
<1> QED BY <1>3, <1>4 DEF IdentityInv

(* A step of one identity, which was known or is new.                      *)
LEMMA OneIdentityChanges ==
  ASSUME IdentityInv, NEW i \in Ids,
         NEW new \in IdentityStates \cup {"UNUSED", "REMOVED"},
         NEW copy \in IdentityStates \cup {"NONE"},
         identity' = [identity EXCEPT ![i] = new], vault' = [vault EXCEPT ![i] = copy],
         new \in IdentityStates => i \in Known \/ Cardinality(Known) < MaxIdentities,
         IF new \in IdentityStates THEN copy \in MayHaveBeen(new) ELSE copy = "NONE"
  PROVE  IdentityInv'
<1>1. /\ identity' \in [Ids -> IdentityStates \cup {"UNUSED", "REMOVED"}]
      /\ vault' \in [Ids -> IdentityStates \cup {"NONE"}]
  BY DEF IdentityInv, IdentityTypeOK
<1>2. \A j \in Ids : identity'[j] = (IF j = i THEN new ELSE identity[j])
                     /\ vault'[j] = (IF j = i THEN copy ELSE vault[j])
  BY DEF IdentityInv, IdentityTypeOK
<1>3. \A j \in Ids : j \in Known' <=> IF j = i THEN new \in IdentityStates ELSE j \in Known
  BY <1>2 DEF Known
<1>4. IsFiniteSet(Known) /\ Known \subseteq Ids /\ Known' \subseteq Ids
  BY IdentityAssumption, FS_Subset DEF Known
<1>5. Cardinality(Known') <= MaxIdentities
  <2>1. Cardinality(Known) \in Nat /\ MaxIdentities \in Nat /\ Cardinality(Known) <= MaxIdentities
    BY <1>4, FS_CardinalityType, IdentityAssumption DEF IdentityInv, IdentityTypeOK
  <2>2. CASE Known' \subseteq Known
    <3>1. Cardinality(Known') <= Cardinality(Known) /\ Cardinality(Known') \in Nat
      BY <1>4, <2>2, FS_Subset, FS_CardinalityType
    <3> QED BY <2>1, <3>1
  <2>3. CASE ~(Known' \subseteq Known)
    <3>1. i \notin Known /\ new \in IdentityStates
      BY <1>3, <1>4, <2>3
    <3>2. Known' = Known \cup {i}
      BY <1>3, <1>4, <3>1
    <3>3. Cardinality(Known') = Cardinality(Known) + 1
      BY <1>4, <3>1, <3>2, FS_AddElement
    <3> QED BY <2>1, <3>1, <3>3
  <2> QED BY <2>2, <2>3
<1>6. \A j \in Ids : IF j \in Known' THEN vault'[j] \in MayHaveBeen(identity'[j])
                                     ELSE vault'[j] = "NONE"
  BY <1>2, <1>3 DEF IdentityInv, VaultFollows
<1> QED BY <1>1, <1>5, <1>6 DEF IdentityInv, IdentityTypeOK, VaultFollows

(* What identities become: whoever is gone stays so.                       *)
Gone(i) == {identity[i], vault[i]} \cap {"ACTIVE", "SUSPENDED"} = {}

LEMMA IdentityMoved ==
  ASSUME IdentityInv, NEW i \in Ids, NEW to \in IdentityStates, MoveIdentity(i, to)
  PROVE  IdentityInv'
<1>1. vault[i] \in MayHaveBeen(identity[i]) /\ identity[i] \in IdentityStates
  BY DEF MoveIdentity, IdentityInv, VaultFollows, Known
<1>2. to \in MayHaveBeen(to) /\ vault[i] \in MayHaveBeen(to)
  BY <1>1 DEF MoveIdentity, MayHaveBeen, IdentityMoves, IdentityStates
<1>3. vault[i] \in IdentityStates \cup {"NONE"} /\ vault = [vault EXCEPT ![i] = vault[i]]
  BY DEF IdentityInv, IdentityTypeOK
<1>4. \E copy \in {to, vault[i]} : vault' = [vault EXCEPT ![i] = copy]
  BY <1>3 DEF MoveIdentity
<1>5. identity' = [identity EXCEPT ![i] = to] /\ i \in Known
  BY DEF MoveIdentity
<1> QED BY <1>2, <1>3, <1>4, <1>5, OneIdentityChanges

LEMMA IdentityStep == IdentityInv /\ [IdentityNext]_identityVars => IdentityInv'
<1> SUFFICES ASSUME IdentityInv, [IdentityNext]_identityVars PROVE IdentityInv' OBVIOUS
<1>1. CASE UNCHANGED identityVars
  BY <1>1 DEF identityVars, IdentityInv, IdentityTypeOK, VaultFollows, Known
<1>2. ASSUME NEW i \in Ids, CreateIdentity(i) PROVE IdentityInv'
  <2>1. vault[i] = "NONE" /\ vault = [vault EXCEPT ![i] = vault[i]]
    BY <1>2 DEF CreateIdentity, IdentityInv, IdentityTypeOK, VaultFollows, Known, IdentityStates
  <2>2. CASE identity' = [identity EXCEPT ![i] = "ACTIVE"] /\ vault' = [vault EXCEPT ![i] = "ACTIVE"]
    BY <1>2, <2>2, OneIdentityChanges DEF CreateIdentity, MayHaveBeen, IdentityStates
  <2>3. CASE identity' = [identity EXCEPT ![i] = "REMOVED"] /\ UNCHANGED vault
    BY <2>1, <2>3, OneIdentityChanges DEF IdentityStates
  <2> QED BY <1>2, <2>2, <2>3 DEF CreateIdentity
<1>3. ASSUME NEW i \in Ids, UpdateIdentity(i) PROVE IdentityInv'
  <2>1. identity[i] \in MayHaveBeen(identity[i]) /\ identity[i] \in IdentityStates
    BY <1>3 DEF UpdateIdentity, MayHaveBeen, IdentityStates
  <2>2. identity' = [identity EXCEPT ![i] = identity[i]] /\ vault' = [vault EXCEPT ![i] = identity[i]]
        /\ i \in Known
    BY <1>3 DEF UpdateIdentity, IdentityInv, IdentityTypeOK
  <2> QED BY <2>1, <2>2, OneIdentityChanges
<1>4. ASSUME NEW i \in Ids, RemoveIdentity(i) PROVE IdentityInv'
  BY <1>4, OneIdentityChanges DEF RemoveIdentity, IdentityStates
<1> QED BY <1>1, <1>2, <1>3, <1>4, IdentityMoved DEF IdentityNext

LEMMA GoneStays ==
  ASSUME IdentityInv, [IdentityNext]_identityVars, NEW i \in Ids, identity[i] # "UNUSED"
  PROVE  identity'[i] # "UNUSED" /\ (Gone(i) => Gone(i)')
<1>1. CASE UNCHANGED identityVars
  BY <1>1 DEF identityVars, Gone
<1>2. CASE IdentityNext
  <2>1. PICK j \in Ids : \/ CreateIdentity(j) \/ UpdateIdentity(j) \/ RemoveIdentity(j)
                         \/ \E to \in IdentityStates : MoveIdentity(j, to)
    BY <1>2 DEF IdentityNext
  <2>2. CASE j # i
    BY <2>1, <2>2 DEF CreateIdentity, UpdateIdentity, RemoveIdentity, MoveIdentity, Gone, IdentityInv,
                      IdentityTypeOK
  <2>3. CASE j = i
    BY <2>1, <2>3 DEF CreateIdentity, UpdateIdentity, RemoveIdentity, MoveIdentity, Gone, IdentityInv,
                      IdentityTypeOK, IdentityMoves
  <2> QED BY <2>2, <2>3
<1> QED BY <1>1, <1>2

(* Whatever service moves, it changes identities as their service does.    *)
LEMMA ClaimantsChange ==
  ASSUME NEW i \in Claimants, Changes(i) \/ RemoveIdentity(i)
  PROVE  IdentityNext
<1>1. i \in Ids
  BY MfaAssumption
<1> QED BY <1>1 DEF Changes, IdentityNext

LEMMA IdentitySteps ==
  ASSUME SecurityNext \/ UNCHANGED <<beforeVars, keyVaultVars, incidentVars, dispatchVars, afterVars, service>>
  PROVE  /\ [IdentityNext]_identityVars
         /\ UNCHANGED incidentVars \/ IncidentNext
<1>1. CASE UNCHANGED identityVars /\ UNCHANGED incidentVars
  BY <1>1
<1>2. CASE SessionNext /\ UNCHANGED incidentVars
  BY <1>2 DEF SessionNext, Authenticate, OpenSession, ValidateSession, TouchSession, EndSession,
             ExpireSessions, SessionElapse
<1>3. CASE (MfaStep \/ MfaElapse \/ AroundMfa) /\ UNCHANGED incidentVars
  <2>1. CASE MfaStep
    BY <1>3, <2>1 DEF MfaStep, CreateTx, CompleteTx, VerifyFactor
  <2>2. CASE MfaElapse
    BY <1>3, <2>2 DEF MfaElapse
  <2>3. CASE AroundMfa
    BY <1>3, <2>3, ClaimantsChange DEF AroundMfa
  <2> QED BY <1>3, <2>1, <2>2, <2>3
<1>4. CASE RightsPart /\ UNCHANGED incidentVars
  BY <1>4, ClaimantsChange DEF RightsPart
<1>5. CASE IncidentNext
  <2>1. CASE IdentityNext
    BY <1>5, <2>1
  <2>2. ASSUME NEW n \in DOMAIN incidents, Contain(n) PROVE [IdentityNext]_identityVars
    <3>1. ASSUME NEW i, NEW to \in IdentityStates, MoveIdentity(i, to) PROVE IdentityNext
      BY <3>1 DEF MoveIdentity, Known, IdentityNext
    <3> QED BY <2>2, <3>1 DEF Contain, ContainIdentity, IdentityStates
  <2> QED BY <1>5, <2>1, <2>2 DEF IncidentNext, Report, Classify, UpdateState, Recover, EnterLockdown,
             ExitLockdown
<1>6. CASE UNCHANGED beforeVars /\ UNCHANGED incidentVars
  BY <1>1, <1>6 DEF beforeVars, sessionVars
<1>7. CASE UNCHANGED sessionVars /\ UNCHANGED incidentVars
  BY <1>1, <1>7 DEF sessionVars
<1> QED BY <1>2, <1>3, <1>4, <1>5, <1>6, <1>7 DEF SecurityNext

-----------------------------------------------------------------------------
(* Whether something is the case is TRUE or FALSE.                         *)
LEMMA Membership ==
  ASSUME NEW x, NEW S
  PROVE  \E b \in BOOLEAN : b = (x \in S)
<1>1. CASE x \in S
  <2>1. TRUE = (x \in S)
    BY <1>1
  <2> QED BY <2>1
<1>2. CASE x \notin S
  <2>1. FALSE = (x \in S)
    BY <1>2
  <2> QED BY <2>1
<1> QED BY <1>1, <1>2

LEMMA Equality ==
  ASSUME NEW x, NEW y
  PROVE  \E b \in BOOLEAN : b = (x = y)
<1>1. CASE x = y
  <2>1. TRUE = (x = y)
    BY <1>1
  <2> QED BY <2>1
<1>2. CASE x # y
  <2>1. FALSE = (x = y)
    BY <1>2
  <2> QED BY <2>1
<1> QED BY <1>1, <1>2

-----------------------------------------------------------------------------
(* Incidents, and the level they make.                                     *)
Incident == [state : IncidentStates, severity : Severities, of : Suspects, action : Containments]
Uncontained == {"DETECTED", "CLASSIFIED", "CONTAINMENT_REQUIRED", "CONTAINING"}

(* Nothing that is on its way to a containment carries one already, and    *)
(* where an identity was revoked for an incident it is gone, unless that   *)
(* failed.                                                                 *)
Fair(inc) ==
  /\ inc \in Incident /\ identity[inc.of] # "UNUSED"
  /\ inc.state \in Uncontained => inc.action = "NONE"
  /\ inc.action = "REVOKE_IDENTITY" /\ inc.state # "RECOVERY_FAILED" => Gone(inc.of)

IncidentInv ==
  /\ IdentityInv /\ IncidentsSafe
  /\ \A n \in DOMAIN incidents : Fair(incidents[n])

LEMMA OpenIsFinite ==
  ASSUME NEW table \in Seq(Incident), NEW s
  PROVE  /\ IsFiniteSet(OfSeverity(table, s)) /\ Cardinality(OfSeverity(table, s)) \in Nat
         /\ OfSeverity(table, s) = {} => Cardinality(OfSeverity(table, s)) = 0
<1>1. DOMAIN table = 1..Len(table) /\ Len(table) \in Nat
  OBVIOUS
<1>2. IsFiniteSet(1..Len(table))
  BY <1>1, FS_Interval
<1>3. OfSeverity(table, s) \subseteq 1..Len(table)
  BY <1>1 DEF OfSeverity, Open
<1> QED BY <1>2, <1>3, FS_Subset, FS_CardinalityType, FS_EmptySet

LEMMA LevelMade ==
  ASSUME NEW table \in Seq(Incident), Len(table) <= MaxIncidents, NEW held \in BOOLEAN,
         UpdateLevel(table, held)
  PROVE  IncidentsSafe' <=> ContainedIsRevoked'
<1>1. incidents' = table /\ lockdown' = Locked(table, held) /\ level' = LevelOf(table, lockdown')
  BY DEF UpdateLevel
<1>2. lockdown' \in BOOLEAN
  BY <1>1 DEF Locked
<1>3. \A h \in BOOLEAN : LevelOf(table, h) \in {"NORMAL", "DEGRADED", "SUSPICIOUS",
                                                "CONTAINMENT_REQUIRED", "LOCKDOWN"}
  BY DEF LevelOf
<1>4. IncidentTypeOK'
  BY <1>1, <1>2, <1>3 DEF IncidentTypeOK, Incident
<1>5. LevelExact'
  BY <1>1 DEF LevelExact
<1>6. CriticalsLock'
  BY <1>1 DEF CriticalsLock, Locked
<1> QED BY <1>4, <1>5, <1>6 DEF IncidentsSafe

(* A step that updates the level of a table of fair incidents.             *)
LEMMA TableHolds ==
  ASSUME IncidentInv, [IdentityNext]_identityVars, NEW table \in Seq(Incident),
         Len(table) <= MaxIncidents, NEW held \in BOOLEAN, UpdateLevel(table, held),
         \A n \in DOMAIN table : Fair(table[n])'
  PROVE  IncidentInv'
<1>1. incidents' = table
  BY DEF UpdateLevel
<1>2. \A n \in DOMAIN incidents' : Fair(incidents[n])'
  BY <1>1
<1>3. ContainedIsRevoked'
  BY <1>2 DEF ContainedIsRevoked, Fair, Gone
<1> QED BY <1>2, <1>3, LevelMade, IdentityStep DEF IncidentInv

(* The incidents that are left alone stay fair, whatever identities become.*)
LEMMA FairStays ==
  ASSUME IncidentInv, [IdentityNext]_identityVars, NEW n \in DOMAIN incidents, NEW inc, inc = incidents[n]
  PROVE  Fair(inc)'
<1>1. Fair(inc) /\ inc.of \in Ids
  BY IncidentAssumption DEF IncidentInv, Fair, Incident
<1> QED BY <1>1, GoneStays DEF IncidentInv, Fair

LEMMA IncidentsAre ==
  ASSUME IncidentInv
  PROVE  /\ incidents \in Seq(Incident) /\ Len(incidents) \in Nat /\ Len(incidents) <= MaxIncidents
         /\ DOMAIN incidents = 1..Len(incidents) /\ lockdown \in BOOLEAN /\ MaxIncidents \in Nat
BY IncidentAssumption DEF IncidentInv, IncidentsSafe, IncidentTypeOK, Incident

(* One of them changes.                                                    *)
LEMMA OneIncidentChanges ==
  ASSUME IncidentInv, [IdentityNext]_identityVars, NEW n \in DOMAIN incidents, NEW inc, Fair(inc)',
         NEW held \in BOOLEAN, UpdateLevel([incidents EXCEPT ![n] = inc], held)
  PROVE  IncidentInv'
<1>0. PICK table : table = [incidents EXCEPT ![n] = inc]
  OBVIOUS
<1>1. inc \in Incident
  BY DEF Fair
<1>2. table \in Seq(Incident) /\ Len(table) = Len(incidents) /\ DOMAIN table = DOMAIN incidents
      /\ \A m \in DOMAIN incidents : table[m] = IF m = n THEN inc ELSE incidents[m]
  BY <1>0, <1>1, IncidentsAre
<1>3. UpdateLevel(table, held)
  BY <1>0
<1>4. ASSUME NEW m \in DOMAIN table PROVE Fair(table[m])'
  <2>1. PICK it : it = table[m]
    OBVIOUS
  <2>2. Fair(it)'
    BY <1>2, <2>1, FairStays
  <2> QED BY <2>1, <2>2
<1> QED BY <1>2, <1>3, <1>4, TableHolds, IncidentsAre

LEMMA IncidentsStart ==
  ASSUME IdentityInit, IncidentInit
  PROVE  IncidentInv
<1>1. incidents = <<>> /\ incidents \in Seq(Incident) /\ Len(incidents) = 0 /\ DOMAIN incidents = {}
  BY DEF IncidentInit
<1>2. \A s : OfSeverity(incidents, s) = {} /\ Open(incidents) = {}
  BY <1>1 DEF OfSeverity, Open
<1>3. Cardinality(OfSeverity(incidents, "CRITICAL")) = 0
  BY <1>2, FS_EmptySet
<1>4. IncidentTypeOK
  <2>1. lockdown \in BOOLEAN /\ level = "NORMAL"
    BY Zenon DEF IncidentInit
  <2>2. 0 <= MaxIncidents
    BY IncidentAssumption
  <2> QED BY <1>1, <2>1, <2>2 DEF IncidentTypeOK, Incident
<1>5. LevelExact
  BY <1>2 DEF LevelExact, LevelOf, IncidentInit
<1>6. CriticalsLock
  BY <1>3, IncidentAssumption DEF CriticalsLock
<1> QED BY <1>1, <1>4, <1>5, <1>6, IdentityStarts DEF IncidentInv, IncidentsSafe, ContainedIsRevoked

(* What a containment makes of an incident, once the identity has become   *)
(* what it asks for.                                                       *)
LEMMA ContainmentHolds ==
  ASSUME IncidentInv, [IdentityNext]_identityVars, NEW n \in Open(incidents), NEW a \in Containments,
         NEW ok \in BOOLEAN, ContainAs(n, a, ok), NEW i, i = incidents[n].of,
         a = "REVOKE_IDENTITY" /\ ok => Gone(i)'
  PROVE  IncidentInv'
<1>1. n \in DOMAIN incidents
  BY DEF Open
<1>2. PICK old \in Incident : old = incidents[n] /\ Fair(old) /\ old.state # "RESOLVED"
  BY <1>1 DEF IncidentInv, Fair, Open
<1>3. Fair(old)'
  BY <1>1, <1>2, FairStays
<1>4. a = "REVOKE_IDENTITY" /\ ok => {identity'[old.of], vault'[old.of]} \cap {"ACTIVE", "SUSPENDED"} = {}
  BY <1>2 DEF Gone
<1>5. CASE ok
  <2>1. PICK inc : inc = [[old EXCEPT !.action = a] EXCEPT !.state = "CONTAINED"]
    OBVIOUS
  <2>2. /\ inc \in Incident /\ inc.of = old.of /\ inc.state = "CONTAINED" /\ inc.action = a
    BY <1>2, <2>1 DEF Incident, IncidentStates
  <2>3. Fair(inc)'
    BY <1>3, <1>4, <1>5, <2>2 DEF Fair, Gone, Uncontained
  <2>4. PICK held \in BOOLEAN : UpdateLevel([incidents EXCEPT ![n] = inc], held)
    BY <1>2, <1>5, <2>1, IncidentsAre DEF ContainAs
  <2> QED BY <1>1, <2>3, <2>4, OneIncidentChanges
<1>6. CASE ~ok
  <2>1. PICK inc : inc = [[old EXCEPT !.action = a] EXCEPT !.state = "RECOVERY_FAILED"]
    OBVIOUS
  <2>2. /\ inc \in Incident /\ inc.of = old.of /\ inc.state = "RECOVERY_FAILED" /\ inc.action = a
        /\ inc.severity = old.severity
    BY <1>2, <2>1 DEF Incident, IncidentStates
  <2>3. Fair(inc)'
    BY <1>3, <2>2 DEF Fair, Uncontained
  <2>4. incidents' = [incidents EXCEPT ![n] = inc] /\ UNCHANGED <<lockdown, level>>
    BY <1>2, <1>6, <2>1 DEF ContainAs
  <2>5. /\ incidents' \in Seq(Incident) /\ Len(incidents') = Len(incidents)
        /\ DOMAIN incidents' = DOMAIN incidents
        /\ \A m \in DOMAIN incidents : incidents'[m] = IF m = n THEN inc ELSE incidents[m]
    BY <1>1, <2>2, <2>4, IncidentsAre
  <2>6. Open(incidents') = Open(incidents)
    BY <1>1, <1>2, <2>2, <2>5 DEF Open
  <2>7. \A s : OfSeverity(incidents', s) = OfSeverity(incidents, s)
    BY <1>2, <2>2, <2>5, <2>6 DEF OfSeverity, Open
  <2>8. IncidentTypeOK' /\ LevelExact' /\ CriticalsLock'
    <3>1. LevelOf(incidents', lockdown) = LevelOf(incidents, lockdown)
      BY <2>6, <2>7 DEF LevelOf
    <3> QED BY <2>4, <2>5, <2>7, <3>1 DEF IncidentInv, IncidentsSafe, IncidentTypeOK, LevelExact,
               CriticalsLock, Incident
  <2>9. ASSUME NEW m \in DOMAIN incidents' PROVE Fair(incidents[m])'
    <3>1. PICK it : it = incidents'[m]
      OBVIOUS
    <3>2. Fair(it)'
      BY <2>3, <2>5, <2>9, <3>1, FairStays
    <3> QED BY <3>1, <3>2
  <2>10. ContainedIsRevoked'
    BY <2>9 DEF ContainedIsRevoked, Fair, Gone
  <2> QED BY <2>8, <2>9, <2>10, IdentityStep DEF IncidentInv, IncidentsSafe
<1> QED BY <1>5, <1>6

LEMMA ContainHolds ==
  ASSUME IncidentInv, NEW n \in DOMAIN incidents, Contain(n)
  PROVE  IncidentInv'
<1>1. n \in Open(incidents)
  BY DEF Contain
<1>2. PICK i \in Ids : i = incidents[n].of /\ identity[i] # "UNUSED"
  BY IncidentAssumption DEF IncidentInv, Fair, Incident
<1>3. IdentityInv /\ identity \in [Ids -> IdentityStates \cup {"UNUSED", "REMOVED"}]
      /\ vault \in [Ids -> IdentityStates \cup {"NONE"}]
  BY DEF IncidentInv, IdentityInv, IdentityTypeOK
<1>4. ASSUME NEW a \in Containments, NEW to \in IdentityStates, ContainIdentity(n, a, to),
             a = "REVOKE_IDENTITY" <=> to = "REVOKED"
      PROVE  IncidentInv'
  <2>1. CASE MoveIdentity(i, to) /\ ContainAs(n, a, vault'[i] = to)
    <3>1. IdentityNext
      BY <1>2, <2>1 DEF IdentityNext
    <3>2. identity'[i] = to
      BY <1>3, <2>1 DEF MoveIdentity
    <3>3. a = "REVOKE_IDENTITY" /\ vault'[i] = to => Gone(i)'
      BY <1>4, <3>2 DEF Gone
    <3>4. PICK ok \in BOOLEAN : ok = (vault'[i] = to)
      BY Equality
    <3>5. ContainAs(n, a, ok)
      BY <2>1, <3>4
    <3>6. a = "REVOKE_IDENTITY" /\ ok => Gone(i)'
      BY <3>3, <3>4
    <3> QED BY <1>1, <1>2, <3>1, <3>5, <3>6, ContainmentHolds
  <2>2. CASE i \notin Known /\ ContainAs(n, a, TRUE) /\ UNCHANGED identityVars
    <3>1. Gone(i)
      BY <1>2, <1>3, <2>2 DEF Gone, IdentityInv, VaultFollows, Known
    <3>2. Gone(i)'
      BY <2>2, <3>1 DEF Gone, identityVars
    <3> QED BY <1>1, <1>2, <2>2, <3>2, ContainmentHolds
  <2>3. CASE ContainAs(n, a, FALSE) /\ UNCHANGED identityVars
    BY <1>1, <1>2, <2>3, ContainmentHolds
  <2> QED BY <1>2, <1>4, <2>1, <2>2, <2>3 DEF ContainIdentity
<1>5. ASSUME NEW a \in {"NONE", "ENTER_LOCKDOWN"}, ContainAs(n, a, TRUE), UNCHANGED identityVars
      PROVE  IncidentInv'
  BY <1>1, <1>2, <1>5, ContainmentHolds DEF Containments
<1> QED BY <1>4, <1>5 DEF Contain, Containments, IdentityStates

LEMMA IncidentStep == IncidentInv /\ [IncidentNext]_<<identityVars, incidentVars>> => IncidentInv'
<1> SUFFICES ASSUME IncidentInv, [IncidentNext]_<<identityVars, incidentVars>> PROVE IncidentInv'
  OBVIOUS
<1>1. CASE [IdentityNext]_identityVars /\ UNCHANGED incidentVars
  <2>1. IncidentsSafe' <=> ContainedIsRevoked'
    BY <1>1 DEF incidentVars, IncidentInv, IncidentsSafe, IncidentTypeOK, LevelExact, CriticalsLock
  <2>2. ASSUME NEW n \in DOMAIN incidents' PROVE Fair(incidents[n])'
    <3>1. PICK it : it = incidents[n]
      OBVIOUS
    <3>2. Fair(it)'
      BY <1>1, <2>2, <3>1, FairStays DEF incidentVars
    <3> QED BY <1>1, <3>1, <3>2 DEF incidentVars
  <2>3. ContainedIsRevoked'
    BY <2>2 DEF ContainedIsRevoked, Fair, Gone
  <2> QED BY <1>1, <2>1, <2>2, <2>3, IdentityStep DEF IncidentInv
<1>2. ASSUME NEW i \in Suspects, NEW s \in Severities, Report(i, s) PROVE IncidentInv'
  <2>1. PICK inc : inc = [state |-> "DETECTED", severity |-> s, of |-> i, action |-> "NONE"]
    OBVIOUS
  <2>2. inc \in Incident /\ inc.of = i /\ inc.action = "NONE"
    BY <2>1 DEF Incident, IncidentStates, Containments
  <2>3. identity' = identity /\ vault' = vault /\ identity[i] # "UNUSED"
    BY <1>2 DEF Report, identityVars
  <2>4. Fair(inc)'
    BY <2>2, <2>3 DEF Fair
  <2>5. PICK table : table = Append(incidents, inc)
    OBVIOUS
  <2>6. /\ table \in Seq(Incident) /\ Len(table) = Len(incidents) + 1
        /\ DOMAIN table = 1..(Len(incidents) + 1)
        /\ \A n \in DOMAIN table : table[n] = IF n = Len(incidents) + 1 THEN inc ELSE incidents[n]
    BY <2>2, <2>5, IncidentsAre
  <2>7. UpdateLevel(table, lockdown) /\ Len(table) <= MaxIncidents
    BY <1>2, <2>1, <2>5, <2>6, IncidentsAre DEF Report
  <2>8. [IdentityNext]_identityVars
    BY <2>3 DEF identityVars
  <2>9. ASSUME NEW n \in DOMAIN table PROVE Fair(table[n])'
    <3>1. PICK it : it = table[n]
      OBVIOUS
    <3>2. n \in 1..Len(incidents) \/ it = inc
      BY <2>6, <3>1, IncidentsAre
    <3>3. Fair(it)'
      BY <2>4, <2>6, <2>8, <3>1, <3>2, FairStays, IncidentsAre
    <3> QED BY <3>1, <3>3
  <2> QED BY <2>6, <2>7, <2>8, <2>9, TableHolds, IncidentsAre
<1>3. ASSUME NEW n \in DOMAIN incidents, NEW to \in IncidentStates, NEW s \in Severities,
             UNCHANGED identityVars,
             UpdateLevel([incidents EXCEPT ![n] = [@ EXCEPT !.state = to, !.severity = s]], lockdown),
             to \in Uncontained => incidents[n].action = "NONE",
             incidents[n].state # "RECOVERY_FAILED"
      PROVE  IncidentInv'
  <2>1. PICK old : old = incidents[n]
    OBVIOUS
  <2>2. PICK inc : inc = [old EXCEPT !.state = to, !.severity = s]
    OBVIOUS
  <2>3. Fair(old)' /\ Fair(old)
    BY <1>3, <2>1, FairStays DEF IncidentInv
  <2>4. inc \in Incident /\ inc.of = old.of /\ inc.action = old.action /\ inc.state = to
    BY <1>3, <2>2, <2>3 DEF Fair, Incident
  <2>5. Fair(inc)'
    BY <1>3, <2>1, <2>3, <2>4 DEF Fair
  <2>6. UpdateLevel([incidents EXCEPT ![n] = inc], lockdown)
    BY <1>3, <2>1, <2>2
  <2> QED BY <1>3, <2>5, <2>6, OneIncidentChanges, IncidentsAre
<1>4. \A n \in DOMAIN incidents : incidents[n] \in Incident /\ Fair(incidents[n])
  BY DEF IncidentInv, Fair
<1>5. ASSUME NEW n \in DOMAIN incidents, NEW s \in Severities, Classify(n, s) PROVE IncidentInv'
  <2>1. [incidents EXCEPT ![n].state = "CLASSIFIED", ![n].severity = s] =
        [incidents EXCEPT ![n] = [@ EXCEPT !.state = "CLASSIFIED", !.severity = s]]
    BY <1>4, <1>5, IncidentsAre
  <2>2. UpdateLevel([incidents EXCEPT ![n] = [@ EXCEPT !.state = "CLASSIFIED", !.severity = s]], lockdown)
        /\ UNCHANGED identityVars /\ incidents[n].state = "DETECTED"
    BY <1>5, <2>1 DEF Classify
  <2> QED BY <1>3, <1>4, <1>5, <2>2 DEF Fair, Uncontained, IncidentStates
<1>6. ASSUME NEW n \in DOMAIN incidents, NEW to \in IncidentStates, UpdateState(n, to) PROVE IncidentInv'
  <2>1. to \in Uncontained => incidents[n].state \in Uncontained
    BY <1>6 DEF UpdateState, IncidentMoves, Uncontained
  <2>2. incidents[n].state # "RECOVERY_FAILED"
    BY <1>6 DEF UpdateState, IncidentMoves
  <2>3. [incidents[n] EXCEPT !.state = to] =
        [incidents[n] EXCEPT !.state = to, !.severity = incidents[n].severity]
    BY <1>4, <1>6 DEF Incident
  <2>4. UpdateLevel([incidents EXCEPT ![n] = [@ EXCEPT !.state = to, !.severity = incidents[n].severity]],
                    lockdown)
    BY <1>6, <2>3 DEF UpdateState
  <2> QED BY <1>3, <1>4, <1>6, <2>1, <2>2, <2>4 DEF UpdateState, Fair, Incident
<1>7. ASSUME NEW n \in DOMAIN incidents, Recover(n) PROVE IncidentInv'
  <2>1. [incidents[n] EXCEPT !.state = "VERIFIED"] =
        [incidents[n] EXCEPT !.state = "VERIFIED", !.severity = incidents[n].severity]
    BY <1>4, <1>7 DEF Incident
  <2>2. UpdateLevel([incidents EXCEPT ![n] = [@ EXCEPT !.state = "VERIFIED",
                                                       !.severity = incidents[n].severity]], lockdown)
    BY <1>7, <2>1 DEF Recover
  <2> QED BY <1>3, <1>4, <1>7, <2>2 DEF Recover, Uncontained, IncidentStates, Incident
<1>8. ASSUME EnterLockdown PROVE IncidentInv'
  <2>1. IncidentTypeOK' /\ LevelExact' /\ CriticalsLock'
    BY <1>8 DEF EnterLockdown, IncidentInv, IncidentsSafe, IncidentTypeOK, LevelExact, LevelOf, CriticalsLock
  <2>2. ContainedIsRevoked' /\ IdentityInv' /\ \A n \in DOMAIN incidents' : Fair(incidents[n])'
    BY <1>8 DEF EnterLockdown, IncidentInv, IncidentsSafe, ContainedIsRevoked, Fair, Gone, identityVars,
                IdentityInv, IdentityTypeOK, VaultFollows, Known
  <2> QED BY <2>1, <2>2 DEF IncidentInv, IncidentsSafe
<1>9. ASSUME ExitLockdown PROVE IncidentInv'
  <2>1. PICK table : table = incidents
    OBVIOUS
  <2>2. [IdentityNext]_identityVars /\ UpdateLevel(table, FALSE)
    BY <1>9, <2>1 DEF ExitLockdown
  <2>3. ASSUME NEW n \in DOMAIN table PROVE Fair(table[n])'
    <3>1. PICK it : it = table[n]
      OBVIOUS
    <3>2. Fair(it)'
      BY <2>1, <2>2, <3>1, FairStays
    <3> QED BY <3>1, <3>2
  <2> QED BY <2>1, <2>2, <2>3, TableHolds, IncidentsAre
<1>10. ASSUME NEW n \in DOMAIN incidents, Contain(n) PROVE IncidentInv'
  BY <1>10, ContainHolds
<1> QED BY <1>1, <1>2, <1>5, <1>6, <1>7, <1>8, <1>9, <1>10 DEF IncidentNext, incidentVars

-----------------------------------------------------------------------------
(* The plans that respond to incidents, and their actions.                 *)
Act == [kind : Kinds, state : ActionStates, runs : Nat, under : SUBSET PlanStates, needs : BOOLEAN,
        approval : Approvals]
Plan == [state : PlanStates, approval : Approvals, actions : Seq(Act), life : Int, real : BOOLEAN]

(* What an action is, in a plan that is in a state: not done before the    *)
(* plan was approved, done once at most, and ready to be done only while   *)
(* the plan is approved.                                                   *)
SoundAct(a, state) ==
  /\ a \in Act
  /\ \/ a.runs = 0 /\ a.under = {}
     \/ a.runs = 1 /\ a.under = {"APPROVED"}
  /\ a.state = "APPROVED" => /\ a.runs = 0 /\ state = "APPROVED"
                             /\ a.needs => a.approval = "GRANTED"
  /\ a.needs => a.approval # "NOT_REQUIRED"
  /\ a.runs = 1 /\ a.needs => a.approval = "GRANTED" \/ state = "CANCELLED"
  /\ state \in {"CREATED", "VALIDATED"} => a.runs = 0 /\ a.approval \in {"NOT_REQUIRED", "PENDING"}

SoundPlan(p) ==
  /\ p \in Plan
  /\ \A k \in DOMAIN p.actions : SoundAct(p.actions[k], p.state)
  /\ p.state = "COMPLETED" /\ p.real => \A k \in DOMAIN p.actions : p.actions[k].runs = 1

ResponseInv ==
  /\ plans \in Seq(Plan) /\ responsePolicy \in ResponsePolicies
  /\ \A n \in DOMAIN plans : SoundPlan(plans[n])

LEMMA ResponseImplied == ResponseInv => ResponsesSafe
<1> SUFFICES ASSUME ResponseInv PROVE ResponsesSafe OBVIOUS
<1>1. \A n \in DOMAIN plans : /\ plans[n] \in Plan
                              /\ \A k \in DOMAIN plans[n].actions :
                                   SoundAct(plans[n].actions[k], plans[n].state)
  BY DEF ResponseInv, SoundPlan
<1>2. ResponseTypeOK
  BY <1>1 DEF ResponseTypeOK, SoundAct, Plan, Act
<1>3. \A n \in DOMAIN plans : Taken(n) = {k \in DOMAIN plans[n].actions : plans[n].actions[k].runs = 1}
  BY <1>1 DEF Taken, SoundAct
<1>4. DoneOnceUnderApproval
  BY <1>1, <1>3 DEF DoneOnceUnderApproval, SoundAct
<1>5. DoneWithApproval
  BY <1>1, <1>3 DEF DoneWithApproval, SoundAct
<1>6. CompletedIsDone
  BY <1>3 DEF CompletedIsDone, ResponseInv, SoundPlan
<1> QED BY <1>2, <1>4, <1>5, <1>6 DEF ResponsesSafe

LEMMA ActsMade ==
  ASSUME NEW S, NEW old \in Seq(S), NEW new \in [DOMAIN old -> S]
  PROVE  new \in Seq(S) /\ DOMAIN new = DOMAIN old /\ Len(new) = Len(old)
<1>1. DOMAIN old = 1..Len(old) /\ Len(old) \in Nat
  OBVIOUS
<1> QED BY <1>1

LEMMA OnePlanChanges ==
  ASSUME ResponseInv, NEW n \in DOMAIN plans, NEW p, SoundPlan(p), Changed(n, p)
  PROVE  ResponseInv'
<1>1. p \in Plan
  BY DEF SoundPlan
<1>2. plans' \in Seq(Plan) /\ DOMAIN plans' = DOMAIN plans
      /\ \A m \in DOMAIN plans : plans'[m] = IF m = n THEN p ELSE plans[m]
  BY <1>1 DEF Changed, ResponseInv
<1> QED BY <1>2 DEF Changed, ResponseInv

(* All actions of a plan change, and perhaps the state of the plan.        *)
LEMMA PlanMade ==
  ASSUME NEW p \in Plan, NEW q, NEW acts \in [DOMAIN p.actions -> Act], NEW state \in PlanStates,
         NEW approval \in Approvals, NEW real \in BOOLEAN,
         q.state = state, q.actions = acts, q.real = real, q.approval = approval, q.life = p.life,
         q = [state |-> q.state, approval |-> q.approval, actions |-> q.actions, life |-> q.life,
              real |-> q.real],
         \A k \in DOMAIN p.actions : SoundAct(acts[k], state),
         state = "COMPLETED" /\ real => \A k \in DOMAIN p.actions : acts[k].runs = 1
  PROVE  SoundPlan(q)
<1>1. p.actions \in Seq(Act) /\ p.life \in Int
  BY DEF Plan
<1>2. acts \in Seq(Act) /\ DOMAIN acts = DOMAIN p.actions
  BY <1>1, ActsMade
<1>3. q \in Plan
  BY <1>1, <1>2 DEF Plan
<1> QED BY <1>2, <1>3 DEF SoundPlan

(* One action of a plan changes, and is not undone.                        *)
LEMMA OneActChanges ==
  ASSUME NEW p, SoundPlan(p), NEW k \in DOMAIN p.actions, NEW a, SoundAct(a, p.state),
         a.runs >= p.actions[k].runs
  PROVE  SoundPlan([p EXCEPT !.actions = [@ EXCEPT ![k] = a]])
<1>1. p \in Plan /\ p.actions \in Seq(Act) /\ a \in Act
  BY DEF SoundPlan, SoundAct, Plan
<1>2. PICK acts : acts = [p.actions EXCEPT ![k] = a]
  OBVIOUS
<1>3. acts \in [DOMAIN p.actions -> Act]
      /\ \A j \in DOMAIN p.actions : acts[j] = IF j = k THEN a ELSE p.actions[j]
  BY <1>1, <1>2
<1>4. PICK q : q = [p EXCEPT !.actions = acts]
  OBVIOUS
<1>5. /\ q.state = p.state /\ q.actions = acts /\ q.real = p.real /\ q.approval = p.approval
      /\ q.life = p.life
      /\ q = [state |-> q.state, approval |-> q.approval, actions |-> q.actions, life |-> q.life,
              real |-> q.real]
  BY <1>1, <1>4 DEF Plan
<1>6. \A j \in DOMAIN p.actions : SoundAct(acts[j], p.state)
  BY <1>3 DEF SoundPlan
<1>7. p.state = "COMPLETED" /\ p.real => \A j \in DOMAIN p.actions : acts[j].runs = 1
  BY <1>1, <1>3 DEF SoundPlan, SoundAct
<1>8. p.state \in PlanStates /\ p.approval \in Approvals /\ p.real \in BOOLEAN
  BY <1>1 DEF Plan
<1>9. SoundPlan(q)
  BY <1>1, <1>3, <1>5, <1>6, <1>7, <1>8, PlanMade
<1> QED BY <1>2, <1>4, <1>9

LEMMA ExecutedIs ==
  ASSUME NEW a, SoundAct(a, "APPROVED"), NEW real \in BOOLEAN, NEW ok \in BOOLEAN,
         NEW state \in PlanStates \ {"CREATED", "VALIDATED"}
  PROVE  /\ SoundAct(Executed(a, "APPROVED", real, ok), state)
         /\ Executed(a, "APPROVED", real, ok).runs >= a.runs
         /\ a.state = "APPROVED" /\ real => Executed(a, "APPROVED", real, ok).runs = 1
<1>1. a \in Act
  BY DEF SoundAct
<1>2. CASE a.state # "APPROVED"
  BY <1>1, <1>2 DEF Executed, Executable, SoundAct, Act
<1>3. CASE a.state = "APPROVED"
  <2>1. PICK b : b = Executed(a, "APPROVED", real, ok)
    OBVIOUS
  <2>2. /\ b.kind = a.kind /\ b.needs = a.needs /\ b.approval = a.approval
        /\ b.state \in {"SUCCEEDED", "FAILED"}
        /\ b.runs = (IF real THEN a.runs + 1 ELSE a.runs)
        /\ b.under = (IF real THEN a.under \cup {"APPROVED"} ELSE a.under)
        /\ b = [kind |-> b.kind, state |-> b.state, runs |-> b.runs, under |-> b.under,
                needs |-> b.needs, approval |-> b.approval]
    BY <1>1, <1>3, <2>1 DEF Executed, Executable, Act
  <2>3. a.runs = 0 /\ a.under = {} /\ (a.needs => a.approval = "GRANTED")
    BY <1>3 DEF SoundAct
  <2>4. "APPROVED" \in PlanStates /\ {"SUCCEEDED", "FAILED"} \subseteq ActionStates
    BY DEF PlanStates, ActionStates
  <2>5. b \in Act
    BY <1>1, <2>2, <2>3, <2>4 DEF Act
  <2>6. SoundAct(b, state)
    BY <2>2, <2>3, <2>5 DEF SoundAct
  <2> QED BY <1>3, <2>1, <2>2, <2>3, <2>6
<1> QED BY <1>2, <1>3

(* The steps that touch one action.                                        *)
LEMMA ActStepHolds ==
  ASSUME ResponseInv, NEW n \in DOMAIN plans, NEW k \in DOMAIN plans[n].actions,
         \/ ValidateAction(n, k) \/ Unauthorized(n, k)
         \/ \E real, ok \in BOOLEAN : ExecuteAction(n, k, real, ok)
  PROVE  ResponseInv'
<1>1. PICK p : p = plans[n]
  OBVIOUS
<1>2. SoundPlan(p) /\ p \in Plan /\ k \in DOMAIN p.actions
  BY <1>1 DEF ResponseInv, SoundPlan
<1>3. PICK a : a = p.actions[k]
  OBVIOUS
<1>4. SoundAct(a, p.state) /\ a \in Act /\ p.actions \in Seq(Act)
  BY <1>2, <1>3 DEF SoundPlan, SoundAct, Plan
<1>5. ASSUME NEW b, SoundAct(b, p.state), b.runs >= a.runs,
             Changed(n, [p EXCEPT !.actions = [@ EXCEPT ![k] = b]])
      PROVE  ResponseInv'
  BY <1>2, <1>3, <1>5, OneActChanges, OnePlanChanges
<1>6. \A b : [p EXCEPT !.actions[k] = b] = [p EXCEPT !.actions = [@ EXCEPT ![k] = b]]
  OBVIOUS
<1>7. CASE ValidateAction(n, k)
  <2>1. SoundAct(Validated(a), p.state) /\ Validated(a).runs >= a.runs
    BY <1>4 DEF Validated, SoundAct, Act, ActionStates
  <2>2. Changed(n, [p EXCEPT !.actions = [@ EXCEPT ![k] = Validated(a)]])
    BY <1>1, <1>2, <1>3, <1>7 DEF ValidateAction
  <2> QED BY <1>5, <2>1, <2>2
<1>8. CASE Unauthorized(n, k)
  <2>1. PICK b : b = [a EXCEPT !.state = "VALIDATION_FAILED"]
    OBVIOUS
  <2>2. SoundAct(b, p.state) /\ b.runs >= a.runs
    BY <1>4, <2>1 DEF SoundAct, Act, ActionStates
  <2>3. Changed(n, [p EXCEPT !.actions = [@ EXCEPT ![k] = b]])
    BY <1>1, <1>2, <1>3, <1>8, <2>1 DEF Unauthorized
  <2> QED BY <1>5, <2>2, <2>3
<1>9. ASSUME NEW real \in BOOLEAN, NEW ok \in BOOLEAN, ExecuteAction(n, k, real, ok)
      PROVE  ResponseInv'
  <2>1. a.state = "APPROVED"
    BY <1>1, <1>3, <1>9 DEF ExecuteAction, Executable
  <2>2. p.state = "APPROVED" /\ "APPROVED" \in PlanStates \ {"CREATED", "VALIDATED"}
    BY <1>4, <2>1 DEF SoundAct, PlanStates
  <2>3. SoundAct(Executed(a, "APPROVED", real, ok), p.state)
        /\ Executed(a, "APPROVED", real, ok).runs >= a.runs
    BY <1>4, <2>2, ExecutedIs
  <2>4. Changed(n, [p EXCEPT !.actions = [@ EXCEPT ![k] = Executed(a, "APPROVED", real, ok)]])
    BY <1>1, <1>2, <1>3, <1>9, <2>2 DEF ExecuteAction
  <2> QED BY <1>5, <2>3, <2>4
<1> QED BY <1>7, <1>8, <1>9

(* The steps that touch a plan with all its actions.                       *)
LEMMA PlanStepHolds ==
  ASSUME ResponseInv, NEW n \in DOMAIN plans, NEW p, p = plans[n],
         NEW acts \in [DOMAIN p.actions -> Act], NEW state \in PlanStates, NEW approval \in Approvals,
         NEW real \in BOOLEAN,
         Changed(n, [p EXCEPT !.state = state, !.approval = approval, !.real = real, !.actions = acts]),
         \A k \in DOMAIN p.actions : SoundAct(acts[k], state),
         state = "COMPLETED" /\ real => \A k \in DOMAIN p.actions : acts[k].runs = 1
  PROVE  ResponseInv'
<1>1. p \in Plan
  BY DEF ResponseInv, SoundPlan
<1>2. PICK q : q = [p EXCEPT !.state = state, !.approval = approval, !.real = real, !.actions = acts]
  OBVIOUS
<1>3. /\ q.state = state /\ q.actions = acts /\ q.real = real /\ q.approval = approval /\ q.life = p.life
      /\ q = [state |-> q.state, approval |-> q.approval, actions |-> q.actions, life |-> q.life,
              real |-> q.real]
  BY <1>1, <1>2 DEF Plan
<1>4. SoundPlan(q)
  BY <1>1, <1>3, PlanMade
<1> QED BY <1>2, <1>4, OnePlanChanges

LEMMA AddActionHolds ==
  ASSUME ResponseInv, NEW n \in DOMAIN plans, NEW kind \in Kinds, AddAction(n, kind)
  PROVE  ResponseInv'
<1>1. PICK p \in Plan : p = plans[n] /\ SoundPlan(p)
  BY DEF ResponseInv, SoundPlan
<1>2. PICK pending \in BOOLEAN : pending = (kind \in responsePolicy.approval)
  BY Membership
<1>3. PICK a : a = [kind |-> kind, state |-> "CREATED", runs |-> 0, under |-> {}, needs |-> pending,
                    approval |-> IF pending THEN "PENDING" ELSE "NOT_REQUIRED"]
  OBVIOUS
<1>4. p.state = "CREATED" /\ SoundAct(a, "CREATED") /\ a \in Act
  <2>1. p.state = "CREATED"
    BY <1>1 DEF AddAction
  <2>2. /\ a.kind = kind /\ a.state = "CREATED" /\ a.runs = 0 /\ a.under = {} /\ a.needs = pending
        /\ a.approval = IF pending THEN "PENDING" ELSE "NOT_REQUIRED"
    BY <1>3
  <2>3. a \in Act
    BY <1>3 DEF Act, ActionStates, Approvals
  <2> QED BY <2>1, <2>2, <2>3 DEF SoundAct
<1>5. PICK acts : acts = Append(p.actions, a)
  OBVIOUS
<1>6. p.actions \in Seq(Act)
  BY DEF Plan
<1>7. /\ acts \in Seq(Act) /\ DOMAIN acts = 1..(Len(p.actions) + 1)
      /\ \A k \in DOMAIN acts : acts[k] = a \/ (k \in DOMAIN p.actions /\ acts[k] = p.actions[k])
  BY <1>4, <1>5, <1>6
<1>8. PICK q : q = [p EXCEPT !.actions = acts, !.approval = IF pending THEN "PENDING" ELSE @]
  OBVIOUS
<1>9. q \in Plan /\ q.actions = acts /\ q.state = "CREATED"
  BY <1>4, <1>7, <1>8 DEF Plan, Approvals
<1>10. SoundPlan(q)
  BY <1>1, <1>4, <1>7, <1>9 DEF SoundPlan
<1>11. Changed(n, q)
  BY <1>1, <1>2, <1>3, <1>5, <1>8 DEF AddAction
<1> QED BY <1>10, <1>11, OnePlanChanges

LEMMA ValidatePlanHolds ==
  ASSUME ResponseInv, NEW n \in DOMAIN plans, ValidatePlan(n)
  PROVE  ResponseInv'
<1>1. PICK p \in Plan : p = plans[n] /\ SoundPlan(p)
  BY DEF ResponseInv, SoundPlan
<1> DEFINE bad == {k \in DOMAIN plans[n].actions : Refused(plans[n].actions[k])}
           first == {k \in DOMAIN plans[n].actions : \A b \in bad : k <= b}
<1>a. PICK upTo : upTo = first
  OBVIOUS
<1>b. PICK state : state = IF bad = {} THEN "VALIDATED" ELSE "FAILED"
  OBVIOUS
<1>c. p.state = "CREATED" /\
      Changed(n, [p EXCEPT !.actions = [k \in DOMAIN @ |-> IF k \in upTo THEN Validated(@[k]) ELSE @[k]],
                           !.state = state])
  BY <1>1, <1>a, <1>b DEF ValidatePlan
<1> HIDE DEF bad, first
<1>d. PICK acts : acts = [k \in DOMAIN p.actions |->
                            IF k \in upTo THEN Validated(p.actions[k]) ELSE p.actions[k]]
  OBVIOUS
<1>2. /\ state \in {"VALIDATED", "FAILED"} /\ p.state = "CREATED"
      /\ acts = [k \in DOMAIN p.actions |-> IF k \in upTo THEN Validated(p.actions[k]) ELSE p.actions[k]]
      /\ Changed(n, [p EXCEPT !.actions = acts, !.state = state])
  BY <1>b, <1>c, <1>d
<1>3. \A k \in DOMAIN p.actions : SoundAct(p.actions[k], "CREATED")
  BY <1>1, <1>2 DEF SoundPlan
<1>4. ASSUME NEW a, SoundAct(a, "CREATED")
      PROVE  SoundAct(a, state) /\ SoundAct(Validated(a), state)
  BY <1>2, <1>4 DEF Validated, SoundAct, Act, ActionStates
<1>5. \A k \in DOMAIN p.actions : SoundAct(acts[k], state)
  BY <1>2, <1>3, <1>4
<1>6. acts \in [DOMAIN p.actions -> Act]
  BY <1>2, <1>5 DEF SoundAct
<1>7. state \in PlanStates /\ p.approval \in Approvals /\ p.real \in BOOLEAN /\ state # "COMPLETED"
  BY <1>2 DEF Plan, PlanStates
<1>8. [p EXCEPT !.actions = acts, !.state = state] =
      [p EXCEPT !.state = state, !.approval = p.approval, !.real = p.real, !.actions = acts]
  BY DEF Plan
<1>9. Changed(n, [p EXCEPT !.state = state, !.approval = p.approval, !.real = p.real, !.actions = acts])
  BY <1>2, <1>8
<1> QED BY <1>1, <1>5, <1>6, <1>7, <1>9, PlanStepHolds

LEMMA ApprovePlanHolds ==
  ASSUME ResponseInv, NEW n \in DOMAIN plans, ApprovePlan(n)
  PROVE  ResponseInv'
<1>1. PICK p \in Plan : p = plans[n] /\ SoundPlan(p)
  BY DEF ResponseInv, SoundPlan
<1> DEFINE Approved(a) == IF a.approval = "DENIED" \/ a.approval = "GRANTED" THEN a
                          ELSE [a EXCEPT !.state = "APPROVED",
                                         !.approval = IF @ = "PENDING" THEN "GRANTED" ELSE @]
<1>2. PICK acts : acts = [k \in DOMAIN p.actions |-> Approved(p.actions[k])]
  OBVIOUS
<1>3. PICK approval : approval = IF p.approval = "PENDING" THEN "GRANTED" ELSE p.approval
  OBVIOUS
<1>4. /\ p.state = "VALIDATED"
      /\ Changed(n, [p EXCEPT !.state = "APPROVED", !.actions = acts, !.approval = approval])
  BY <1>1, <1>2, <1>3 DEF ApprovePlan
<1>5. ASSUME NEW a, SoundAct(a, "VALIDATED") PROVE SoundAct(Approved(a), "APPROVED")
  <2>1. a \in Act /\ a.approval \in {"NOT_REQUIRED", "PENDING"} /\ a.runs = 0 /\ a.under = {}
    BY <1>5 DEF SoundAct
  <2>2. PICK b : b = [a EXCEPT !.state = "APPROVED", !.approval = IF @ = "PENDING" THEN "GRANTED" ELSE @]
    OBVIOUS
  <2>3. b \in Act /\ b.state = "APPROVED" /\ b.runs = 0 /\ b.under = {} /\ b.needs = a.needs
        /\ b.approval = IF a.approval = "PENDING" THEN "GRANTED" ELSE a.approval
    BY <2>1, <2>2 DEF Act, ActionStates, Approvals
  <2>4. a.needs => a.approval = "PENDING"
    BY <1>5, <2>1 DEF SoundAct
  <2>5. SoundAct(b, "APPROVED")
    BY <2>3, <2>4 DEF SoundAct
  <2>6. Approved(a) = b
    BY <2>1, <2>2
  <2> QED BY <2>5, <2>6
<1> HIDE DEF Approved
<1>6. \A k \in DOMAIN p.actions : SoundAct(acts[k], "APPROVED")
  BY <1>1, <1>2, <1>4, <1>5 DEF SoundPlan
<1>7. acts \in [DOMAIN p.actions -> Act]
  BY <1>2, <1>6 DEF SoundAct
<1>8. "APPROVED" \in PlanStates /\ approval \in Approvals /\ p.real \in BOOLEAN
  BY <1>3 DEF Plan, PlanStates, Approvals
<1>9. [p EXCEPT !.state = "APPROVED", !.actions = acts, !.approval = approval] =
      [p EXCEPT !.state = "APPROVED", !.approval = approval, !.real = p.real, !.actions = acts]
  BY DEF Plan
<1>10. Changed(n, [p EXCEPT !.state = "APPROVED", !.approval = approval, !.real = p.real, !.actions = acts])
  BY <1>4, <1>9
<1> QED BY <1>1, <1>6, <1>7, <1>8, <1>10, PlanStepHolds

(* All actions are closed, by a rejection, a cancellation or a cleanup.    *)
LEMMA PlanClosedHolds ==
  ASSUME NEW p, SoundPlan(p), NEW acts, DOMAIN acts = DOMAIN p.actions, NEW state, NEW approval,
         acts = [k \in DOMAIN p.actions |-> acts[k]],
         state \in PlanStates \ {"CREATED", "VALIDATED", "APPROVED", "COMPLETED"}, approval \in Approvals,
         \A k \in DOMAIN p.actions :
           /\ acts[k] \in Act /\ acts[k].state # "APPROVED" /\ acts[k].needs = p.actions[k].needs
           /\ acts[k].runs = p.actions[k].runs /\ acts[k].under = p.actions[k].under
           /\ \/ acts[k].approval = p.actions[k].approval
              \/ acts[k].approval = "DENIED" /\ (p.actions[k].runs = 0 \/ state = "CANCELLED"),
         p.state = "CANCELLED" => state = "CANCELLED"
  PROVE  SoundPlan([p EXCEPT !.state = state, !.approval = approval, !.actions = acts])
<1>1. p \in Plan /\ p.real \in BOOLEAN
  BY DEF SoundPlan, Plan
<1>2. PICK q : q = [p EXCEPT !.state = state, !.approval = approval, !.actions = acts]
  OBVIOUS
<1>3. /\ q.state = state /\ q.actions = acts /\ q.real = p.real /\ q.approval = approval /\ q.life = p.life
      /\ q = [state |-> q.state, approval |-> q.approval, actions |-> q.actions, life |-> q.life,
              real |-> q.real]
  BY <1>1, <1>2 DEF Plan
<1>4. acts \in [DOMAIN p.actions -> Act]
  OBVIOUS
<1>5. ASSUME NEW k \in DOMAIN p.actions PROVE SoundAct(acts[k], state)
  <2>1. SoundAct(p.actions[k], p.state)
    BY DEF SoundPlan
  <2> QED BY <2>1 DEF SoundAct
<1>6. SoundPlan(q)
  BY <1>1, <1>3, <1>4, <1>5, PlanMade
<1> QED BY <1>2, <1>6

LEMMA RejectPlanHolds ==
  ASSUME ResponseInv, NEW n \in DOMAIN plans, RejectPlan(n)
  PROVE  ResponseInv'
<1>1. PICK p \in Plan : p = plans[n] /\ SoundPlan(p)
  BY DEF ResponseInv, SoundPlan
<1>2. PICK acts : acts = [k \in DOMAIN p.actions |-> [p.actions[k] EXCEPT !.state = "REJECTED", !.approval = "DENIED"]]
  OBVIOUS
<1>3. p.state = "VALIDATED"
      /\ Changed(n, [p EXCEPT !.state = "FAILED", !.approval = "DENIED", !.actions = acts])
  BY <1>1, <1>2 DEF RejectPlan
<1>4. \A k \in DOMAIN p.actions : SoundAct(p.actions[k], "VALIDATED") /\ p.actions[k] \in Act
  BY <1>1, <1>3 DEF SoundPlan, SoundAct
<1>5. \A k \in DOMAIN p.actions :
        /\ acts[k] \in Act /\ acts[k].state # "APPROVED" /\ acts[k].needs = p.actions[k].needs
        /\ acts[k].runs = p.actions[k].runs /\ acts[k].under = p.actions[k].under
        /\ acts[k].approval = "DENIED" /\ p.actions[k].runs = 0
  BY <1>2, <1>4 DEF SoundAct, Act, ActionStates, Approvals
<1>6. DOMAIN acts = DOMAIN p.actions /\ acts = [k \in DOMAIN p.actions |-> acts[k]]
  BY <1>2
<1>7. "FAILED" \in PlanStates \ {"CREATED", "VALIDATED", "APPROVED", "COMPLETED"} /\ "DENIED" \in Approvals
  BY DEF PlanStates, Approvals
<1>8. SoundPlan([p EXCEPT !.state = "FAILED", !.approval = "DENIED", !.actions = acts])
  BY <1>1, <1>3, <1>5, <1>6, <1>7, PlanClosedHolds
<1> QED BY <1>3, <1>8, OnePlanChanges

LEMMA CancelPlanHolds ==
  ASSUME ResponseInv, NEW n \in DOMAIN plans, CancelPlan(n)
  PROVE  ResponseInv'
<1>1. PICK p \in Plan : p = plans[n] /\ SoundPlan(p)
  BY DEF ResponseInv, SoundPlan
<1>2. PICK acts : acts = [k \in DOMAIN p.actions |-> [p.actions[k] EXCEPT !.state = "CANCELLED", !.approval = "DENIED"]]
  OBVIOUS
<1>3. Changed(n, [p EXCEPT !.state = "CANCELLED", !.approval = "DENIED", !.actions = acts])
  BY <1>1, <1>2 DEF CancelPlan
<1>4. \A k \in DOMAIN p.actions : p.actions[k] \in Act
  BY <1>1 DEF SoundPlan, SoundAct
<1>5. \A k \in DOMAIN p.actions :
        /\ acts[k] \in Act /\ acts[k].state # "APPROVED" /\ acts[k].needs = p.actions[k].needs
        /\ acts[k].runs = p.actions[k].runs /\ acts[k].under = p.actions[k].under
        /\ acts[k].approval = "DENIED"
  BY <1>2, <1>4 DEF Act, ActionStates, Approvals
<1>6. DOMAIN acts = DOMAIN p.actions /\ acts = [k \in DOMAIN p.actions |-> acts[k]]
  BY <1>2
<1>7. "CANCELLED" \in PlanStates \ {"CREATED", "VALIDATED", "APPROVED", "COMPLETED"} /\ "DENIED" \in Approvals
  BY DEF PlanStates, Approvals
<1>8. SoundPlan([p EXCEPT !.state = "CANCELLED", !.approval = "DENIED", !.actions = acts])
  BY <1>1, <1>5, <1>6, <1>7, PlanClosedHolds
<1> QED BY <1>3, <1>8, OnePlanChanges

LEMMA ExecutePlanHolds ==
  ASSUME ResponseInv, NEW n \in DOMAIN plans, NEW real \in BOOLEAN,
         NEW failing \in SUBSET (DOMAIN plans[n].actions), ExecutePlan(n, real, failing)
  PROVE  ResponseInv'
<1>1. PICK p \in Plan : p = plans[n] /\ SoundPlan(p)
  BY DEF ResponseInv, SoundPlan
<1> DEFINE did == {k \in DOMAIN plans[n].actions :
                     Executable(plans[n].actions[k]) /\ (k \notin failing \/ ~real)}
<1>2. PICK succeed : succeed = did
  OBVIOUS
<1>3. PICK state : state = IF succeed = DOMAIN p.actions THEN "COMPLETED"
                           ELSE IF succeed # {} THEN "PARTIAL" ELSE "FAILED"
  OBVIOUS
<1>4. PICK acts : acts = [k \in DOMAIN p.actions |-> Executed(p.actions[k], "APPROVED", real, k \notin failing)]
  OBVIOUS
<1>5. p.state = "APPROVED"
      /\ Changed(n, [p EXCEPT !.actions = acts, !.state = state, !.real = real])
  BY <1>1, <1>2, <1>3, <1>4 DEF ExecutePlan
<1>6. \A k \in succeed : k \in DOMAIN p.actions /\ p.actions[k].state = "APPROVED"
  BY <1>1, <1>2 DEF Executable
<1> HIDE DEF did
<1>7. state \in {"COMPLETED", "PARTIAL", "FAILED"} /\ (state = "COMPLETED" => succeed = DOMAIN p.actions)
  BY <1>3
<1>8. state \in PlanStates \ {"CREATED", "VALIDATED"}
  BY <1>7 DEF PlanStates
<1>9. ASSUME NEW k \in DOMAIN p.actions
      PROVE  /\ SoundAct(acts[k], state)
             /\ p.actions[k].state = "APPROVED" /\ real => acts[k].runs = 1
  <2>1. SoundAct(p.actions[k], "APPROVED")
    BY <1>1, <1>5 DEF SoundPlan
  <2>2. PICK ok \in BOOLEAN : ok = (k \notin failing)
    <3>1. CASE k \in failing
      <4>1. FALSE = (k \notin failing)
        BY <3>1
      <4> QED BY <4>1
    <3>2. CASE k \notin failing
      <4>1. TRUE = (k \notin failing)
        BY <3>2
      <4> QED BY <4>1
    <3> QED BY <3>1, <3>2
  <2>3. acts[k] = Executed(p.actions[k], "APPROVED", real, ok)
    BY <1>4, <2>2
  <2> QED BY <1>8, <2>1, <2>3, ExecutedIs
<1>10. acts \in [DOMAIN p.actions -> Act]
  BY <1>4, <1>9 DEF SoundAct
<1>11. state = "COMPLETED" /\ real => \A k \in DOMAIN p.actions : acts[k].runs = 1
  BY <1>6, <1>7, <1>9
<1>12. p.approval \in Approvals
  BY DEF Plan
<1>13. [p EXCEPT !.actions = acts, !.state = state, !.real = real] =
       [p EXCEPT !.state = state, !.approval = p.approval, !.real = real, !.actions = acts]
  BY DEF Plan
<1>14. Changed(n, [p EXCEPT !.state = state, !.approval = p.approval, !.real = real, !.actions = acts])
  BY <1>5, <1>13
<1>15. \A k \in DOMAIN p.actions : SoundAct(acts[k], state)
  BY <1>9
<1> QED BY <1>1, <1>8, <1>10, <1>11, <1>12, <1>14, <1>15, PlanStepHolds

(* A step that makes something of every plan.                              *)
LEMMA EveryPlanChanges ==
  ASSUME ResponseInv, DOMAIN plans' = DOMAIN plans, plans' = [n \in DOMAIN plans |-> plans'[n]],
         UNCHANGED responsePolicy, \A n \in DOMAIN plans : SoundPlan(plans'[n])
  PROVE  ResponseInv'
<1>1. plans' \in [DOMAIN plans -> Plan]
  BY DEF SoundPlan
<1>2. plans' \in Seq(Plan)
  BY <1>1, ActsMade DEF ResponseInv
<1> QED BY <1>2 DEF ResponseInv

LEMMA CleanupPlansHolds ==
  ASSUME ResponseInv, CleanupPlans
  PROVE  ResponseInv'
<1> DEFINE Closing(a) == IF a.state \in {"SUCCEEDED", "CANCELLED", "FAILED"} THEN a
                         ELSE [a EXCEPT !.state = "EXPIRED"]
           Late(p) == p.life < 0 /\ p.state \notin {"COMPLETED", "CANCELLED", "EXPIRED", "FAILED"}
           After(p) == [p EXCEPT !.state = "EXPIRED", !.actions = [k \in DOMAIN @ |-> Closing(@[k])]]
<1>1. /\ plans' = [n \in DOMAIN plans |-> IF Late(plans[n]) THEN After(plans[n]) ELSE plans[n]]
      /\ UNCHANGED responsePolicy
  BY DEF CleanupPlans
<1>2. ASSUME NEW p, SoundPlan(p), Late(p) PROVE SoundPlan(After(p))
  <2>1. PICK acts : acts = [k \in DOMAIN p.actions |-> Closing(p.actions[k])]
    OBVIOUS
  <2>2. p \in Plan /\ p.approval \in Approvals /\ p.state # "CANCELLED"
    BY <1>2 DEF SoundPlan, Plan
  <2>3. \A k \in DOMAIN p.actions : p.actions[k] \in Act
    BY <1>2 DEF SoundPlan, SoundAct
  <2>4. \A k \in DOMAIN p.actions :
          /\ acts[k] \in Act /\ acts[k].state # "APPROVED" /\ acts[k].needs = p.actions[k].needs
          /\ acts[k].runs = p.actions[k].runs /\ acts[k].under = p.actions[k].under
          /\ acts[k].approval = p.actions[k].approval
    BY <2>1, <2>3 DEF Act, ActionStates
  <2>5. DOMAIN acts = DOMAIN p.actions /\ acts = [k \in DOMAIN p.actions |-> acts[k]]
    BY <2>1
  <2>6. "EXPIRED" \in PlanStates \ {"CREATED", "VALIDATED", "APPROVED", "COMPLETED"}
    BY DEF PlanStates
  <2>7. SoundPlan([p EXCEPT !.state = "EXPIRED", !.approval = p.approval, !.actions = acts])
    BY <1>2, <2>2, <2>4, <2>5, <2>6, PlanClosedHolds
  <2>8. After(p) = [p EXCEPT !.state = "EXPIRED", !.approval = p.approval, !.actions = acts]
    BY <2>1, <2>2 DEF Plan
  <2> QED BY <2>7, <2>8
<1> HIDE DEF After, Late
<1>3. \A n \in DOMAIN plans : SoundPlan(plans'[n])
  BY <1>1, <1>2 DEF ResponseInv
<1>4. DOMAIN plans' = DOMAIN plans /\ plans' = [n \in DOMAIN plans |-> plans'[n]]
  BY <1>1
<1> QED BY <1>1, <1>3, <1>4, EveryPlanChanges

LEMMA ResponseElapseHolds ==
  ASSUME ResponseInv, ResponseElapse
  PROVE  ResponseInv'
<1> DEFINE After(p) == [p EXCEPT !.life = IF @ < 0 THEN @ ELSE @ - 1]
<1>1. plans' = [n \in DOMAIN plans |-> After(plans[n])] /\ UNCHANGED responsePolicy
  BY DEF ResponseElapse
<1>2. ASSUME NEW p, SoundPlan(p) PROVE SoundPlan(After(p))
  <2>1. p \in Plan /\ After(p) \in Plan /\ After(p).state = p.state /\ After(p).actions = p.actions
        /\ After(p).real = p.real
    BY <1>2 DEF SoundPlan, Plan
  <2> HIDE DEF After
  <2> QED BY <1>2, <2>1 DEF SoundPlan
<1> HIDE DEF After
<1>3. \A n \in DOMAIN plans : SoundPlan(plans'[n])
  BY <1>1, <1>2 DEF ResponseInv
<1>4. DOMAIN plans' = DOMAIN plans /\ plans' = [n \in DOMAIN plans |-> plans'[n]]
  BY <1>1
<1> QED BY <1>1, <1>3, <1>4, EveryPlanChanges

LEMMA CreatePlanHolds ==
  ASSUME ResponseInv, CreatePlan
  PROVE  ResponseInv'
<1>1. PICK p : p = [state |-> "CREATED", approval |-> "NOT_REQUIRED", actions |-> <<>>, life |-> PlanLife,
                    real |-> FALSE]
  OBVIOUS
<1>2. p \in Plan /\ p.actions = <<>> /\ DOMAIN p.actions = {}
  BY <1>1, ResponseAssumption DEF Plan, PlanStates, Approvals
<1>3. SoundPlan(p)
  BY <1>2 DEF SoundPlan
<1>4. plans' = Append(plans, p) /\ UNCHANGED responsePolicy
  BY <1>1 DEF CreatePlan
<1>5. /\ plans' \in Seq(Plan) /\ DOMAIN plans' = 1..(Len(plans) + 1)
      /\ \A n \in DOMAIN plans' : plans'[n] = p \/ (n \in DOMAIN plans /\ plans'[n] = plans[n])
  BY <1>2, <1>4 DEF ResponseInv
<1> QED BY <1>3, <1>4, <1>5 DEF ResponseInv

LEMMA ResponseStep == ResponseInv /\ [ResponseNext]_responseVars => ResponseInv'
<1> SUFFICES ASSUME ResponseInv, [ResponseNext]_responseVars PROVE ResponseInv'
  OBVIOUS
<1>1. CASE UNCHANGED responseVars
  BY <1>1 DEF responseVars, ResponseInv
<1>2. ASSUME NEW p \in ResponsePolicies, SetResponsePolicy(p) PROVE ResponseInv'
  BY <1>2 DEF SetResponsePolicy, ResponseInv
<1> QED BY <1>1, <1>2, ActStepHolds, AddActionHolds, ValidatePlanHolds, ApprovePlanHolds, RejectPlanHolds,
        CancelPlanHolds, ExecutePlanHolds, CleanupPlansHolds, ResponseElapseHolds, CreatePlanHolds
        DEF ResponseNext

(* What is done about an attack: the level of compromise is the one the    *)
(* incidents make, criticals lock, nobody whose identity was revoked for   *)
(* an incident is back (incident.c:325, 342, 572); and what a plan does    *)
(* is done once, under an approval where it needs one (sec_response.c).    *)
THEOREM AnswersHold == SecuritySpec => []AnswersSafe
<1>1. SecurityInit => IncidentInv /\ ResponseInv
  <2>1. ResponseInit => ResponseInv
    BY DEF ResponseInit, ResponseInv
  <2> QED BY <2>1, IncidentsStart DEF SecurityInit, SessionInit
<1>2. IncidentInv /\ [SecurityNext]_<<beforeVars, keyVaultVars, incidentVars, dispatchVars,
                                      afterVars, service>> => IncidentInv'
  <2>1. ASSUME [SecurityNext]_<<beforeVars, keyVaultVars, incidentVars, dispatchVars, afterVars, service>>
        PROVE  [IncidentNext]_<<identityVars, incidentVars>>
    BY <2>1, IdentitySteps DEF IncidentNext
  <2> QED BY <2>1, IncidentStep
<1>3. ResponseInv /\ [SecurityNext]_<<beforeVars, keyVaultVars, incidentVars, dispatchVars,
                                      afterVars, service>> => ResponseInv'
  BY ResponseStep DEF SecurityNext, afterVars
<1>4. IncidentInv /\ ResponseInv => AnswersSafe
  BY ResponseImplied DEF IncidentInv, AnswersSafe
<1> QED BY <1>1, <1>2, <1>3, <1>4, PTL DEF SecuritySpec

-----------------------------------------------------------------------------
(* Sessions.                                                               *)

(* What is left of a session follows from what was made of it: the time    *)
(* since its authentication, and since its last activity.                  *)
InStep(s, u) ==
  s \in Session /\ u \in Use /\ s.idle = Left(IdleTimeout, u.quiet) /\ s.life = Left(Lifetime, u.age)

SessionInv ==
  /\ IdentityInv /\ SessionsSafe
  /\ \A s \in DOMAIN sessions : InStep(sessions[s], use[s])
  /\ \A s \in refused : sessions[s].state # "ACTIVE"

LEMMA SessionsAre ==
  ASSUME SessionInv
  PROVE  /\ sessions \in Seq(Session) /\ use \in Seq(Use) /\ Len(sessions) \in Nat
         /\ Len(use) = Len(sessions) /\ DOMAIN sessions = 1..Len(sessions)
         /\ DOMAIN use = DOMAIN sessions /\ Len(sessions) <= MaxSessions
         /\ refused \subseteq DOMAIN sessions /\ 0 \notin DOMAIN sessions
         /\ proof \in [Ids -> 0..(Lifetime + 1)]
         /\ \A s \in DOMAIN sessions : sessions[s] \in Session /\ use[s] \in Use
         /\ MaxSessions \in Nat /\ MaxPerIdentity \in Nat \ {0}
         /\ IdleTimeout \in Nat \ {0} /\ Lifetime \in Nat /\ IdleTimeout <= Lifetime
<1>1. SessionTypeOK
  BY DEF SessionInv, SessionsSafe
<1> QED BY <1>1, SessionAssumption DEF SessionTypeOK

LEMMA ActiveIsFinite ==
  ASSUME SessionInv, NEW i
  PROVE  IsFiniteSet(ActiveOf(i)) /\ Cardinality(ActiveOf(i)) \in Nat
<1>1. IsFiniteSet(1..Len(sessions)) /\ ActiveOf(i) \subseteq 1..Len(sessions)
  BY SessionsAre, FS_Interval DEF ActiveOf
<1> QED BY <1>1, FS_Subset, FS_CardinalityType

(* Sessions that change, but none of them back to life.                    *)
LEMMA SessionsChange ==
  ASSUME SessionInv, IdentityInv', proof' \in [Ids -> 0..(Lifetime + 1)],
         DOMAIN sessions' = DOMAIN sessions, sessions' = [s \in DOMAIN sessions |-> sessions'[s]],
         DOMAIN use' = DOMAIN use, use' = [s \in DOMAIN use |-> use'[s]],
         \A s \in DOMAIN sessions :
           /\ InStep(sessions'[s], use'[s]) /\ sessions'[s].owner = sessions[s].owner
           /\ sessions'[s].state = "ACTIVE" => sessions[s].state = "ACTIVE",
         refused' \subseteq DOMAIN sessions, \A s \in refused' : sessions'[s].state # "ACTIVE",
         \/ admitted' = 0
         \/ /\ admitted' \in DOMAIN sessions /\ sessions'[admitted'].state = "ACTIVE"
            /\ sessions'[admitted'].idle > 0 /\ sessions'[admitted'].life > 0
  PROVE  SessionInv'
<1>1. sessions' \in [1..Len(sessions) -> Session] /\ use' \in [1..Len(sessions) -> Use]
  BY SessionsAre DEF InStep
<1>2. /\ sessions' \in Seq(Session) /\ Len(sessions') = Len(sessions)
      /\ use' \in Seq(Use) /\ Len(use') = Len(sessions)
  <2>1. /\ sessions \in Seq(Session) /\ use \in Seq(Use) /\ Len(use) = Len(sessions)
        /\ sessions' \in [DOMAIN sessions -> Session] /\ use' \in [DOMAIN use -> Use]
    BY <1>1, SessionsAre
  <2> QED BY <2>1, ActsMade
<1>3. admitted' \in 0..Len(sessions')
  BY <1>2, SessionsAre
<1>4. SessionTypeOK'
  BY <1>2, <1>3, SessionsAre DEF SessionTypeOK, IdentityInv
<1>5. AdmittedInTime'
  <2> SUFFICES ASSUME admitted' # 0
               PROVE  use'[admitted'].age < Lifetime /\ use'[admitted'].quiet < IdleTimeout
    BY DEF AdmittedInTime
  <2>1. PICK s \in DOMAIN sessions : s = admitted'
    OBVIOUS
  <2>2. PICK it, u : it = sessions'[s] /\ u = use'[s]
    OBVIOUS
  <2>3. InStep(it, u) /\ it.idle > 0 /\ it.life > 0
    BY <2>1, <2>2
  <2>4. u.age < Lifetime /\ u.quiet < IdleTimeout
    <3>1. u.age \in 0..(Lifetime + 1) /\ u.quiet \in 0..(Lifetime + 1)
      BY <2>3 DEF InStep, Use
    <3>2. Left(IdleTimeout, u.quiet) > 0 /\ Left(Lifetime, u.age) > 0
      BY <2>3 DEF InStep
    <3> QED BY <3>1, <3>2, SessionAssumption DEF Left
  <2> QED BY <2>1, <2>2, <2>4
<1>6. RefusedForGood'
  BY SessionsAre DEF RefusedForGood
<1>7. ASSUME NEW i \in Ids PROVE Cardinality(ActiveOf(i)') <= MaxPerIdentity
  <2>1. ActiveOf(i)' \subseteq ActiveOf(i)
    BY DEF ActiveOf
  <2>2. IsFiniteSet(ActiveOf(i)) /\ Cardinality(ActiveOf(i)) <= MaxPerIdentity
    BY ActiveIsFinite DEF ActiveOf, SessionInv, SessionsSafe, PerIdentityLimit
  <2>3. Cardinality(ActiveOf(i)') <= Cardinality(ActiveOf(i)) /\ Cardinality(ActiveOf(i)') \in Nat
    BY <2>1, <2>2, FS_Subset, FS_CardinalityType
  <2> QED BY <2>2, <2>3, ActiveIsFinite, SessionsAre
<1>8. PerIdentityLimit'
  BY <1>7 DEF PerIdentityLimit, ActiveOf
<1> QED BY <1>4, <1>5, <1>6, <1>8 DEF SessionInv, SessionsSafe, IdentityInv

LEMMA SessionsStart == SessionInit => SessionInv
<1> SUFFICES ASSUME SessionInit PROVE SessionInv OBVIOUS
<1>1. /\ sessions = <<>> /\ use = <<>> /\ admitted = 0 /\ refused = {} /\ DOMAIN sessions = {}
      /\ sessions \in Seq(Session) /\ use \in Seq(Use) /\ Len(sessions) = 0 /\ Len(use) = 0
  BY DEF SessionInit
<1>2. IdentityInv
  BY IdentityStarts DEF SessionInit
<1>3. proof \in [Ids -> 0..(Lifetime + 1)] /\ 0 <= MaxSessions
  BY SessionAssumption DEF SessionInit
<1>4. SessionTypeOK
  BY <1>1, <1>2, <1>3 DEF SessionTypeOK, IdentityInv
<1>5. \A i \in Ids : ActiveOf(i) = {}
  BY <1>1 DEF ActiveOf
<1>6. PerIdentityLimit
  BY <1>5, FS_EmptySet, SessionAssumption DEF PerIdentityLimit, ActiveOf
<1> QED BY <1>1, <1>2, <1>4, <1>6 DEF SessionInv, SessionsSafe, AdmittedInTime, RefusedForGood, IdentityInv

LEMMA LeftLater ==
  ASSUME NEW span \in Nat, span <= Lifetime, NEW age \in 0..(Lifetime + 1)
  PROVE  Left(Left(span, age), 1) = Left(span, Older(age)) /\ Older(age) \in 0..(Lifetime + 1)
         /\ Left(span, age) \in 0..span
BY SessionAssumption DEF Left, Older

(* One session changes its state, its remaining idle time, or neither.     *)
LEMMA OneSessionChanges ==
  ASSUME SessionInv, NEW s \in DOMAIN sessions, NEW new, NEW u, InStep(new, u),
         new.owner = sessions[s].owner, new.state = "ACTIVE" => sessions[s].state = "ACTIVE",
         sessions' = [sessions EXCEPT ![s] = new], use' = [use EXCEPT ![s] = u],
         UNCHANGED <<identityVars, proof>>,
         refused' \subseteq refused \cup {s}, s \in refused' => new.state # "ACTIVE",
         \/ admitted' = 0
         \/ /\ admitted' = s /\ new.state = "ACTIVE" /\ new.idle > 0 /\ new.life > 0
  PROVE  SessionInv'
<1>1. /\ DOMAIN sessions' = DOMAIN sessions /\ sessions' = [t \in DOMAIN sessions |-> sessions'[t]]
      /\ DOMAIN use' = DOMAIN use /\ use' = [t \in DOMAIN use |-> use'[t]]
      /\ \A t \in DOMAIN sessions : /\ sessions'[t] = IF t = s THEN new ELSE sessions[t]
                                    /\ use'[t] = IF t = s THEN u ELSE use[t]
  BY SessionsAre
<1>2. IdentityInv'
  BY IdentityStep DEF SessionInv
<1>3. \A t \in DOMAIN sessions :
        /\ InStep(sessions'[t], use'[t]) /\ sessions'[t].owner = sessions[t].owner
        /\ sessions'[t].state = "ACTIVE" => sessions[t].state = "ACTIVE"
  BY <1>1 DEF SessionInv
<1>4. refused' \subseteq DOMAIN sessions /\ \A t \in refused' : sessions'[t].state # "ACTIVE"
  BY <1>1, SessionsAre DEF SessionInv
<1>5. proof' \in [Ids -> 0..(Lifetime + 1)]
  BY SessionsAre
<1> QED BY <1>1, <1>2, <1>3, <1>4, <1>5, SessionsChange

LEMMA OpenHolds ==
  ASSUME SessionInv, NEW i \in Ids, OpenSession(i)
  PROVE  SessionInv'
<1>1. proof[i] \in 0..(Lifetime + 1) /\ proof[i] <= Lifetime
  BY SessionsAre DEF OpenSession
<1>2. PICK new : new = Opened(i)
  OBVIOUS
<1>3. PICK u : u = [age |-> proof[i], quiet |-> proof[i]]
  OBVIOUS
<1>4. Left(IdleTimeout, proof[i]) \in 0..IdleTimeout /\ Left(Lifetime, proof[i]) \in 0..Lifetime
  BY <1>1, SessionAssumption DEF Left
<1>5. InStep(new, u) /\ new \in Session /\ u \in Use /\ new.owner = i
  BY <1>1, <1>2, <1>3, <1>4 DEF Opened, InStep, Session, Use
<1>6. sessions' = Append(sessions, new) /\ use' = Append(use, u) /\ UNCHANGED <<identityVars, proof>>
      /\ admitted' = 0 /\ refused' = refused /\ Len(sessions) < MaxSessions
      /\ Cardinality(ActiveOf(i)) < MaxPerIdentity
  BY <1>2, <1>3 DEF OpenSession, NoAnswer
<1> DEFINE n == Len(sessions) + 1
<1>7. /\ sessions' \in Seq(Session) /\ use' \in Seq(Use) /\ Len(sessions') = n /\ Len(use') = n
      /\ DOMAIN sessions' = 1..n
      /\ \A s \in DOMAIN sessions' : /\ sessions'[s] = IF s = n THEN new ELSE sessions[s]
                                     /\ use'[s] = IF s = n THEN u ELSE use[s]
  BY <1>5, <1>6, SessionsAre
<1>8. \A s \in DOMAIN sessions' : s = n \/ s \in DOMAIN sessions
  BY <1>7, SessionsAre
<1>9. \A s \in DOMAIN sessions : s # n /\ s \in DOMAIN sessions'
  BY <1>7, SessionsAre
<1>10. n <= MaxSessions
  BY <1>6, SessionsAre
<1> HIDE DEF n
<1>11. IdentityInv'
  BY <1>6, IdentityStep DEF SessionInv
<1>12. SessionTypeOK'
  <2>1. admitted' \in 0..Len(sessions') /\ refused' \subseteq DOMAIN sessions'
    BY <1>6, <1>7, <1>9, SessionsAre DEF n
  <2> QED BY <1>6, <1>7, <1>10, <1>11, <2>1, SessionsAre DEF SessionTypeOK, IdentityInv
<1>13. \A s \in DOMAIN sessions' : InStep(sessions'[s], use'[s])
  BY <1>5, <1>7, <1>8 DEF SessionInv
<1>14. \A s \in refused' : sessions'[s].state # "ACTIVE"
  BY <1>6, <1>7, <1>9, SessionsAre DEF SessionInv
<1>15. ASSUME NEW j \in Ids PROVE Cardinality(ActiveOf(j)') <= MaxPerIdentity
  <2>1. IsFiniteSet(ActiveOf(j)) /\ Cardinality(ActiveOf(j)) \in Nat
    BY ActiveIsFinite
  <2>2. Cardinality(ActiveOf(j)) <= MaxPerIdentity
    BY DEF ActiveOf, SessionInv, SessionsSafe, PerIdentityLimit
  <2>3. CASE j # i
    <3>1. ActiveOf(j)' \subseteq ActiveOf(j)
      BY <1>5, <1>7, <1>8, <2>3 DEF ActiveOf
    <3>2. Cardinality(ActiveOf(j)') <= Cardinality(ActiveOf(j)) /\ Cardinality(ActiveOf(j)') \in Nat
      BY <2>1, <3>1, FS_Subset, FS_CardinalityType
    <3> QED BY <2>1, <2>2, <3>2, SessionsAre
  <2>4. CASE j = i
    <3>1. ActiveOf(j)' \subseteq ActiveOf(j) \cup {n}
      BY <1>7, <1>8 DEF ActiveOf
    <3>2. n \notin ActiveOf(j)
      BY <1>9 DEF ActiveOf
    <3>3. IsFiniteSet(ActiveOf(j) \cup {n})
          /\ Cardinality(ActiveOf(j) \cup {n}) = Cardinality(ActiveOf(j)) + 1
      BY <2>1, <3>2, FS_AddElement
    <3>4. Cardinality(ActiveOf(j)') <= Cardinality(ActiveOf(j)) + 1 /\ Cardinality(ActiveOf(j)') \in Nat
      BY <3>1, <3>3, FS_Subset, FS_CardinalityType
    <3> QED BY <1>6, <2>1, <2>4, <3>4, SessionsAre
  <2> QED BY <2>3, <2>4
<1>16. PerIdentityLimit'
  BY <1>15 DEF PerIdentityLimit, ActiveOf
<1>17. AdmittedInTime' /\ RefusedForGood'
  BY <1>6, SessionsAre DEF AdmittedInTime, RefusedForGood
<1> QED BY <1>11, <1>12, <1>13, <1>14, <1>16, <1>17 DEF SessionInv, SessionsSafe, IdentityInv

LEMMA SessionStep == SessionInv /\ [SessionNext]_sessionVars => SessionInv'
<1> SUFFICES ASSUME SessionInv, [SessionNext]_sessionVars PROVE SessionInv'
  OBVIOUS
<1>1. CASE UNCHANGED sessionVars
  BY <1>1 DEF sessionVars, identityVars, SessionInv, SessionsSafe, SessionTypeOK, IdentityTypeOK, AdmittedInTime,
             RefusedForGood, PerIdentityLimit, VaultFollows, IdentityInv, Known, InStep
<1>2. /\ sessions = [s \in DOMAIN sessions |-> sessions[s]] /\ use = [s \in DOMAIN use |-> use[s]]
      /\ \A s \in DOMAIN sessions : InStep(sessions[s], use[s])
  BY SessionsAre DEF SessionInv
(* Sessions are left alone, and none is presented.                         *)
<1>3. ASSUME [IdentityNext]_identityVars, UNCHANGED <<sessions, use>>, NoAnswer,
             proof' \in [Ids -> 0..(Lifetime + 1)]
      PROVE  SessionInv'
  <2>1. IdentityInv'
    BY <1>3, IdentityStep DEF SessionInv
  <2>2. sessions' = sessions /\ use' = use /\ admitted' = 0 /\ refused' = refused
    BY <1>3 DEF NoAnswer
  <2>3. \A s \in refused : sessions[s].state # "ACTIVE"
    BY DEF SessionInv
  <2> QED BY <1>2, <1>3, <2>1, <2>2, <2>3, SessionsAre, SessionsChange
<1>4. ASSUME NEW i \in Ids, Authenticate(i) PROVE SessionInv'
  <2>1. proof' \in [Ids -> 0..(Lifetime + 1)]
    BY <1>4, SessionsAre DEF Authenticate
  <2> QED BY <1>3, <1>4, <2>1 DEF Authenticate
<1>5. ASSUME NEW s \in DOMAIN sessions PROVE sessions[s] \in Session /\ use[s] \in Use
                                              /\ use = [use EXCEPT ![s] = use[s]]
                                              /\ sessions = [sessions EXCEPT ![s] = sessions[s]]
  BY <1>5, SessionsAre
<1>6. ASSUME NEW s \in DOMAIN sessions, NEW state \in Ended, End(s, state), refused' \subseteq refused \cup {s},
             admitted' = 0, UNCHANGED <<identityVars, proof, use>>
      PROVE  SessionInv'
  <2>1. PICK new : new = [sessions[s] EXCEPT !.state = state]
    OBVIOUS
  <2>2. /\ InStep(new, use[s]) /\ new.owner = sessions[s].owner /\ new.state = state /\ state # "ACTIVE"
    BY <1>2, <1>5, <1>6, <2>1 DEF InStep, Session, Ended
  <2>3. sessions' = [sessions EXCEPT ![s] = new]
    BY <1>5, <1>6, <2>1 DEF End
  <2>4. use' = [use EXCEPT ![s] = use[s]]
    BY <1>5, <1>6
  <2>5. PICK u : u = use[s]
    OBVIOUS
  <2> QED BY <1>6, <2>2, <2>3, <2>4, <2>5, OneSessionChanges
<1>7. ASSUME NEW s \in DOMAIN sessions, ValidateSession(s) PROVE SessionInv'
  <2>1. PICK old, u : old = sessions[s] /\ u = use[s]
    OBVIOUS
  <2>2. /\ InStep(old, u) /\ sessions = [sessions EXCEPT ![s] = old] /\ use = [use EXCEPT ![s] = u]
        /\ old.owner = sessions[s].owner
    BY <1>2, <1>5, <2>1
  <2>3. UNCHANGED <<identityVars, proof, use>>
    BY <1>7 DEF ValidateSession
  <2>4. CASE old.state # "ACTIVE" /\ UNCHANGED sessions /\ Refuse(s)
    BY <2>1, <2>2, <2>3, <2>4, OneSessionChanges DEF Refuse
  <2>5. CASE UNCHANGED <<sessions, refused>> /\ old.state = "ACTIVE" /\ ~Overdue(s) /\ admitted' = s
    <3>1. old.idle > 0 /\ old.life > 0
      BY <2>1, <2>2, <2>5, SessionAssumption DEF Overdue, InStep, Session
    <3>2. s \notin refused'
      BY <2>1, <2>5 DEF SessionInv
    <3>3. sessions' = [sessions EXCEPT ![s] = old] /\ use' = [use EXCEPT ![s] = u] /\ refused' = refused
      BY <2>2, <2>3, <2>5
    <3> QED BY <2>1, <2>2, <2>3, <2>5, <3>1, <3>2, <3>3, OneSessionChanges
  <2>6. CASE \E state \in Ended : End(s, state) /\ Refuse(s)
    BY <1>6, <2>3, <2>6 DEF Refuse
  <2> QED BY <1>7, <2>1, <2>4, <2>5, <2>6 DEF ValidateSession, Ended
<1>8. ASSUME NEW s \in DOMAIN sessions, TouchSession(s) PROVE SessionInv'
  <2>1. PICK new : new = [sessions[s] EXCEPT !.idle = IdleTimeout]
    OBVIOUS
  <2>2. PICK u : u = [use[s] EXCEPT !.quiet = 0]
    OBVIOUS
  <2>3. IdleTimeout \in 0..IdleTimeout /\ Left(IdleTimeout, 0) = IdleTimeout /\ 0 \in 0..(Lifetime + 1)
    BY SessionAssumption DEF Left
  <2>4. new \in Session /\ new.idle = IdleTimeout /\ new.life = sessions[s].life
        /\ new.owner = sessions[s].owner /\ new.state = sessions[s].state
    BY <1>5, <2>1, <2>3 DEF Session
  <2>5. u \in Use /\ u.quiet = 0 /\ u.age = use[s].age
    BY <1>5, <2>2, <2>3 DEF Use
  <2>6. InStep(new, u)
    BY <1>2, <2>3, <2>4, <2>5 DEF InStep
  <2>7. /\ sessions' = [sessions EXCEPT ![s] = new] /\ use' = [use EXCEPT ![s] = u]
        /\ UNCHANGED <<identityVars, proof>> /\ admitted' = 0 /\ refused' = refused
        /\ sessions[s].state = "ACTIVE"
    BY <1>8, <2>1, <2>2 DEF TouchSession, NoAnswer
  <2>8. s \notin refused
    BY <2>7 DEF SessionInv
  <2> QED BY <2>4, <2>6, <2>7, <2>8, OneSessionChanges
<1>9. ASSUME NEW s \in DOMAIN sessions, NEW state \in {"TERMINATED", "REVOKED"}, EndSession(s, state)
      PROVE  SessionInv'
  BY <1>6, <1>9 DEF EndSession, NoAnswer, Ended
<1>10. ASSUME ExpireSessions PROVE SessionInv'
  <2>1. \A s \in DOMAIN sessions :
          /\ InStep(Swept(s), use[s]) /\ Swept(s).owner = sessions[s].owner
          /\ Swept(s).state = "ACTIVE" => sessions[s].state = "ACTIVE"
    BY <1>2, <1>5 DEF Swept, InStep, Session, Ended
  <2>2. /\ sessions' = [s \in DOMAIN sessions |-> Swept(s)] /\ use' = use /\ proof' = proof
        /\ UNCHANGED identityVars /\ admitted' = 0 /\ refused' = refused
    BY <1>10 DEF ExpireSessions, NoAnswer
  <2>3. DOMAIN sessions' = DOMAIN sessions /\ \A s \in DOMAIN sessions : sessions'[s] = Swept(s)
    BY <2>2
  <2>4. IdentityInv'
    BY <2>2, IdentityStep DEF SessionInv
  <2>5. sessions' = [s \in DOMAIN sessions |-> sessions'[s]]
    BY <2>2, <2>3
  <2>6. refused' \subseteq DOMAIN sessions /\ \A s \in refused' : sessions'[s].state # "ACTIVE"
    BY <2>1, <2>2, <2>3, SessionsAre DEF SessionInv
  <2>7. \A s \in DOMAIN sessions :
          /\ InStep(sessions'[s], use'[s]) /\ sessions'[s].owner = sessions[s].owner
          /\ sessions'[s].state = "ACTIVE" => sessions[s].state = "ACTIVE"
    BY <2>1, <2>2, <2>3
  <2>8. DOMAIN use' = DOMAIN use /\ use' = [s \in DOMAIN use |-> use'[s]]
        /\ proof' \in [Ids -> 0..(Lifetime + 1)]
    BY <1>2, <2>2, SessionsAre
  <2> QED BY <2>2, <2>3, <2>4, <2>5, <2>6, <2>7, <2>8, SessionsChange
<1>11. ASSUME SessionElapse PROVE SessionInv'
  <2> DEFINE Less1(it) == [it EXCEPT !.idle = Left(@, 1), !.life = Left(@, 1)]
             More1(u) == [age |-> Older(u.age), quiet |-> Older(u.quiet)]
  <2>1. /\ sessions' = [s \in DOMAIN sessions |-> Less1(sessions[s])]
        /\ use' = [s \in DOMAIN use |-> More1(use[s])]
        /\ proof' = [i \in Ids |-> Older(proof[i])]
        /\ UNCHANGED identityVars /\ admitted' = 0 /\ refused' = refused
    BY <1>11 DEF SessionElapse, NoAnswer
  <2>2. ASSUME NEW it, NEW u, InStep(it, u)
        PROVE  /\ InStep(Less1(it), More1(u)) /\ Less1(it).owner = it.owner /\ Less1(it).state = it.state
    <3>1. it \in Session /\ u \in Use /\ it.idle = Left(IdleTimeout, u.quiet) /\ it.life = Left(Lifetime, u.age)
      BY <2>2 DEF InStep
    <3>2. u.quiet \in 0..(Lifetime + 1) /\ u.age \in 0..(Lifetime + 1)
      BY <3>1 DEF Use
    <3>3. /\ Left(it.idle, 1) = Left(IdleTimeout, Older(u.quiet)) /\ Older(u.quiet) \in 0..(Lifetime + 1)
          /\ Left(it.life, 1) = Left(Lifetime, Older(u.age)) /\ Older(u.age) \in 0..(Lifetime + 1)
          /\ Left(IdleTimeout, Older(u.quiet)) \in 0..IdleTimeout
          /\ Left(Lifetime, Older(u.age)) \in 0..Lifetime
      <4>1. IdleTimeout \in Nat /\ Lifetime \in Nat /\ IdleTimeout <= Lifetime /\ Lifetime <= Lifetime
        BY SessionAssumption
      <4>2. PICK q, a : q = u.quiet /\ a = u.age
        OBVIOUS
      <4>3. /\ Left(Left(IdleTimeout, q), 1) = Left(IdleTimeout, Older(q)) /\ Older(q) \in 0..(Lifetime + 1)
            /\ Left(Left(Lifetime, a), 1) = Left(Lifetime, Older(a)) /\ Older(a) \in 0..(Lifetime + 1)
        BY <3>2, <4>1, <4>2, LeftLater
      <4>4. /\ Left(IdleTimeout, Older(q)) \in 0..IdleTimeout
            /\ Left(Lifetime, Older(a)) \in 0..Lifetime
        BY <4>1, <4>3, LeftLater
      <4> QED BY <3>1, <4>2, <4>3, <4>4
    <3>4. Less1(it) \in Session /\ Less1(it).idle = Left(it.idle, 1) /\ Less1(it).life = Left(it.life, 1)
          /\ Less1(it).owner = it.owner /\ Less1(it).state = it.state
      BY <3>1, <3>3 DEF Session
    <3>5. More1(u) \in Use /\ More1(u).age = Older(u.age) /\ More1(u).quiet = Older(u.quiet)
      BY <3>3 DEF Use
    <3> HIDE DEF Less1, More1
    <3> QED BY <3>3, <3>4, <3>5 DEF InStep
  <2> HIDE DEF Less1, More1
  <2>3. DOMAIN sessions' = DOMAIN sessions /\ DOMAIN use' = DOMAIN use
        /\ \A s \in DOMAIN sessions : sessions'[s] = Less1(sessions[s]) /\ use'[s] = More1(use[s])
    BY <2>1, SessionsAre
  <2>4. IdentityInv'
    BY <2>1, IdentityStep DEF SessionInv
  <2>5. sessions' = [s \in DOMAIN sessions |-> sessions'[s]] /\ use' = [s \in DOMAIN use |-> use'[s]]
    BY <2>1, <2>3
  <2>6. \A s \in DOMAIN sessions :
          /\ InStep(sessions'[s], use'[s]) /\ sessions'[s].owner = sessions[s].owner
          /\ sessions'[s].state = sessions[s].state
    BY <1>2, <2>2, <2>3
  <2>7. refused' \subseteq DOMAIN sessions /\ \A s \in refused' : sessions'[s].state # "ACTIVE"
    BY <2>1, <2>6, SessionsAre DEF SessionInv
  <2>8. proof' \in [Ids -> 0..(Lifetime + 1)]
    <3>1. \A a \in 0..(Lifetime + 1) : Older(a) \in 0..(Lifetime + 1)
      BY SessionAssumption DEF Older
    <3> QED BY <2>1, <3>1, SessionsAre
  <2> QED BY <2>1, <2>3, <2>4, <2>5, <2>6, <2>7, <2>8, SessionsChange
<1>12. ASSUME IdentityNext, UNCHANGED <<sessions, proof, use>>, NoAnswer PROVE SessionInv'
  BY <1>3, <1>12, SessionsAre
<1> QED BY <1>1, <1>4, <1>7, <1>8, <1>9, <1>10, <1>11, <1>12, OpenHolds DEF SessionNext

(* The other services change the identities and no session.                *)
LEMMA SessionsStay ==
  ASSUME SessionInv,
         SecurityNext \/ UNCHANGED <<beforeVars, keyVaultVars, incidentVars, dispatchVars, afterVars, service>>
  PROVE  SessionInv'
<1>1. CASE SessionNext
  BY <1>1, SessionStep
<1>2. CASE UNCHANGED <<sessions, proof, use, admitted, refused>>
  <2>1. IdentityInv'
    BY IdentitySteps, IdentityStep DEF SessionInv
  <2> QED BY <1>2, <2>1 DEF SessionInv, SessionsSafe, SessionTypeOK, AdmittedInTime,
             RefusedForGood, PerIdentityLimit, IdentityInv, InStep
<1> QED BY <1>1, <1>2 DEF SecurityNext, beforeVars, sessionVars

-----------------------------------------------------------------------------
(* What is granted and decided, while identities change.  Only the two     *)
(* parts that decide allow anything: `allowed' is empty in the others.     *)
RightsHere ==
  /\ RightsTypeOK /\ RightsInv /\ IdentityInv
  /\ allowed # {} => service \in {"rights", "protection"}

LEMMA RightsStart == SecurityInit => RightsHere
<1> SUFFICES ASSUME SecurityInit PROVE RightsHere OBVIOUS
<1>1. RightsInit /\ IdentityInit /\ configured \subseteq Services
  BY DEF SecurityInit, SessionInit, Services
<1>2. Deeds # {}
  <2>1. PICK t \in ResourceTypes, a \in ResourceActions : TRUE
    BY RightsAssumption
  <2>2. [type |-> t, action |-> a] \in Deeds
    BY <2>1 DEF Deeds
  <2> QED BY <2>2
<1>3. Grants # {}
  <2>1. PICK d \in Deeds, s \in GrantScopes : TRUE
    BY <1>2, RightsAssumption
  <2>2. [deed |-> d, scope |-> s] \in Grants
    BY <2>1 DEF Grants
  <2> QED BY <2>2
<1>4. (CHOOSE g \in Grants : TRUE) \in Grants
  BY <1>3
<1>5. PICK none : none = CHOOSE g \in Grants : TRUE
  OBVIOUS
<1>6. perm \in [PermIds -> [state : GrantStates, grant : Grants]]
  <2>1. perm \in [PermIds -> [state : {"absent"}, grant : {none}]] /\ none \in Grants
    BY <1>1, <1>4, <1>5 DEF RightsInit
  <2>2. [state : {"absent"}, grant : {none}] \subseteq [state : GrantStates, grant : Grants]
    BY <2>1 DEF GrantStates
  <2> QED BY <2>1, <2>2
<1>7. /\ roleState \in [Roles -> GrantStates] /\ rolePerms \in [Roles -> SUBSET Grants]
      /\ assignments = <<>> /\ assignments \in Seq(Assignments) /\ Len(assignments) = 0
      /\ given = {} /\ allowed = {} /\ DOMAIN assignments = {}
  BY <1>1 DEF RightsInit, GrantStates
<1>8. RightsTypeOK
  BY <1>1, <1>6, <1>7, RightsAssumption DEF RightsTypeOK
<1>9. RightsInv
  BY <1>7 DEF RightsInv, HeldByOne, AllowedIsBacked
<1> QED BY <1>1, <1>7, <1>8, <1>9, IdentityStarts DEF RightsHere

LEMMA RightsTyped ==
  ASSUME RightsTypeOK, RightsNext \/ Undecided
  PROVE  RightsTypeOK'
<1> USE DEF RightsTypeOK
<1>1. CASE Undecided
  BY <1>1 DEF Undecided, decisionVars
<1>2. ASSUME NEW r \in Roles, CreateRole(r) PROVE RightsTypeOK'
  BY <1>2 DEF CreateRole, RolesOnly, decisionVars, GrantStates
<1>3. ASSUME NEW r \in Roles, NEW to \in GrantStates, MoveRole(r, to) PROVE RightsTypeOK'
  BY <1>3 DEF MoveRole, RolesOnly, decisionVars
<1>4. ASSUME NEW r \in Roles, NEW g \in Grants, AddPermission(r, g) \/ RemovePermission(r, g)
      PROVE RightsTypeOK'
  <2>1. PICK new \in SUBSET Grants : rolePerms' = [rolePerms EXCEPT ![r] = new]
    <3>1. rolePerms[r] \cup {g} \in SUBSET Grants /\ rolePerms[r] \ {g} \in SUBSET Grants
      OBVIOUS
    <3> QED BY <1>4, <3>1 DEF AddPermission, RemovePermission
  <2>2. UNCHANGED roleState /\ RolesOnly
    BY <1>4 DEF AddPermission, RemovePermission
  <2> QED BY <2>1, <2>2 DEF RolesOnly, decisionVars
<1>5. ASSUME NEW i \in Ids, NEW r \in Roles, NEW s \in GrantScopes, Assign(i, r, s) PROVE RightsTypeOK'
  <2>1. PICK new : new = [who |-> i, role |-> r, scope |-> s, state |-> "ACTIVE"]
    OBVIOUS
  <2>2. new \in Assignments /\ assignments' = Append(assignments, new) /\ Len(assignments) < MaxAssignments
    BY <1>5, <2>1 DEF Assign, Assignments, AssignStates
  <2>3. assignments' \in Seq(Assignments) /\ Len(assignments') <= MaxAssignments
    BY <2>2, RightsAssumption
  <2> QED BY <1>5, <2>3 DEF Assign, AssignmentsOnly, decisionVars
<1>6. ASSUME NEW i \in Ids, NEW d \in Deeds, NEW scope, NEW session \in BOOLEAN, NEW answer \in BOOLEAN,
             Authorize(i, d, scope, session, answer)
      PROVE RightsTypeOK'
  <2>1. allowed' \in {{}, {[who |-> i, deed |-> d]}}
    BY <1>6 DEF Authorize
  <2>2. allowed' \subseteq [who : Ids, deed : Deeds]
    BY <2>1
  <2> QED BY <1>6, <2>2 DEF Authorize, decisionVars
<1>7. ASSUME NEW k \in DOMAIN assignments, NEW to \in AssignStates, MoveAssignment(k, to) PROVE RightsTypeOK'
  <2>1. PICK new : new = [assignments[k] EXCEPT !.state = to]
    OBVIOUS
  <2>2. assignments[k] \in Assignments
    OBVIOUS
  <2>3. new \in Assignments /\ assignments' = [assignments EXCEPT ![k] = new]
    BY <1>7, <2>1, <2>2 DEF MoveAssignment, Assignments
  <2>4. assignments' \in Seq(Assignments) /\ Len(assignments') = Len(assignments)
    BY <2>3
  <2> QED BY <1>7, <2>4 DEF MoveAssignment, AssignmentsOnly, decisionVars
<1>8. ASSUME NEW p \in PermIds, NEW g \in Grants, CreatePerm(p, g) PROVE RightsTypeOK'
  BY <1>8 DEF CreatePerm, PermsOnly, decisionVars, GrantStates
<1>9. ASSUME NEW p \in PermIds, NEW to \in GrantStates, MovePerm(p, to) PROVE RightsTypeOK'
  BY <1>9 DEF MovePerm, PermsOnly, decisionVars
<1>10. ASSUME NEW type, NEW ref, NEW s, Protect(type, ref, s) PROVE RightsTypeOK'
  BY <1>10 DEF Protect, PermsOnly, decisionVars
<1>11. ASSUME NEW v, RegisterPolicy(v) \/ UnregisterPolicy(v) PROVE RightsTypeOK'
  BY <1>11 DEF RegisterPolicy, UnregisterPolicy, DecisionOnly
<1>12. ASSUME NEW s \in Services, SetService(s) PROVE RightsTypeOK'
  BY <1>12 DEF SetService, DecisionOnly
<1> HIDE DEF RightsTypeOK
<1> QED BY <1>1, <1>2, <1>3, <1>4, <1>5, <1>6, <1>7, <1>8, <1>9, <1>10, <1>11, <1>12 DEF RightsNext

LEMMA RightsStay ==
  ASSUME RightsHere,
         SecurityNext \/ UNCHANGED <<beforeVars, keyVaultVars, incidentVars, dispatchVars, afterVars, service>>
  PROVE  RightsHere'
<1>1. IdentityInv'
  BY IdentitySteps, IdentityStep DEF RightsHere
(* The other services, which decide nothing.                               *)
<1>2. CASE UNCHANGED <<rightsVars, service>> /\ (allowed = {} \/ UNCHANGED identityVars)
  <2>1. UNCHANGED <<roleState, rolePerms, assignments, perm, protected, policy, configured, given, allowed,
                    service>>
    BY <1>2 DEF rightsVars, decisionVars
  <2>2. RightsTypeOK' /\ HeldByOne'
    BY <2>1 DEF RightsHere, RightsTypeOK, RightsInv, HeldByOne
  <2>3. AllowedIsBacked'
    BY <1>2, <2>1 DEF RightsHere, RightsInv, AllowedIsBacked, Holds, identityVars
  <2> QED BY <1>1, <2>1, <2>2, <2>3 DEF RightsHere, RightsInv
<1>3. CASE RightsPart /\ service \in {"rights", "protection"} /\ UNCHANGED service
  <2>1. \/ RightsNext /\ UNCHANGED identityVars
        \/ AroundRights
    BY <1>3, ClaimantsChange DEF RightsPart, AroundRights
  <2>2. RightsTypeOK'
    BY <2>1, RightsTyped DEF RightsHere, AroundRights
  <2>3. (assignments \in Seq(Assignments) /\ HeldByOne)'
    BY <2>1, HeldByOneKept DEF RightsHere
  <2>4. ASSUME allowed' = {} PROVE AllowedIsBacked'
    BY <2>4 DEF AllowedIsBacked
  <2>5. ASSUME UNCHANGED identityVars, NEW i \in Ids, NEW d \in Deeds, NEW scope \in AskedScopes,
               NEW session \in BOOLEAN, NEW answer \in BOOLEAN, Authorize(i, d, scope, session, answer)
        PROVE AllowedIsBacked'
    BY <2>5, DecisionIsBacked DEF RightsHere, RightsInv
  <2>6. AllowedIsBacked'
    BY <2>1, <2>4, <2>5 DEF RightsNext, AroundRights, Undecided, RolesOnly, AssignmentsOnly, PermsOnly,
       DecisionOnly, CreateRole, MoveRole, AddPermission, RemovePermission, Assign, MoveAssignment,
       CreatePerm, MovePerm, Protect, RegisterPolicy, UnregisterPolicy, SetService
  <2> QED BY <1>1, <1>3, <2>2, <2>3, <2>6 DEF RightsHere, RightsInv
<1>4. CASE UNCHANGED <<beforeVars, keyVaultVars, incidentVars, dispatchVars, afterVars, service>>
  BY <1>2, <1>4 DEF beforeVars, sessionVars, afterVars
<1>5. CASE SecurityNext
  <2>1. UNCHANGED service
    BY <1>5 DEF SecurityNext
  <2>2. CASE service \in {"rights", "protection"}
    BY <1>3, <1>5, <2>1, <2>2 DEF SecurityNext
  <2>3. CASE service \notin {"rights", "protection"}
    BY <1>2, <1>5, <2>1, <2>3 DEF SecurityNext, afterVars, RightsHere
  <2> QED BY <2>2, <2>3
<1> QED BY <1>4, <1>5

-----------------------------------------------------------------------------
(* Attempts.  How many failures were counted in a stretch, summed one unit *)
(* of time after the other.                                                *)
Counts == [0..(MissWindow - 1) -> Nat]
Adds(by, f) == f = [a \in 0..MissWindow |-> IF a = 0 THEN 0 ELSE f[a - 1] + by[a - 1]]
Total(by, n) == (CHOOSE f : Adds(by, f))[n]
SumsTo(by, f, n) ==
  f \in [0..n -> Nat] /\ f[0] = 0 /\ \A a \in 1..n : f[a] = f[a - 1] + by[a - 1]

LEMMA SumsExist ==
  ASSUME NEW by \in Counts
  PROVE  \E f : SumsTo(by, f, MissWindow)
<1>0. MissWindow \in Nat /\ \A a \in 0..(MissWindow - 1) : by[a] \in Nat
  BY AttemptAssumption DEF Counts
<1> DEFINE Short == {n \in 0..MissWindow : ~ \E f : SumsTo(by, f, n)}
<1>1. ASSUME Short # {} PROVE FALSE
  <2>1. Short \in SUBSET Nat
    BY <1>0
  <2>2. PICK n \in Short : \A m \in Short : n <= m
    BY <1>1, <2>1, HasLeast
  <2>3. n # 0
    <3> DEFINE f == [m \in 0..0 |-> 0]
    <3>1. SumsTo(by, f, 0)
      BY DEF SumsTo
    <3> HIDE DEF f
    <3> QED BY <2>2, <3>1
  <2>4. /\ n \in Nat /\ n \in 1..MissWindow /\ n - 1 \in 0..(MissWindow - 1) /\ n - 1 \in 0..MissWindow
        /\ n - 1 \notin Short /\ \A m \in 0..n : m = n \/ m \in 0..(n - 1)
    BY <1>0, <2>1, <2>2, <2>3
  <2>5. PICK f : SumsTo(by, f, n - 1)
    BY <2>4
  <2>6. f[n - 1] \in Nat /\ by[n - 1] \in Nat
    BY <1>0, <2>4, <2>5 DEF SumsTo
  <2> DEFINE g == [m \in 0..n |-> IF m = n THEN f[n - 1] + by[n - 1] ELSE f[m]]
  <2>7. /\ DOMAIN g = 0..n /\ g[n] = f[n - 1] + by[n - 1]
        /\ \A m \in 0..(n - 1) : g[m] = f[m] /\ f[m] \in Nat
        /\ g = [m \in 0..n |-> g[m]]
    BY <2>4, <2>5 DEF SumsTo
  <2> HIDE DEF g
  <2>8. \A m \in 0..n : g[m] \in Nat
    <3>1. g[n] \in Nat
      BY <2>6, <2>7
    <3> QED BY <2>4, <2>7, <3>1
  <2>9. g[0] = 0
    <3>1. 0 \in 0..(n - 1)
      BY <2>4
    <3> QED BY <2>5, <2>7, <3>1 DEF SumsTo
  <2>10. ASSUME NEW a \in 1..n PROVE g[a] = g[a - 1] + by[a - 1]
    <3>1. CASE a = n
      <4>1. n - 1 \in 0..(n - 1)
        BY <2>4
      <4> QED BY <2>7, <3>1, <4>1
    <3>2. CASE a # n
      <4>1. a \in 1..(n - 1) /\ a \in 0..(n - 1) /\ a - 1 \in 0..(n - 1)
        BY <2>4, <3>2
      <4> QED BY <2>5, <2>7, <4>1 DEF SumsTo
    <3> QED BY <3>1, <3>2
  <2>11. SumsTo(by, g, n)
    BY <2>7, <2>8, <2>9, <2>10 DEF SumsTo
  <2> QED BY <2>2, <2>11
<1>2. MissWindow \in 0..MissWindow /\ MissWindow \notin Short
  BY <1>0, <1>1
<1> QED BY <1>2

LEMMA TotalIs ==
  ASSUME NEW by \in Counts
  PROVE  /\ Counted(by) = Total(by, MissWindow) /\ Total(by, 0) = 0
         /\ \A n \in 0..MissWindow : Total(by, n) \in Nat
         /\ \A n \in 0..(MissWindow - 1) : Total(by, n + 1) = Total(by, n) + by[n]
<1>1. MissWindow \in Nat /\ \A a \in 0..(MissWindow - 1) : by[a] \in Nat
  BY AttemptAssumption DEF Counts
<1>2. PICK g : SumsTo(by, g, MissWindow)
  BY SumsExist
<1>3. Adds(by, g)
  <2>1. g = [a \in 0..MissWindow |-> g[a]]
    BY <1>2 DEF SumsTo
  <2>2. \A a \in 0..MissWindow : g[a] = IF a = 0 THEN 0 ELSE g[a - 1] + by[a - 1]
    BY <1>1, <1>2 DEF SumsTo
  <2> QED BY <2>1, <2>2 DEF Adds
<1>4. PICK f : f = CHOOSE h : Adds(by, h)
  OBVIOUS
<1>5. Adds(by, f) /\ \A n : Total(by, n) = f[n]
  BY <1>3, <1>4 DEF Total
<1>6. \A a \in 0..MissWindow : f[a] = IF a = 0 THEN 0 ELSE f[a - 1] + by[a - 1]
  BY <1>5 DEF Adds
<1>7. f[0] = 0 /\ \A n \in 0..(MissWindow - 1) : f[n + 1] = f[n] + by[n]
  <2>1. 0 \in 0..MissWindow /\ \A n \in 0..(MissWindow - 1) : n + 1 \in 0..MissWindow /\ n + 1 # 0 /\ (n + 1) - 1 = n
    BY <1>1
  <2> QED BY <1>6, <2>1
<1>8. \A n \in 0..MissWindow : f[n] \in Nat
  <2> DEFINE Wrong == {n \in 0..MissWindow : f[n] \notin Nat}
  <2>1. ASSUME Wrong # {} PROVE FALSE
    <3>1. Wrong \in SUBSET Nat
      BY <1>1
    <3>2. PICK n \in Wrong : \A m \in Wrong : n <= m
      BY <2>1, <3>1, HasLeast
    <3>3. n # 0 /\ n \in Nat
      BY <1>7, <3>1, <3>2
    <3>4. n - 1 \in 0..(MissWindow - 1) /\ n - 1 \in 0..MissWindow /\ n - 1 \notin Wrong /\ (n - 1) + 1 = n
      BY <1>1, <3>2, <3>3
    <3>5. f[n - 1] \in Nat /\ by[n - 1] \in Nat /\ f[n] = f[n - 1] + by[n - 1]
      BY <1>1, <1>7, <3>4
    <3> QED BY <3>2, <3>5
  <2> QED BY <2>1
<1>9. Counted(by) = f[MissWindow]
  BY <1>4 DEF Counted, Adds
<1> QED BY <1>5, <1>7, <1>8, <1>9

(* What sums as another one does from some unit of time on.                *)
AlikeFrom(by, new, d, from, more) ==
  /\ by \in Counts /\ new \in Counts /\ d \in Nat /\ from \in 0..MissWindow /\ more \in Nat
  /\ Total(new, from + d) = Total(by, from) + more
  /\ \A a \in 0..(MissWindow - 1) : a >= from /\ a + d < MissWindow => new[a + d] = by[a]

LEMMA SumsAlike ==
  ASSUME NEW by, NEW new, NEW d, NEW from, NEW more, AlikeFrom(by, new, d, from, more),
         NEW upto \in 0..MissWindow, upto + d <= MissWindow, from <= upto
  PROVE  Total(new, upto + d) = Total(by, upto) + more
<1> USE DEF AlikeFrom
<1>0. MissWindow \in Nat
  BY AttemptAssumption
<1>1. PICK f : \A n \in 0..MissWindow : f[n] = Total(by, n) /\ f[n] \in Nat
  <2> DEFINE f == [n \in 0..MissWindow |-> Total(by, n)]
  <2>1. \A n \in 0..MissWindow : f[n] = Total(by, n) /\ f[n] \in Nat
    BY TotalIs
  <2> HIDE DEF f
  <2> QED BY <2>1
<1>2. PICK g : \A n \in 0..MissWindow : g[n] = Total(new, n) /\ g[n] \in Nat
  <2> DEFINE g == [n \in 0..MissWindow |-> Total(new, n)]
  <2>1. \A n \in 0..MissWindow : g[n] = Total(new, n) /\ g[n] \in Nat
    BY TotalIs
  <2> HIDE DEF g
  <2> QED BY <2>1
<1>3. \A n \in 0..(MissWindow - 1) : n + 1 \in 0..MissWindow /\ n \in 0..MissWindow
  BY <1>0
<1>4. \A n \in 0..(MissWindow - 1) : f[n + 1] = f[n] + by[n] /\ g[n + 1] = g[n] + new[n]
  <2>1. ASSUME NEW n \in 0..(MissWindow - 1) PROVE f[n + 1] = f[n] + by[n] /\ g[n + 1] = g[n] + new[n]
    <3>1. Total(by, n + 1) = Total(by, n) + by[n] /\ Total(new, n + 1) = Total(new, n) + new[n]
      BY TotalIs
    <3>2. n + 1 \in 0..MissWindow /\ n \in 0..MissWindow
      BY <1>3
    <3> QED BY <1>1, <1>2, <3>1, <3>2
  <2> QED BY <2>1
<1> DEFINE Wrong == {n \in 0..MissWindow : from <= n /\ n + d <= MissWindow /\ g[n + d] # f[n] + more}
<1>5. ASSUME Wrong # {} PROVE FALSE
  <2>1. Wrong \in SUBSET Nat
    BY <1>0
  <2>2. PICK n \in Wrong : \A m \in Wrong : n <= m
    BY <1>5, <2>1, HasLeast
  <2>3. n # from
    <3>1. from + d \in 0..MissWindow
      BY <1>0
    <3> QED BY <1>1, <1>2, <2>2, <3>1
  <2>4. /\ n \in Nat /\ from <= n - 1 /\ n - 1 \in 0..(MissWindow - 1) /\ n - 1 \in 0..MissWindow
        /\ (n - 1) + d \in 0..(MissWindow - 1) /\ (n - 1) + d < MissWindow /\ n - 1 \notin Wrong
        /\ n + d \in 0..MissWindow
    BY <1>0, <2>1, <2>2, <2>3
  <2>5. g[(n - 1) + d] = f[n - 1] + more
    BY <1>0, <2>4
  <2>6. f[(n - 1) + 1] = f[n - 1] + by[n - 1] /\ g[((n - 1) + d) + 1] = g[(n - 1) + d] + new[(n - 1) + d]
    BY <1>4, <2>4
  <2>7. new[(n - 1) + d] = by[n - 1] /\ by[n - 1] \in Nat
    BY <2>4 DEF Counts
  <2>8. f[n - 1] \in Nat /\ (n - 1) + 1 = n /\ ((n - 1) + d) + 1 = n + d
    BY <1>1, <2>4
  <2>9. g[n + d] = f[n] + more
    BY <2>5, <2>6, <2>7, <2>8
  <2> QED BY <2>2, <2>9
<1>6. upto + d \in 0..MissWindow
  BY <1>0
<1>7. g[upto + d] = f[upto] + more
  BY <1>5, <1>6
<1> QED BY <1>1, <1>2, <1>6, <1>7

LEMMA SumsShift ==
  ASSUME NEW by \in Counts, NEW new, new = [a \in DOMAIN NoMisses |-> IF a = 0 THEN 0 ELSE by[a - 1]]
  PROVE  /\ new \in Counts /\ new[0] = 0
         /\ \A a \in 0..(MissWindow - 1) : a + 1 < MissWindow => new[a + 1] = by[a]
         /\ \A n \in 0..(MissWindow - 1) : Total(new, n + 1) = Total(by, n)
<1>1. MissWindow \in Nat /\ MissWindow >= 1 /\ 0 \in 0..(MissWindow - 1) /\ 0 \in 0..MissWindow
      /\ DOMAIN NoMisses = 0..(MissWindow - 1)
  BY AttemptAssumption DEF NoMisses
<1>2. new[0] = 0 /\ \A a \in 0..(MissWindow - 1) : a + 1 < MissWindow => new[a + 1] = by[a]
  <2>1. \A a \in 0..(MissWindow - 1) : a + 1 < MissWindow =>
          a + 1 \in 0..(MissWindow - 1) /\ a + 1 # 0 /\ (a + 1) - 1 = a
    BY <1>1
  <2> QED BY <1>1, <2>1
<1>3. new \in Counts
  <2>1. \A a \in 0..(MissWindow - 1) : a # 0 => a - 1 \in 0..(MissWindow - 1)
    BY <1>1
  <2>2. \A a \in 0..(MissWindow - 1) : new[a] \in Nat
    BY <1>1, <2>1 DEF Counts
  <2> QED BY <1>1, <2>2 DEF Counts
<1>4. Total(new, 0 + 1) = Total(by, 0) + 0
  <2>1. Total(new, 0 + 1) = Total(new, 0) + new[0] /\ Total(new, 0) = 0 /\ Total(by, 0) = 0
    BY <1>1, <1>3, TotalIs
  <2> QED BY <1>2, <2>1
<1>5. ASSUME NEW n \in 0..(MissWindow - 1) PROVE Total(new, n + 1) = Total(by, n)
  <2>1. n \in 0..MissWindow /\ n + 1 <= MissWindow /\ 0 <= n
    BY <1>1
  <2>2. Total(new, n + 1) = Total(by, n) + 0
    <3>1. AlikeFrom(by, new, 1, 0, 0)
      BY <1>1, <1>2, <1>3, <1>4 DEF AlikeFrom
    <3> QED BY <2>1, <3>1, SumsAlike
  <2>3. Total(by, n) \in Nat
    BY <2>1, TotalIs
  <2> QED BY <2>2, <2>3
<1> QED BY <1>2, <1>3, <1>5

OneMore(m) == [m EXCEPT ![0] = @ + 1]

LEMMA SumsMore ==
  ASSUME NEW by \in Counts
  PROVE  /\ OneMore(by) \in Counts /\ OneMore(by)[0] = by[0] + 1
         /\ \A a \in 0..(MissWindow - 1) : a # 0 => OneMore(by)[a] = by[a]
         /\ \A n \in 1..MissWindow : Total(OneMore(by), n) = Total(by, n) + 1
<1>0. PICK new : new = OneMore(by)
  OBVIOUS
<1>1. MissWindow \in Nat /\ MissWindow >= 1 /\ 0 \in 0..(MissWindow - 1) /\ 1 \in 0..MissWindow
  BY AttemptAssumption
<1>2. new \in Counts /\ new[0] = by[0] + 1 /\ \A a \in 0..(MissWindow - 1) : a # 0 => new[a] = by[a]
  BY <1>0, <1>1 DEF Counts, OneMore
<1>3. Total(new, 1 + 0) = Total(by, 1) + 1
  <2>1. Total(new, 0 + 1) = Total(new, 0) + new[0] /\ Total(new, 0) = 0
    BY <1>1, <1>2, TotalIs
  <2>2. Total(by, 0 + 1) = Total(by, 0) + by[0] /\ Total(by, 0) = 0 /\ by[0] \in Nat
    BY <1>1, TotalIs DEF Counts
  <2> QED BY <1>2, <2>1, <2>2
<1>4. \A a \in 0..(MissWindow - 1) : a >= 1 /\ a + 0 < MissWindow => new[a + 0] = by[a]
  BY <1>2
<1>5. ASSUME NEW n \in 1..MissWindow PROVE Total(new, n) = Total(by, n) + 1
  <2>1. n \in 0..MissWindow /\ n + 0 <= MissWindow /\ 1 <= n /\ n + 0 = n
    BY <1>1
  <2>2. Total(new, n + 0) = Total(by, n) + 1
    <3>1. AlikeFrom(by, new, 0, 1, 1)
      BY <1>1, <1>2, <1>3, <1>4 DEF AlikeFrom
    <3> QED BY <2>1, <3>1, SumsAlike
  <2> QED BY <2>1, <2>2
<1> QED BY <1>0, <1>2, <1>5

Clean(m) == \A a \in 0..(MissWindow - 1) : m[a] = 0

LEMMA SumsNone ==
  ASSUME NEW by \in Counts, Clean(by)
  PROVE  Total(by, MissWindow) = 0
<1>1. MissWindow \in Nat /\ MissWindow \in 0..MissWindow
  BY AttemptAssumption
<1> DEFINE Wrong == {n \in 0..MissWindow : Total(by, n) # 0}
<1>2. ASSUME Wrong # {} PROVE FALSE
  <2>1. Wrong \in SUBSET Nat
    BY <1>1
  <2>2. PICK n \in Wrong : \A m \in Wrong : n <= m
    BY <1>2, <2>1, HasLeast
  <2>3. n # 0
    BY <2>2, TotalIs
  <2>4. n - 1 \in 0..(MissWindow - 1) /\ n - 1 \in 0..MissWindow /\ n - 1 \notin Wrong /\ (n - 1) + 1 = n
    BY <1>1, <2>1, <2>2, <2>3
  <2>5. Total(by, n - 1) = 0 /\ by[n - 1] = 0 /\ Total(by, (n - 1) + 1) = Total(by, n - 1) + by[n - 1]
    BY <2>4, TotalIs DEF Clean
  <2>6. Total(by, n) = 0
    BY <2>4, <2>5
  <2> QED BY <2>2, <2>6
<1> QED BY <1>1, <1>2

(* The failures behind an entry.  While a block is served none is added,   *)
(* so that they have left the stretch when it ends.  While a window is     *)
(* open it accounts for those since its start, and the older ones belong   *)
(* to a window whose first failure has left the stretch.  When it has      *)
(* passed, its first failure has left the stretch.                         *)
Serving(e, m) ==
  Total(m, MissWindow) <= RateLimit /\ \A a \in 0..(MissWindow - 1) : a < BlockTime - e.block => m[a] = 0
Counting(e, m) ==
  /\ m[e.start] >= 1 /\ Total(m, e.start + 1) <= e.count
  /\ Total(m, MissWindow) - Total(m, e.start + 1) <= MaxMisses - 2
Lapsed(e, m) ==
  /\ Total(m, MissWindow) <= e.count - 1
  /\ \A a \in 0..(MissWindow - 1) : a <= e.start - MissWindow => m[a] = 0
Tally(e, m) ==
  /\ e.state = "BLOCKED" => Serving(e, m)
  /\ e.state # "BLOCKED" /\ e.count = 0 => Clean(m)
  /\ e.state # "BLOCKED" /\ e.count > 0 /\ e.start < MissWindow => Counting(e, m)
  /\ e.state # "BLOCKED" /\ e.count > 0 /\ e.start >= MissWindow => Lapsed(e, m)

(* What holds of every entry: it is blocked exactly when it has counted as *)
(* many failures as it may, and knows when its window began.               *)
SoundEntry(e) ==
  /\ e \in Attempt /\ (e.state = "BLOCKED" <=> e.count = MaxMisses)
  /\ e.state = "BLOCKED" => e.used
  /\ e.count > 0 => e.start >= 0

LEMMA AttemptNumbers ==
  /\ MissWindow \in Nat /\ MissWindow >= 1 /\ BlockTime \in Nat /\ BlockTime >= 1
  /\ MaxMisses \in Nat /\ MaxMisses >= 1 /\ CleanupInterval \in Nat /\ MaxTracked \in Nat /\ MaxTrying \in Nat
  /\ LongAgo \in Nat /\ LongAgo >= 2 * MissWindow + 1
  /\ RateLimit \in Nat /\ RateLimit >= MaxMisses - 1 /\ (MaxMisses >= 2 => RateLimit = 2 * (MaxMisses - 1))
  /\ (MaxMisses = 1 => RateLimit = 1)
<1>1. DelayAfter[MaxMisses] \in Nat
  BY AttemptAssumption
<1> QED BY <1>1, AttemptAssumption DEF LongAgo, RateLimit

(* The longest delay is the last one.                                      *)
LEMMA DelaysGrow ==
  ASSUME NEW n \in 0..MaxMisses
  PROVE  DelayAfter[n] \in 0..DelayAfter[MaxMisses]
<1>1. MaxMisses \in Nat /\ \A c \in 0..MaxMisses : DelayAfter[c] \in Nat
  BY AttemptAssumption
<1> DEFINE Wrong == {d \in 0..MaxMisses : DelayAfter[MaxMisses - d] > DelayAfter[MaxMisses]}
<1>2. ASSUME Wrong # {} PROVE FALSE
  <2>1. Wrong \in SUBSET Nat
    BY <1>1
  <2>2. PICK d \in Wrong : \A m \in Wrong : d <= m
    BY <1>2, <2>1, HasLeast
  <2>3. d # 0 /\ d \in Nat /\ d <= MaxMisses
    <3>1. CASE d = 0
      <4>1. MaxMisses - d = MaxMisses /\ MaxMisses \in 0..MaxMisses
        BY <1>1, <3>1
      <4> QED BY <1>1, <2>2, <4>1
    <3> QED BY <1>1, <2>2, <3>1
  <2>4. PICK c : c = MaxMisses - (d - 1)
    OBVIOUS
  <2>5. c \in 1..MaxMisses /\ c \in 0..MaxMisses /\ c - 1 = MaxMisses - d /\ c - 1 \in 0..MaxMisses
        /\ d - 1 \in 0..MaxMisses /\ d - 1 \notin Wrong
    BY <1>1, <2>2, <2>3, <2>4
  <2>6. ~(DelayAfter[c] > DelayAfter[MaxMisses])
    BY <2>4, <2>5
  <2>7. DelayAfter[c - 1] <= DelayAfter[c]
    BY <2>5, AttemptAssumption
  <2>8. MaxMisses \in 0..MaxMisses
    BY <1>1
  <2>9. DelayAfter[c - 1] > DelayAfter[MaxMisses]
    BY <2>2, <2>5
  <2> QED BY <1>1, <2>5, <2>6, <2>7, <2>8, <2>9
<1>3. PICK d \in 0..MaxMisses : MaxMisses - d = n
  <2>1. MaxMisses - n \in 0..MaxMisses /\ MaxMisses - (MaxMisses - n) = n
    BY <1>1
  <2> QED BY <2>1
<1>4. ~(DelayAfter[n] > DelayAfter[MaxMisses])
  BY <1>2, <1>3
<1>5. MaxMisses \in 0..MaxMisses
  BY <1>1
<1> QED BY <1>1, <1>4, <1>5

(* What a check, and the cleanup before it, make of an entry: a block that *)
(* was served is lifted, and what counts nothing is wiped.                 *)
Eased(e, n) ==
  /\ SoundEntry(n) /\ n.name = e.name /\ n.start = e.start
  /\ \/ /\ n.used = e.used /\ n.count = e.count /\ n.block = e.block
        /\ n.state = "BLOCKED" <=> e.state = "BLOCKED"
     \/ n.used = e.used /\ e.state = "BLOCKED" /\ e.block = 0 /\ n.state # "BLOCKED" /\ n.count = 0
     \/ ~n.used /\ e.used /\ e.state # "BLOCKED" /\ e.count = 0 /\ n.state # "BLOCKED"

LEMMA CheckedIs ==
  ASSUME NEW e, SoundEntry(e)
  PROVE  /\ Eased(e, Checked(e)) /\ Checked(e).used = e.used
         /\ e.state = "BLOCKED" /\ e.block > 0 => Checked(e) = e
<1>1. e \in Attempt /\ (e.state = "BLOCKED" <=> e.count = MaxMisses) /\ (e.state = "BLOCKED" => e.used)
      /\ (e.count > 0 => e.start >= 0)
  BY DEF SoundEntry
<1>2. 0 \in 0..MaxMisses /\ 0 # MaxMisses /\ 0 \in 0..DelayAfter[MaxMisses]
  <2>1. DelayAfter[MaxMisses] \in Nat
    BY AttemptAssumption
  <2> QED BY <2>1, AttemptNumbers
<1>3. PICK u : u = Unblocked(e)
  OBVIOUS
<1>4. /\ Eased(e, u) /\ u.used = e.used
      /\ u.state = "BLOCKED" => u.block > 0
      /\ e.state = "BLOCKED" /\ e.block > 0 => u = e
  <2>1. CASE e.state = "BLOCKED" /\ e.block = 0
    <3>1. u = [e EXCEPT !.state = "READY", !.count = 0, !.delay = 0]
      BY <1>3, <2>1 DEF Unblocked
    <3>2. u \in Attempt /\ u.state = "READY" /\ u.count = 0 /\ u.used = e.used /\ u.name = e.name /\ u.start = e.start
      BY <1>1, <1>2, <3>1 DEF Attempt
    <3> QED BY <1>1, <1>2, <2>1, <3>2 DEF Eased, SoundEntry
  <2>2. CASE ~(e.state = "BLOCKED" /\ e.block = 0)
    <3>1. u = e
      BY <1>3, <2>2 DEF Unblocked
    <3>2. e.block \in Nat
      BY <1>1, AttemptNumbers DEF Attempt
    <3> QED BY <2>2, <3>1, <3>2 DEF Eased
  <2> QED BY <2>1, <2>2
<1>5. u \in Attempt /\ (u.state = "BLOCKED" <=> u.count = MaxMisses) /\ (u.state = "BLOCKED" => u.used)
      /\ (u.count > 0 => u.start >= 0)
  BY <1>4 DEF Eased, SoundEntry
(* From here on only the state, unless it is a block, and the delay move.  *)
<1>6. ASSUME NEW n, NEW state \in {"READY", "THROTTLED"}, NEW delay \in 0..DelayAfter[MaxMisses],
             u.state # "BLOCKED", n = [u EXCEPT !.state = state, !.delay = delay]
      PROVE  n \in Attempt /\ Eased(e, n) /\ n.used = e.used /\ n.count = u.count /\ n.state = state
  <2>1. /\ n \in Attempt /\ n.state = state /\ n.count = u.count /\ n.used = u.used /\ n.name = u.name
        /\ n.start = u.start /\ n.block = u.block
    BY <1>5, <1>6 DEF Attempt
  <2>2. SoundEntry(n)
    BY <1>5, <1>6, <2>1 DEF SoundEntry
  <2> QED BY <1>4, <1>6, <2>1, <2>2 DEF Eased
<1>7. PICK r : r = Relieved(e)
  OBVIOUS
<1>8. CASE u.state = "BLOCKED"
  <2>1. r = u
    BY <1>3, <1>7, <1>8 DEF Relieved, Undelayed
  <2>2. Checked(e) = u
    BY <1>7, <1>8, <2>1 DEF Checked
  <2> QED BY <1>4, <2>2
<1>9. CASE u.state # "BLOCKED"
  <2>0. u.state \in {"READY", "THROTTLED"} /\ u.delay \in 0..DelayAfter[MaxMisses]
    BY <1>5, <1>9 DEF Attempt
  <2>1. r = [u EXCEPT !.state = r.state, !.delay = r.delay] /\ r.state \in {"READY", "THROTTLED"}
        /\ r.delay \in 0..DelayAfter[MaxMisses]
    <3>1. CASE u.state = "THROTTLED" /\ u.last >= u.delay
      <4>1. r = [u EXCEPT !.state = "READY", !.delay = 0]
        BY <1>3, <1>7, <3>1 DEF Relieved, Undelayed
      <4> QED BY <1>2, <1>5, <4>1 DEF Attempt
    <3>2. CASE ~(u.state = "THROTTLED" /\ u.last >= u.delay)
      <4>1. r = u
        BY <1>3, <1>7, <3>2 DEF Relieved, Undelayed
      <4> QED BY <1>5, <2>0, <4>1 DEF Attempt
    <3> QED BY <3>1, <3>2
  <2>2. r \in Attempt /\ Eased(e, r) /\ r.used = e.used /\ r.count = u.count
    BY <1>6, <1>9, <2>1
  <2>3. r.count \in Nat /\ r.count < MaxMisses
    BY <1>5, <1>9, <2>2, AttemptNumbers DEF Attempt
  <2>4. Checked(e) \in {r, [r EXCEPT !.state = "THROTTLED"]}
    BY <1>7, <2>3, AttemptNumbers DEF Checked
  <2>5. PICK n : n = [r EXCEPT !.state = "THROTTLED"]
    OBVIOUS
  <2>6. n = [u EXCEPT !.state = "THROTTLED", !.delay = r.delay]
    BY <2>1, <2>5, <1>5 DEF Attempt
  <2>7. Eased(e, n) /\ n.used = e.used
    BY <1>6, <1>9, <2>1, <2>6
  <2> QED BY <1>4, <1>9, <2>2, <2>4, <2>5, <2>7
<1> QED BY <1>8, <1>9

LEMMA WipedIs ==
  ASSUME NEW e, SoundEntry(e)
  PROVE  Eased(e, Wiped(e)) /\ (e.state = "BLOCKED" => Wiped(e) = e)
<1>1. e \in Attempt /\ (e.state = "BLOCKED" <=> e.count = MaxMisses) /\ (e.state = "BLOCKED" => e.used)
      /\ (e.count > 0 => e.start >= 0)
  BY DEF SoundEntry
<1>2. CASE Wiped(e) = e
  BY <1>2 DEF Eased
<1>3. CASE Wiped(e) # e
  <2>1. Wiped(e) = [e EXCEPT !.used = FALSE] /\ e.used /\ e.state = "READY" /\ e.count = 0
    BY <1>3 DEF Wiped
  <2>2. PICK n : n = [e EXCEPT !.used = FALSE]
    OBVIOUS
  <2>3. n \in Attempt /\ ~n.used /\ n.name = e.name /\ n.start = e.start /\ n.state = e.state /\ n.count = e.count
    BY <1>1, <2>2 DEF Attempt
  <2>4. SoundEntry(n)
    BY <1>1, <2>1, <2>3 DEF SoundEntry
  <2> QED BY <2>1, <2>2, <2>3, <2>4 DEF Eased
<1> QED BY <1>2, <1>3

(* An entry of another state or name, and the table a check leaves.        *)
LEMMA CheckedTableIs ==
  ASSUME NEW i, \A k \in DOMAIN attempts : SoundEntry(attempts[k])
  PROVE  /\ CheckedTable(i) = [k \in DOMAIN attempts |-> CheckedTable(i)[k]]
         /\ \A k \in DOMAIN attempts :
              /\ Eased(attempts[k], CheckedTable(i)[k])
              /\ attempts[k].state = "BLOCKED" /\ attempts[k].block > 0 =>
                   CheckedTable(i)[k] = attempts[k] /\ (attempts[k].name = i => ~AllowedNow(i))
              /\ AllowedNow(i) /\ attempts[k].name = i => CheckedTable(i)[k].state # "BLOCKED"
<1> SUFFICES ASSUME NEW k \in DOMAIN attempts
             PROVE  /\ Eased(attempts[k], CheckedTable(i)[k])
                    /\ attempts[k].state = "BLOCKED" /\ attempts[k].block > 0 =>
                         CheckedTable(i)[k] = attempts[k] /\ (attempts[k].name = i => ~AllowedNow(i))
                    /\ AllowedNow(i) /\ attempts[k].name = i => CheckedTable(i)[k].state # "BLOCKED"
  BY DEF CheckedTable
<1>1. PICK e : e = attempts[k]
  OBVIOUS
<1>2. PICK w : w = CleanedUp(attempts)[k]
  OBVIOUS
<1>3. SoundEntry(e) /\ w \in {e, Wiped(e)}
  BY <1>1, <1>2 DEF CleanedUp
<1>4. Eased(e, e)
  BY <1>3 DEF Eased
<1>5. Eased(e, w) /\ (e.state = "BLOCKED" => w = e) /\ SoundEntry(w)
  BY <1>3, <1>4, WipedIs DEF Eased
<1>6. CheckedTable(i)[k] = IF Of(w, i) THEN Checked(w) ELSE w
  BY <1>2 DEF CheckedTable
<1>7. CASE ~Of(w, i)
  <2>1. CheckedTable(i)[k] = w
    BY <1>6, <1>7
  <2>2. e.state = "BLOCKED" => e.used /\ e.name # i
    BY <1>3, <1>5, <1>7 DEF Of, SoundEntry
  <2>3. e.name = i => w.state # "BLOCKED"
    BY <1>5, <1>7 DEF Of, Eased, SoundEntry
  <2> QED BY <1>1, <1>5, <2>1, <2>2, <2>3
<1>8. CASE Of(w, i)
  <2>1. CheckedTable(i)[k] = Checked(w)
    BY <1>6, <1>8
  <2>2. Eased(w, Checked(w)) /\ Checked(w).used = w.used /\ w.used
        /\ (w.state = "BLOCKED" /\ w.block > 0 => Checked(w) = w)
    BY <1>5, <1>8, CheckedIs DEF Of
  <2>3. Eased(e, Checked(w))
    <3>1. CASE w = e
      BY <2>2, <3>1
    <3>2. CASE w # e
      BY <1>3, <1>8, <3>2 DEF Wiped, Of, SoundEntry, Attempt
    <3> QED BY <3>1, <3>2
  <2>4. AllowedNow(i) => Checked(w).state = "READY"
    BY <1>2, <1>8 DEF AllowedNow, Allowed
  <2> QED BY <1>1, <1>5, <2>1, <2>2, <2>3, <2>4
<1> QED BY <1>7, <1>8

LEMMA EasedTally ==
  ASSUME BlockTime >= MissWindow, NEW e, SoundEntry(e), NEW n, Eased(e, n), NEW m, Tally(e, m)
  PROVE  /\ n.used => Tally(n, m)
         /\ e.used /\ ~n.used => Clean(m)
<1>1. CASE /\ n.used = e.used /\ n.count = e.count /\ n.block = e.block
           /\ n.state = "BLOCKED" <=> e.state = "BLOCKED"
  <2>1. n.start = e.start
    BY DEF Eased
  <2>2. /\ Serving(n, m) <=> Serving(e, m)
        /\ Counting(n, m) <=> Counting(e, m)
        /\ Lapsed(n, m) <=> Lapsed(e, m)
    BY <1>1, <2>1 DEF Serving, Counting, Lapsed
  <2> QED BY <1>1, <2>1, <2>2 DEF Tally
<1>2. CASE n.used = e.used /\ e.state = "BLOCKED" /\ e.block = 0 /\ n.state # "BLOCKED" /\ n.count = 0
  <2>1. Clean(m)
    BY <1>2, AttemptNumbers DEF Tally, Serving, Clean
  <2> QED BY <1>2, <2>1 DEF Tally
<1>3. CASE ~n.used /\ e.used /\ e.state # "BLOCKED" /\ e.count = 0 /\ n.state # "BLOCKED"
  BY <1>3 DEF Tally
<1> QED BY <1>1, <1>2, <1>3 DEF Eased

LEMMA TallyRate ==
  ASSUME NEW e, SoundEntry(e), NEW m \in Counts, Tally(e, m)
  PROVE  Total(m, MissWindow) <= RateLimit
<1>1. e.count \in 0..MaxMisses /\ e.start \in Past \cup {-1} /\ (e.state = "BLOCKED" <=> e.count = MaxMisses)
      /\ (e.count > 0 => e.start >= 0)
  BY DEF SoundEntry, Attempt
<1>2. CASE e.state = "BLOCKED"
  BY <1>2 DEF Tally, Serving
<1>3. CASE e.state # "BLOCKED" /\ e.count = 0
  BY <1>3, SumsNone, AttemptNumbers DEF Tally
<1>4. CASE e.state # "BLOCKED" /\ e.count # 0
  <2>1. e.count \in 1..(MaxMisses - 1) /\ MaxMisses >= 2 /\ e.start \in Nat
    BY <1>1, <1>4, AttemptNumbers DEF Past
  <2>2. MissWindow \in 0..MissWindow /\ Total(m, MissWindow) \in Nat
    BY TotalIs, AttemptNumbers
  <2>3. CASE e.start < MissWindow
    <3>1. e.start + 1 \in 0..MissWindow
      BY <2>1, <2>3, AttemptNumbers
    <3>2. Total(m, e.start + 1) \in Nat
      BY <3>1, TotalIs
    <3>3. Counting(e, m)
      BY <1>4, <2>1, <2>3 DEF Tally
    <3> QED BY <2>1, <2>2, <3>2, <3>3, AttemptNumbers DEF Counting
  <2>4. CASE e.start >= MissWindow
    <3>1. Lapsed(e, m)
      BY <1>4, <2>1, <2>4 DEF Tally
    <3> QED BY <2>1, <2>2, <3>1, AttemptNumbers DEF Lapsed
  <2> QED BY <2>1, <2>3, <2>4, AttemptNumbers
<1> QED BY <1>2, <1>3, <1>4

(* One unit of time later, the failures and the window are that much       *)
(* older.                                                                  *)
OlderEntry(e) ==
  [e EXCEPT !.last = Later(@), !.start = IF @ = -1 THEN -1 ELSE Later(@),
            !.block = IF @ = 0 THEN 0 ELSE @ - 1]

LEMMA OlderEntryIs ==
  ASSUME NEW e, SoundEntry(e)
  PROVE  /\ SoundEntry(OlderEntry(e)) /\ OlderEntry(e).name = e.name /\ OlderEntry(e).used = e.used
         /\ OlderEntry(e).state = e.state /\ OlderEntry(e).count = e.count
         /\ OlderEntry(e).block = (IF e.block = 0 THEN 0 ELSE e.block - 1)
         /\ OlderEntry(e).start = (IF e.start = -1 THEN -1 ELSE Later(e.start))
<1>1. e \in Attempt /\ (e.state = "BLOCKED" <=> e.count = MaxMisses) /\ (e.state = "BLOCKED" => e.used)
      /\ (e.count > 0 => e.start >= 0)
  BY DEF SoundEntry
<1>2. Later(e.last) \in Past
  BY <1>1, AttemptNumbers DEF Later, Past, Attempt
<1>3. (IF e.start = -1 THEN -1 ELSE Later(e.start)) \in Past \cup {-1} /\ (e.start >= 0 => Later(e.start) >= 0)
  BY <1>1, AttemptNumbers DEF Later, Past, Attempt
<1>4. (IF e.block = 0 THEN 0 ELSE e.block - 1) \in 0..BlockTime
  BY <1>1, AttemptNumbers DEF Attempt
<1>5. PICK n : n = OlderEntry(e)
  OBVIOUS
<1>6. /\ n \in Attempt /\ n.name = e.name /\ n.used = e.used /\ n.state = e.state /\ n.count = e.count
      /\ n.block = (IF e.block = 0 THEN 0 ELSE e.block - 1)
      /\ n.start = (IF e.start = -1 THEN -1 ELSE Later(e.start))
  BY <1>1, <1>2, <1>3, <1>4, <1>5 DEF OlderEntry, Attempt
<1>7. SoundEntry(n)
  BY <1>1, <1>3, <1>6 DEF SoundEntry
<1> QED BY <1>5, <1>6, <1>7

Shifted(m) == [a \in DOMAIN NoMisses |-> IF a = 0 THEN 0 ELSE m[a - 1]]

LEMMA CleanLater ==
  ASSUME NEW m \in Counts, Clean(m)
  PROVE  Clean(Shifted(m))
<1>1. \A a \in 0..(MissWindow - 1) : a # 0 => a - 1 \in 0..(MissWindow - 1)
  BY AttemptNumbers
<1> QED BY <1>1 DEF Clean, Shifted, NoMisses

LEMMA TallyLater ==
  ASSUME BlockTime >= MissWindow, NEW e, SoundEntry(e), NEW m \in Counts, Tally(e, m)
  PROVE  Tally(OlderEntry(e), Shifted(m))
<1>1. PICK n : n = OlderEntry(e)
  OBVIOUS
<1>2. PICK new : new = Shifted(m)
  OBVIOUS
<1>3. /\ n.state = e.state /\ n.count = e.count /\ n.block = (IF e.block = 0 THEN 0 ELSE e.block - 1)
      /\ n.start = (IF e.start = -1 THEN -1 ELSE Later(e.start))
  BY <1>1, OlderEntryIs
<1>4. e.count \in 0..MaxMisses /\ e.start \in Past \cup {-1} /\ (e.state = "BLOCKED" <=> e.count = MaxMisses)
      /\ (e.count > 0 => e.start >= 0) /\ e.block \in 0..BlockTime
  BY DEF SoundEntry, Attempt
<1>5. /\ new \in Counts /\ new[0] = 0
      /\ \A a \in 0..(MissWindow - 1) : a + 1 < MissWindow => new[a + 1] = m[a]
      /\ \A k \in 0..(MissWindow - 1) : Total(new, k + 1) = Total(m, k)
  BY <1>2, SumsShift DEF Shifted
<1>6. \A a \in 0..(MissWindow - 1) : a = 0 \/ (a - 1 \in 0..(MissWindow - 1) /\ new[a] = m[a - 1])
  <2>1. ASSUME NEW a \in 0..(MissWindow - 1), a # 0
        PROVE  a - 1 \in 0..(MissWindow - 1) /\ (a - 1) + 1 < MissWindow /\ (a - 1) + 1 = a
    BY <2>1, AttemptNumbers
  <2> QED BY <1>5, <2>1
(* The sum loses the oldest unit.                                          *)
<1>7. /\ Total(new, MissWindow) = Total(m, MissWindow - 1) /\ Total(m, MissWindow - 1) \in Nat
      /\ Total(m, MissWindow) = Total(m, MissWindow - 1) + m[MissWindow - 1] /\ m[MissWindow - 1] \in Nat
      /\ Total(m, MissWindow) \in Nat /\ Total(new, MissWindow) \in Nat
  <2>1. MissWindow - 1 \in 0..(MissWindow - 1) /\ MissWindow - 1 \in 0..MissWindow
        /\ (MissWindow - 1) + 1 = MissWindow /\ MissWindow \in 0..MissWindow
    BY AttemptNumbers
  <2>2. Total(new, (MissWindow - 1) + 1) = Total(m, MissWindow - 1)
    BY <1>5, <2>1
  <2>3. Total(m, (MissWindow - 1) + 1) = Total(m, MissWindow - 1) + m[MissWindow - 1]
        /\ Total(m, MissWindow - 1) \in Nat /\ Total(m, MissWindow) \in Nat
    BY <2>1, TotalIs
  <2>4. m[MissWindow - 1] \in Nat
    BY <2>1 DEF Counts
  <2>5. Total(new, MissWindow) \in Nat
    BY <1>5, <2>1, TotalIs
  <2> QED BY <2>1, <2>2, <2>3, <2>4, <2>5
<1>8. CASE e.state = "BLOCKED"
  <2>1. Serving(e, m)
    BY <1>8 DEF Tally
  <2>2. Total(m, MissWindow) <= RateLimit /\ \A a \in 0..(MissWindow - 1) : a < BlockTime - e.block => m[a] = 0
    BY <2>1 DEF Serving
  <2>3. Total(new, MissWindow) <= RateLimit
    BY <1>7, <2>2, AttemptNumbers
  <2>4. ASSUME NEW a \in 0..(MissWindow - 1), a < BlockTime - n.block PROVE new[a] = 0
    <3>1. CASE a = 0
      BY <1>5, <3>1
    <3>2. CASE a # 0
      <4>1. a - 1 \in 0..(MissWindow - 1) /\ new[a] = m[a - 1]
        BY <1>6, <3>2
      <4>2. a - 1 < BlockTime - e.block
        BY <1>3, <1>4, <2>4, AttemptNumbers
      <4> QED BY <2>2, <4>1, <4>2
    <3> QED BY <3>1, <3>2
  <2>5. Serving(n, new)
    BY <2>3, <2>4 DEF Serving
  <2> QED BY <1>1, <1>2, <1>3, <1>8, <2>5 DEF Tally
<1>9. CASE e.state # "BLOCKED" /\ e.count = 0
  <2>1. Clean(new)
    BY <1>2, <1>9, CleanLater DEF Tally
  <2>2. ~(n.count > 0)
    BY <1>3, <1>9
  <2> QED BY <1>1, <1>2, <1>3, <1>9, <2>1, <2>2 DEF Tally
<1>10. CASE e.state # "BLOCKED" /\ e.count # 0
  <2>1. e.count \in 1..(MaxMisses - 1) /\ MaxMisses >= 2 /\ e.start \in 0..LongAgo /\ e.count > 0
        /\ n.start = Later(e.start)
    BY <1>3, <1>4, <1>10, AttemptNumbers DEF Past
  <2>2. PICK s : s = e.start
    OBVIOUS
  <2>3. s \in 0..LongAgo /\ n.start = Later(s)
    BY <2>1, <2>2
  <2>4. CASE s < MissWindow
    <3>1. s \in 0..(MissWindow - 1) /\ n.start = s + 1 /\ s + 1 \in 0..MissWindow
      BY <2>3, <2>4, AttemptNumbers DEF Later
    <3>2. m[s] >= 1 /\ Total(m, s + 1) <= e.count /\ Total(m, MissWindow) - Total(m, s + 1) <= MaxMisses - 2
      BY <1>10, <2>1, <2>2, <2>4 DEF Tally, Counting
    <3>3. Total(m, s + 1) \in Nat /\ m[s] \in Nat
      BY <3>1, TotalIs DEF Counts
    <3>4. CASE s + 1 < MissWindow
      <4>1. s + 1 \in 0..(MissWindow - 1) /\ (s + 1) + 1 \in 0..MissWindow
        BY <3>1, <3>4, AttemptNumbers
      <4>2. new[s + 1] = m[s] /\ Total(new, (s + 1) + 1) = Total(m, s + 1)
        BY <1>5, <3>1, <3>4, <4>1
      <4>3. Total(new, MissWindow) - Total(new, (s + 1) + 1) <= MaxMisses - 2
        BY <1>7, <3>2, <3>3, <4>2, AttemptNumbers
      <4>4. Counting(n, new)
        BY <1>3, <3>1, <3>2, <4>2, <4>3 DEF Counting
      <4>5. n.state # "BLOCKED" /\ n.count > 0 /\ n.start < MissWindow /\ ~(n.start >= MissWindow) /\ n.count # 0
        BY <1>3, <1>10, <2>1, <3>1, <3>4, AttemptNumbers
      <4> QED BY <1>1, <1>2, <4>4, <4>5 DEF Tally
    <3>5. CASE s + 1 = MissWindow
      <4>1. s = MissWindow - 1
        BY <3>1, <3>5
      <4>2. Total(new, MissWindow) <= e.count - 1
        BY <1>7, <2>1, <3>2, <3>3, <3>5, <4>1
      <4>3. \A a \in 0..(MissWindow - 1) : a <= n.start - MissWindow => new[a] = 0
        BY <1>5, <3>1, <3>5, AttemptNumbers
      <4>4. Lapsed(n, new)
        BY <1>3, <4>2, <4>3 DEF Lapsed
      <4>5. n.state # "BLOCKED" /\ ~(n.start < MissWindow) /\ n.count # 0
        BY <1>3, <1>10, <3>1, <3>5, AttemptNumbers
      <4> QED BY <1>1, <1>2, <4>4, <4>5 DEF Tally
    <3> QED BY <3>1, <3>4, <3>5, AttemptNumbers
  <2>5. CASE s >= MissWindow
    <3>1. Total(m, MissWindow) <= e.count - 1 /\ \A a \in 0..(MissWindow - 1) : a <= s - MissWindow => m[a] = 0
      BY <1>10, <2>1, <2>2, <2>5 DEF Tally, Lapsed
    <3>2. n.start \in Nat /\ n.start >= MissWindow /\ n.start <= s + 1
      BY <2>3, <2>5, AttemptNumbers DEF Later
    <3>3. ASSUME NEW a \in 0..(MissWindow - 1), a <= n.start - MissWindow PROVE new[a] = 0
      <4>1. CASE a = 0
        BY <1>5, <4>1
      <4>2. CASE a # 0
        <5>1. a - 1 \in 0..(MissWindow - 1) /\ new[a] = m[a - 1]
          BY <1>6, <4>2
        <5>2. a - 1 <= s - MissWindow
          BY <2>3, <3>2, <3>3, AttemptNumbers
        <5> QED BY <3>1, <5>1, <5>2
      <4> QED BY <4>1, <4>2
    <3>4. Total(new, MissWindow) <= e.count - 1
      BY <1>7, <2>1, <3>1
    <3>5. Lapsed(n, new)
      BY <1>3, <3>3, <3>4 DEF Lapsed
    <3>6. n.state # "BLOCKED" /\ ~(n.start < MissWindow) /\ n.count # 0
      BY <1>3, <1>10, <3>2, AttemptNumbers
    <3> QED BY <1>1, <1>2, <3>5, <3>6 DEF Tally
  <2> QED BY <2>3, <2>4, <2>5, AttemptNumbers
<1> QED BY <1>8, <1>9, <1>10

(* A failure more: which window it counts in, and when it makes a block.   *)
CountedSoFar(e) == IF e.count > 0 /\ e.start >= MissWindow THEN 0 ELSE e.count

LEMMA MissedIs ==
  ASSUME NEW e, SoundEntry(e), e.used
  PROVE  /\ SoundEntry(Missed(e)) /\ Missed(e).name = e.name /\ Missed(e).used
         /\ Missed(e).count = (IF CountedSoFar(e) < MaxMisses THEN CountedSoFar(e) + 1 ELSE CountedSoFar(e))
         /\ Missed(e).start = (IF CountedSoFar(e) = 0 THEN 0 ELSE e.start)
         /\ Missed(e).state = "BLOCKED" => Missed(e).block = BlockTime
<1>1. e \in Attempt /\ (e.state = "BLOCKED" <=> e.count = MaxMisses) /\ (e.state = "BLOCKED" => e.used)
      /\ (e.count > 0 => e.start >= 0)
  BY DEF SoundEntry
<1>2. e.count \in 0..MaxMisses /\ e.start \in Past \cup {-1} /\ 0 \in Past
  BY <1>1, AttemptNumbers DEF Attempt, Past
<1>3. PICK c : c = CountedSoFar(e)
  OBVIOUS
<1>4. c \in 0..MaxMisses /\ (c # 0 => e.start >= 0)
  BY <1>1, <1>2, <1>3, AttemptNumbers DEF CountedSoFar
<1>5. PICK d : d = IF c < MaxMisses THEN c + 1 ELSE c
  OBVIOUS
<1>6. d \in 1..MaxMisses /\ d \in 0..MaxMisses
  BY <1>4, <1>5, AttemptNumbers
<1>7. PICK s : s = IF c = 0 THEN 0 ELSE e.start
  OBVIOUS
<1>8. s \in Past \cup {-1} /\ s >= 0
  BY <1>2, <1>4, <1>7, AttemptNumbers
<1>9. PICK f : f = IF e.count > 0 /\ e.start >= MissWindow
                   THEN [e EXCEPT !.count = 0, !.delay = 0, !.state = "READY"] ELSE e
  OBVIOUS
<1>10. DelayAfter[d] \in 0..DelayAfter[MaxMisses] /\ 0 \in 0..DelayAfter[MaxMisses]
  <2>1. DelayAfter[MaxMisses] \in Nat
    BY AttemptAssumption
  <2> QED BY <1>6, <2>1, DelaysGrow
<1>11. f \in Attempt /\ f.count = c /\ f.start = e.start /\ f.name = e.name /\ f.used = e.used
  <2>1. 0 \in 0..MaxMisses
    BY AttemptNumbers
  <2> QED BY <1>1, <1>3, <1>9, <1>10, <2>1 DEF Attempt, CountedSoFar
<1>12. PICK g : g = [f EXCEPT !.count = IF @ < MaxMisses THEN @ + 1 ELSE @, !.last = 0,
                              !.start = IF f.count = 0 THEN 0 ELSE @]
  OBVIOUS
<1>13. g \in Attempt /\ g.count = d /\ g.start = s /\ g.name = e.name /\ g.used = e.used
  BY <1>2, <1>5, <1>6, <1>7, <1>8, <1>11, <1>12 DEF Attempt
<1>14. PICK n : n = Missed(e)
  OBVIOUS
<1>15. n = IF g.count >= MaxMisses THEN [g EXCEPT !.state = "BLOCKED", !.block = BlockTime, !.delay = 0]
                                   ELSE [g EXCEPT !.state = "THROTTLED", !.delay = DelayAfter[g.count]]
  BY <1>9, <1>12, <1>14 DEF Missed
<1>16. BlockTime \in 0..BlockTime
  BY AttemptNumbers
<1>17. CASE d = MaxMisses
  <2>1. n = [g EXCEPT !.state = "BLOCKED", !.block = BlockTime, !.delay = 0]
    BY <1>13, <1>15, <1>17, AttemptNumbers
  <2>2. n \in Attempt /\ n.count = d /\ n.start = s /\ n.name = e.name /\ n.used /\ n.state = "BLOCKED"
        /\ n.block = BlockTime
    BY <1>10, <1>13, <1>16, <2>1 DEF Attempt
  <2>3. SoundEntry(n)
    BY <1>8, <1>17, <2>2 DEF SoundEntry
  <2> QED BY <1>3, <1>5, <1>7, <1>14, <2>2, <2>3
<1>18. CASE d # MaxMisses
  <2>1. n = [g EXCEPT !.state = "THROTTLED", !.delay = DelayAfter[d]]
    BY <1>6, <1>13, <1>15, <1>18, AttemptNumbers
  <2>2. n \in Attempt /\ n.count = d /\ n.start = s /\ n.name = e.name /\ n.used /\ n.state = "THROTTLED"
    BY <1>10, <1>13, <2>1 DEF Attempt
  <2>3. SoundEntry(n)
    BY <1>8, <1>18, <2>2 DEF SoundEntry
  <2> QED BY <1>3, <1>5, <1>7, <1>14, <2>2, <2>3
<1> QED BY <1>17, <1>18

LEMMA TallyMissed ==
  ASSUME NEW e, SoundEntry(e), e.used, e.state # "BLOCKED", NEW m \in Counts, Tally(e, m)
  PROVE  Tally(Missed(e), OneMore(m))
<1>1. PICK n : n = Missed(e)
  OBVIOUS
<1>2. PICK new : new = OneMore(m)
  OBVIOUS
<1>3. PICK c : c = CountedSoFar(e)
  OBVIOUS
<1>4. e.count \in 0..MaxMisses /\ e.count # MaxMisses /\ e.start \in Past \cup {-1} /\ (e.count > 0 => e.start >= 0)
  BY DEF SoundEntry, Attempt
<1>5. c \in 0..(MaxMisses - 1) /\ (c # 0 => e.count = c /\ e.start \in 0..(MissWindow - 1))
      /\ (c = 0 => e.count = 0 \/ (e.count > 0 /\ e.start >= MissWindow))
  BY <1>3, <1>4, AttemptNumbers DEF CountedSoFar, Past
<1>6. n.count = c + 1 /\ n.start = (IF c = 0 THEN 0 ELSE e.start) /\ (n.state = "BLOCKED" => n.block = BlockTime)
      /\ (n.state = "BLOCKED" <=> c + 1 = MaxMisses)
  BY <1>1, <1>3, <1>5, MissedIs, AttemptNumbers DEF SoundEntry
<1>7. /\ new \in Counts /\ new[0] = m[0] + 1 /\ m[0] \in Nat
      /\ \A a \in 0..(MissWindow - 1) : a # 0 => new[a] = m[a]
      /\ \A k \in 1..MissWindow : Total(new, k) = Total(m, k) + 1
  <2>1. m[0] \in Nat
    <3>1. 0 \in 0..(MissWindow - 1)
      BY AttemptNumbers
    <3> QED BY <3>1 DEF Counts
  <2>2. /\ new \in Counts /\ new[0] = m[0] + 1
        /\ \A a \in 0..(MissWindow - 1) : a # 0 => new[a] = m[a]
        /\ \A k \in 1..MissWindow : Total(new, k) = Total(m, k) + 1
    BY <1>2, SumsMore
  <2> QED BY <2>1, <2>2
<1>8. /\ Total(new, MissWindow) = Total(m, MissWindow) + 1 /\ Total(m, MissWindow) \in Nat
      /\ Total(new, 1) = Total(m, 1) + 1 /\ Total(m, 1) = m[0]
  <2>1. MissWindow \in 1..MissWindow /\ 1 \in 1..MissWindow /\ MissWindow \in 0..MissWindow /\ 0 \in 0..(MissWindow - 1)
    BY AttemptNumbers
  <2>2. Total(m, 0 + 1) = Total(m, 0) + m[0] /\ Total(m, 0) = 0 /\ Total(m, MissWindow) \in Nat
    BY <2>1, TotalIs
  <2> QED BY <1>7, <2>1, <2>2
(* A window that begins here, after one that has passed or none.           *)
<1>9. CASE c = 0
  <2>1. m[0] = 0 /\ (Total(m, MissWindow) = 0 \/ Total(m, MissWindow) <= MaxMisses - 2)
    <3>0. 0 \in 0..(MissWindow - 1)
      BY AttemptNumbers
    <3>1. CASE e.count = 0
      BY <3>0, <3>1, SumsNone DEF Tally, Clean
    <3>2. CASE e.count > 0 /\ e.start >= MissWindow
      <4>1. Lapsed(e, m)
        BY <3>2 DEF Tally
      <4>2. 0 <= e.start - MissWindow /\ e.count <= MaxMisses - 1 /\ e.count \in Nat /\ MaxMisses \in Nat
        BY <1>4, <3>2, AttemptNumbers DEF Past
      <4>3. m[0] = 0 /\ Total(m, MissWindow) <= e.count - 1
        BY <3>0, <4>1, <4>2 DEF Lapsed
      <4> QED BY <1>8, <4>2, <4>3
    <3> QED BY <1>5, <1>9, <3>1, <3>2
  <2>2. n.start = 0 /\ n.count = 1 /\ n.start < MissWindow /\ ~(n.start >= MissWindow)
    BY <1>6, <1>9, AttemptNumbers
  <2>3. CASE n.state = "BLOCKED"
    <3>1. MaxMisses = 1 /\ RateLimit = 1
      BY <1>6, <1>9, <2>3, AttemptNumbers
    <3>2. Total(new, MissWindow) <= RateLimit
      BY <1>8, <2>1, <3>1
    <3>3. \A a \in 0..(MissWindow - 1) : ~(a < BlockTime - n.block)
      BY <1>6, <2>3, AttemptNumbers
    <3> QED BY <1>1, <1>2, <2>3, <3>2, <3>3 DEF Tally, Serving
  <2>4. CASE n.state # "BLOCKED"
    <3>1. MaxMisses >= 2 /\ MaxMisses \in Nat
      BY <1>5, <1>6, <1>9, <2>4, AttemptNumbers
    <3>2. new[0] >= 1 /\ Total(new, 0 + 1) <= 1 /\ Total(new, MissWindow) - Total(new, 0 + 1) <= MaxMisses - 2
      BY <1>7, <1>8, <2>1, <3>1
    <3>3. Counting(n, new)
      BY <2>2, <3>2 DEF Counting
    <3> QED BY <1>1, <1>2, <2>2, <2>4, <3>3 DEF Tally
  <2> QED BY <2>3, <2>4
(* Another one in the window.                                              *)
<1>10. CASE c # 0
  <2>1. PICK s : s = e.start
    OBVIOUS
  <2>2. s \in 0..(MissWindow - 1) /\ s + 1 \in 1..MissWindow /\ s + 1 \in 0..MissWindow /\ n.start = s /\ e.count = c
        /\ c > 0 /\ s < MissWindow
    BY <1>5, <1>6, <1>10, <2>1, AttemptNumbers
  <2>3. m[s] >= 1 /\ Total(m, s + 1) <= c /\ Total(m, MissWindow) - Total(m, s + 1) <= MaxMisses - 2
    BY <2>1, <2>2 DEF Tally, Counting
  <2>4. Total(new, s + 1) = Total(m, s + 1) + 1 /\ Total(m, s + 1) \in Nat
    BY <1>7, <2>2, TotalIs
  <2>5. new[s] >= 1
    <3>1. m[s] \in Nat
      BY <2>2 DEF Counts
    <3> QED BY <1>7, <2>2, <2>3, <3>1
  <2>6. CASE n.state = "BLOCKED"
    <3>1. Total(new, MissWindow) <= RateLimit
      BY <1>5, <1>6, <1>8, <1>10, <2>3, <2>4, <2>6, AttemptNumbers
    <3>2. \A a \in 0..(MissWindow - 1) : ~(a < BlockTime - n.block)
      BY <1>6, <2>6, AttemptNumbers
    <3> QED BY <1>1, <1>2, <2>6, <3>1, <3>2 DEF Tally, Serving
  <2>7. CASE n.state # "BLOCKED"
    <3>1. Total(new, s + 1) <= n.count /\ Total(new, MissWindow) - Total(new, s + 1) <= MaxMisses - 2
      BY <1>5, <1>6, <1>8, <2>3, <2>4, AttemptNumbers
    <3>2. Counting(n, new)
      BY <2>2, <2>5, <3>1 DEF Counting
    <3>3. n.count # 0 /\ ~(n.start >= MissWindow)
      BY <1>5, <1>6, <2>2, AttemptNumbers
    <3> QED BY <1>1, <1>2, <2>7, <3>2, <3>3 DEF Tally
  <2> QED BY <2>6, <2>7
<1> QED BY <1>9, <1>10

-----------------------------------------------------------------------------
(* The table of attempts.  Who makes one attempt at a time has none under  *)
(* way while it is blocked, and then the failures of an identity are those *)
(* that its entry accounts for.                                            *)
Tallied(i) ==
  /\ \A k \in DOMAIN attempts : Of(attempts[k], i) => Tally(attempts[k], misses[i])
  /\ (\A k \in DOMAIN attempts : ~Of(attempts[k], i)) => Clean(misses[i])
OneEach ==
  \A j, k \in DOMAIN attempts :
    attempts[j].used /\ attempts[k].used /\ attempts[j].name = attempts[k].name => j = k
Waiting == \A k \in DOMAIN attempts : attempts[k].state = "BLOCKED" => trying[attempts[k].name] = 0
Paced == OneAtATime /\ BlockTime >= MissWindow

AttemptInv ==
  /\ attempts \in Seq(Attempt) /\ Len(attempts) <= MaxTracked
  /\ cleaned \in 0..CleanupInterval /\ trying \in [Claimants -> 0..MaxTrying] /\ misses \in [Claimants -> Counts]
  /\ \A k \in DOMAIN attempts : SoundEntry(attempts[k])
  /\ OneEach
  /\ OneAtATime => Waiting
  /\ Paced => \A i \in Claimants : Tallied(i)

LEMMA AttemptImplied == AttemptInv => AttemptsSafe
<1> SUFFICES ASSUME AttemptInv PROVE AttemptsSafe OBVIOUS
<1>1. ASSUME NEW i \in Claimants PROVE Cardinality(EntryOf(i)) <= 1
  <2>1. \A j, k \in EntryOf(i) : j = k
    BY DEF EntryOf, AttemptInv, OneEach
  <2>2. CASE EntryOf(i) = {}
    BY <2>2, FS_EmptySet
  <2>3. CASE EntryOf(i) # {}
    <3>1. PICK k : k \in EntryOf(i)
      BY <2>3
    <3>2. EntryOf(i) = {k}
      BY <2>1, <3>1
    <3>3. Cardinality({k}) = 1
      BY FS_Singleton
    <3> QED BY <3>2, <3>3
  <2> QED BY <2>2, <2>3
<1>2. AttemptTypeOK
  BY <1>1 DEF AttemptInv, AttemptTypeOK
<1>3. ASSUME Paced, NEW i \in Claimants PROVE Counted(misses[i]) <= RateLimit
  <2>1. PICK m : m = misses[i]
    OBVIOUS
  <2>2. m \in Counts /\ Tallied(i)
    BY <1>3, <2>1 DEF AttemptInv
  <2>3. Total(m, MissWindow) <= RateLimit
    <3>1. CASE \E k \in DOMAIN attempts : Of(attempts[k], i)
      <4>1. PICK k \in DOMAIN attempts : Of(attempts[k], i)
        BY <3>1
      <4>2. PICK e : e = attempts[k]
        OBVIOUS
      <4>3. Tally(e, m) /\ SoundEntry(e)
        BY <2>1, <2>2, <4>1, <4>2 DEF Tallied, AttemptInv
      <4> QED BY <2>2, <4>3, TallyRate
    <3>2. CASE \A k \in DOMAIN attempts : ~Of(attempts[k], i)
      <4>1. Clean(m)
        BY <2>1, <2>2, <3>2 DEF Tallied
      <4> QED BY <2>2, <4>1, SumsNone, AttemptNumbers
    <3> QED BY <3>1, <3>2
  <2> QED BY <2>1, <2>2, <2>3, TotalIs
<1>4. FailureRate
  BY <1>3 DEF FailureRate, Paced
<1> QED BY <1>2, <1>4 DEF AttemptsSafe

LEMMA NoneMissed == NoMisses \in Counts /\ Clean(NoMisses)
  BY DEF NoMisses, Counts, Clean

LEMMA AttemptsStart == AttemptInit => AttemptInv
<1> SUFFICES ASSUME AttemptInit PROVE AttemptInv OBVIOUS
<1>1. /\ attempts = <<>> /\ DOMAIN attempts = {} /\ attempts \in Seq(Attempt) /\ Len(attempts) = 0
      /\ cleaned = 0
  BY DEF AttemptInit
<1>2. trying \in [Claimants -> 0..MaxTrying] /\ misses \in [Claimants -> Counts]
      /\ \A i \in Claimants : misses[i] = NoMisses
  BY NoneMissed, AttemptNumbers DEF AttemptInit
<1>3. \A i \in Claimants : Clean(misses[i])
  BY <1>2, NoneMissed
<1> QED BY <1>1, <1>2, <1>3, AttemptNumbers DEF AttemptInv, OneEach, Waiting, Tallied

LEMMA AttemptsAre ==
  ASSUME AttemptInv
  PROVE  /\ attempts \in Seq(Attempt) /\ Len(attempts) \in Nat /\ Len(attempts) <= MaxTracked
         /\ DOMAIN attempts = 1..Len(attempts) /\ attempts = [k \in DOMAIN attempts |-> attempts[k]]
         /\ \A k \in DOMAIN attempts : attempts[k] \in Attempt /\ attempts[k].name \in Claimants
<1>1. attempts \in Seq(Attempt) /\ Len(attempts) <= MaxTracked
  BY DEF AttemptInv
<1>2. \A e \in Attempt : e.name \in Claimants
  BY DEF Attempt
<1>3. /\ Len(attempts) \in Nat /\ DOMAIN attempts = 1..Len(attempts)
      /\ attempts = [k \in DOMAIN attempts |-> attempts[k]]
      /\ \A k \in DOMAIN attempts : attempts[k] \in Attempt
  BY <1>1
<1> QED BY <1>1, <1>2, <1>3

(* The entries change where they are.                                      *)
LEMMA EntriesChange ==
  ASSUME AttemptInv, attempts' = [k \in DOMAIN attempts |-> attempts'[k]],
         \A k \in DOMAIN attempts :
           /\ SoundEntry(attempts'[k]) /\ attempts'[k].name = attempts[k].name
           /\ attempts'[k].used => attempts[k].used,
         cleaned' \in 0..CleanupInterval, trying' \in [Claimants -> 0..MaxTrying],
         misses' \in [Claimants -> Counts], OneAtATime => Waiting',
         \A i \in Claimants :
           /\ Paced /\ Clean(misses[i]) => Clean(misses'[i])
           /\ \A k \in DOMAIN attempts : Paced /\ Of(attempts[k], i) =>
                IF attempts'[k].used THEN Tally(attempts'[k], misses'[i]) ELSE Clean(misses'[i])
  PROVE  AttemptInv'
<1>1. attempts' \in Seq(Attempt) /\ Len(attempts') <= MaxTracked /\ DOMAIN attempts' = DOMAIN attempts
  <2>1. attempts \in Seq(Attempt) /\ attempts' \in [DOMAIN attempts -> Attempt]
    BY AttemptsAre DEF SoundEntry
  <2>2. attempts' \in Seq(Attempt) /\ Len(attempts') = Len(attempts)
    BY <2>1, ActsMade
  <2> QED BY <2>2, AttemptsAre
<1>2. OneEach'
  BY <1>1 DEF OneEach, AttemptInv
<1>3. ASSUME Paced, NEW i \in Claimants PROVE Tallied(i)'
  <2>1. Tallied(i)
    BY <1>3 DEF AttemptInv
  <2>2. ASSUME NEW k \in DOMAIN attempts, Of(attempts'[k], i) PROVE Of(attempts[k], i) /\ attempts'[k].used
    BY <2>2 DEF Of
  <2>3. ASSUME NEW k \in DOMAIN attempts, Of(attempts[k], i), ~Of(attempts'[k], i) PROVE Clean(misses'[i])
    BY <1>3, <2>3 DEF Of
  <2>4. ASSUME \A k \in DOMAIN attempts : ~Of(attempts[k], i) PROVE Clean(misses'[i])
    BY <1>3, <2>1, <2>4 DEF Tallied
  <2>5. \A k \in DOMAIN attempts : Of(attempts'[k], i) => Tally(attempts'[k], misses'[i])
    BY <1>3, <2>2
  <2>6. (\A k \in DOMAIN attempts : ~Of(attempts'[k], i)) => Clean(misses'[i])
    BY <2>3, <2>4
  <2> QED BY <1>1, <2>5, <2>6 DEF Tallied
<1>4. Paced' <=> Paced
  BY DEF Paced, OneAtATime
<1> QED BY <1>1, <1>2, <1>3, <1>4 DEF AttemptInv, OneAtATime

LEMMA TryingLess ==
  ASSUME AttemptInv, trying' \in [Claimants -> 0..MaxTrying],
         \A i \in Claimants : trying[i] = 0 => trying'[i] = 0,
         DOMAIN attempts' = DOMAIN attempts,
         \A k \in DOMAIN attempts : /\ attempts'[k].name = attempts[k].name
                                    /\ attempts'[k].state = "BLOCKED" => attempts[k].state = "BLOCKED",
         OneAtATime
  PROVE  Waiting'
BY AttemptsAre DEF AttemptInv, Waiting

(* A check, and what it says about who may go on.                          *)
LEMMA CheckHolds ==
  ASSUME AttemptInv, NEW i \in Claimants, attempts' = CheckedTable(i), CleanupDone, UNCHANGED misses,
         \/ UNCHANGED trying
         \/ AllowedNow(i) /\ trying[i] < MaxTrying /\ trying' = [trying EXCEPT ![i] = @ + 1]
  PROVE  AttemptInv'
<1>1. \A k \in DOMAIN attempts : SoundEntry(attempts[k])
  BY DEF AttemptInv
<1>2. /\ attempts' = [k \in DOMAIN attempts |-> attempts'[k]]
      /\ \A k \in DOMAIN attempts :
           /\ Eased(attempts[k], attempts'[k])
           /\ AllowedNow(i) /\ attempts[k].name = i => attempts'[k].state # "BLOCKED"
  BY <1>1, CheckedTableIs
<1>3. cleaned' \in 0..CleanupInterval
  BY AttemptNumbers DEF CleanupDone, AttemptInv
<1>4. trying' \in [Claimants -> 0..MaxTrying]
  <2>1. ASSUME trying[i] < MaxTrying PROVE trying[i] + 1 \in 0..MaxTrying
    BY <2>1, AttemptNumbers DEF AttemptInv
  <2> QED BY <2>1 DEF AttemptInv
<1>5. \A k \in DOMAIN attempts :
        /\ SoundEntry(attempts'[k]) /\ attempts'[k].name = attempts[k].name
        /\ attempts'[k].used => attempts[k].used
        /\ attempts'[k].state = "BLOCKED" => attempts[k].state = "BLOCKED"
  BY <1>2 DEF Eased
<1>6. ASSUME OneAtATime PROVE Waiting'
  <2>1. Waiting
    BY <1>6 DEF AttemptInv
  <2>2. ASSUME NEW k \in DOMAIN attempts, attempts'[k].state = "BLOCKED" PROVE trying'[attempts'[k].name] = 0
    <3>1. trying[attempts[k].name] = 0 /\ attempts'[k].name = attempts[k].name
      BY <1>5, <2>1, <2>2 DEF Waiting
    <3>2. CASE UNCHANGED trying
      BY <3>1, <3>2
    <3>3. CASE AllowedNow(i) /\ trying' = [trying EXCEPT ![i] = @ + 1]
      <4>1. attempts[k].name # i
        BY <1>2, <2>2, <3>3
      <4> QED BY <3>1, <3>3, <4>1, AttemptsAre DEF AttemptInv
    <3> QED BY <3>2, <3>3
  <2>3. DOMAIN attempts' = DOMAIN attempts
    BY <1>2
  <2> QED BY <2>2, <2>3 DEF Waiting
<1>7. ASSUME Paced, NEW j \in Claimants, NEW k \in DOMAIN attempts, Of(attempts[k], j)
      PROVE  IF attempts'[k].used THEN Tally(attempts'[k], misses'[j]) ELSE Clean(misses'[j])
  <2>1. PICK e, n, m : e = attempts[k] /\ n = attempts'[k] /\ m = misses[j]
    OBVIOUS
  <2>2. SoundEntry(e) /\ Eased(e, n) /\ Tally(e, m) /\ e.used /\ BlockTime >= MissWindow
    BY <1>1, <1>2, <1>7, <2>1 DEF AttemptInv, Tallied, Paced, Of
  <2>3. IF n.used THEN Tally(n, m) ELSE Clean(m)
    BY <2>2, EasedTally
  <2> QED BY <2>1, <2>3
<1>8. misses' \in [Claimants -> Counts]
  BY DEF AttemptInv
<1> QED BY <1>2, <1>3, <1>4, <1>5, <1>6, <1>7, <1>8, EntriesChange

LEMMA ClearedIs ==
  ASSUME NEW e, SoundEntry(e)
  PROVE  /\ SoundEntry(Cleared(e)) /\ Cleared(e).name = e.name /\ Cleared(e).used
         /\ Cleared(e).state # "BLOCKED" /\ Cleared(e).count = 0 /\ Tally(Cleared(e), NoMisses)
<1>1. e.name \in Claimants
  BY DEF SoundEntry, Attempt
<1>2. LongAgo \in Past /\ 0 \in 0..MaxMisses /\ 0 \in 0..BlockTime /\ 0 \in 0..DelayAfter[MaxMisses] /\ 0 # MaxMisses
  <2>1. DelayAfter[MaxMisses] \in Nat
    BY AttemptAssumption
  <2> QED BY <2>1, AttemptNumbers DEF Past
<1>3. PICK n : n = Cleared(e)
  OBVIOUS
<1>4. n \in Attempt /\ n.state = "READY" /\ n.count = 0 /\ n.used /\ n.name = e.name
  BY <1>1, <1>2, <1>3 DEF Cleared, NewAttempt, Attempt
<1>5. SoundEntry(n)
  BY <1>2, <1>4 DEF SoundEntry
<1>6. Tally(n, NoMisses)
  BY <1>4, NoneMissed DEF Tally
<1> QED BY <1>3, <1>4, <1>5, <1>6

(* A success or a reset, of the table as it is or as a check left it.      *)
LEMMA ForgiveHolds ==
  ASSUME AttemptInv, NEW i \in Claimants, NEW table, table = [k \in DOMAIN attempts |-> table[k]],
         \A k \in DOMAIN attempts : Eased(attempts[k], table[k]),
         attempts' = Forgiven(table, i), misses' = [misses EXCEPT ![i] = NoMisses],
         cleaned' \in 0..CleanupInterval, trying' \in [Claimants -> 0..MaxTrying],
         \A j \in Claimants : trying[j] = 0 => trying'[j] = 0
  PROVE  AttemptInv'
<1>1. \A k \in DOMAIN attempts : SoundEntry(attempts[k]) /\ SoundEntry(table[k])
  BY DEF AttemptInv, Eased
<1>2. DOMAIN table = DOMAIN attempts
  OBVIOUS
<1>3. /\ attempts' = [k \in DOMAIN attempts |-> attempts'[k]] /\ DOMAIN attempts' = DOMAIN attempts
      /\ \A k \in DOMAIN attempts :
           attempts'[k] = IF Of(table[k], i) THEN Cleared(table[k]) ELSE table[k]
  BY <1>2 DEF Forgiven
<1>4. \A k \in DOMAIN attempts :
        /\ SoundEntry(attempts'[k]) /\ attempts'[k].name = attempts[k].name
        /\ attempts'[k].used => attempts[k].used
        /\ attempts'[k].state = "BLOCKED" => attempts[k].state = "BLOCKED"
  <2>1. ASSUME NEW k \in DOMAIN attempts
        PROVE  /\ SoundEntry(attempts'[k]) /\ attempts'[k].name = attempts[k].name
               /\ attempts'[k].used => attempts[k].used
               /\ attempts'[k].state = "BLOCKED" => attempts[k].state = "BLOCKED"
    <3>1. PICK w, e : w = table[k] /\ e = attempts[k]
      OBVIOUS
    <3>2. Eased(e, w) /\ SoundEntry(w)
      BY <1>1, <3>1
    <3>3. w.name = e.name /\ (w.used => e.used) /\ (w.state = "BLOCKED" => e.state = "BLOCKED")
      BY <3>2 DEF Eased
    <3>4. SoundEntry(Cleared(w)) /\ Cleared(w).name = w.name /\ Cleared(w).used /\ Cleared(w).state # "BLOCKED"
      BY <3>2, ClearedIs
    <3>5. attempts'[k] = IF Of(w, i) THEN Cleared(w) ELSE w
      BY <1>3, <3>1
    <3> QED BY <3>1, <3>2, <3>3, <3>4, <3>5 DEF Of
  <2> QED BY <2>1
<1>5. misses' \in [Claimants -> Counts] /\ misses'[i] = NoMisses
      /\ \A j \in Claimants : j # i => misses'[j] = misses[j]
  BY NoneMissed DEF AttemptInv
<1>6. OneAtATime => Waiting'
  BY <1>3, <1>4, TryingLess
<1>7. ASSUME Paced, NEW j \in Claimants, NEW k \in DOMAIN attempts, Of(attempts[k], j)
      PROVE  IF attempts'[k].used THEN Tally(attempts'[k], misses'[j]) ELSE Clean(misses'[j])
  <2>1. PICK e, w, m : e = attempts[k] /\ w = table[k] /\ m = misses[j]
    OBVIOUS
  <2>2. SoundEntry(e) /\ Eased(e, w) /\ SoundEntry(w) /\ Tally(e, m) /\ e.used /\ BlockTime >= MissWindow
        /\ w.name = j
    BY <1>1, <1>7, <2>1 DEF AttemptInv, Tallied, Paced, Of, Eased
  <2>3. IF w.used THEN Tally(w, m) ELSE Clean(m)
    BY <2>2, EasedTally
  <2>4. attempts'[k] = IF Of(w, i) THEN Cleared(w) ELSE w
    BY <1>3, <2>1
  <2>5. CASE j # i
    <3>1. attempts'[k] = w /\ misses'[j] = m
      BY <1>5, <2>1, <2>2, <2>4, <2>5 DEF Of
    <3> QED BY <2>3, <3>1
  <2>6. CASE j = i
    <3>1. misses'[j] = NoMisses
      BY <1>5, <2>6
    <3>2. CASE w.used
      <4>1. attempts'[k] = Cleared(w)
        BY <2>2, <2>4, <2>6, <3>2 DEF Of
      <4>2. Tally(Cleared(w), NoMisses) /\ Cleared(w).used
        BY <2>2, ClearedIs
      <4> QED BY <3>1, <4>1, <4>2
    <3>3. CASE ~w.used
      <4>1. attempts'[k] = w
        BY <2>4, <3>3 DEF Of
      <4> QED BY <3>1, <3>3, <4>1, NoneMissed
    <3> QED BY <3>2, <3>3
  <2> QED BY <2>5, <2>6
<1>8. ASSUME NEW j \in Claimants, Clean(misses[j]) PROVE Clean(misses'[j])
  BY <1>5, <1>8, NoneMissed
<1> QED BY <1>3, <1>4, <1>5, <1>6, <1>7, <1>8, EntriesChange

LEMMA RecordHolds ==
  ASSUME AttemptInv, NEW i \in Claimants, RecordFailure(i)
  PROVE  AttemptInv'
<1>1. /\ trying[i] > 0 /\ trying' = [trying EXCEPT ![i] = @ - 1] /\ cleaned' = cleaned
      /\ trying \in [Claimants -> 0..MaxTrying] /\ misses \in [Claimants -> Counts]
      /\ cleaned \in 0..CleanupInterval
  BY DEF RecordFailure, AttemptInv
<1>2. trying' \in [Claimants -> 0..MaxTrying] /\ (\A j \in Claimants : trying[j] = 0 => trying'[j] = 0)
      /\ (OneAtATime => trying'[i] = 0)
  <2>1. trying[i] - 1 \in 0..MaxTrying /\ (OneAtATime => trying[i] - 1 = 0)
    BY <1>1, AttemptNumbers DEF OneAtATime
  <2> QED BY <1>1, <2>1
<1>3. PICK m : m = misses[i]
  OBVIOUS
<1>4. m \in Counts /\ OneMore(m) \in Counts
  BY <1>1, <1>3, SumsMore
<1>5. ASSUME HasSlot(i)
      PROVE  /\ misses' \in [Claimants -> Counts] /\ misses'[i] = OneMore(m)
             /\ \A j \in Claimants : j # i => misses'[j] = misses[j]
  <2>1. misses' = [misses EXCEPT ![i] = OneMore(misses[i])]
    BY <1>5 DEF RecordFailure, OneMore
  <2> QED BY <1>1, <1>3, <1>4, <2>1
<1>6. ASSUME NEW k \in EntryOf(i), attempts' = [attempts EXCEPT ![k] = Missed(@)] PROVE AttemptInv'
  <2>1. k \in DOMAIN attempts /\ Of(attempts[k], i) /\ HasSlot(i)
    BY <1>6 DEF EntryOf, HasSlot, Of
  <2>2. PICK e : e = attempts[k]
    OBVIOUS
  <2>3. SoundEntry(e) /\ e.used /\ e.name = i
    BY <2>1, <2>2 DEF AttemptInv, Of
  <2>4. SoundEntry(Missed(e)) /\ Missed(e).name = i /\ Missed(e).used
    BY <2>3, MissedIs
  <2>5. /\ attempts' = [l \in DOMAIN attempts |-> attempts'[l]] /\ DOMAIN attempts' = DOMAIN attempts
        /\ \A l \in DOMAIN attempts : attempts'[l] = IF l = k THEN Missed(e) ELSE attempts[l]
    BY <1>6, <2>1, <2>2, AttemptsAre
  <2>6. \A l \in DOMAIN attempts :
          /\ SoundEntry(attempts'[l]) /\ attempts'[l].name = attempts[l].name
          /\ attempts'[l].used => attempts[l].used
    BY <2>2, <2>3, <2>4, <2>5 DEF AttemptInv
  <2>7. ASSUME OneAtATime PROVE Waiting' /\ e.state # "BLOCKED"
    <3>1. Waiting
      BY <2>7 DEF AttemptInv
    <3>2. e.state # "BLOCKED"
      BY <1>1, <2>1, <2>2, <2>3, <3>1 DEF Waiting
    <3>3. ASSUME NEW l \in DOMAIN attempts, attempts'[l].state = "BLOCKED" PROVE trying'[attempts'[l].name] = 0
      <4>1. CASE l = k
        BY <1>2, <2>4, <2>5, <2>7, <4>1
      <4>2. CASE l # k
        BY <1>2, <2>5, <3>1, <3>3, <4>2, AttemptsAre DEF Waiting
      <4> QED BY <4>1, <4>2
    <3> QED BY <2>5, <3>2, <3>3 DEF Waiting
  <2>8. ASSUME Paced, NEW j \in Claimants, NEW l \in DOMAIN attempts, Of(attempts[l], j)
        PROVE  IF attempts'[l].used THEN Tally(attempts'[l], misses'[j]) ELSE Clean(misses'[j])
    <3>1. Tally(attempts[l], misses[j]) /\ OneAtATime
      BY <2>8 DEF AttemptInv, Tallied, Paced
    <3>2. CASE l = k
      <4>1. j = i /\ Tally(e, m)
        BY <1>3, <2>2, <2>3, <2>8, <3>1, <3>2 DEF Of
      <4>2. Tally(Missed(e), OneMore(m))
        BY <1>4, <2>3, <2>7, <3>1, <4>1, TallyMissed
      <4> QED BY <1>5, <2>1, <2>4, <2>5, <3>2, <4>1, <4>2
    <3>3. CASE l # k
      <4>1. j # i
        BY <2>1, <2>8, <3>3 DEF AttemptInv, OneEach, Of
      <4> QED BY <1>5, <2>1, <2>5, <2>8, <3>1, <3>3, <4>1 DEF Of
    <3> QED BY <3>2, <3>3
  <2>9. ASSUME Paced, NEW j \in Claimants, Clean(misses[j]), ~(\E l \in DOMAIN attempts : Of(attempts[l], j))
        PROVE  Clean(misses'[j])
    BY <1>5, <2>1, <2>9
  <2>10. attempts' \in Seq(Attempt) /\ Len(attempts') <= MaxTracked
    <3>1. attempts' \in [DOMAIN attempts -> Attempt] /\ attempts \in Seq(Attempt)
      BY <2>5, <2>6, AttemptsAre DEF SoundEntry
    <3> QED BY <3>1, ActsMade, AttemptsAre
  <2>11. OneEach'
    BY <2>5, <2>6 DEF OneEach, AttemptInv
  <2>12. ASSUME Paced, NEW j \in Claimants PROVE Tallied(j)'
    <3>1. Tallied(j)
      BY <2>12 DEF AttemptInv
    <3>2. \A l \in DOMAIN attempts : Of(attempts'[l], j) <=> Of(attempts[l], j)
      BY <2>2, <2>3, <2>4, <2>5 DEF Of
    <3>3. \A l \in DOMAIN attempts : Of(attempts'[l], j) => Tally(attempts'[l], misses'[j])
      BY <2>8, <2>12, <3>2 DEF Of
    <3>4. (\A l \in DOMAIN attempts : ~Of(attempts'[l], j)) => Clean(misses'[j])
      BY <2>9, <2>12, <3>1, <3>2 DEF Tallied
    <3> QED BY <2>5, <3>3, <3>4 DEF Tallied
  <2> QED BY <1>1, <1>2, <1>5, <2>1, <2>5, <2>6, <2>7, <2>10, <2>11, <2>12 DEF AttemptInv, OneAtATime, Paced
<1>7. ASSUME EntryOf(i) = {}, HasSlot(i), attempts' = Append(attempts, Missed(NewAttempt(i))) PROVE AttemptInv'
  <2>1. PICK e : e = NewAttempt(i)
    OBVIOUS
  <2>2. SoundEntry(e) /\ e.used /\ e.name = i /\ e.state # "BLOCKED" /\ e.count = 0
    <3>1. LongAgo \in Past /\ 0 \in 0..MaxMisses /\ 0 \in 0..BlockTime /\ 0 \in 0..DelayAfter[MaxMisses]
          /\ 0 # MaxMisses
      <4>1. DelayAfter[MaxMisses] \in Nat
        BY AttemptAssumption
      <4> QED BY <4>1, AttemptNumbers DEF Past
    <3>2. e \in Attempt /\ e.used /\ e.name = i /\ e.state = "READY" /\ e.count = 0
      BY <2>1, <3>1 DEF NewAttempt, Attempt
    <3> QED BY <3>1, <3>2 DEF SoundEntry
  <2>3. PICK new : new = Missed(e)
    OBVIOUS
  <2>4. SoundEntry(new) /\ new.used /\ new.name = i /\ new \in Attempt
    BY <2>2, <2>3, MissedIs DEF SoundEntry
  <2>5. Len(attempts) < MaxTracked
    BY <1>7 DEF HasSlot
  <2>6. PICK n : n = Len(attempts) + 1
    OBVIOUS
  <2>7. /\ attempts' \in Seq(Attempt) /\ Len(attempts') = n /\ n <= MaxTracked /\ DOMAIN attempts' = 1..n
        /\ \A l \in DOMAIN attempts' : attempts'[l] = IF l = n THEN new ELSE attempts[l]
        /\ \A l \in DOMAIN attempts' : l = n \/ l \in DOMAIN attempts
        /\ n \in DOMAIN attempts' /\ \A l \in DOMAIN attempts : l \in DOMAIN attempts' /\ l # n
    BY <1>7, <2>1, <2>3, <2>4, <2>5, <2>6, AttemptsAre, AttemptNumbers, SMTT(30)
  <2>8. \A l \in DOMAIN attempts : ~Of(attempts[l], i)
    BY <1>7 DEF EntryOf, Of
  <2>9. \A l \in DOMAIN attempts' : SoundEntry(attempts'[l])
    BY <2>4, <2>7 DEF AttemptInv
  <2>10. OneEach'
    BY <2>4, <2>7, <2>8 DEF OneEach, AttemptInv, Of
  <2>11. ASSUME OneAtATime PROVE Waiting'
    <3>1. Waiting
      BY <2>11 DEF AttemptInv
    <3>2. ASSUME NEW l \in DOMAIN attempts', attempts'[l].state = "BLOCKED" PROVE trying'[attempts'[l].name] = 0
      <4>1. CASE l = n
        BY <1>2, <2>4, <2>7, <2>11, <4>1
      <4>2. CASE l # n
        BY <1>2, <2>7, <3>1, <3>2, <4>2, AttemptsAre DEF Waiting
      <4> QED BY <4>1, <4>2
    <3> QED BY <3>2 DEF Waiting
  <2>12. ASSUME Paced, NEW j \in Claimants PROVE Tallied(j)'
    <3>1. Tallied(j) /\ Tallied(i)
      BY <2>12 DEF AttemptInv
    <3>2. CASE j = i
      <4>1. Clean(m)
        BY <1>3, <2>8, <3>1 DEF Tallied
      <4>2. Tally(e, m)
        BY <2>2, <4>1 DEF Tally
      <4>3. Tally(new, OneMore(m))
        BY <1>4, <2>2, <2>3, <4>2, TallyMissed
      <4>4. \A l \in DOMAIN attempts' : Of(attempts'[l], j) => l = n
        BY <2>7, <2>8, <3>2
      <4>5. Of(attempts'[n], j) /\ misses'[j] = OneMore(m) /\ attempts'[n] = new
        BY <1>5, <1>7, <2>4, <2>7, <3>2 DEF Of
      <4> QED BY <2>7, <4>3, <4>4, <4>5 DEF Tallied
    <3>3. CASE j # i
      <4>1. misses'[j] = misses[j] /\ ~Of(new, j)
        BY <1>5, <1>7, <2>4, <3>3 DEF Of
      <4>2. \A l \in DOMAIN attempts' : Of(attempts'[l], j) => Tally(attempts'[l], misses'[j])
        BY <2>7, <3>1, <4>1 DEF Tallied
      <4>3. (\A l \in DOMAIN attempts' : ~Of(attempts'[l], j)) => Clean(misses'[j])
        BY <2>7, <3>1, <4>1 DEF Tallied
      <4> QED BY <4>2, <4>3 DEF Tallied
    <3> QED BY <3>2, <3>3
  <2> QED BY <1>1, <1>2, <1>5, <1>7, <2>7, <2>9, <2>10, <2>11, <2>12 DEF AttemptInv, OneAtATime, Paced
<1>8. ASSUME ~HasSlot(i), UNCHANGED attempts PROVE AttemptInv'
  <2>1. misses' = misses /\ attempts' = attempts
    BY <1>8 DEF RecordFailure
  <2>2. OneAtATime => Waiting'
    BY <1>2, <2>1, TryingLess
  <2> QED BY <1>1, <1>2, <2>1, <2>2 DEF AttemptInv, OneEach, Tallied, OneAtATime, Paced
<1> QED BY <1>6, <1>7, <1>8 DEF RecordFailure

LEMMA AttemptElapseHolds ==
  ASSUME AttemptInv, AttemptElapse
  PROVE  AttemptInv'
<1>1. /\ attempts' = [k \in DOMAIN attempts |-> OlderEntry(attempts[k])]
      /\ misses' = [i \in Claimants |-> Shifted(misses[i])] /\ trying' = trying
  BY DEF AttemptElapse, OlderEntry, Shifted
<1>2. cleaned' \in 0..CleanupInterval
  <2>1. cleaned' = (IF cleaned < CleanupInterval THEN cleaned + 1 ELSE cleaned)
        /\ cleaned \in 0..CleanupInterval /\ CleanupInterval \in Nat
    BY AttemptNumbers DEF AttemptElapse, AttemptInv
  <2> QED BY <2>1
<1>3. \A i \in Claimants : misses[i] \in Counts /\ Shifted(misses[i]) \in Counts
  <2>1. ASSUME NEW m \in Counts PROVE Shifted(m) \in Counts
    <3>1. PICK new : new = Shifted(m)
      OBVIOUS
    <3>2. new \in Counts
      BY <3>1, SumsShift DEF Shifted
    <3> QED BY <3>1, <3>2
  <2> QED BY <2>1 DEF AttemptInv
<1>4. misses' \in [Claimants -> Counts] /\ \A i \in Claimants : misses'[i] = Shifted(misses[i])
  BY <1>1, <1>3
<1>5. /\ attempts' = [k \in DOMAIN attempts |-> attempts'[k]] /\ DOMAIN attempts' = DOMAIN attempts
      /\ \A k \in DOMAIN attempts : attempts'[k] = OlderEntry(attempts[k])
  BY <1>1
<1>6. \A k \in DOMAIN attempts :
        /\ SoundEntry(attempts'[k]) /\ attempts'[k].name = attempts[k].name
        /\ attempts'[k].used = attempts[k].used /\ attempts'[k].state = attempts[k].state
  <2>1. ASSUME NEW e, SoundEntry(e)
        PROVE  SoundEntry(OlderEntry(e)) /\ OlderEntry(e).name = e.name /\ OlderEntry(e).used = e.used
               /\ OlderEntry(e).state = e.state
    BY <2>1, OlderEntryIs
  <2>2. \A k \in DOMAIN attempts : SoundEntry(attempts[k])
    BY DEF AttemptInv
  <2> QED BY <1>5, <2>1, <2>2
<1>7. trying' \in [Claimants -> 0..MaxTrying]
  BY <1>1 DEF AttemptInv
<1>8. OneAtATime => Waiting'
  BY <1>1, <1>5, <1>6, <1>7, TryingLess
<1>9. ASSUME Paced, NEW i \in Claimants, NEW k \in DOMAIN attempts, Of(attempts[k], i)
      PROVE  IF attempts'[k].used THEN Tally(attempts'[k], misses'[i]) ELSE Clean(misses'[i])
  <2>1. PICK e, m : e = attempts[k] /\ m = misses[i]
    OBVIOUS
  <2>2. SoundEntry(e) /\ m \in Counts /\ Tally(e, m) /\ BlockTime >= MissWindow /\ e.used
    BY <1>9, <2>1 DEF AttemptInv, Tallied, Paced, Of
  <2>3. Tally(OlderEntry(e), Shifted(m))
    BY <2>2, TallyLater
  <2> QED BY <1>4, <1>5, <1>6, <2>1, <2>2, <2>3
<1>10. ASSUME NEW i \in Claimants, Clean(misses[i]) PROVE Clean(misses'[i])
  BY <1>3, <1>4, <1>10, CleanLater
<1> QED BY <1>2, <1>4, <1>5, <1>6, <1>7, <1>8, <1>9, <1>10, EntriesChange

-----------------------------------------------------------------------------
(* The transactions, over the policies they were opened under.             *)
Policy == [enabled : BOOLEAN, factors : FactorSets]
KnownPolicies == {q \in Policies : PolicyKnown(q)}
TxSound(a) == a \in Tx /\ (a.state = "VERIFIED" => AllVerified(a))

MfaInv ==
  /\ policies \in [Policies -> Policy \cup {NoPolicy}]
  /\ IsFiniteSet(KnownPolicies) /\ Cardinality(KnownPolicies) <= MaxPolicies
  /\ txs \in Seq(Tx) /\ Len(txs) <= MaxTransactions
  /\ \A t \in DOMAIN txs : TxSound(txs[t])
  /\ NewestOnly

LEMMA MfaStart == MfaInit => MfaInv
<1> SUFFICES ASSUME MfaInit PROVE MfaInv OBVIOUS
<1>1. /\ txs = <<>> /\ DOMAIN txs = {} /\ txs \in Seq(Tx) /\ Len(txs) = 0
      /\ policies = [p \in Policies |-> NoPolicy]
  BY DEF MfaInit
<1>2. KnownPolicies = {}
  BY <1>1 DEF KnownPolicies, PolicyKnown
<1>3. IsFiniteSet(KnownPolicies) /\ Cardinality(KnownPolicies) = 0
  BY <1>2, FS_EmptySet
<1>4. 0 <= MaxPolicies /\ 0 <= MaxTransactions
  BY MfaAssumption
<1> QED BY <1>1, <1>3, <1>4 DEF MfaInv, NewestOnly

LEMMA TxsAre ==
  ASSUME MfaInv
  PROVE  /\ txs \in Seq(Tx) /\ Len(txs) \in Nat /\ Len(txs) <= MaxTransactions
         /\ DOMAIN txs = 1..Len(txs) /\ txs = [t \in DOMAIN txs |-> txs[t]]
         /\ \A t \in DOMAIN txs : txs[t] \in Tx /\ txs[t].owner \in Claimants
<1>1. txs \in Seq(Tx) /\ Len(txs) <= MaxTransactions
  BY DEF MfaInv
<1>2. \A a \in Tx : a.owner \in Claimants
  BY DEF Tx
<1>3. /\ Len(txs) \in Nat /\ DOMAIN txs = 1..Len(txs) /\ txs = [t \in DOMAIN txs |-> txs[t]]
      /\ \A t \in DOMAIN txs : txs[t] \in Tx
  BY <1>1
<1> QED BY <1>1, <1>2, <1>3

LEMMA MoveIs ==
  ASSUME NEW a, a \in Tx, NEW to \in TxStates
  PROVE  /\ Move(a, to) \in Tx /\ Move(a, to).owner = a.owner /\ Move(a, to).factor = a.factor
         /\ Move(a, to).policy = a.policy /\ Move(a, to).left = a.left
         /\ \/ Move(a, to).state = a.state
            \/ Move(a, to).state = to /\ <<a.state, to>> \in TxMoves
         /\ <<a.state, to>> \in TxMoves => Move(a, to).state = to /\ a.state \in Underway
<1>1. PICK n : n = [a EXCEPT !.state = to]
  OBVIOUS
<1>2. n \in Tx /\ n.owner = a.owner /\ n.factor = a.factor /\ n.policy = a.policy /\ n.left = a.left /\ n.state = to
  BY <1>1 DEF Tx
<1>3. <<a.state, to>> \in TxMoves => a.state \in Underway
  BY DEF TxMoves, Underway
<1>4. Move(a, to) = IF <<a.state, to>> \in TxMoves THEN n ELSE a
  BY <1>1 DEF Move
<1> QED BY <1>2, <1>3, <1>4

(* A step of one transaction, or of several where they are.                *)
TxStep(a, b) ==
  /\ TxSound(b) /\ b.owner = a.owner
  /\ b.state \in Underway => a.state \in Underway

LEMMA TxsChange ==
  ASSUME MfaInv, UNCHANGED policies, txs' = [t \in DOMAIN txs |-> txs'[t]],
         \A t \in DOMAIN txs : TxStep(txs[t], txs'[t])
  PROVE  MfaInv'
<1>1. txs' \in [DOMAIN txs -> Tx] /\ DOMAIN txs' = DOMAIN txs
  BY DEF TxStep, TxSound
<1>2. txs' \in Seq(Tx) /\ Len(txs') = Len(txs)
  BY <1>1, TxsAre, ActsMade
<1>3. KnownPolicies' = KnownPolicies
  BY DEF KnownPolicies, PolicyKnown
<1>4. NewestOnly'
  BY <1>1, TxsAre DEF MfaInv, NewestOnly, TxStep
<1> QED BY <1>1, <1>2, <1>3, <1>4 DEF MfaInv, TxStep

LEMMA OneTxChanges ==
  ASSUME MfaInv, UNCHANGED policies, NEW t \in DOMAIN txs, NEW b, TxStep(txs[t], b),
         txs' = [txs EXCEPT ![t] = b]
  PROVE  MfaInv'
<1>1. /\ txs' = [u \in DOMAIN txs |-> txs'[u]]
      /\ \A u \in DOMAIN txs : txs'[u] = IF u = t THEN b ELSE txs[u]
  BY TxsAre
<1>2. \A u \in DOMAIN txs : TxStep(txs[u], txs'[u])
  BY <1>1 DEF TxStep, MfaInv
<1> QED BY <1>1, <1>2, TxsChange

LEMMA MovedStep ==
  ASSUME NEW a, TxSound(a), NEW to \in TxStates, to \notin Underway \/ <<a.state, to>> \in TxMoves,
         to = "VERIFIED" => AllVerified(a)
  PROVE  TxStep(a, Move(a, to))
<1>1. PICK b : b = Move(a, to)
  OBVIOUS
<1>2. a \in Tx
  BY DEF TxSound
<1>3. /\ b \in Tx /\ b.owner = a.owner /\ b.factor = a.factor
      /\ b.state = a.state \/ (b.state = to /\ <<a.state, to>> \in TxMoves)
      /\ <<a.state, to>> \in TxMoves => b.state = to /\ a.state \in Underway
  BY <1>1, <1>2, MoveIs
<1>4. b.state = "VERIFIED" => AllVerified(b)
  BY <1>3 DEF TxSound, AllVerified
<1> QED BY <1>1, <1>3, <1>4 DEF TxStep, TxSound

LEMMA CancelledIs ==
  ASSUME MfaInv, NEW i
  PROVE  /\ CancelledOf(i) = [t \in DOMAIN txs |-> CancelledOf(i)[t]]
         /\ \A t \in DOMAIN txs :
              /\ TxStep(txs[t], CancelledOf(i)[t])
              /\ txs[t].owner = i => CancelledOf(i)[t].state \notin Underway
<1> SUFFICES ASSUME NEW t \in DOMAIN txs
             PROVE  /\ TxStep(txs[t], CancelledOf(i)[t])
                    /\ txs[t].owner = i => CancelledOf(i)[t].state \notin Underway
  BY DEF CancelledOf
<1>1. PICK a : a = txs[t]
  OBVIOUS
<1>2. TxSound(a) /\ a \in Tx
  BY <1>1 DEF MfaInv, TxSound
<1>3. CASE a.owner = i /\ a.state \in Underway
  <2>1. CancelledOf(i)[t] = Move(a, "CANCELLED")
    BY <1>1, <1>3 DEF CancelledOf
  <2>2. "CANCELLED" \in TxStates /\ "CANCELLED" \notin Underway /\ <<a.state, "CANCELLED">> \in TxMoves
    BY <1>3 DEF TxStates, Underway, TxMoves
  <2>3. TxStep(a, Move(a, "CANCELLED")) /\ Move(a, "CANCELLED").state = "CANCELLED"
    BY <1>2, <2>2, MovedStep, MoveIs
  <2> QED BY <1>1, <2>1, <2>2, <2>3
<1>4. CASE ~(a.owner = i /\ a.state \in Underway)
  BY <1>1, <1>2, <1>4 DEF CancelledOf, TxStep
<1> QED BY <1>3, <1>4

(* Policies come and go without a word to the transactions.                *)
LEMMA OnePolicyChanges ==
  ASSUME MfaInv, NEW p \in Policies, NEW new \in Policy \cup {NoPolicy},
         policies' = [policies EXCEPT ![p] = new], UNCHANGED txs,
         PolicyKnown(p) \/ new = NoPolicy \/ Cardinality(KnownPolicies) < MaxPolicies
  PROVE  MfaInv'
<1>1. policies' \in [Policies -> Policy \cup {NoPolicy}]
  BY DEF MfaInv
<1>2. \A q \in Policies : policies'[q] = IF q = p THEN new ELSE policies[q]
  BY DEF MfaInv
<1>3. IsFiniteSet(KnownPolicies) /\ Cardinality(KnownPolicies) <= MaxPolicies /\ MaxPolicies \in Nat
      /\ Cardinality(KnownPolicies) \in Nat
  BY FS_CardinalityType, MfaAssumption DEF MfaInv
<1>4. IsFiniteSet(KnownPolicies') /\ Cardinality(KnownPolicies') <= MaxPolicies
  <2>1. CASE KnownPolicies' \subseteq KnownPolicies
    <3>1. IsFiniteSet(KnownPolicies') /\ Cardinality(KnownPolicies') <= Cardinality(KnownPolicies)
          /\ Cardinality(KnownPolicies') \in Nat
      BY <1>3, <2>1, FS_Subset, FS_CardinalityType
    <3> QED BY <1>3, <3>1
  <2>2. CASE ~(KnownPolicies' \subseteq KnownPolicies)
    <3>1. p \notin KnownPolicies /\ new # NoPolicy
      BY <1>2, <2>2 DEF KnownPolicies, PolicyKnown
    <3>2. KnownPolicies' = KnownPolicies \cup {p}
      BY <1>2, <3>1 DEF KnownPolicies, PolicyKnown
    <3>3. IsFiniteSet(KnownPolicies') /\ Cardinality(KnownPolicies') = Cardinality(KnownPolicies) + 1
      BY <1>3, <3>1, <3>2, FS_AddElement
    <3>4. Cardinality(KnownPolicies) < MaxPolicies
      BY <3>1 DEF KnownPolicies
    <3> QED BY <1>3, <3>3, <3>4
  <2> QED BY <2>1, <2>2
<1> QED BY <1>1, <1>4 DEF MfaInv, NewestOnly

LEMMA CreateTxHolds ==
  ASSUME MfaInv, NEW i \in Claimants, NEW p \in Policies, CreateTx(i, p)
  PROVE  MfaInv'
<1>1. policies' = policies /\ PolicyKnown(p)
  BY DEF CreateTx
<1>2. CASE txs' = txs
  BY <1>1, <1>2 DEF MfaInv, NewestOnly, KnownPolicies, PolicyKnown
<1>3. CASE txs' # txs
  <2>1. PICK new : new = [owner |-> i, policy |-> p, state |-> "NOT_STARTED", left |-> TxTimeout,
                          factor |-> [f \in policies[p].factors |-> "PENDING"]]
    OBVIOUS
  <2>2. PICK table : table = CancelledOf(i)
    OBVIOUS
  <2>3. txs' = Append(table, new) /\ Len(txs) < MaxTransactions
    <3>1. ~TableFull /\ txs' = Append(table, new)
      BY <1>3, <2>1, <2>2 DEF CreateTx
    <3> QED BY <3>1, TxsAre, MfaAssumption DEF TableFull
  <2>4. new \in Tx /\ new.owner = i /\ new.state = "NOT_STARTED"
    <3>1. policies[p].factors \in FactorSets
      BY <1>1 DEF MfaInv, Policy, PolicyKnown
    <3>2. PICK F : F = policies[p].factors
      OBVIOUS
    <3>3. [f \in F |-> "PENDING"] \in [F -> FactorStates]
      BY DEF FactorStates
    <3>4. [f \in F |-> "PENDING"] \in UNION {[G -> FactorStates] : G \in FactorSets}
      BY <3>1, <3>2, <3>3
    <3>5. TxTimeout \in 0..TxTimeout
      BY MfaAssumption
    <3> QED BY <2>1, <3>2, <3>4, <3>5 DEF Tx, TxStates
  <2>5. TxSound(new)
    BY <2>4 DEF TxSound
  <2>6. /\ table = [t \in DOMAIN txs |-> table[t]]
        /\ \A t \in DOMAIN txs : /\ TxStep(txs[t], table[t])
                                 /\ txs[t].owner = i => table[t].state \notin Underway
    BY <2>2, CancelledIs
  <2>7. table \in Seq(Tx) /\ Len(table) = Len(txs)
    <3>1. table \in [DOMAIN txs -> Tx]
      BY <2>6 DEF TxStep, TxSound
    <3> QED BY <3>1, ActsMade, TxsAre
  <2>8. PICK n : n = Len(txs) + 1
    OBVIOUS
  <2>9. /\ txs' \in Seq(Tx) /\ Len(txs') = n /\ n <= MaxTransactions /\ DOMAIN txs' = 1..n
        /\ \A t \in DOMAIN txs' : txs'[t] = IF t = n THEN new ELSE table[t]
        /\ \A t \in DOMAIN txs' : t = n \/ t \in DOMAIN txs
        /\ \A t \in DOMAIN txs' : t <= n
    BY <2>3, <2>4, <2>7, <2>8, TxsAre, MfaAssumption
  <2>10. \A t \in DOMAIN txs' : TxSound(txs'[t])
    BY <2>5, <2>6, <2>9 DEF TxStep
  <2>11. NewestOnly'
    <3> SUFFICES ASSUME NEW t \in DOMAIN txs', NEW u \in DOMAIN txs', t < u, txs'[t].owner = txs'[u].owner
                 PROVE  txs'[t].state \notin Underway
      BY DEF NewestOnly
    <3>1. t \in DOMAIN txs /\ txs'[t] = table[t] /\ t # n
      BY <2>8, <2>9, TxsAre
    <3>2. CASE u = n
      <4>1. table[t].owner = i
        BY <2>4, <2>9, <3>1, <3>2
      <4>2. txs[t].owner = i
        BY <2>6, <3>1, <4>1 DEF TxStep
      <4> QED BY <2>6, <3>1, <4>2
    <3>3. CASE u # n
      <4>1. u \in DOMAIN txs /\ txs'[u] = table[u]
        BY <2>9, <3>3
      <4>2. txs[t].owner = txs[u].owner
        BY <2>6, <3>1, <4>1 DEF TxStep
      <4>3. txs[t].state \notin Underway
        BY <3>1, <4>1, <4>2 DEF MfaInv, NewestOnly
      <4> QED BY <2>6, <3>1, <4>3 DEF TxStep
    <3> QED BY <3>2, <3>3
  <2> QED BY <1>1, <2>9, <2>10, <2>11 DEF MfaInv, KnownPolicies, PolicyKnown
<1> QED BY <1>2, <1>3

(* A factor is noted, in a transaction that is not closed.                 *)
Noted(a, f, s) == [a EXCEPT !.factor[f] = s]

LEMMA FactorNoted ==
  ASSUME NEW a, TxSound(a), a.state # "VERIFIED", NEW f \in DOMAIN a.factor, NEW s \in FactorStates
  PROVE  /\ TxSound(Noted(a, f, s)) /\ Noted(a, f, s).state = a.state /\ Noted(a, f, s).owner = a.owner
         /\ Noted(a, f, s).policy = a.policy /\ Noted(a, f, s).factor = [a.factor EXCEPT ![f] = s]
<1>0. PICK b : b = Noted(a, f, s)
  OBVIOUS
<1>1. a \in Tx
  BY DEF TxSound
<1>2. PICK F \in FactorSets : a.factor \in [F -> FactorStates]
  BY <1>1 DEF Tx
<1>3. PICK g : g = [a.factor EXCEPT ![f] = s]
  OBVIOUS
<1>4. g \in [F -> FactorStates]
  BY <1>2, <1>3
<1>5. g \in UNION {[G -> FactorStates] : G \in FactorSets}
  BY <1>4
<1>6. b = [a EXCEPT !.factor = g]
  BY <1>0, <1>3 DEF Noted
<1>7. b \in Tx /\ b.state = a.state /\ b.owner = a.owner /\ b.policy = a.policy /\ b.factor = g
  BY <1>1, <1>5, <1>6 DEF Tx
<1> QED BY <1>0, <1>3, <1>7 DEF TxSound

LEMMA StartedIs ==
  ASSUME NEW a, TxSound(a), a.state # "VERIFIED"
  PROVE  /\ TxSound(Move(a, "IN_PROGRESS")) /\ Move(a, "IN_PROGRESS").state # "VERIFIED"
         /\ Move(a, "IN_PROGRESS").owner = a.owner /\ Move(a, "IN_PROGRESS").factor = a.factor
         /\ Move(a, "IN_PROGRESS").policy = a.policy
         /\ Move(a, "IN_PROGRESS").state \in Underway => a.state \in Underway
<1>1. PICK b : b = Move(a, "IN_PROGRESS")
  OBVIOUS
<1>2. a \in Tx /\ "IN_PROGRESS" \in TxStates
  BY DEF TxSound, TxStates
<1>3. /\ b \in Tx /\ b.owner = a.owner /\ b.factor = a.factor /\ b.policy = a.policy
      /\ b.state = a.state \/ (b.state = "IN_PROGRESS" /\ <<a.state, "IN_PROGRESS">> \in TxMoves)
      /\ <<a.state, "IN_PROGRESS">> \in TxMoves => a.state \in Underway
  BY <1>1, <1>2, MoveIs
<1> QED BY <1>1, <1>3 DEF TxSound

LEMMA UnprovidedStep ==
  ASSUME NEW a, TxSound(a), a.state # "VERIFIED", NEW f \in DOMAIN a.factor
  PROVE  TxStep(a, Unprovided(a, f))
<1>1. PICK c : c = IF f \in Implemented THEN Move(a, "IN_PROGRESS") ELSE a
  OBVIOUS
<1>2. /\ TxSound(c) /\ c.state # "VERIFIED" /\ c.owner = a.owner /\ c.factor = a.factor
      /\ c.state \in Underway => a.state \in Underway
  BY <1>1, StartedIs
<1>3. PICK d : d = Noted(c, f, "UNAVAILABLE")
  OBVIOUS
<1>4. TxSound(d) /\ d.state = c.state /\ d.owner = c.owner
  <2>1. f \in DOMAIN c.factor /\ "UNAVAILABLE" \in FactorStates
    BY <1>2 DEF FactorStates
  <2>2. /\ TxSound(Noted(c, f, "UNAVAILABLE")) /\ Noted(c, f, "UNAVAILABLE").state = c.state
        /\ Noted(c, f, "UNAVAILABLE").owner = c.owner
    BY <1>2, <2>1, FactorNoted, ZenonT(30)
  <2> QED BY <1>3, <2>2
<1>5. TxStep(d, Move(d, "UNAVAILABLE"))
  BY <1>4, MovedStep DEF TxStates, Underway
<1>6. Unprovided(a, f) = Move(d, "UNAVAILABLE")
  BY <1>1, <1>3 DEF Unprovided, Noted
<1> QED BY <1>2, <1>4, <1>5, <1>6 DEF TxStep

LEMMA ProvidedStep ==
  ASSUME NEW a, TxSound(a), a.state # "VERIFIED", NEW f \in DOMAIN a.factor
  PROVE  TxStep(a, Provided(a, f))
<1>1. PICK c : c = Move(a, "IN_PROGRESS")
  OBVIOUS
<1>2. /\ TxSound(c) /\ c.state # "VERIFIED" /\ c.owner = a.owner /\ c.factor = a.factor
      /\ c.state \in Underway => a.state \in Underway
  BY <1>1, StartedIs
<1>3. PICK d : d = Noted(c, f, "VERIFIED")
  OBVIOUS
<1>4. TxSound(d) /\ d.state = c.state /\ d.owner = c.owner
  <2>1. f \in DOMAIN c.factor /\ "VERIFIED" \in FactorStates
    BY <1>2 DEF FactorStates
  <2>2. /\ TxSound(Noted(c, f, "VERIFIED")) /\ Noted(c, f, "VERIFIED").state = c.state
        /\ Noted(c, f, "VERIFIED").owner = c.owner
    BY <1>2, <2>1, FactorNoted, ZenonT(30)
  <2> QED BY <1>3, <2>2
<1>5. Provided(a, f) \in {d, Move(d, "FACTOR_VERIFIED")}
  BY <1>1, <1>3 DEF Provided, Noted
<1>6. CASE Provided(a, f) = d
  BY <1>2, <1>4, <1>6 DEF TxStep
<1>7. CASE Provided(a, f) = Move(d, "FACTOR_VERIFIED")
  <2>1. PICK b : b = Move(d, "FACTOR_VERIFIED")
    OBVIOUS
  <2>2. d \in Tx /\ "FACTOR_VERIFIED" \in TxStates
    BY <1>4 DEF TxSound, TxStates
  <2>3. /\ b \in Tx /\ b.owner = d.owner /\ b.factor = d.factor
        /\ b.state = d.state \/ (b.state = "FACTOR_VERIFIED" /\ <<d.state, "FACTOR_VERIFIED">> \in TxMoves)
        /\ <<d.state, "FACTOR_VERIFIED">> \in TxMoves => d.state \in Underway
    BY <2>1, <2>2, MoveIs
  <2> QED BY <1>2, <1>4, <1>7, <2>1, <2>3 DEF TxStep, TxSound
<1> QED BY <1>5, <1>6, <1>7

LEMMA VerifyHolds ==
  ASSUME MfaInv, NEW t \in DOMAIN txs, NEW f, VerifyFactor(t, f)
  PROVE  MfaInv'
<1>1. PICK a : a = txs[t]
  OBVIOUS
<1>2. TxSound(a) /\ a.state # "VERIFIED" /\ UNCHANGED policies
  BY <1>1 DEF MfaInv, VerifyFactor, Closed
<1>3. CASE txs' = txs
  BY <1>2, <1>3 DEF MfaInv, NewestOnly, KnownPolicies, PolicyKnown
<1>4. CASE txs' = [txs EXCEPT ![t] = Move(@, "EXPIRED")]
  <2>1. TxStep(a, Move(a, "EXPIRED"))
    BY <1>2, MovedStep DEF TxStates, Underway
  <2> QED BY <1>1, <1>2, <1>4, <2>1, OneTxChanges
<1>5. CASE f \in DOMAIN a.factor /\ txs' = [txs EXCEPT ![t] = Unprovided(@, f)]
  <2>1. TxStep(a, Unprovided(a, f))
    BY <1>2, <1>5, UnprovidedStep
  <2> QED BY <1>1, <1>2, <1>5, <2>1, OneTxChanges
<1>6. CASE f \in DOMAIN a.factor /\ txs' = [txs EXCEPT ![t] = Provided(@, f)]
  <2>1. TxStep(a, Provided(a, f))
    BY <1>2, <1>6, ProvidedStep
  <2> QED BY <1>1, <1>2, <1>6, <2>1, OneTxChanges
<1> QED BY <1>1, <1>3, <1>4, <1>5, <1>6 DEF VerifyFactor, Presentable

LEMMA CompleteHolds ==
  ASSUME MfaInv, NEW t \in DOMAIN txs, CompleteTx(t)
  PROVE  MfaInv'
<1>1. PICK a : a = txs[t]
  OBVIOUS
<1>2. TxSound(a) /\ UNCHANGED policies
  BY <1>1 DEF MfaInv, CompleteTx
<1>3. CASE txs' = [txs EXCEPT ![t] = Move(@, "EXPIRED")]
  <2>1. TxStep(a, Move(a, "EXPIRED"))
    BY <1>2, MovedStep DEF TxStates, Underway
  <2> QED BY <1>1, <1>2, <1>3, <2>1, OneTxChanges
<1>4. CASE AllVerified(a) /\ txs' = [txs EXCEPT ![t] = Move(@, "VERIFIED")]
  <2>1. TxStep(a, Move(a, "VERIFIED"))
    BY <1>2, <1>4, MovedStep DEF TxStates, Underway
  <2> QED BY <1>1, <1>2, <1>4, <2>1, OneTxChanges
<1> QED BY <1>1, <1>3, <1>4 DEF CompleteTx

LEMMA MfaStepHolds ==
  ASSUME MfaInv, MfaStep
  PROVE  MfaInv'
<1>1. ASSUME NEW p \in Policies, DeletePolicy(p) PROVE MfaInv'
  BY <1>1, OnePolicyChanges DEF DeletePolicy
<1>2. ASSUME NEW p \in Policies, NEW F \in FactorSets, CreatePolicy(p, F) PROVE MfaInv'
  <2>1. PICK new : new = [enabled |-> TRUE, factors |-> F]
    OBVIOUS
  <2>2. new \in Policy \cup {NoPolicy}
    BY <2>1 DEF Policy
  <2>3. policies' = [policies EXCEPT ![p] = new] /\ UNCHANGED txs /\ Cardinality(KnownPolicies) < MaxPolicies
    BY <1>2, <2>1 DEF CreatePolicy, KnownPolicies
  <2> QED BY <2>2, <2>3, OnePolicyChanges
<1>3. ASSUME NEW p \in Policies, NEW on \in BOOLEAN, SwitchPolicy(p, on) PROVE MfaInv'
  <2>1. PICK new : new = [policies[p] EXCEPT !.enabled = on]
    OBVIOUS
  <2>2. policies[p] \in Policy /\ PolicyKnown(p)
    BY <1>3 DEF SwitchPolicy, PolicyKnown, MfaInv
  <2>3. new \in Policy \cup {NoPolicy}
    BY <2>1, <2>2 DEF Policy
  <2>4. policies' = [policies EXCEPT ![p] = new] /\ UNCHANGED txs
    BY <1>3, <2>1 DEF SwitchPolicy
  <2> QED BY <2>2, <2>3, <2>4, OnePolicyChanges
<1>4. ASSUME NEW t \in DOMAIN txs, CancelTx(t) PROVE MfaInv'
  <2>1. PICK a : a = txs[t]
    OBVIOUS
  <2>2. TxSound(a)
    BY <2>1 DEF MfaInv
  <2>3. TxStep(a, Move(a, "CANCELLED"))
    BY <2>2, MovedStep DEF TxStates, Underway
  <2> QED BY <1>4, <2>1, <2>3, OneTxChanges DEF CancelTx
<1>5. ASSUME NEW i \in Claimants, CancelAllOf(i) PROVE MfaInv'
  <2>1. txs' = CancelledOf(i) /\ UNCHANGED policies
    BY <1>5 DEF CancelAllOf
  <2> QED BY <2>1, CancelledIs, TxsChange
<1> QED BY <1>1, <1>2, <1>3, <1>4, <1>5, CreateTxHolds, CompleteHolds, VerifyHolds DEF MfaStep

LEMMA MfaElapseHolds ==
  ASSUME MfaInv, MfaElapse
  PROVE  MfaInv'
<1>1. ASSUME NEW a, NEW b, TxSound(a), b = [a EXCEPT !.left = IF @ = 0 THEN 0 ELSE @ - 1]
      PROVE  TxStep(a, b)
  <2>1. a \in Tx
    BY <1>1 DEF TxSound
  <2>2. (IF a.left = 0 THEN 0 ELSE a.left - 1) \in 0..TxTimeout
    BY <2>1, MfaAssumption DEF Tx
  <2>3. b \in Tx /\ b.owner = a.owner /\ b.state = a.state /\ b.factor = a.factor
    BY <1>1, <2>1, <2>2 DEF Tx
  <2> QED BY <1>1, <2>3 DEF TxStep, TxSound, AllVerified
<1>2. /\ txs' = [t \in DOMAIN txs |-> txs'[t]] /\ UNCHANGED policies
      /\ \A t \in DOMAIN txs : txs'[t] = [txs[t] EXCEPT !.left = IF @ = 0 THEN 0 ELSE @ - 1]
  BY DEF MfaElapse
<1>3. \A t \in DOMAIN txs : TxStep(txs[t], txs'[t])
  BY <1>1, <1>2 DEF MfaInv
<1> QED BY <1>2, <1>3, TxsChange

LEMMA MfaStays ==
  ASSUME MfaInv,
         SecurityNext \/ UNCHANGED <<beforeVars, keyVaultVars, incidentVars, dispatchVars, afterVars, service>>
  PROVE  MfaInv'
<1>1. CASE UNCHANGED mfaVars
  BY <1>1 DEF mfaVars, MfaInv, NewestOnly, KnownPolicies, PolicyKnown
<1> QED BY <1>1, MfaStepHolds, MfaElapseHolds DEF SecurityNext, AroundMfa, beforeVars

-----------------------------------------------------------------------------
(* Whatever service moves, the table of attempts is checked, told of a     *)
(* failure, cleared of an identity, or gets older.                         *)
IsAsked(i) ==
  /\ attempts' = CheckedTable(i) /\ CleanupDone /\ UNCHANGED misses
  /\ \/ UNCHANGED trying
     \/ AllowedNow(i) /\ trying[i] < MaxTrying /\ trying' = [trying EXCEPT ![i] = @ + 1]
IsForgiven(i) ==
  /\ \E table \in {attempts, CheckedTable(i)} : attempts' = Forgiven(table, i)
  /\ misses' = [misses EXCEPT ![i] = NoMisses] /\ cleaned' \in 0..CleanupInterval
  /\ trying' \in [Claimants -> 0..MaxTrying] /\ \A j \in Claimants : trying'[j] <= trying[j]

LEMMA AttemptSteps ==
  ASSUME AttemptInv, MfaInv,
         SecurityNext \/ UNCHANGED <<beforeVars, keyVaultVars, incidentVars, dispatchVars, afterVars, service>>
  PROVE  \/ UNCHANGED attemptVars \/ AttemptElapse
         \/ \E i \in Claimants : IsAsked(i) \/ IsForgiven(i) \/ RecordFailure(i)
<1>1. ASSUME NEW i \in Claimants, CheckAllowed(i) PROVE IsAsked(i)
  <2>1. trying = [trying EXCEPT ![i] = @]
    BY DEF AttemptInv
  <2>2. CASE AllowedNow(i)
    BY <1>1, <2>2 DEF CheckAllowed, IsAsked
  <2>3. CASE ~AllowedNow(i)
    BY <1>1, <2>1, <2>3 DEF CheckAllowed, IsAsked
  <2> QED BY <2>2, <2>3
<1>2. /\ cleaned \in 0..CleanupInterval /\ trying \in [Claimants -> 0..MaxTrying]
      /\ CleanupDone => cleaned' \in 0..CleanupInterval
      /\ \A j \in Claimants : trying[j] <= trying[j]
  <2>1. CleanupDone => cleaned' \in {cleaned, 0}
    BY DEF CleanupDone
  <2>2. 0 \in 0..CleanupInterval
    BY AttemptNumbers
  <2> QED BY <2>1, <2>2, AttemptNumbers DEF AttemptInv
<1>3. ASSUME NEW i \in Claimants, RecordSuccess(i) PROVE IsForgiven(i)
  <2>1. trying' \in [Claimants -> 0..MaxTrying] /\ \A j \in Claimants : trying'[j] <= trying[j]
    <3>1. trying[i] - 1 \in 0..MaxTrying /\ trying[i] - 1 <= trying[i]
      BY <1>2, <1>3, AttemptNumbers DEF RecordSuccess
    <3> QED BY <1>2, <1>3, <3>1 DEF RecordSuccess
  <2> QED BY <1>2, <1>3, <2>1 DEF RecordSuccess, Forgive, IsForgiven
<1>4. ASSUME NEW i \in Claimants, ResetAttempts(i) PROVE IsForgiven(i)
  BY <1>2, <1>4 DEF ResetAttempts, Forgive, IsForgiven
<1>5. ASSUME NEW i \in Claimants, NEW p \in Policies, CreateTx(i, p) PROVE IsAsked(i)
  BY <1>5 DEF CreateTx, IsAsked
<1>6. ASSUME NEW t \in DOMAIN txs, CompleteTx(t) PROVE UNCHANGED attemptVars \/ IsForgiven(txs[t].owner)
  BY <1>2, <1>6 DEF CompleteTx, Forgive, IsForgiven, attemptVars
<1>7. ASSUME NEW t \in DOMAIN txs, NEW f, VerifyFactor(t, f)
      PROVE  UNCHANGED attemptVars \/ IsAsked(txs[t].owner) \/ IsForgiven(txs[t].owner)
  BY <1>2, <1>7 DEF VerifyFactor, IsAsked, IsForgiven, attemptVars
<1>8. CASE MfaStep
  <2>1. \A t \in DOMAIN txs : txs[t].owner \in Claimants
    BY TxsAre
  <2> QED BY <1>5, <1>6, <1>7, <1>8, <2>1 DEF MfaStep
<1>9. CASE AttemptNext
  BY <1>1, <1>3, <1>4, <1>9 DEF AttemptNext
<1>10. CASE AroundMfa
  BY <1>1, <1>10 DEF AroundMfa
<1> QED BY <1>8, <1>9, <1>10 DEF SecurityNext, MfaElapse, beforeVars

LEMMA ForgivenTable ==
  ASSUME AttemptInv, NEW i, NEW table \in {attempts, CheckedTable(i)}
  PROVE  table = [k \in DOMAIN attempts |-> table[k]] /\ \A k \in DOMAIN attempts : Eased(attempts[k], table[k])
<1>1. \A k \in DOMAIN attempts : SoundEntry(attempts[k])
  BY DEF AttemptInv
<1>2. CASE table = attempts
  BY <1>1, <1>2, AttemptsAre DEF Eased
<1>3. CASE table = CheckedTable(i)
  BY <1>1, <1>3, CheckedTableIs
<1> QED BY <1>2, <1>3

LEMMA AttemptsStay ==
  ASSUME AttemptInv, MfaInv,
         SecurityNext \/ UNCHANGED <<beforeVars, keyVaultVars, incidentVars, dispatchVars, afterVars, service>>
  PROVE  AttemptInv'
<1>1. CASE UNCHANGED attemptVars
  BY <1>1 DEF attemptVars, AttemptInv, OneEach, Waiting, Tallied, OneAtATime, Paced
<1>2. ASSUME NEW i \in Claimants, IsForgiven(i) PROVE AttemptInv'
  <2>1. PICK table \in {attempts, CheckedTable(i)} : attempts' = Forgiven(table, i)
    BY <1>2 DEF IsForgiven
  <2>2. trying \in [Claimants -> 0..MaxTrying] /\ MaxTrying \in Nat
    BY AttemptNumbers DEF AttemptInv
  <2>3. \A j \in Claimants : trying[j] = 0 => trying'[j] = 0
    BY <1>2, <2>2 DEF IsForgiven
  <2> QED BY <1>2, <2>1, <2>3, ForgivenTable, ForgiveHolds DEF IsForgiven
<1>3. ASSUME NEW i \in Claimants, IsAsked(i) PROVE AttemptInv'
  BY <1>3, CheckHolds DEF IsAsked
<1> QED BY <1>1, <1>2, <1>3, AttemptSteps, RecordHolds, AttemptElapseHolds

(* A block that runs is kept, or cleared away with the whole entry.        *)
LEMMA BlockKept ==
  ASSUME AttemptInv, MfaInv, OneAtATime,
         SecurityNext \/ UNCHANGED <<beforeVars, keyVaultVars, incidentVars, dispatchVars, afterVars, service>>,
         NEW k \in DOMAIN attempts, attempts[k].state = "BLOCKED", attempts[k].block > 0
  PROVE  \/ /\ attempts'[k].used /\ attempts'[k].state = "BLOCKED"
            /\ trying'[attempts[k].name] <= trying[attempts[k].name]
         \/ attempts'[k] = Cleared(attempts[k])
<1>1. PICK e : e = attempts[k]
  OBVIOUS
<1>2. SoundEntry(e) /\ e.used /\ e.state = "BLOCKED" /\ e.name \in Claimants /\ trying[e.name] = 0
      /\ \A l \in DOMAIN attempts : SoundEntry(attempts[l])
  BY <1>1, AttemptsAre DEF AttemptInv, Waiting, SoundEntry
<1>3. CASE UNCHANGED attemptVars
  BY <1>1, <1>2, <1>3 DEF attemptVars
<1>4. CASE AttemptElapse
  <2>1. attempts'[k] = OlderEntry(e) /\ trying' = trying
    BY <1>1, <1>4 DEF AttemptElapse, OlderEntry
  <2>2. OlderEntry(e).used = e.used /\ OlderEntry(e).state = e.state
    BY <1>2, OlderEntryIs
  <2> QED BY <1>1, <1>2, <2>1, <2>2
<1>5. ASSUME NEW i \in Claimants, IsAsked(i)
      PROVE  attempts'[k] = e /\ trying'[e.name] <= trying[e.name]
  <2>1. attempts'[k] = e /\ (e.name = i => ~AllowedNow(i))
    BY <1>1, <1>2, <1>5, CheckedTableIs DEF IsAsked
  <2>2. trying'[e.name] = trying[e.name]
    BY <1>2, <1>5, <2>1 DEF IsAsked, AttemptInv
  <2> QED BY <1>2, <2>1, <2>2
<1>6. ASSUME NEW i \in Claimants, IsForgiven(i)
      PROVE  attempts'[k] \in {e, Cleared(e)} /\ trying'[e.name] <= trying[e.name]
  <2>1. PICK table \in {attempts, CheckedTable(i)} : attempts' = Forgiven(table, i)
    BY <1>6 DEF IsForgiven
  <2>2. table[k] = e /\ DOMAIN table = DOMAIN attempts
    <3>1. CASE table = attempts
      BY <1>1, <3>1
    <3>2. CASE table = CheckedTable(i)
      BY <1>1, <1>2, <3>2, CheckedTableIs
    <3> QED BY <2>1, <3>1, <3>2
  <2>3. attempts'[k] = IF Of(e, i) THEN Cleared(e) ELSE e
    BY <2>1, <2>2 DEF Forgiven
  <2> QED BY <1>2, <1>6, <2>3 DEF IsForgiven
<1>7. ASSUME NEW i \in Claimants, RecordFailure(i)
      PROVE  attempts'[k] = e /\ trying'[e.name] <= trying[e.name]
  <2>1. e.name # i
    BY <1>2, <1>7 DEF RecordFailure
  <2>2. trying'[e.name] = trying[e.name]
    BY <1>2, <1>7, <2>1 DEF RecordFailure, AttemptInv
  <2>3. k \notin EntryOf(i)
    BY <1>1, <2>1 DEF EntryOf
  <2>4. attempts'[k] = e
    <3>1. ASSUME NEW new, attempts' = Append(attempts, new) PROVE attempts'[k] = e
      BY <1>1, <3>1, AttemptsAre
    <3>2. ASSUME NEW l \in EntryOf(i), NEW new, attempts' = [attempts EXCEPT ![l] = new] PROVE attempts'[k] = e
      BY <1>1, <2>3, <3>2, AttemptsAre
    <3> QED BY <1>1, <1>7, <3>1, <3>2 DEF RecordFailure
  <2> QED BY <1>2, <2>2, <2>4
<1> QED BY <1>1, <1>2, <1>3, <1>4, <1>5, <1>6, <1>7, AttemptSteps

(* Factors are noted by a verification that the attempt control allowed,   *)
(* and by nothing else.                                                    *)
LEMMA FactorsKept ==
  ASSUME MfaInv,
         SecurityNext \/ UNCHANGED <<beforeVars, keyVaultVars, incidentVars, dispatchVars, afterVars, service>>,
         NEW t \in DOMAIN txs
  PROVE  txs'[t].factor = txs[t].factor \/ AllowedNow(txs[t].owner)
<1>1. PICK a : a = txs[t]
  OBVIOUS
<1>2. a \in Tx /\ \A u \in DOMAIN txs : txs[u] \in Tx
  BY <1>1, TxsAre
<1>3. ASSUME NEW b \in Tx, NEW to \in TxStates PROVE Move(b, to).factor = b.factor
  BY <1>3, MoveIs
<1>4. CASE UNCHANGED txs
  BY <1>4
<1>5. ASSUME NEW u \in DOMAIN txs, NEW new, txs' = [txs EXCEPT ![u] = new],
             new.factor = txs[u].factor \/ AllowedNow(txs[u].owner)
      PROVE  txs'[t].factor = txs[t].factor \/ AllowedNow(txs[t].owner)
  BY <1>5, TxsAre
<1>6. ASSUME NEW u \in DOMAIN txs, NEW to \in TxStates, txs' = [txs EXCEPT ![u] = Move(@, to)]
      PROVE  txs'[t].factor = txs[t].factor \/ AllowedNow(txs[t].owner)
  BY <1>2, <1>3, <1>5, <1>6
<1>7. \A i : CancelledOf(i)[t].factor = a.factor
  BY <1>1, <1>2, <1>3 DEF CancelledOf, TxStates
<1>8. ASSUME NEW i \in Claimants, NEW p \in Policies, CreateTx(i, p) PROVE txs'[t].factor = txs[t].factor
  <2>1. PICK new : txs' = txs \/ txs' = Append(CancelledOf(i), new)
    BY <1>8 DEF CreateTx
  <2>2. CASE txs' = Append(CancelledOf(i), new)
    <3>1. PICK table : table = CancelledOf(i)
      OBVIOUS
    <3>2. table \in Seq(Tx) /\ DOMAIN table = DOMAIN txs
      <4>1. table \in [DOMAIN txs -> Tx] /\ table = [u \in DOMAIN txs |-> table[u]]
        BY <3>1, CancelledIs DEF TxStep, TxSound
      <4> QED BY <4>1, ActsMade, TxsAre
    <3>3. txs'[t] = table[t]
      BY <2>2, <3>1, <3>2
    <3> QED BY <1>1, <1>7, <3>1, <3>3
  <2> QED BY <2>1, <2>2
<1>9. ASSUME NEW u \in DOMAIN txs, CompleteTx(u) PROVE txs'[t].factor = txs[t].factor \/ AllowedNow(txs[t].owner)
  BY <1>6, <1>9 DEF CompleteTx, TxStates
<1>10. ASSUME NEW u \in DOMAIN txs, NEW f, VerifyFactor(u, f)
       PROVE  txs'[t].factor = txs[t].factor \/ AllowedNow(txs[t].owner)
  <2>1. CASE AllowedNow(txs[u].owner)
    <3>1. PICK new : txs' = txs \/ txs' = [txs EXCEPT ![u] = new]
      BY <1>10 DEF VerifyFactor
    <3> QED BY <1>4, <1>5, <2>1, <3>1
  <2>2. CASE ~AllowedNow(txs[u].owner)
    BY <1>4, <1>6, <1>10, <2>2 DEF VerifyFactor, TxStates
  <2> QED BY <2>1, <2>2
<1>11. CASE MfaStep
  <2>1. ASSUME NEW u \in DOMAIN txs, CancelTx(u) PROVE txs'[t].factor = txs[t].factor \/ AllowedNow(txs[t].owner)
    BY <1>6, <2>1 DEF CancelTx, TxStates
  <2>2. ASSUME NEW i \in Claimants, CancelAllOf(i) PROVE txs'[t].factor = txs[t].factor
    BY <1>1, <1>7, <2>2 DEF CancelAllOf
  <2> QED BY <1>4, <1>8, <1>9, <1>10, <1>11, <2>1, <2>2 DEF MfaStep, DeletePolicy, CreatePolicy, SwitchPolicy
<1>12. CASE MfaElapse
  BY <1>2, <1>12 DEF MfaElapse, Tx
<1> QED BY <1>4, <1>11, <1>12 DEF SecurityNext, AroundMfa, beforeVars, mfaVars

-----------------------------------------------------------------------------
(* Who a caller is, and what it may do.  The four services share the       *)
(* identities, and the transactions go through the attempt control.        *)
IdentitiesInv == SessionInv /\ RightsHere /\ AttemptInv /\ MfaInv

LEMMA MfaImplied == IdentitiesInv => MfaSafe
<1> SUFFICES ASSUME IdentitiesInv PROVE MfaSafe OBVIOUS
<1>1. IdentityTypeOK /\ AttemptTypeOK
  BY AttemptImplied DEF IdentitiesInv, SessionInv, IdentityInv, AttemptsSafe
<1>2. MfaTypeOK
  BY <1>1 DEF IdentitiesInv, MfaInv, MfaTypeOK, KnownPolicies, Policy
<1>3. CompletedHasAllFactors
  BY DEF IdentitiesInv, MfaInv, TxSound, AllVerified, CompletedHasAllFactors
<1> QED BY <1>2, <1>3 DEF IdentitiesInv, MfaInv, MfaSafe

LEMMA IdentitiesStart == SecurityInit => IdentitiesInv
  BY SessionsStart, RightsStart, AttemptsStart, MfaStart DEF SecurityInit, IdentitiesInv

LEMMA IdentitiesStay ==
  IdentitiesInv /\ [SecurityNext]_<<beforeVars, keyVaultVars, incidentVars, dispatchVars, afterVars, service>>
    => IdentitiesInv'
  BY SessionsStay, RightsStay, AttemptsStay, MfaStays DEF IdentitiesInv

(* Whatever order the requests come in: a session is admitted only within  *)
(* its times (session_management.c:292), and no identity has more than its *)
(* number of them; failures and who serves them out are counted in every   *)
(* window (attempt_control.c:385); a completed transaction has all the     *)
(* factors it began with (mfa.c:963); what was allowed is backed by a role *)
(* or an object of that moment (authorization.c:365, rbac.c:611).          *)
THEOREM IdentitiesHold == SecuritySpec => []IdentitiesSafe
<1>1. IdentitiesInv => IdentitiesSafe
  <2>1. IdentitiesInv => SessionsSafe /\ AttemptsSafe
    BY AttemptImplied DEF IdentitiesInv, SessionInv
  <2>2. IdentitiesInv => RightsSafe
    BY DEF IdentitiesInv, RightsHere, RightsInv, RightsSafe
  <2> QED BY <2>1, <2>2, MfaImplied DEF IdentitiesSafe
<1> QED BY <1>1, IdentitiesStart, IdentitiesStay, PTL DEF SecuritySpec

(* A block is served to its end, whatever is asked, recorded or wiped      *)
(* meanwhile, unless a success or a reset clears it; and no factor of who  *)
(* is blocked is noted as verified (attempt_control.c:294, mfa.c:810).     *)
BlockServedNow ==
  \A k \in DOMAIN attempts :
    OneAtATime /\ attempts[k].state = "BLOCKED" /\ attempts[k].block > 0 =>
      \/ attempts'[k].used /\ attempts'[k].state = "BLOCKED"
         /\ trying'[attempts[k].name] <= trying[attempts[k].name]
      \/ attempts'[k] = Cleared(attempts[k])
NotVerifiedNow ==
  \A t \in DOMAIN txs, k \in DOMAIN attempts :
    Of(attempts[k], txs[t].owner) /\ attempts[k].state = "BLOCKED" /\ attempts[k].block > 0
      => \A f \in DOMAIN txs[t].factor :
           txs'[t].factor[f] = "VERIFIED" => txs[t].factor[f] = "VERIFIED"

THEOREM BlocksAreServed == SecuritySpec => BlocksHold
<1>1. IdentitiesInv /\ [SecurityNext]_<<beforeVars, keyVaultVars, incidentVars, dispatchVars, afterVars, service>>
        => [BlockServedNow]_attemptVars
  BY BlockKept DEF IdentitiesInv, BlockServedNow
<1>2. IdentitiesInv /\ [SecurityNext]_<<beforeVars, keyVaultVars, incidentVars, dispatchVars, afterVars, service>>
        => [NotVerifiedNow]_<<mfaVars>>
  <2> SUFFICES ASSUME IdentitiesInv,
                      SecurityNext \/ UNCHANGED <<beforeVars, keyVaultVars, incidentVars, dispatchVars, afterVars, service>>,
                      NEW t \in DOMAIN txs, NEW k \in DOMAIN attempts,
                      Of(attempts[k], txs[t].owner), attempts[k].state = "BLOCKED", attempts[k].block > 0
               PROVE  txs'[t].factor = txs[t].factor
    BY DEF NotVerifiedNow
  <2>1. PICK i : i = txs[t].owner
    OBVIOUS
  <2>2. attempts[k].name = i /\ \A j \in DOMAIN attempts : SoundEntry(attempts[j])
    BY <2>1 DEF Of, IdentitiesInv, AttemptInv
  <2>3. ~AllowedNow(i)
    BY <2>2, CheckedTableIs
  <2> QED BY <2>1, <2>3, FactorsKept DEF IdentitiesInv
<1>3. [][BlockServedNow]_attemptVars => BlockServed
  BY PTL DEF BlockServed, BlockServedNow
<1>4. [][NotVerifiedNow]_<<mfaVars>> => BlockedNotVerified
  BY PTL DEF BlockedNotVerified, NotVerifiedNow
<1> QED BY <1>1, <1>2, <1>3, <1>4, IdentitiesStart, IdentitiesStay, PTL DEF SecuritySpec, BlocksHold
-----------------------------------------------------------------------------
(* A loop of n rounds: what every round starts with and leaves behind.     *)
Goes(f, n, start, step) == f[0] = start /\ \A k \in 1..n : f[k] = step[k][f[k - 1]]

LEMMA RoundsExist ==
  ASSUME NEW n \in Nat, NEW start, NEW step
  PROVE  \E f : f = [k \in 0..n |-> f[k]] /\ Goes(f, n, start, step)
<1> DEFINE Ran(f, m) == f = [k \in 0..m |-> f[k]] /\ Goes(f, m, start, step)
<1> DEFINE Short == {m \in 0..n : ~ \E f : Ran(f, m)}
<1>1. ASSUME Short # {} PROVE FALSE
  <2>1. Short \in SUBSET Nat
    OBVIOUS
  <2>2. PICK m \in Short : \A l \in Short : m <= l
    BY <1>1, <2>1, HasLeast
  <2>3. m # 0
    <3> DEFINE f == [k \in 0..0 |-> start]
    <3>1. Ran(f, 0)
      BY DEF Goes
    <3> HIDE DEF f, Ran
    <3> QED BY <2>2, <3>1
  <2>4. /\ m \in Nat /\ m \in 1..n /\ m - 1 \in 0..n /\ m - 1 \in 0..(m - 1)
        /\ m - 1 \notin Short /\ \A k \in 0..m : k = m \/ k \in 0..(m - 1)
    <3> HIDE DEF Ran
    <3> QED BY <2>1, <2>2, <2>3
  <2>5. PICK f : Ran(f, m - 1)
    BY <2>4
  <2>6. PICK next : next = step[m][f[m - 1]]
    OBVIOUS
  <2>7. PICK g : g = [k \in 0..m |-> IF k = m THEN next ELSE f[k]]
    OBVIOUS
  <2>8. g[m] = next /\ g = [k \in 0..m |-> g[k]] /\ \A k \in 0..(m - 1) : g[k] = f[k]
    BY <2>4, <2>7
  <2>9. g[0] = start
    <3>1. 0 \in 0..(m - 1)
      BY <2>4
    <3> QED BY <2>5, <2>8, <3>1 DEF Goes
  <2>10. ASSUME NEW k \in 1..m PROVE g[k] = step[k][g[k - 1]]
    <3>1. CASE k = m
      BY <2>4, <2>6, <2>8, <3>1
    <3>2. CASE k # m
      <4>1. k \in 1..(m - 1) /\ k \in 0..(m - 1) /\ k - 1 \in 0..(m - 1)
        BY <2>4, <3>2
      <4>2. f[k] = step[k][f[k - 1]]
        BY <2>5, <4>1 DEF Goes
      <4> QED BY <2>8, <4>1, <4>2
    <3> QED BY <3>1, <3>2
  <2>11. Ran(g, m)
    BY <2>8, <2>9, <2>10 DEF Goes
  <2> HIDE DEF Ran
  <2> QED BY <2>2, <2>11
<1>2. n \in 0..n /\ n \notin Short
  <2> HIDE DEF Ran
  <2> QED BY <1>1
<1> QED BY <1>2

LEMMA RoundsStay ==
  ASSUME NEW n \in Nat, NEW f, NEW S, f[0] \in S[0],
         \A k \in 1..n : f[k - 1] \in S[k - 1] => f[k] \in S[k]
  PROVE  f[n] \in S[n]
<1> DEFINE Wrong == {m \in 0..n : f[m] \notin S[m]}
<1>1. ASSUME Wrong # {} PROVE FALSE
  <2>1. Wrong \in SUBSET Nat
    OBVIOUS
  <2>2. PICK m \in Wrong : \A l \in Wrong : m <= l
    BY <1>1, <2>1, HasLeast
  <2>3. m # 0
    BY <2>2
  <2>4. m \in 1..n /\ m - 1 \in 0..n /\ m - 1 \notin Wrong
    BY <2>1, <2>2, <2>3
  <2> QED BY <2>2, <2>4
<1> QED BY <1>1

-----------------------------------------------------------------------------
(* Notifications.  What was delivered was accepted, what is routed has     *)
(* nothing left over that could be tried again, and what is to be          *)
(* delivered has an attempt left.                                          *)
Notification == [n : Nat, alert : AlertIds, severity : AlertSeverities,
                 state : OpenStates \cup ClosedStates, result : Results, channel : Channels,
                 attempts : Nat, age : Nat, wait : 0..1, again : Nat]
SoundNotification(x) ==
  /\ x.state = "DELIVERED" => x.result = "SUCCESS"
  /\ x.state = "CREATED" => x.result # "RETRYABLE"
  /\ x.state \in {"CREATED", "ROUTING", "QUEUED"} => x.attempts < Attempts + x.again
  /\ x.attempts <= Attempts + x.again
  /\ x.state = "RETRY_SCHEDULED" => x.attempts < Attempts
  /\ \/ x.state \in {"ROUTING", "QUEUED", "RETRY_SCHEDULED", "DELIVERED"}
     \/ x.state = "DELIVERY_FAILED" /\ x.result = "RETRYABLE"
     => ClassificationAllows(x.severity, x.channel)
TableSound(ns) ==
  /\ ns \in Seq(Notification) /\ Len(ns) <= NotificationRoom
  /\ \A k \in DOMAIN ns : SoundNotification(ns[k])
  /\ \A j, k \in DOMAIN ns :
       /\ j # k /\ ns[j].alert = ns[k].alert /\ ns[j].state \in OpenStates /\ ns[k].state \in OpenStates
       => ns[j].again + ns[k].again > 0
RuleRecord == [severities : SUBSET (0..4), order : Int, channel : Channels]
NotificationInv ==
  /\ TableSound(notifications)
  /\ rules \in Seq(RuleRecord) /\ Len(rules) <= MaxRules
  /\ subjects \in [AlertIds -> [severity : AlertSeverities, escalated : BOOLEAN,
                                standing : {"OPEN", "MUTED", "GONE"}]]
  /\ serving \subseteq Channels /\ everServing \in Nat /\ everServing <= ChannelProviders
  /\ notified \in Nat

LEMMA NotificationNumbers ==
  /\ NotificationRoom \in Nat \ {0} /\ Attempts \in Nat \ {0} /\ NotificationLife \in Nat /\ SendWindow \in Nat
  /\ MaxRules \in Nat /\ ChannelProviders \in Nat /\ AlertSeverities \subseteq 0..4 /\ "LOCAL" \in Channels
  /\ Rules \subseteq RuleRecord
  BY NotificationAssumption DEF RuleRecord

LEMMA NotificationImplied == NotificationInv => NotificationsSafe
<1> SUFFICES ASSUME NotificationInv PROVE NotificationsSafe
  OBVIOUS
<1>1. NotificationTypeOK
  BY DEF NotificationInv, TableSound, Notification, NotificationTypeOK
<1>2. ChannelAllowed
  BY DEF NotificationInv, TableSound, SoundNotification, ChannelAllowed
<1>3. AttemptsBounded
  BY DEF NotificationInv, TableSound, SoundNotification, AttemptsBounded, RetryAllowed
<1>4. DuplicateExplained
  BY DEF NotificationInv, TableSound, DuplicateExplained
<1> QED BY <1>1, <1>2, <1>3, <1>4 DEF NotificationsSafe

(* One notification changes: it stays about its alert, and what was closed *)
(* is opened again by an escalation only.                                  *)
Onward(x, y) ==
  /\ y.alert = x.alert /\ y.again >= x.again
  /\ y.state \in OpenStates => x.state \in OpenStates \/ y.again > 0
OnlyAt(ns, new, k) ==
  new = [j \in DOMAIN ns |-> new[j]] /\ \A j \in DOMAIN ns : j # k => new[j] = ns[j]

LEMMA NotificationsChange ==
  ASSUME NEW ns, TableSound(ns), NEW new, new = [k \in DOMAIN ns |-> new[k]],
         \A k \in DOMAIN ns : new[k] \in Notification /\ SoundNotification(new[k]) /\ Onward(ns[k], new[k])
  PROVE  TableSound(new) /\ Len(new) = Len(ns) /\ DOMAIN new = DOMAIN ns
<1>1. ns \in Seq(Notification) /\ Len(ns) \in Nat /\ DOMAIN ns = 1..Len(ns) /\ Len(ns) <= NotificationRoom
      /\ \A j \in DOMAIN ns : ns[j] \in Notification
  BY DEF TableSound
<1>2. DOMAIN new = DOMAIN ns
  OBVIOUS
<1>3. new \in Seq(Notification) /\ Len(new) = Len(ns)
  BY <1>1
<1>4. ASSUME NEW i \in DOMAIN ns, NEW j \in DOMAIN ns, i # j, new[i].alert = new[j].alert,
             new[i].state \in OpenStates, new[j].state \in OpenStates
      PROVE  new[i].again + new[j].again > 0
  <2>1. Onward(ns[i], new[i]) /\ Onward(ns[j], new[j]) /\ new[i] \in Notification /\ new[j] \in Notification
    OBVIOUS
  <2>2. new[i].again \in Nat /\ new[j].again \in Nat /\ ns[i].again \in Nat /\ ns[j].again \in Nat
    BY <1>1, <2>1 DEF Notification
  <2>3. CASE new[i].again > 0 \/ new[j].again > 0
    BY <2>2, <2>3
  <2>4. CASE ns[i].state \in OpenStates /\ ns[j].state \in OpenStates
    <3>1. ns[i].again + ns[j].again > 0
      BY <1>4, <2>1, <2>4 DEF TableSound, Onward
    <3> QED BY <2>1, <2>2, <3>1 DEF Onward
  <2> QED BY <1>4, <2>1, <2>3, <2>4 DEF Onward
<1> QED BY <1>1, <1>2, <1>3, <1>4 DEF TableSound

LEMMA NotificationChanges ==
  ASSUME NEW ns, TableSound(ns), NEW k \in DOMAIN ns, NEW new, OnlyAt(ns, new, k), NEW y, y = new[k],
         y \in Notification, SoundNotification(y), Onward(ns[k], y)
  PROVE  TableSound(new) /\ Len(new) = Len(ns) /\ DOMAIN new = DOMAIN ns
<1>1. ASSUME NEW h \in DOMAIN ns
      PROVE  new[h] \in Notification /\ SoundNotification(new[h]) /\ Onward(ns[h], new[h])
  <2>1. ns[h] \in Notification /\ SoundNotification(ns[h])
    BY DEF TableSound
  <2>2. CASE h # k
    <3>1. new[h] = ns[h]
      BY <2>2 DEF OnlyAt
    <3>2. ns[h].again \in Nat
      BY <2>1 DEF Notification
    <3> QED BY <2>1, <3>1, <3>2 DEF Onward
  <2> QED BY <2>2
<1>2. new = [j \in DOMAIN ns |-> new[j]]
  BY DEF OnlyAt
<1> QED BY <1>1, <1>2, NotificationsChange

(* What the steps of the service make of one notification.                 *)
LEMMA StatesAre ==
  /\ {"CREATED", "ROUTING", "QUEUED", "DELIVERY_FAILED", "RETRY_SCHEDULED"} \subseteq OpenStates \cup ClosedStates
  /\ {"DELIVERED", "EXHAUSTED", "EXPIRED", "CANCELLED"} \subseteq OpenStates \cup ClosedStates
  /\ {"NONE", "SUCCESS", "RETRYABLE", "FINAL"} \subseteq Results
  /\ {"CREATED", "ROUTING", "QUEUED", "DELIVERY_FAILED", "RETRY_SCHEDULED"} \subseteq OpenStates
  /\ {"DELIVERED", "EXHAUSTED", "EXPIRED", "CANCELLED"} \cap OpenStates = {}
  BY DEF OpenStates, ClosedStates, Results

Reads(y, x, state, result, channel, tries) ==
  /\ y \in Notification /\ y.state = state /\ y.result = result /\ y.channel = channel /\ y.attempts = tries
  /\ y.alert = x.alert /\ y.severity = x.severity /\ y.again = x.again

LEMMA ReadsItself ==
  ASSUME NEW x \in Notification
  PROVE  Reads(x, x, x.state, x.result, x.channel, x.attempts) /\ x.attempts \in Nat /\ x.again \in Nat
         /\ x.state \in OpenStates \cup ClosedStates
  BY DEF Reads, Notification

LEMMA StateSet ==
  ASSUME NEW x, NEW y, NEW state, NEW result, NEW channel, NEW tries, Reads(y, x, state, result, channel, tries),
         NEW new \in OpenStates \cup ClosedStates
  PROVE  Reads([y EXCEPT !.state = new], x, new, result, channel, tries)
  BY DEF Reads, Notification

LEMMA ResultSet ==
  ASSUME NEW x, NEW y, NEW state, NEW result, NEW channel, NEW tries, Reads(y, x, state, result, channel, tries),
         NEW new \in Results
  PROVE  Reads([y EXCEPT !.result = new], x, state, new, channel, tries)
  BY DEF Reads, Notification

LEMMA ChannelSet ==
  ASSUME NEW x, NEW y, NEW state, NEW result, NEW channel, NEW tries, Reads(y, x, state, result, channel, tries),
         NEW new \in Channels
  PROVE  Reads([y EXCEPT !.channel = new], x, state, result, new, tries)
  BY DEF Reads, Notification

LEMMA AttemptsSet ==
  ASSUME NEW x, NEW y, NEW state, NEW result, NEW channel, NEW tries, Reads(y, x, state, result, channel, tries),
         NEW new \in Nat
  PROVE  Reads([y EXCEPT !.attempts = new], x, state, result, channel, new)
  BY DEF Reads, Notification

LEMMA WaitSet ==
  ASSUME NEW x, NEW y, NEW state, NEW result, NEW channel, NEW tries, Reads(y, x, state, result, channel, tries),
         NEW new \in 0..1
  PROVE  Reads([y EXCEPT !.wait = new], x, state, result, channel, tries)
  BY DEF Reads, Notification

LEMMA ReadsSound ==
  ASSUME NEW x \in Notification, NEW y, NEW state, NEW result, NEW channel, NEW tries,
         Reads(y, x, state, result, channel, tries),
         state = "DELIVERED" => result = "SUCCESS",
         state = "CREATED" => result # "RETRYABLE",
         state \in {"CREATED", "ROUTING", "QUEUED"} => tries < Attempts + x.again,
         tries <= Attempts + x.again,
         state = "RETRY_SCHEDULED" => tries < Attempts,
         \/ state \in {"ROUTING", "QUEUED", "RETRY_SCHEDULED", "DELIVERED"}
         \/ state = "DELIVERY_FAILED" /\ result = "RETRYABLE"
         => ClassificationAllows(x.severity, channel),
         state \in OpenStates => x.state \in OpenStates
  PROVE  y \in Notification /\ SoundNotification(y) /\ Onward(x, y)
<1>1. y \in Notification /\ y.state = state /\ y.result = result /\ y.channel = channel /\ y.attempts = tries
      /\ y.alert = x.alert /\ y.severity = x.severity /\ y.again = x.again
  BY DEF Reads
<1>2. x.again >= x.again
  <2>1. x.again \in Nat
    BY ReadsItself
  <2> QED BY <2>1
<1> QED BY <1>1, <1>2 DEF SoundNotification, Onward

(* The first of the rules with the highest order.                          *)
Better(j, k) == rules[j].order < rules[k].order \/ (rules[j].order = rules[k].order /\ k <= j)
LEMMA BestExists ==
  ASSUME rules \in Seq(RuleRecord), NEW M, M \subseteq DOMAIN rules, M # {}
  PROVE  \E k \in M : \A j \in M : Better(j, k)
<1>1. /\ Len(rules) \in Nat /\ DOMAIN rules = 1..Len(rules)
      /\ \A k \in DOMAIN rules : rules[k].order \in Int
  <2>1. ASSUME NEW k \in DOMAIN rules PROVE rules[k].order \in Int
    <3>1. PICK rule \in RuleRecord : rule = rules[k]
      OBVIOUS
    <3> QED BY <3>1 DEF RuleRecord
  <2> QED BY <2>1
<1> DEFINE Here(n) == {k \in M : k <= n}
<1> DEFINE Wrong == {n \in 0..Len(rules) : Here(n) # {} /\ ~ \E k \in Here(n) : \A j \in Here(n) : Better(j, k)}
<1>2. ASSUME Wrong # {} PROVE FALSE
  <2>1. Wrong \in SUBSET Nat
    BY <1>1
  <2>2. PICK n \in Wrong : \A m \in Wrong : n <= m
    BY <1>2, <2>1, HasLeast
  <2>3. n \in Nat /\ n # 0 /\ n \in 1..Len(rules) /\ n - 1 \in 0..Len(rules)
    <3>1. n \in 0..Len(rules) /\ Here(n) # {}
      BY <2>2
    <3>2. n # 0
      BY <1>1, <3>1
    <3> QED BY <1>1, <3>1, <3>2
  <2>31. n - 1 \notin Wrong
    <3>1. n \in Int /\ ~(n <= n - 1)
      BY <2>3
    <3> QED BY <2>2, <3>1
  <2>4. Here(n) = Here(n - 1) \cup (M \cap {n})
    BY <1>1, <2>3
  <2>5. n \in M
    BY <2>2, <2>3, <2>31, <2>4
  <2>6. n \in Here(n) /\ Better(n, n)
    BY <1>1, <2>3, <2>5 DEF Better
  <2>7. CASE Here(n - 1) = {}
    <3>1. \A j \in Here(n) : Better(j, n)
      BY <2>4, <2>6, <2>7
    <3> QED BY <2>2, <2>6, <3>1
  <2>8. CASE Here(n - 1) # {}
    <3>1. PICK k \in Here(n - 1) : \A j \in Here(n - 1) : Better(j, k)
      BY <2>3, <2>31, <2>8
    <3>2. k \in DOMAIN rules /\ k \in Here(n) /\ k < n /\ k \in Int /\ n \in DOMAIN rules
      BY <1>1, <2>3, <2>4, <3>1
    <3>3. rules[k].order \in Int /\ rules[n].order \in Int
      BY <1>1, <3>2
    <3>4. CASE rules[n].order <= rules[k].order
      <4>1. Better(n, k)
        <5>1. PICK a, b : a = rules[n].order /\ b = rules[k].order
          OBVIOUS
        <5>2. a < b \/ a = b
          BY <3>3, <3>4, <5>1
        <5>3. n \in Int /\ k <= n
          BY <2>3, <3>2
        <5> QED BY <5>1, <5>2, <5>3 DEF Better
      <4>2. \A j \in Here(n) : Better(j, k)
        BY <2>4, <3>1, <4>1
      <4> QED BY <2>2, <3>2, <4>2
    <3>5. CASE rules[k].order < rules[n].order
      <4>1. ASSUME NEW j \in Here(n - 1) PROVE Better(j, n)
        <5>1. j \in DOMAIN rules /\ rules[j].order \in Int /\ Better(j, k)
          BY <1>1, <3>1, <4>1
        <5>2. PICK a, b, c : a = rules[n].order /\ b = rules[k].order /\ c = rules[j].order
          OBVIOUS
        <5>3. c < b \/ c = b
          BY <5>1, <5>2 DEF Better
        <5>4. c < a
          BY <3>3, <3>5, <5>1, <5>2, <5>3
        <5> QED BY <5>2, <5>4 DEF Better
      <4>2. \A j \in Here(n) : Better(j, n)
        BY <2>4, <2>6, <4>1
      <4> QED BY <2>2, <2>6, <4>2
    <3> QED BY <3>3, <3>4, <3>5
  <2> QED BY <2>7, <2>8
<1>3. Here(Len(rules)) = M /\ Len(rules) \in 0..Len(rules)
  BY <1>1
<1>4. Len(rules) \notin Wrong
  BY <1>2
<1> QED BY <1>3, <1>4

LEMMA RoutedChannel ==
  ASSUME NotificationInv, NEW severity
  PROVE  RoutedTo(severity) \in Channels
<1>1. CASE Matching(severity) # {}
  <2>1. Matching(severity) \subseteq DOMAIN rules /\ rules \in Seq(RuleRecord)
    BY DEF Matching, NotificationInv
  <2>2. \E k \in Matching(severity) : \A j \in Matching(severity) : Better(j, k)
    BY <1>1, <2>1, BestExists
  <2>3. BestRule(severity) \in Matching(severity)
    BY <2>2 DEF BestRule, Better
  <2>4. rules[BestRule(severity)] \in RuleRecord
    BY <2>1, <2>3
  <2> QED BY <1>1, <2>4 DEF RoutedTo, RuleRecord
<1>2. CASE Matching(severity) = {}
  BY <1>2, NotificationAssumption DEF RoutedTo
<1> QED BY <1>1, <1>2

LEMMA RoutedHolds ==
  ASSUME NotificationInv, NEW ns, TableSound(ns), NEW k \in DOMAIN ns, ns[k].state = "CREATED"
  PROVE  TableSound(Routed(ns, k)) /\ Len(Routed(ns, k)) = Len(ns) /\ DOMAIN Routed(ns, k) = DOMAIN ns
<1>1. PICK x : x = ns[k]
  OBVIOUS
<1>2. x \in Notification /\ SoundNotification(x) /\ x.state = "CREATED" /\ ns \in Seq(Notification)
  BY <1>1 DEF TableSound
<1>3. PICK channel \in Channels : channel = RoutedTo(subjects[x.alert].severity)
  BY RoutedChannel
<1>4. PICK new : new = Routed(ns, k)
  OBVIOUS
<1>5. PICK routed : routed = [ns EXCEPT ![k].channel = channel]
  OBVIOUS
<1>6. PICK may \in BOOLEAN : may = WithinRate(routed, channel)
  <2>1. WithinRate(routed, channel) \in BOOLEAN
    BY DEF WithinRate
  <2> QED BY <2>1
<1>7. PICK failed : failed = [x EXCEPT !.state = "DELIVERY_FAILED"]
  OBVIOUS
<1>8. PICK fits : fits = [x EXCEPT !.channel = channel]
  OBVIOUS
<1>9. PICK missed : missed = [fits EXCEPT !.state = "DELIVERY_FAILED"]
  OBVIOUS
<1>10. PICK goes : goes = [fits EXCEPT !.state = "ROUTING"]
  OBVIOUS
<1>11. routed = [ns EXCEPT ![k] = fits] /\ routed[k] = fits /\ DOMAIN routed = DOMAIN ns
  BY <1>1, <1>2, <1>5, <1>8
<1>12. \/ new = [ns EXCEPT ![k] = failed]
       \/ new = [routed EXCEPT ![k] = missed]
       \/ new = [routed EXCEPT ![k] = goes] /\ ClassificationAllows(x.severity, channel)
  BY <1>1, <1>3, <1>4, <1>5, <1>6, <1>7, <1>9, <1>10, <1>11, Zenon DEF Routed
<1>13. OnlyAt(ns, new, k) /\ new[k] \in {failed, missed, goes}
       /\ (new[k] \in {failed, missed} \/ (new[k] = goes /\ ClassificationAllows(x.severity, channel)))
  <2>1. CASE new = [ns EXCEPT ![k] = failed]
    <3>1. OnlyAt(ns, new, k) /\ new[k] = failed
      BY <1>2, <2>1 DEF OnlyAt
    <3> QED BY <3>1
  <2>2. CASE new = [routed EXCEPT ![k] = missed]
    <3>1. new = [ns EXCEPT ![k] = missed]
      BY <1>2, <1>11, <2>2
    <3>2. OnlyAt(ns, new, k) /\ new[k] = missed
      BY <1>2, <3>1 DEF OnlyAt
    <3> QED BY <3>2
  <2>3. CASE new = [routed EXCEPT ![k] = goes] /\ ClassificationAllows(x.severity, channel)
    <3>1. new = [ns EXCEPT ![k] = goes]
      BY <1>2, <1>11, <2>3
    <3>2. OnlyAt(ns, new, k) /\ new[k] = goes
      BY <1>2, <3>1 DEF OnlyAt
    <3> QED BY <2>3, <3>2
  <2> QED BY <1>12, <2>1, <2>2, <2>3
<1>14. PICK y : y = new[k]
  OBVIOUS
<1>15. Reads(x, x, "CREATED", x.result, x.channel, x.attempts) /\ x.attempts \in Nat /\ x.again \in Nat
       /\ x.result # "RETRYABLE" /\ x.attempts < Attempts + x.again /\ x.attempts <= Attempts + x.again
  BY <1>2, ReadsItself DEF SoundNotification
<1>16. "CREATED" \in OpenStates /\ "ROUTING" \in OpenStates \cup ClosedStates /\ "DELIVERY_FAILED" \in OpenStates \cup ClosedStates
  BY StatesAre
<1>17. Reads(fits, x, "CREATED", x.result, channel, x.attempts)
  BY <1>8, <1>15, ChannelSet
<1>18. Reads(failed, x, "DELIVERY_FAILED", x.result, x.channel, x.attempts)
  BY <1>7, <1>15, <1>16, StateSet
<1>19. Reads(missed, x, "DELIVERY_FAILED", x.result, channel, x.attempts)
  BY <1>9, <1>16, <1>17, StateSet
<1>20. Reads(goes, x, "ROUTING", x.result, channel, x.attempts)
  BY <1>10, <1>16, <1>17, StateSet
<1>21. ASSUME NEW c, Reads(y, x, "DELIVERY_FAILED", x.result, c, x.attempts)
       PROVE  y \in Notification /\ SoundNotification(y) /\ Onward(x, y)
  BY <1>2, <1>15, <1>16, <1>21, ReadsSound
<1>22. CASE y = goes /\ ClassificationAllows(x.severity, channel)
  <2>1. y \in Notification /\ SoundNotification(y) /\ Onward(x, y)
    BY <1>2, <1>15, <1>16, <1>20, <1>22, ReadsSound
  <2> QED BY <1>1, <1>4, <1>13, <1>14, <2>1, NotificationChanges
<1>23. CASE y \in {failed, missed}
  <2>1. y \in Notification /\ SoundNotification(y) /\ Onward(x, y)
    BY <1>18, <1>19, <1>21, <1>23
  <2> QED BY <1>1, <1>4, <1>13, <1>14, <2>1, NotificationChanges
<1> QED BY <1>13, <1>14, <1>22, <1>23

LEMMA EnqueuedHolds ==
  ASSUME NEW ns, TableSound(ns), NEW k \in DOMAIN ns
  PROVE  /\ TableSound(Enqueued(ns, k)) /\ Len(Enqueued(ns, k)) = Len(ns) /\ DOMAIN Enqueued(ns, k) = DOMAIN ns
<1>1. PICK x : x = ns[k]
  OBVIOUS
<1>2. x \in Notification /\ SoundNotification(x) /\ ns \in Seq(Notification)
  BY <1>1 DEF TableSound
<1>3. CASE x.state = "ROUTING" /\ Len(ns) < NotificationRoom
  <2>1. PICK new : new = Enqueued(ns, k)
    OBVIOUS
  <2>2. PICK y : y = [x EXCEPT !.state = "QUEUED"]
    OBVIOUS
  <2>3. OnlyAt(ns, new, k) /\ new[k] = y
    BY <1>1, <1>2, <1>3, <2>1, <2>2 DEF Enqueued, OnlyAt
  <2>4. Reads(y, x, "QUEUED", x.result, x.channel, x.attempts)
    BY <1>2, <2>2, ReadsItself, StatesAre, StateSet
  <2>5. x.attempts < Attempts + x.again /\ x.attempts <= Attempts + x.again /\ ClassificationAllows(x.severity, x.channel)
        /\ x.state \in OpenStates
    BY <1>2, <1>3, StatesAre DEF SoundNotification
  <2>6. y \in Notification /\ SoundNotification(y) /\ Onward(x, y)
    BY <1>2, <2>4, <2>5, ReadsSound
  <2> QED BY <1>1, <2>1, <2>3, <2>6, NotificationChanges
<1>4. CASE ~(x.state = "ROUTING" /\ Len(ns) < NotificationRoom)
  <2>1. Enqueued(ns, k) = ns
    BY <1>1, <1>4 DEF Enqueued
  <2> QED BY <2>1
<1> QED BY <1>3, <1>4

LEMMA DeliveredHolds ==
  ASSUME NEW ns, TableSound(ns), NEW k \in DOMAIN ns, ns[k].state = "QUEUED", NEW answer \in Answers
  PROVE  /\ TableSound(Delivered(ns, k, answer)) /\ Len(Delivered(ns, k, answer)) = Len(ns)
         /\ DOMAIN Delivered(ns, k, answer) = DOMAIN ns
<1>1. PICK x : x = ns[k]
  OBVIOUS
<1>2. x \in Notification /\ SoundNotification(x) /\ ns \in Seq(Notification) /\ x.state = "QUEUED" /\ answer \in Results
  BY <1>1 DEF TableSound, Answers
<1>3. PICK new : new = Delivered(ns, k, answer)
  OBVIOUS
<1>4. PICK tried : tried = [[x EXCEPT !.attempts = x.attempts + 1] EXCEPT !.state = "DELIVERY_FAILED"]
  OBVIOUS
<1>5. PICK refused_ : refused_ = [tried EXCEPT !.result = answer]
  OBVIOUS
<1>6. PICK taken : taken = [refused_ EXCEPT !.state = "DELIVERED"]
  OBVIOUS
<1>7. Reads(x, x, "QUEUED", x.result, x.channel, x.attempts) /\ x.attempts \in Nat /\ x.again \in Nat
      /\ x.attempts + 1 <= Attempts + x.again /\ ClassificationAllows(x.severity, x.channel)
  BY <1>2, ReadsItself, NotificationNumbers DEF SoundNotification
<1>8. /\ "QUEUED" \in OpenStates /\ "DELIVERED" \in OpenStates \cup ClosedStates /\ "DELIVERED" \notin OpenStates
      /\ "DELIVERY_FAILED" \in OpenStates \cup ClosedStates
  BY StatesAre
<1>9. Reads(tried, x, "DELIVERY_FAILED", x.result, x.channel, x.attempts + 1)
  <2>1. Reads([x EXCEPT !.attempts = x.attempts + 1], x, "QUEUED", x.result, x.channel, x.attempts + 1)
    BY <1>7, AttemptsSet
  <2> QED BY <1>4, <1>8, <2>1, StateSet
<1>10. Reads(refused_, x, "DELIVERY_FAILED", answer, x.channel, x.attempts + 1)
  BY <1>2, <1>5, <1>9, ResultSet
<1>11. Reads(taken, x, "DELIVERED", answer, x.channel, x.attempts + 1)
  BY <1>6, <1>8, <1>10, StateSet
<1>12. OnlyAt(ns, new, k) /\ (new[k] = tried \/ new[k] = refused_ \/ (new[k] = taken /\ answer = "SUCCESS"))
  <2>1. PICK failing : failing = [ns EXCEPT ![k].attempts = @ + 1, ![k].state = "DELIVERY_FAILED"]
    OBVIOUS
  <2>2. failing = [ns EXCEPT ![k] = tried]
    BY <1>1, <1>2, <1>4, <2>1
  <2>3. new = failing \/ new = [failing EXCEPT ![k].result = answer, ![k].state = IF answer = "SUCCESS" THEN "DELIVERED" ELSE @]
    BY <1>3, <2>1 DEF Delivered
  <2>4. failing[k] = tried /\ DOMAIN failing = DOMAIN ns /\ \A j \in DOMAIN ns : j # k => failing[j] = ns[j]
    BY <1>2, <2>2
  <2>5. refused_.state = "DELIVERY_FAILED" /\ refused_ \in Notification
    BY <1>10 DEF Reads
  <2>6. refused_ = [refused_ EXCEPT !.state = "DELIVERY_FAILED"]
    BY <2>5 DEF Notification
  <2>7. CASE new = failing
    BY <1>2, <2>2, <2>4, <2>7 DEF OnlyAt
  <2>8. CASE new = [failing EXCEPT ![k].result = answer, ![k].state = IF answer = "SUCCESS" THEN "DELIVERED" ELSE @]
    <3>1. CASE answer = "SUCCESS"
      <4>1. new = [failing EXCEPT ![k] = taken]
        BY <1>5, <1>6, <2>4, <2>8, <3>1
      <4> QED BY <2>4, <3>1, <4>1 DEF OnlyAt
    <3>2. CASE answer # "SUCCESS"
      <4>1. new = [failing EXCEPT ![k] = [refused_ EXCEPT !.state = refused_.state]]
        BY <1>5, <2>4, <2>8, <3>2
      <4>2. new = [failing EXCEPT ![k] = refused_]
        BY <2>5, <2>6, <4>1
      <4> QED BY <2>4, <4>2 DEF OnlyAt
    <3> QED BY <3>1, <3>2
  <2> QED BY <2>3, <2>7, <2>8
<1>13. PICK y : y = new[k]
  OBVIOUS
<1>14. CASE y = tried
  <2>1. y \in Notification /\ SoundNotification(y) /\ Onward(x, y)
    BY <1>2, <1>7, <1>8, <1>9, <1>14, ReadsSound
  <2> QED BY <1>1, <1>3, <1>12, <1>13, <2>1, NotificationChanges
<1>15. CASE y = refused_
  <2>1. y \in Notification /\ SoundNotification(y) /\ Onward(x, y)
    BY <1>2, <1>7, <1>8, <1>10, <1>15, ReadsSound
  <2> QED BY <1>1, <1>3, <1>12, <1>13, <2>1, NotificationChanges
<1>16. CASE y = taken /\ answer = "SUCCESS"
  <2>1. y \in Notification /\ SoundNotification(y) /\ Onward(x, y)
    BY <1>2, <1>7, <1>8, <1>11, <1>16, ReadsSound
  <2> QED BY <1>1, <1>3, <1>12, <1>13, <2>1, NotificationChanges
<1> QED BY <1>12, <1>13, <1>14, <1>15, <1>16

LEMMA RetriedHolds ==
  ASSUME NEW ns, TableSound(ns), NEW k \in DOMAIN ns
  PROVE  /\ TableSound(Retried(ns, k)) /\ Len(Retried(ns, k)) = Len(ns) /\ DOMAIN Retried(ns, k) = DOMAIN ns
<1>1. PICK x : x = ns[k]
  OBVIOUS
<1>2. x \in Notification /\ SoundNotification(x) /\ ns \in Seq(Notification)
  BY <1>1 DEF TableSound
<1>3. PICK new : new = Retried(ns, k)
  OBVIOUS
<1>4. /\ Reads(x, x, x.state, x.result, x.channel, x.attempts) /\ x.attempts \in Nat /\ x.again \in Nat
      /\ x.attempts <= Attempts + x.again
  BY <1>2, ReadsItself DEF SoundNotification
<1>5. /\ "EXHAUSTED" \in OpenStates \cup ClosedStates /\ "EXHAUSTED" \notin OpenStates
      /\ "RETRY_SCHEDULED" \in OpenStates \cup ClosedStates /\ "DELIVERY_FAILED" \in OpenStates
  BY StatesAre
<1>6. CASE new = ns
  BY <1>3, <1>6
<1>7. CASE x.result = "RETRYABLE" /\ ~(x.attempts < Attempts)
  <2>1. PICK y : y = [x EXCEPT !.state = "EXHAUSTED"]
    OBVIOUS
  <2>2. new = [ns EXCEPT ![k] = y]
    BY <1>1, <1>3, <1>7, <2>1 DEF Retried, RetryAllowed
  <2>3. OnlyAt(ns, new, k) /\ new[k] = y
    BY <1>2, <2>2 DEF OnlyAt
  <2>4. Reads(y, x, "EXHAUSTED", x.result, x.channel, x.attempts)
    BY <1>4, <1>5, <2>1, StateSet
  <2>5. y \in Notification /\ SoundNotification(y) /\ Onward(x, y)
    BY <1>2, <1>4, <1>5, <2>4, ReadsSound
  <2> QED BY <1>1, <1>3, <2>3, <2>5, NotificationChanges
<1>8. CASE x.result = "RETRYABLE" /\ x.attempts < Attempts /\ x.state = "DELIVERY_FAILED"
  <2>1. PICK z : z = [x EXCEPT !.state = "RETRY_SCHEDULED"]
    OBVIOUS
  <2>2. PICK y : y = [z EXCEPT !.wait = 1]
    OBVIOUS
  <2>3. new = [ns EXCEPT ![k] = y]
    BY <1>1, <1>2, <1>3, <1>8, <2>1, <2>2 DEF Retried, RetryAllowed
  <2>4. OnlyAt(ns, new, k) /\ new[k] = y
    BY <1>2, <2>3 DEF OnlyAt
  <2>5. Reads(y, x, "RETRY_SCHEDULED", x.result, x.channel, x.attempts)
    <3>1. Reads(z, x, "RETRY_SCHEDULED", x.result, x.channel, x.attempts)
      BY <1>4, <1>5, <2>1, StateSet
    <3>2. 1 \in 0..1
      OBVIOUS
    <3> QED BY <2>2, <3>1, <3>2, WaitSet
  <2>6. ClassificationAllows(x.severity, x.channel)
    BY <1>2, <1>8 DEF SoundNotification
  <2>7. y \in Notification /\ SoundNotification(y) /\ Onward(x, y)
    BY <1>2, <1>4, <1>5, <1>8, <2>5, <2>6, ReadsSound
  <2> QED BY <1>1, <1>3, <2>4, <2>7, NotificationChanges
<1> QED BY <1>1, <1>3, <1>6, <1>7, <1>8 DEF Retried, RetryAllowed

LEMMA ClosedHolds ==
  ASSUME NEW ns, TableSound(ns), NEW k \in DOMAIN ns, NEW state \in {"EXHAUSTED", "EXPIRED", "CANCELLED"},
         NEW new, OnlyAt(ns, new, k),
         new[k] = [ns[k] EXCEPT !.state = state] \/ new[k] = [ns[k] EXCEPT !.state = state, !.result = "FINAL"]
  PROVE  /\ new[k] \in Notification /\ SoundNotification(new[k]) /\ Onward(ns[k], new[k])
         /\ TableSound(new) /\ Len(new) = Len(ns) /\ DOMAIN new = DOMAIN ns
<1>1. PICK x : x = ns[k]
  OBVIOUS
<1>2. x \in Notification /\ SoundNotification(x) /\ ns \in Seq(Notification)
  BY <1>1 DEF TableSound
<1>3. PICK y : y = new[k]
  OBVIOUS
<1>4. PICK z : z = [x EXCEPT !.state = state]
  OBVIOUS
<1>5. y = z \/ y = [z EXCEPT !.result = "FINAL"]
  BY <1>1, <1>3, <1>4
<1>6. Reads(x, x, x.state, x.result, x.channel, x.attempts) /\ x.attempts <= Attempts + x.again
  BY <1>2, ReadsItself DEF SoundNotification
<1>7. state \in OpenStates \cup ClosedStates /\ state \notin OpenStates /\ "FINAL" \in Results
  BY StatesAre
<1>8. Reads(z, x, state, x.result, x.channel, x.attempts)
  BY <1>4, <1>6, <1>7, StateSet
<1>9. PICK result : Reads(y, x, state, result, x.channel, x.attempts)
  BY <1>5, <1>7, <1>8, ResultSet
<1>10. y \in Notification /\ SoundNotification(y) /\ Onward(x, y)
  BY <1>2, <1>6, <1>7, <1>9, ReadsSound
<1> QED BY <1>1, <1>3, <1>10, NotificationChanges

LEMMA ExpiredHolds ==
  ASSUME NEW ns, TableSound(ns), NEW k \in DOMAIN ns
  PROVE  /\ TableSound(Expired(ns, k)) /\ Len(Expired(ns, k)) = Len(ns) /\ DOMAIN Expired(ns, k) = DOMAIN ns
<1>1. CASE Expired(ns, k) = ns
  BY <1>1
<1>2. CASE Expired(ns, k) = [ns EXCEPT ![k].state = "EXPIRED", ![k].result = "FINAL"]
  <2>1. PICK new : new = Expired(ns, k)
    OBVIOUS
  <2>2. ns \in Seq(Notification)
    BY DEF TableSound
  <2>3. OnlyAt(ns, new, k) /\ new[k] = [ns[k] EXCEPT !.state = "EXPIRED", !.result = "FINAL"]
    BY <1>2, <2>1, <2>2 DEF OnlyAt
  <2> QED BY <2>1, <2>3, ClosedHolds
<1> QED BY <1>1, <1>2 DEF Expired

LEMMA ProcessedHolds ==
  ASSUME NotificationInv, NEW ns, TableSound(ns), NEW k \in DOMAIN ns, NEW answer \in Answers
  PROVE  TableSound(Processed(ns, k, answer)) /\ Len(Processed(ns, k, answer)) = Len(ns)
<1>1. PICK routed : routed = IF ns[k].state = "CREATED" THEN Routed(ns, k) ELSE ns
  OBVIOUS
<1>2. PICK queued : queued = Enqueued(routed, k)
  OBVIOUS
<1>3. PICK sent : sent = IF queued[k].state = "QUEUED" THEN Delivered(queued, k, answer) ELSE queued
  OBVIOUS
<1>4. PICK over : over = [sent EXCEPT ![k].state = "EXHAUSTED"]
  OBVIOUS
<1>5. PICK after : after = IF queued[k].state = "QUEUED" /\ sent[k].state = "DELIVERY_FAILED"
                           THEN IF RetryAllowed(sent[k]) THEN Retried(sent, k) ELSE over
                           ELSE sent
  OBVIOUS
<1>6. PICK again : again = [after EXCEPT ![k].state = "QUEUED"]
  OBVIOUS
<1>7. TableSound(routed) /\ Len(routed) = Len(ns) /\ DOMAIN routed = DOMAIN ns
  BY <1>1, RoutedHolds
<1>8. TableSound(queued) /\ Len(queued) = Len(ns) /\ DOMAIN queued = DOMAIN ns
  BY <1>2, <1>7, EnqueuedHolds
<1>9. TableSound(sent) /\ Len(sent) = Len(ns) /\ DOMAIN sent = DOMAIN ns
  BY <1>3, <1>8, DeliveredHolds
<1>10. TableSound(over) /\ Len(over) = Len(ns) /\ DOMAIN over = DOMAIN ns
  <2>1. sent \in Seq(Notification)
    BY <1>9 DEF TableSound
  <2>2. OnlyAt(sent, over, k) /\ over[k] = [sent[k] EXCEPT !.state = "EXHAUSTED"]
    BY <1>4, <1>9, <2>1 DEF OnlyAt
  <2> QED BY <1>9, <2>2, ClosedHolds
<1>11. TableSound(after) /\ Len(after) = Len(ns) /\ DOMAIN after = DOMAIN ns
  BY <1>5, <1>9, <1>10, RetriedHolds
<1>12. CASE after[k].state = "RETRY_SCHEDULED"
  <2>1. PICK x : x = after[k]
    OBVIOUS
  <2>2. x \in Notification /\ SoundNotification(x) /\ after \in Seq(Notification) /\ x.state = "RETRY_SCHEDULED"
    BY <1>11, <1>12, <2>1 DEF TableSound
  <2>3. PICK y : y = [x EXCEPT !.state = "QUEUED"]
    OBVIOUS
  <2>4. OnlyAt(after, again, k) /\ again[k] = y
    BY <1>6, <1>11, <2>1, <2>2, <2>3 DEF OnlyAt
  <2>5. /\ Reads(x, x, x.state, x.result, x.channel, x.attempts) /\ x.attempts \in Nat /\ x.again \in Nat
        /\ x.attempts < Attempts /\ ClassificationAllows(x.severity, x.channel)
    BY <2>2, ReadsItself DEF SoundNotification
  <2>6. x.attempts < Attempts + x.again /\ x.attempts <= Attempts + x.again
    BY <2>5, NotificationNumbers
  <2>7. "QUEUED" \in OpenStates \cup ClosedStates /\ x.state \in OpenStates
    BY <2>2, StatesAre
  <2>8. Reads(y, x, "QUEUED", x.result, x.channel, x.attempts)
    BY <2>3, <2>5, <2>7, StateSet
  <2>9. y \in Notification /\ SoundNotification(y) /\ Onward(x, y)
    BY <2>2, <2>5, <2>6, <2>7, <2>8, ReadsSound
  <2>10. TableSound(again) /\ Len(again) = Len(after)
    BY <1>11, <2>1, <2>4, <2>9, NotificationChanges
  <2>11. Processed(ns, k, answer) \in {ns, Expired(ns, k), again, after}
    BY <1>1, <1>2, <1>3, <1>4, <1>5, <1>6, Zenon DEF Processed
  <2> QED BY <1>11, <2>10, <2>11, ExpiredHolds
<1>13. CASE after[k].state # "RETRY_SCHEDULED"
  <2>1. Processed(ns, k, answer) \in {ns, Expired(ns, k), after}
    BY <1>1, <1>2, <1>3, <1>4, <1>5, <1>13, Zenon DEF Processed
  <2> QED BY <1>11, <2>1, ExpiredHolds
<1> QED BY <1>12, <1>13

(* The whole queue, one round for each notification.                       *)
LEMMA ProcessQueueHolds ==
  ASSUME NotificationInv, NEW answers \in [DOMAIN notifications -> Answers], ProcessQueue(answers)
  PROVE  NotificationInv'
<1>1. PICK n \in Nat : n = Len(notifications) /\ DOMAIN notifications = 1..n
  BY DEF NotificationInv, TableSound
<1> DEFINE Fine == {ns \in Seq(Notification) : TableSound(ns) /\ Len(ns) = n}
<1>2. ASSUME NEW ns \in Fine, NEW k \in 1..n PROVE Processed(ns, k, answers[k]) \in Fine
  <2>1. TableSound(ns) /\ Len(ns) = n /\ k \in DOMAIN ns /\ answers[k] \in Answers
    BY <1>1
  <2>2. TableSound(Processed(ns, k, answers[k])) /\ Len(Processed(ns, k, answers[k])) = n
    BY <2>1, ProcessedHolds
  <2> QED BY <2>2 DEF TableSound
<1>3. notifications \in Fine
  BY <1>1 DEF NotificationInv, TableSound
<1> DEFINE Rounds(f) == f = [k \in 0..n |-> IF k = 0 THEN notifications ELSE Processed(f[k - 1], k, answers[k])]
<1>4. \E f : Rounds(f)
  <2> DEFINE step == [k \in 1..n |-> [ns \in Fine |-> Processed(ns, k, answers[k])]]
  <2>1. PICK f : f = [k \in 0..n |-> f[k]] /\ Goes(f, n, notifications, step)
    <3> HIDE DEF step
    <3> QED BY RoundsExist
  <2>2. \A k \in 1..n, ns \in Fine : step[k][ns] = Processed(ns, k, answers[k])
    <3> HIDE DEF Fine
    <3> QED OBVIOUS
  <2> HIDE DEF step, Fine
  <2>3. f[0] = notifications /\ \A k \in 1..n : f[k] = step[k][f[k - 1]]
    BY <2>1 DEF Goes
  <2>4. PICK S : S = [k \in 0..n |-> Fine]
    OBVIOUS
  <2>5. \A k \in 0..n : f[k] \in Fine
    <3> SUFFICES ASSUME NEW k \in 0..n PROVE f[k] \in Fine
      OBVIOUS
    <3>1. k \in Nat /\ S[0] = Fine /\ S[k] = Fine
      BY <1>1, <2>4
    <3>2. ASSUME NEW j \in 1..k, f[j - 1] \in S[j - 1] PROVE f[j] \in S[j]
      <4>1. j \in 1..n /\ j - 1 \in 0..n /\ S[j] = Fine /\ S[j - 1] = Fine
        BY <1>1, <2>4, <3>1
      <4> QED BY <1>2, <2>2, <2>3, <3>2, <4>1
    <3>3. f[k] \in S[k]
      BY <1>3, <2>3, <3>1, <3>2, RoundsStay
    <3> QED BY <3>1, <3>3
  <2>6. ASSUME NEW k \in 0..n
        PROVE  f[k] = IF k = 0 THEN notifications ELSE Processed(f[k - 1], k, answers[k])
    <3>1. CASE k = 0
      BY <2>3, <3>1
    <3>2. CASE k # 0
      <4>1. k \in 1..n /\ k - 1 \in 0..n
        BY <1>1, <3>2
      <4> QED BY <2>2, <2>3, <2>5, <3>2, <4>1
    <3> QED BY <3>1, <3>2
  <2>7. Rounds(f)
    BY <2>1, <2>6
  <2> HIDE DEF Rounds
  <2> QED BY <2>7
<1>5. QueueRounds(answers) = CHOOSE f : Rounds(f)
  BY <1>1 DEF QueueRounds
<1>6. PICK f : f = QueueRounds(answers)
  OBVIOUS
<1>7. Rounds(f)
  <2> HIDE DEF Rounds
  <2> QED BY <1>4, <1>5, <1>6
<1>8. f[0] = notifications /\ \A k \in 1..n : f[k] = Processed(f[k - 1], k, answers[k])
  <2>1. \A k \in 0..n : f[k] = IF k = 0 THEN notifications ELSE Processed(f[k - 1], k, answers[k])
    BY <1>7
  <2>2. 0 \in 0..n /\ \A k \in 1..n : k \in 0..n /\ k # 0
    BY <1>1
  <2> QED BY <2>1, <2>2
<1> HIDE DEF Fine, Rounds
<1>9. f[n] \in Fine
  <2>1. PICK S : S = [k \in 0..n |-> Fine]
    OBVIOUS
  <2>2. S[0] = Fine /\ S[n] = Fine /\ \A k \in 1..n : S[k - 1] = Fine /\ S[k] = Fine
    BY <1>1, <2>1
  <2>3. ASSUME NEW k \in 1..n, f[k - 1] \in S[k - 1] PROVE f[k] \in S[k]
    BY <1>2, <1>8, <2>2, <2>3
  <2>4. f[n] \in S[n]
    BY <1>1, <1>3, <1>8, <2>2, <2>3, RoundsStay
  <2> QED BY <2>2, <2>4
<1>10. notifications' = f[n]
  BY <1>1, <1>6 DEF ProcessQueue, OnlyNotifications
<1>11. TableSound(f[n])
  BY <1>9 DEF Fine
<1> QED BY <1>10, <1>11 DEF ProcessQueue, OnlyNotifications, NotificationInv

(* What does not touch the notifications.                                  *)
LEMMA NotificationsKept ==
  ASSUME NotificationInv, UNCHANGED notifications, rules' \in Seq(RuleRecord) /\ Len(rules') <= MaxRules,
         subjects' \in [AlertIds -> [severity : AlertSeverities, escalated : BOOLEAN,
                                     standing : {"OPEN", "MUTED", "GONE"}]],
         serving' \subseteq Channels, everServing' \in Nat, everServing' <= ChannelProviders, notified' \in Nat
  PROVE  NotificationInv'
  BY DEF NotificationInv

(* A notification is made, and the oldest one makes room for it.           *)
LEMMA CreatedHolds ==
  ASSUME NotificationInv, NEW a \in AlertIds, CreateNotification(a)
  PROVE  NotificationInv'
<1>1. PICK ns : ns = notifications
  OBVIOUS
<1>2. /\ ns \in Seq(Notification) /\ Len(ns) <= NotificationRoom /\ Len(ns) \in Nat /\ DOMAIN ns = 1..Len(ns)
      /\ \A k \in DOMAIN ns : ns[k] \in Notification /\ SoundNotification(ns[k])
      /\ \A j, k \in DOMAIN ns :
           /\ j # k /\ ns[j].alert = ns[k].alert /\ ns[j].state \in OpenStates /\ ns[k].state \in OpenStates
           => ns[j].again + ns[k].again > 0
      /\ \A k \in DOMAIN ns : ns[k].alert = a => ns[k].state \notin OpenStates
  BY <1>1 DEF NotificationInv, TableSound, CreateNotification, OpenAbout
<1>3. PICK y : y = [n |-> notified, alert |-> a, severity |-> subjects[a].severity, state |-> "CREATED",
                    result |-> "NONE", channel |-> "LOCAL", attempts |-> 0, age |-> 0,
                    wait |-> 0, again |-> 0]
  OBVIOUS
<1>4. /\ y \in Notification /\ y.alert = a /\ y.state = "CREATED" /\ y.result = "NONE" /\ y.attempts = 0 /\ y.again = 0
  <2>1. subjects[a].severity \in AlertSeverities /\ notified \in Nat
    BY DEF NotificationInv
  <2>2. 0 \in 0..1 /\ "LOCAL" \in Channels
    BY NotificationNumbers
  <2> QED BY <1>3, <2>1, <2>2, StatesAre DEF Notification
<1>5. SoundNotification(y)
  BY <1>4, NotificationNumbers DEF SoundNotification
<1>6. PICK kept : kept = IF Len(ns) = NotificationRoom THEN Tail(ns) ELSE ns
  OBVIOUS
<1>7. PICK d \in 0..1 : /\ Len(kept) = Len(ns) - d /\ Len(kept) \in Nat /\ Len(kept) < NotificationRoom
                        /\ kept \in Seq(Notification) /\ DOMAIN kept = 1..Len(kept)
                        /\ \A k \in DOMAIN kept : k + d \in DOMAIN ns /\ kept[k] = ns[k + d]
  <2>1. CASE Len(ns) = NotificationRoom
    <3>1. ns # <<>> /\ kept = Tail(ns)
      BY <1>2, <1>6, <2>1, NotificationNumbers
    <3>2. /\ Len(kept) = Len(ns) - 1 /\ Len(kept) \in Nat /\ kept \in Seq(Notification)
          /\ \A k \in DOMAIN kept : k + 1 \in DOMAIN ns /\ kept[k] = ns[k + 1]
      BY <1>2, <3>1
    <3>3. 1 \in 0..1 /\ Len(kept) < NotificationRoom
      BY <1>2, <2>1, <3>2
    <3> QED BY <3>2, <3>3
  <2>2. CASE Len(ns) # NotificationRoom
    <3>0. Len(ns) \in Nat /\ Len(ns) <= NotificationRoom /\ NotificationRoom \in Nat
      BY <1>2, NotificationNumbers
    <3>1. kept = ns /\ 0 \in 0..1 /\ Len(ns) < NotificationRoom
      <4>1. kept = ns
        BY <1>6, <2>2
      <4>2. Len(ns) < NotificationRoom
        BY <2>2, <3>0
      <4> QED BY <4>1, <4>2
    <3>2. \A k \in DOMAIN kept : k + 0 = k
      BY <1>2, <3>1
    <3>3. Len(kept) = Len(ns) - 0
      BY <1>2, <3>1
    <3> QED BY <1>2, <3>1, <3>2, <3>3
  <2> QED BY <2>1, <2>2
<1>8. PICK new : new = Append(kept, y)
  OBVIOUS
<1>9. notifications' = new
  BY <1>1, <1>3, <1>6, <1>8 DEF CreateNotification, Created
<1>10. /\ new \in Seq(Notification) /\ Len(new) = Len(kept) + 1 /\ Len(new) <= NotificationRoom
       /\ DOMAIN new = 1..(Len(kept) + 1) /\ new[Len(kept) + 1] = y
       /\ \A k \in DOMAIN kept : new[k] = kept[k]
  BY <1>4, <1>7, <1>8, NotificationNumbers
<1>11. ASSUME NEW k \in DOMAIN new
       PROVE  \/ k = Len(kept) + 1 /\ new[k] = y
              \/ k \in DOMAIN kept /\ k + d \in DOMAIN ns /\ new[k] = ns[k + d]
  BY <1>7, <1>10
<1>12. \A k \in DOMAIN new : SoundNotification(new[k])
  BY <1>2, <1>5, <1>11
<1>13. ASSUME NEW j \in DOMAIN new, NEW k \in DOMAIN new, j # k, new[j].alert = new[k].alert,
              new[j].state \in OpenStates, new[k].state \in OpenStates
       PROVE  new[j].again + new[k].again > 0
  <2>1. \A h \in DOMAIN ns : ns[h].alert = y.alert => ns[h].state \notin OpenStates
    BY <1>2, <1>4
  <2>2. CASE j = Len(kept) + 1 \/ k = Len(kept) + 1
    BY <1>10, <1>11, <1>13, <2>1, <2>2
  <2>3. CASE j # Len(kept) + 1 /\ k # Len(kept) + 1
    <3>1. j + d \in DOMAIN ns /\ k + d \in DOMAIN ns /\ new[j] = ns[j + d] /\ new[k] = ns[k + d] /\ j + d # k + d
      BY <1>7, <1>10, <1>11, <1>13, <2>3
    <3> QED BY <1>2, <1>13, <3>1
  <2> QED BY <2>2, <2>3
<1>14. TableSound(new)
  BY <1>10, <1>12, <1>13 DEF TableSound
<1>15. notified' \in Nat
  BY DEF NotificationInv, CreateNotification
<1> QED BY <1>9, <1>14, <1>15 DEF CreateNotification, NotificationInv

(* What was delivered is opened again by an escalation.                    *)
LEMMA ReescalationHolds ==
  ASSUME NotificationInv, NEW a \in AlertIds, NEW k \in DOMAIN notifications,
         notifications[k].state = "DELIVERED",
         notifications' = [notifications EXCEPT ![k] = Reescalated(@, subjects[a])]
  PROVE  TableSound(notifications')
<1>1. PICK ns : ns = notifications
  OBVIOUS
<1>2. PICK x : x = ns[k]
  OBVIOUS
<1>3. /\ TableSound(ns) /\ ns \in Seq(Notification) /\ x \in Notification /\ SoundNotification(x)
      /\ x.state = "DELIVERED" /\ k \in DOMAIN ns
  BY <1>1, <1>2 DEF NotificationInv, TableSound
<1>4. PICK severity \in AlertSeverities : severity = subjects[a].severity
  BY DEF NotificationInv
<1>5. PICK y : y = [x EXCEPT !.severity = severity, !.state = "CREATED", !.again = x.again + 1]
  OBVIOUS
<1>6. PICK new : new = notifications'
  OBVIOUS
<1>7. new = [ns EXCEPT ![k] = y]
  BY <1>1, <1>2, <1>4, <1>5, <1>6 DEF Reescalated
<1>8. OnlyAt(ns, new, k) /\ new[k] = y
  BY <1>3, <1>7 DEF OnlyAt
<1>9. x.attempts \in Nat /\ x.again \in Nat /\ x.result = "SUCCESS" /\ x.attempts <= Attempts + x.again
  BY <1>3, ReadsItself DEF SoundNotification
<1>10. "CREATED" \in OpenStates \cup ClosedStates
  BY StatesAre
<1>11. /\ y \in Notification /\ y.state = "CREATED" /\ y.result = "SUCCESS" /\ y.attempts = x.attempts
       /\ y.again = x.again + 1 /\ y.alert = x.alert
  <2>1. PICK z : z = [x EXCEPT !.severity = severity]
    OBVIOUS
  <2>2. z \in Notification /\ z.result = "SUCCESS" /\ z.attempts = x.attempts /\ z.again = x.again /\ z.alert = x.alert
    BY <1>3, <1>9, <2>1 DEF Notification
  <2>3. PICK w : w = [z EXCEPT !.state = "CREATED"]
    OBVIOUS
  <2>4. /\ w \in Notification /\ w.result = "SUCCESS" /\ w.attempts = x.attempts /\ w.again = x.again
        /\ w.alert = x.alert /\ w.state = "CREATED"
    BY <1>10, <2>2, <2>3 DEF Notification
  <2>5. y = [w EXCEPT !.again = x.again + 1]
    BY <1>5, <2>1, <2>3
  <2> QED BY <1>9, <2>4, <2>5 DEF Notification
<1>12. y.attempts < Attempts + y.again /\ y.attempts <= Attempts + y.again /\ y.again > 0 /\ y.again >= x.again
  BY <1>9, <1>11, NotificationNumbers
<1>13. SoundNotification(y) /\ Onward(x, y)
  BY <1>11, <1>12 DEF SoundNotification, Onward
<1> QED BY <1>2, <1>3, <1>6, <1>8, <1>11, <1>13, NotificationChanges

LEMMA CancelHolds ==
  ASSUME NotificationInv, NEW k \in DOMAIN notifications, CancelNotification(k)
  PROVE  TableSound(notifications')
<1>1. TableSound(notifications) /\ notifications \in Seq(Notification)
  BY DEF NotificationInv, TableSound
<1>2. PICK new : new = notifications'
  OBVIOUS
<1>3. OnlyAt(notifications, new, k) /\ new[k] = [notifications[k] EXCEPT !.state = "CANCELLED", !.result = "FINAL"]
  BY <1>1, <1>2 DEF CancelNotification, OnlyNotifications, OnlyAt
<1> QED BY <1>1, <1>2, <1>3, ClosedHolds

LEMMA CleanupHolds ==
  ASSUME NotificationInv, CleanupExpired
  PROVE  TableSound(notifications')
<1>1. PICK ns : ns = notifications
  OBVIOUS
<1>2. TableSound(ns) /\ ns \in Seq(Notification)
  BY <1>1 DEF NotificationInv, TableSound
<1>3. PICK new : new = notifications'
  OBVIOUS
<1>4. new = [k \in DOMAIN ns |-> IF ns[k].state = "EXHAUSTED" /\ IsExpired(ns[k]) THEN Expired(ns, k)[k] ELSE ns[k]]
  BY <1>1, <1>3 DEF CleanupExpired, OnlyNotifications
<1>5. ASSUME NEW k \in DOMAIN ns
      PROVE  new[k] \in Notification /\ SoundNotification(new[k]) /\ Onward(ns[k], new[k])
  <2>1. ns[k] \in Notification /\ SoundNotification(ns[k]) /\ ns[k].again \in Nat
    <3>1. PICK x \in Notification : x = ns[k] /\ SoundNotification(x)
      BY <1>2 DEF TableSound
    <3>2. x.again \in Nat
      BY DEF Notification
    <3> QED BY <3>1, <3>2
  <2>2. CASE new[k] = ns[k]
    BY <2>1, <2>2 DEF Onward
  <2>3. CASE ns[k].state = "EXHAUSTED" /\ new[k] = Expired(ns, k)[k]
    <3>1. PICK one : one = [ns EXCEPT ![k].state = "EXPIRED", ![k].result = "FINAL"]
      OBVIOUS
    <3>2. OnlyAt(ns, one, k) /\ one[k] = [ns[k] EXCEPT !.state = "EXPIRED", !.result = "FINAL"]
      BY <1>2, <3>1 DEF OnlyAt
    <3>3. new[k] = one[k]
      BY <2>3, <3>1 DEF Expired
    <3> QED BY <1>2, <3>2, <3>3, ClosedHolds
  <2> QED BY <1>4, <2>2, <2>3
<1>6. new = [k \in DOMAIN ns |-> new[k]]
  BY <1>4
<1> QED BY <1>2, <1>3, <1>5, <1>6, NotificationsChange

LEMMA NotificationElapseHolds ==
  ASSUME NotificationInv, NotificationElapse
  PROVE  TableSound(notifications')
<1>1. PICK ns : ns = notifications
  OBVIOUS
<1>2. TableSound(ns) /\ ns \in Seq(Notification)
  BY <1>1 DEF NotificationInv, TableSound
<1>3. PICK new : new = notifications'
  OBVIOUS
<1>4. new = [k \in DOMAIN ns |-> [ns[k] EXCEPT !.wait = 0, !.age = IF @ < NotificationLife \/ @ < SendWindow THEN @ + 1 ELSE @]]
  BY <1>1, <1>3 DEF NotificationElapse, OnlyNotifications
<1>5. ASSUME NEW k \in DOMAIN ns
      PROVE  new[k] \in Notification /\ SoundNotification(new[k]) /\ Onward(ns[k], new[k])
  <2>1. PICK x \in Notification : x = ns[k] /\ SoundNotification(x)
    BY <1>2 DEF TableSound
  <2>2. PICK age : age = IF x.age < NotificationLife \/ x.age < SendWindow THEN x.age + 1 ELSE x.age
    OBVIOUS
  <2>3. age \in Nat
    <3>1. x.age \in Nat
      BY DEF Notification
    <3> QED BY <2>2, <3>1
  <2>4. PICK y : y = [[x EXCEPT !.wait = 0] EXCEPT !.age = age]
    OBVIOUS
  <2>5. new[k] = y
    BY <1>4, <2>1, <2>2, <2>4
  <2>6. Reads(y, x, x.state, x.result, x.channel, x.attempts)
    <3>1. PICK z : z = [x EXCEPT !.wait = 0]
      OBVIOUS
    <3>2. 0 \in 0..1 /\ Reads(x, x, x.state, x.result, x.channel, x.attempts)
      BY ReadsItself
    <3>3. Reads(z, x, x.state, x.result, x.channel, x.attempts)
      BY <3>1, <3>2, WaitSet
    <3>4. y = [z EXCEPT !.age = age]
      BY <2>4, <3>1
    <3> QED BY <2>3, <3>3, <3>4 DEF Reads, Notification
  <2>7. x.again \in Nat
    BY DEF Notification
  <2>8. SoundNotification(y) /\ Onward(x, y) /\ y \in Notification
    BY <2>1, <2>6, <2>7 DEF Reads, SoundNotification, Onward
  <2> QED BY <2>1, <2>5, <2>8
<1>6. new = [k \in DOMAIN ns |-> new[k]]
  BY <1>4
<1> QED BY <1>2, <1>3, <1>5, <1>6, NotificationsChange

LEMMA RulesLeft ==
  ASSUME NotificationInv, NEW k \in DOMAIN rules, RemoveRule(k)
  PROVE  rules' \in Seq(RuleRecord) /\ Len(rules') <= MaxRules
<1>1. /\ rules \in Seq(RuleRecord) /\ Len(rules) \in Nat /\ Len(rules) <= MaxRules /\ MaxRules \in Nat
      /\ DOMAIN rules = 1..Len(rules)
  BY NotificationNumbers DEF NotificationInv
<1>2. Last(rules) \in RuleRecord
  BY <1>1 DEF Last
<1>3. PICK moved : moved = [rules EXCEPT ![k] = Last(rules)]
  OBVIOUS
<1>4. moved \in Seq(RuleRecord) /\ Len(moved) = Len(rules) /\ moved = [j \in 1..Len(rules) |-> moved[j]]
      /\ \A j \in 1..Len(rules) : moved[j] \in RuleRecord
  <2>1. moved = [j \in 1..Len(rules) |-> moved[j]] /\ \A j \in 1..Len(rules) : moved[j] = IF j = k THEN Last(rules) ELSE rules[j]
    BY <1>1, <1>3
  <2>2. \A j \in 1..Len(rules) : moved[j] \in RuleRecord
    BY <1>1, <1>2, <2>1
  <2> QED BY <1>1, <2>1, <2>2
<1>5. rules' = Front(moved)
  BY <1>3 DEF RemoveRule
<1>6. Front(moved) \in Seq(RuleRecord) /\ Len(Front(moved)) = Len(rules) - 1
  BY <1>1, <1>4 DEF Front
<1> QED BY <1>1, <1>5, <1>6

LEMMA NotificationStart == SecurityInit => NotificationInv
<1> SUFFICES ASSUME SecurityInit PROVE NotificationInv
  OBVIOUS
<1>1. NotificationInit
  BY DEF SecurityInit
<1>2. TableSound(notifications)
  BY <1>1, NotificationNumbers DEF NotificationInit, TableSound
<1>3. rules \in Seq(RuleRecord) /\ Len(rules) <= MaxRules
  BY <1>1, NotificationNumbers DEF NotificationInit
<1>4. subjects \in [AlertIds -> [severity : AlertSeverities, escalated : BOOLEAN, standing : {"OPEN", "MUTED", "GONE"}]]
  <2>1. PICK least \in SUBSET AlertSeverities :
          subjects \in [AlertIds -> [severity : least, escalated : {FALSE}, standing : {"OPEN"}]]
    BY <1>1 DEF NotificationInit
  <2>2. [severity : least, escalated : {FALSE}, standing : {"OPEN"}]
          \subseteq [severity : AlertSeverities, escalated : BOOLEAN, standing : {"OPEN", "MUTED", "GONE"}]
    OBVIOUS
  <2> QED BY <2>1, <2>2
<1>5. serving = {} /\ everServing = 0 /\ notified = 0 /\ ChannelProviders \in Nat
  BY <1>1, NotificationNumbers DEF NotificationInit
<1> QED BY <1>2, <1>3, <1>4, <1>5 DEF NotificationInv

LEMMA NotificationStep == NotificationInv /\ [NotificationNext]_notificationVars => NotificationInv'
<1> SUFFICES ASSUME NotificationInv, NotificationNext \/ UNCHANGED notificationVars PROVE NotificationInv'
  OBVIOUS
<1>0. /\ TableSound(notifications) /\ rules \in Seq(RuleRecord) /\ Len(rules) <= MaxRules
      /\ subjects \in [AlertIds -> [severity : AlertSeverities, escalated : BOOLEAN, standing : {"OPEN", "MUTED", "GONE"}]]
      /\ serving \subseteq Channels /\ everServing \in Nat /\ everServing <= ChannelProviders /\ notified \in Nat
  BY DEF NotificationInv
<1>1. ASSUME NEW new, OnlyNotifications(new), TableSound(notifications')
      PROVE  NotificationInv'
  BY <1>0, <1>1 DEF OnlyNotifications, NotificationInv
<1>2. CASE UNCHANGED notificationVars
  BY <1>0, <1>2, NotificationsKept DEF notificationVars
<1>3. ASSUME NEW a \in AlertIds, CreateNotification(a) PROVE NotificationInv'
  BY <1>3, CreatedHolds
<1>4. ASSUME NEW a \in AlertIds, ProcessAlert(a) PROVE NotificationInv'
  <2>1. CASE CreateNotification(a)
    BY <2>1, CreatedHolds
  <2>2. CASE ~CreateNotification(a)
    <3>1. PICK k \in Deciding(a) :
            /\ notifications[k].state = "DELIVERED"
            /\ notifications' = [notifications EXCEPT ![k] = Reescalated(@, subjects[a])]
            /\ UNCHANGED <<subjects, rules, enabled, serving, everServing, notified>>
      BY <1>4, <2>2 DEF ProcessAlert
    <3>2. k \in DOMAIN notifications
      BY DEF Deciding
    <3>3. TableSound(notifications')
      BY <3>1, <3>2, ReescalationHolds
    <3> QED BY <1>0, <3>1, <3>3 DEF NotificationInv
  <2> QED BY <2>1, <2>2
<1>5. ASSUME NEW a \in AlertIds, NEW subject \in [severity : AlertSeverities, escalated : BOOLEAN, standing : {"OPEN", "MUTED", "GONE"}],
             AlertChanges(a, subject)
      PROVE  NotificationInv'
  BY <1>0, <1>5, NotificationsKept DEF AlertChanges
<1>6. ASSUME NEW answers \in [DOMAIN notifications -> Answers], ProcessQueue(answers) PROVE NotificationInv'
  BY <1>6, ProcessQueueHolds
<1>7. ASSUME NEW k \in DOMAIN notifications,
             RouteNotification(k) \/ EnqueueNotification(k) \/ RetryNotification(k) \/ ExpireNotification(k)
      PROVE  NotificationInv'
  <2>1. CASE RouteNotification(k)
    <3>1. notifications[k].state = "CREATED"
      BY <2>1 DEF RouteNotification, MayMove, NotificationMoves
    <3>2. TableSound(Routed(notifications, k))
      BY <1>0, <3>1, RoutedHolds
    <3> QED BY <1>1, <2>1, <3>2 DEF RouteNotification, OnlyNotifications
  <2>2. CASE EnqueueNotification(k)
    BY <1>0, <1>1, <2>2, EnqueuedHolds DEF EnqueueNotification, OnlyNotifications
  <2>3. CASE RetryNotification(k)
    BY <1>0, <1>1, <2>3, RetriedHolds DEF RetryNotification, OnlyNotifications
  <2>4. CASE ExpireNotification(k)
    BY <1>0, <1>1, <2>4, ExpiredHolds DEF ExpireNotification, OnlyNotifications
  <2> QED BY <1>7, <2>1, <2>2, <2>3, <2>4
<1>8. ASSUME NEW k \in DOMAIN notifications, CancelNotification(k) PROVE NotificationInv'
  <2>1. TableSound(notifications')
    BY <1>8, CancelHolds
  <2>2. PICK new : OnlyNotifications(new)
    BY <1>8 DEF CancelNotification
  <2> QED BY <1>1, <2>1, <2>2
<1>9. ASSUME NEW k \in DOMAIN notifications, NEW answer \in Answers, DeliverNotification(k, answer) PROVE NotificationInv'
  <2>1. notifications[k].state = "QUEUED"
    BY <1>9 DEF DeliverNotification, MayMove, NotificationMoves
  <2>2. TableSound(Delivered(notifications, k, answer))
    BY <1>0, <2>1, DeliveredHolds
  <2> QED BY <1>1, <1>9, <2>2 DEF DeliverNotification, OnlyNotifications
<1>10. CASE CleanupExpired
  <2>1. PICK new : OnlyNotifications(new)
    BY <1>10 DEF CleanupExpired
  <2> QED BY <1>1, <1>10, <2>1, CleanupHolds
<1>11. CASE NotificationElapse
  <2>1. PICK new : OnlyNotifications(new)
    BY <1>11 DEF NotificationElapse
  <2> QED BY <1>1, <1>11, <2>1, NotificationElapseHolds
<1>12. ASSUME NEW rule \in Rules, AddRule(rule) PROVE NotificationInv'
  <2>1. rules' = Append(rules, rule) /\ Len(rules) < MaxRules /\ rule \in RuleRecord /\ MaxRules \in Nat
    BY <1>12, NotificationNumbers DEF AddRule
  <2>2. rules' \in Seq(RuleRecord) /\ Len(rules') <= MaxRules
    BY <1>0, <2>1
  <2> QED BY <1>0, <1>12, <2>2, NotificationsKept DEF AddRule
<1>13. ASSUME NEW k \in DOMAIN rules, RemoveRule(k) PROVE NotificationInv'
  <2>1. rules' \in Seq(RuleRecord) /\ Len(rules') <= MaxRules
    BY <1>13, RulesLeft
  <2> QED BY <1>0, <1>13, <2>1, NotificationsKept DEF RemoveRule
<1>14. ASSUME NEW choice \in ChannelPolicies, SetChannels(choice) PROVE NotificationInv'
  BY <1>0, <1>14, NotificationsKept DEF SetChannels
<1>15. ASSUME NEW channel \in Channels, RegisterSender(channel) \/ UnregisterSender(channel) PROVE NotificationInv'
  <2>1. ChannelProviders \in Nat
    BY NotificationNumbers
  <2>2. serving' \subseteq Channels /\ everServing' \in Nat /\ everServing' <= ChannelProviders
    BY <1>0, <1>15, <2>1 DEF RegisterSender, UnregisterSender
  <2>3. UNCHANGED <<subjects, notifications, rules, enabled, notified>>
    BY <1>15 DEF RegisterSender, UnregisterSender
  <2> QED BY <1>0, <2>2, <2>3, NotificationsKept
<1> QED BY <1>2, <1>3, <1>4, <1>5, <1>6, <1>7, <1>8, <1>9, <1>10, <1>11, <1>12, <1>13, <1>14, <1>15 DEF NotificationNext

-----------------------------------------------------------------------------
(* Alerts.  What was resolved is not open any more; the queue is in the    *)
(* order of its numbers, and what awaits a notification is in it.          *)
Marks == {"NONE", "PENDING", "SENT", "FAILED"}
Alert == [id : Nat \cup {Nameless}, severity : 0..Severest, state : AlertStates, level : 0..MaxEscalation,
          count : 1..MaxDuplicates, quiet : Int, notified : Marks, reason : Nat]
Notice == [n : Nat, alert : Nat, retries : Nat, age : Nat]
DedupEntry == [key : AlertKeys, alert : Nat, age : Nat]
SoundAlert(x) ==
  /\ x.state = "SUPPRESSED" /\ x.severity = Severest => x.reason > 0
  /\ x.quiet # NotResolved => x.state \in {"RESOLVED", "CANCELLED"}
RingSound(ring) ==
  ring \in Seq(Alert) /\ Len(ring) <= AlertRoom /\ \A k \in DOMAIN ring : SoundAlert(ring[k])
ActiveIn(ring) == {k \in DOMAIN ring : ring[k].state = "ACTIVE"}
CountSound(ring, count, missing) == missing \in Nat /\ count = Cardinality(ActiveIn(ring)) + missing /\ count <= MaxActive
QueueSound(queue, last, most) ==
  /\ queue \in Seq(Notice) /\ Len(queue) <= NotifyRoom /\ last \in Nat /\ most \in Nat /\ last <= most
  /\ \A j, k \in DOMAIN queue : j < k => queue[j].n < queue[k].n
  /\ \A k \in DOMAIN queue : last < queue[k].n /\ queue[k].n <= most /\ (k > 1 => queue[k].retries = 0)
AwaitedIn(ring, queue) ==
  \A k \in DOMAIN ring : ring[k].notified = "PENDING" /\ ring[k].id # Nameless =>
    \E j \in DOMAIN queue : queue[j].alert = ring[k].id
DedupSound(table) == table \in Seq(DedupEntry) /\ Len(table) <= DedupRoom
AlertInv ==
  /\ RingSound(alerts) /\ CountSound(alerts, activeCount, lostActive) /\ DedupSound(dedup)
  /\ QueueSound(notices, lastSent, asked) /\ AwaitedIn(alerts, notices)
  /\ fails \in 0..ProviderFails /\ providers \in 0..MaxProviders /\ sequence \in Nat

LEMMA AlertNumbers ==
  /\ AlertRoom \in Nat \ {0} /\ MaxActive \in Nat /\ DedupRoom \in Nat \ {0} /\ NotifyRoom \in Nat
  /\ ProviderFails \in Nat /\ RetainResolved \in Nat /\ MaxDuplicates \in Nat \ {0}
  /\ DedupWindow \in Nat /\ MaxEscalation \in Nat /\ NotifyWindow \in Nat /\ MaxNotifyRetries \in Nat
  /\ MaxProviders \in Nat /\ Reported \subseteq 0..4
  BY AlertAssumption

LEMMA AlertImplied == AlertInv => AlertsSafe
<1> SUFFICES ASSUME AlertInv PROVE AlertsSafe
  OBVIOUS
<1>1. AlertTypeOK
  BY DEF AlertInv, RingSound, DedupSound, QueueSound, AlertTypeOK, Alert, Marks
<1>2. ActiveCounted
  BY DEF AlertInv, CountSound, ActiveCounted, ActiveIn, ActiveAlerts
<1>3. CriticalNotSilenced
  BY DEF AlertInv, RingSound, SoundAlert, CriticalNotSilenced
<1>4. NoticesInOrder
  BY DEF AlertInv, QueueSound, AwaitedIn, NoticesInOrder
<1> QED BY <1>1, <1>2, <1>3, <1>4 DEF AlertsSafe

LEMMA ActiveAreFinite ==
  ASSUME NEW ring \in Seq(Alert)
  PROVE  IsFiniteSet(ActiveIn(ring)) /\ Cardinality(ActiveIn(ring)) \in Nat
<1>1. Len(ring) \in Nat /\ ActiveIn(ring) \in SUBSET (1..Len(ring))
  BY DEF ActiveIn
<1>2. IsFiniteSet(1..Len(ring))
  BY <1>1, FS_Interval
<1>3. IsFiniteSet(ActiveIn(ring))
  BY <1>1, <1>2, FS_Subset
<1> QED BY <1>3, FS_CardinalityType

(* Alerts that change in their places.                                     *)
LEMMA RingChanges ==
  ASSUME NEW ring, RingSound(ring), NEW new, new = [k \in DOMAIN ring |-> new[k]],
         \A k \in DOMAIN ring : new[k] \in Alert /\ SoundAlert(new[k])
  PROVE  RingSound(new) /\ DOMAIN new = DOMAIN ring
<1>1. ring \in Seq(Alert) /\ Len(ring) \in Nat /\ DOMAIN ring = 1..Len(ring) /\ Len(ring) <= AlertRoom
  BY DEF RingSound
<1>2. DOMAIN new = DOMAIN ring
  OBVIOUS
<1>3. new \in Seq(Alert) /\ Len(new) = Len(ring)
  BY <1>1
<1> QED BY <1>1, <1>2, <1>3 DEF RingSound

LEMMA CountStays ==
  ASSUME NEW ring, NEW new, NEW count, NEW missing, CountSound(ring, count, missing), DOMAIN new = DOMAIN ring,
         \A k \in DOMAIN ring : new[k].state = "ACTIVE" <=> ring[k].state = "ACTIVE"
  PROVE  CountSound(new, count, missing)
<1>1. ActiveIn(new) = ActiveIn(ring)
  BY DEF ActiveIn
<1> QED BY <1>1 DEF CountSound

LEMMA CountFalls ==
  ASSUME NEW ring \in Seq(Alert), NEW new, NEW count, NEW missing, CountSound(ring, count, missing),
         DOMAIN new = DOMAIN ring, NEW k \in DOMAIN ring, ring[k].state = "ACTIVE", new[k].state # "ACTIVE",
         \A j \in DOMAIN ring : j # k => new[j] = ring[j]
  PROVE  CountSound(new, count - 1, missing)
<1>1. ActiveIn(new) = ActiveIn(ring) \ {k} /\ k \in ActiveIn(ring)
  BY DEF ActiveIn
<1>2. IsFiniteSet(ActiveIn(ring)) /\ Cardinality(ActiveIn(ring)) \in Nat
  BY ActiveAreFinite
<1>3. Cardinality(ActiveIn(new)) = Cardinality(ActiveIn(ring)) - 1
  BY <1>1, <1>2, FS_RemoveElement
<1> QED BY <1>2, <1>3, AlertNumbers DEF CountSound

(* What is awaited stays so where neither names nor marks nor the queue    *)
(* change, or where both are taken away.                                   *)
LEMMA AwaitedStays ==
  ASSUME NEW ring, NEW queue, AwaitedIn(ring, queue), NEW new, DOMAIN new = DOMAIN ring,
         \A k \in DOMAIN ring : \/ new[k].id = ring[k].id /\ new[k].notified = ring[k].notified
                                \/ new[k].id = Nameless
  PROVE  AwaitedIn(new, queue)
  BY DEF AwaitedIn

(* One alert moves, and the counter follows.                               *)
LEMMA AlertMovedHolds ==
  ASSUME AlertInv, NEW k \in DOMAIN alerts, NEW to \in AlertStates \ {"ACTIVE"}, NEW alert,
         AlertMoved(k, to, alert), alert \in Alert, alert.id = alerts[k].id, alert.notified = alerts[k].notified,
         to = "SUPPRESSED" /\ alert.severity = Severest => alert.reason > 0,
         alert.quiet # NotResolved => to = "RESOLVED"
  PROVE  AlertInv'
<1>1. PICK y : y = [alert EXCEPT !.state = to]
  OBVIOUS
<1>2. /\ y \in Alert /\ y.state = to /\ y.id = alert.id /\ y.notified = alert.notified
      /\ y.severity = alert.severity /\ y.reason = alert.reason /\ y.quiet = alert.quiet
  BY <1>1 DEF Alert
<1>3. SoundAlert(y)
  BY <1>2 DEF SoundAlert
<1>4. PICK new : new = alerts'
  OBVIOUS
<1>5. alerts \in Seq(Alert) /\ \A j \in DOMAIN alerts : alerts[j] \in Alert /\ SoundAlert(alerts[j])
  BY DEF AlertInv, RingSound
<1>6. /\ new = [j \in DOMAIN alerts |-> new[j]] /\ new[k] = y
      /\ \A j \in DOMAIN alerts : j # k => new[j] = alerts[j]
  BY <1>1, <1>4, <1>5 DEF AlertMoved
<1>7. RingSound(new) /\ DOMAIN new = DOMAIN alerts
  BY <1>2, <1>3, <1>5, <1>6, RingChanges DEF AlertInv
<1>8. CountSound(new, CountAfter(alerts[k].state, to), lostActive)
  <2>1. CASE alerts[k].state = "ACTIVE"
    <3>1. CountSound(new, activeCount - 1, lostActive)
      BY <1>2, <1>5, <1>6, <1>7, <2>1, CountFalls DEF AlertInv
    <3> QED BY <2>1, <3>1 DEF CountAfter
  <2>2. CASE alerts[k].state # "ACTIVE"
    <3>1. CountSound(new, activeCount, lostActive)
      BY <1>2, <1>6, <1>7, <2>2, CountStays DEF AlertInv
    <3> QED BY <2>2, <3>1 DEF CountAfter
  <2> QED BY <2>1, <2>2
<1>9. AwaitedIn(new, notices)
  BY <1>2, <1>6, <1>7, AwaitedStays DEF AlertInv
<1> QED BY <1>4, <1>7, <1>8, <1>9 DEF AlertMoved, AlertInv

(* An alert changes in its place, and is as open as before.                *)
LEMMA AlertsChange ==
  ASSUME AlertInv, alerts' = [k \in DOMAIN alerts |-> alerts'[k]],
         \A k \in DOMAIN alerts :
           /\ alerts'[k] \in Alert /\ SoundAlert(alerts'[k])
           /\ alerts'[k].state = "ACTIVE" <=> alerts[k].state = "ACTIVE"
           /\ \/ alerts'[k].id = alerts[k].id /\ alerts'[k].notified = alerts[k].notified
              \/ alerts'[k].id = Nameless
  PROVE  RingSound(alerts') /\ CountSound(alerts', activeCount, lostActive) /\ AwaitedIn(alerts', notices)
<1>1. PICK new : new = alerts'
  OBVIOUS
<1>2. RingSound(new) /\ DOMAIN new = DOMAIN alerts
  BY <1>1, RingChanges DEF AlertInv
<1>3. CountSound(new, activeCount, lostActive)
  BY <1>1, <1>2, CountStays DEF AlertInv
<1>4. AwaitedIn(new, notices)
  BY <1>1, <1>2, AwaitedStays DEF AlertInv
<1> QED BY <1>1, <1>2, <1>3, <1>4

LEMMA AlertIs ==
  ASSUME AlertInv, NEW k \in DOMAIN alerts
  PROVE  /\ alerts[k] \in Alert /\ SoundAlert(alerts[k]) /\ alerts[k].state \in AlertStates
         /\ alerts[k].severity \in 0..Severest /\ alerts[k].level \in 0..MaxEscalation
         /\ alerts[k].count \in 1..MaxDuplicates /\ alerts[k].quiet \in Int /\ alerts[k].reason \in Nat
         /\ alerts[k].id \in Nat \cup {Nameless} /\ alerts[k].notified \in Marks
<1>1. alerts[k] \in Alert /\ SoundAlert(alerts[k])
  BY DEF AlertInv, RingSound
<1> QED BY <1>1 DEF Alert

LEMMA MovesHold ==
  ASSUME AlertInv, NEW k \in DOMAIN alerts,
         \/ AcknowledgeAlert(k) \/ ResolveAlert(k) \/ CancelAlert(k)
         \/ \E reason \in {0, 1} : SuppressAlert(k, reason)
  PROVE  AlertInv'
<1>1. PICK x \in Alert : x = alerts[k] /\ SoundAlert(x)
  BY AlertIs
<1>2. {"ACKNOWLEDGED", "RESOLVED", "SUPPRESSED", "CANCELLED"} \subseteq AlertStates \ {"ACTIVE"}
  BY DEF AlertStates
<1>3. ASSUME x.state \in {"ACTIVE", "ACKNOWLEDGED"} PROVE x.quiet = NotResolved
  BY <1>1, <1>3 DEF SoundAlert
<1>4. ASSUME NEW to, NEW alert, AlertMoved(k, to, alert) PROVE x.state \in {"ACTIVE", "ACKNOWLEDGED"}
  BY <1>1, <1>4 DEF AlertMoved, AlertMayBecome
<1>5. CASE AcknowledgeAlert(k)
  <2>1. AlertMoved(k, "ACKNOWLEDGED", x)
    BY <1>1, <1>5 DEF AcknowledgeAlert
  <2>2. x.quiet = NotResolved
    BY <1>3, <1>4, <2>1
  <2> QED BY <1>1, <1>2, <2>1, <2>2, AlertMovedHolds
<1>6. CASE CancelAlert(k)
  <2>1. AlertMoved(k, "CANCELLED", x)
    BY <1>1, <1>6 DEF CancelAlert
  <2>2. x.quiet = NotResolved
    BY <1>3, <1>4, <2>1
  <2> QED BY <1>1, <1>2, <2>1, <2>2, AlertMovedHolds
<1>7. CASE ResolveAlert(k)
  <2>1. PICK y : y = [x EXCEPT !.quiet = 0]
    OBVIOUS
  <2>2. AlertMoved(k, "RESOLVED", y)
    BY <1>1, <1>7, <2>1 DEF ResolveAlert
  <2>3. y \in Alert /\ y.id = x.id /\ y.notified = x.notified
    BY <2>1 DEF Alert
  <2> QED BY <1>1, <1>2, <2>2, <2>3, AlertMovedHolds
<1>8. ASSUME NEW reason \in {0, 1}, SuppressAlert(k, reason) PROVE AlertInv'
  <2>1. PICK y : y = [x EXCEPT !.reason = reason]
    OBVIOUS
  <2>2. AlertMoved(k, "SUPPRESSED", y) /\ (x.severity = Severest => reason > 0)
    BY <1>1, <1>8, <2>1 DEF SuppressAlert
  <2>3. y \in Alert /\ y.id = x.id /\ y.notified = x.notified /\ y.severity = x.severity /\ y.reason = reason /\ y.quiet = x.quiet
    BY <2>1 DEF Alert
  <2>4. x.quiet = NotResolved
    BY <1>3, <1>4, <2>2
  <2> QED BY <1>1, <1>2, <2>2, <2>3, <2>4, AlertMovedHolds
<1> QED BY <1>5, <1>6, <1>7, <1>8

LEMMA EscalateHolds ==
  ASSUME AlertInv, NEW k \in DOMAIN alerts, EscalateAlert(k)
  PROVE  AlertInv'
<1>1. PICK x \in Alert : x = alerts[k] /\ SoundAlert(x)
  BY AlertIs
<1>2. /\ x.level < MaxEscalation /\ x.state \in {"ACTIVE", "ACKNOWLEDGED"}
      /\ x.level \in 0..MaxEscalation /\ x.severity \in 0..Severest
  BY <1>1, AlertIs DEF EscalateAlert
<1>3. PICK severity : severity = IF x.severity < Severest THEN x.severity + 1 ELSE x.severity
  OBVIOUS
<1>4. severity \in 0..Severest /\ x.level + 1 \in 0..MaxEscalation
  BY <1>2, <1>3, AlertNumbers DEF Severest
<1>5. PICK z : z = [x EXCEPT !.level = x.level + 1]
  OBVIOUS
<1>6. PICK y : y = [z EXCEPT !.severity = severity]
  OBVIOUS
<1>7. z \in Alert /\ z.id = x.id /\ z.notified = x.notified /\ z.state = x.state /\ z.quiet = x.quiet
  BY <1>4, <1>5 DEF Alert
<1>8. y \in Alert /\ y.id = x.id /\ y.notified = x.notified /\ y.state = x.state /\ y.quiet = x.quiet
  BY <1>4, <1>6, <1>7 DEF Alert
<1>9. SoundAlert(y)
  BY <1>1, <1>2, <1>8 DEF SoundAlert
<1>10. PICK new : new = alerts'
  OBVIOUS
<1>11. /\ new = [j \in DOMAIN alerts |-> new[j]] /\ new[k] = y
       /\ \A j \in DOMAIN alerts : j # k => new[j] = alerts[j]
  <2>1. alerts \in Seq(Alert)
    BY DEF AlertInv, RingSound
  <2>2. new = [alerts EXCEPT ![k] = y]
    BY <1>1, <1>3, <1>5, <1>6, <1>10 DEF EscalateAlert
  <2> QED BY <2>1, <2>2
<1>12. \A j \in DOMAIN alerts :
         /\ new[j] \in Alert /\ SoundAlert(new[j])
         /\ new[j].state = "ACTIVE" <=> alerts[j].state = "ACTIVE"
         /\ new[j].id = alerts[j].id /\ new[j].notified = alerts[j].notified
  BY <1>1, <1>8, <1>9, <1>11, AlertIs
<1>13. RingSound(alerts') /\ CountSound(alerts', activeCount, lostActive) /\ AwaitedIn(alerts', notices)
  BY <1>10, <1>11, <1>12, AlertsChange
<1> QED BY <1>13 DEF EscalateAlert, AlertInv

LEMMA CleanupResolvedHolds ==
  ASSUME AlertInv, CleanupResolved
  PROVE  AlertInv'
<1>1. PICK new : new = alerts'
  OBVIOUS
<1>2. new = [k \in DOMAIN alerts |-> IF alerts[k].quiet > RetainResolved
                                     THEN [[alerts[k] EXCEPT !.state = "CANCELLED"] EXCEPT !.id = Nameless] ELSE alerts[k]]
  BY <1>1 DEF CleanupResolved
<1>3. ASSUME NEW k \in DOMAIN alerts
      PROVE  /\ new[k] \in Alert /\ SoundAlert(new[k])
             /\ new[k].state = "ACTIVE" <=> alerts[k].state = "ACTIVE"
             /\ \/ new[k].id = alerts[k].id /\ new[k].notified = alerts[k].notified
                \/ new[k].id = Nameless
  <2>1. PICK x \in Alert : x = alerts[k] /\ SoundAlert(x) /\ x.quiet \in Int
    BY AlertIs
  <2>2. CASE x.quiet > RetainResolved
    <3>1. x.quiet # NotResolved
      BY <2>1, <2>2, AlertNumbers DEF NotResolved
    <3>2. x.state \in {"RESOLVED", "CANCELLED"}
      BY <2>1, <3>1 DEF SoundAlert
    <3>3. PICK z : z = [x EXCEPT !.state = "CANCELLED"]
      OBVIOUS
    <3>4. z \in Alert /\ z.state = "CANCELLED"
      BY <3>3 DEF Alert, AlertStates
    <3>5. PICK y : y = [z EXCEPT !.id = Nameless]
      OBVIOUS
    <3>6. y \in Alert /\ y.state = "CANCELLED" /\ y.id = Nameless
      BY <3>4, <3>5 DEF Alert
    <3>7. new[k] = y
      BY <1>2, <2>1, <2>2, <3>3, <3>5
    <3>8. SoundAlert(y)
      BY <3>6 DEF SoundAlert
    <3> QED BY <2>1, <3>2, <3>6, <3>7, <3>8
  <2>3. CASE ~(x.quiet > RetainResolved)
    <3>1. new[k] = alerts[k]
      BY <1>2, <2>1, <2>3
    <3> QED BY <2>1, <3>1
  <2> QED BY <2>2, <2>3
<1>4. new = [k \in DOMAIN alerts |-> new[k]]
  BY <1>2
<1>5. RingSound(alerts') /\ CountSound(alerts', activeCount, lostActive) /\ AwaitedIn(alerts', notices)
  BY <1>1, <1>3, <1>4, AlertsChange
<1> QED BY <1>5 DEF CleanupResolved, AlertInv

(* Deduplication.                                                          *)
LEMMA FirstEntryIs ==
  ASSUME AlertInv, NEW key, EntriesOf(key) # {}
  PROVE  FirstEntry(key) \in EntriesOf(key) /\ FirstEntry(key) \in DOMAIN dedup
<1>1. EntriesOf(key) \in SUBSET Nat
  BY DEF EntriesOf, AlertInv, DedupSound
<1>2. \E k \in EntriesOf(key) : \A j \in EntriesOf(key) : k <= j
  BY <1>1, HasLeast
<1>3. FirstEntry(key) \in EntriesOf(key)
  BY <1>2 DEF FirstEntry
<1> QED BY <1>3 DEF EntriesOf

LEMMA RefreshedHolds ==
  ASSUME AlertInv, NEW key
  PROVE  DedupSound(Refreshed(key))
<1>1. dedup \in Seq(DedupEntry) /\ Len(dedup) <= DedupRoom
  BY DEF AlertInv, DedupSound
<1>2. CASE IsDuplicate(key)
  <2>1. PICK k \in DOMAIN dedup : k = FirstEntry(key)
    BY <1>2, FirstEntryIs DEF IsDuplicate
  <2>2. PICK entry \in DedupEntry : entry = dedup[k]
    BY <1>1
  <2>3. PICK y : y = [entry EXCEPT !.age = 0]
    OBVIOUS
  <2>4. y \in DedupEntry
    BY <2>3 DEF DedupEntry
  <2>5. Refreshed(key) = [dedup EXCEPT ![k] = y]
    BY <1>2, <2>1, <2>2, <2>3 DEF Refreshed
  <2> QED BY <1>1, <2>4, <2>5 DEF DedupSound
<1>3. CASE ~IsDuplicate(key)
  BY <1>1, <1>3 DEF Refreshed, DedupSound
<1> QED BY <1>2, <1>3

LEMMA RegisteredHolds ==
  ASSUME NEW entries, DedupSound(entries), NEW key \in AlertKeys, NEW new \in Nat,
         NEW table \in Registered(entries, key, new)
  PROVE  DedupSound(table)
<1>1. PICK y : y = [key |-> key, alert |-> new, age |-> 0]
  OBVIOUS
<1>2. y \in DedupEntry
  BY <1>1 DEF DedupEntry
<1>3. /\ entries \in Seq(DedupEntry) /\ Len(entries) <= DedupRoom /\ Len(entries) \in Nat /\ DOMAIN entries = 1..Len(entries)
      /\ DedupRoom \in Nat
  BY AlertNumbers DEF DedupSound
<1>4. PICK rest : /\ table = Append(rest, y)
                  /\ \/ rest = entries /\ Len(entries) < DedupRoom
                     \/ \E k \in DOMAIN entries : rest = RemoveAt(entries, k)
  BY <1>1 DEF Registered
<1>5. rest \in Seq(DedupEntry) /\ Len(rest) < DedupRoom
  <2>1. ASSUME NEW k \in DOMAIN entries, rest = RemoveAt(entries, k)
        PROVE  rest \in Seq(DedupEntry) /\ Len(rest) < DedupRoom
    <3>1. PICK front : front = SubSeq(entries, 1, k - 1)
      OBVIOUS
    <3>2. PICK back : back = SubSeq(entries, k + 1, Len(entries))
      OBVIOUS
    <3>3. front \in Seq(DedupEntry) /\ Len(front) = k - 1
      BY <1>3, <3>1
    <3>4. back \in Seq(DedupEntry) /\ Len(back) = Len(entries) - k
      BY <1>3, <3>2
    <3>5. rest = front \o back
      BY <2>1, <3>1, <3>2 DEF RemoveAt
    <3> QED BY <1>3, <3>3, <3>4, <3>5
  <2> QED BY <1>3, <1>4, <2>1
<1> QED BY <1>2, <1>3, <1>4, <1>5 DEF DedupSound

LEMMA CountDuplicateHolds ==
  ASSUME AlertInv, NEW key, CountDuplicate(key)
  PROVE  AlertInv'
<1>1. PICK k \in Original(key) :
        LET count == IF alerts[k].count < MaxDuplicates THEN alerts[k].count + 1 ELSE MaxDuplicates
            raised == count >= RaiseAfter /\ alerts[k].severity < RaisedTo
        IN alerts' = [alerts EXCEPT ![k].count = count, ![k].severity = IF raised THEN RaisedTo ELSE @]
  BY DEF CountDuplicate
<1>2. k \in DOMAIN alerts
  <2>1. k \in PlacesOf(dedup[FirstEntry(key)].alert)
    BY <1>1 DEF Original
  <2> QED BY <2>1 DEF PlacesOf
<1>3. PICK x \in Alert : x = alerts[k] /\ SoundAlert(x)
  BY <1>2, AlertIs
<1>4. x.count \in 1..MaxDuplicates /\ x.severity \in 0..Severest
  BY DEF Alert
<1>5. PICK count : count = IF x.count < MaxDuplicates THEN x.count + 1 ELSE MaxDuplicates
  OBVIOUS
<1>6. count \in 1..MaxDuplicates
  BY <1>4, <1>5, AlertNumbers
<1>7. PICK severity : severity = IF count >= RaiseAfter /\ x.severity < RaisedTo THEN RaisedTo ELSE x.severity
  OBVIOUS
<1>8. severity \in 0..Severest /\ (severity = Severest => x.severity = Severest)
  BY <1>4, <1>7 DEF Severest, RaisedTo
<1>9. PICK z : z = [x EXCEPT !.count = count]
  OBVIOUS
<1>10. PICK y : y = [z EXCEPT !.severity = severity]
  OBVIOUS
<1>11. z \in Alert /\ z.id = x.id /\ z.notified = x.notified /\ z.state = x.state /\ z.quiet = x.quiet /\ z.reason = x.reason
       /\ z.severity = x.severity
  BY <1>6, <1>9 DEF Alert
<1>12. y \in Alert /\ y.id = x.id /\ y.notified = x.notified /\ y.state = x.state /\ y.quiet = x.quiet /\ y.reason = x.reason
       /\ y.severity = severity
  BY <1>8, <1>10, <1>11 DEF Alert
<1>13. SoundAlert(y)
  BY <1>3, <1>8, <1>12 DEF SoundAlert
<1>14. PICK new : new = alerts'
  OBVIOUS
<1>15. /\ new = [j \in DOMAIN alerts |-> new[j]] /\ new[k] = y
       /\ \A j \in DOMAIN alerts : j # k => new[j] = alerts[j]
  <2>1. alerts \in Seq(Alert)
    BY DEF AlertInv, RingSound
  <2>2. PICK counted : counted = [alerts EXCEPT ![k].count = count]
    OBVIOUS
  <2>3. counted = [alerts EXCEPT ![k] = z]
    BY <1>3, <1>9, <2>2
  <2>4. new = [counted EXCEPT ![k].severity = IF count >= RaiseAfter /\ x.severity < RaisedTo THEN RaisedTo ELSE @]
    BY <1>1, <1>3, <1>5, <1>14, <2>2
  <2>5. counted[k] = z /\ DOMAIN counted = DOMAIN alerts /\ \A j \in DOMAIN alerts : j # k => counted[j] = alerts[j]
    BY <1>2, <2>1, <2>3
  <2>6. new = [counted EXCEPT ![k] = y]
    BY <1>7, <1>10, <1>11, <2>4, <2>5
  <2> QED BY <1>2, <2>5, <2>6
<1>16. \A j \in DOMAIN alerts :
         /\ new[j] \in Alert /\ SoundAlert(new[j])
         /\ new[j].state = "ACTIVE" <=> alerts[j].state = "ACTIVE"
         /\ new[j].id = alerts[j].id /\ new[j].notified = alerts[j].notified
  BY <1>3, <1>12, <1>13, <1>15, AlertIs
<1>17. RingSound(alerts') /\ CountSound(alerts', activeCount, lostActive) /\ AwaitedIn(alerts', notices)
  BY <1>14, <1>15, <1>16, AlertsChange
<1>18. DedupSound(dedup')
  BY RefreshedHolds DEF CountDuplicate
<1> QED BY <1>17, <1>18 DEF CountDuplicate, AlertInv

(* A new alert, and the oldest one makes room for it.                      *)
KeptOf(ring) == IF Len(ring) = AlertRoom THEN Tail(ring) ELSE ring
LostAfter(ring, missing) == IF Len(ring) = AlertRoom /\ ring[1].state = "ACTIVE" THEN missing + 1 ELSE missing

LEMMA KeptIs ==
  ASSUME NEW ring \in Seq(Alert), Len(ring) <= AlertRoom, NEW kept, kept = KeptOf(ring)
  PROVE  \E d \in 0..1 :
           /\ d = IF Len(ring) = AlertRoom THEN 1 ELSE 0
           /\ Len(kept) = Len(ring) - d /\ Len(kept) \in Nat /\ Len(kept) < AlertRoom
           /\ kept \in Seq(Alert) /\ DOMAIN kept = 1..Len(kept)
           /\ \A k \in DOMAIN kept : k + d \in DOMAIN ring /\ kept[k] = ring[k + d]
<1>1. Len(ring) \in Nat /\ DOMAIN ring = 1..Len(ring) /\ AlertRoom \in Nat \ {0}
  BY AlertNumbers
<1>2. CASE Len(ring) = AlertRoom
  <2>1. ring # <<>> /\ kept = Tail(ring)
    BY <1>1, <1>2 DEF KeptOf
  <2>2. /\ Len(kept) = Len(ring) - 1 /\ Len(kept) \in Nat /\ kept \in Seq(Alert)
        /\ \A k \in DOMAIN kept : k + 1 \in DOMAIN ring /\ kept[k] = ring[k + 1]
    BY <1>1, <2>1
  <2>3. 1 \in 0..1 /\ Len(kept) < AlertRoom
    BY <1>1, <1>2, <2>2
  <2> QED BY <1>2, <2>2, <2>3
<1>3. CASE Len(ring) # AlertRoom
  <2>1. kept = ring /\ 0 \in 0..1 /\ Len(ring) < AlertRoom
    <3>1. kept = ring
      BY <1>3 DEF KeptOf
    <3>2. Len(ring) < AlertRoom
      <4>1. Len(ring) \in Nat /\ AlertRoom \in Nat /\ Len(ring) <= AlertRoom
        BY <1>1
      <4> QED BY <1>3, <4>1
    <3> QED BY <3>1, <3>2
  <2>2. Len(kept) = Len(ring) - 0 /\ \A k \in DOMAIN kept : k + 0 = k
    BY <1>1, <2>1
  <2> QED BY <1>1, <1>3, <2>1, <2>2
<1> QED BY <1>2, <1>3

LEMMA RingPushed ==
  ASSUME NEW ring, RingSound(ring), NEW y \in Alert, SoundAlert(y), y.state = "ACTIVE", y.notified = "NONE",
         NEW count, NEW missing, CountSound(ring, count, missing), count < MaxActive, NEW queue, AwaitedIn(ring, queue),
         NEW kept, kept = KeptOf(ring), NEW gone, gone = LostAfter(ring, missing)
  PROVE  /\ RingSound(Append(kept, y)) /\ CountSound(Append(kept, y), count + 1, gone)
         /\ AwaitedIn(Append(kept, y), queue)
<1>1. /\ ring \in Seq(Alert) /\ Len(ring) \in Nat /\ DOMAIN ring = 1..Len(ring) /\ Len(ring) <= AlertRoom
      /\ \A k \in DOMAIN ring : ring[k] \in Alert /\ SoundAlert(ring[k])
  BY DEF RingSound
<1>2. PICK d \in 0..1 : /\ d = IF Len(ring) = AlertRoom THEN 1 ELSE 0
                        /\ Len(kept) = Len(ring) - d /\ Len(kept) \in Nat /\ Len(kept) < AlertRoom
                        /\ kept \in Seq(Alert) /\ DOMAIN kept = 1..Len(kept)
                        /\ \A k \in DOMAIN kept : k + d \in DOMAIN ring /\ kept[k] = ring[k + d]
  BY <1>1, KeptIs
<1>3. PICK new : new = Append(kept, y)
  OBVIOUS
<1>4. PICK top : top = Len(kept) + 1
  OBVIOUS
<1>5. /\ new \in Seq(Alert) /\ Len(new) = top /\ Len(new) <= AlertRoom /\ DOMAIN new = 1..top /\ new[top] = y
      /\ \A k \in DOMAIN kept : new[k] = kept[k]
  BY <1>2, <1>3, <1>4, AlertNumbers
<1>6. ASSUME NEW k \in DOMAIN new
      PROVE  \/ k = top /\ new[k] = y
             \/ k \in DOMAIN kept /\ k + d \in DOMAIN ring /\ new[k] = ring[k + d]
  BY <1>2, <1>4, <1>5
<1>7. RingSound(new)
  <2>1. \A k \in DOMAIN new : SoundAlert(new[k])
    BY <1>1, <1>6
  <2> QED BY <1>5, <2>1 DEF RingSound
<1>8. AwaitedIn(new, queue)
  <2> SUFFICES ASSUME NEW k \in DOMAIN new, new[k].notified = "PENDING", new[k].id # Nameless
               PROVE  \E j \in DOMAIN queue : queue[j].alert = new[k].id
    BY DEF AwaitedIn
  <2>1. k + d \in DOMAIN ring /\ new[k] = ring[k + d]
    BY <1>6
  <2> QED BY <2>1 DEF AwaitedIn
<1>9. CountSound(new, count + 1, gone)
  <2> DEFINE Before == ActiveIn(ring) \ {d}
  <2> DEFINE Rest == ActiveIn(kept)
  <2>1. IsFiniteSet(ActiveIn(ring)) /\ Cardinality(ActiveIn(ring)) \in Nat
    BY <1>1, ActiveAreFinite
  <2>2. IsFiniteSet(Rest) /\ Cardinality(Rest) \in Nat
    BY <1>2, ActiveAreFinite
  <2>3. Cardinality(Before) = Cardinality(Rest)
    <3> DEFINE f == [k \in Rest |-> k + d]
    <3>1. \A k \in Rest : k \in DOMAIN kept /\ k \in Nat /\ k >= 1 /\ k + d \in ActiveIn(ring) /\ k + d # d
      BY <1>2 DEF ActiveIn
    <3>2. f \in [Rest -> Before]
      BY <3>1
    <3>3. \A j, k \in Rest : f[j] = f[k] => j = k
      BY <1>2, <3>1
    <3>4. ASSUME NEW t \in Before PROVE \E k \in Rest : f[k] = t
      <4>1. t \in DOMAIN ring /\ ring[t].state = "ACTIVE" /\ t # d
        BY DEF ActiveIn
      <4>2. t - d \in DOMAIN kept /\ (t - d) + d = t
        <5>1. t \in 1..Len(ring) /\ t # d /\ d \in 0..1 /\ Len(ring) \in Nat
          BY <1>1, <4>1
        <5>2. t - d \in 1..(Len(ring) - d) /\ (t - d) + d = t
          BY <5>1
        <5>3. DOMAIN kept = 1..(Len(ring) - d)
          BY <1>2
        <5> QED BY <5>2, <5>3
      <4>3. t - d \in Rest
        BY <1>2, <4>1, <4>2 DEF ActiveIn
      <4> QED BY <4>2, <4>3
    <3>5. f \in Bijection(Rest, Before)
      <4> HIDE DEF f, Rest, Before
      <4>1. \A j, k \in Rest : f[j] = f[k] => j = k
        BY <3>3
      <4>2. \A t \in Before : \E k \in Rest : f[k] = t
        BY <3>4
      <4>3. DOMAIN f = Rest
        BY <3>2
      <4>4. f \in Injection(Rest, Before)
        BY <3>2, <4>1, <4>3 DEF Injection, IsInjective
      <4>5. f \in Surjection(Rest, Before)
        BY <3>2, <4>2 DEF Surjection
      <4> QED BY <4>4, <4>5 DEF Bijection
    <3>6. ExistsBijection(Rest, Before)
      BY <3>5 DEF ExistsBijection
    <3> QED BY <2>2, <3>6, FS_Bijection
  <2>4. ActiveIn(new) = Rest \cup {top} /\ top \notin Rest
    <3>1. \A k \in DOMAIN new : k \in ActiveIn(new) <=> k = top \/ k \in Rest
      BY <1>2, <1>4, <1>5 DEF ActiveIn
    <3>2. top \in DOMAIN new /\ top \notin DOMAIN kept /\ Rest \subseteq DOMAIN new /\ ActiveIn(new) \subseteq DOMAIN new
      BY <1>2, <1>4, <1>5 DEF ActiveIn
    <3>3. top \notin Rest
      BY <3>2 DEF ActiveIn
    <3> HIDE DEF Rest
    <3> QED BY <3>1, <3>2, <3>3
  <2>5. Cardinality(ActiveIn(new)) = Cardinality(Rest) + 1
    BY <2>2, <2>4, FS_AddElement
  <2>6. d \in ActiveIn(ring) <=> Len(ring) = AlertRoom /\ ring[1].state = "ACTIVE"
    <3>1. CASE Len(ring) = AlertRoom
      <4>1. d = 1 /\ 1 \in DOMAIN ring
        BY <1>1, <1>2, <3>1, AlertNumbers
      <4> QED BY <3>1, <4>1 DEF ActiveIn
    <3>2. CASE Len(ring) # AlertRoom
      <4>1. d = 0 /\ 0 \notin DOMAIN ring
        <5>1. d = 0
          BY <1>2, <3>2
        <5>2. 0 \notin 1..Len(ring)
          BY <1>1
        <5> QED BY <1>1, <5>1, <5>2
      <4> QED BY <3>2, <4>1 DEF ActiveIn
    <3> QED BY <3>1, <3>2
  <2>7. Cardinality(Before) = IF d \in ActiveIn(ring) THEN Cardinality(ActiveIn(ring)) - 1 ELSE Cardinality(ActiveIn(ring))
    BY <2>1, FS_RemoveElement
  <2>8. missing \in Nat /\ count = Cardinality(ActiveIn(ring)) + missing /\ MaxActive \in Nat
    BY AlertNumbers DEF CountSound
  <2> HIDE DEF Before, Rest
  <2>9. CASE d \in ActiveIn(ring)
    <3>1. gone = missing + 1 /\ Cardinality(Rest) = Cardinality(ActiveIn(ring)) - 1
      BY <2>3, <2>6, <2>7, <2>9 DEF LostAfter
    <3> QED BY <2>1, <2>2, <2>5, <2>8, <3>1 DEF CountSound
  <2>10. CASE d \notin ActiveIn(ring)
    <3>1. gone = missing /\ Cardinality(Rest) = Cardinality(ActiveIn(ring))
      BY <2>3, <2>6, <2>7, <2>10 DEF LostAfter
    <3> QED BY <2>1, <2>2, <2>5, <2>8, <3>1 DEF CountSound
  <2> QED BY <2>9, <2>10
<1> QED BY <1>3, <1>7, <1>8, <1>9

LEMMA CreateAlertHolds ==
  ASSUME AlertInv, NEW key \in AlertKeys, NEW severity \in Reported, CreateAlert(key, severity)
  PROVE  AlertInv'
<1>1. PICK y : y = [id |-> sequence, severity |-> severity, state |-> "ACTIVE", level |-> 0,
                    count |-> 1, quiet |-> NotResolved, notified |-> "NONE", reason |-> 0]
  OBVIOUS
<1>2. sequence \in Nat /\ severity \in 0..Severest /\ 0 \in 0..MaxEscalation /\ 1 \in 1..MaxDuplicates /\ "ACTIVE" \in AlertStates
      /\ NotResolved \in Int
  BY AlertNumbers DEF AlertInv, Severest, AlertStates, NotResolved
<1>3. y \in Alert /\ y.state = "ACTIVE" /\ y.notified = "NONE" /\ y.quiet = NotResolved
  BY <1>1, <1>2 DEF Alert, Marks
<1>4. SoundAlert(y)
  BY <1>3 DEF SoundAlert
<1>5. PICK kept : kept = KeptOf(alerts)
  OBVIOUS
<1>6. PICK gone : gone = LostAfter(alerts, lostActive)
  OBVIOUS
<1>7. alerts' = Append(kept, y) /\ lostActive' = gone /\ activeCount' = activeCount + 1 /\ activeCount < MaxActive
  BY <1>1, <1>5, <1>6 DEF CreateAlert, WithinLimits, KeptOf, LostAfter
<1>8. /\ RingSound(Append(kept, y)) /\ CountSound(Append(kept, y), activeCount + 1, gone)
      /\ AwaitedIn(Append(kept, y), notices)
  BY <1>3, <1>4, <1>5, <1>6, <1>7, RingPushed DEF AlertInv
<1>9. DedupSound(dedup')
  BY <1>2, RefreshedHolds, RegisteredHolds DEF CreateAlert
<1>10. sequence' \in Nat
  BY <1>2 DEF CreateAlert
<1> QED BY <1>7, <1>8, <1>9, <1>10 DEF CreateAlert, AlertInv

(* A notification is queued about an alert, whose mark says so.            *)
LEMMA QueuedHolds ==
  ASSUME AlertInv, NEW a \in Nat, QueueNotification(a)
  PROVE  AlertInv'
<1>1. PICK new : new = alerts'
  OBVIOUS
<1>2. new = [k \in DOMAIN alerts |-> IF k \in PlacesOf(a) THEN [alerts[k] EXCEPT !.notified = "PENDING"] ELSE alerts[k]]
  BY <1>1 DEF QueueNotification
<1>3. ASSUME NEW k \in DOMAIN alerts
      PROVE  /\ new[k] \in Alert /\ SoundAlert(new[k]) /\ new[k].state = alerts[k].state /\ new[k].id = alerts[k].id
             /\ \/ new[k].id = a
                \/ new[k].notified = alerts[k].notified
  <2>1. PICK x \in Alert : x = alerts[k] /\ SoundAlert(x)
    BY AlertIs
  <2>2. CASE k \in PlacesOf(a)
    <3>1. PICK y : y = [x EXCEPT !.notified = "PENDING"]
      OBVIOUS
    <3>2. /\ y \in Alert /\ y.state = x.state /\ y.id = x.id /\ y.severity = x.severity /\ y.reason = x.reason
          /\ y.quiet = x.quiet
      BY <3>1 DEF Alert, Marks
    <3>3. new[k] = y /\ x.id = a
      BY <1>2, <2>1, <2>2, <3>1 DEF PlacesOf
    <3>4. SoundAlert(y)
      BY <2>1, <3>2 DEF SoundAlert
    <3> QED BY <2>1, <3>2, <3>3, <3>4
  <2>3. CASE k \notin PlacesOf(a)
    <3>1. new[k] = alerts[k]
      BY <1>2, <2>3
    <3> QED BY <2>1, <3>1
  <2> QED BY <2>2, <2>3
<1>4. new = [k \in DOMAIN alerts |-> new[k]]
  BY <1>2
<1>5. RingSound(new) /\ DOMAIN new = DOMAIN alerts
  BY <1>3, <1>4, RingChanges DEF AlertInv
<1>6. CountSound(new, activeCount, lostActive)
  BY <1>3, <1>5, CountStays DEF AlertInv
<1>7. PICK notice : notice = [n |-> asked + 1, alert |-> a, retries |-> 0, age |-> 0]
  OBVIOUS
<1>8. PICK queue : queue = notices'
  OBVIOUS
<1>9. /\ notices \in Seq(Notice) /\ Len(notices) \in Nat /\ DOMAIN notices = 1..Len(notices)
      /\ lastSent \in Nat /\ asked \in Nat /\ lastSent <= asked
      /\ \A j, k \in DOMAIN notices : j < k => notices[j].n < notices[k].n
      /\ \A k \in DOMAIN notices : lastSent < notices[k].n /\ notices[k].n <= asked /\ (k > 1 => notices[k].retries = 0)
      /\ \A k \in DOMAIN notices : notices[k] \in Notice
  BY DEF AlertInv, QueueSound
<1>10. notice \in Notice /\ notice.n = asked + 1 /\ notice.alert = a /\ notice.retries = 0
  BY <1>7, <1>9 DEF Notice
<1>11. queue = Append(notices, notice) /\ Len(notices) < NotifyRoom /\ asked' = asked + 1 /\ NotifyRoom \in Nat
  BY <1>7, <1>8, AlertNumbers DEF QueueNotification
<1>12. /\ queue \in Seq(Notice) /\ Len(queue) = Len(notices) + 1 /\ Len(queue) <= NotifyRoom
       /\ DOMAIN queue = 1..(Len(notices) + 1) /\ queue[Len(notices) + 1] = notice
       /\ \A k \in DOMAIN notices : queue[k] = notices[k]
  BY <1>9, <1>10, <1>11
<1>13. \A k \in DOMAIN queue : k \in DOMAIN notices \/ k = Len(notices) + 1
  BY <1>9, <1>12
<1>14. \A k \in DOMAIN notices : notices[k].n \in Nat
  BY <1>9 DEF Notice
<1>15. ASSUME NEW k \in DOMAIN queue
       PROVE  lastSent < queue[k].n /\ queue[k].n <= asked + 1 /\ (k > 1 => queue[k].retries = 0)
  <2>1. CASE k \in DOMAIN notices
    BY <1>9, <1>12, <1>14, <2>1
  <2>2. CASE k = Len(notices) + 1
    BY <1>9, <1>10, <1>12, <2>2
  <2> QED BY <1>13, <2>1, <2>2
<1>16. ASSUME NEW j \in DOMAIN queue, NEW k \in DOMAIN queue, j < k PROVE queue[j].n < queue[k].n
  <2>1. j \in DOMAIN notices
    BY <1>9, <1>12, <1>13, <1>16
  <2>2. CASE k \in DOMAIN notices
    BY <1>9, <1>12, <1>16, <2>1, <2>2
  <2>3. CASE k = Len(notices) + 1
    BY <1>9, <1>10, <1>12, <1>14, <2>1, <2>3
  <2> QED BY <1>13, <2>2, <2>3
<1>17. QueueSound(queue, lastSent, asked + 1)
  BY <1>9, <1>12, <1>15, <1>16 DEF QueueSound
<1>18. AwaitedIn(new, queue)
  <2> SUFFICES ASSUME NEW k \in DOMAIN alerts, new[k].notified = "PENDING", new[k].id # Nameless
               PROVE  \E j \in DOMAIN queue : queue[j].alert = new[k].id
    BY <1>5 DEF AwaitedIn
  <2>1. CASE new[k].id = a
    <3>1. Len(notices) + 1 \in DOMAIN queue
      BY <1>9, <1>12
    <3> QED BY <1>10, <1>12, <2>1, <3>1
  <2>2. CASE new[k].id # a
    <3>1. PICK j \in DOMAIN notices : notices[j].alert = new[k].id
      BY <1>3, <2>2 DEF AlertInv, AwaitedIn
    <3>2. j \in DOMAIN queue /\ queue[j] = notices[j]
      BY <1>9, <1>12
    <3> QED BY <3>1, <3>2
  <2> QED BY <2>1, <2>2
<1> QED BY <1>1, <1>5, <1>6, <1>8, <1>11, <1>17, <1>18 DEF QueueNotification, AlertInv

(* The queue without its first, and with one more attempt for its first.   *)
LEMMA QueueLeft ==
  ASSUME NEW queue, NEW last, NEW most, QueueSound(queue, last, most), queue # <<>>
  PROVE  /\ queue[1] \in Notice /\ 1 \in DOMAIN queue /\ Len(Tail(queue)) = Len(queue) - 1
         /\ QueueSound(Tail(queue), last, most) /\ QueueSound(Tail(queue), queue[1].n, most)
         /\ \A j \in DOMAIN queue : j = 1 \/ \E k \in DOMAIN Tail(queue) : Tail(queue)[k] = queue[j]
<1>1. /\ queue \in Seq(Notice) /\ Len(queue) \in Nat /\ Len(queue) >= 1 /\ DOMAIN queue = 1..Len(queue) /\ Len(queue) <= NotifyRoom
      /\ last \in Nat /\ most \in Nat /\ last <= most /\ \A k \in DOMAIN queue : queue[k] \in Notice
  BY DEF QueueSound
<1>2. 1 \in DOMAIN queue /\ queue[1] \in Notice /\ queue[1].n \in Nat /\ queue[1].n <= most
  BY <1>1 DEF QueueSound, Notice
<1>3. PICK rest : rest = Tail(queue)
  OBVIOUS
<1>4. /\ rest \in Seq(Notice) /\ Len(rest) = Len(queue) - 1 /\ DOMAIN rest = 1..(Len(queue) - 1)
      /\ \A k \in DOMAIN rest : k + 1 \in DOMAIN queue /\ k + 1 > 1 /\ rest[k] = queue[k + 1]
  BY <1>1, <1>3
<1>5. Len(rest) <= NotifyRoom
  BY <1>1, <1>4, AlertNumbers
<1>6. \A j, k \in DOMAIN rest : j < k => rest[j].n < rest[k].n
  <2>1. \A j, k \in DOMAIN rest : j < k => j + 1 < k + 1
    BY <1>1, <1>4
  <2> QED BY <1>4, <2>1 DEF QueueSound
<1>7. \A k \in DOMAIN rest : last < rest[k].n /\ rest[k].n <= most /\ rest[k].retries = 0 /\ queue[1].n < rest[k].n
  BY <1>2, <1>4 DEF QueueSound
<1>8. QueueSound(rest, last, most) /\ QueueSound(rest, queue[1].n, most)
  BY <1>1, <1>2, <1>4, <1>5, <1>6, <1>7 DEF QueueSound
<1>9. ASSUME NEW j \in DOMAIN queue, j # 1 PROVE \E k \in DOMAIN rest : rest[k] = queue[j]
  <2>1. j - 1 \in DOMAIN rest /\ (j - 1) + 1 = j
    BY <1>1, <1>4, <1>9
  <2> QED BY <1>4, <2>1
<1> QED BY <1>2, <1>3, <1>4, <1>8, <1>9

TriedAgain(queue) == [queue EXCEPT ![1].retries = @ + 1]

LEMMA QueueTried ==
  ASSUME NEW queue, NEW last, NEW most, QueueSound(queue, last, most), queue # <<>>,
         NEW new, new = TriedAgain(queue)
  PROVE  /\ QueueSound(new, last, most) /\ Len(new) = Len(queue) /\ DOMAIN new = DOMAIN queue
         /\ \A j \in DOMAIN queue : new[j].alert = queue[j].alert
<1>1. /\ queue \in Seq(Notice) /\ Len(queue) \in Nat /\ Len(queue) >= 1 /\ DOMAIN queue = 1..Len(queue) /\ Len(queue) <= NotifyRoom
      /\ last \in Nat /\ most \in Nat /\ last <= most /\ \A k \in DOMAIN queue : queue[k] \in Notice
  BY DEF QueueSound
<1>2. PICK x \in Notice : x = queue[1]
  BY <1>1
<1>3. PICK y : y = [x EXCEPT !.retries = x.retries + 1]
  OBVIOUS
<1>4. y \in Notice /\ y.n = x.n /\ y.alert = x.alert
  BY <1>3 DEF Notice
<1>5. new = [queue EXCEPT ![1] = y]
  BY <1>2, <1>3 DEF TriedAgain
<1>6. /\ DOMAIN new = DOMAIN queue /\ Len(new) = Len(queue) /\ new \in Seq(Notice) /\ new[1] = y
      /\ \A j \in DOMAIN queue : j # 1 => new[j] = queue[j]
  BY <1>1, <1>4, <1>5
<1>7. \A j \in DOMAIN queue : new[j].n = queue[j].n /\ new[j].alert = queue[j].alert /\ (j > 1 => new[j].retries = queue[j].retries)
  BY <1>2, <1>4, <1>6
<1> QED BY <1>1, <1>6, <1>7 DEF QueueSound

(* The loop over the queue: what it starts with in each of its rounds.     *)
MarkedSo(marks, queue) ==
  \A j \in DOMAIN alerts : marks[j] = "PENDING" /\ alerts[j].id # Nameless =>
    \E k \in DOMAIN queue : queue[k].alert = alerts[j].id
RoundSound(s, left) ==
  /\ s = [fails |-> s.fails, marks |-> s.marks, queue |-> s.queue, last |-> s.last, stopped |-> s.stopped]
  /\ s.fails \in 0..ProviderFails /\ s.marks \in [DOMAIN alerts -> Marks] /\ s.stopped \in BOOLEAN
  /\ QueueSound(s.queue, s.last, asked) /\ MarkedSo(s.marks, s.queue)
  /\ ~s.stopped => Len(s.queue) = left

LEMMA RoundHolds ==
  ASSUME AlertInv, NEW left \in Nat \ {0}, NEW s, RoundSound(s, left), NEW accepts \in BOOLEAN
  PROVE  RoundSound(AfterNotice(s, accepts), left - 1)
<1>1. CASE s.stopped
  <2>1. AfterNotice(s, accepts) = s
    BY <1>1 DEF AfterNotice
  <2> QED BY <1>1, <2>1 DEF RoundSound
<1>2. CASE ~s.stopped
  <2>1. /\ QueueSound(s.queue, s.last, asked) /\ MarkedSo(s.marks, s.queue) /\ Len(s.queue) = left
        /\ s.fails \in 0..ProviderFails /\ s.marks \in [DOMAIN alerts -> Marks]
    BY <1>2 DEF RoundSound
  <2>2. PICK queue : queue = s.queue
    OBVIOUS
  <2>3. PICK last : last = s.last
    OBVIOUS
  <2>4. PICK marks : marks = s.marks
    OBVIOUS
  <2>5. /\ QueueSound(queue, last, asked) /\ MarkedSo(marks, queue) /\ Len(queue) = left /\ queue # <<>>
        /\ marks \in [DOMAIN alerts -> Marks]
    <3>1. s.queue # <<>>
      BY <2>1
    <3> QED BY <2>1, <2>2, <2>3, <2>4, <3>1
  <2>6. PICK notice : notice = queue[1]
    OBVIOUS
  <2>7. PICK targets : targets = PlacesOf(notice.alert)
    OBVIOUS
  <2>8. PICK tried \in BOOLEAN : tried = (s.fails < ProviderFails /\ targets # {})
    OBVIOUS
  <2>9. PICK sent \in BOOLEAN : sent = (tried /\ accepts)
    OBVIOUS
  <2>10. PICK again \in BOOLEAN : again = (~sent /\ notice.retries < MaxNotifyRetries)
    OBVIOUS
  <2>11. PICK fails_ : fails_ = IF tried /\ ~accepts THEN s.fails + 1 ELSE s.fails
    OBVIOUS
  <2>12. fails_ \in 0..ProviderFails
    BY <2>1, <2>8, <2>11, AlertNumbers
  <2>13. PICK how : how = IF sent THEN "SENT" ELSE "FAILED"
    OBVIOUS
  <2>14. PICK marked : marked = [j \in DOMAIN marks |-> IF j \in targets THEN how ELSE marks[j]]
    OBVIOUS
  <2>15. PICK retried : retried = TriedAgain(queue)
    OBVIOUS
  <2>16. AfterNotice(s, accepts) =
           [fails |-> fails_, marks |-> IF again THEN marks ELSE marked,
            queue |-> IF again THEN retried ELSE Tail(queue),
            last |-> IF sent THEN notice.n ELSE last, stopped |-> again]
    BY <1>2, <2>2, <2>3, <2>4, <2>6, <2>7, <2>8, <2>9, <2>10, <2>11, <2>13, <2>14, <2>15, Zenon DEF AfterNotice, TriedAgain
  <2>17. CASE again
    <3>1. ~sent
      BY <2>10, <2>17
    <3>2. AfterNotice(s, accepts) = [fails |-> fails_, marks |-> marks, queue |-> retried, last |-> last, stopped |-> TRUE]
      BY <2>16, <2>17, <3>1, Zenon
    <3>3. /\ QueueSound(retried, last, asked) /\ DOMAIN retried = DOMAIN queue
          /\ \A j \in DOMAIN queue : retried[j].alert = queue[j].alert
      BY <2>5, <2>15, QueueTried
    <3>4. MarkedSo(marks, retried)
      BY <2>5, <3>3 DEF MarkedSo
    <3> QED BY <2>5, <2>12, <3>2, <3>3, <3>4 DEF RoundSound
  <2>18. CASE ~again
    <3>1. PICK rest : rest = Tail(queue)
      OBVIOUS
    <3>2. PICK newest : newest = IF sent THEN notice.n ELSE last
      OBVIOUS
    <3>3. AfterNotice(s, accepts) = [fails |-> fails_, marks |-> marked, queue |-> rest, last |-> newest, stopped |-> FALSE]
      BY <2>16, <2>18, <3>1, <3>2, Zenon
    <3>4. /\ Len(rest) = left - 1 /\ QueueSound(rest, last, asked) /\ QueueSound(rest, notice.n, asked)
          /\ \A j \in DOMAIN queue : j = 1 \/ \E k \in DOMAIN rest : rest[k] = queue[j]
      BY <2>5, <2>6, <3>1, QueueLeft
    <3>5. QueueSound(rest, newest, asked)
      BY <3>2, <3>4
    <3>6. marked \in [DOMAIN alerts -> Marks]
      BY <2>5, <2>13, <2>14 DEF Marks
    <3>7. MarkedSo(marked, rest)
      <4> SUFFICES ASSUME NEW j \in DOMAIN alerts, marked[j] = "PENDING", alerts[j].id # Nameless
                   PROVE  \E k \in DOMAIN rest : rest[k].alert = alerts[j].id
        BY DEF MarkedSo
      <4>1. j \notin targets /\ marks[j] = "PENDING"
        BY <2>5, <2>13, <2>14
      <4>2. PICK k \in DOMAIN queue : queue[k].alert = alerts[j].id
        BY <2>5, <4>1 DEF MarkedSo
      <4>3. k # 1
        BY <2>6, <2>7, <4>1, <4>2 DEF PlacesOf
      <4> QED BY <3>4, <4>2, <4>3
    <3> QED BY <2>12, <3>3, <3>4, <3>5, <3>6, <3>7 DEF RoundSound
  <2> QED BY <2>17, <2>18
<1>3. s.stopped \in BOOLEAN
  BY DEF RoundSound
<1> QED BY <1>1, <1>2, <1>3

LEMMA RoundsStart ==
  ASSUME AlertInv
  PROVE  RoundSound(BeforeNotices, Len(notices))
<1>1. PICK marks : marks = [j \in DOMAIN alerts |-> alerts[j].notified]
  OBVIOUS
<1>2. marks \in [DOMAIN alerts -> Marks]
  BY <1>1, AlertIs
<1>3. MarkedSo(marks, notices)
  BY <1>1 DEF AlertInv, AwaitedIn, MarkedSo
<1>4. BeforeNotices = [fails |-> fails, marks |-> marks, queue |-> notices, last |-> lastSent, stopped |-> FALSE]
  BY <1>1 DEF BeforeNotices
<1>5. fails \in 0..ProviderFails /\ QueueSound(notices, lastSent, asked)
  BY DEF AlertInv
<1> QED BY <1>2, <1>3, <1>4, <1>5 DEF RoundSound

LEMMA NoticeRoundsHold ==
  ASSUME AlertInv, NEW n \in Nat, n = Len(notices), NEW accepts \in [DOMAIN notices -> BOOLEAN]
  PROVE  RoundSound(NoticeRounds(accepts)[n], 0)
<1>1. DOMAIN notices = 1..n
  BY DEF AlertInv, QueueSound
<1>2. ASSUME NEW k \in 1..n, NEW s, RoundSound(s, n - (k - 1))
      PROVE  RoundSound(AfterNotice(s, accepts[k]), n - k)
  <2>1. n - (k - 1) \in Nat \ {0} /\ (n - (k - 1)) - 1 = n - k /\ accepts[k] \in BOOLEAN
    BY <1>1
  <2> QED BY <1>2, <2>1, RoundHolds
<1> DEFINE Rounds(f) == f = [k \in 0..n |-> IF k = 0 THEN BeforeNotices ELSE AfterNotice(f[k - 1], accepts[k])]
<1>3. PICK S : S = [k \in 0..n |-> {s \in [fails : 0..ProviderFails, marks : [DOMAIN alerts -> Marks], queue : Seq(Notice),
                                           last : Nat, stopped : BOOLEAN] : RoundSound(s, n - k)}]
  OBVIOUS
<1>4. ASSUME NEW k \in 0..n, NEW s PROVE s \in S[k] <=> RoundSound(s, n - k)
  <2>1. ASSUME RoundSound(s, n - k)
        PROVE  s \in [fails : 0..ProviderFails, marks : [DOMAIN alerts -> Marks], queue : Seq(Notice), last : Nat, stopped : BOOLEAN]
    BY <2>1 DEF RoundSound, QueueSound
  <2> QED BY <1>3, <2>1
<1>5. 0 \in 0..n /\ n \in 0..n /\ \A k \in 1..n : k \in 0..n /\ k - 1 \in 0..n /\ k # 0
  OBVIOUS
<1>6. BeforeNotices \in S[0]
  <2>1. n - 0 = n
    OBVIOUS
  <2> QED BY <1>4, <1>5, <2>1, RoundsStart
<1>7. \A k \in 1..n : \A s \in S[k - 1] : AfterNotice(s, accepts[k]) \in S[k]
  BY <1>2, <1>4, <1>5
<1>8. \E f : Rounds(f)
  <2> DEFINE step == [k \in 1..n |-> [s \in S[k - 1] |-> AfterNotice(s, accepts[k])]]
  <2>1. PICK f : f = [k \in 0..n |-> f[k]] /\ Goes(f, n, BeforeNotices, step)
    <3> HIDE DEF step
    <3> QED BY RoundsExist
  <2>2. \A k \in 1..n : \A s \in S[k - 1] : step[k][s] = AfterNotice(s, accepts[k])
    OBVIOUS
  <2> HIDE DEF step
  <2>3. f[0] = BeforeNotices /\ \A k \in 1..n : f[k] = step[k][f[k - 1]]
    BY <2>1 DEF Goes
  <2>4. ASSUME NEW k \in 0..n PROVE f[k] \in S[k]
    <3>1. k \in Nat /\ \A j \in 1..k : j \in 1..n
      OBVIOUS
    <3>2. \A j \in 1..k : f[j - 1] \in S[j - 1] => f[j] \in S[j]
      BY <1>7, <2>2, <2>3, <3>1
    <3> QED BY <1>6, <2>3, <3>1, <3>2, RoundsStay
  <2>5. ASSUME NEW k \in 0..n
        PROVE  f[k] = IF k = 0 THEN BeforeNotices ELSE AfterNotice(f[k - 1], accepts[k])
    <3>1. CASE k = 0
      BY <2>3, <3>1
    <3>2. CASE k # 0
      <4>1. k \in 1..n /\ k - 1 \in 0..n
        BY <3>2
      <4>2. f[k - 1] \in S[k - 1]
        BY <2>4, <4>1
      <4> QED BY <2>2, <2>3, <3>2, <4>1, <4>2
    <3> QED BY <3>1, <3>2
  <2>6. Rounds(f)
    BY <2>1, <2>5
  <2> HIDE DEF Rounds
  <2> QED BY <2>6
<1>9. NoticeRounds(accepts) = CHOOSE f : Rounds(f)
  BY DEF NoticeRounds
<1>10. PICK f : f = NoticeRounds(accepts)
  OBVIOUS
<1>11. Rounds(f)
  <2> HIDE DEF Rounds
  <2> QED BY <1>8, <1>9, <1>10
<1>12. f[0] = BeforeNotices /\ \A k \in 1..n : f[k] = AfterNotice(f[k - 1], accepts[k])
  <2>1. \A k \in 0..n : f[k] = IF k = 0 THEN BeforeNotices ELSE AfterNotice(f[k - 1], accepts[k])
    BY <1>11
  <2> QED BY <1>5, <2>1
<1> HIDE DEF Rounds
<1>13. f[n] \in S[n]
  <2>1. \A k \in 1..n : f[k - 1] \in S[k - 1] => f[k] \in S[k]
    BY <1>7, <1>12
  <2> QED BY <1>6, <1>12, <2>1, RoundsStay
<1>14. RoundSound(f[n], n - n)
  BY <1>4, <1>5, <1>13
<1>15. n - n = 0
  OBVIOUS
<1> QED BY <1>10, <1>14, <1>15

LEMMA ProcessNotificationsHolds ==
  ASSUME AlertInv, NEW accepts \in [DOMAIN notices -> BOOLEAN], ProcessNotifications(accepts)
  PROVE  AlertInv'
<1>1. PICK n \in Nat : n = Len(notices)
  BY DEF AlertInv, QueueSound
<1>2. PICK end : end = NoticeRounds(accepts)[n]
  OBVIOUS
<1>3. RoundSound(end, 0)
  BY <1>1, <1>2, NoticeRoundsHold
<1>4. PICK marks : marks = end.marks
  OBVIOUS
<1>5. PICK queue : queue = end.queue
  OBVIOUS
<1>6. /\ notices' = queue /\ fails' = end.fails /\ lastSent' = end.last
      /\ alerts' = [j \in DOMAIN alerts |-> [alerts[j] EXCEPT !.notified = marks[j]]]
      /\ UNCHANGED <<activeCount, dedup, burst, providers, sequence, lostActive, asked>>
  BY <1>1, <1>2, <1>4, <1>5 DEF ProcessNotifications
<1>7. /\ QueueSound(queue, end.last, asked) /\ MarkedSo(marks, queue) /\ marks \in [DOMAIN alerts -> Marks]
      /\ end.fails \in 0..ProviderFails
  BY <1>3, <1>4, <1>5 DEF RoundSound
<1>8. PICK new : new = alerts'
  OBVIOUS
<1>9. ASSUME NEW k \in DOMAIN alerts
      PROVE  /\ new[k] \in Alert /\ SoundAlert(new[k]) /\ new[k].state = alerts[k].state /\ new[k].id = alerts[k].id
             /\ new[k].notified = marks[k]
  <2>1. PICK x \in Alert : x = alerts[k] /\ SoundAlert(x)
    BY AlertIs
  <2>2. PICK mark \in Marks : mark = marks[k]
    BY <1>7
  <2>3. PICK y : y = [x EXCEPT !.notified = mark]
    OBVIOUS
  <2>4. /\ y \in Alert /\ y.state = x.state /\ y.id = x.id /\ y.severity = x.severity /\ y.reason = x.reason
        /\ y.quiet = x.quiet /\ y.notified = mark
    BY <2>3 DEF Alert
  <2>5. new[k] = y
    BY <1>6, <1>8, <2>1, <2>2, <2>3
  <2>6. SoundAlert(y)
    BY <2>1, <2>4 DEF SoundAlert
  <2> QED BY <2>1, <2>2, <2>4, <2>5, <2>6
<1>10. new = [k \in DOMAIN alerts |-> new[k]]
  BY <1>6, <1>8
<1>11. RingSound(new) /\ DOMAIN new = DOMAIN alerts
  BY <1>9, <1>10, RingChanges DEF AlertInv
<1>12. CountSound(new, activeCount, lostActive)
  BY <1>9, <1>11, CountStays DEF AlertInv
<1>13. AwaitedIn(new, queue)
  BY <1>7, <1>9, <1>11 DEF MarkedSo, AwaitedIn
<1> QED BY <1>6, <1>7, <1>8, <1>11, <1>12, <1>13 DEF AlertInv

LEMMA AlertElapseHolds ==
  ASSUME AlertInv, AlertElapse
  PROVE  AlertInv'
<1>1. PICK new : new = alerts'
  OBVIOUS
<1>2. new = [k \in DOMAIN alerts |->
               IF alerts[k].quiet = NotResolved THEN alerts[k]
               ELSE [alerts[k] EXCEPT !.quiet = Aged(@, RetainResolved + 1)]]
  BY <1>1 DEF AlertElapse
<1>3. ASSUME NEW k \in DOMAIN alerts
      PROVE  /\ new[k] \in Alert /\ SoundAlert(new[k]) /\ new[k].state = alerts[k].state
             /\ new[k].id = alerts[k].id /\ new[k].notified = alerts[k].notified
  <2>1. PICK x \in Alert : x = alerts[k] /\ SoundAlert(x) /\ x.quiet \in Int
    BY AlertIs
  <2>2. CASE x.quiet # NotResolved
    <3>1. PICK quiet : quiet = Aged(x.quiet, RetainResolved + 1)
      OBVIOUS
    <3>2. quiet \in Int
      BY <2>1, <3>1, AlertNumbers DEF Aged
    <3>3. PICK y : y = [x EXCEPT !.quiet = quiet]
      OBVIOUS
    <3>4. /\ y \in Alert /\ y.state = x.state /\ y.id = x.id /\ y.severity = x.severity /\ y.reason = x.reason
          /\ y.notified = x.notified
      BY <3>2, <3>3 DEF Alert
    <3>5. new[k] = y
      BY <1>2, <2>1, <2>2, <3>1, <3>3
    <3>6. SoundAlert(y)
      BY <2>1, <2>2, <3>4 DEF SoundAlert
    <3> QED BY <2>1, <3>4, <3>5, <3>6
  <2>3. CASE x.quiet = NotResolved
    <3>1. new[k] = alerts[k]
      BY <1>2, <2>1, <2>3
    <3> QED BY <2>1, <3>1
  <2> QED BY <2>2, <2>3
<1>4. new = [k \in DOMAIN alerts |-> new[k]]
  BY <1>2
<1>5. RingSound(alerts') /\ CountSound(alerts', activeCount, lostActive) /\ AwaitedIn(alerts', notices)
  BY <1>1, <1>3, <1>4, AlertsChange
<1>6. DedupSound(dedup')
  <2>1. dedup \in Seq(DedupEntry) /\ Len(dedup) \in Nat /\ DOMAIN dedup = 1..Len(dedup) /\ Len(dedup) <= DedupRoom
    BY DEF AlertInv, DedupSound
  <2>2. PICK table : table = dedup'
    OBVIOUS
  <2>3. table = [k \in DOMAIN dedup |-> [dedup[k] EXCEPT !.age = Aged(@, DedupWindow)]]
    BY <2>2 DEF AlertElapse
  <2>4. ASSUME NEW k \in DOMAIN dedup PROVE table[k] \in DedupEntry
    <3>1. PICK x \in DedupEntry : x = dedup[k]
      BY <2>1
    <3>2. PICK age : age = Aged(x.age, DedupWindow)
      OBVIOUS
    <3>3. age \in Nat
      <4>1. x.age \in Nat
        BY DEF DedupEntry
      <4> QED BY <3>2, <4>1 DEF Aged
    <3>4. table[k] = [x EXCEPT !.age = age]
      BY <2>3, <3>1, <3>2
    <3> QED BY <3>3, <3>4 DEF DedupEntry
  <2>5. table = [k \in 1..Len(dedup) |-> table[k]]
    BY <2>1, <2>3
  <2>6. table \in Seq(DedupEntry) /\ Len(table) = Len(dedup)
    BY <2>1, <2>4, <2>5
  <2> QED BY <2>1, <2>2, <2>6 DEF DedupSound
<1>7. PICK queue : queue = notices'
  OBVIOUS
<1>8. queue = [k \in DOMAIN notices |-> [notices[k] EXCEPT !.age = Aged(@, NotifyWindow)]]
  BY <1>7 DEF AlertElapse
<1>9. /\ notices \in Seq(Notice) /\ Len(notices) \in Nat /\ DOMAIN notices = 1..Len(notices)
  BY DEF AlertInv, QueueSound
<1>10. ASSUME NEW k \in DOMAIN notices
       PROVE  /\ queue[k] \in Notice /\ queue[k].n = notices[k].n /\ queue[k].retries = notices[k].retries
              /\ queue[k].alert = notices[k].alert
  <2>1. PICK x \in Notice : x = notices[k]
    BY <1>9
  <2>2. PICK age : age = Aged(x.age, NotifyWindow)
    OBVIOUS
  <2>3. age \in Nat
    <3>1. x.age \in Nat
      BY DEF Notice
    <3> QED BY <2>2, <3>1 DEF Aged
  <2>4. PICK y : y = [x EXCEPT !.age = age]
    OBVIOUS
  <2>5. y \in Notice /\ y.n = x.n /\ y.retries = x.retries /\ y.alert = x.alert
    BY <2>3, <2>4 DEF Notice
  <2>6. queue[k] = y
    BY <1>8, <2>1, <2>2, <2>4
  <2> QED BY <2>1, <2>5, <2>6
<1>11. queue \in Seq(Notice) /\ Len(queue) = Len(notices) /\ DOMAIN queue = DOMAIN notices
  <2>1. queue = [k \in 1..Len(notices) |-> queue[k]]
    BY <1>8, <1>9
  <2> QED BY <1>9, <1>10, <2>1
<1>12. QueueSound(queue, lastSent, asked)
  BY <1>10, <1>11 DEF AlertInv, QueueSound
<1>13. AwaitedIn(alerts', queue)
  BY <1>5, <1>10, <1>11 DEF AwaitedIn
<1> QED BY <1>5, <1>6, <1>7, <1>12, <1>13 DEF AlertElapse, AlertInv

LEMMA AlertStart == SecurityInit => AlertInv
<1> SUFFICES ASSUME SecurityInit PROVE AlertInv
  OBVIOUS
<1>1. AlertInit
  BY DEF SecurityInit
<1>2. RingSound(alerts) /\ AwaitedIn(alerts, notices) /\ ActiveIn(alerts) = {}
  BY <1>1, AlertNumbers DEF AlertInit, RingSound, AwaitedIn, ActiveIn
<1>3. CountSound(alerts, activeCount, lostActive)
  <2>1. activeCount = 0 /\ lostActive = 0 /\ Cardinality(ActiveIn(alerts)) = 0 /\ MaxActive \in Nat
    BY <1>1, <1>2, FS_EmptySet, AlertNumbers DEF AlertInit
  <2> QED BY <2>1 DEF CountSound
<1>4. DedupSound(dedup) /\ QueueSound(notices, lastSent, asked)
  BY <1>1, AlertNumbers DEF AlertInit, DedupSound, QueueSound
<1>5. fails \in 0..ProviderFails /\ providers \in 0..MaxProviders /\ sequence \in Nat
  BY <1>1, AlertNumbers DEF AlertInit
<1> QED BY <1>2, <1>3, <1>4, <1>5 DEF AlertInv

LEMMA AlertStep == AlertInv /\ [AlertNext]_alertVars => AlertInv'
<1> SUFFICES ASSUME AlertInv, AlertNext \/ UNCHANGED alertVars PROVE AlertInv'
  OBVIOUS
<1>1. CASE UNCHANGED alertVars
  BY <1>1 DEF alertVars, AlertInv
<1>2. ASSUME NEW key \in AlertKeys, CountDuplicate(key) PROVE AlertInv'
  BY <1>2, CountDuplicateHolds
<1>3. ASSUME NEW key \in AlertKeys, NEW severity \in Reported, CreateAlert(key, severity) PROVE AlertInv'
  BY <1>3, CreateAlertHolds
<1>4. CASE AddThreshold \/ RecordRateEvent
  BY <1>4 DEF AddThreshold, RecordRateEvent, OnlyBurst, AlertInv
<1>5. CASE RegisterProvider
  <2>1. fails' \in 0..ProviderFails /\ providers' \in 0..MaxProviders
    BY <1>5, AlertNumbers DEF RegisterProvider, AlertInv
  <2> QED BY <1>5, <2>1 DEF RegisterProvider, AlertInv
<1>6. CASE CleanupResolved
  BY <1>6, CleanupResolvedHolds
<1>7. CASE AlertElapse
  BY <1>7, AlertElapseHolds
<1>8. ASSUME NEW k \in DOMAIN alerts,
             \/ AcknowledgeAlert(k) \/ ResolveAlert(k) \/ CancelAlert(k)
             \/ \E reason \in {0, 1} : SuppressAlert(k, reason)
      PROVE  AlertInv'
  BY <1>8, MovesHold
<1>9. ASSUME NEW k \in DOMAIN alerts, EscalateAlert(k) PROVE AlertInv'
  BY <1>9, EscalateHolds
<1>10. ASSUME NEW a \in 0..(sequence - 1), QueueNotification(a) PROVE AlertInv'
  <2>1. a \in Nat
    BY DEF AlertInv
  <2> QED BY <1>10, <2>1, QueuedHolds
<1>11. ASSUME NEW accepts \in [DOMAIN notices -> BOOLEAN], ProcessNotifications(accepts) PROVE AlertInv'
  BY <1>11, ProcessNotificationsHolds
<1> QED BY <1>1, <1>2, <1>3, <1>4, <1>5, <1>6, <1>7, <1>8, <1>9, <1>10, <1>11 DEF AlertNext

(* Who hears of an attack: an alert that is critical is not silenced       *)
(* without a reason, the counter of active ones accounts for what the ring *)
(* has lost, notifications go out in their order, each once; and nothing   *)
(* leaves by a channel its classification does not allow, more often than  *)
(* the policy says, or twice without an escalation (sec_alert.c,           *)
(* sec_notify.c).                                                          *)
THEOREM NoticesHold == SecuritySpec => []NoticesSafe
<1>1. SecurityInit => AlertInv /\ NotificationInv
  BY AlertStart, NotificationStart
<1>2. AlertInv /\ NotificationInv
      /\ [SecurityNext]_<<beforeVars, keyVaultVars, incidentVars, dispatchVars, afterVars, service>>
        => AlertInv' /\ NotificationInv'
  <2> SUFFICES ASSUME AlertInv, NotificationInv,
                      SecurityNext \/ UNCHANGED <<beforeVars, keyVaultVars, incidentVars, dispatchVars, afterVars, service>>
               PROVE  AlertInv' /\ NotificationInv'
    OBVIOUS
  <2>1. [AlertNext]_alertVars
    BY DEF SecurityNext, afterVars, AlertPart
  <2>2. [NotificationNext]_notificationVars
    BY DEF SecurityNext, afterVars, AlertPart
  <2> QED BY <2>1, <2>2, AlertStep, NotificationStep
<1>3. AlertInv /\ NotificationInv => NoticesSafe
  BY AlertImplied, NotificationImplied DEF NoticesSafe
<1> QED BY <1>1, <1>2, <1>3, PTL DEF SecuritySpec
=============================================================================
